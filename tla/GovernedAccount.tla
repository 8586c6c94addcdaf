--------------------------- MODULE GovernedAccount ----------------------------
(***************************************************************************)
(* GovernedPaperExecutionService (governed-paper-execution.service.ts):    *)
(* the entry gate and the fill arithmetic shared by the paper account and  *)
(* the pretest portfolios, as functions of an account.                     *)
(*                                                                         *)
(* Money is in hundredths of a price, and percentages are whole, so that   *)
(* costs with commission are exact.  Instead of avg_price a position keeps *)
(* its signed cost, avg_price * quantity.                                  *)
(***************************************************************************)
EXTENDS Integers, FiniteSets, Functions

CONSTANT Symbols

Larger(x, y) == IF x >= y THEN x ELSE y
Smaller(x, y) == IF x <= y THEN x ELSE y
Magnitude(x) == IF x >= 0 THEN x ELSE -x

\* The JSON of a portfolio row.  realised is history: the realized_pnl of
\* the exits that led to this account.
Opened(capital) ==
    [cash |-> capital, equity |-> capital, hwm |-> capital,
     qty |-> [s \in Symbols |-> 0], basis |-> [s \in Symbols |-> 0],
     day |-> 0, dayStart |-> 0, week |-> 0, weekStart |-> 0, realised |-> 0]

HeldIn(a) == {s \in Symbols : a.qty[s] # 0}
AtCost(a, others) == SumFunctionOnSet(a.basis, others)

\* Percent of the peak, compared without dividing.
DrawdownReaches(equity, hwm, pct) ==
    LET lost == IF hwm > 0 THEN Larger(0, hwm - equity) ELSE 0
    IN  IF hwm > 0 THEN 100 * lost >= pct * hwm ELSE 0 >= pct

\* quotes: a price for each held symbol, or 0 for one that cannot be priced.
MarkedEquity(a, quotes) ==
    IF HeldIn(a) = {} THEN a.equity
    ELSE a.cash + SumFunctionOnSet([s \in Symbols |-> 100 * quotes[s] * a.qty[s]], HeldIn(a))

Marked(a, quotes) == \A s \in HeldIn(a) : quotes[s] > 0

SyncPeriodBaselines(a, equity, day, week) ==
    [a EXCEPT !.day = day, !.dayStart = IF a.day # day THEN equity ELSE @,
              !.week = week, !.weekStart = IF a.week # week THEN equity ELSE @]

BaselineChanged(a, day, week) == a.day # day \/ a.week # week

\* A baseline that is missing or not positive lets everything pass.
PeriodLossReaches(start, equity, pct) ==
    start > 0 /\ 100 * (start - equity) >= pct * start

\* The gate of an entry: mark to market, baselines, loss breaker, drawdown,
\* number of positions.  The account it hands on is the one to fill.
EvaluateEntryGate(a, risk, quotes, day, week) ==
    LET equity == MarkedEquity(a, quotes)
        synced == SyncPeriodBaselines(a, equity, day, week)
        fresh == [synced EXCEPT !.equity = equity, !.hwm = Larger(@, equity)]
        lossTripped == risk.breaker /\ \/ PeriodLossReaches(synced.dayStart, equity, risk.daily)
                                       \/ PeriodLossReaches(synced.weekStart, equity, risk.weekly)
        refused == \/ DrawdownReaches(equity, fresh.hwm, risk.drawdown)
                   \/ Cardinality(HeldIn(fresh)) >= risk.positions
    IN  IF ~Marked(a, quotes) THEN [pass |-> FALSE, state |-> a, changed |-> FALSE]
        ELSE [pass |-> ~lossTripped /\ ~refused,
              state |-> IF lossTripped THEN synced ELSE fresh,
              changed |-> BaselineChanged(a, day, week)]

-----------------------------------------------------------------------------
ClampToPositionCeiling(qty, equity, price, pct) ==
    IF qty <= 0 THEN qty ELSE Smaller(qty, (equity * pct) \div (10000 * price))

ClampToShortNotionalCeiling(qty, equity, price, pct) ==
    IF qty <= 0 THEN qty ELSE Smaller(qty, (equity * pct) \div (10000 * price))

\* What a share costs with commission, in hundredths, and what a budget buys.
CostOf(price, fee) == price * (100 + fee)
Affordable(cash, sizing, price, fee) == (cash * sizing) \div (100 * CostOf(price, fee))

\* After a trade the symbol traded is valued at its price, others at cost.
Revalued(a, price, s) ==
    LET equity == a.cash + 100 * price * a.qty[s] + AtCost(a, Symbols \ {s})
    IN  [a EXCEPT !.equity = equity, !.hwm = Larger(@, equity)]

Untouched(a) == [quantity |-> 0, state |-> [a EXCEPT !.hwm = Larger(@, a.equity)]]

ExecuteLong(a, s, price, sizing, limits, fee) ==
    LET quantity == ClampToPositionCeiling(Affordable(a.cash, sizing, price, fee),
                                           a.equity, price, limits.position)
        cost == quantity * CostOf(price, fee)
    IN  IF a.qty[s] < 0 \/ quantity <= 0 THEN Untouched(a)
        ELSE [quantity |-> quantity,
              state |-> Revalued([a EXCEPT !.cash = @ - cost, !.qty[s] = @ + quantity,
                                           !.basis[s] = @ + cost], price, s)]

ExecuteShort(a, s, price, sizing, limits, fee) ==
    LET ceiled == ClampToPositionCeiling(Affordable(a.cash, sizing, price, fee),
                                         a.equity, price, limits.position)
        quantity == ClampToShortNotionalCeiling(ceiled, a.equity, price, limits.short)
        proceeds == quantity * price * (100 - fee)
    IN  IF a.qty[s] > 0 \/ quantity <= 0 THEN Untouched(a)
        ELSE [quantity |-> quantity,
              state |-> Revalued([a EXCEPT !.cash = @ + proceeds, !.qty[s] = @ - quantity,
                                           !.basis[s] = @ - proceeds], price, s)]

\* Mutant: the commission of an exit is taken twice, from cash and profit.
ExitWithoutCost(a, s, price, fee) ==
    LET proceeds == 100 * price * a.qty[s]
    IN  IF a.qty[s] = 0 THEN Untouched(a)
        ELSE [quantity |-> a.qty[s],
              state |-> Revalued([a EXCEPT !.cash = @ + proceeds, !.qty[s] = 0,
                                           !.basis[s] = 0,
                                           !.realised = @ + proceeds], price, s)]

\* Closes the whole position, long or short; the quantity keeps its sign.
ExecuteExit(a, s, price, fee) ==
    LET proceeds == 100 * price * a.qty[s]
        commission == fee * price * Magnitude(a.qty[s])
    IN  IF a.qty[s] = 0 THEN Untouched(a)
        ELSE [quantity |-> a.qty[s],
              state |-> Revalued([a EXCEPT !.cash = @ + proceeds - commission,
                                           !.qty[s] = 0, !.basis[s] = 0,
                                           !.realised = @ + proceeds - a.basis[s] - commission],
                                 price, s)]

ExecuteFill(action, s, price, a, sizing, limits, fee) ==
    IF action = "long" THEN ExecuteLong(a, s, price, sizing, limits, fee)
    ELSE IF action = "short" THEN ExecuteShort(a, s, price, sizing, limits, fee)
    ELSE IF action = "exit" THEN ExecuteExit(a, s, price, fee)
    ELSE Untouched(a)

\* A partial trade of a held position, outside the gate: a buy that does not
\* fit the cash is dropped, a sell stops at the quantity held.
ApplyRebalanceTrade(direction, s, wanted, price, a, fee) ==
    LET cost == wanted * CostOf(price, fee)
        sold == Smaller(wanted, a.qty[s])
        kept == (a.basis[s] * (a.qty[s] - sold)) \div a.qty[s]
        proceeds == sold * price * (100 - fee)
    IN  IF wanted <= 0 \/ price <= 0 THEN a
        ELSE IF direction = "buy"
        THEN IF cost > a.cash THEN a
             ELSE Revalued([a EXCEPT !.cash = @ - cost, !.qty[s] = @ + wanted,
                                     !.basis[s] = @ + cost], price, s)
        ELSE IF a.qty[s] <= 0 THEN a
        ELSE Revalued([a EXCEPT !.cash = @ + proceeds, !.qty[s] = @ - sold, !.basis[s] = kept,
                                !.realised = @ + proceeds - (a.basis[s] - kept)], price, s)
=============================================================================
