--------------------------- MODULE GovernedLedger -----------------------------
(***************************************************************************)
(* One account under the operations of GovernedPaperExecutionService that  *)
(* evaluate and fill in one call, evaluateAndExecuteEntry() and            *)
(* applyRebalanceTrade(), over days and weeks and any quotes.              *)
(***************************************************************************)
EXTENDS GovernedAccount, TLC

CONSTANTS
    Prices,      \* what a share can be quoted at, whole and above 0
    Capital,     \* the account at the start, in hundredths
    Limits,      \* the RiskPolicy and the ceilings of the FillPolicy
    Sizing,      \* FillPolicy.sizingPct
    Fee,         \* FillPolicy.commissionPct
    Slippage,    \* FillPolicy.slippagePct, in whole prices
    DaysPerWeek, \* 7 in the code
    MaxDate,     \* bound: days
    MaxTrades    \* bound: operations

ASSUME GovernedLedgerAssumption ==
    /\ Prices \subseteq Nat \ {0}
    /\ {Capital, DaysPerWeek, MaxDate, MaxTrades} \subseteq Nat \ {0}
    /\ {Sizing, Fee, Slippage} \subseteq Nat
    /\ \A p \in Prices : Slippage < p  \* slippagePct is below 100
    /\ {Limits.position, Limits.short, Limits.drawdown, Limits.daily, Limits.weekly} \subseteq Nat
    /\ IsFiniteSet(Symbols)

VARIABLES
    ledger,    \* the account
    date,      \* days since the first
    trades     \* operations so far

ledgerVars == <<ledger, date, trades>>

WeekOf(d) == (d \div DaysPerWeek) + 1

LedgerTypeOK ==
    /\ ledger.qty \in [Symbols -> Int] /\ ledger.basis \in [Symbols -> Int]
    /\ {ledger.cash, ledger.equity, ledger.hwm, ledger.realised} \subseteq Int
    /\ {ledger.day, ledger.week, ledger.dayStart, ledger.weekStart} \subseteq Int
    /\ date \in 1 .. MaxDate
    /\ trades \in 0 .. MaxTrades

LedgerInit ==
    /\ ledger = Opened(Capital)
    /\ date = 1 /\ trades = 0

\* Buys fill above the quote and sells below it; the cover of a short buys.
FillPrice(action, s, a, last) ==
    IF action = "long" \/ (action = "exit" /\ a.qty[s] < 0)
    THEN last + Slippage ELSE last - Slippage

\* evaluateAndExecuteEntry: hold, the gate, the quote, the fill.  A price of
\* 0 in quotes is a provider that fails.
EvaluateAndExecuteEntry ==
    \E action \in {"long", "short", "exit", "hold"}, s \in Symbols,
       quotes \in [Symbols -> Prices \cup {0}] :
      LET gate == EvaluateEntryGate(ledger, Limits, quotes, date, WeekOf(date))
          a == IF action \in {"long", "short"} THEN gate.state ELSE ledger
          passes == action \in {"long", "short"} => gate.pass
          priced == action = "hold" \/ quotes[s] > 0
      IN  /\ trades < MaxTrades
          /\ ledger' = IF passes /\ priced
                       THEN ExecuteFill(action, s, FillPrice(action, s, a, quotes[s]), a,
                                        Sizing, Limits, Fee).state
                       ELSE a
          /\ trades' = trades + 1
          /\ UNCHANGED date

Rebalance ==
    \E direction \in {"buy", "sell"}, s \in Symbols, price \in Prices, wanted \in 1 .. 2 :
      /\ trades < MaxTrades
      /\ ledger' = ApplyRebalanceTrade(direction, s, wanted, price, ledger, Fee)
      /\ trades' = trades + 1
      /\ UNCHANGED date

NextDay ==
    /\ date < MaxDate
    /\ date' = date + 1
    /\ UNCHANGED <<ledger, trades>>

LedgerNext == EvaluateAndExecuteEntry \/ Rebalance \/ NextDay

LedgerSpec == LedgerInit /\ [][LedgerNext]_ledgerVars

-----------------------------------------------------------------------------
\* No trade, gate or rollover makes or loses money: cash and the cost of the
\* open positions are the capital and the profit realised.
LedgerBalances == ledger.cash + AtCost(ledger, Symbols) = Capital + ledger.realised

=============================================================================
