------------------------------ MODULE PretestBook ------------------------------
(***************************************************************************)
(* The virtual book of a pretest portfolio (pretest.service.ts): from the  *)
(* tool calls of a cycle to fills, and from fills to cash, positions and   *)
(* realized gains.  Commission, slippage and the borrow fee are zero; a    *)
(* position keeps quantity * avg_price as "basis" in place of avg_price.   *)
(***************************************************************************)
EXTENDS Integers, FiniteSets, Sequences, SequencesExt

CONSTANTS
    Assets,
    SIZING_DIVISOR,      \* 1 / sizing_pct
    MAX_OPEN_POSITIONS,
    MIN_TRADES, MIN_LOSS_TRADES  \* pretest.gate.*

ASSUME PretestBookAssumption ==
    /\ {SIZING_DIVISOR, MAX_OPEN_POSITIONS} \subseteq Nat \ {0}
    /\ {MIN_TRADES, MIN_LOSS_TRADES} \subseteq Nat
    /\ IsFiniteSet(Assets)

OpeningActions == {"long", "short"}
Call == [symbol : Assets, action : OpeningActions \cup {"exit"}]
NoPosition == [qty |-> 0, basis |-> 0]

DEFAULT_STATE(capital) ==
    [cash |-> capital, held |-> [s \in Assets |-> NoPosition], open |-> {},
     realized |-> 0, wins |-> 0, losses |-> 0,
     crossed |-> FALSE]  \* history: a buy has met a short position

-----------------------------------------------------------------------------
(* Fills *)

WithPosition(st, s, qty, basis) ==
    [st EXCEPT !.held[s] = [qty |-> qty, basis |-> basis], !.open = @ \cup {s}]

Closed(st, s) == [st EXCEPT !.held[s] = NoPosition, !.open = @ \ {s}]

Realize(st, pnl) ==
    [st EXCEPT !.realized = @ + pnl,
               !.wins = @ + (IF pnl > 0 THEN 1 ELSE 0),
               !.losses = @ + (IF pnl > 0 THEN 0 ELSE 1)]

\* A buy joins whatever the symbol holds, a short position too; a position
\* of quantity 0 stays listed, and its average price is not a number.
ApplyBuy(st, s, price, qty) ==
    LET total == st.held[s].qty + qty
        basis == IF total = 0 THEN 0 ELSE st.held[s].basis + price * qty
    IN  IF price * qty > st.cash THEN st
        ELSE WithPosition([st EXCEPT !.cash = @ - price * qty,
                                     !.crossed = @ \/ st.held[s].qty < 0], s, total, basis)

\* What is taken off a position takes its share of the basis with it.
ShareOf(position, qty, whole) == (position.basis * qty) \div whole

Reduced(st, s, qty, share) ==
    IF st.held[s].qty = qty THEN Closed(st, s)
    ELSE WithPosition(st, s, st.held[s].qty - qty, st.held[s].basis - share)

\* Mutant: the gain of a partial sale is counted against the whole basis.
ApplySellWhole(st, s, price, ordered) ==
    LET qty == Min({ordered, st.held[s].qty})
        share == ShareOf(st.held[s], qty, st.held[s].qty)
    IN  IF st.held[s].qty <= 0 THEN st
        ELSE Realize(Reduced([st EXCEPT !.cash = @ + price * qty], s, qty, share),
                     price * qty - st.held[s].basis)

ApplySell(st, s, price, ordered) ==
    LET qty == Min({ordered, st.held[s].qty})
        share == ShareOf(st.held[s], qty, st.held[s].qty)
    IN  IF st.held[s].qty <= 0 THEN st
        ELSE Realize(Reduced([st EXCEPT !.cash = @ + price * qty], s, qty, share),
                     price * qty - share)

ApplyShort(st, s, price, qty) ==
    IF st.held[s].qty > 0 THEN st
    ELSE WithPosition([st EXCEPT !.cash = @ + price * qty], s,
                      st.held[s].qty - qty, st.held[s].basis - price * qty)

ApplyCover(st, s, price, ordered) ==
    LET qty == Min({ordered, -st.held[s].qty})
        share == ShareOf([basis |-> -st.held[s].basis], qty, -st.held[s].qty)
    IN  IF st.held[s].qty >= 0 THEN st
        ELSE Realize(Reduced([st EXCEPT !.cash = @ - price * qty], s, -qty, -share),
                     share - price * qty)

\* What a call becomes, sized by the book as it was before any fill.  A
\* symbol without a price, or with an implausible one, has price 0.
Fill(st, call, price, throttle) ==
    LET s == call.symbol
        held == st.held[s].qty
        budget == IF throttle = 0 THEN 0 ELSE st.cash \div SIZING_DIVISOR
        none == [kind |-> "none", symbol |-> s, price |-> 0, qty |-> 0]
        kind == CASE call.action = "long" -> "buy"
                  [] call.action = "short" -> "short"
                  [] call.action = "exit" /\ held > 0 -> "sell"
                  [] call.action = "exit" /\ held < 0 -> "cover"
                  [] OTHER -> "none"
        qty == CASE kind \in {"buy", "short"} /\ budget >= 0 /\ price[s] > 0 -> budget \div price[s]
                 [] kind = "sell" -> held
                 [] kind = "cover" -> -held
                 [] OTHER -> 0
    IN  IF price[s] = 0 \/ qty = 0 THEN none
        ELSE [kind |-> kind, symbol |-> s, price |-> price[s], qty |-> qty]

SimulateFills(st, calls, price, throttle) ==
    [i \in DOMAIN calls |-> Fill(st, calls[i], price, throttle)]

ApplyFill(st, trade) ==
    CASE trade.kind = "buy"   -> ApplyBuy(st, trade.symbol, trade.price, trade.qty)
      [] trade.kind = "sell"  -> ApplySell(st, trade.symbol, trade.price, trade.qty)
      [] trade.kind = "short" -> ApplyShort(st, trade.symbol, trade.price, trade.qty)
      [] trade.kind = "cover" -> ApplyCover(st, trade.symbol, trade.price, trade.qty)
      [] OTHER -> st

ApplyTrades(st, trades) == FoldLeft(ApplyFill, st, trades)

\* Volatility target of nothing: every long position is sold, at its price.
RebalanceBook(st, price, throttle) ==
    LET longs == {s \in Assets : st.held[s].qty > 0 /\ price[s] > 0}
        sale(s) == [kind |-> "sell", symbol |-> s, price |-> price[s], qty |-> st.held[s].qty]
    IN  IF throttle = 1 THEN <<>> ELSE SetToSeq({sale(s) : s \in longs})

-----------------------------------------------------------------------------
(* The risk floor: every entry is looked at before any of them fills *)

FitsCeiling(st, reserved, s) ==
    \/ s \in st.open \cup reserved
    \/ Cardinality(st.open) + Cardinality(reserved) < MAX_OPEN_POSITIONS

\* calm: neither drawdown nor a period's loss halts entries this cycle.
EntryPasses(st, calm, reserved, call) ==
    /\ calm /\ Cardinality(st.open) < MAX_OPEN_POSITIONS
    /\ FitsCeiling(st, reserved, call.symbol)

FloorOf(st, calm, acc, call) ==
    IF call.action = "exit" THEN [acc EXCEPT !.kept = Append(@, call)]
    ELSE IF ~EntryPasses(st, calm, acc.reserved, call) THEN acc
    ELSE [kept |-> Append(acc.kept, call),
          reserved |-> acc.reserved \cup ({call.symbol} \ st.open)]

RiskFloor(st, calls, calm) ==
    FoldLeft(LAMBDA acc, call : FloorOf(st, calm, acc, call),
             [kept |-> <<>>, reserved |-> {}], calls).kept

\* One cycle over the book it has read: floor, fills, rebalance, application.
CycleOutcome(st, calls, price, calm, throttle) ==
    LET trades == SimulateFills(st, RiskFloor(st, calls, calm), price, throttle)
    IN  ApplyTrades(st, trades \o RebalanceBook(st, price, throttle))

\* Enough trades, losing ones among them; the other metrics only refuse more.
GateReady(st) == st.wins + st.losses >= MIN_TRADES /\ st.losses >= MIN_LOSS_TRADES
=============================================================================
