--------------------------- MODULE MCRealTrading ----------------------------
(* Instances of the real-money order path small enough for TLC. *)
EXTENDS RealTradingClaims, TLC

CONSTANTS o1, o2, i1, i2, c1, c2, t1

\* Every intent asks for the same symbol, broker and side.
OneSlot == [i \in Intents |-> "SPY buy"]

Symmetry == Permutations(Orders) \cup Permutations(Calls)
=============================================================================
