------------------------- MODULE RealTradingClaims --------------------------
(***************************************************************************)
(* What comments of the source say of the order path and some interleaving *)
(* of it does not keep.  Each definition quotes the comment; the run that  *)
(* checks it ends in a counterexample, which the README tells.             *)
(***************************************************************************)
EXTENDS RealTrading

\* "A fill must never appear on one side of the ledger without the other"
\* (real-broker-reconciliation.service.ts:5): a filled row's intent says
\* executed.
FillOnBothSides ==
    \A o \in Orders : rows[o].status = "filled" => intents[rows[o].intent] = "executed"

\* "RealOrder statuses that can never receive further broker activity"
\* (broker-status.util.ts:37): an ended row's order no longer works.
EndedRowIsFinal == \A o \in Orders : Ended(rows, o) => ~Working(o)

\* "submit() is idempotent per trade_intent_id" (real-order.service.ts:19): an
\* intent has one order working at the broker, or traded, at a time.
OneBrokerOrderPerIntent ==
    \A o, p \in Orders :
        /\ Working(o) \/ broker[o].qty > 0
        /\ Working(p) \/ broker[p].qty > 0
        /\ rows[o].intent = rows[p].intent
        => o = p
=============================================================================
