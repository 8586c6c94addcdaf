---------------------------- MODULE OrderPromise ----------------------------
(***************************************************************************)
(* What the order path promises of one order after another, whatever       *)
(* crashes, races or lost answers come in between:                         *)
(*   - an order is on record before it is sent, and it is sent once;       *)
(*   - the books learn a quantity only from what the broker has traded.    *)
(* The class comments of RealOrderService and RealBrokerReconciliation-    *)
(* Service call these crash safety, no blind resubmit and no fabricated    *)
(* fill.                                                                   *)
(***************************************************************************)
EXTENDS Naturals

CONSTANTS Orders, MaxQty

VARIABLES
    stage,   \* of each order: "free", "recorded", "sent", "taken" or "lost"
    traded,  \* what the broker has traded of it
    booked   \* what the books say was traded of it

promiseVars == <<stage, traded, booked>>

Init ==
    /\ stage = [o \in Orders |-> "free"]
    /\ traded = [o \in Orders |-> 0]
    /\ booked = [o \in Orders |-> 0]

Move(o, from, to) ==
    /\ stage[o] = from
    /\ stage' = [stage EXCEPT ![o] = to]
    /\ UNCHANGED <<traded, booked>>

Record(o) == Move(o, "free", "recorded")
Send(o) == Move(o, "recorded", "sent")
Take(o) == Move(o, "sent", "taken")
Lose(o) == Move(o, "sent", "lost")

Trade(o) ==
    /\ stage[o] = "taken"
    /\ \E q \in 1 .. MaxQty : q > traded[o] /\ traded' = [traded EXCEPT ![o] = q]
    /\ UNCHANGED <<stage, booked>>

Book(o) ==
    /\ stage[o] = "taken"
    /\ \E q \in 0 .. MaxQty : q =< traded[o] /\ booked' = [booked EXCEPT ![o] = q]
    /\ UNCHANGED <<stage, traded>>

Next == \E o \in Orders :
    Record(o) \/ Send(o) \/ Take(o) \/ Lose(o) \/ Trade(o) \/ Book(o)

Spec == Init /\ [][Next]_promiseVars
=============================================================================
