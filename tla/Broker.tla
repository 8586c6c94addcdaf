------------------------------- MODULE Broker -------------------------------
(***************************************************************************)
(* The broker, which is not under src/: what placeOrder, getOrderStatus,   *)
(* getOrderByClientId and cancelOrder of provider-gateway.service.ts allow *)
(* it to do with an order.  A request is on its way while the status is    *)
(* "sent", for as long as the network likes: the gateway stops waiting     *)
(* after 10 s and the order may be taken later all the same.               *)
(***************************************************************************)
EXTENDS RealTradingState

BrokerAccepts(o) ==
    /\ broker[o].status = "sent"
    /\ \E raw \in AcceptedAs : broker' = [broker EXCEPT ![o].status = raw]
    /\ UNCHANGED <<dbVars, memoryVars, processVars, faults>>

\* The request is refused, or never arrives.
BrokerDrops(o) ==
    /\ broker[o].status = "sent"
    /\ broker' = [broker EXCEPT ![o].status = "dropped"]
    /\ UNCHANGED <<dbVars, memoryVars, processVars, faults>>

BrokerFills(o) ==
    /\ Working(o)
    /\ \E q \in 1 .. MaxQty :
         /\ q > broker[o].qty
         /\ broker' = [broker EXCEPT ![o] =
                [qty |-> q,
                 status |-> IF q = MaxQty THEN "filled"
                            ELSE IF @.status = "pending_cancel" THEN "pending_cancel"
                            ELSE "partially_filled"]]
    /\ UNCHANGED <<dbVars, memoryVars, processVars, faults>>

BrokerEnds(o) ==
    /\ Working(o)
    /\ \E raw \in StopStatuses \cup {"canceled"} :
         /\ raw \in StopStatuses \/ broker[o].status = "pending_cancel"
         /\ broker' = [broker EXCEPT ![o].status = raw]
    /\ UNCHANGED <<dbVars, memoryVars, processVars, faults>>

\* What DELETE /orders/{id} does to an order; a 404 or a 422 changes nothing.
Cancelled(b) ==
    IF b.status \in BrokerAbsent \cup BrokerFinal THEN b
    ELSE [b EXCEPT !.status = IF PendingCancel THEN "pending_cancel" ELSE "canceled"]

BrokerStep ==
    \E o \in Orders :
        BrokerAccepts(o) \/ BrokerDrops(o) \/ BrokerFills(o) \/ BrokerEnds(o)
=============================================================================
