------------------------- MODULE RealReconciliation -------------------------
(***************************************************************************)
(* RealBrokerReconciliationService (real-broker-reconciliation.service.ts): *)
(* reconcileOrder() with the compare-and-set of applyBrokerOrder(), the    *)
(* two callers of it, fastPollOrder() and reconcileAllOpenOrders(), and    *)
(* the cancel requests of _cancelStaleOpenOrders().                        *)
(*                                                                         *)
(* A reconciler is a tick or the fast poll a call left behind; each has at *)
(* most one reconcileOrder() under way.                                    *)
(***************************************************************************)
EXTENDS RealOrderService

(* reconcileOrder().                                                       *)

\* The end of one reconcileOrder.  A fast poll goes on to its next attempt
\* unless it now reads a terminal status; a tick goes on to its next row.
AfterReconcile(r, rs) ==
    LET again == rec[r].left > 1 /\ rs[rec[r].order].status \notin ReconciledStatuses IN
    rec' = [rec EXCEPT ![r] =
              IF again THEN Reading(rec[r].order, rec[r].left - 1) ELSE IdleRec]

ReadRow(r) ==
    LET status == rows[rec[r].order].status IN
    /\ rec[r].pc = "read"
    /\ IF status \in ReconciledStatuses
       THEN AfterReconcile(r, rows)
       ELSE rec' = [rec EXCEPT ![r] = [@ EXCEPT !.pc = "lookup", !.seen = status]]
    /\ UNCHANGED <<dbVars, broker, memoryVars, call, sweep, tick, faults>>

\* The broker has no record of the order, or it is open with nothing
\* filled: nothing but last_reconciled_at is written.
LookupChangesNothing(r) ==
    LET o == rec[r].order IN
    /\ rec[r].pc = "lookup"
    /\ KnownToBroker(o) => Normalize(broker[o].status) = "accepted"
    /\ AfterReconcile(r, rows)
    /\ UNCHANGED <<dbVars, broker, memoryVars, call, sweep, tick, faults>>

\* The lookup throws, or reports a fill whose price or quantity is not a
\* positive number: again nothing is written.
LookupFails(r) ==
    /\ rec[r].pc = "lookup"
    /\ faults < MaxFaults
    /\ faults' = faults + 1
    /\ AfterReconcile(r, rows)
    /\ UNCHANGED <<dbVars, broker, memoryVars, call, sweep, tick>>

\* priced is isValidFillEvidence.  An answer that reports an end without a
\* price for what was filled before it is a bad one.
Lookup(r) ==
    LET o == rec[r].order  canonical == Normalize(broker[o].status) IN
    /\ rec[r].pc = "lookup"
    /\ KnownToBroker(o)
    /\ canonical # "accepted"
    /\ \E priced \in BOOLEAN :
         /\ rec' = [rec EXCEPT ![r] = [@ EXCEPT !.pc = "apply", !.status = canonical,
                                               !.qty = broker[o].qty, !.priced = priced]]
         /\ IF priced = (broker[o].qty > 0)
            THEN UNCHANGED faults
            ELSE /\ ~priced /\ canonical \in {"canceled", "rejected", "expired"}
                 /\ faults < MaxFaults
                 /\ faults' = faults + 1
    /\ UNCHANGED <<dbVars, broker, memoryVars, call, sweep, tick>>

\* Mutant: the end of an order counts as a fill without looking at the evidence.
IntentAfterAnyEnd(i, status, priced) ==
    IF status = "partially_filled" THEN intents[i] ELSE "executed"

\* What applyBrokerOrder writes to TradeIntent when its row write succeeds.
IntentAfter(i, status, priced) ==
    CASE status = "partially_filled" -> intents[i]
      [] priced                      -> "executed"
      [] OTHER                       -> "failed"

\* Mutant: update by id, without comparing the status that was read.
ApplyUncompared(r) ==
    LET o == rec[r].order  i == rows[o].intent  status == rec[r].status IN
    /\ rec[r].pc = "apply"
    /\ IndexAllows(o, status)
    /\ rows' = [rows EXCEPT ![o] = [@ EXCEPT !.status = status, !.qty = rec[r].qty]]
    /\ intents' = [intents EXCEPT ![i] = IntentAfter(i, status, rec[r].priced)]
    /\ AfterReconcile(r, rows')
    /\ UNCHANGED <<halted, broker, memoryVars, call, sweep, tick, faults>>

\* updateMany where status is the one read: the row and its intent change
\* together or not at all.
ApplyBrokerOrder(r) ==
    LET o == rec[r].order  i == rows[o].intent  status == rec[r].status IN
    /\ rec[r].pc = "apply"
    /\ rows[o].status = rec[r].seen
    /\ IndexAllows(o, status)
    /\ rows' = [rows EXCEPT ![o] = [@ EXCEPT !.status = status, !.qty = rec[r].qty]]
    /\ intents' = [intents EXCEPT ![i] = IntentAfter(i, status, rec[r].priced)]
    /\ AfterReconcile(r, rows')
    /\ UNCHANGED <<halted, broker, memoryVars, call, sweep, tick, faults>>

\* The row has moved on since it was read, or the index rejects the write.
ApplySkipped(r) ==
    LET o == rec[r].order IN
    /\ rec[r].pc = "apply"
    /\ rows[o].status # rec[r].seen \/ ~IndexAllows(o, rec[r].status)
    /\ AfterReconcile(r, rows)
    /\ UNCHANGED <<dbVars, broker, memoryVars, call, sweep, tick, faults>>

ReconcileStep(r) ==
    \/ ReadRow(r) \/ LookupChangesNothing(r) \/ LookupFails(r) \/ Lookup(r)
    \/ ApplyBrokerOrder(r) \/ ApplySkipped(r)

-----------------------------------------------------------------------------
(* fastPollOrder() and reconcileAllOpenOrders().                           *)

Polling(o) == Reading(o, FastPolls)

TickStarts(t) ==
    /\ tick[t].pc = "idle"
    /\ tick' = [tick EXCEPT ![t].pc = "sweep"]
    /\ sweep' = [sweep EXCEPT ![t] = Recovering]
    /\ UNCHANGED <<dbVars, broker, memoryVars, call, rec, faults>>

\* onModuleInit's own sweep is over.
BootSweepOver(t) ==
    /\ tick[t].pc = "boot"
    /\ sweep[t].pc = "idle"
    /\ tick' = [tick EXCEPT ![t].pc = "idle"]
    /\ UNCHANGED <<dbVars, broker, memoryVars, call, sweep, rec, faults>>

\* Whether the sweep ended or threw, the tick goes on.  Which of the open
\* submitted rows are older than the timeout is left open.
ListStaleOrders(t) ==
    /\ tick[t].pc = "sweep"
    /\ sweep[t].pc = "idle"
    /\ \E stale \in SUBSET {o \in WithStatus(OpenStatuses) : rows[o].cancellable} :
         tick' = [tick EXCEPT ![t] = [pc |-> "cancel", todo |-> stale]]
    /\ UNCHANGED <<dbVars, broker, memoryVars, call, sweep, rec, faults>>

\* cancelOrder changes no row; when the request fails it changes nothing.
CancelStaleOrder(t) ==
    /\ tick[t].pc = "cancel"
    /\ \E o \in tick[t].todo :
         /\ broker' \in {broker, [broker EXCEPT ![o] = Cancelled(@)]}
         /\ tick' = [tick EXCEPT ![t].todo = @ \ {o}]
    /\ UNCHANGED <<dbVars, memoryVars, call, sweep, rec, faults>>

ListOpenOrders(t) ==
    /\ tick[t].pc = "cancel"
    /\ tick[t].todo = {}
    /\ tick' = [tick EXCEPT ![t] = [pc |-> "reconcile", todo |-> WithStatus(OpenStatuses)]]
    /\ UNCHANGED <<dbVars, broker, memoryVars, call, sweep, rec, faults>>

ReconcileNext(t) ==
    /\ tick[t].pc = "reconcile"
    /\ rec[t].pc = "idle"
    /\ \E o \in tick[t].todo :
         /\ rec' = [rec EXCEPT ![t] = Reading(o, 0)]
         /\ tick' = [tick EXCEPT ![t].todo = @ \ {o}]
    /\ UNCHANGED <<dbVars, broker, memoryVars, call, sweep, faults>>

TickEnds(t) ==
    /\ tick[t].pc = "reconcile"
    /\ tick[t].todo = {}
    /\ rec[t].pc = "idle"
    /\ tick' = [tick EXCEPT ![t].pc = "idle"]
    /\ UNCHANGED <<dbVars, broker, memoryVars, call, sweep, rec, faults>>

TickStep(t) ==
    \/ TickStarts(t) \/ BootSweepOver(t) \/ ListStaleOrders(t) \/ CancelStaleOrder(t)
    \/ ListOpenOrders(t) \/ ReconcileNext(t) \/ TickEnds(t)
=============================================================================
