-------------------------- MODULE RealOrderService --------------------------
(***************************************************************************)
(* RealOrderService (apps/api/src/real-order/real-order.service.ts):       *)
(* submit(), which creates a row before it talks to the broker, and        *)
(* recoverInflight(), the sweep that asks the broker about the rows whose  *)
(* submission was never confirmed.                                         *)
(*                                                                         *)
(* One action is what the code does between two awaits.  A call of         *)
(* submit() is one element of Calls, whose record holds the code's local   *)
(* variables; a run of recoverInflight() belongs to one element of Ticks.  *)
(***************************************************************************)
EXTENDS Broker

At(c, place) == call[c].pc = place
Goto(c, place) == call' = [call EXCEPT ![c].pc = place]
Return(c, o) == call' = [call EXCEPT ![c] = [@ EXCEPT !.pc = "settle", !.order = o]]

-----------------------------------------------------------------------------
(* submit().  A call that goes to "settle" returns its row, one that goes  *)
(* to "fail" returns a submit_failed row or throws.                        *)

FindActiveOrderForIntent(c) ==
    /\ At(c, "by_intent")
    /\ \/ \E o \in ActiveFor(call[c].intent) : Return(c, o)
       \/ ActiveFor(call[c].intent) = {} /\ Goto(c, "by_symbol")
    /\ UNCHANGED <<dbVars, broker, memoryVars, sweep, rec, tick, faults>>

FindActiveOrderForSymbol(c) ==
    LET found == ActiveInSlot(SlotOf[call[c].intent]) IN
    /\ At(c, "by_symbol")
    /\ \/ \E o \in found : Return(c, o)
       \/ found = {} /\ Goto(c, "create")
    /\ UNCHANGED <<dbVars, broker, memoryVars, sweep, rec, tick, faults>>

CreateRow(c) ==
    /\ At(c, "create")
    /\ ActiveFor(call[c].intent) = {}
    /\ \E o \in Orders :
         /\ ~Exists(o)
         /\ rows' = [rows EXCEPT ![o] = NewRow(call[c].intent)]
         /\ call' = [call EXCEPT ![c] = [@ EXCEPT !.pc = "place", !.order = o]]
    /\ UNCHANGED <<intents, halted, broker, memoryVars, sweep, rec, tick, faults>>

\* create() throws: P2002 when the index holds an active row of the intent,
\* anything else otherwise, and submit() rethrows that.
CreateThrows(c) ==
    /\ At(c, "create")
    /\ Goto(c, IF ActiveFor(call[c].intent) # {} THEN "race" ELSE "fail")
    /\ UNCHANGED <<dbVars, broker, memoryVars, sweep, rec, tick, faults>>

RefetchRaceWinner(c) ==
    /\ At(c, "race")
    /\ \/ \E o \in ActiveFor(call[c].intent) : Return(c, o)
       \/ ActiveFor(call[c].intent) = {} /\ Goto(c, "fail")
    /\ UNCHANGED <<dbVars, broker, memoryVars, sweep, rec, tick, faults>>

PlaceOrder(c) ==
    /\ At(c, "place")
    /\ broker' = [broker EXCEPT ![call[c].order].status = "sent"]
    /\ Goto(c, "placing")
    /\ UNCHANGED <<dbVars, memoryVars, sweep, rec, tick, faults>>

PlaceOrderReturns(c) ==
    /\ At(c, "placing")
    /\ KnownToBroker(call[c].order)
    /\ failures' = 0
    /\ Goto(c, "mark_submitted")
    /\ UNCHANGED <<dbVars, broker, absent, sweep, rec, tick, faults>>

\* Mutant: a placement that timed out is tried again with the same id.
PlaceOrderThrowsAndRetries(c) ==
    /\ At(c, "placing")
    /\ Goto(c, "place")
    /\ UNCHANGED <<dbVars, broker, memoryVars, sweep, rec, tick, faults>>

\* placeOrder throws: the broker refused, or no answer came within 10 s and
\* the order may be at the broker all the same, or reach it later.  The
\* timestamps that have left the window are dropped first.
PlaceOrderThrows(c) ==
    /\ At(c, "placing")
    /\ \E recent \in 0 .. failures :
         /\ failures' = IF recent < SubmitFailureThreshold THEN recent + 1 ELSE recent
         /\ Goto(c, IF failures' >= SubmitFailureThreshold THEN "halt" ELSE "mark_failed")
    /\ UNCHANGED <<dbVars, broker, absent, sweep, rec, tick, faults>>

\* haltRealExecution; a failed KV write is logged and nothing more.
TripHalt(c) ==
    /\ At(c, "halt")
    /\ halted' \in {halted, TRUE}
    /\ Goto(c, "mark_failed")
    /\ UNCHANGED <<rows, intents, broker, memoryVars, sweep, rec, tick, faults>>

\* Both writes go to the row by its id alone.  When one fails, submit()
\* returns the row as create() returned it, pending_submit.
MarkSubmitted(c) ==
    LET o == call[c].order IN
    /\ At(c, "mark_submitted")
    /\ IndexAllows(o, "submitted")
    /\ rows' = [rows EXCEPT ![o] = [@ EXCEPT !.status = "submitted", !.cancellable = TRUE]]
    /\ Return(c, o)
    /\ UNCHANGED <<intents, halted, broker, memoryVars, sweep, rec, tick, faults>>

MarkFailed(c) ==
    /\ At(c, "mark_failed")
    /\ rows' = [rows EXCEPT ![call[c].order].status = "submit_failed"]
    /\ Goto(c, "fail")
    /\ UNCHANGED <<intents, halted, broker, memoryVars, sweep, rec, tick, faults>>

MarkThrows(c) ==
    /\ At(c, "mark_submitted") \/ At(c, "mark_failed")
    /\ Goto(c, "settle")
    /\ UNCHANGED <<dbVars, broker, memoryVars, sweep, rec, tick, faults>>

SubmitStep(c) ==
    \/ FindActiveOrderForIntent(c) \/ FindActiveOrderForSymbol(c)
    \/ CreateRow(c) \/ CreateThrows(c) \/ RefetchRaceWinner(c)
    \/ PlaceOrder(c) \/ PlaceOrderReturns(c) \/ PlaceOrderThrows(c) \/ TripHalt(c)
    \/ MarkSubmitted(c) \/ MarkFailed(c) \/ MarkThrows(c)

-----------------------------------------------------------------------------
(* recoverInflight().  The rows are those the first query returned; their  *)
(* later statuses are not looked at again.                                 *)

Swept(t, o) == [sweep EXCEPT ![t].todo = @ \ {o}]
ToWrite(t, o, status) ==
    [sweep EXCEPT ![t] = [pc |-> "write", todo |-> @.todo \ {o}, order |-> o, write |-> status]]

SweepLookupThrows(t, o) ==
    /\ faults < MaxFaults
    /\ faults' = faults + 1
    /\ absent' = [absent EXCEPT ![o] = 0]
    /\ sweep' = Swept(t, o)

\* Mutant: the sweep before the escalation fix, which leaves the row for ever.
SweepFindsNothingForEver(t, o) ==
    /\ ~KnownToBroker(o)
    /\ sweep' = Swept(t, o)
    /\ UNCHANGED <<absent, faults>>

\* Mutant: the count is compared before it is raised.
SweepFindsNothingOnceMore(t, o) ==
    /\ ~KnownToBroker(o)
    /\ IF absent[o] < AbsentThreshold
       THEN /\ absent' = [absent EXCEPT ![o] = @ + 1]
            /\ sweep' = Swept(t, o)
       ELSE /\ absent' = [absent EXCEPT ![o] = 0]
            /\ sweep' = ToWrite(t, o, "confirmed_absent")
    /\ UNCHANGED faults

\* _handleConfirmedAbsent.
SweepFindsNothing(t, o) ==
    /\ ~KnownToBroker(o)
    /\ IF absent[o] + 1 < AbsentThreshold
       THEN /\ absent' = [absent EXCEPT ![o] = @ + 1]
            /\ sweep' = Swept(t, o)
       ELSE /\ absent' = [absent EXCEPT ![o] = 0]
            /\ sweep' = ToWrite(t, o, "confirmed_absent")
    /\ UNCHANGED faults

\* Mutant: the raw status goes to the row, as it did before normalizeBrokerStatus.
SweepFindsOrderRaw(t, o) ==
    /\ KnownToBroker(o)
    /\ absent' = [absent EXCEPT ![o] = 0]
    /\ sweep' = ToWrite(t, o, broker[o].status)
    /\ UNCHANGED faults

SweepFindsOrder(t, o) ==
    /\ KnownToBroker(o)
    /\ absent' = [absent EXCEPT ![o] = 0]
    /\ sweep' = ToWrite(t, o, PollableStatus(Normalize(broker[o].status)))
    /\ UNCHANGED faults

SweepLookup(t) ==
    /\ sweep[t].pc = "lookup"
    /\ \E o \in sweep[t].todo :
         SweepLookupThrows(t, o) \/ SweepFindsNothing(t, o) \/ SweepFindsOrder(t, o)
    /\ UNCHANGED <<dbVars, broker, failures, call, rec, tick>>

\* The write of recoverRow and of the escalation: by id, whatever the status
\* of the row has become.
SweepWrite(t) ==
    LET o == sweep[t].order IN
    /\ sweep[t].pc = "write"
    /\ IndexAllows(o, sweep[t].write)
    /\ rows' = [rows EXCEPT ![o].status = sweep[t].write]
    /\ sweep' = [sweep EXCEPT ![t] = Looking(sweep[t].todo)]
    /\ UNCHANGED <<intents, halted, broker, memoryVars, call, rec, tick, faults>>

\* The index rejects the write.  recoverRow does not catch it: the exception
\* ends the whole sweep, with the rows that were still to be looked up.
SweepAborts(t) ==
    /\ sweep[t].pc = "write"
    /\ ~IndexAllows(sweep[t].order, sweep[t].write)
    /\ sweep' = [sweep EXCEPT ![t] = IdleSweep]
    /\ UNCHANGED <<dbVars, broker, memoryVars, call, rec, tick, faults>>

SweepEnds(t) ==
    /\ sweep[t].pc = "lookup"
    /\ sweep[t].todo = {}
    /\ sweep' = [sweep EXCEPT ![t] = IdleSweep]
    /\ UNCHANGED <<dbVars, broker, memoryVars, call, rec, tick, faults>>

SweepStep(t) == SweepLookup(t) \/ SweepWrite(t) \/ SweepAborts(t) \/ SweepEnds(t)

\* recoverInflight's first query.
Recovering == Looking(WithStatus(RecoverableStatuses))
=============================================================================
