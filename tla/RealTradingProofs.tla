------------------------- MODULE RealTradingProofs --------------------------
(***************************************************************************)
(* Theorems about RealTrading, for every number of orders, intents, calls, *)
(* ticks and faults.                                                       *)
(***************************************************************************)
EXTENDS RealTrading, TLAPS

OrderPlaces == {"place", "placing", "halt", "mark_submitted", "mark_failed", "settle"}

Recorded(o) == o \in Orders /\ Exists(o)

\* A row belongs to an intent.
RowsInv == \A o \in Orders : Exists(o) => rows[o].intent \in Intents

\* What a process holds in its local variables is on record.
CallsInv ==
    \A c \in Calls :
       /\ call[c].pc \notin {"idle", "done"} => call[c].intent \in Intents
       /\ call[c].pc \in OrderPlaces => Recorded(call[c].order)

SweepsInv ==
    \A t \in Ticks :
       /\ \A o \in sweep[t].todo \cup tick[t].todo : Exists(o)
       /\ sweep[t].pc = "write" => Recorded(sweep[t].order) /\ sweep[t].write # "none"

ReconcilersInv ==
    \A r \in Reconcilers :
       /\ rec[r].pc # "idle" => Recorded(rec[r].order)
       /\ rec[r].pc = "apply" => rec[r].status \notin {"none", "accepted"}

LocalsInv == RowsInv /\ CallsInv /\ SweepsInv /\ ReconcilersInv

-----------------------------------------------------------------------------
(* Type correctness.                                                       *)

\* The bounds are the numbers their comments say.
LEMMA Sizes ==
    /\ MaxQty \in Nat \ {0}
    /\ SubmitFailureThreshold \in Nat \ {0}
    /\ AbsentThreshold \in Nat \ {0}
    /\ FastPolls \in Nat \ {0}
    /\ MaxFaults \in Nat
BY StateAssumption

\* What the constructors build has its type.
LEMMA RecordsTyped ==
    /\ NoRow \in Row /\ IdleCall \in Call /\ IdleSweep \in Sweep /\ IdleRec \in Reconciliation
    /\ \A i \in Intents : NewRow(i) \in Row
    /\ \A o \in Orders, n \in 0 .. FastPolls : Reading(o, n) \in Reconciliation
    /\ \A todo \in SUBSET Orders : Looking(todo) \in Sweep
<1>1. NoRow \in Row /\ \A i \in Intents : NewRow(i) \in Row
  BY Sizes DEF NoRow, NewRow, Row, RowStatuses, RecoverableStatuses
<1>2. IdleRec \in Reconciliation /\ \A o \in Orders, n \in 0 .. FastPolls : Reading(o, n) \in Reconciliation
  BY Sizes DEF IdleRec, Reading, Reconciliation
<1>3. IdleSweep \in Sweep /\ \A todo \in SUBSET Orders : Looking(todo) \in Sweep
  BY DEF IdleSweep, Looking, Sweep, SweepWrites
<1> QED BY <1>1, <1>2, <1>3 DEF IdleCall, Call, CallPlaces

\* normalizeBrokerStatus and recoverRow speak the shared vocabulary only.
LEMMA StatusesTyped ==
    \A raw : /\ Normalize(raw) \in Canonical
             /\ PollableStatus(Normalize(raw)) \in {"accepted", "partially_filled"}
BY DEF Normalize, PollableStatus, Canonical, CanonicalTerminal

\* The first state is typed.
LEMMA InitTyped == Init => TypeOK
<1> SUFFICES ASSUME Init PROVE TypeOK OBVIOUS
<1>1. rows \in [Orders -> Row] /\ intents \in [Intents -> IntentStatuses] /\ halted \in BOOLEAN
  BY RecordsTyped DEF Init, IntentStatuses
<1>2. broker \in [Orders -> BrokerOrder] 
  BY Sizes DEF Init, BrokerOrder, BrokerStatuses, BrokerAbsent
<1>3. /\ failures \in 0 .. SubmitFailureThreshold
      /\ absent \in [Orders -> 0 .. AbsentThreshold - 1]
      /\ faults \in 0 .. MaxFaults
  BY Sizes DEF Init
<1>4. call \in [Calls -> Call] /\ sweep \in [Ticks -> Sweep] /\ rec \in [Reconcilers -> Reconciliation]
  BY RecordsTyped DEF Init
<1>5. tick \in [Ticks -> Tick]
  BY DEF Init, Tick
<1> QED BY <1>1, <1>2, <1>3, <1>4, <1>5 DEF TypeOK

\* A call that moves on, or returns a row, keeps its type.
LEMMA CallMoves ==
    ASSUME TypeOK, NEW c \in Calls
    PROVE  /\ \A place \in CallPlaces : Goto(c, place) => call' \in [Calls -> Call]
           /\ \A o \in Orders : Return(c, o) => call' \in [Calls -> Call]
<1>1. ASSUME NEW place \in CallPlaces, Goto(c, place) PROVE call' \in [Calls -> Call]
  BY <1>1 DEF TypeOK, Goto, Call
<1>2. ASSUME NEW o \in Orders, Return(c, o) PROVE call' \in [Calls -> Call]
  <2>1. call[c] \in Call /\ call \in [Calls -> Call]
    BY DEF TypeOK
  <2>2. PICK pc \in CallPlaces : call' = [call EXCEPT ![c] = [@ EXCEPT !.pc = pc, !.order = o]]
    BY <1>2 DEF Return, CallPlaces
  <2>3. [call[c] EXCEPT !.pc = pc, !.order = o] \in Call
    BY <2>1 DEF Call
  <2> QED BY <2>1, <2>2, <2>3
<1> QED BY <1>1, <1>2

\* Past create(), a call holds a row that exists.
LEMMA OrderInHand ==
    ASSUME LocalsInv, NEW c \in Calls, call[c].pc \in OrderPlaces
    PROVE  Recorded(call[c].order)
BY DEF LocalsInv, CallsInv

\* submit() and its caller keep the types.
LEMMA CallStepTyped ==
    ASSUME TypeOK, LocalsInv, NEW c \in Calls, CallStep(c)
    PROVE  TypeOK'
<1>1. CASE Begin(c)
  <2>1. PICK i \in Intents : call' = [call EXCEPT ![c] = [@ EXCEPT !.pc = "gate", !.intent = i]]
    BY <1>1 DEF Begin
  <2>2. call' \in [Calls -> Call]
    BY <2>1 DEF TypeOK, Call, CallPlaces
  <2> QED BY <1>1, <2>2 DEF TypeOK, Begin, dbVars, memoryVars
<1>2. CASE GatePasses(c)
  BY <1>2, CallMoves DEF TypeOK, GatePasses, CallPlaces, dbVars, memoryVars
<1>3. CASE GateRefuses(c)
  BY <1>3, CallMoves DEF TypeOK, GateRefuses, CallPlaces, dbVars, memoryVars
<1>4. CASE FailIntent(c) \/ RejectIntent(c) \/ SettleIntent(c)
  <2>1. call' \in [Calls -> Call]
    BY <1>4, CallMoves DEF FailIntent, RejectIntent, SettleIntent, Decide, CallPlaces
  <2>2. intents' \in [Intents -> IntentStatuses]
    BY <1>4 DEF TypeOK, FailIntent, RejectIntent, SettleIntent, Decide, IntentStatuses
  <2>3. rec' \in [Reconcilers -> Reconciliation]
    <3>1. CASE SettleIntent(c)
      <4>1. Polling(call[c].order) \in Reconciliation
        BY <3>1, OrderInHand, RecordsTyped, Sizes DEF SettleIntent, At, OrderPlaces, Recorded, Polling
      <4> QED BY <3>1, <4>1 DEF TypeOK, SettleIntent, Reconcilers
    <3> QED BY <1>4, <3>1 DEF TypeOK, FailIntent, RejectIntent
  <2> QED
    BY <1>4, <2>1, <2>2, <2>3
    DEF TypeOK, FailIntent, RejectIntent, SettleIntent, Decide, memoryVars
<1>5. CASE FindActiveOrderForIntent(c)
  BY <1>5, CallMoves DEF TypeOK, FindActiveOrderForIntent, ActiveFor, CallPlaces, dbVars, memoryVars
<1>6. CASE FindActiveOrderForSymbol(c)
  BY <1>6, CallMoves DEF TypeOK, FindActiveOrderForSymbol, ActiveInSlot, CallPlaces, dbVars, memoryVars
<1>7. CASE CreateRow(c)
  <2>1. PICK o \in Orders :
          /\ rows' = [rows EXCEPT ![o] = NewRow(call[c].intent)]
          /\ call' = [call EXCEPT ![c] = [@ EXCEPT !.pc = "place", !.order = o]]
    BY <1>7 DEF CreateRow
  <2>2. call[c].intent \in Intents
    BY <1>7 DEF CreateRow, At, LocalsInv, CallsInv
  <2>3. rows' \in [Orders -> Row]
    BY <2>1, <2>2, RecordsTyped DEF TypeOK
  <2>4. call' \in [Calls -> Call]
    BY <2>1 DEF TypeOK, Call, CallPlaces
  <2> QED BY <1>7, <2>3, <2>4 DEF TypeOK, CreateRow, memoryVars
<1>8. CASE CreateThrows(c)
  BY <1>8, CallMoves DEF TypeOK, CreateThrows, CallPlaces, dbVars, memoryVars
<1>9. CASE RefetchRaceWinner(c)
  BY <1>9, CallMoves DEF TypeOK, RefetchRaceWinner, ActiveFor, CallPlaces, dbVars, memoryVars
<1>10. CASE PlaceOrder(c)
  <2>1. broker' \in [Orders -> BrokerOrder]
    BY <1>10 DEF TypeOK, PlaceOrder, BrokerOrder, BrokerStatuses, BrokerAbsent
  <2> QED BY <1>10, <2>1, CallMoves DEF TypeOK, PlaceOrder, CallPlaces, dbVars, memoryVars
<1>11. CASE PlaceOrderReturns(c)
  BY <1>11, CallMoves, Sizes DEF TypeOK, PlaceOrderReturns, CallPlaces, dbVars
<1>12. CASE PlaceOrderThrows(c)
  <2>1. failures' \in 0 .. SubmitFailureThreshold
    BY <1>12, Sizes DEF TypeOK, PlaceOrderThrows
  <2> QED BY <1>12, <2>1, CallMoves DEF TypeOK, PlaceOrderThrows, CallPlaces, dbVars
<1>13. CASE TripHalt(c)
  BY <1>13, CallMoves DEF TypeOK, TripHalt, CallPlaces, memoryVars
<1>14. CASE MarkSubmitted(c) \/ MarkFailed(c)
  <2>1. call[c].order \in Orders
    BY <1>14, OrderInHand DEF MarkSubmitted, MarkFailed, At, OrderPlaces, Recorded
  <2>2. rows' \in [Orders -> Row]
    <3> DEFINE o == call[c].order
    <3>0. rows[o] \in Row /\ rows \in [Orders -> Row]
      BY <2>1 DEF TypeOK
    <3>1. CASE MarkSubmitted(c)
      <4>1. [rows[o] EXCEPT !.status = "submitted", !.cancellable = TRUE] \in Row
        BY <3>0 DEF Row, RowStatuses, OpenStatuses
      <4> QED BY <2>1, <3>0, <3>1, <4>1 DEF MarkSubmitted
    <3>2. CASE MarkFailed(c)
      <4>1. [rows[o] EXCEPT !.status = "submit_failed"] \in Row
        BY <3>0 DEF Row, RowStatuses, RecoverableStatuses
      <4> QED BY <2>1, <3>0, <3>2, <4>1 DEF MarkFailed
    <3> QED BY <1>14, <3>1, <3>2
  <2>3. call' \in [Calls -> Call]
    BY <1>14, <2>1, CallMoves DEF MarkSubmitted, MarkFailed, CallPlaces
  <2> QED BY <1>14, <2>2, <2>3 DEF TypeOK, MarkSubmitted, MarkFailed, memoryVars
<1>15. CASE MarkThrows(c)
  BY <1>15, CallMoves DEF TypeOK, MarkThrows, CallPlaces, dbVars, memoryVars
<1> QED
  BY <1>1, <1>2, <1>3, <1>4, <1>5, <1>6, <1>7, <1>8, <1>9, <1>10, <1>11, <1>12, <1>13,
     <1>14, <1>15 DEF CallStep, SubmitStep

\* recoverInflight() keeps the types.
LEMMA SweepStepTyped ==
    ASSUME TypeOK, LocalsInv, NEW t \in Ticks, SweepStep(t)
    PROVE  TypeOK'
<1>1. CASE SweepLookup(t)
  <2>1. PICK o \in sweep[t].todo :
          SweepLookupThrows(t, o) \/ SweepFindsNothing(t, o) \/ SweepFindsOrder(t, o)
    BY <1>1 DEF SweepLookup
  <2>2. o \in Orders /\ sweep[t].todo \ {o} \in SUBSET Orders
    BY <2>1 DEF TypeOK, Sweep
  <2>3. Swept(t, o) \in [Ticks -> Sweep]
    BY <2>2 DEF TypeOK, Swept, Sweep
  <2>4. \A status \in SweepWrites : ToWrite(t, o, status) \in [Ticks -> Sweep]
    BY <2>2 DEF TypeOK, ToWrite, Sweep
  <2>5. sweep' \in [Ticks -> Sweep]
    BY <2>1, <2>3, <2>4, StatusesTyped
    DEF SweepLookupThrows, SweepFindsNothing, SweepFindsOrder, SweepWrites
  <2>6. absent' \in [Orders -> 0 .. AbsentThreshold - 1] /\ faults' \in 0 .. MaxFaults
    BY <2>1, <2>2, Sizes DEF TypeOK, SweepLookupThrows, SweepFindsNothing, SweepFindsOrder
  <2> QED BY <1>1, <2>5, <2>6 DEF TypeOK, SweepLookup, dbVars
<1>2. CASE SweepWrite(t)
  <2>1. sweep[t].order \in Orders
    BY <1>2 DEF SweepWrite, LocalsInv, SweepsInv, Recorded
  <2>2. sweep[t].write \in RowStatuses \cup {"none"}
    BY DEF TypeOK, Sweep, SweepWrites, RowStatuses, OpenStatuses, InactiveStatuses
  <2>3. rows' \in [Orders -> Row]
    BY <1>2, <2>1, <2>2 DEF TypeOK, SweepWrite, Row
  <2>4. sweep' \in [Ticks -> Sweep]
    BY <1>2, RecordsTyped DEF TypeOK, SweepWrite, Sweep
  <2> QED BY <1>2, <2>3, <2>4 DEF TypeOK, SweepWrite, memoryVars
<1>3. CASE SweepAborts(t) \/ SweepEnds(t)
  BY <1>3, RecordsTyped DEF TypeOK, SweepAborts, SweepEnds, dbVars, memoryVars
<1> QED BY <1>1, <1>2, <1>3 DEF SweepStep

\* recoverInflight starts with a typed list of rows.
LEMMA RecoveringTyped ==
    /\ Recovering \in Sweep
    /\ \A statuses : WithStatus(statuses) \in SUBSET Orders
BY RecordsTyped DEF Recovering, WithStatus

\* The reconciliation tick keeps the types.
LEMMA TickStepTyped ==
    ASSUME TypeOK, LocalsInv, NEW t \in Ticks, TickStep(t)
    PROVE  TypeOK'
<1>1. CASE TickStarts(t)
  BY <1>1, RecoveringTyped DEF TypeOK, TickStarts, Tick, dbVars, memoryVars
<1>2. CASE BootSweepOver(t) \/ TickEnds(t)
  BY <1>2 DEF TypeOK, BootSweepOver, TickEnds, Tick, dbVars, memoryVars
<1>3. CASE ListStaleOrders(t)
  BY <1>3, RecoveringTyped DEF TypeOK, ListStaleOrders, Tick, dbVars, memoryVars
<1>4. CASE ListOpenOrders(t)
  BY <1>4, RecoveringTyped DEF TypeOK, ListOpenOrders, Tick, dbVars, memoryVars
<1>5. CASE CancelStaleOrder(t)
  <2>1. PICK o \in tick[t].todo :
          /\ broker' \in {broker, [broker EXCEPT ![o] = Cancelled(@)]}
          /\ tick' = [tick EXCEPT ![t].todo = @ \ {o}]
    BY <1>5 DEF CancelStaleOrder
  <2>2. \A b \in BrokerOrder : Cancelled(b) \in BrokerOrder
    BY DEF Cancelled, BrokerOrder, BrokerStatuses, BrokerFinal
  <2>3. broker' \in [Orders -> BrokerOrder]
    BY <2>1, <2>2 DEF TypeOK
  <2>4. tick' \in [Ticks -> Tick]
    BY <2>1 DEF TypeOK, Tick
  <2> QED BY <1>5, <2>3, <2>4 DEF TypeOK, CancelStaleOrder, dbVars, memoryVars
<1>6. CASE ReconcileNext(t)
  <2>1. PICK o \in tick[t].todo :
          /\ rec' = [rec EXCEPT ![t] = Reading(o, 0)]
          /\ tick' = [tick EXCEPT ![t].todo = @ \ {o}]
    BY <1>6 DEF ReconcileNext
  <2>2. Reading(o, 0) \in Reconciliation
    BY <2>1, RecordsTyped, Sizes DEF TypeOK, Tick
  <2>3. rec' \in [Reconcilers -> Reconciliation] /\ tick' \in [Ticks -> Tick]
    BY <2>1, <2>2 DEF TypeOK, Tick
  <2> QED BY <1>6, <2>3 DEF TypeOK, ReconcileNext, dbVars, memoryVars
<1> QED BY <1>1, <1>2, <1>3, <1>4, <1>5, <1>6 DEF TickStep

\* reconcileOrder() works on a row that exists.
LEMMA OrderReconciled ==
    ASSUME LocalsInv, NEW r \in Reconcilers, rec[r].pc # "idle"
    PROVE  Recorded(rec[r].order)
BY DEF LocalsInv, ReconcilersInv

\* The end of a reconcileOrder() leaves a typed reconciler.
LEMMA AfterReconcileTyped ==
    ASSUME TypeOK, LocalsInv, NEW r \in Reconcilers, rec[r].pc # "idle",
           NEW rs, AfterReconcile(r, rs)
    PROVE  rec' \in [Reconcilers -> Reconciliation]
<1>1. rec[r].order \in Orders /\ rec[r].left \in 0 .. FastPolls
  BY OrderReconciled DEF TypeOK, Reconciliation, Recorded
<1>2. CASE rec' = [rec EXCEPT ![r] = IdleRec]
  BY <1>2, RecordsTyped DEF TypeOK
<1>3. CASE /\ rec[r].left > 1
           /\ rec' = [rec EXCEPT ![r] = Reading(rec[r].order, rec[r].left - 1)]
  <2>1. rec[r].left - 1 \in 0 .. FastPolls
    BY <1>1, <1>3, Sizes
  <2>2. Reading(rec[r].order, rec[r].left - 1) \in Reconciliation
    BY <1>1, <2>1, RecordsTyped
  <2> QED BY <1>3, <2>2 DEF TypeOK
<1> QED BY <1>2, <1>3 DEF AfterReconcile

\* reconcileOrder() keeps the types.
LEMMA ReconcileStepTyped ==
    ASSUME TypeOK, LocalsInv, NEW r \in Reconcilers, ReconcileStep(r)
    PROVE  TypeOK'
<1>1. CASE ReadRow(r)
  <2>1. rows[rec[r].order].status \in RowStatuses \cup {"none"}
    BY <1>1, OrderReconciled DEF ReadRow, Recorded, TypeOK, Row
  <2>2. CASE AfterReconcile(r, rows)
    BY <1>1, <2>2, AfterReconcileTyped DEF TypeOK, ReadRow, dbVars, memoryVars
  <2>3. CASE rec' = [rec EXCEPT ![r] = [@ EXCEPT !.pc = "lookup",
                                                 !.seen = rows[rec[r].order].status]]
    <3>1. rec[r] \in Reconciliation
      BY DEF TypeOK
    <3>2. [rec[r] EXCEPT !.pc = "lookup", !.seen = rows[rec[r].order].status] \in Reconciliation
      BY <2>1, <3>1 DEF Reconciliation
    <3>3. rec' \in [Reconcilers -> Reconciliation]
      BY <2>3, <3>2 DEF TypeOK
    <3> QED BY <1>1, <3>3 DEF TypeOK, ReadRow, dbVars, memoryVars
  <2> QED BY <1>1, <2>2, <2>3 DEF ReadRow
<1>2. CASE LookupChangesNothing(r)
  BY <1>2, AfterReconcileTyped DEF TypeOK, LookupChangesNothing, dbVars, memoryVars
<1>3. CASE LookupFails(r)
  <2>1. faults' \in 0 .. MaxFaults
    BY <1>3, Sizes DEF TypeOK, LookupFails
  <2> QED BY <1>3, <2>1, AfterReconcileTyped DEF TypeOK, LookupFails, dbVars, memoryVars
<1>4. CASE Lookup(r)
  <2> DEFINE o == rec[r].order
  <2>1. /\ broker[o].qty \in 0 .. MaxQty
        /\ Normalize(broker[o].status) \in Canonical
    BY <1>4, OrderReconciled, StatusesTyped DEF Lookup, Recorded, TypeOK, BrokerOrder
  <2>2. PICK priced \in BOOLEAN :
          rec' = [rec EXCEPT ![r] = [@ EXCEPT !.pc = "apply",
                    !.status = Normalize(broker[o].status),
                    !.qty = broker[o].qty, !.priced = priced]]
    BY <1>4 DEF Lookup
  <2>3. rec' \in [Reconcilers -> Reconciliation]
    <3>1. rec[r] \in Reconciliation
      BY DEF TypeOK
    <3>2. [rec[r] EXCEPT !.pc = "apply", !.status = Normalize(broker[o].status),
             !.qty = broker[o].qty, !.priced = priced] \in Reconciliation
      BY <2>1, <2>2, <3>1 DEF Reconciliation
    <3> QED BY <2>2, <3>2 DEF TypeOK
  <2>4. faults' \in 0 .. MaxFaults
    BY <1>4, Sizes DEF TypeOK, Lookup
  <2> QED BY <1>4, <2>3, <2>4 DEF TypeOK, Lookup, dbVars, memoryVars
<1>5. CASE ApplyBrokerOrder(r)
  <2> DEFINE o == rec[r].order
  <2>1. /\ o \in Orders
        /\ rec[r].status \in RowStatuses \cup {"none"}
        /\ rec[r].qty \in 0 .. MaxQty
    BY <1>5, OrderReconciled
    DEF ApplyBrokerOrder, Recorded, TypeOK, Reconciliation, Canonical, RowStatuses,
        OpenStatuses, InactiveStatuses
  <2>2. rows' = [rows EXCEPT ![o] = [@ EXCEPT !.status = rec[r].status, !.qty = rec[r].qty]]
    BY <1>5 DEF ApplyBrokerOrder
  <2>3. rows' \in [Orders -> Row]
    BY <2>1, <2>2 DEF TypeOK, Row
  <2>4. \A i \in Intents :
          IntentAfter(i, rec[r].status, rec[r].priced) \in IntentStatuses
    BY DEF IntentAfter, TypeOK, IntentStatuses
  <2>5. intents' \in [Intents -> IntentStatuses]
    BY <1>5, <2>4 DEF TypeOK, ApplyBrokerOrder
  <2>6. rec' \in [Reconcilers -> Reconciliation]
    BY <1>5, AfterReconcileTyped DEF ApplyBrokerOrder
  <2> QED BY <1>5, <2>3, <2>5, <2>6 DEF TypeOK, ApplyBrokerOrder, memoryVars
<1>6. CASE ApplySkipped(r)
  BY <1>6, AfterReconcileTyped DEF TypeOK, ApplySkipped, dbVars, memoryVars
<1> QED BY <1>1, <1>2, <1>3, <1>4, <1>5, <1>6 DEF ReconcileStep

\* The broker's own steps keep the types.
LEMMA BrokerStepTyped ==
    ASSUME TypeOK, BrokerStep
    PROVE  TypeOK'
<1>1. broker' \in [Orders -> BrokerOrder]
  <2>1. PICK o \in Orders :
          BrokerAccepts(o) \/ BrokerDrops(o) \/ BrokerFills(o) \/ BrokerEnds(o)
    BY DEF BrokerStep
  <2>2. CASE BrokerAccepts(o)
    BY <2>2 DEF BrokerAccepts, TypeOK, BrokerOrder, BrokerStatuses
  <2>3. CASE BrokerDrops(o)
    BY <2>3 DEF BrokerDrops, TypeOK, BrokerOrder, BrokerStatuses, BrokerAbsent
  <2>4. CASE BrokerFills(o)
    BY <2>4, Sizes DEF BrokerFills, TypeOK, BrokerOrder, BrokerStatuses, BrokerFinal
  <2>5. CASE BrokerEnds(o)
    BY <2>5, StateAssumption DEF BrokerEnds, TypeOK, BrokerOrder, BrokerStatuses, BrokerFinal
  <2> QED BY <2>1, <2>2, <2>3, <2>4, <2>5
<1> QED
  BY <1>1 DEF TypeOK, BrokerStep, BrokerAccepts, BrokerDrops, BrokerFills, BrokerEnds,
              dbVars, memoryVars, processVars

\* A crash and the boot after it keep the types.
LEMMA CrashTyped ==
    ASSUME TypeOK, Crash
    PROVE  TypeOK'
<1>1. call' \in [Calls -> Call]
  BY RecordsTyped DEF Crash, IdleCall, Call, CallPlaces
<1>2. PICK boot \in Ticks :
        /\ sweep' = [t \in Ticks |-> IF t = boot THEN Recovering ELSE IdleSweep]
        /\ tick' = [t \in Ticks |-> [pc |-> IF t = boot THEN "boot" ELSE "idle", todo |-> {}]]
  BY DEF Crash
<1>3. sweep' \in [Ticks -> Sweep] /\ tick' \in [Ticks -> Tick]
  BY <1>2, RecoveringTyped, RecordsTyped DEF Tick
<1>4. rec' \in [Reconcilers -> Reconciliation]
  BY RecordsTyped DEF Crash
<1>5. /\ failures' \in 0 .. SubmitFailureThreshold
      /\ absent' \in [Orders -> 0 .. AbsentThreshold - 1]
      /\ faults' \in 0 .. MaxFaults
  BY Sizes DEF Crash, TypeOK
<1> QED BY <1>1, <1>3, <1>4, <1>5 DEF TypeOK, Crash, dbVars

\* Every step keeps the types.
LEMMA StepTyped ==
    ASSUME TypeOK, LocalsInv, [Next]_vars
    PROVE  TypeOK'
<1>1. CASE ClearHalt
  BY <1>1 DEF TypeOK, ClearHalt, memoryVars, processVars
<1>2. CASE UNCHANGED vars
  BY <1>2 DEF TypeOK, vars, dbVars, memoryVars, processVars
<1> QED
  BY <1>1, <1>2, CallStepTyped, SweepStepTyped, TickStepTyped, ReconcileStepTyped,
     BrokerStepTyped, CrashTyped DEF Next

-----------------------------------------------------------------------------
(* Who writes what.                                                        *)

\* The only writers of real_orders.
RowWrite ==
    \/ \E c \in Calls : CreateRow(c) \/ MarkSubmitted(c) \/ MarkFailed(c)
    \/ \E t \in Ticks : SweepWrite(t)
    \/ \E r \in Reconcilers : ApplyBrokerOrder(r)

\* The only writers of trade_intents.status.
IntentWrite ==
    \/ \E c \in Calls : FailIntent(c) \/ RejectIntent(c) \/ SettleIntent(c)
    \/ \E r \in Reconcilers : ApplyBrokerOrder(r)

\* The only steps that change the broker.
BrokerWrite ==
    \/ \E c \in Calls : PlaceOrder(c)
    \/ \E t \in Ticks : CancelStaleOrder(t)
    \/ BrokerStep

\* Which steps of a call write rows, intents and the broker.
LEMMA CallWriters ==
    ASSUME NEW c \in Calls, CallStep(c)
    PROVE  (rows' = rows \/ RowWrite) /\ (intents' = intents \/ IntentWrite)
             /\ (broker' = broker \/ BrokerWrite)
<1>1. CASE SubmitStep(c)
  BY <1>1
  DEF SubmitStep, FindActiveOrderForIntent, FindActiveOrderForSymbol, CreateRow,
      CreateThrows, RefetchRaceWinner, PlaceOrder, PlaceOrderReturns, PlaceOrderThrows,
      TripHalt, MarkSubmitted, MarkFailed, MarkThrows, dbVars, RowWrite, BrokerWrite
<1>2. CASE ~SubmitStep(c)
  BY <1>2
  DEF CallStep, Begin, GatePasses, GateRefuses, FailIntent, RejectIntent, SettleIntent,
      Decide, dbVars, IntentWrite
<1> QED BY <1>1, <1>2

\* Which steps of a sweep or a tick do.
LEMMA TickWriters ==
    ASSUME NEW t \in Ticks, SweepStep(t) \/ TickStep(t)
    PROVE  (rows' = rows \/ RowWrite) /\ intents' = intents
             /\ (broker' = broker \/ BrokerWrite)
<1>1. CASE SweepStep(t)
  BY <1>1 DEF SweepStep, SweepLookup, SweepWrite, SweepAborts, SweepEnds, dbVars, RowWrite
<1>2. CASE TickStep(t)
  BY <1>2
  DEF TickStep, TickStarts, BootSweepOver, ListStaleOrders, CancelStaleOrder,
      ListOpenOrders, ReconcileNext, TickEnds, dbVars, BrokerWrite
<1> QED BY <1>1, <1>2

\* Of a reconciler's steps, only applyBrokerOrder() writes.
LEMMA ReconcileWriters ==
    ASSUME NEW r \in Reconcilers, ReconcileStep(r)
    PROVE  /\ broker' = broker
           /\ (rows' = rows /\ intents' = intents) \/ ApplyBrokerOrder(r)
BY DEF ReconcileStep, ReadRow, LookupChangesNothing, LookupFails, Lookup,
       ApplyBrokerOrder, ApplySkipped, dbVars

\* Only its own steps and a crash move a call.
LEMMA CallMover ==
    ASSUME [Next]_vars
    PROVE  UNCHANGED call \/ Crash \/ \E c \in Calls : CallStep(c)
<1>1. ASSUME NEW t \in Ticks, SweepStep(t) \/ TickStep(t) PROVE UNCHANGED call
  BY <1>1
  DEF SweepStep, SweepLookup, SweepWrite, SweepAborts, SweepEnds, TickStep, TickStarts,
      BootSweepOver, ListStaleOrders, CancelStaleOrder, ListOpenOrders, ReconcileNext, TickEnds
<1>2. ASSUME NEW r \in Reconcilers, ReconcileStep(r) PROVE UNCHANGED call
  BY <1>2
  DEF ReconcileStep, ReadRow, LookupChangesNothing, LookupFails, Lookup, ApplyBrokerOrder,
      ApplySkipped
<1>3. CASE BrokerStep \/ ClearHalt
  BY <1>3
  DEF BrokerStep, BrokerAccepts, BrokerDrops, BrokerFills, BrokerEnds, ClearHalt, processVars
<1> QED BY <1>1, <1>2, <1>3 DEF Next, vars, processVars

\* Only these steps move a reconciler.
LEMMA ReconcilerMover ==
    ASSUME [Next]_vars
    PROVE  \/ UNCHANGED rec \/ Crash
           \/ \E r \in Reconcilers : ReconcileStep(r)
           \/ \E c \in Calls : SettleIntent(c)
           \/ \E t \in Ticks : ReconcileNext(t)
<1>1. ASSUME NEW c \in Calls, CallStep(c), ~SettleIntent(c) PROVE UNCHANGED rec
  BY <1>1
  DEF CallStep, SubmitStep, Begin, GatePasses, GateRefuses, FailIntent, RejectIntent,
      FindActiveOrderForIntent, FindActiveOrderForSymbol, CreateRow, CreateThrows,
      RefetchRaceWinner, PlaceOrder, PlaceOrderReturns, PlaceOrderThrows, TripHalt,
      MarkSubmitted, MarkFailed, MarkThrows
<1>2. ASSUME NEW t \in Ticks, SweepStep(t) \/ TickStep(t), ~ReconcileNext(t)
      PROVE  UNCHANGED rec
  BY <1>2
  DEF SweepStep, SweepLookup, SweepWrite, SweepAborts, SweepEnds, TickStep, TickStarts,
      BootSweepOver, ListStaleOrders, CancelStaleOrder, ListOpenOrders, TickEnds
<1>3. CASE BrokerStep \/ ClearHalt
  BY <1>3
  DEF BrokerStep, BrokerAccepts, BrokerDrops, BrokerFills, BrokerEnds, ClearHalt, processVars
<1> QED BY <1>1, <1>2, <1>3 DEF Next, vars, processVars

\* All writers of the rows, of the intents and of the broker.
LEMMA Writers ==
    ASSUME [Next]_vars
    PROVE  (rows' = rows \/ RowWrite) /\ (intents' = intents \/ IntentWrite)
             /\ (broker' = broker \/ BrokerWrite)
<1>1. CASE \E r \in Reconcilers : ReconcileStep(r)
  BY <1>1, ReconcileWriters DEF RowWrite, IntentWrite
<1>2. CASE BrokerStep
  BY <1>2 DEF BrokerStep, BrokerAccepts, BrokerDrops, BrokerFills, BrokerEnds, dbVars, BrokerWrite
<1>3. CASE ClearHalt \/ Crash \/ UNCHANGED vars
  BY <1>3 DEF ClearHalt, Crash, vars, dbVars
<1> QED BY <1>1, <1>2, <1>3, CallWriters, TickWriters DEF Next

\* No row is deleted, and none changes hands.
LEMMA RowsStay ==
    ASSUME TypeOK, LocalsInv, [Next]_vars, NEW o \in Orders, Exists(o)
    PROVE  Exists(o)' /\ rows'[o].intent = rows[o].intent
<1>1. CASE rows' = rows
  BY <1>1 DEF Exists
<1>2. ASSUME NEW c \in Calls, CreateRow(c) PROVE Exists(o)' /\ rows'[o].intent = rows[o].intent
  BY <1>2 DEF CreateRow, Exists, TypeOK
<1>3. ASSUME NEW c \in Calls, MarkSubmitted(c) \/ MarkFailed(c)
      PROVE  Exists(o)' /\ rows'[o].intent = rows[o].intent
  <2>1. CASE MarkSubmitted(c)
    BY <2>1 DEF MarkSubmitted, Exists, TypeOK, Row
  <2>2. CASE MarkFailed(c)
    BY <2>2 DEF MarkFailed, Exists, TypeOK, Row
  <2> QED BY <1>3, <2>1, <2>2
<1>4. ASSUME NEW t \in Ticks, SweepWrite(t) PROVE Exists(o)' /\ rows'[o].intent = rows[o].intent
  BY <1>4 DEF SweepWrite, Exists, TypeOK, Row, LocalsInv, SweepsInv
<1>5. ASSUME NEW r \in Reconcilers, ApplyBrokerOrder(r)
      PROVE  Exists(o)' /\ rows'[o].intent = rows[o].intent
  <2>1. rec[r].status # "none"
    BY <1>5 DEF ApplyBrokerOrder, LocalsInv, ReconcilersInv
  <2> QED BY <1>5, <2>1 DEF ApplyBrokerOrder, Exists, TypeOK, Row
<1> QED BY <1>1, <1>2, <1>3, <1>4, <1>5, Writers DEF RowWrite

-----------------------------------------------------------------------------
(* What the processes hold stays on record.                                *)

\* The first state holds nothing in local variables.
LEMMA InitLocals == Init => LocalsInv
BY DEF Init, LocalsInv, RowsInv, CallsInv, SweepsInv, ReconcilersInv, Exists, NoRow,
       IdleCall, IdleSweep, IdleRec, OrderPlaces

\* A row keeps its intent.
LEMMA RowsInvKept ==
    ASSUME TypeOK, LocalsInv, [Next]_vars
    PROVE  RowsInv'
<1> SUFFICES ASSUME NEW o \in Orders, Exists(o)' PROVE rows'[o].intent \in Intents
  BY DEF RowsInv
<1>1. CASE Exists(o)
  BY <1>1, RowsStay DEF LocalsInv, RowsInv
<1>2. CASE ~Exists(o)
  <2>1. ASSUME NEW c \in Calls, CreateRow(c) PROVE rows'[o].intent \in Intents
    <3>1. call[c].intent \in Intents
      BY <2>1 DEF CreateRow, At, LocalsInv, CallsInv
    <3> QED BY <1>2, <2>1, <3>1 DEF CreateRow, TypeOK, Exists, NewRow
  <2>2. ASSUME NEW p \in Orders, Exists(p), NEW row,
               rows' = [rows EXCEPT ![p] = row]
        PROVE  FALSE
    BY <1>2, <2>2 DEF TypeOK, Exists
  <2>3. ASSUME NEW c \in Calls, MarkSubmitted(c) \/ MarkFailed(c) PROVE FALSE
    BY <2>2, <2>3, OrderInHand
    DEF MarkSubmitted, MarkFailed, At, OrderPlaces, Recorded
  <2>4. ASSUME NEW t \in Ticks, SweepWrite(t) PROVE FALSE
    BY <2>2, <2>4 DEF SweepWrite, LocalsInv, SweepsInv, Recorded
  <2>5. ASSUME NEW r \in Reconcilers, ApplyBrokerOrder(r) PROVE FALSE
    BY <2>2, <2>5, OrderReconciled DEF ApplyBrokerOrder, Recorded
  <2>6. CASE rows' = rows
    BY <1>2, <2>6 DEF Exists
  <2> QED BY <2>1, <2>3, <2>4, <2>5, <2>6, Writers DEF RowWrite
<1> QED BY <1>1, <1>2

\* What a call holds stays on record.
LEMMA CallsInvKept ==
    ASSUME TypeOK, LocalsInv, [Next]_vars
    PROVE  CallsInv'
<1>1. ASSUME NEW o, Recorded(o) PROVE Recorded(o)'
  BY <1>1, RowsStay DEF Recorded
<1>2. CASE UNCHANGED call
  BY <1>1, <1>2 DEF LocalsInv, CallsInv
<1>3. CASE Crash
  BY <1>3 DEF Crash, CallsInv, IdleCall, OrderPlaces, At
<1>4. ASSUME NEW c \in Calls, CallStep(c) PROVE CallsInv'
  <2>1. ASSUME NEW place \in CallPlaces, Goto(c, place),
               call[c].pc \notin {"idle", "done"},
               place \in OrderPlaces => call[c].pc \in OrderPlaces
        PROVE  CallsInv'
    BY <1>1, <2>1 DEF Goto, LocalsInv, CallsInv, TypeOK, Call
  <2>2. ASSUME NEW o \in Orders, Exists(o), Return(c, o), call[c].pc \notin {"idle", "done"}
        PROVE  CallsInv'
    BY <1>1, <2>2 DEF Return, LocalsInv, CallsInv, TypeOK, Call, Recorded
  <2>3. CASE Begin(c)
    BY <1>1, <2>3 DEF Begin, LocalsInv, CallsInv, TypeOK, Call, OrderPlaces
  <2>4. CASE GatePasses(c) \/ GateRefuses(c)
    BY <2>1, <2>4 DEF GatePasses, GateRefuses, At, CallPlaces, OrderPlaces
  <2>5. CASE FailIntent(c) \/ RejectIntent(c) \/ SettleIntent(c)
    BY <2>1, <2>5 DEF FailIntent, RejectIntent, SettleIntent, Decide, At, CallPlaces, OrderPlaces
  <2>6. CASE FindActiveOrderForIntent(c)
    BY <2>1, <2>2, <2>6
    DEF FindActiveOrderForIntent, ActiveFor, Active, At, CallPlaces, OrderPlaces
  <2>7. CASE FindActiveOrderForSymbol(c)
    BY <2>1, <2>2, <2>7
    DEF FindActiveOrderForSymbol, ActiveInSlot, Active, At, CallPlaces, OrderPlaces
  <2>8. CASE CreateRow(c)
    <3>1. PICK o \in Orders :
            /\ rows' = [rows EXCEPT ![o] = NewRow(call[c].intent)]
            /\ call' = [call EXCEPT ![c] = [@ EXCEPT !.pc = "place", !.order = o]]
      BY <2>8 DEF CreateRow
    <3>2. Recorded(o)'
      BY <3>1 DEF Recorded, Exists, NewRow, TypeOK
    <3>3. call[c].intent \in Intents
      BY <2>8 DEF CreateRow, At, LocalsInv, CallsInv
    <3> QED BY <1>1, <3>1, <3>2, <3>3 DEF LocalsInv, CallsInv, TypeOK, Call
  <2>9. CASE CreateThrows(c)
    BY <2>1, <2>9 DEF CreateThrows, At, CallPlaces, OrderPlaces
  <2>10. CASE RefetchRaceWinner(c)
    BY <2>1, <2>2, <2>10 DEF RefetchRaceWinner, ActiveFor, Active, At, CallPlaces, OrderPlaces
  <2>11. CASE PlaceOrder(c) \/ PlaceOrderReturns(c) \/ PlaceOrderThrows(c)
    BY <2>1, <2>11
    DEF PlaceOrder, PlaceOrderReturns, PlaceOrderThrows, At, CallPlaces, OrderPlaces
  <2>12. CASE TripHalt(c) \/ MarkFailed(c) \/ MarkThrows(c)
    BY <2>1, <2>12 DEF TripHalt, MarkFailed, MarkThrows, At, CallPlaces, OrderPlaces
  <2>13. CASE MarkSubmitted(c)
    BY <2>2, <2>13, OrderInHand DEF MarkSubmitted, At, OrderPlaces, Recorded
  <2> QED
    BY <1>4, <2>3, <2>4, <2>5, <2>6, <2>7, <2>8, <2>9, <2>10, <2>11, <2>12, <2>13
    DEF CallStep, SubmitStep
<1> QED BY <1>2, <1>3, <1>4, CallMover

\* The queries select rows that exist.
LEMMA SelectedExist ==
    /\ \A o \in Recovering.todo : Exists(o)
    /\ \A o \in WithStatus(OpenStatuses) : Exists(o)
BY DEF Recovering, Looking, WithStatus, RecoverableStatuses, OpenStatuses, Exists

\* What a sweep or a tick holds stays on record.
LEMMA SweepsInvKept ==
    ASSUME TypeOK, LocalsInv, [Next]_vars
    PROVE  SweepsInv'
<1>1. ASSUME NEW o \in Orders, Exists(o) PROVE Exists(o)'
  BY <1>1, RowsStay
<1>2. \A t \in Ticks : sweep[t].todo \subseteq Orders /\ tick[t].todo \subseteq Orders
  BY DEF TypeOK, Sweep, Tick
<1>3. CASE UNCHANGED <<sweep, tick>>
  BY <1>1, <1>2, <1>3 DEF LocalsInv, SweepsInv, Recorded
<1>4. ASSUME NEW t \in Ticks,
             \A u \in Ticks \ {t} : sweep'[u] = sweep[u] /\ tick'[u] = tick[u],
             sweep'[t].todo \cup tick'[t].todo \subseteq Orders,
             \A o \in sweep'[t].todo \cup tick'[t].todo : Exists(o),
             sweep'[t].pc = "write" =>
               Recorded(sweep'[t].order) /\ sweep'[t].write # "none"
      PROVE  SweepsInv'
  BY <1>1, <1>2, <1>4 DEF LocalsInv, SweepsInv, Recorded
<1>5. ASSUME NEW t \in Ticks, SweepStep(t) PROVE SweepsInv'
  <2>1. CASE SweepLookup(t)
    <3>1. PICK o \in sweep[t].todo :
            SweepLookupThrows(t, o) \/ SweepFindsNothing(t, o) \/ SweepFindsOrder(t, o)
      BY <2>1 DEF SweepLookup
    <3>2. Recorded(o)
      BY <1>2 DEF LocalsInv, SweepsInv, Recorded
    <3>3. CASE sweep' = Swept(t, o)
      BY <1>2, <1>4, <2>1, <3>3 DEF Swept, SweepLookup, TypeOK, Sweep, LocalsInv, SweepsInv
    <3>4. ASSUME NEW status, status # "none", sweep' = ToWrite(t, o, status)
          PROVE  SweepsInv'
      BY <1>2, <1>4, <2>1, <3>2, <3>4
      DEF ToWrite, SweepLookup, TypeOK, Sweep, LocalsInv, SweepsInv
    <3> QED
      BY <3>1, <3>3, <3>4, StatusesTyped
      DEF SweepLookupThrows, SweepFindsNothing, SweepFindsOrder
  <2>2. CASE SweepWrite(t)
    BY <1>2, <1>4, <2>2 DEF SweepWrite, Looking, TypeOK, LocalsInv, SweepsInv
  <2>3. CASE SweepAborts(t) \/ SweepEnds(t)
    BY <1>2, <1>4, <2>3 DEF SweepAborts, SweepEnds, IdleSweep, TypeOK, LocalsInv, SweepsInv
  <2> QED BY <1>5, <2>1, <2>2, <2>3 DEF SweepStep
<1>6. ASSUME NEW t \in Ticks, TickStep(t) PROVE SweepsInv'
  <2>1. CASE TickStarts(t)
    BY <1>2, <1>4, <2>1, SelectedExist, RecoveringTyped
    DEF TickStarts, TypeOK, Tick, Recovering, Looking, LocalsInv, SweepsInv
  <2>2. CASE BootSweepOver(t) \/ TickEnds(t)
    <3>1. tick' = [tick EXCEPT ![t].pc = "idle"] /\ sweep' = sweep
      BY <2>2 DEF BootSweepOver, TickEnds
    <3> QED BY <1>2, <1>4, <3>1 DEF TypeOK, Tick, LocalsInv, SweepsInv
  <2>3. CASE ListStaleOrders(t)
    BY <1>2, <1>4, <2>3, SelectedExist, RecoveringTyped
    DEF ListStaleOrders, TypeOK, LocalsInv, SweepsInv
  <2>4. CASE CancelStaleOrder(t)
    <3>1. PICK o \in tick[t].todo : tick' = [tick EXCEPT ![t].todo = @ \ {o}]
      BY <2>4 DEF CancelStaleOrder
    <3>2. sweep' = sweep
      BY <2>4 DEF CancelStaleOrder
    <3>3. /\ tick'[t].todo = tick[t].todo \ {o}
          /\ \A u \in Ticks \ {t} : tick'[u] = tick[u]
      BY <3>1 DEF TypeOK, Tick
    <3> QED BY <1>2, <1>4, <3>2, <3>3 DEF LocalsInv, SweepsInv
  <2>5. CASE ListOpenOrders(t)
    BY <1>2, <1>4, <2>5, SelectedExist, RecoveringTyped
    DEF ListOpenOrders, TypeOK, LocalsInv, SweepsInv
  <2>6. CASE ReconcileNext(t)
    BY <1>2, <1>4, <2>6 DEF ReconcileNext, TypeOK, Tick, LocalsInv, SweepsInv
  <2> QED BY <1>6, <2>1, <2>2, <2>3, <2>4, <2>5, <2>6 DEF TickStep
<1>7. CASE Crash
  <2>1. PICK boot \in Ticks :
          /\ sweep' = [t \in Ticks |-> IF t = boot THEN Recovering ELSE IdleSweep]
          /\ tick' = [t \in Ticks |-> [pc |-> IF t = boot THEN "boot" ELSE "idle", todo |-> {}]]
    BY <1>7 DEF Crash
  <2>2. \A o \in Recovering.todo : Exists(o)'
    BY <1>7, SelectedExist DEF Crash, Exists, dbVars
  <2> QED BY <2>1, <2>2 DEF SweepsInv, Recovering, Looking, IdleSweep
<1>8. ASSUME NEW c \in Calls, CallStep(c) PROVE UNCHANGED <<sweep, tick>>
  BY <1>8
  DEF CallStep, SubmitStep, Begin, GatePasses, GateRefuses, FailIntent, RejectIntent,
      SettleIntent, Decide, FindActiveOrderForIntent, FindActiveOrderForSymbol, CreateRow,
      CreateThrows, RefetchRaceWinner, PlaceOrder, PlaceOrderReturns, PlaceOrderThrows,
      TripHalt, MarkSubmitted, MarkFailed, MarkThrows
<1>9. ASSUME NEW r \in Reconcilers, ReconcileStep(r) PROVE UNCHANGED <<sweep, tick>>
  BY <1>9
  DEF ReconcileStep, ReadRow, LookupChangesNothing, LookupFails, Lookup, ApplyBrokerOrder,
      ApplySkipped
<1>10. CASE BrokerStep \/ ClearHalt
  BY <1>3, <1>10
  DEF BrokerStep, BrokerAccepts, BrokerDrops, BrokerFills, BrokerEnds, ClearHalt, processVars
<1> QED
  BY <1>3, <1>5, <1>6, <1>7, <1>8, <1>9, <1>10 DEF Next, vars, processVars

\* What a reconciler holds stays on record.
LEMMA ReconcilersInvKept ==
    ASSUME TypeOK, LocalsInv, [Next]_vars
    PROVE  ReconcilersInv'
<1>1. ASSUME NEW o, Recorded(o) PROVE Recorded(o)'
  BY <1>1, RowsStay DEF Recorded
<1>2. CASE UNCHANGED rec
  BY <1>1, <1>2 DEF LocalsInv, ReconcilersInv
<1>3. ASSUME NEW r \in Reconcilers, NEW next, rec' = [rec EXCEPT ![r] = next],
             next.pc # "idle" => Recorded(next.order),
             next.pc = "apply" => next.status \notin {"none", "accepted"}
      PROVE  ReconcilersInv'
  BY <1>1, <1>3 DEF LocalsInv, ReconcilersInv, TypeOK
<1>4. ASSUME NEW r \in Reconcilers, ReconcileStep(r) PROVE ReconcilersInv'
  <2>1. rec[r].pc # "idle" /\ Recorded(rec[r].order)
    BY <1>4, OrderReconciled
    DEF ReconcileStep, ReadRow, LookupChangesNothing, LookupFails, Lookup, ApplyBrokerOrder,
        ApplySkipped
  <2>2. ASSUME NEW rs, AfterReconcile(r, rs) PROVE ReconcilersInv'
    <3>1. CASE rec' = [rec EXCEPT ![r] = IdleRec]
      BY <1>3, <3>1 DEF IdleRec
    <3>2. CASE rec' = [rec EXCEPT ![r] = Reading(rec[r].order, rec[r].left - 1)]
      BY <1>3, <2>1, <3>2 DEF Reading
    <3> QED BY <2>2, <3>1, <3>2 DEF AfterReconcile
  <2>3. CASE ReadRow(r)
    <3>1. CASE AfterReconcile(r, rows)
      BY <2>2, <3>1
    <3> DEFINE next == [rec[r] EXCEPT !.pc = "lookup", !.seen = rows[rec[r].order].status]
    <3>2. CASE rec' = [rec EXCEPT ![r] = next]
      <4>1. next.pc = "lookup" /\ next.order = rec[r].order
        BY DEF TypeOK, Reconciliation
      <4> HIDE DEF next
      <4> QED BY <1>3, <2>1, <3>2, <4>1
    <3> QED BY <2>3, <3>1, <3>2 DEF ReadRow
  <2>4. CASE Lookup(r)
    <3>1. \A raw : Normalize(raw) # "none"
      BY StatusesTyped DEF Canonical, CanonicalTerminal
    <3>2. PICK priced \in BOOLEAN :
            rec' = [rec EXCEPT ![r] = [@ EXCEPT !.pc = "apply",
                      !.status = Normalize(broker[rec[r].order].status),
                      !.qty = broker[rec[r].order].qty, !.priced = priced]]
      BY <2>4 DEF Lookup
    <3>3. Normalize(broker[rec[r].order].status) # "accepted"
      BY <2>4 DEF Lookup
    <3> DEFINE next == [rec[r] EXCEPT !.pc = "apply",
                          !.status = Normalize(broker[rec[r].order].status),
                          !.qty = broker[rec[r].order].qty, !.priced = priced]
    <3>4. next.order = rec[r].order /\ next.status = Normalize(broker[rec[r].order].status)
      BY DEF TypeOK, Reconciliation
    <3>5. rec' = [rec EXCEPT ![r] = next]
      BY <3>2
    <3> HIDE DEF next
    <3> QED BY <1>3, <2>1, <3>1, <3>3, <3>4, <3>5
  <2> QED
    BY <1>4, <2>2, <2>3, <2>4
    DEF ReconcileStep, LookupChangesNothing, LookupFails, ApplyBrokerOrder, ApplySkipped
<1>5. ASSUME NEW c \in Calls, SettleIntent(c) PROVE ReconcilersInv'
  BY <1>3, <1>5, OrderInHand
  DEF SettleIntent, At, OrderPlaces, Polling, Reading, Reconcilers
<1>6. ASSUME NEW t \in Ticks, ReconcileNext(t) PROVE ReconcilersInv'
  <2>1. PICK o \in tick[t].todo : rec' = [rec EXCEPT ![t] = Reading(o, 0)]
    BY <1>6 DEF ReconcileNext
  <2>2. Recorded(o)
    BY DEF LocalsInv, SweepsInv, Recorded, TypeOK, Tick
  <2> QED BY <1>3, <2>1, <2>2 DEF Reading, Reconcilers
<1>7. CASE Crash
  BY <1>7 DEF Crash, ReconcilersInv, IdleRec
<1> QED BY <1>2, <1>4, <1>5, <1>6, <1>7, ReconcilerMover

\* The type invariant of the order path, with what the processes hold.
THEOREM TypeCorrect == Spec => [](TypeOK /\ LocalsInv)
<1>1. Init => TypeOK /\ LocalsInv
  BY InitTyped, InitLocals
<1>2. TypeOK /\ LocalsInv /\ [Next]_vars => TypeOK' /\ LocalsInv'
  BY StepTyped, RowsInvKept, CallsInvKept, SweepsInvKept, ReconcilersInvKept DEF LocalsInv
<1> QED BY <1>1, <1>2, PTL DEF Spec

-----------------------------------------------------------------------------
(* At most one active row per intent.                                      *)

\* No write gives an intent a second active row: each passes the index.
LEMMA OneActiveKept ==
    ASSUME TypeOK, LocalsInv, OneActiveOrderPerIntent, [Next]_vars
    PROVE  OneActiveOrderPerIntent'
<1>1. CASE rows' = rows
  BY <1>1 DEF OneActiveOrderPerIntent, Active, Exists
<1>2. ASSUME NEW o \in Orders, NEW row, rows' = [rows EXCEPT ![o] = row],
             \/ row.status \in InactiveStatuses
             \/ ActiveFor(row.intent) \subseteq {o}
      PROVE  OneActiveOrderPerIntent'
  BY <1>2 DEF OneActiveOrderPerIntent, ActiveFor, Active, Exists, TypeOK
<1>3. ASSUME NEW c \in Calls, CreateRow(c) PROVE OneActiveOrderPerIntent'
  BY <1>2, <1>3 DEF CreateRow, NewRow
<1>4. ASSUME NEW c \in Calls, MarkSubmitted(c) PROVE OneActiveOrderPerIntent'
  <2> DEFINE o == call[c].order
             row == [rows[o] EXCEPT !.status = "submitted", !.cancellable = TRUE]
  <2>1. o \in Orders /\ rows' = [rows EXCEPT ![o] = row] /\ IndexAllows(o, "submitted")
    BY <1>4, OrderInHand DEF MarkSubmitted, At, OrderPlaces, Recorded
  <2>2. row.status = "submitted" /\ row.intent = rows[o].intent
    BY <2>1 DEF TypeOK, Row
  <2> QED BY <1>2, <2>1, <2>2 DEF IndexAllows
<1>5. ASSUME NEW c \in Calls, MarkFailed(c) PROVE OneActiveOrderPerIntent'
  <2> DEFINE o == call[c].order
             row == [rows[o] EXCEPT !.status = "submit_failed"]
  <2>1. o \in Orders /\ rows' = [rows EXCEPT ![o] = row]
    BY <1>5, OrderInHand DEF MarkFailed, At, OrderPlaces, Recorded
  <2>2. row.status \in InactiveStatuses
    BY <2>1 DEF TypeOK, Row, InactiveStatuses
  <2> QED BY <1>2, <2>1, <2>2
<1>6. ASSUME NEW t \in Ticks, SweepWrite(t) PROVE OneActiveOrderPerIntent'
  <2> DEFINE o == sweep[t].order
             row == [rows[o] EXCEPT !.status = sweep[t].write]
  <2>1. o \in Orders /\ rows' = [rows EXCEPT ![o] = row] /\ IndexAllows(o, sweep[t].write)
    BY <1>6 DEF SweepWrite, LocalsInv, SweepsInv, Recorded
  <2>2. row.status = sweep[t].write /\ row.intent = rows[o].intent
    BY <2>1 DEF TypeOK, Row
  <2> QED BY <1>2, <2>1, <2>2 DEF IndexAllows
<1>7. ASSUME NEW r \in Reconcilers, ApplyBrokerOrder(r) PROVE OneActiveOrderPerIntent'
  <2> DEFINE o == rec[r].order
             row == [rows[o] EXCEPT !.status = rec[r].status, !.qty = rec[r].qty]
  <2>1. o \in Orders /\ rows' = [rows EXCEPT ![o] = row] /\ IndexAllows(o, rec[r].status)
    BY <1>7, OrderReconciled DEF ApplyBrokerOrder, Recorded
  <2>2. row.status = rec[r].status /\ row.intent = rows[o].intent
    BY <2>1 DEF TypeOK, Row
  <2> QED BY <1>2, <2>1, <2>2 DEF IndexAllows
<1> QED BY <1>1, <1>3, <1>4, <1>5, <1>6, <1>7, Writers DEF RowWrite

\* No interleaving of submit(), the sweep and the reconcilers gives an intent
\* two active rows (real-order.service.ts:19 and migration 0017).
THEOREM OneActive == Spec => []OneActiveOrderPerIntent
<1>1. Init => OneActiveOrderPerIntent
  BY DEF Init, OneActiveOrderPerIntent, Active, Exists, NoRow
<1>2. TypeOK /\ LocalsInv /\ OneActiveOrderPerIntent /\ [Next]_vars => OneActiveOrderPerIntent'
  BY OneActiveKept
<1> QED BY <1>1, <1>2, TypeCorrect, PTL DEF Spec

-----------------------------------------------------------------------------
(* An order is sent once, and the broker only goes on with it.             *)

SendInv ==
    /\ \A o \in Orders : ~Exists(o) => broker[o].status = "none"
    /\ \A c \in Calls : At(c, "place") =>
         /\ broker[call[c].order].status = "none"
         /\ \A d \in Calls : At(d, "place") /\ call[d].order = call[c].order => d = c

BrokerInv ==
    \A o \in Orders :
       /\ ~KnownToBroker(o) => broker[o].qty = 0
       /\ broker[o].status = "filled" => broker[o].qty = MaxQty

\* The steps the broker's record of an order can take.
BrokerGoesOn(o) ==
    \/ broker'[o] = broker[o]
    \/ /\ broker'[o].qty = broker[o].qty
       /\ \/ Exists(o) /\ broker[o].status = "none" /\ broker'[o].status = "sent"
          \/ broker[o].status = "sent" /\ broker'[o].status \in AcceptedAs \cup {"dropped"}
    \/ /\ Working(o)
       /\ broker'[o].qty \in broker[o].qty .. MaxQty
       /\ broker'[o].status \notin BrokerAbsent
       /\ broker'[o].status = "filled" => broker'[o].qty = MaxQty

\* A call comes to "place" with the row it has just created.
LEMMA PlaceEntered ==
    ASSUME TypeOK, [Next]_vars, NEW c \in Calls, At(c, "place")'
    PROVE  CreateRow(c) \/ call'[c] = call[c]
<1>1. CASE Crash
  BY <1>1 DEF Crash, At, IdleCall
<1>2. ASSUME NEW d \in Calls, CallStep(d) PROVE CreateRow(c) \/ call'[c] = call[c]
  <2>1. ASSUME NEW place, Goto(d, place), place # "place" PROVE call'[c] = call[c]
    BY <2>1 DEF Goto, At, TypeOK, Call
  <2>2. ASSUME NEW o, Return(d, o) PROVE call'[c] = call[c]
    BY <2>2 DEF Return, At, TypeOK, Call
  <2>3. ASSUME NEW i, call' = [call EXCEPT ![d] = [@ EXCEPT !.pc = "gate", !.intent = i]]
        PROVE  call'[c] = call[c]
    BY <2>3 DEF At, TypeOK, Call
  <2>4. CASE CreateRow(d)
    <3>1. CASE c # d
      BY <2>4, <3>1 DEF CreateRow, TypeOK
    <3> QED BY <2>4, <3>1
  <2>5. CASE PlaceOrderThrows(d)
    BY <2>1, <2>5 DEF PlaceOrderThrows
  <2> QED
    BY <1>2, <2>1, <2>2, <2>3, <2>4, <2>5
    DEF CallStep, SubmitStep, Begin, GatePasses, GateRefuses, FailIntent, RejectIntent,
        SettleIntent, Decide, FindActiveOrderForIntent, FindActiveOrderForSymbol,
        CreateThrows, RefetchRaceWinner, PlaceOrder, PlaceOrderReturns, TripHalt,
        MarkSubmitted, MarkFailed, MarkThrows
<1> QED BY <1>1, <1>2, CallMover

\* At the broker a quantity only grows and an end is final.
LEMMA BrokerGoesOnly ==
    ASSUME TypeOK, LocalsInv, SendInv, BrokerInv, [Next]_vars, NEW o \in Orders
    PROVE  BrokerGoesOn(o)
<1>1. CASE broker' = broker
  BY <1>1 DEF BrokerGoesOn
<1>2. ASSUME NEW c \in Calls, PlaceOrder(c) PROVE BrokerGoesOn(o)
  BY <1>2, OrderInHand
  DEF PlaceOrder, At, OrderPlaces, Recorded, SendInv, BrokerGoesOn, TypeOK, BrokerOrder
<1>3. ASSUME NEW t \in Ticks, CancelStaleOrder(t) PROVE BrokerGoesOn(o)
  <2>1. PICK p \in tick[t].todo : broker' \in {broker, [broker EXCEPT ![p] = Cancelled(@)]}
    BY <1>3 DEF CancelStaleOrder
  <2>2. CASE p = o /\ broker'[o] = Cancelled(broker[o]) /\ Working(o)
    <3>1. /\ broker[o].qty \in 0 .. MaxQty
          /\ broker'[o].qty = broker[o].qty
          /\ broker'[o].status \in {"pending_cancel", "canceled"}
      BY <2>2 DEF TypeOK, BrokerOrder, Cancelled, Working, KnownToBroker
    <3> QED BY <2>2, <3>1, Sizes DEF BrokerGoesOn, BrokerAbsent
  <2>3. CASE broker'[o] = broker[o]
    BY <2>3 DEF BrokerGoesOn
  <2> QED BY <2>1, <2>2, <2>3 DEF TypeOK, Cancelled, Working, KnownToBroker
<1>4. ASSUME NEW p \in Orders,
             BrokerAccepts(p) \/ BrokerDrops(p) \/ BrokerFills(p) \/ BrokerEnds(p)
      PROVE  BrokerGoesOn(o)
  <2>1. CASE p # o
    <3>1. broker'[o] = broker[o]
      BY <1>4, <2>1 DEF TypeOK, BrokerAccepts, BrokerDrops, BrokerFills, BrokerEnds
    <3> QED BY <3>1 DEF BrokerGoesOn
  <2>2. CASE p = o /\ BrokerAccepts(o)
    BY <2>2 DEF BrokerAccepts, BrokerGoesOn, TypeOK
  <2>3. CASE p = o /\ BrokerDrops(o)
    BY <2>3 DEF BrokerDrops, BrokerGoesOn, TypeOK
  <2>4. CASE p = o /\ BrokerFills(o)
    <3>1. Working(o) /\ broker[o].qty \in 0 .. MaxQty
      BY <2>4 DEF BrokerFills, TypeOK, BrokerOrder
    <3>2. PICK q \in 1 .. MaxQty :
            /\ q > broker[o].qty
            /\ broker' = [broker EXCEPT ![o] =
                 [qty |-> q,
                  status |-> IF q = MaxQty THEN "filled"
                             ELSE IF @.status = "pending_cancel" THEN "pending_cancel"
                             ELSE "partially_filled"]]
      BY <2>4 DEF BrokerFills
    <3>3. /\ broker'[o].qty = q
          /\ broker'[o].status \in {"filled", "pending_cancel", "partially_filled"}
          /\ broker'[o].status = "filled" => q = MaxQty
      BY <3>2 DEF TypeOK
    <3> QED BY <3>1, <3>2, <3>3, Sizes DEF BrokerGoesOn, BrokerAbsent
  <2>5. CASE p = o /\ BrokerEnds(o)
    <3>1. /\ Working(o) /\ broker[o].qty \in 0 .. MaxQty
          /\ broker'[o].qty = broker[o].qty
          /\ broker'[o].status \in StopStatuses \cup {"canceled"}
      BY <2>5 DEF BrokerEnds, TypeOK, BrokerOrder
    <3>2. broker'[o].status \notin BrokerAbsent \cup {"filled"}
      BY <3>1, StateAssumption DEF BrokerAbsent
    <3> QED BY <3>1, <3>2, Sizes DEF BrokerGoesOn
  <2> QED BY <1>4, <2>1, <2>2, <2>3, <2>4, <2>5
<1> QED BY <1>1, <1>2, <1>3, <1>4, Writers DEF BrokerWrite, BrokerStep

\* A row about to be placed was never sent, and one call holds it.
LEMMA SendInvKept ==
    ASSUME TypeOK, LocalsInv, SendInv, BrokerInv, [Next]_vars
    PROVE  SendInv'
<1>1. ASSUME NEW o \in Orders, broker[o].status = "none",
             \A c \in Calls : PlaceOrder(c) => call[c].order # o
      PROVE  broker'[o].status = "none"
  <2>1. CASE broker' = broker
    BY <1>1, <2>1
  <2>2. ASSUME NEW c \in Calls, PlaceOrder(c) PROVE broker'[o].status = "none"
    BY <1>1, <2>2 DEF PlaceOrder, TypeOK
  <2>3. ASSUME NEW t \in Ticks, CancelStaleOrder(t) PROVE broker'[o].status = "none"
    BY <1>1, <2>3 DEF CancelStaleOrder, Cancelled, BrokerAbsent, TypeOK
  <2>4. CASE BrokerStep
    BY <1>1, <2>4 DEF BrokerStep, BrokerAccepts, BrokerDrops, BrokerFills, BrokerEnds,
                      Working, KnownToBroker, BrokerAbsent, TypeOK
  <2> QED BY <2>1, <2>2, <2>3, <2>4, Writers DEF BrokerWrite
<1>2. ASSUME NEW o \in Orders, ~Exists(o)' PROVE broker'[o].status = "none"
  <2>1. ~Exists(o) /\ broker[o].status = "none"
    BY <1>2, RowsStay DEF SendInv
  <2>2. \A c \in Calls : PlaceOrder(c) => call[c].order # o
    BY <2>1, OrderInHand DEF PlaceOrder, At, OrderPlaces, Recorded
  <2> QED BY <1>1, <2>1, <2>2
<1>3. ASSUME NEW c \in Calls, CreateRow(c)
      PROVE  /\ broker'[call'[c].order].status = "none"
             /\ \A d \in Calls : At(d, "place")' /\ call'[d].order = call'[c].order => d = c
  <2>1. PICK o \in Orders : ~Exists(o) /\ call' = [call EXCEPT ![c] = [@ EXCEPT !.pc = "place", !.order = o]]
    BY <1>3 DEF CreateRow
  <2>2. call'[c].order = o /\ \A d \in Calls \ {c} : call'[d] = call[d]
    BY <2>1 DEF TypeOK, Call
  <2> broker' = broker
    BY <1>3 DEF CreateRow
  <2>3. \A d \in Calls : At(d, "place") => call[d].order # o
    BY <2>1, OrderInHand DEF At, OrderPlaces, Recorded
  <2> QED BY <2>1, <2>2, <2>3 DEF SendInv, At
<1>4. ASSUME NEW c \in Calls, At(c, "place")', call'[c] = call[c]
      PROVE  broker'[call'[c].order].status = "none"
  <2>1. At(c, "place") /\ call[c].order \in Orders
    BY <1>4, OrderInHand DEF At, OrderPlaces, Recorded
  <2>2. ASSUME NEW d \in Calls, PlaceOrder(d) PROVE call[d].order # call[c].order
    <3>1. At(d, "place")' = FALSE
      BY <2>2 DEF PlaceOrder, At, Goto, TypeOK, Call
    <3> QED BY <1>4, <2>1, <2>2, <3>1 DEF PlaceOrder, SendInv
  <2> QED BY <1>1, <1>4, <2>1, <2>2 DEF SendInv
<1>5. ASSUME NEW c \in Calls, At(c, "place")', NEW d \in Calls, At(d, "place")',
             call'[d].order = call'[c].order
      PROVE  d = c
  BY <1>3, <1>5, PlaceEntered DEF SendInv, At
<1> QED BY <1>2, <1>3, <1>4, <1>5, PlaceEntered DEF SendInv

\* What the broker traded fits the status it reports.
LEMMA BrokerInvKept ==
    ASSUME TypeOK, LocalsInv, SendInv, BrokerInv, [Next]_vars
    PROVE  BrokerInv'
<1> SUFFICES ASSUME NEW o \in Orders
             PROVE  /\ ~KnownToBroker(o)' => broker'[o].qty = 0
                    /\ broker'[o].status = "filled" => broker'[o].qty = MaxQty
  BY DEF BrokerInv
<1>1. \A raw \in AcceptedAs : raw # "filled"
  BY StateAssumption DEF Normalize
<1> QED
  BY <1>1, BrokerGoesOnly
  DEF BrokerGoesOn, BrokerInv, KnownToBroker, Working, BrokerAbsent, TypeOK, BrokerOrder

-----------------------------------------------------------------------------
(* The books follow the broker.                                            *)

\* What a reconciler is about to write is what the broker has traded, and a
\* fill it heard of came with its evidence.
TrueAnswer(r) ==
    /\ KnownToBroker(rec[r].order)
    /\ rec[r].qty =< broker[rec[r].order].qty
    /\ rec[r].priced => rec[r].qty > 0
    /\ rec[r].status = "filled" => broker[rec[r].order].status = "filled" /\ rec[r].priced

AnswerInv == \A r \in Reconcilers : rec[r].pc = "apply" => TrueAnswer(r)

LedgerInv == SendInv /\ BrokerInv /\ AnswerInv /\ NoFabricatedFill

\* What the broker has traded it does not take back.
LEMMA BrokerGrows ==
    ASSUME TypeOK, LocalsInv, SendInv, BrokerInv, [Next]_vars, NEW o \in Orders
    PROVE  /\ broker[o].qty \in Nat /\ broker'[o].qty \in Nat
           /\ broker[o].qty =< broker'[o].qty
           /\ KnownToBroker(o) => KnownToBroker(o)'
           /\ broker[o].status = "filled" => broker'[o].status = "filled"
<1>1. broker[o] \in BrokerOrder /\ broker[o].qty \in 0 .. MaxQty
  BY DEF TypeOK, BrokerOrder
<1>2. CASE broker'[o] = broker[o]
  BY <1>1, <1>2, Sizes DEF KnownToBroker
<1>3. CASE /\ broker'[o].qty = broker[o].qty
           /\ broker[o].status \in {"none", "sent"}
  BY <1>1, <1>3, Sizes DEF KnownToBroker, BrokerAbsent
<1>4. CASE /\ Working(o)
           /\ broker'[o].qty \in broker[o].qty .. MaxQty
           /\ broker'[o].status \notin BrokerAbsent
  BY <1>1, <1>4, Sizes DEF Working, KnownToBroker, BrokerFinal
<1> QED BY <1>2, <1>3, <1>4, BrokerGoesOnly DEF BrokerGoesOn

\* A reconciler comes to "apply" with an answer it has just been given.
LEMMA ApplyEntered ==
    ASSUME TypeOK, [Next]_vars, NEW r \in Reconcilers, rec'[r].pc = "apply"
    PROVE  Lookup(r) \/ rec'[r] = rec[r]
<1>1. ASSUME NEW u \in Reconcilers, NEW next, next.pc # "apply",
             rec' = [rec EXCEPT ![u] = next]
      PROVE  rec'[r] = rec[r]
  BY <1>1 DEF TypeOK
<1>2. ASSUME NEW u \in Reconcilers, NEW rs, AfterReconcile(u, rs) PROVE rec'[r] = rec[r]
  BY <1>1, <1>2 DEF AfterReconcile, Reading, IdleRec
<1>3. ASSUME NEW u \in Reconcilers, ReconcileStep(u) PROVE Lookup(r) \/ rec'[r] = rec[r]
  <2>1. CASE Lookup(u)
    <3>1. CASE u # r
      BY <2>1, <3>1 DEF Lookup, TypeOK
    <3> QED BY <2>1, <3>1
  <2>2. CASE ReadRow(u)
    BY <1>1, <1>2, <2>2 DEF ReadRow, TypeOK, Reconciliation
  <2> QED
    BY <1>2, <1>3, <2>1, <2>2
    DEF ReconcileStep, LookupChangesNothing, LookupFails, ApplyBrokerOrder, ApplySkipped
<1>4. ASSUME NEW c \in Calls, SettleIntent(c) PROVE rec'[r] = rec[r]
  BY <1>1, <1>4 DEF SettleIntent, Polling, Reading, Reconcilers
<1>5. ASSUME NEW t \in Ticks, ReconcileNext(t) PROVE rec'[r] = rec[r]
  BY <1>1, <1>5 DEF ReconcileNext, Reading, Reconcilers
<1>6. CASE Crash
  BY <1>6 DEF Crash, IdleRec
<1> QED BY <1>3, <1>4, <1>5, <1>6, ReconcilerMover

\* An answer in hand stays true while its reconciler waits.
LEMMA AnswerInvKept ==
    ASSUME TypeOK, LocalsInv, LedgerInv, [Next]_vars
    PROVE  AnswerInv'
<1> USE DEF LedgerInv
<1>1. ASSUME NEW r \in Reconcilers, rec[r].pc = "apply", rec'[r] = rec[r]
      PROVE  TrueAnswer(r)'
  <2>1. PICK o \in Orders : o = rec[r].order
    BY <1>1, OrderReconciled DEF Recorded
  <2>2. rec[r].qty \in Nat
    BY Sizes DEF TypeOK, Reconciliation
  <2>3. TrueAnswer(r)
    BY <1>1 DEF AnswerInv
  <2>4. /\ broker[o].qty \in Nat /\ broker'[o].qty \in Nat
        /\ broker[o].qty =< broker'[o].qty
        /\ KnownToBroker(o)'
        /\ broker[o].status = "filled" => broker'[o].status = "filled"
    BY <2>1, <2>3, BrokerGrows DEF TrueAnswer
  <2> QED BY <1>1, <2>1, <2>2, <2>3, <2>4 DEF TrueAnswer, KnownToBroker
<1>2. ASSUME NEW r \in Reconcilers, Lookup(r)
      PROVE  TrueAnswer(r)'
  <2> DEFINE o == rec[r].order
  <2>1. o \in Orders /\ broker[o].qty \in 0 .. MaxQty
    BY <1>2, OrderReconciled DEF Lookup, Recorded, TypeOK, BrokerOrder
  <2>2. PICK priced \in BOOLEAN :
          /\ rec' = [rec EXCEPT ![r] = [@ EXCEPT !.pc = "apply",
                       !.status = Normalize(broker[o].status),
                       !.qty = broker[o].qty, !.priced = priced]]
          /\ \/ priced = (broker[o].qty > 0)
             \/ ~priced /\ Normalize(broker[o].status) \in {"canceled", "rejected", "expired"}
    BY <1>2 DEF Lookup
  <2>3. rec[r] \in Reconciliation
    BY DEF TypeOK
  <2>4. /\ rec'[r].order = o /\ rec'[r].qty = broker[o].qty
        /\ rec'[r].status = Normalize(broker[o].status) /\ rec'[r].priced = priced
    BY <2>2, <2>3 DEF TypeOK, Reconciliation
  <2>5. broker' = broker /\ KnownToBroker(o)
    BY <1>2 DEF Lookup
  <2>6. Normalize(broker[o].status) = "filled" => broker[o].status = "filled"
    BY DEF Normalize
  <2>7. Normalize(broker[o].status) = "filled" => priced
    <3>1. ASSUME Normalize(broker[o].status) = "filled" PROVE broker[o].qty > 0
      BY <2>1, <2>6, <3>1, Sizes DEF BrokerInv
    <3> QED BY <2>2, <3>1
  <2>8. priced => broker[o].qty > 0
    BY <2>2
  <2> HIDE DEF o
  <2> QED BY <2>1, <2>4, <2>5, <2>6, <2>7, <2>8 DEF TrueAnswer, KnownToBroker
<1>3. ASSUME NEW r \in Reconcilers, rec'[r].pc = "apply" PROVE TrueAnswer(r)'
  BY <1>1, <1>2, <1>3, ApplyEntered
<1> QED BY <1>3 DEF AnswerInv, Reconcilers

\* No step books what the broker did not trade.
LEMMA NoFabricatedFillKept ==
    ASSUME TypeOK, LocalsInv, LedgerInv, [Next]_vars
    PROVE  NoFabricatedFill'
<1> USE DEF LedgerInv
<1>1. ASSUME NEW r \in Reconcilers, ApplyBrokerOrder(r)
      PROVE  TrueAnswer(r) /\ rec[r].order \in Orders /\ broker' = broker
  BY <1>1, OrderReconciled DEF ApplyBrokerOrder, AnswerInv, Recorded
<1>2. ASSUME NEW o \in Orders
      PROVE  /\ rows'[o].qty =< broker'[o].qty
             /\ rows'[o].status = "filled" => broker'[o].status = "filled"
  <2>1. CASE rows'[o].qty = rows[o].qty /\ (rows'[o].status = "filled" => rows[o].status = "filled")
    <3>1. rows[o].qty \in Nat
      BY Sizes DEF TypeOK, Row
    <3> QED BY <2>1, <3>1, BrokerGrows DEF NoFabricatedFill
  <2>2. ASSUME NEW c \in Calls, CreateRow(c) 
        PROVE  \/ rows'[o] = rows[o]
               \/ rows'[o].qty = 0 /\ rows'[o].status # "filled"
    <3>1. PICK p \in Orders : rows' = [rows EXCEPT ![p] = NewRow(call[c].intent)]
      BY <2>2 DEF CreateRow
    <3>2. rows'[o] = rows[o] \/ rows'[o] = NewRow(call[c].intent)
      BY <3>1 DEF TypeOK
    <3> QED BY <3>2 DEF NewRow
  <2>3. CASE rows'[o].qty = 0 /\ rows'[o].status # "filled"
    BY <2>3, BrokerGrows
  <2>4. ASSUME NEW c \in Calls, MarkSubmitted(c) PROVE rows'[o].qty = rows[o].qty /\ (rows'[o].status = "filled" => rows[o].status = "filled")
    BY <2>4 DEF MarkSubmitted, TypeOK, Row
  <2>5. ASSUME NEW c \in Calls, MarkFailed(c) PROVE rows'[o].qty = rows[o].qty /\ (rows'[o].status = "filled" => rows[o].status = "filled")
    BY <2>5 DEF MarkFailed, TypeOK, Row
  <2>6. ASSUME NEW t \in Ticks, SweepWrite(t) PROVE rows'[o].qty = rows[o].qty /\ (rows'[o].status = "filled" => rows[o].status = "filled")
    <3>1. sweep[t].write # "filled"
      BY DEF TypeOK, Sweep, SweepWrites
    <3> QED BY <2>6, <3>1 DEF SweepWrite, TypeOK, Row
  <2>7. ASSUME NEW r \in Reconcilers, ApplyBrokerOrder(r)
        PROVE  \/ rows'[o] = rows[o]
               \/ /\ rec[r].order = o /\ rows'[o].qty = rec[r].qty
                  /\ rows'[o].status = rec[r].status
    BY <2>7 DEF ApplyBrokerOrder, TypeOK, Row
  <2>8. ASSUME NEW r \in Reconcilers, ApplyBrokerOrder(r), rec[r].order = o,
               rows'[o].qty = rec[r].qty, rows'[o].status = rec[r].status
        PROVE  /\ rows'[o].qty =< broker'[o].qty
               /\ rows'[o].status = "filled" => broker'[o].status = "filled"
    BY <1>1, <2>8 DEF TrueAnswer
  <2> QED BY <2>1, <2>2, <2>3, <2>4, <2>5, <2>6, <2>7, <2>8, Writers DEF RowWrite
<1>3. ASSUME NEW i \in Intents, intents'[i] = "executed"
      PROVE  \E o \in Orders : rows'[o].intent = i /\ broker'[o].qty > 0
  <2>1. ASSUME NEW o \in Orders, rows[o].intent = i, broker[o].qty > 0
        PROVE  rows'[o].intent = i /\ broker'[o].qty > 0
    <3>1. Exists(o)
      BY <2>1 DEF SendInv, BrokerInv, KnownToBroker, BrokerAbsent
    <3> QED BY <2>1, <3>1, RowsStay, BrokerGrows
  <2>2. CASE intents[i] = "executed"
    BY <2>1, <2>2 DEF NoFabricatedFill
  <2>3. ASSUME NEW r \in Reconcilers, ApplyBrokerOrder(r), intents[i] # "executed"
        PROVE  \E o \in Orders : rows[o].intent = i /\ broker[o].qty > 0
    <3> DEFINE o == rec[r].order
    <3>1. rec[r].priced /\ i = rows[o].intent
      BY <1>3, <2>3 DEF ApplyBrokerOrder, IntentAfter, TypeOK
    <3>2. o \in Orders /\ rec[r].qty > 0 /\ rec[r].qty =< broker[o].qty
      BY <1>1, <2>3, <3>1 DEF TrueAnswer
    <3>3. rec[r].qty \in Nat /\ broker[o].qty \in Nat
      BY <3>2, Sizes DEF TypeOK, Reconciliation, BrokerOrder
    <3> QED BY <3>1, <3>2, <3>3
  <2>4. ASSUME NEW c \in Calls, FailIntent(c) \/ RejectIntent(c) \/ SettleIntent(c)
        PROVE  intents[i] = "executed"
    BY <1>3, <2>4 DEF FailIntent, RejectIntent, SettleIntent, Decide, TypeOK
  <2> QED BY <1>3, <2>1, <2>2, <2>3, <2>4, Writers DEF IntentWrite
<1> QED BY <1>2, <1>3 DEF NoFabricatedFill

\* The inductive invariant of the ledger.
LEMMA LedgerInvHolds == Spec => [](TypeOK /\ LocalsInv /\ LedgerInv)
<1>1. Init => LedgerInv
  <2> SUFFICES ASSUME Init PROVE LedgerInv
    OBVIOUS
  <2>1. SendInv /\ AnswerInv
    BY DEF Init, SendInv, AnswerInv, At, IdleCall, IdleRec
  <2>2. BrokerInv
    BY DEF Init, BrokerInv
  <2>3. NoFabricatedFill
    BY DEF Init, NoFabricatedFill, NoRow
  <2> QED BY <2>1, <2>2, <2>3 DEF LedgerInv
<1>2. TypeOK /\ LocalsInv /\ LedgerInv /\ [Next]_vars => LedgerInv'
  BY SendInvKept, BrokerInvKept, AnswerInvKept, NoFabricatedFillKept DEF LedgerInv
<1> QED BY <1>1, <1>2, TypeCorrect, PTL DEF Spec

\* No row and no intent claims more than the broker has traded
\* (real-broker-reconciliation.service.ts:17).
THEOREM NothingFabricated == Spec => []NoFabricatedFill
BY LedgerInvHolds, PTL DEF LedgerInv

-----------------------------------------------------------------------------
(* What no step does.                                                      *)

\* Only applyBrokerOrder() ends a row at the broker's word.
LEMMA EndedOnlyByApply ==
    ASSUME TypeOK, LocalsInv, [Next]_vars, NEW o \in Orders, Ended(rows', o), ~Ended(rows, o)
    PROVE  \E r \in Reconcilers : ApplyBrokerOrder(r) /\ rec[r].order = o
<1>1. ASSUME NEW c \in Calls, CreateRow(c) PROVE FALSE
  <2>1. PICK p \in Orders : rows' = [rows EXCEPT ![p] = NewRow(call[c].intent)]
    BY <1>1 DEF CreateRow
  <2> QED BY <2>1 DEF Ended, NewRow, TypeOK
<1>2. ASSUME NEW c \in Calls, MarkSubmitted(c) PROVE FALSE
  BY <1>2 DEF MarkSubmitted, Ended, TypeOK, Row
<1>3. ASSUME NEW c \in Calls, MarkFailed(c) PROVE FALSE
  BY <1>3 DEF MarkFailed, Ended, TypeOK, Row
<1>4. ASSUME NEW t \in Ticks, SweepWrite(t) PROVE FALSE
  <2>1. sweep[t].write \in SweepWrites
    BY DEF TypeOK, Sweep
  <2> QED BY <1>4, <2>1 DEF SweepWrite, SweepWrites, Ended, TypeOK, Row
<1>5. ASSUME NEW r \in Reconcilers, ApplyBrokerOrder(r) PROVE rec[r].order = o
  BY <1>5 DEF ApplyBrokerOrder, Ended, TypeOK
<1> QED BY <1>1, <1>2, <1>3, <1>4, <1>5, Writers DEF RowWrite, Ended

\* A row never ends alone: the step that ends it ends its intent, as executed
\* when there was evidence of a fill and as failed when there was none
\* (real-broker-reconciliation.service.ts:5).
THEOREM EndTogether == Spec => RowAndIntentEndTogether
<1>1. TypeOK /\ LocalsInv /\ LedgerInv /\ [Next]_vars =>
        [\A o \in Orders : Ended(rows', o) /\ ~Ended(rows, o) =>
           \/ intents'[rows[o].intent] = "executed" /\ rows'[o].qty > 0
           \/ /\ intents'[rows[o].intent] = "failed"
              /\ rows'[o].status # "filled"
              /\ rows'[o].qty > 0 =>
                   \E r \in Reconcilers : rec[r].order = o /\ ~rec[r].priced]_vars
  <2> SUFFICES ASSUME TypeOK, LocalsInv, LedgerInv, [Next]_vars,
                      NEW o \in Orders, Ended(rows', o), ~Ended(rows, o)
               PROVE  \/ intents'[rows[o].intent] = "executed" /\ rows'[o].qty > 0
                      \/ /\ intents'[rows[o].intent] = "failed"
                         /\ rows'[o].status # "filled"
                         /\ rows'[o].qty > 0 =>
                              \E r \in Reconcilers : rec[r].order = o /\ ~rec[r].priced
    OBVIOUS
  <2>1. PICK r \in Reconcilers : ApplyBrokerOrder(r) /\ rec[r].order = o
    BY EndedOnlyByApply
  <2>2. /\ rows'[o].status = rec[r].status /\ rows'[o].qty = rec[r].qty
        /\ rows[o].intent \in Intents
        /\ rec[r].priced \in BOOLEAN
    <3>1. Exists(o)
      BY <2>1, OrderReconciled DEF ApplyBrokerOrder, Recorded
    <3> QED BY <2>1, <3>1
      DEF ApplyBrokerOrder, TypeOK, Row, Reconciliation, LocalsInv, RowsInv
  <2>3. intents'[rows[o].intent] = IntentAfter(rows[o].intent, rec[r].status, rec[r].priced)
    BY <2>1, <2>2 DEF ApplyBrokerOrder, TypeOK
  <2>4. rec[r].status # "partially_filled"
    BY <2>2 DEF Ended
  <2>5. TrueAnswer(r)
    BY <2>1 DEF ApplyBrokerOrder, LedgerInv, AnswerInv
  <2>6. CASE rec[r].priced
    BY <2>2, <2>3, <2>4, <2>5, <2>6 DEF IntentAfter, TrueAnswer
  <2>7. CASE ~rec[r].priced
    BY <2>1, <2>2, <2>3, <2>4, <2>5, <2>7 DEF IntentAfter, TrueAnswer
  <2> QED BY <2>6, <2>7
<1> QED BY <1>1, LedgerInvHolds, PTL DEF Spec, RowAndIntentEndTogether

\* A reconciler goes on past its read only with a row that had not ended.
SeenInv ==
    \A r \in Reconcilers :
       rec[r].pc \in {"lookup", "apply"} => rec[r].seen \notin ReconciledStatuses

\* A reconciler that waits on the broker keeps the status it read.
LEMMA SeenInvKept ==
    ASSUME TypeOK, SeenInv, [Next]_vars
    PROVE  SeenInv'
<1>1. ASSUME NEW u \in Reconcilers, NEW next, rec' = [rec EXCEPT ![u] = next],
             next.pc \in {"lookup", "apply"} => next.seen \notin ReconciledStatuses
      PROVE  SeenInv'
  BY <1>1 DEF SeenInv, TypeOK
<1>2. ASSUME NEW u \in Reconcilers, NEW rs, AfterReconcile(u, rs) PROVE SeenInv'
  <2>1. CASE rec' = [rec EXCEPT ![u] = IdleRec]
    BY <1>1, <2>1 DEF IdleRec
  <2>2. CASE rec' = [rec EXCEPT ![u] = Reading(rec[u].order, rec[u].left - 1)]
    BY <1>1, <2>2 DEF Reading
  <2> QED BY <1>2, <2>1, <2>2 DEF AfterReconcile
<1>3. ASSUME NEW u \in Reconcilers, ReconcileStep(u) PROVE SeenInv'
  <2>1. CASE ReadRow(u)
    <3>1. CASE AfterReconcile(u, rows)
      BY <1>2, <3>1
    <3> DEFINE next == [rec[u] EXCEPT !.pc = "lookup", !.seen = rows[rec[u].order].status]
    <3>2. CASE rec' = [rec EXCEPT ![u] = next] /\ rows[rec[u].order].status \notin ReconciledStatuses
      <4>1. next.seen = rows[rec[u].order].status
        BY DEF TypeOK, Reconciliation
      <4> HIDE DEF next
      <4> QED BY <1>1, <3>2, <4>1
    <3> QED BY <2>1, <3>1, <3>2 DEF ReadRow
  <2>2. CASE Lookup(u)
    <3>1. PICK priced \in BOOLEAN :
            rec' = [rec EXCEPT ![u] = [@ EXCEPT !.pc = "apply",
                      !.status = Normalize(broker[rec[u].order].status),
                      !.qty = broker[rec[u].order].qty, !.priced = priced]]
      BY <2>2 DEF Lookup
    <3> DEFINE next == [rec[u] EXCEPT !.pc = "apply",
                          !.status = Normalize(broker[rec[u].order].status),
                          !.qty = broker[rec[u].order].qty, !.priced = priced]
    <3>2. next.seen = rec[u].seen
      BY DEF TypeOK, Reconciliation
    <3>3. rec[u].seen \notin ReconciledStatuses
      BY <2>2 DEF Lookup, SeenInv
    <3>4. rec' = [rec EXCEPT ![u] = next]
      BY <3>1
    <3> HIDE DEF next
    <3> QED BY <1>1, <3>2, <3>3, <3>4
  <2> QED
    BY <1>2, <1>3, <2>1, <2>2
    DEF ReconcileStep, LookupChangesNothing, LookupFails, ApplyBrokerOrder, ApplySkipped
<1>4. ASSUME NEW c \in Calls, SettleIntent(c) PROVE SeenInv'
  BY <1>1, <1>4 DEF SettleIntent, Polling, Reading, Reconcilers
<1>5. ASSUME NEW t \in Ticks, ReconcileNext(t) PROVE SeenInv'
  <2>1. PICK o \in tick[t].todo : rec' = [rec EXCEPT ![t] = Reading(o, 0)]
    BY <1>5 DEF ReconcileNext
  <2> QED BY <1>1, <2>1 DEF Reading, Reconcilers
<1>6. CASE Crash
  BY <1>6 DEF Crash, IdleRec, SeenInv
<1>7. CASE UNCHANGED rec
  BY <1>7 DEF SeenInv
<1> QED BY <1>3, <1>4, <1>5, <1>6, <1>7, ReconcilerMover

\* A reconciler leaves applyBrokerOrder() by its own step or by a crash: it
\* writes its one row, or no row at all.
LEMMA ApplyLeft ==
    ASSUME TypeOK, [Next]_vars, NEW r \in Reconcilers,
           rec[r].pc = "apply", rec'[r].pc # "apply"
    PROVE  rows' = rows \/ ApplyBrokerOrder(r)
<1>1. CASE Crash
  BY <1>1 DEF Crash, dbVars
<1>2. ASSUME NEW u \in Reconcilers, ReconcileStep(u) PROVE rows' = rows \/ ApplyBrokerOrder(r)
  <2>1. CASE ApplyBrokerOrder(u)
    <3>1. CASE u # r
      BY <2>1, <3>1 DEF ApplyBrokerOrder, AfterReconcile, TypeOK
    <3> QED BY <2>1, <3>1
  <2> QED BY <1>2, <2>1, ReconcileWriters
<1>3. ASSUME NEW c \in Calls, SettleIntent(c) PROVE rows' = rows
  BY <1>3 DEF SettleIntent, Decide
<1>4. ASSUME NEW t \in Ticks, ReconcileNext(t) PROVE rows' = rows
  BY <1>4 DEF ReconcileNext, dbVars
<1> QED BY <1>1, <1>2, <1>3, <1>4, ReconcilerMover

\* Whatever another writer did between the read and the write, applyBrokerOrder
\* never moves a row back (real-broker-reconciliation.service.ts:209).
THEOREM NeverDowngrades == Spec => ReconcilerNeverDowngrades
<1>1. Init => SeenInv
  BY DEF Init, SeenInv, IdleRec
<1>2. TypeOK /\ LocalsInv /\ SeenInv /\ [Next]_vars =>
        [\A r \in Reconcilers, o \in Orders :
           rec[r].pc = "apply" /\ rec'[r].pc # "apply"
             => Progress(rows'[o].status) >= Progress(rows[o].status)]_vars
  <2> SUFFICES ASSUME TypeOK, LocalsInv, SeenInv, [Next]_vars,
                      NEW r \in Reconcilers, NEW o \in Orders,
                      rec[r].pc = "apply", rec'[r].pc # "apply"
               PROVE  Progress(rows'[o].status) >= Progress(rows[o].status)
    OBVIOUS
  <2>1. CASE rows'[o].status = rows[o].status
    BY <2>1 DEF Progress
  <2>2. CASE ApplyBrokerOrder(r) /\ rec[r].order = o
    <3>1. rows[o].status \notin ReconciledStatuses \cup {"none"}
      BY <2>2, OrderReconciled DEF ApplyBrokerOrder, SeenInv, Recorded, Exists
    <3>2. rows[o].status \in RowStatuses \cup {"none"}
      BY DEF TypeOK, Row
    <3>3. rows'[o].status = rec[r].status
      BY <2>2 DEF ApplyBrokerOrder, TypeOK, Row
    <3>4. rec[r].status \in Canonical \ {"accepted"}
      BY DEF TypeOK, Reconciliation, LocalsInv, ReconcilersInv
    <3>5. Progress(rec[r].status) \in {2, 3}
      BY <3>4 DEF Canonical, CanonicalTerminal, Progress
    <3>6. Progress(rows[o].status) \in 0 .. 2
      BY <3>1, <3>2
      DEF RowStatuses, RecoverableStatuses, OpenStatuses, InactiveStatuses, CanonicalTerminal,
          ReconciledStatuses, Progress
    <3> QED BY <3>3, <3>5, <3>6
  <2>3. CASE ApplyBrokerOrder(r) /\ rec[r].order # o
    BY <2>1, <2>3 DEF ApplyBrokerOrder, TypeOK
  <2> QED BY <2>1, <2>2, <2>3, ApplyLeft
<1> QED BY <1>1, <1>2, SeenInvKept, TypeCorrect, PTL DEF Spec, ReconcilerNeverDowngrades

\* The kill-switch is un-tripped by the operator and by nothing else, a crash
\* and restart among them (real-execution-halt.util.ts:13).
THEOREM HaltIsSticky == Spec => OnlyOperatorClearsHalt
<1>1. [Next]_vars => [halted /\ ~halted' => ClearHalt]_vars
  <2> SUFFICES ASSUME [Next]_vars, halted' # halted, ~ClearHalt PROVE halted' = TRUE
    BY DEF vars, dbVars
  <2>1. ASSUME NEW c \in Calls, CallStep(c) PROVE TripHalt(c)
    BY <2>1
    DEF CallStep, SubmitStep, Begin, GatePasses, GateRefuses, FailIntent, RejectIntent,
        SettleIntent, Decide, FindActiveOrderForIntent, FindActiveOrderForSymbol, CreateRow,
        CreateThrows, RefetchRaceWinner, PlaceOrder, PlaceOrderReturns, PlaceOrderThrows,
        MarkSubmitted, MarkFailed, MarkThrows, dbVars
  <2>2. ASSUME NEW t \in Ticks, SweepStep(t) \/ TickStep(t) PROVE FALSE
    BY <2>2
    DEF SweepStep, SweepLookup, SweepWrite, SweepAborts, SweepEnds, TickStep, TickStarts,
        BootSweepOver, ListStaleOrders, CancelStaleOrder, ListOpenOrders, ReconcileNext,
        TickEnds, dbVars
  <2>3. ASSUME NEW r \in Reconcilers, ReconcileStep(r) PROVE FALSE
    BY <2>3
    DEF ReconcileStep, ReadRow, LookupChangesNothing, LookupFails, Lookup, ApplyBrokerOrder,
        ApplySkipped, dbVars
  <2>4. ~BrokerStep /\ ~Crash /\ ~UNCHANGED vars
    BY DEF BrokerStep, BrokerAccepts, BrokerDrops, BrokerFills, BrokerEnds, Crash, vars, dbVars
  <2> QED BY <2>1, <2>2, <2>3, <2>4 DEF Next, TripHalt
<1> QED BY <1>1, PTL DEF Spec, OnlyOperatorClearsHalt

-----------------------------------------------------------------------------
(* RealTrading implements OrderPromise.                                    *)

\* What OrderPromise sees of an order: its stage, what was traded, what is booked.
LEMMA PromiseMoves ==
    ASSUME NEW o \in Orders, NEW from, NEW to,
           Stage(o) = from, Stage(o)' = to,
           \A p \in Orders \ {o} : Stage(p)' = Stage(p),
           \A p \in Orders : broker'[p].qty = broker[p].qty /\ rows'[p].qty = rows[p].qty
    PROVE  Promise!Move(o, from, to)
BY DEF Promise!Move

\* A step that changes neither stage nor quantity is a stutter of OrderPromise.
LEMMA PromiseStutters ==
    ASSUME \A p \in Orders : Stage(p)' = Stage(p),
           \A p \in Orders : broker'[p].qty = broker[p].qty /\ rows'[p].qty = rows[p].qty
    PROVE  UNCHANGED Promise!promiseVars
BY DEF Promise!promiseVars

\* The first state is one of OrderPromise.
LEMMA PromiseInit == Init => Promise!Init
BY DEF Init, Promise!Init, Stage, Exists, NoRow

\* A step that writes a row without touching the broker.
LEMMA RowWritePromise ==
    ASSUME TypeOK, LocalsInv, LedgerInv, [Next]_vars, RowWrite, broker' = broker
    PROVE  [Promise!Next]_(Promise!promiseVars)
<1>1. ASSUME NEW o \in Orders, Exists(o) PROVE Stage(o)' = Stage(o)
  BY <1>1, RowsStay DEF Stage
<1>2. ASSUME NEW o \in Orders, NEW row, rows' = [rows EXCEPT ![o] = row]
      PROVE  \A p \in Orders \ {o} : rows'[p].qty = rows[p].qty /\ Stage(p)' = Stage(p)
  BY <1>2 DEF Stage, Exists, TypeOK
<1>3. ASSUME NEW c \in Calls, CreateRow(c) PROVE Promise!Next
  <2>1. PICK o \in Orders : ~Exists(o) /\ rows' = [rows EXCEPT ![o] = NewRow(call[c].intent)]
    BY <1>3 DEF CreateRow
  <2>2. rows'[o].qty = 0 /\ rows'[o].status = "pending_submit"
    BY <2>1 DEF NewRow, TypeOK
  <2>3. Stage(o) = "free" /\ Stage(o)' = "recorded"
    BY <2>1, <2>2 DEF Stage, Exists, LedgerInv, SendInv
  <2>4. rows[o].qty = 0
    <3>1. rows[o].qty \in Nat /\ broker[o].qty = 0
      BY <2>1, Sizes DEF LedgerInv, SendInv, BrokerInv, KnownToBroker, BrokerAbsent, TypeOK, Row
    <3> QED BY <3>1 DEF LedgerInv, NoFabricatedFill
  <2>5. Promise!Move(o, "free", "recorded")
    BY <1>2, <2>1, <2>2, <2>3, <2>4, PromiseMoves
  <2> QED BY <2>5 DEF Promise!Next, Promise!Record
<1>4. ASSUME NEW o \in Orders, Exists(o), NEW row, rows' = [rows EXCEPT ![o] = row],
             row.qty = rows[o].qty
      PROVE  UNCHANGED Promise!promiseVars
  <2>1. \A p \in Orders : rows'[p].qty = rows[p].qty /\ Stage(p)' = Stage(p)
    BY <1>1, <1>2, <1>4 DEF TypeOK
  <2> QED BY <2>1, PromiseStutters
<1>5. ASSUME NEW c \in Calls, MarkSubmitted(c) PROVE UNCHANGED Promise!promiseVars
  <2> DEFINE o == call[c].order
             row == [rows[o] EXCEPT !.status = "submitted", !.cancellable = TRUE]
  <2>1. o \in Orders /\ Exists(o) /\ rows' = [rows EXCEPT ![o] = row]
    BY <1>5, OrderInHand DEF MarkSubmitted, At, OrderPlaces, Recorded
  <2>2. row.qty = rows[o].qty
    BY <2>1 DEF TypeOK, Row
  <2> QED BY <1>4, <2>1, <2>2
<1>6. ASSUME NEW c \in Calls, MarkFailed(c) PROVE UNCHANGED Promise!promiseVars
  <2> DEFINE o == call[c].order
             row == [rows[o] EXCEPT !.status = "submit_failed"]
  <2>1. o \in Orders /\ Exists(o) /\ rows' = [rows EXCEPT ![o] = row]
    BY <1>6, OrderInHand DEF MarkFailed, At, OrderPlaces, Recorded
  <2>2. row.qty = rows[o].qty
    BY <2>1 DEF TypeOK, Row
  <2> QED BY <1>4, <2>1, <2>2
<1>7. ASSUME NEW t \in Ticks, SweepWrite(t) PROVE UNCHANGED Promise!promiseVars
  <2> DEFINE o == sweep[t].order
             row == [rows[o] EXCEPT !.status = sweep[t].write]
  <2>1. o \in Orders /\ Exists(o) /\ rows' = [rows EXCEPT ![o] = row]
    BY <1>7 DEF SweepWrite, LocalsInv, SweepsInv, Recorded
  <2>2. row.qty = rows[o].qty
    BY <2>1 DEF TypeOK, Row
  <2> QED BY <1>4, <2>1, <2>2
<1>8. ASSUME NEW r \in Reconcilers, ApplyBrokerOrder(r) PROVE Promise!Next
  <2>1. PICK o \in Orders : o = rec[r].order
    BY <1>8, OrderReconciled DEF ApplyBrokerOrder, Recorded
  <2>2. rows' = [rows EXCEPT ![o] = [@ EXCEPT !.status = rec[r].status, !.qty = rec[r].qty]]
    BY <1>8, <2>1 DEF ApplyBrokerOrder
  <2>3. rows'[o].qty = rec[r].qty /\ rec[r].qty \in 0 .. MaxQty
    BY <2>2 DEF TypeOK, Row, Reconciliation
  <2>4. KnownToBroker(o) /\ rec[r].qty =< broker[o].qty
    BY <1>8, <2>1 DEF ApplyBrokerOrder, LedgerInv, AnswerInv, TrueAnswer
  <2>5. Stage(o) = "taken"
    BY <2>4 DEF Stage, KnownToBroker, BrokerAbsent
  <2>6. \A p \in Orders : Stage(p)' = Stage(p)
    BY <1>1, <1>2, <1>8, <2>1, <2>2, OrderReconciled DEF ApplyBrokerOrder, Recorded
  <2>7. \A p \in Orders \ {o} : rows'[p].qty = rows[p].qty
    BY <1>2, <2>2
  <2>8. Promise!Book(o)
    BY <2>3, <2>4, <2>5, <2>6, <2>7 DEF Promise!Book
  <2> QED BY <2>8 DEF Promise!Next
<1> QED BY <1>3, <1>5, <1>6, <1>7, <1>8 DEF RowWrite

\* A step of the broker, or of a request to it.
LEMMA BrokerWritePromise ==
    ASSUME TypeOK, LocalsInv, LedgerInv, [Next]_vars, rows' = rows, BrokerWrite
    PROVE  [Promise!Next]_(Promise!promiseVars)
<1>1. PICK o \in Orders : \A p \in Orders \ {o} : broker'[p] = broker[p]
  <2>1. ASSUME NEW c \in Calls, PlaceOrder(c)
        PROVE  \E o \in Orders : \A p \in Orders \ {o} : broker'[p] = broker[p]
    BY <2>1, OrderInHand DEF PlaceOrder, At, OrderPlaces, Recorded, TypeOK
  <2>2. ASSUME NEW t \in Ticks, CancelStaleOrder(t)
        PROVE  \E o \in Orders : \A p \in Orders \ {o} : broker'[p] = broker[p]
    BY <2>2 DEF CancelStaleOrder, TypeOK, Tick
  <2>3. ASSUME BrokerStep
        PROVE  \E o \in Orders : \A p \in Orders \ {o} : broker'[p] = broker[p]
    BY <2>3 DEF BrokerStep, BrokerAccepts, BrokerDrops, BrokerFills, BrokerEnds, TypeOK
  <2> QED BY <2>1, <2>2, <2>3 DEF BrokerWrite
<1>2. \A p \in Orders \ {o} : Stage(p)' = Stage(p) /\ broker'[p].qty = broker[p].qty
  BY <1>1 DEF Stage, Exists
<1>3. CASE broker'[o] = broker[o]
  <2>1. Stage(o)' = Stage(o)
    BY <1>3 DEF Stage, Exists
  <2> QED BY <1>2, <1>3, <2>1, PromiseStutters
<1>4. CASE /\ broker'[o].qty = broker[o].qty
           /\ Exists(o) /\ broker[o].status = "none" /\ broker'[o].status = "sent"
  <2>1. Stage(o) = "recorded" /\ Stage(o)' = "sent"
    BY <1>4 DEF Stage
  <2>2. Promise!Move(o, "recorded", "sent")
    BY <1>2, <1>4, <2>1, PromiseMoves
  <2> QED BY <2>2 DEF Promise!Next, Promise!Send
<1>5. CASE /\ broker'[o].qty = broker[o].qty
           /\ broker[o].status = "sent" /\ broker'[o].status \in AcceptedAs \cup {"dropped"}
  <2>1. Stage(o) = "sent" /\ Stage(o)' \in {"taken", "lost"}
    BY <1>5, StateAssumption DEF Stage
  <2>2. Promise!Move(o, "sent", "taken") \/ Promise!Move(o, "sent", "lost")
    BY <1>2, <1>5, <2>1, PromiseMoves
  <2> QED BY <2>2 DEF Promise!Next, Promise!Take, Promise!Lose
<1>6. CASE /\ Working(o)
           /\ broker'[o].qty \in broker[o].qty .. MaxQty
           /\ broker'[o].status \notin BrokerAbsent
  <2>1. Stage(o) = "taken" /\ Stage(o)' = "taken"
    BY <1>6 DEF Stage, Working, KnownToBroker, BrokerAbsent
  <2>2. CASE broker'[o].qty = broker[o].qty
    BY <1>2, <2>1, <2>2, PromiseStutters
  <2>3. CASE broker'[o].qty # broker[o].qty
    <3>1. broker[o].qty \in Nat /\ broker'[o].qty \in 1 .. MaxQty /\ broker'[o].qty > broker[o].qty
      <4>1. broker[o] \in BrokerOrder
        BY DEF TypeOK
      <4>2. broker[o].qty \in 0 .. MaxQty
        BY <4>1 DEF BrokerOrder
      <4>3. broker'[o].qty \in broker[o].qty .. MaxQty
        BY <1>6
      <4> QED BY <2>3, <4>2, <4>3, Sizes
    <3>2. Promise!Trade(o)
      BY <1>2, <2>1, <3>1 DEF Promise!Trade
    <3> QED BY <3>2 DEF Promise!Next
  <2> QED BY <2>2, <2>3
<1> QED BY <1>3, <1>4, <1>5, <1>6, BrokerGoesOnly DEF BrokerGoesOn, LedgerInv

\* Crash safety, no blind resubmit and books that only follow the broker: the
\* order path, crashes and lost answers included, implements OrderPromise
\* (real-order.service.ts:8-17).
THEOREM KeepsPromise == Spec => PromiseKept
<1>1. TypeOK /\ LocalsInv /\ LedgerInv /\ [Next]_vars =>
        [Promise!Next]_(Promise!promiseVars)
  <2> SUFFICES ASSUME TypeOK, LocalsInv, LedgerInv, [Next]_vars
               PROVE  [Promise!Next]_(Promise!promiseVars)
    OBVIOUS
  <2>1. CASE broker' = broker /\ rows' = rows
    <3>1. \A p \in Orders : Stage(p)' = Stage(p)
      BY <2>1 DEF Stage, Exists
    <3> QED BY <2>1, <3>1, PromiseStutters
  <2>2. CASE broker' = broker /\ RowWrite
    BY <2>2, RowWritePromise
  <2>3. CASE rows' = rows /\ BrokerWrite
    BY <2>3, BrokerWritePromise
  <2>4. ASSUME RowWrite PROVE broker' = broker
    BY <2>4
    DEF RowWrite, CreateRow, MarkSubmitted, MarkFailed, SweepWrite, ApplyBrokerOrder
  <2> QED BY <2>1, <2>2, <2>3, <2>4, Writers
<1> QED BY <1>1, PromiseInit, LedgerInvHolds, PTL DEF Spec, PromiseKept, Promise!Spec

-----------------------------------------------------------------------------
(* Nothing the broker took is lost, if a cancel request ends an order at   *)
(* once.                                                                   *)

\* A row, and an answer about to be written to it, that say an order ended
\* say how it ended at the broker.
EndInv ==
    /\ \A o \in Orders : broker[o].status # "pending_cancel"
    /\ \A o \in Orders : rows[o].status \in ReconciledStatuses =>
         broker[o].status \in BrokerFinal /\ rows[o].status = Normalize(broker[o].status)
    /\ \A r \in Reconcilers : rec[r].pc = "apply" /\ rec[r].status \in ReconciledStatuses =>
         /\ broker[rec[r].order].status \in BrokerFinal
         /\ rec[r].status = Normalize(broker[rec[r].order].status)

\* An ended order does not change at the broker.
LEMMA FinalIsFinal ==
    ASSUME TypeOK, LocalsInv, SendInv, BrokerInv, [Next]_vars, NEW o \in Orders,
           broker[o].status \in BrokerFinal
    PROVE  broker'[o] = broker[o]
<1>1. BrokerGoesOn(o)
  BY BrokerGoesOnly
<1>2. broker[o].status \notin {"none", "sent"} /\ ~Working(o)
  BY DEF BrokerFinal, Working
<1> QED BY <1>1, <1>2 DEF BrokerGoesOn

\* Where a cancel takes effect at once, no order is pending_cancel.
LEMMA NeverPending ==
    ASSUME ~PendingCancel, TypeOK, EndInv, [Next]_vars, NEW o \in Orders
    PROVE  broker'[o].status # "pending_cancel"
<1>1. broker[o].status # "pending_cancel"
  BY DEF EndInv
<1>2. CASE broker' = broker
  BY <1>1, <1>2
<1>3. ASSUME NEW c \in Calls, PlaceOrder(c) PROVE broker'[o].status # "pending_cancel"
  BY <1>1, <1>3 DEF PlaceOrder, TypeOK, BrokerOrder
<1>4. ASSUME NEW t \in Ticks, CancelStaleOrder(t) PROVE broker'[o].status # "pending_cancel"
  <2>1. Cancelled(broker[o]).status # "pending_cancel"
    BY <1>1 DEF Cancelled, TypeOK, BrokerOrder
  <2> QED BY <1>1, <1>4, <2>1 DEF CancelStaleOrder, TypeOK
<1>5. ASSUME NEW p \in Orders, BrokerAccepts(p) PROVE broker'[o].status # "pending_cancel"
  <2>1. \A raw \in AcceptedAs : raw # "pending_cancel"
    BY StateAssumption DEF Normalize
  <2> QED BY <1>1, <1>5, <2>1 DEF BrokerAccepts, TypeOK, BrokerOrder
<1>6. ASSUME NEW p \in Orders, BrokerDrops(p) PROVE broker'[o].status # "pending_cancel"
  BY <1>1, <1>6 DEF BrokerDrops, TypeOK, BrokerOrder
<1>7. ASSUME NEW p \in Orders, BrokerFills(p) PROVE broker'[o].status # "pending_cancel"
  <2>1. broker[p].status # "pending_cancel"
    BY DEF EndInv
  <2> QED BY <1>1, <1>7, <2>1 DEF BrokerFills, TypeOK
<1>8. ASSUME NEW p \in Orders, BrokerEnds(p) PROVE broker'[o].status # "pending_cancel"
  BY <1>1, <1>8, StateAssumption DEF BrokerEnds, TypeOK, BrokerOrder
<1> QED BY <1>2, <1>3, <1>4, <1>5, <1>6, <1>7, <1>8, Writers DEF BrokerWrite, BrokerStep

\* A row that ended agrees with the broker, and so does an answer in hand.
LEMMA EndInvKept ==
    ASSUME ~PendingCancel, TypeOK, LocalsInv, LedgerInv, EndInv, [Next]_vars
    PROVE  EndInv'
<1> USE DEF LedgerInv
<1>1. ASSUME NEW o \in Orders, rows'[o].status \in ReconciledStatuses
      PROVE  broker'[o].status \in BrokerFinal /\ rows'[o].status = Normalize(broker'[o].status)
  <2>1. CASE rows[o].status \in ReconciledStatuses /\ rows'[o].status = rows[o].status
    BY <2>1, FinalIsFinal DEF EndInv
  <2>2. CASE ~(rows[o].status \in ReconciledStatuses /\ rows'[o].status = rows[o].status)
    <3>1. PICK r \in Reconcilers : ApplyBrokerOrder(r) /\ rec[r].order = o
      <4>1. ASSUME NEW c \in Calls, CreateRow(c) PROVE FALSE
        <5>1. PICK p \in Orders : rows' = [rows EXCEPT ![p] = NewRow(call[c].intent)]
          BY <4>1 DEF CreateRow
        <5> QED BY <1>1, <2>2, <5>1 DEF ReconciledStatuses, NewRow, TypeOK
      <4>2. ASSUME NEW c \in Calls, MarkSubmitted(c) PROVE FALSE
        BY <1>1, <2>2, <4>2 DEF MarkSubmitted, ReconciledStatuses, TypeOK, Row
      <4>3. ASSUME NEW c \in Calls, MarkFailed(c) PROVE FALSE
        BY <1>1, <2>2, <4>3 DEF MarkFailed, ReconciledStatuses, TypeOK, Row
      <4>4. ASSUME NEW t \in Ticks, SweepWrite(t) PROVE FALSE
        <5>1. sweep[t].write \in SweepWrites
          BY DEF TypeOK, Sweep
        <5> QED BY <1>1, <2>2, <4>4, <5>1 DEF SweepWrite, SweepWrites, ReconciledStatuses, TypeOK, Row
      <4>5. ASSUME NEW r \in Reconcilers, ApplyBrokerOrder(r) PROVE rec[r].order = o
        BY <1>1, <2>2, <4>5 DEF ApplyBrokerOrder, TypeOK
      <4>6. rows' # rows
        BY <1>1, <2>2
      <4> QED BY <4>1, <4>2, <4>3, <4>4, <4>5, <4>6, Writers DEF RowWrite
    <3>2. rows'[o].status = rec[r].status /\ broker' = broker
      BY <3>1 DEF ApplyBrokerOrder, TypeOK, Row
    <3> QED BY <1>1, <3>1, <3>2 DEF EndInv, ApplyBrokerOrder
  <2> QED BY <2>1, <2>2
<1>2. ASSUME NEW r \in Reconcilers, rec'[r].pc = "apply", rec'[r].status \in ReconciledStatuses
      PROVE  /\ broker'[rec'[r].order].status \in BrokerFinal
             /\ rec'[r].status = Normalize(broker'[rec'[r].order].status)
  <2>1. CASE rec'[r] = rec[r]
    <3>1. PICK o \in Orders : o = rec[r].order
      BY <1>2, <2>1, OrderReconciled DEF Recorded
    <3>2. broker[o].status \in BrokerFinal /\ rec[r].status = Normalize(broker[o].status)
      BY <1>2, <2>1, <3>1 DEF EndInv
    <3>3. broker'[o] = broker[o]
      BY <3>2, FinalIsFinal
    <3> QED BY <2>1, <3>1, <3>2, <3>3
  <2>2. CASE Lookup(r)
    <3>1. PICK o \in Orders : o = rec[r].order
      BY <2>2, OrderReconciled DEF Lookup, Recorded
    <3>2. PICK priced \in BOOLEAN :
            rec' = [rec EXCEPT ![r] = [@ EXCEPT !.pc = "apply",
                      !.status = Normalize(broker[o].status),
                      !.qty = broker[o].qty, !.priced = priced]]
      BY <2>2, <3>1 DEF Lookup
    <3>3. rec[r] \in Reconciliation
      BY DEF TypeOK
    <3>4. rec'[r].order = o /\ rec'[r].status = Normalize(broker[o].status)
      BY <3>1, <3>2, <3>3 DEF TypeOK, Reconciliation
    <3>5. broker[o].status # "pending_cancel" /\ broker' = broker
      BY <2>2 DEF EndInv, Lookup
    <3>6. broker[o].status \in BrokerFinal
      BY <1>2, <3>4, <3>5 DEF Normalize, ReconciledStatuses, BrokerFinal
    <3> QED BY <3>4, <3>5, <3>6
  <2> QED BY <1>2, <2>1, <2>2, ApplyEntered
<1> QED BY <1>1, <1>2, NeverPending DEF EndInv

\* Where a cancel request ends an order at once, every order the broker took is
\* still looked at, is on record as it ended, or was given up as confirmed
\* absent (broker-status.util.ts:47).
THEOREM NothingLost == ~PendingCancel => (Spec => []BrokerOrderIsTracked)
<1> SUFFICES ASSUME ~PendingCancel PROVE Spec => []BrokerOrderIsTracked
  OBVIOUS
<1>1. Init => EndInv
  BY DEF Init, EndInv, NoRow, IdleRec, ReconciledStatuses
<1>2. TypeOK /\ LocalsInv /\ LedgerInv /\ EndInv /\ [Next]_vars => EndInv'
  BY EndInvKept
<1>3. TypeOK /\ LocalsInv /\ LedgerInv /\ EndInv => BrokerOrderIsTracked
  <2> SUFFICES ASSUME TypeOK, LedgerInv, EndInv, NEW o \in Orders, KnownToBroker(o),
                      rows[o].status \notin {"pending_submit", "submit_failed", "submitted",
                                            "accepted", "partially_filled", "confirmed_absent"}
               PROVE  broker[o].status \in BrokerFinal /\ rows[o].status = Normalize(broker[o].status)
    BY DEF BrokerOrderIsTracked
  <2>1. Exists(o)
    BY DEF LedgerInv, SendInv, KnownToBroker, BrokerAbsent
  <2>2. rows[o].status \in RowStatuses
    BY <2>1 DEF TypeOK, Row, Exists
  <2>3. rows[o].status \in ReconciledStatuses
    BY <2>2 DEF RowStatuses, RecoverableStatuses, OpenStatuses, InactiveStatuses,
                CanonicalTerminal, ReconciledStatuses
  <2> QED BY <2>3 DEF EndInv
<1> QED BY <1>1, <1>2, <1>3, LedgerInvHolds, PTL DEF Spec
=============================================================================
