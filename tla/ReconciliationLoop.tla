------------------------- MODULE ReconciliationLoop -------------------------
(***************************************************************************)
(* The steady loop of RealBrokerReconciliationService: tick() with its     *)
(* portfolio sync, its overlap guard and its persisted circuit breaker,    *)
(* onModuleInit(), and crashes.  What reconcileAllOpenOrders() does to     *)
(* orders is RealReconciliation; here it succeeds or throws.               *)
(*                                                                         *)
(* A write of the breaker that throws is caught by nobody and ends the     *)
(* process (an unhandled rejection): that is Crash.                        *)
(***************************************************************************)
EXTENDS Portfolio

\* consecutive_failures saturates at CB_MAX_FAILURES, which is all the code
\* compares it with; cooling is "within CB_HALF_OPEN_MS of last_failure_at".
Breaker == [state : {"closed", "open", "half_open"},
            failures : 0 .. CB_MAX_FAILURES, cooling : BOOLEAN]
ClosedBreaker == [state |-> "closed", failures |-> 0, cooling |-> FALSE]

TickPlaces == {"idle", "sync", "breaker", "probe", "work", "save", "failed", "halt"}
TickState == [pc : TickPlaces, cb : Breaker]
IdleTick == [pc |-> "idle", cb |-> ClosedBreaker]

TypeOK ==
    /\ AccountTypeOK
    /\ breaker \in Breaker
    /\ tickRunning \in BOOLEAN
    /\ timer \in BOOLEAN
    /\ loop \in [Ticks -> TickState]

\* onModuleInit: the startup sync, which starts the throttle, then a tick.
Booted(syncs, loops) ==
    \E t \in Ticks :
        /\ syncs = [p \in Syncers |->
                      IF p = t THEN [IdleSync EXCEPT !.pc = "fetch"] ELSE IdleSync]
        /\ loops = [u \in Ticks |-> IF u = t THEN [IdleTick EXCEPT !.pc = "sync"] ELSE IdleTick]

Init ==
    /\ Path!Init
    /\ outside \in SUBSET HandTraded
    /\ positions = {}
    /\ hwm = 0
    /\ adopted = {}
    /\ halted = FALSE
    /\ syncDue = FALSE
    /\ Booted(sync, loop)
    /\ adopt = [a \in Adopters |-> IdleAdoption]
    /\ breaker = ClosedBreaker
    /\ tickRunning = FALSE
    /\ timer = FALSE
    /\ faults = 0

Crash ==
    /\ Fault
    /\ Booted(sync', loop')
    /\ adopt' = [a \in Adopters |->
                   IF adopt[a].pc = "idle" THEN IdleAdoption ELSE [adopt[a] EXCEPT !.pc = "done"]]
    /\ syncDue' = FALSE
    /\ tickRunning' = FALSE
    /\ timer' = FALSE
    /\ UNCHANGED <<pathVars, ledgerVars, halted, breaker>>

-----------------------------------------------------------------------------
(* tick().                                                                 *)

TickAt(t, place) == loop[t].pc = place
TickGoto(t, place) == loop' = [loop EXCEPT ![t].pc = place]
\* The first tick is awaited by onModuleInit, which then sets the interval.
TickEnds(t) == loop' = [loop EXCEPT ![t] = IdleTick] /\ timer' = TRUE

\* Mutant: no sync while the breaker is open.
TickStartsUnlessOpen(t) ==
    /\ timer
    /\ TickAt(t, "idle")
    /\ TickGoto(t, "sync")
    /\ IF syncDue /\ breaker.state = "closed"
       THEN syncDue' = FALSE /\ sync' = StartSync(t)
       ELSE UNCHANGED <<syncDue, sync>>
    /\ UNCHANGED <<pathVars, ledgerVars, halted, adopt, breaker, tickRunning, timer, faults>>

TickStarts(t) ==
    /\ timer
    /\ TickAt(t, "idle")
    /\ TickGoto(t, "sync")
    /\ IF syncDue
       THEN syncDue' = FALSE /\ sync' = StartSync(t)
       ELSE UNCHANGED <<syncDue, sync>>
    /\ UNCHANGED <<pathVars, ledgerVars, halted, adopt, breaker, tickRunning, timer, faults>>

\* if (this.tickRunning) return, with the breaker still to be read.
OverlapGuard(t) ==
    /\ TickAt(t, "sync")
    /\ SyncAt(t, "idle")
    /\ IF tickRunning THEN TickEnds(t) ELSE TickGoto(t, "breaker") /\ UNCHANGED timer
    /\ UNCHANGED <<pathVars, accountVars, breaker, tickRunning, faults>>

Attempt(t, cb) ==
    /\ loop' = [loop EXCEPT ![t] = [pc |-> "work", cb |-> cb]]
    /\ tickRunning' = TRUE

\* getCircuitBreaker has answered; a KV read that fails is a closed breaker.
BreakerLetsPass(t) ==
    /\ TickAt(t, "breaker")
    /\ \/ breaker.state # "open" /\ Attempt(t, breaker) /\ UNCHANGED faults
       \/ Fault /\ Attempt(t, ClosedBreaker)
    /\ UNCHANGED <<pathVars, accountVars, breaker, timer>>

StillCooling(t) ==
    /\ TickAt(t, "breaker")
    /\ breaker.state = "open"
    /\ breaker.cooling
    /\ TickEnds(t)
    /\ UNCHANGED <<pathVars, accountVars, breaker, tickRunning, faults>>

\* Mutant: the breaker stays open once it is.
NeverHalfOpen(t) ==
    /\ TickAt(t, "breaker")
    /\ breaker.state = "open"
    /\ ~breaker.cooling
    /\ TickEnds(t)
    /\ UNCHANGED <<pathVars, accountVars, breaker, tickRunning, faults>>

HalfOpen(t) ==
    /\ TickAt(t, "breaker")
    /\ breaker.state = "open"
    /\ ~breaker.cooling
    /\ loop' = [loop EXCEPT ![t] = [pc |-> "probe", cb |-> [breaker EXCEPT !.state = "half_open"]]]
    /\ UNCHANGED <<pathVars, accountVars, breaker, tickRunning, timer, faults>>

SaveProbe(t) ==
    /\ TickAt(t, "probe")
    /\ breaker' = loop[t].cb
    /\ Attempt(t, loop[t].cb)
    /\ UNCHANGED <<pathVars, accountVars, timer, faults>>

\* reconcileAllOpenOrders returns, or its list query throws.
WorkEnds(t) ==
    /\ TickAt(t, "work")
    /\ TickGoto(t, "save") \/ TickGoto(t, "failed")
    /\ UNCHANGED <<pathVars, accountVars, breaker, tickRunning, timer, faults>>

SaveSuccess(t) ==
    /\ TickAt(t, "save")
    /\ breaker' = [loop[t].cb EXCEPT !.state = "closed", !.failures = 0]
    /\ tickRunning' = FALSE
    /\ TickEnds(t)
    /\ UNCHANGED <<pathVars, accountVars, faults>>

\* That save is inside the try: when it throws, the tick counts as failed.
SaveSuccessThrows(t) ==
    /\ TickAt(t, "save")
    /\ Fault
    /\ TickGoto(t, "failed")
    /\ UNCHANGED <<pathVars, accountVars, breaker, tickRunning, timer>>

Failed(cb) == IF cb.failures = CB_MAX_FAILURES THEN cb.failures ELSE cb.failures + 1

Tripped(cb) == Failed(cb) >= CB_MAX_FAILURES \/ cb.state = "half_open"

\* _handleTickFailure up to its save.
SaveFailure(t) ==
    LET cb == loop[t].cb IN
    /\ TickAt(t, "failed")
    /\ breaker' = [state |-> IF Tripped(cb) THEN "open" ELSE "closed",
                   failures |-> Failed(cb), cooling |-> TRUE]
    /\ IF Tripped(cb)
       THEN TickGoto(t, "halt") /\ UNCHANGED <<tickRunning, timer>>
       ELSE TickEnds(t) /\ tickRunning' = FALSE
    /\ UNCHANGED <<pathVars, accountVars, faults>>

\* Mutant: an open breaker is an alert and nothing more.
BreakerAlertsOnly(t) ==
    /\ TickAt(t, "halt")
    /\ TickEnds(t)
    /\ tickRunning' = FALSE
    /\ UNCHANGED <<pathVars, accountVars, breaker, faults>>

\* The local breaker is never "open" here, so every trip is a fresh one.
BreakerHalts(t) ==
    /\ TickAt(t, "halt")
    /\ \/ halted' = TRUE /\ UNCHANGED faults
       \/ Fault /\ UNCHANGED halted
    /\ TickEnds(t)
    /\ tickRunning' = FALSE
    /\ UNCHANGED <<pathVars, ledgerVars, syncDue, sync, adopt, breaker>>

TickStep(t) ==
    \/ TickStarts(t) \/ OverlapGuard(t) \/ BreakerLetsPass(t) \/ StillCooling(t)
    \/ HalfOpen(t) \/ SaveProbe(t) \/ WorkEnds(t) \/ SaveSuccess(t)
    \/ SaveSuccessThrows(t) \/ SaveFailure(t) \/ BreakerHalts(t)

CoolsDown ==
    /\ breaker.cooling
    /\ breaker' = [breaker EXCEPT !.cooling = FALSE]
    /\ UNCHANGED <<pathVars, accountVars, tickRunning, timer, loop, faults>>

-----------------------------------------------------------------------------
Next ==
    \/ \E t \in Ticks : TickStep(t)
    \/ \E p \in Syncers : SyncStep(p)
    \/ \E a \in Adopters : AdoptStep(a)
    \/ PathStep \/ OutsideTrade \/ SyncDue \/ CoolsDown \/ ClearHalt \/ Crash

Spec == Init /\ [][Next]_vars

(***************************************************************************)
(* Promises settle, timers fire and time passes.  Nothing is assumed of    *)
(* the orders, of trades made by hand, of operators, or of the outcome of  *)
(* a reconciliation; faults are bounded.                                   *)
(***************************************************************************)
Fairness ==
    /\ \A t \in Ticks : WF_vars(TickStep(t))
    /\ \A p \in Syncers : WF_vars(SyncStep(p))
    /\ WF_vars(SyncDue)
    /\ WF_vars(CoolsDown)

FairSpec == Spec /\ Fairness

-----------------------------------------------------------------------------
(* Safety.                                                                 *)

\* A closed breaker has fewer failures than trip it, whichever of two
\* overlapping ticks saved last, and the overlap guard is never left set by
\* a tick that is over.
BreakerConsistent ==
    /\ breaker.state = "closed" => breaker.failures < CB_MAX_FAILURES
    /\ tickRunning => \E t \in Ticks : loop[t].pc \in {"work", "save", "failed", "halt"}

\* "Never regresses" (real-broker-reconciliation.service.ts:771): whichever of two
\* concurrent syncs commits last, the high-water mark does not fall.
MarkNeverFalls == [][hwm' >= hwm]_vars

-----------------------------------------------------------------------------
(* What must happen.                                                       *)

\* "The ticker interval itself is NEVER cleared by the circuit breaker", so
\* that there is no permanent silent halt: reconciliation is attempted again
\* and again.
LoopKeepsTrying == []<>(\E t \in Ticks : TickAt(t, "work"))

\* An open breaker is followed by the halt or by a healthy tick, even when
\* the process stops between the save and the halt.
OpenBreakerHaltsOrHeals ==
    (breaker.state = "open") ~> (halted \/ breaker.state = "closed")

\* Clearing the switch is futile while drift lasts (adoptBrokerPosition): a
\* position that stays and stays unexplained trips it again and again.
DriftKeepsHalting ==
    \A s \in Symbols :
        <>[](s \in Held /\ ~Explained(s)) => []<>halted

\* Adoption removes "the reason drift re-trips": once every position held is
\* an adopted one, no sync finds drift any more.
AdoptionEndsDrift ==
    <>[](Held \subseteq adopted) => <>[](\A p \in Syncers : ~sync[p].drifted)

\* A sync that commits an older portfolio over a newer one is made good: the
\* cache ends up with what stays at the broker, whatever the breaker does.
CacheSettles ==
    \A s \in Symbols :
        /\ <>[](s \in Held) => <>[](s \in positions)
        /\ <>[](s \notin Held) => <>[](s \notin positions)
=============================================================================
