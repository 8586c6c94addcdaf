---------------------------- MODULE CycleScheduler -----------------------------
(***************************************************************************)
(* CycleSchedulerService and CycleExecutorService                          *)
(* (cycle-scheduler.service.ts, cycle-executor.service.ts): a timer's      *)
(* ticks, the operator's requests, the one cycle or reflection that may    *)
(* run, the circuit breaker and the cadence of reflections.  Between two   *)
(* awaits of a tick anything else may happen, another tick included.       *)
(***************************************************************************)
EXTENDS Integers, FiniteSets

CONSTANTS
    Timers,          \* ticks that can be under way at the same time
    MAX_FAILURES,    \* CB_MAX_FAILURES
    EVERY_N_CYCLES,  \* reflection.every_n_cycles; 0 switches it off
    MaxLaunches,     \* bound: cycles and reflections begun
    MaxRequests,     \* bound: edits of the operator
    MaxKvFaults      \* bound: KV writes that fail

ASSUME SchedulerAssumption ==
    /\ MAX_FAILURES \in Nat \ {0} /\ EVERY_N_CYCLES \in Nat
    /\ {MaxLaunches, MaxRequests, MaxKvFaults} \subseteq Nat

VARIABLES
    conf,      \* KV scheduler: enabled, run_count, and whether last_run is recent
    breaker,   \* KV scheduler:circuit_breaker
    counter,   \* KV reflection.cycle_counter
    busy,      \* CycleSchedulerService.running
    locked,    \* CycleExecutorService.runState.running
    jobs,      \* cycles and reflections under way
    timer,     \* each tick, and runNow: where it is and what it has read
    editing,   \* updateConfig() between its read and its write
    launched, requests, kvFaults

schedulerVars == <<conf, breaker, counter, busy, locked, jobs, timer, editing, launched, requests,
                   kvFaults>>

Manual == "runNow"
Runners == Timers \cup {Manual}
Config == [enabled : BOOLEAN, runs : Nat, recent : BOOLEAN]
BreakerState == [state : {"closed", "open", "half_open"}, failures : Nat, cooled : BOOLEAN]
ClosedBreakerState == [state |-> "closed", failures |-> 0, cooled |-> FALSE]
NoTick == [pc |-> "idle", conf |-> [enabled |-> FALSE, runs |-> 0, recent |-> FALSE],
           cb |-> ClosedBreakerState]
TickPlaces == {"idle", "config", "breaker", "probe", "launch", "close", "bump", "reflect", "count",
               "reflecting", "reset", "error", "read"}
TickState == [pc : TickPlaces, conf : Config, cb : BreakerState]
NoEdit == [open |-> FALSE, conf |-> NoTick.conf]
Jobs == [all |-> 0, automatic |-> 0]

AtTick(t, pc) == timer[t].pc = pc
TickGoes(t, pc) == timer' = [timer EXCEPT ![t].pc = pc]

SchedulerInit ==
    /\ conf = [enabled |-> TRUE, runs |-> 0, recent |-> FALSE]
    /\ breaker = ClosedBreakerState
    /\ counter = 0
    /\ busy = FALSE /\ locked = FALSE
    /\ jobs = Jobs
    /\ timer = [t \in Runners |-> NoTick]
    /\ editing = NoEdit
    /\ launched = 0 /\ requests = 0 /\ kvFaults = 0

-----------------------------------------------------------------------------
(* CycleExecutorService *)

\* runCycle() is synchronous up to the lock; the cycle goes on by itself.
StartsCycle(automatic) ==
    /\ launched < MaxLaunches
    /\ locked' = TRUE
    /\ jobs' = [all |-> jobs.all + 1, automatic |-> jobs.automatic + (IF automatic THEN 1 ELSE 0)]
    /\ launched' = launched + 1

\* Mutant: a reflection looks at the lock after its first await.
ReflectionUnlocked ==
    /\ launched < MaxLaunches
    /\ locked' = TRUE
    /\ jobs' = [jobs EXCEPT !.all = @ + 1]
    /\ launched' = launched + 1

StartsReflection ==
    /\ ~locked /\ launched < MaxLaunches
    /\ locked' = TRUE
    /\ jobs' = [jobs EXCEPT !.all = @ + 1]
    /\ launched' = launched + 1

EndsJob(automatic) ==
    /\ locked' = FALSE
    /\ jobs' = [all |-> jobs.all - 1, automatic |-> jobs.automatic - (IF automatic THEN 1 ELSE 0)]

\* executeCycle() ends well or badly, and releases the lock either way.
CycleFinishes ==
    /\ jobs.all > 0 /\ \A t \in Runners : ~AtTick(t, "reflecting")
    /\ EndsJob(jobs.automatic > 0)
    /\ UNCHANGED <<conf, breaker, counter, busy, timer, editing, launched, requests, kvFaults>>

\* panel: POST run, and POST agents/reflect, which waits for its own end.
PanelRuns ==
    /\ ~locked /\ StartsCycle(FALSE)
    /\ UNCHANGED <<conf, breaker, counter, busy, timer, editing, requests, kvFaults>>

PanelReflects ==
    /\ StartsReflection
    /\ UNCHANGED <<conf, breaker, counter, busy, timer, editing, requests, kvFaults>>

-----------------------------------------------------------------------------
(* tick *)

TickFires(t) ==
    /\ t \in Timers /\ AtTick(t, "idle")
    /\ ~busy
    /\ TickGoes(t, "config")
    /\ UNCHANGED <<conf, breaker, counter, busy, locked, jobs, editing, launched, requests,
                   kvFaults>>

TickReadsConfig(t) ==
    /\ AtTick(t, "config")
    /\ timer' = [timer EXCEPT ![t] = IF conf.enabled
                                     THEN [@ EXCEPT !.pc = "breaker", !.conf = conf] ELSE NoTick]
    /\ UNCHANGED <<conf, breaker, counter, busy, locked, jobs, editing, launched, requests,
                   kvFaults>>

\* An open breaker lets one tick through when it has cooled down.
TickReadsBreaker(t) ==
    /\ AtTick(t, "breaker")
    /\ timer' = [timer EXCEPT ![t] =
                   IF breaker.state = "open" /\ ~breaker.cooled THEN NoTick
                   ELSE [@ EXCEPT !.cb = breaker,
                           !.pc = IF breaker.state = "open" THEN "probe" ELSE "launch"]]
    /\ UNCHANGED <<conf, breaker, counter, busy, locked, jobs, editing, launched, requests,
                   kvFaults>>

TickSavesProbe(t) ==
    /\ AtTick(t, "probe")
    /\ breaker' = [timer[t].cb EXCEPT !.state = "half_open"]
    /\ TickGoes(t, "launch")
    /\ UNCHANGED <<conf, counter, busy, locked, jobs, editing, launched, requests, kvFaults>>

\* The schedules of the plugins are read; what follows is synchronous: due,
\* free, and the cycle is begun without waiting for it.
TickLaunches(t) ==
    /\ AtTick(t, "launch")
    /\ IF timer[t].conf.recent \/ locked
       THEN /\ timer' = [timer EXCEPT ![t] = NoTick]
            /\ UNCHANGED <<busy, locked, jobs, launched>>
       ELSE /\ busy' = TRUE
            /\ StartsCycle(TRUE)
            /\ TickGoes(t, "close")
    /\ UNCHANGED <<conf, breaker, counter, editing, requests, kvFaults>>

\* A cycle that was accepted counts as a success.
TickClosesBreaker(t) ==
    /\ AtTick(t, "close")
    /\ breaker' = ClosedBreakerState
    /\ TickGoes(t, "bump")
    /\ UNCHANGED <<conf, counter, busy, locked, jobs, editing, launched, requests, kvFaults>>

\* _bumpRunCount() writes the configuration the tick, or runNow, has read.
BumpRunCount(t) ==
    /\ AtTick(t, "bump")
    /\ conf' = [timer[t].conf EXCEPT !.recent = TRUE, !.runs = @ + 1]
    /\ IF t = Manual THEN busy' = FALSE /\ timer' = [timer EXCEPT ![t] = NoTick]
       ELSE TickGoes(t, "reflect") /\ UNCHANGED busy
    /\ UNCHANGED <<breaker, counter, locked, jobs, editing, launched, requests, kvFaults>>

TickEndsHere(t) == busy' = FALSE /\ timer' = [timer EXCEPT ![t] = NoTick]

\* _maybeReflect(): nothing while a cycle runs, the one just begun included.
MaybeReflect(t) ==
    /\ AtTick(t, "reflect")
    /\ IF locked \/ EVERY_N_CYCLES = 0 THEN TickEndsHere(t) ELSE TickGoes(t, "count") /\ UNCHANGED busy
    /\ UNCHANGED <<conf, breaker, counter, locked, jobs, editing, launched, requests, kvFaults>>

CountTowardsReflection(t) ==
    /\ AtTick(t, "count") /\ counter + 1 < EVERY_N_CYCLES
    /\ counter' = counter + 1
    /\ TickEndsHere(t)
    /\ UNCHANGED <<conf, breaker, locked, jobs, editing, launched, requests, kvFaults>>

\* reflectNow() throws when a cycle has begun meanwhile; the counter stays.
TickReflects(t) ==
    /\ AtTick(t, "count") /\ counter + 1 >= EVERY_N_CYCLES
    /\ \/ StartsReflection /\ TickGoes(t, "reflecting") /\ UNCHANGED busy
       \/ locked /\ TickEndsHere(t) /\ UNCHANGED <<locked, jobs, launched>>
    /\ UNCHANGED <<conf, breaker, counter, editing, requests, kvFaults>>

ReflectionFinishes(t) ==
    /\ AtTick(t, "reflecting")
    /\ EndsJob(FALSE)
    /\ \/ TickGoes(t, "reset") /\ UNCHANGED busy
       \/ TickEndsHere(t)
    /\ UNCHANGED <<conf, breaker, counter, editing, launched, requests, kvFaults>>

ResetCounter(t) ==
    /\ AtTick(t, "reset")
    /\ counter' = 0
    /\ TickEndsHere(t)
    /\ UNCHANGED <<conf, breaker, locked, jobs, editing, launched, requests, kvFaults>>

\* A write after the launch that fails is what the breaker counts.
WriteFails(t) ==
    /\ kvFaults < MaxKvFaults
    /\ t \in Timers /\ timer[t].pc \in {"close", "bump"}
    /\ kvFaults' = kvFaults + 1
    /\ TickGoes(t, "error")
    /\ UNCHANGED <<conf, breaker, counter, busy, locked, jobs, editing, launched, requests>>

HandleTickError(t) ==
    /\ AtTick(t, "error")
    /\ LET failures == timer[t].cb.failures + 1
       IN  breaker' = [state |-> IF failures >= MAX_FAILURES \/ timer[t].cb.state = "half_open"
                                 THEN "open" ELSE "closed",
                       failures |-> failures, cooled |-> FALSE]
    /\ TickEndsHere(t)
    /\ UNCHANGED <<conf, counter, locked, jobs, editing, launched, requests, kvFaults>>

-----------------------------------------------------------------------------
(* The operator, time and restarts *)

RunNow ==
    /\ AtTick(Manual, "idle") /\ ~busy /\ ~locked
    /\ busy' = TRUE
    /\ StartsCycle(FALSE)
    /\ TickGoes(Manual, "read")
    /\ UNCHANGED <<conf, breaker, counter, editing, requests, kvFaults>>

RunNowReadsConfig ==
    /\ AtTick(Manual, "read")
    /\ timer' = [timer EXCEPT ![Manual] = [@ EXCEPT !.pc = "bump", !.conf = conf]]
    /\ UNCHANGED <<conf, breaker, counter, busy, locked, jobs, editing, launched, requests,
                   kvFaults>>

\* updateConfig() reads the configuration and writes the patched one whole.
UpdateConfig ==
    /\ \/ /\ ~editing.open /\ requests < MaxRequests
          /\ editing' = [open |-> TRUE, conf |-> conf]
          /\ requests' = requests + 1
          /\ UNCHANGED conf
       \/ /\ editing.open
          /\ conf' = [editing.conf EXCEPT !.enabled = ~@]
          /\ editing' = NoEdit
          /\ UNCHANGED requests
    /\ UNCHANGED <<breaker, counter, busy, locked, jobs, timer, launched, kvFaults>>

ResetCircuitBreaker ==
    /\ requests < MaxRequests
    /\ requests' = requests + 1
    /\ breaker' = ClosedBreakerState
    /\ UNCHANGED <<conf, counter, busy, locked, jobs, timer, editing, launched, kvFaults>>

IntervalPasses ==
    /\ conf.recent
    /\ conf' = [conf EXCEPT !.recent = FALSE]
    /\ UNCHANGED <<breaker, counter, busy, locked, jobs, timer, editing, launched, requests,
                   kvFaults>>

BreakerCools ==
    /\ breaker.state = "open" /\ ~breaker.cooled
    /\ breaker' = [breaker EXCEPT !.cooled = TRUE]
    /\ UNCHANGED <<conf, counter, busy, locked, jobs, timer, editing, launched, requests,
                   kvFaults>>

\* The KV rows survive a restart; the guards and everything under way do not.
ApiRestarts ==
    /\ kvFaults < MaxKvFaults
    /\ kvFaults' = kvFaults + 1
    /\ busy' = FALSE /\ locked' = FALSE /\ jobs' = Jobs
    /\ timer' = [t \in Runners |-> NoTick]
    /\ editing' = NoEdit
    /\ UNCHANGED <<conf, breaker, counter, launched, requests>>

SchedulerNext ==
    \/ \E t \in Runners :
         \/ TickFires(t) \/ TickReadsConfig(t) \/ TickReadsBreaker(t) \/ TickSavesProbe(t)
         \/ TickLaunches(t) \/ TickClosesBreaker(t) \/ BumpRunCount(t)
         \/ MaybeReflect(t) \/ CountTowardsReflection(t) \/ TickReflects(t)
         \/ ReflectionFinishes(t) \/ ResetCounter(t) \/ WriteFails(t) \/ HandleTickError(t)
    \/ CycleFinishes \/ PanelRuns \/ PanelReflects \/ RunNow \/ RunNowReadsConfig
    \/ UpdateConfig \/ ResetCircuitBreaker \/ IntervalPasses \/ BreakerCools \/ ApiRestarts

SchedulerSpec == SchedulerInit /\ [][SchedulerNext]_schedulerVars

-----------------------------------------------------------------------------
SchedulerTypeOK ==
    /\ conf \in Config /\ editing \in [open : BOOLEAN, conf : Config]
    /\ breaker \in BreakerState /\ counter \in Nat
    /\ busy \in BOOLEAN /\ locked \in BOOLEAN
    /\ jobs \in [all : Nat, automatic : Nat] /\ jobs.automatic <= jobs.all
    /\ timer \in [Runners -> TickState]
    /\ launched \in 0 .. MaxLaunches /\ requests \in 0 .. MaxRequests
    /\ kvFaults \in 0 .. MaxKvFaults

\* Whoever asks for it, timer, panel or another reflection, one cycle or one
\* reflection runs at a time, and the lock is held exactly while it does.
OneJobAtATime == jobs.all <= 1 /\ (locked <=> jobs.all = 1)

\* The scheduler is not silenced: its guard is only up while a tick or a
\* runNow that has launched is still going on, however that one ends.
GuardIsReleased ==
    busy => \E t \in Runners :
              timer[t].pc \in {"read", "close", "bump", "reflect", "count", "reflecting",
                               "reset", "error"}
=============================================================================
