--------------------------- MODULE PlatformProofs ----------------------------
(***************************************************************************)
(* Theorems about what runs and what is set up on the platform, for every  *)
(* set of ticks, plugins, requests and strategies and every cadence,       *)
(* interval and bound: the two schedulers (CycleScheduler,                 *)
(* PretestScheduler), the dependencies of the plugins and the checksums of *)
(* their content (PluginLifecycle), the bodies of a skill (SkillRevision), *)
(* the seed of a new instance and the application of a strategy            *)
(* (StrategySetup), the model that decides (LlmBackend), the files behind  *)
(* the database (Recovery) and the reloading of plugins (HotReload).       *)
(***************************************************************************)
EXTENDS CycleScheduler, PretestScheduler, PluginLifecycle, SkillRevision, StrategySetup,
        LlmBackend, Recovery, HotReload, SequenceTheorems, FiniteSetTheorems,
        WellFoundedInduction, TLAPS

-----------------------------------------------------------------------------
(* CycleScheduler                                                          *)

\* A tick that waits for its reflection holds the lock, and is the only one.
\* What it waits for is no automatic cycle.
ReflectionHoldsLock ==
    /\ \A t \in Runners : AtTick(t, "reflecting") => locked /\ jobs.automatic = 0
    /\ \A t, u \in Runners : AtTick(t, "reflecting") /\ AtTick(u, "reflecting") => t = u

SchedulerInv == SchedulerTypeOK /\ OneJobAtATime /\ ReflectionHoldsLock

\* The bounds are natural numbers.
LEMMA SchedulerBounds ==
    MaxLaunches \in Nat /\ MaxRequests \in Nat /\ MaxKvFaults \in Nat /\ MAX_FAILURES \in Nat
BY SchedulerAssumption

\* What ticks, edits and the breaker start from has its type.
LEMMA SchedulerRecordsTyped ==
    /\ ClosedBreakerState \in BreakerState
    /\ NoTick \in TickState /\ NoTick.pc = "idle"
    /\ NoEdit \in [open : BOOLEAN, conf : Config]
    /\ Jobs \in [all : Nat, automatic : Nat] /\ Jobs.all = 0 /\ Jobs.automatic = 0
<1>1. ClosedBreakerState \in BreakerState
  BY DEF ClosedBreakerState, BreakerState
<1>2. NoTick \in TickState /\ NoTick.pc = "idle" /\ NoTick.conf \in Config
  BY <1>1 DEF NoTick, TickState, TickPlaces, Config
<1>3. NoEdit \in [open : BOOLEAN, conf : Config]
  BY <1>2 DEF NoEdit
<1> QED BY <1>1, <1>2, <1>3 DEF Jobs

\* The first state has every part of the invariant.
LEMMA SchedulerStarts == SchedulerInit => SchedulerInv
<1> SUFFICES ASSUME SchedulerInit PROVE SchedulerInv OBVIOUS
<1>1. SchedulerTypeOK
  <2>1. conf \in Config /\ busy \in BOOLEAN /\ locked \in BOOLEAN
    BY DEF SchedulerInit, Config
  <2>2. timer \in [Runners -> TickState] /\ breaker \in BreakerState
        /\ editing \in [open : BOOLEAN, conf : Config]
    BY SchedulerRecordsTyped DEF SchedulerInit
  <2>3. jobs \in [all : Nat, automatic : Nat] /\ jobs.automatic <= jobs.all
    BY SchedulerRecordsTyped DEF SchedulerInit
  <2>4. counter \in Nat /\ launched \in 0 .. MaxLaunches /\ requests \in 0 .. MaxRequests
        /\ kvFaults \in 0 .. MaxKvFaults
    BY SchedulerBounds DEF SchedulerInit
  <2> QED BY <2>1, <2>2, <2>3, <2>4 DEF SchedulerTypeOK
<1>2. OneJobAtATime
  BY SchedulerRecordsTyped DEF SchedulerInit, OneJobAtATime
<1>3. ReflectionHoldsLock
  BY SchedulerRecordsTyped DEF SchedulerInit, ReflectionHoldsLock, AtTick
<1> QED BY <1>1, <1>2, <1>3 DEF SchedulerInv

\* A tick that moves to a place other than "reflecting" keeps the places typed
\* and leaves the lock to whom it belongs.
LEMMA TickMoves ==
    ASSUME SchedulerInv, NEW t \in Runners, NEW s \in TickState, s.pc # "reflecting",
           timer' = [timer EXCEPT ![t] = s], UNCHANGED <<locked, jobs>>
    PROVE  timer' \in [Runners -> TickState] /\ OneJobAtATime' /\ ReflectionHoldsLock'
<1>1. timer' \in [Runners -> TickState]
  BY DEF SchedulerInv, SchedulerTypeOK
<1>2. OneJobAtATime'
  BY DEF SchedulerInv, OneJobAtATime
<1>3. \A u \in Runners : AtTick(u, "reflecting")' => AtTick(u, "reflecting")
  BY DEF SchedulerInv, SchedulerTypeOK, AtTick
<1>4. ReflectionHoldsLock'
  BY <1>3 DEF SchedulerInv, ReflectionHoldsLock
<1> QED BY <1>1, <1>2, <1>4

\* A step that touches neither ticks nor jobs leaves them as they were.
LEMMA JobsRest ==
    ASSUME SchedulerInv, UNCHANGED <<timer, locked, jobs>>
    PROVE  timer' \in [Runners -> TickState] /\ OneJobAtATime' /\ ReflectionHoldsLock'
BY DEF SchedulerInv, SchedulerTypeOK, OneJobAtATime, ReflectionHoldsLock, AtTick

\* A cycle that takes the free lock is alone.
LEMMA CycleTakesLock ==
    ASSUME SchedulerInv, ~locked, NEW automatic \in BOOLEAN, StartsCycle(automatic)
    PROVE  /\ jobs' \in [all : Nat, automatic : Nat] /\ jobs'.automatic <= jobs'.all
           /\ OneJobAtATime' /\ launched' \in 0 .. MaxLaunches
           /\ \A t \in Runners : ~AtTick(t, "reflecting")
<1>1. jobs.all = 0 /\ jobs.automatic = 0
  BY DEF SchedulerInv, SchedulerTypeOK, OneJobAtATime
<1>2. launched' \in 0 .. MaxLaunches
  BY SchedulerBounds DEF SchedulerInv, SchedulerTypeOK, StartsCycle
<1> QED BY <1>1, <1>2 DEF SchedulerInv, OneJobAtATime, ReflectionHoldsLock, StartsCycle

\* So is a reflection.
LEMMA ReflectionTakesLock ==
    ASSUME SchedulerInv, StartsReflection
    PROVE  /\ jobs' \in [all : Nat, automatic : Nat] /\ jobs'.automatic <= jobs'.all
           /\ jobs'.automatic = 0 /\ OneJobAtATime' /\ launched' \in 0 .. MaxLaunches
           /\ locked' /\ \A t \in Runners : ~AtTick(t, "reflecting")
<1>1. jobs \in [all : Nat, automatic : Nat] /\ jobs.all = 0 /\ jobs.automatic = 0
  BY DEF SchedulerInv, SchedulerTypeOK, OneJobAtATime, StartsReflection
<1>2. launched' \in 0 .. MaxLaunches
  BY SchedulerBounds DEF SchedulerInv, SchedulerTypeOK, StartsReflection
<1> QED BY <1>1, <1>2 DEF SchedulerInv, OneJobAtATime, ReflectionHoldsLock, StartsReflection

\* A step that only moves a tick, and possibly the guard, keeps the invariant.
LEMMA TickStepTyped ==
    ASSUME SchedulerInv, NEW t \in Runners, NEW s \in TickState, s.pc # "reflecting",
           timer' = [timer EXCEPT ![t] = s],
           UNCHANGED <<locked, jobs, editing, launched, requests>>,
           conf' \in Config, breaker' \in BreakerState, counter' \in Nat, busy' \in BOOLEAN,
           kvFaults' \in 0 .. MaxKvFaults
    PROVE  SchedulerInv'
BY TickMoves DEF SchedulerInv, SchedulerTypeOK

\* Nothing a tick does breaks the invariant.
LEMMA TickKeeps ==
    ASSUME SchedulerInv, NEW t \in Runners,
           \/ TickFires(t) \/ TickReadsConfig(t) \/ TickReadsBreaker(t) \/ TickSavesProbe(t)
           \/ TickClosesBreaker(t) \/ BumpRunCount(t) \/ MaybeReflect(t)
           \/ CountTowardsReflection(t) \/ ResetCounter(t) \/ WriteFails(t) \/ HandleTickError(t)
    PROVE  SchedulerInv'
<1> DEFINE at(pc) == [timer[t] EXCEPT !.pc = pc]
<1>1. /\ timer[t] \in TickState /\ timer[t].conf \in Config /\ timer[t].cb \in BreakerState
      /\ conf \in Config /\ breaker \in BreakerState /\ counter \in Nat /\ busy \in BOOLEAN
      /\ kvFaults \in 0 .. MaxKvFaults
  BY DEF SchedulerInv, SchedulerTypeOK, TickState
<1>2. \A pc \in TickPlaces : at(pc) \in TickState /\ at(pc).pc = pc
  BY <1>1 DEF TickState
<1>3. NoTick \in TickState /\ NoTick.pc # "reflecting"
  BY SchedulerRecordsTyped
<1>4. CASE TickFires(t)
  <2>1. timer' = [timer EXCEPT ![t] = at("config")]
    BY <1>4 DEF TickFires, TickGoes
  <2> QED BY <1>1, <1>2, <1>4, <2>1, TickStepTyped DEF TickFires, TickPlaces
<1>5. CASE TickReadsConfig(t)
  <2> DEFINE read == [timer[t] EXCEPT !.pc = "breaker", !.conf = conf]
  <2>1. read \in TickState /\ read.pc # "reflecting"
    BY <1>1 DEF TickState, TickPlaces
  <2>2. timer' = [timer EXCEPT ![t] = read] \/ timer' = [timer EXCEPT ![t] = NoTick]
    BY <1>5 DEF TickReadsConfig
  <2> HIDE DEF read
  <2> QED BY <1>1, <1>3, <1>5, <2>1, <2>2, TickStepTyped DEF TickReadsConfig
<1>6. CASE TickReadsBreaker(t)
  <2> DEFINE read(pc) == [timer[t] EXCEPT !.cb = breaker, !.pc = pc]
  <2>1. \A pc \in {"probe", "launch"} : read(pc) \in TickState /\ read(pc).pc # "reflecting"
    BY <1>1 DEF TickState, TickPlaces
  <2>2. \/ timer' = [timer EXCEPT ![t] = NoTick]
        \/ \E pc \in {"probe", "launch"} : timer' = [timer EXCEPT ![t] = read(pc)]
    BY <1>6 DEF TickReadsBreaker
  <2> HIDE DEF read
  <2> QED BY <1>1, <1>3, <1>6, <2>1, <2>2, TickStepTyped DEF TickReadsBreaker
<1>7. CASE TickSavesProbe(t)
  <2>1. timer' = [timer EXCEPT ![t] = at("launch")]
    BY <1>7 DEF TickSavesProbe, TickGoes
  <2>2. breaker' \in BreakerState
    BY <1>1, <1>7 DEF TickSavesProbe, BreakerState
  <2> QED BY <1>1, <1>2, <1>7, <2>1, <2>2, TickStepTyped DEF TickSavesProbe, TickPlaces
<1>8. CASE TickClosesBreaker(t)
  <2>1. timer' = [timer EXCEPT ![t] = at("bump")]
    BY <1>8 DEF TickClosesBreaker, TickGoes
  <2> QED BY <1>1, <1>2, <1>8, <2>1, TickStepTyped, SchedulerRecordsTyped
          DEF TickClosesBreaker, TickPlaces
<1>9. CASE BumpRunCount(t)
  <2>1. conf' \in Config
    <3>1. conf' = [timer[t].conf EXCEPT !.recent = TRUE, !.runs = @ + 1]
      BY <1>9 DEF BumpRunCount
    <3>2. \A c \in Config : [c EXCEPT !.recent = TRUE] \in Config
      BY DEF Config
    <3>3. \A c \in Config : [c EXCEPT !.runs = @ + 1] \in Config
      BY DEF Config
    <3> DEFINE c == [timer[t].conf EXCEPT !.recent = TRUE]
    <3>4. conf' = [c EXCEPT !.runs = @ + 1]
      BY <1>1, <3>1 DEF Config
    <3> QED BY <1>1, <3>2, <3>3, <3>4
  <2>2. \/ timer' = [timer EXCEPT ![t] = NoTick] /\ busy' = FALSE
        \/ timer' = [timer EXCEPT ![t] = at("reflect")] /\ UNCHANGED busy
    BY <1>9 DEF BumpRunCount, TickGoes
  <2>3. UNCHANGED <<breaker, counter, locked, jobs, editing, launched, requests, kvFaults>>
    BY <1>9 DEF BumpRunCount
  <2>4. CASE timer' = [timer EXCEPT ![t] = NoTick] /\ busy' = FALSE
    BY <1>1, <1>3, <2>1, <2>3, <2>4, TickStepTyped
  <2>5. CASE timer' = [timer EXCEPT ![t] = at("reflect")] /\ UNCHANGED busy
    <3>1. at("reflect") \in TickState /\ at("reflect").pc # "reflecting"
      BY <1>2 DEF TickPlaces
    <3> HIDE DEF at
    <3> QED BY <1>1, <2>1, <2>3, <2>5, <3>1, TickStepTyped
  <2> QED BY <2>2, <2>4, <2>5
<1>10. CASE MaybeReflect(t)
  <2>1. \/ timer' = [timer EXCEPT ![t] = NoTick] /\ busy' = FALSE
        \/ timer' = [timer EXCEPT ![t] = at("count")] /\ UNCHANGED busy
    BY <1>10 DEF MaybeReflect, TickEndsHere, TickGoes
  <2>2. UNCHANGED <<conf, breaker, counter, locked, jobs, editing, launched, requests, kvFaults>>
    BY <1>10 DEF MaybeReflect
  <2>3. CASE timer' = [timer EXCEPT ![t] = NoTick] /\ busy' = FALSE
    BY <1>1, <1>3, <2>2, <2>3, TickStepTyped
  <2>4. CASE timer' = [timer EXCEPT ![t] = at("count")] /\ UNCHANGED busy
    <3>1. at("count") \in TickState /\ at("count").pc # "reflecting"
      BY <1>2 DEF TickPlaces
    <3> HIDE DEF at
    <3> QED BY <1>1, <2>2, <2>4, <3>1, TickStepTyped
  <2> QED BY <2>1, <2>3, <2>4
<1>11. CASE CountTowardsReflection(t)
  <2>1. counter' \in Nat /\ timer' = [timer EXCEPT ![t] = NoTick] /\ busy' = FALSE
        /\ UNCHANGED <<conf, breaker, locked, jobs, editing, launched, requests, kvFaults>>
    BY <1>1, <1>11 DEF CountTowardsReflection, TickEndsHere
  <2> QED BY <1>1, <1>3, <2>1, TickStepTyped
<1>12. CASE ResetCounter(t)
  BY <1>1, <1>3, <1>12, TickStepTyped DEF ResetCounter, TickEndsHere
<1>13. CASE WriteFails(t)
  <2>1. timer' = [timer EXCEPT ![t] = at("error")] /\ kvFaults' \in 0 .. MaxKvFaults
    BY <1>1, <1>13, SchedulerBounds DEF WriteFails, TickGoes
  <2> QED BY <1>1, <1>2, <1>13, <2>1, TickStepTyped DEF WriteFails, TickPlaces
<1>14. CASE HandleTickError(t)
  <2>1. breaker' \in BreakerState
    BY <1>1, <1>14 DEF HandleTickError, BreakerState
  <2> QED BY <1>1, <1>3, <1>14, <2>1, TickStepTyped DEF HandleTickError, TickEndsHere
<1> QED BY <1>4, <1>5, <1>6, <1>7, <1>8, <1>9, <1>10, <1>11, <1>12, <1>13, <1>14

\* The launch of a cycle, by the timer or by the operator.
LEMMA LaunchKeeps ==
    ASSUME SchedulerInv, NEW t \in Runners, NEW s \in TickState, s.pc # "reflecting",
           NEW automatic \in BOOLEAN, ~locked, StartsCycle(automatic),
           timer' = [timer EXCEPT ![t] = s], busy' \in BOOLEAN,
           UNCHANGED <<conf, breaker, counter, editing, requests, kvFaults>>
    PROVE  SchedulerInv'
<1>1. /\ jobs' \in [all : Nat, automatic : Nat] /\ jobs'.automatic <= jobs'.all
      /\ OneJobAtATime' /\ launched' \in 0 .. MaxLaunches
      /\ \A u \in Runners : ~AtTick(u, "reflecting")
  BY CycleTakesLock
<1>2. timer' \in [Runners -> TickState] /\ \A u \in Runners : ~AtTick(u, "reflecting")'
  BY <1>1 DEF SchedulerInv, SchedulerTypeOK, AtTick
<1>3. ReflectionHoldsLock'
  BY <1>2 DEF ReflectionHoldsLock
<1>4. locked' \in BOOLEAN
  BY DEF StartsCycle
<1> QED BY <1>1, <1>2, <1>3, <1>4 DEF SchedulerInv, SchedulerTypeOK

LEMMA TickLaunchesKeeps ==
    ASSUME SchedulerInv, NEW t \in Runners, TickLaunches(t)
    PROVE  SchedulerInv'
<1>1. timer[t] \in TickState /\ NoTick \in TickState /\ NoTick.pc # "reflecting"
  BY SchedulerRecordsTyped DEF SchedulerInv, SchedulerTypeOK
<1>2. CASE timer[t].conf.recent \/ locked
  <2>1. timer' = [timer EXCEPT ![t] = NoTick] /\ UNCHANGED <<busy, locked, jobs, launched>>
    BY <1>2 DEF TickLaunches
  <2>2. conf' \in Config /\ breaker' \in BreakerState /\ counter' \in Nat
        /\ kvFaults' \in 0 .. MaxKvFaults /\ busy' \in BOOLEAN
    BY <2>1 DEF TickLaunches, SchedulerInv, SchedulerTypeOK
  <2> QED BY <1>1, <2>1, <2>2, TickStepTyped DEF TickLaunches
<1>3. CASE ~(timer[t].conf.recent \/ locked)
  <2> DEFINE s == [timer[t] EXCEPT !.pc = "close"]
  <2>1. s \in TickState /\ s.pc # "reflecting"
    BY <1>1 DEF TickState, TickPlaces
  <2>2. timer' = [timer EXCEPT ![t] = s] /\ busy' = TRUE /\ StartsCycle(TRUE)
    BY <1>3 DEF TickLaunches, TickGoes
  <2> HIDE DEF s
  <2> QED BY <1>3, <2>1, <2>2, LaunchKeeps DEF TickLaunches
<1> QED BY <1>2, <1>3

LEMMA RunNowKeeps == ASSUME SchedulerInv, RunNow PROVE SchedulerInv'
<1> DEFINE s == [timer[Manual] EXCEPT !.pc = "read"]
<1>1. Manual \in Runners
  BY DEF Runners
<1>2. s \in TickState /\ s.pc # "reflecting"
  BY <1>1 DEF SchedulerInv, SchedulerTypeOK, TickState, TickPlaces
<1>3. timer' = [timer EXCEPT ![Manual] = s] /\ busy' = TRUE /\ StartsCycle(FALSE) /\ ~locked
  BY DEF RunNow, TickGoes
<1> HIDE DEF s
<1> QED BY <1>1, <1>2, <1>3, LaunchKeeps DEF RunNow

\* A job that ends gives the lock back.
LEMMA JobEnds ==
    ASSUME SchedulerInv, NEW automatic \in BOOLEAN, locked, automatic <=> jobs.automatic > 0,
           EndsJob(automatic)
    PROVE  /\ jobs' \in [all : Nat, automatic : Nat] /\ jobs'.automatic <= jobs'.all
           /\ locked' = FALSE /\ OneJobAtATime'
<1>1. jobs \in [all : Nat, automatic : Nat] /\ jobs.automatic <= jobs.all /\ jobs.all = 1
  BY DEF SchedulerInv, SchedulerTypeOK, OneJobAtATime
<1>2. jobs'.all = 0 /\ jobs'.automatic = 0 /\ locked' = FALSE
  BY <1>1 DEF EndsJob
<1>3. jobs' = [all |-> jobs'.all, automatic |-> jobs'.automatic]
  BY DEF EndsJob
<1> QED BY <1>2, <1>3 DEF OneJobAtATime

\* The tick asks for a reflection, and waits for its end.
LEMMA TickReflectsKeeps ==
    ASSUME SchedulerInv, NEW t \in Runners, TickReflects(t)
    PROVE  SchedulerInv'
<1>1. timer[t] \in TickState /\ NoTick \in TickState /\ NoTick.pc # "reflecting"
  BY SchedulerRecordsTyped DEF SchedulerInv, SchedulerTypeOK
<1>2. conf' \in Config /\ breaker' \in BreakerState /\ counter' \in Nat
      /\ kvFaults' \in 0 .. MaxKvFaults /\ UNCHANGED <<conf, breaker, counter, editing, requests, kvFaults>>
  BY DEF TickReflects, SchedulerInv, SchedulerTypeOK
<1>3. CASE StartsReflection /\ TickGoes(t, "reflecting") /\ UNCHANGED busy
  <2>1. /\ jobs' \in [all : Nat, automatic : Nat] /\ jobs'.automatic <= jobs'.all
        /\ jobs'.automatic = 0 /\ OneJobAtATime' /\ launched' \in 0 .. MaxLaunches
        /\ locked' /\ \A u \in Runners : ~AtTick(u, "reflecting")
    BY <1>3, ReflectionTakesLock
  <2> DEFINE s == [timer[t] EXCEPT !.pc = "reflecting"]
  <2>2. s \in TickState
    BY <1>1 DEF TickState, TickPlaces
  <2>3. timer' = [timer EXCEPT ![t] = s]
    BY <1>3 DEF TickGoes
  <2>4. timer' \in [Runners -> TickState]
    BY <2>2, <2>3 DEF SchedulerInv, SchedulerTypeOK
  <2>5. \A u \in Runners : AtTick(u, "reflecting")' => u = t
    BY <2>1, <2>3 DEF SchedulerInv, SchedulerTypeOK, AtTick
  <2>6. ReflectionHoldsLock'
    BY <2>1, <2>5 DEF ReflectionHoldsLock
  <2>7. locked' \in BOOLEAN /\ busy' \in BOOLEAN
    BY <1>3 DEF StartsReflection, SchedulerInv, SchedulerTypeOK
  <2> QED BY <1>2, <2>1, <2>4, <2>6, <2>7 DEF SchedulerInv, SchedulerTypeOK
<1>4. CASE locked /\ TickEndsHere(t) /\ UNCHANGED <<locked, jobs, launched>>
  BY <1>1, <1>2, <1>4, TickStepTyped DEF TickEndsHere
<1> QED BY <1>3, <1>4 DEF TickReflects

\* The reflection a tick waits for ends.
LEMMA ReflectionFinishesKeeps ==
    ASSUME SchedulerInv, NEW t \in Runners, ReflectionFinishes(t)
    PROVE  SchedulerInv'
<1>1. timer[t] \in TickState /\ NoTick \in TickState /\ NoTick.pc # "reflecting"
  BY SchedulerRecordsTyped DEF SchedulerInv, SchedulerTypeOK
<1>2. locked /\ jobs.automatic = 0 /\ jobs.automatic \in Nat
      /\ \A u \in Runners : AtTick(u, "reflecting") => u = t
  BY DEF SchedulerInv, SchedulerTypeOK, ReflectionHoldsLock, ReflectionFinishes
<1>3. /\ jobs' \in [all : Nat, automatic : Nat] /\ jobs'.automatic <= jobs'.all
      /\ locked' = FALSE /\ OneJobAtATime'
  <2>1. EndsJob(FALSE)
    BY DEF ReflectionFinishes
  <2>2. FALSE <=> jobs.automatic > 0
    BY <1>2
  <2> QED BY <1>2, <2>1, <2>2, JobEnds
<1> DEFINE s == [timer[t] EXCEPT !.pc = "reset"]
<1>4. s \in TickState /\ s.pc # "reflecting"
  BY <1>1 DEF TickState, TickPlaces
<1>5. /\ timer' = [timer EXCEPT ![t] = s] \/ timer' = [timer EXCEPT ![t] = NoTick]
      /\ busy' \in BOOLEAN
  BY DEF ReflectionFinishes, TickGoes, TickEndsHere, SchedulerInv, SchedulerTypeOK
<1> HIDE DEF s
<1>6. timer' \in [Runners -> TickState]
  BY <1>1, <1>4, <1>5 DEF SchedulerInv, SchedulerTypeOK
<1>7. \A u \in Runners : ~AtTick(u, "reflecting")'
  BY <1>1, <1>2, <1>4, <1>5 DEF SchedulerInv, SchedulerTypeOK, AtTick
<1>8. ReflectionHoldsLock'
  BY <1>7 DEF ReflectionHoldsLock
<1> QED BY <1>3, <1>5, <1>6, <1>8 DEF SchedulerInv, SchedulerTypeOK, ReflectionFinishes

\* The panel, the operator, time and a restart.
LEMMA OthersKeep ==
    ASSUME SchedulerInv,
           \/ CycleFinishes \/ PanelRuns \/ PanelReflects \/ RunNowReadsConfig \/ UpdateConfig
           \/ ResetCircuitBreaker \/ IntervalPasses \/ BreakerCools \/ ApiRestarts
    PROVE  SchedulerInv'
<1>1. CASE CycleFinishes
  <2> DEFINE automatic == jobs.automatic > 0
  <2>1. locked /\ automatic \in BOOLEAN /\ EndsJob(automatic)
    BY <1>1 DEF CycleFinishes, SchedulerInv, SchedulerTypeOK, OneJobAtATime
  <2>2. /\ jobs' \in [all : Nat, automatic : Nat] /\ jobs'.automatic <= jobs'.all
        /\ locked' = FALSE /\ OneJobAtATime'
    BY <2>1, JobEnds
  <2>3. ReflectionHoldsLock'
    BY <1>1 DEF CycleFinishes, ReflectionHoldsLock, AtTick
  <2> QED BY <1>1, <2>2, <2>3 DEF CycleFinishes, SchedulerInv, SchedulerTypeOK
<1>2. CASE PanelRuns
  <2>1. /\ jobs' \in [all : Nat, automatic : Nat] /\ jobs'.automatic <= jobs'.all
        /\ OneJobAtATime' /\ launched' \in 0 .. MaxLaunches
        /\ \A u \in Runners : ~AtTick(u, "reflecting")
    BY <1>2, CycleTakesLock DEF PanelRuns
  <2>2. ReflectionHoldsLock' /\ locked' \in BOOLEAN
    BY <1>2, <2>1 DEF PanelRuns, StartsCycle, ReflectionHoldsLock, AtTick
  <2> QED BY <1>2, <2>1, <2>2 DEF PanelRuns, SchedulerInv, SchedulerTypeOK
<1>3. CASE PanelReflects
  <2>1. /\ jobs' \in [all : Nat, automatic : Nat] /\ jobs'.automatic <= jobs'.all
        /\ OneJobAtATime' /\ launched' \in 0 .. MaxLaunches
        /\ \A u \in Runners : ~AtTick(u, "reflecting")
    BY <1>3, ReflectionTakesLock DEF PanelReflects
  <2>2. ReflectionHoldsLock' /\ locked' \in BOOLEAN
    BY <1>3, <2>1 DEF PanelReflects, StartsReflection, ReflectionHoldsLock, AtTick
  <2> QED BY <1>3, <2>1, <2>2 DEF PanelReflects, SchedulerInv, SchedulerTypeOK
<1>4. CASE RunNowReadsConfig
  <2> DEFINE s == [timer[Manual] EXCEPT !.pc = "bump", !.conf = conf]
  <2>1. Manual \in Runners
    BY DEF Runners
  <2>2. s \in TickState /\ s.pc # "reflecting"
    BY <2>1 DEF SchedulerInv, SchedulerTypeOK, TickState, TickPlaces
  <2>3. timer' = [timer EXCEPT ![Manual] = s]
    BY <1>4 DEF RunNowReadsConfig
  <2> HIDE DEF s
  <2>4. conf' \in Config /\ breaker' \in BreakerState /\ counter' \in Nat
        /\ kvFaults' \in 0 .. MaxKvFaults /\ busy' \in BOOLEAN
    BY <1>4 DEF RunNowReadsConfig, SchedulerInv, SchedulerTypeOK
  <2> QED BY <1>4, <2>1, <2>2, <2>3, <2>4, TickStepTyped DEF RunNowReadsConfig
<1>5. CASE UpdateConfig
  <2>1. timer' \in [Runners -> TickState] /\ OneJobAtATime' /\ ReflectionHoldsLock'
    BY <1>5, JobsRest DEF UpdateConfig
  <2>2. conf \in Config /\ editing.conf \in Config
        /\ \A c \in Config : [c EXCEPT !.enabled = ~@] \in Config
    BY DEF SchedulerInv, SchedulerTypeOK, Config
  <2>3. conf' \in Config
    BY <1>5, <2>2 DEF UpdateConfig
  <2>4. editing' \in [open : BOOLEAN, conf : Config]
    <3>1. editing' = [open |-> TRUE, conf |-> conf] \/ editing' = NoEdit
      BY <1>5 DEF UpdateConfig
    <3>2. [open |-> TRUE, conf |-> conf] \in [open : BOOLEAN, conf : Config]
      BY <2>2
    <3>3. NoEdit \in [open : BOOLEAN, conf : Config]
      BY SchedulerRecordsTyped
    <3> QED BY <3>1, <3>2, <3>3
  <2>5. requests' \in 0 .. MaxRequests
    BY <1>5, SchedulerBounds DEF UpdateConfig, SchedulerInv, SchedulerTypeOK
  <2> QED BY <1>5, <2>1, <2>3, <2>4, <2>5 DEF UpdateConfig, SchedulerInv, SchedulerTypeOK
<1>6. CASE ResetCircuitBreaker
  <2>1. timer' \in [Runners -> TickState] /\ OneJobAtATime' /\ ReflectionHoldsLock'
    BY <1>6, JobsRest DEF ResetCircuitBreaker
  <2>2. requests' \in 0 .. MaxRequests
    BY <1>6, SchedulerBounds DEF ResetCircuitBreaker, SchedulerInv, SchedulerTypeOK
  <2> QED BY <1>6, <2>1, <2>2, SchedulerRecordsTyped
          DEF ResetCircuitBreaker, SchedulerInv, SchedulerTypeOK
<1>7. CASE IntervalPasses
  <2>1. timer' \in [Runners -> TickState] /\ OneJobAtATime' /\ ReflectionHoldsLock'
    BY <1>7, JobsRest DEF IntervalPasses
  <2>2. conf' \in Config
    BY <1>7 DEF IntervalPasses, SchedulerInv, SchedulerTypeOK, Config
  <2> QED BY <1>7, <2>1, <2>2 DEF IntervalPasses, SchedulerInv, SchedulerTypeOK
<1>8. CASE BreakerCools
  <2>1. timer' \in [Runners -> TickState] /\ OneJobAtATime' /\ ReflectionHoldsLock'
    BY <1>8, JobsRest DEF BreakerCools
  <2>2. breaker' \in BreakerState
    BY <1>8 DEF BreakerCools, SchedulerInv, SchedulerTypeOK, BreakerState
  <2> QED BY <1>8, <2>1, <2>2 DEF BreakerCools, SchedulerInv, SchedulerTypeOK
<1>9. CASE ApiRestarts
  <2>1. /\ jobs' \in [all : Nat, automatic : Nat] /\ jobs'.automatic <= jobs'.all
        /\ timer' \in [Runners -> TickState] /\ editing' \in [open : BOOLEAN, conf : Config]
    BY <1>9, SchedulerRecordsTyped DEF ApiRestarts
  <2>2. OneJobAtATime' /\ ReflectionHoldsLock'
    BY <1>9, SchedulerRecordsTyped DEF ApiRestarts, OneJobAtATime, ReflectionHoldsLock, AtTick
  <2>3. kvFaults' \in 0 .. MaxKvFaults
    BY <1>9, SchedulerBounds DEF ApiRestarts, SchedulerInv, SchedulerTypeOK
  <2> QED BY <1>9, <2>1, <2>2, <2>3 DEF ApiRestarts, SchedulerInv, SchedulerTypeOK
<1> QED BY <1>1, <1>2, <1>3, <1>4, <1>5, <1>6, <1>7, <1>8, <1>9

LEMMA SchedulerStepKeeps == SchedulerInv /\ [SchedulerNext]_schedulerVars => SchedulerInv'
<1> SUFFICES ASSUME SchedulerInv, [SchedulerNext]_schedulerVars PROVE SchedulerInv' OBVIOUS
<1>1. CASE SchedulerNext
  BY <1>1, TickKeeps, TickLaunchesKeeps, TickReflectsKeeps, ReflectionFinishesKeeps, RunNowKeeps,
     OthersKeep DEF SchedulerNext
<1>2. CASE UNCHANGED schedulerVars
  BY <1>2, JobsRest DEF schedulerVars, SchedulerInv, SchedulerTypeOK
<1> QED BY <1>1, <1>2

\* CycleExecutorService: whatever ticks, operators and restarts overlap, one
\* cycle or one reflection runs at a time, under the lock.
THEOREM OneJob == SchedulerSpec => []OneJobAtATime
<1>1. SchedulerInv => OneJobAtATime
  BY DEF SchedulerInv
<1> QED BY SchedulerStarts, SchedulerStepKeeps, <1>1, PTL DEF SchedulerSpec

\* Where a tick, or runNow, is when it has launched and has not ended.
Launched == {"read", "close", "bump", "reflect", "count", "reflecting", "reset", "error"}

\* A step of a tick that has launched leaves it launched, or takes the guard
\* down; no other step takes the guard up.
LEMMA GuardStep ==
    ASSUME SchedulerInv, GuardIsReleased, SchedulerNext
    PROVE  GuardIsReleased'
<1> SUFFICES ASSUME busy' PROVE \E t \in Runners : timer'[t].pc \in Launched
  BY DEF GuardIsReleased, Launched
<1>1. /\ timer \in [Runners -> TickState] /\ Manual \in Runners
  BY DEF SchedulerInv, SchedulerTypeOK, Runners
<1>2. busy => \E u \in Runners : timer[u].pc \in Launched
  BY DEF GuardIsReleased, Launched
<1>3. CASE \E t \in Runners : \/ TickFires(t) \/ TickReadsConfig(t) \/ TickReadsBreaker(t)
                              \/ TickSavesProbe(t)
  <2>1. PICK t \in Runners : \/ TickFires(t) \/ TickReadsConfig(t) \/ TickReadsBreaker(t)
                             \/ TickSavesProbe(t)
    BY <1>3
  <2>2. /\ timer[t].pc \notin Launched /\ UNCHANGED busy
        /\ \A u \in Runners : u # t => timer'[u] = timer[u]
    BY <1>1, <2>1 DEF TickFires, TickReadsConfig, TickReadsBreaker, TickSavesProbe, AtTick, TickGoes,
                      Launched
  <2> QED BY <1>2, <2>2
<1>4. CASE \E t \in Runners : \/ TickLaunches(t) \/ TickClosesBreaker(t) \/ BumpRunCount(t)
                              \/ MaybeReflect(t) \/ TickReflects(t) \/ ReflectionFinishes(t)
                              \/ WriteFails(t)
  <2>1. PICK t \in Runners : \/ TickLaunches(t) \/ TickClosesBreaker(t) \/ BumpRunCount(t)
                             \/ MaybeReflect(t) \/ TickReflects(t) \/ ReflectionFinishes(t)
                             \/ WriteFails(t)
    BY <1>4
  <2>2. CASE TickLaunches(t)
    <3>1. CASE timer[t].conf.recent \/ locked
      <4>1. /\ timer[t].pc \notin Launched /\ UNCHANGED busy
            /\ \A u \in Runners : u # t => timer'[u] = timer[u]
        BY <1>1, <2>2, <3>1 DEF TickLaunches, AtTick, Launched
      <4> QED BY <1>2, <4>1
    <3>2. CASE ~(timer[t].conf.recent \/ locked)
      BY <1>1, <2>2, <3>2 DEF TickLaunches, TickGoes, Launched, TickState
    <3> QED BY <3>1, <3>2
  <2>3. CASE TickClosesBreaker(t)
    BY <1>1, <2>3 DEF TickClosesBreaker, TickGoes, Launched, TickState
  <2>4. CASE BumpRunCount(t)
    BY <1>1, <2>4 DEF BumpRunCount, TickGoes, Launched, TickState
  <2>5. CASE MaybeReflect(t)
    BY <1>1, <2>5 DEF MaybeReflect, TickEndsHere, TickGoes, Launched, TickState
  <2>6. CASE TickReflects(t)
    BY <1>1, <2>6 DEF TickReflects, TickEndsHere, TickGoes, Launched, TickState
  <2>7. CASE ReflectionFinishes(t)
    BY <1>1, <2>7 DEF ReflectionFinishes, TickEndsHere, TickGoes, Launched, TickState
  <2>8. CASE WriteFails(t)
    BY <1>1, <2>8 DEF WriteFails, TickGoes, Launched, TickState
  <2> QED BY <2>1, <2>2, <2>3, <2>4, <2>5, <2>6, <2>7, <2>8
<1>5. CASE \E t \in Runners : CountTowardsReflection(t) \/ ResetCounter(t) \/ HandleTickError(t)
  BY <1>5 DEF CountTowardsReflection, ResetCounter, HandleTickError, TickEndsHere
<1>6. CASE CycleFinishes \/ PanelRuns \/ PanelReflects \/ UpdateConfig \/ ResetCircuitBreaker
           \/ IntervalPasses \/ BreakerCools
  <2>1. UNCHANGED <<busy, timer>>
    BY <1>6 DEF CycleFinishes, PanelRuns, PanelReflects, UpdateConfig, ResetCircuitBreaker,
                IntervalPasses, BreakerCools
  <2> QED BY <1>2, <2>1
<1>7. CASE RunNow
  BY <1>1, <1>7 DEF RunNow, TickGoes, Launched, TickState
<1>8. CASE RunNowReadsConfig
  BY <1>1, <1>8 DEF RunNowReadsConfig, Launched, TickState
<1>9. CASE ApiRestarts
  BY <1>9 DEF ApiRestarts
<1> QED BY <1>3, <1>4, <1>5, <1>6, <1>7, <1>8, <1>9 DEF SchedulerNext

\* CycleSchedulerService.tick(), runNow(): the guard that silences the timer is
\* up only while something that launched is under way, however it ends.
THEOREM GuardComesDown == SchedulerSpec => []GuardIsReleased
<1>1. SchedulerInit => GuardIsReleased
  BY DEF SchedulerInit, GuardIsReleased
<1>2. SchedulerInv /\ GuardIsReleased /\ [SchedulerNext]_schedulerVars => GuardIsReleased'
  <2>1. GuardIsReleased /\ UNCHANGED schedulerVars => GuardIsReleased'
    BY DEF GuardIsReleased, schedulerVars
  <2> QED BY <2>1, GuardStep
<1> QED BY SchedulerStarts, SchedulerStepKeeps, <1>1, <1>2, PTL DEF SchedulerSpec

\* The types of the scheduler's keys, its guards, its breaker and its ticks,
\* for every cadence and every bound.
THEOREM SchedulerKeepsTypes == SchedulerSpec => []SchedulerTypeOK
<1>1. SchedulerInv => SchedulerTypeOK
  BY DEF SchedulerInv
<1> QED BY <1>1, SchedulerStarts, SchedulerStepKeeps, PTL DEF SchedulerSpec

-----------------------------------------------------------------------------
(* PretestScheduler                                                        *)

InSlot(k) == tickOf[k].pc \in {"listing", "running"}

\* What the step of a tick needs of the types.
SlotTypes ==
    /\ clock \in Nat /\ lastRunAt \in Nat /\ interval \in Nat
    /\ tickOf \in [Ticks -> [pc : {"off", "reading", "listing", "running"}, every : Nat, slot : Nat]]
    /\ toRun \in [Ticks -> SUBSET Portfolios]
    /\ ranAt \in [Portfolios -> SUBSET Nat]

\* lastRunAt is the latest slot taken: every tick inside a slot has one no
\* later, a slot no other tick has, and nothing was started in a later one.
SlotsTaken ==
    /\ \A k \in Ticks : InSlot(k) => tickOf[k].slot <= lastRunAt
    /\ \A j, k \in Ticks : InSlot(j) /\ InSlot(k) /\ tickOf[j].slot = tickOf[k].slot => j = k
    /\ \A p \in Portfolios : \A slot \in ranAt[p] : slot <= lastRunAt

\* What a tick has still to start was not started in its slot.
StillToRun ==
    \A k \in Ticks :
      /\ tickOf[k].pc = "listing" => \A p \in Portfolios : tickOf[k].slot \notin ranAt[p]
      /\ tickOf[k].pc = "running" => \A p \in toRun[k] : tickOf[k].slot \notin ranAt[p]

SlotInv == SlotTypes /\ SlotsTaken /\ StillToRun

LEMMA PretestBounds ==
    /\ Intervals \subseteq Nat /\ DEFAULT_INTERVAL \in Nat /\ DEFAULT_INTERVAL > 0
BY PretestSchedulerAssumption

\* A slot is a moment.
LEMMA SlotTyped ==
    ASSUME NEW time \in Nat, NEW every \in Nat, every > 0
    PROVE  CurrentSlot(time, every) \in Nat
<1>1. time \div every \in Nat
  OBVIOUS
<1>2. \A a, b \in Nat : a * b \in Nat
  OBVIOUS
<1> QED BY <1>1, <1>2 DEF CurrentSlot

LEMMA SlotsStart == PretestSchedulerInit => SlotInv
<1> SUFFICES ASSUME PretestSchedulerInit PROVE SlotInv OBVIOUS
<1>1. SlotTypes
  BY PretestBounds DEF PretestSchedulerInit, SlotTypes, OffTimer
<1>2. SlotsTaken /\ StillToRun
  BY DEF PretestSchedulerInit, SlotsTaken, StillToRun, InSlot, OffTimer
<1> QED BY <1>1, <1>2 DEF SlotInv

\* A tick that leaves its slot, or never entered one, disturbs nobody.
LEMMA TickLeaves ==
    ASSUME SlotInv, NEW k \in Ticks, UNCHANGED <<clock, interval, lastRunAt, toRun, ranAt>>,
           NEW s \in [pc : {"off", "reading"}, every : Nat, slot : Nat],
           tickOf' = [tickOf EXCEPT ![k] = s]
    PROVE  SlotInv'
<1>1. SlotTypes'
  BY DEF SlotInv, SlotTypes
<1>2. \A j \in Ticks : (InSlot(j))' => j # k /\ tickOf'[j] = tickOf[j] /\ InSlot(j)
  BY DEF SlotInv, SlotTypes, InSlot
<1>3. SlotsTaken'
  BY <1>2 DEF SlotInv, SlotsTaken
<1>4. StillToRun'
  BY <1>2 DEF SlotInv, StillToRun, InSlot
<1> QED BY <1>1, <1>3, <1>4 DEF SlotInv

\* The tick that is due takes a slot later than every slot taken.
LEMMA SlotIsTaken ==
    ASSUME SlotInv, NEW k \in Ticks, interval > 0, IsDue(interval), TakeSlot(k),
           UNCHANGED <<clock, interval, toRun, ranAt>>
    PROVE  SlotInv'
<1> DEFINE slot == CurrentSlot(clock, interval)
<1>1. slot \in Nat /\ lastRunAt \in Nat /\ interval \in Nat
  BY SlotTyped DEF SlotInv, SlotTypes
<1>2. slot > lastRunAt /\ lastRunAt' = slot
      /\ tickOf' = [tickOf EXCEPT ![k] = [pc |-> "listing", every |-> interval, slot |-> slot]]
  BY DEF IsDue, TakeSlot
<1> HIDE DEF slot
<1>3. SlotTypes'
  BY <1>1, <1>2 DEF SlotInv, SlotTypes
<1>4. /\ tickOf'[k] = [pc |-> "listing", every |-> interval, slot |-> slot]
      /\ \A j \in Ticks : j # k => tickOf'[j] = tickOf[j]
  BY <1>2 DEF SlotInv, SlotTypes
<1>5. \A j \in Ticks : j # k /\ (InSlot(j))' => InSlot(j) /\ tickOf'[j].slot <= lastRunAt
  BY <1>4 DEF SlotInv, SlotsTaken, InSlot
<1>6. \A j \in Ticks : tickOf'[j].slot \in Nat
  BY <1>3 DEF SlotTypes
<1>7. \A p \in Portfolios : \A x \in ranAt[p] : x \in Nat /\ x <= lastRunAt
  BY DEF SlotInv, SlotTypes, SlotsTaken
<1>8. SlotsTaken'
  <2>1. \A j \in Ticks : (InSlot(j))' => tickOf'[j].slot <= lastRunAt'
    BY <1>1, <1>2, <1>4, <1>5, <1>6
  <2>2. \A i, j \in Ticks : (InSlot(i))' /\ (InSlot(j))' /\ tickOf'[i].slot = tickOf'[j].slot => i = j
    <3> SUFFICES ASSUME NEW i \in Ticks, NEW j \in Ticks, (InSlot(i))', (InSlot(j))',
                        tickOf'[i].slot = tickOf'[j].slot
                 PROVE  i = j
      OBVIOUS
    <3>1. CASE i # k /\ j # k
      BY <3>1, <1>4, <1>5 DEF SlotInv, SlotsTaken
    <3>2. CASE i = k \/ j = k
      BY <3>2, <1>1, <1>2, <1>4, <1>5, <1>6
    <3> QED BY <3>1, <3>2
  <2>3. \A p \in Portfolios : \A x \in ranAt'[p] : x <= lastRunAt'
    BY <1>1, <1>2, <1>7
  <2> QED BY <2>1, <2>2, <2>3 DEF SlotsTaken, InSlot
<1>9. StillToRun'
  <2>1. \A p \in Portfolios : slot \notin ranAt[p]
    BY <1>1, <1>2, <1>7
  <2> QED BY <1>4, <2>1 DEF SlotInv, StillToRun
<1> QED BY <1>3, <1>8, <1>9 DEF SlotInv

LEMMA IntervalReadKeeps == ASSUME SlotInv, NEW k \in Ticks, IntervalRead(k) PROVE SlotInv'
<1>1. CASE interval > 0 /\ IsDue(interval)
  BY <1>1, SlotIsTaken DEF IntervalRead
<1>2. CASE ~(interval > 0 /\ IsDue(interval))
  <2>1. OffTimer \in [pc : {"off", "reading"}, every : Nat, slot : Nat]
    BY DEF OffTimer
  <2> QED BY <1>2, <2>1, TickLeaves DEF IntervalRead
<1> QED BY <1>1, <1>2

\* The walk over the portfolios.
LEMMA RunKeeps ==
    ASSUME SlotInv, isActive \subseteq Portfolios, NEW k \in Ticks,
           ListActive(k) \/ RunPortfolio(k) \/ RunEnds(k)
    PROVE  SlotInv'
<1>1. CASE ListActive(k)
  <2>1. SlotTypes'
    BY <1>1 DEF ListActive, SlotInv, SlotTypes
  <2>2. \A j \in Ticks : /\ tickOf'[j].slot = tickOf[j].slot /\ ((InSlot(j))' <=> InSlot(j))
                         /\ j # k => tickOf'[j] = tickOf[j] /\ toRun'[j] = toRun[j]
    BY <1>1 DEF ListActive, SlotInv, SlotTypes, InSlot
  <2>3. SlotsTaken'
    <3>1. UNCHANGED <<lastRunAt, ranAt>>
      BY <1>1 DEF ListActive
    <3> QED BY <2>2, <3>1 DEF SlotInv, SlotsTaken, InSlot
  <2>4. /\ tickOf[k].pc = "listing" /\ tickOf'[k].pc = "running" /\ toRun'[k] = isActive
        /\ UNCHANGED ranAt
    BY <1>1 DEF ListActive, SlotInv, SlotTypes
  <2>5. StillToRun'
    <3>1. isActive \subseteq Portfolios
      OBVIOUS
    <3>2. \A j \in Ticks : j # k => tickOf'[j] = tickOf[j] /\ toRun'[j] = toRun[j]
      BY <2>2
    <3>3. tickOf'[k].slot = tickOf[k].slot
      BY <2>2
    <3> QED BY <2>4, <3>1, <3>2, <3>3 DEF SlotInv, StillToRun
  <2> QED BY <2>1, <2>3, <2>5 DEF SlotInv
<1>2. CASE RunPortfolio(k)
  <2>1. PICK p \in toRun[k] :
          /\ toRun' = [toRun EXCEPT ![k] = @ \ {p}]
          /\ ranAt' = IF p \in isActive THEN [ranAt EXCEPT ![p] = @ \cup {tickOf[k].slot}]
                      ELSE ranAt
    BY <1>2 DEF RunPortfolio
  <2>2. tickOf[k].pc = "running" /\ UNCHANGED <<clock, interval, lastRunAt, tickOf>>
        /\ p \in Portfolios /\ tickOf[k].slot \in Nat /\ tickOf[k].slot <= lastRunAt
    BY <1>2 DEF RunPortfolio, SlotInv, SlotTypes, SlotsTaken, InSlot
  <2>3. SlotTypes'
    <3>1. toRun' \in [Ticks -> SUBSET Portfolios]
      BY <2>1 DEF SlotInv, SlotTypes
    <3>2. ranAt' \in [Portfolios -> SUBSET Nat]
      BY <2>1, <2>2 DEF SlotInv, SlotTypes
    <3> QED BY <2>2, <3>1, <3>2 DEF SlotInv, SlotTypes
  <2>4. \A q \in Portfolios : /\ ranAt'[q] \subseteq ranAt[q] \cup {tickOf[k].slot}
                              /\ q # p => ranAt'[q] = ranAt[q]
    BY <2>1 DEF SlotInv, SlotTypes
  <2>5. SlotsTaken'
    <3>1. \A q \in Portfolios : \A x \in ranAt'[q] : x <= lastRunAt'
      BY <2>2, <2>4 DEF SlotInv, SlotsTaken
    <3>2. /\ \A j \in Ticks : (InSlot(j))' => tickOf'[j].slot <= lastRunAt'
          /\ \A i, j \in Ticks : (InSlot(i))' /\ (InSlot(j))' /\ tickOf'[i].slot = tickOf'[j].slot
                               => i = j
      BY <2>2 DEF SlotInv, SlotsTaken, InSlot
    <3> QED BY <3>1, <3>2 DEF SlotsTaken
  <2>6. \A j \in Ticks : j # k => toRun'[j] = toRun[j]
    BY <2>1 DEF SlotInv, SlotTypes
  <2>7. p \notin toRun'[k] /\ toRun'[k] \subseteq toRun[k]
    BY <2>1 DEF SlotInv, SlotTypes
  <2>8. StillToRun'
    <3> SUFFICES ASSUME NEW j \in Ticks
                 PROVE  /\ tickOf[j].pc = "listing" =>
                             \A q \in Portfolios : tickOf[j].slot \notin ranAt'[q]
                        /\ tickOf[j].pc = "running" =>
                             \A q \in toRun'[j] : tickOf[j].slot \notin ranAt'[q]
      BY <2>2 DEF StillToRun
    <3>1. toRun[j] \subseteq Portfolios
      BY DEF SlotInv, SlotTypes
    <3>2. CASE j = k
      <4>1. tickOf[j].pc # "listing"
        BY <2>2, <3>2
      <4>2. ASSUME NEW q \in toRun'[j] PROVE tickOf[j].slot \notin ranAt'[q]
        <5>1. q \in toRun[k] /\ q # p /\ q \in Portfolios
          BY <2>7, <3>1, <3>2
        <5>2. ranAt'[q] = ranAt[q]
          BY <2>4, <5>1
        <5> QED BY <2>2, <3>2, <5>1, <5>2 DEF SlotInv, StillToRun
      <4> QED BY <4>1, <4>2
    <3>3. CASE j # k
      <4>1. InSlot(j) => tickOf[j].slot # tickOf[k].slot
        BY <2>2, <3>3 DEF SlotInv, SlotsTaken, InSlot
      <4>2. ASSUME NEW q \in Portfolios, InSlot(j), tickOf[j].slot \notin ranAt[q]
            PROVE  tickOf[j].slot \notin ranAt'[q]
        BY <2>4, <4>1, <4>2
      <4>3. toRun'[j] = toRun[j]
        BY <2>6, <3>3
      <4> QED BY <3>1, <4>2, <4>3 DEF SlotInv, StillToRun, InSlot
    <3> QED BY <3>2, <3>3
  <2> QED BY <2>3, <2>5, <2>8 DEF SlotInv
<1>3. CASE RunEnds(k)
  <2>1. OffTimer \in [pc : {"off", "reading"}, every : Nat, slot : Nat]
    BY DEF OffTimer
  <2> QED BY <1>3, <2>1, TickLeaves DEF RunEnds
<1> QED BY <1>1, <1>2, <1>3

\* Time, the operator and a restart.
LEMMA OutsideKeeps ==
    ASSUME SlotInv,
           ClockAdvances \/ OperatorSetsInterval \/ OperatorTogglesPortfolio \/ ProcessRestarts
    PROVE  SlotInv'
<1>1. CASE ClockAdvances \/ OperatorSetsInterval \/ OperatorTogglesPortfolio
  <2>1. UNCHANGED <<lastRunAt, tickOf, toRun, ranAt>>
    BY <1>1 DEF ClockAdvances, OperatorSetsInterval, OperatorTogglesPortfolio
  <2>2. clock' \in Nat
    BY <1>1 DEF ClockAdvances, OperatorSetsInterval, OperatorTogglesPortfolio, SlotInv, SlotTypes
  <2>3. interval' \in Nat
    BY <1>1, PretestBounds DEF ClockAdvances, OperatorSetsInterval, OperatorTogglesPortfolio, SlotInv,
                               SlotTypes
  <2> QED BY <2>1, <2>2, <2>3 DEF SlotInv, SlotTypes, SlotsTaken, StillToRun, InSlot
<1>2. CASE ProcessRestarts
  <2>1. lastRunAt' \in Nat
    <3>1. \A every \in Nat : every > 0 => CurrentSlot(clock, every) \in Nat
      BY SlotTyped DEF SlotInv, SlotTypes
    <3>2. interval \in Nat /\ DEFAULT_INTERVAL \in Nat /\ DEFAULT_INTERVAL > 0
      BY PretestBounds DEF SlotInv, SlotTypes
    <3> QED BY <1>2, <3>1, <3>2 DEF ProcessRestarts
  <2>2. SlotTypes'
    BY <1>2, <2>1 DEF ProcessRestarts, SlotInv, SlotTypes, OffTimer
  <2>3. \A k \in Ticks : tickOf'[k].pc = "off"
    BY <1>2 DEF ProcessRestarts, OffTimer
  <2>4. SlotsTaken' /\ StillToRun'
    BY <1>2, <2>3 DEF ProcessRestarts, SlotsTaken, StillToRun, InSlot
  <2> QED BY <2>2, <2>4 DEF SlotInv
<1> QED BY <1>1, <1>2

\* The portfolios that are active are portfolios.
ActiveTyped == isActive \subseteq Portfolios

LEMMA ActiveStays == ActiveTyped /\ [PretestSchedulerNext]_pretestSchedulerVars => ActiveTyped'
BY DEF ActiveTyped, PretestSchedulerNext, pretestSchedulerVars, TimerFires, IntervalUnreadable,
       IntervalRead, ListActive, RunPortfolio, RunEnds, ClockAdvances, OperatorSetsInterval,
       OperatorTogglesPortfolio, ProcessRestarts

LEMMA SlotStepKeeps ==
    SlotInv /\ ActiveTyped /\ [PretestSchedulerNext]_pretestSchedulerVars => SlotInv'
<1> SUFFICES ASSUME SlotInv, ActiveTyped, [PretestSchedulerNext]_pretestSchedulerVars PROVE SlotInv'
  OBVIOUS
<1>1. CASE \E k \in Ticks : TimerFires(k) \/ IntervalUnreadable(k)
  <2>1. PICK k \in Ticks : TimerFires(k) \/ IntervalUnreadable(k)
    BY <1>1
  <2> DEFINE s == [tickOf[k] EXCEPT !.pc = "reading"]
  <2>2. s \in [pc : {"off", "reading"}, every : Nat, slot : Nat]
        /\ OffTimer \in [pc : {"off", "reading"}, every : Nat, slot : Nat]
    BY DEF SlotInv, SlotTypes, OffTimer
  <2>3. /\ tickOf' = [tickOf EXCEPT ![k] = s] \/ tickOf' = [tickOf EXCEPT ![k] = OffTimer]
        /\ UNCHANGED <<clock, interval, lastRunAt, toRun, ranAt>>
    BY <2>1 DEF TimerFires, IntervalUnreadable
  <2> HIDE DEF s
  <2> QED BY <2>2, <2>3, TickLeaves
<1>2. CASE \E k \in Ticks : IntervalRead(k)
  BY <1>2, IntervalReadKeeps
<1>3. CASE \E k \in Ticks : ListActive(k) \/ RunPortfolio(k) \/ RunEnds(k)
  BY <1>3, RunKeeps DEF ActiveTyped
<1>4. CASE ClockAdvances \/ OperatorSetsInterval \/ OperatorTogglesPortfolio \/ ProcessRestarts
  BY <1>4, OutsideKeeps
<1>5. CASE UNCHANGED pretestSchedulerVars
  BY <1>5 DEF pretestSchedulerVars, SlotInv, SlotTypes, SlotsTaken, StillToRun, InSlot
<1> QED BY <1>1, <1>2, <1>3, <1>4, <1>5 DEF PretestSchedulerNext

\* PretestSchedulerService.tick(), runAllActive(): of any number of ticks that
\* pass the overlap guard together, with the interval changed under them, one
\* executes a slot, and it starts each portfolio once.
THEOREM OneRunPerSlot == PretestSchedulerSpec => []SlotRunsOnce
<1>1. PretestSchedulerInit => SlotInv /\ ActiveTyped
  BY SlotsStart DEF PretestSchedulerInit, ActiveTyped
<1>2. SlotInv => SlotRunsOnce
  <2> SUFFICES ASSUME SlotInv PROVE SlotRunsOnce OBVIOUS
  <2>1. \A k \in Ticks : toRun[k] \subseteq Portfolios
    BY DEF SlotInv, SlotTypes
  <2> QED BY <2>1 DEF SlotInv, SlotsTaken, StillToRun, SlotRunsOnce, InSlot
<1> QED BY <1>1, <1>2, SlotStepKeeps, ActiveStays, PTL DEF PretestSchedulerSpec

\* The bounds are natural numbers.
LEMMA PretestCounts ==
    MaxClock \in Nat /\ MaxIntervalEdits \in Nat /\ MaxSchedulerFaults \in Nat
BY PretestSchedulerAssumption

\* A slot is no later than the moment it is the slot of.
LEMMA SlotIsPast ==
    ASSUME NEW time \in Nat, NEW every \in Nat, every > 0
    PROVE  CurrentSlot(time, every) \in 0 .. time
<1>1. CurrentSlot(time, every) \in Nat
  BY SlotTyped
<1>2. (time \div every) * every <= time
  OBVIOUS
<1> QED BY <1>1, <1>2 DEF CurrentSlot

\* Nothing was started, and no slot was taken, after the present moment.
SlotsArePast ==
    /\ lastRunAt \in 0 .. clock
    /\ \A p \in Portfolios : ranAt[p] \subseteq 0 .. clock

\* The counters stay within their bounds.
PretestCounted ==
    /\ clock \in 0 .. MaxClock /\ intervalEdits \in 0 .. MaxIntervalEdits
    /\ schedulerFaults \in 0 .. MaxSchedulerFaults
    /\ interval \in Intervals \cup {DEFAULT_INTERVAL} /\ pretestRunning \in BOOLEAN

\* The clock only goes on, and the counters are looked at before they grow.
LEMMA PretestCountedStays ==
    PretestCounted /\ [PretestSchedulerNext]_pretestSchedulerVars => PretestCounted'
<1> SUFFICES ASSUME PretestCounted, [PretestSchedulerNext]_pretestSchedulerVars
             PROVE  PretestCounted'
  OBVIOUS
<1>1. CASE \E k \in Ticks : TimerFires(k) \/ IntervalUnreadable(k) \/ IntervalRead(k)
                            \/ ListActive(k) \/ RunPortfolio(k) \/ RunEnds(k)
  <2>1. UNCHANGED <<clock, interval, intervalEdits>>
    BY <1>1 DEF TimerFires, IntervalUnreadable, IntervalRead, ListActive, RunPortfolio, RunEnds
  <2>2. pretestRunning' \in BOOLEAN
    BY <1>1 DEF TimerFires, IntervalUnreadable, IntervalRead, TakeSlot, ListActive, RunPortfolio, RunEnds,
                PretestCounted
  <2>3. \/ schedulerFaults' = schedulerFaults
        \/ schedulerFaults < MaxSchedulerFaults /\ schedulerFaults' = schedulerFaults + 1
    BY <1>1, PretestCounts DEF TimerFires, IntervalUnreadable, IntervalRead, ListActive, RunPortfolio, RunEnds,
                PretestCounted
  <2> QED BY <2>1, <2>2, <2>3, PretestCounts DEF PretestCounted
<1>2. CASE ClockAdvances \/ OperatorSetsInterval \/ OperatorTogglesPortfolio \/ ProcessRestarts
  <2>1. interval' \in Intervals \cup {DEFAULT_INTERVAL} /\ pretestRunning' \in BOOLEAN
    BY <1>2
       DEF ClockAdvances, OperatorSetsInterval, OperatorTogglesPortfolio, ProcessRestarts, PretestCounted
  <2>2. /\ \/ clock' = clock
           \/ clock < MaxClock /\ clock' = clock + 1
        /\ \/ intervalEdits' = intervalEdits
           \/ intervalEdits < MaxIntervalEdits /\ intervalEdits' = intervalEdits + 1
        /\ \/ schedulerFaults' = schedulerFaults
           \/ schedulerFaults < MaxSchedulerFaults /\ schedulerFaults' = schedulerFaults + 1
    BY <1>2 DEF ClockAdvances, OperatorSetsInterval, OperatorTogglesPortfolio, ProcessRestarts
  <2> QED BY <2>1, <2>2, PretestCounts DEF PretestCounted
<1>3. CASE UNCHANGED pretestSchedulerVars
  BY <1>3 DEF pretestSchedulerVars, PretestCounted
<1> QED BY <1>1, <1>2, <1>3 DEF PretestSchedulerNext

\* A slot is taken at a moment that has come, and a portfolio is started in a
\* slot that was taken.
LEMMA PastStays ==
    ASSUME SlotInv, ActiveTyped, PretestCounted, SlotsArePast,
           [PretestSchedulerNext]_pretestSchedulerVars
    PROVE  SlotsArePast'
<1>0. clock \in Nat /\ interval \in Nat /\ DEFAULT_INTERVAL \in Nat /\ DEFAULT_INTERVAL > 0
      /\ lastRunAt \in 0 .. clock /\ \A p \in Portfolios : ranAt[p] \subseteq 0 .. clock
  BY PretestBounds DEF SlotInv, SlotTypes, SlotsArePast
<1>1. ASSUME NEW k \in Ticks, IntervalRead(k) PROVE SlotsArePast'
  <2>1. UNCHANGED <<clock, ranAt>> /\ lastRunAt' \in {lastRunAt, CurrentSlot(clock, interval)}
        /\ (lastRunAt' # lastRunAt => interval > 0)
    BY <1>1 DEF IntervalRead, TakeSlot
  <2> QED BY <1>0, <2>1, SlotIsPast DEF SlotsArePast
<1>2. ASSUME NEW k \in Ticks, RunPortfolio(k) PROVE SlotsArePast'
  <2>1. UNCHANGED <<clock, lastRunAt>> /\ tickOf[k].slot \in 0 .. clock
    <3>1. tickOf[k].slot \in Nat /\ tickOf[k].slot <= lastRunAt /\ UNCHANGED <<clock, lastRunAt>>
      BY <1>2 DEF RunPortfolio, SlotInv, SlotTypes, SlotsTaken, InSlot
    <3> QED BY <1>0, <3>1
  <2>2. PICK p \in toRun[k] : ranAt' = IF p \in isActive THEN [ranAt EXCEPT ![p] = @ \cup {tickOf[k].slot}]
                                       ELSE ranAt
    BY <1>2 DEF RunPortfolio
  <2>3. \A q \in Portfolios : ranAt'[q] \subseteq ranAt[q] \cup {tickOf[k].slot}
    BY <2>2 DEF SlotInv, SlotTypes
  <2> QED BY <1>0, <2>1, <2>3 DEF SlotsArePast
<1>3. ASSUME NEW k \in Ticks, TimerFires(k) \/ IntervalUnreadable(k) \/ ListActive(k) \/ RunEnds(k)
      PROVE  SlotsArePast'
  <2>1. UNCHANGED <<clock, lastRunAt, ranAt>>
    BY <1>3 DEF TimerFires, IntervalUnreadable, ListActive, RunEnds
  <2> QED BY <1>0, <2>1 DEF SlotsArePast
<1>4. CASE OperatorSetsInterval \/ OperatorTogglesPortfolio \/ UNCHANGED pretestSchedulerVars
  <2>1. UNCHANGED <<clock, lastRunAt, ranAt>>
    BY <1>4 DEF OperatorSetsInterval, OperatorTogglesPortfolio, pretestSchedulerVars
  <2> QED BY <1>0, <2>1 DEF SlotsArePast
<1>5. CASE ClockAdvances
  <2>1. clock' = clock + 1 /\ UNCHANGED <<lastRunAt, ranAt>>
    BY <1>5 DEF ClockAdvances
  <2>2. 0 .. clock \subseteq 0 .. clock'
    BY <1>0, <2>1
  <2> QED BY <1>0, <2>1, <2>2 DEF SlotsArePast
<1>6. CASE ProcessRestarts
  <2>1. lastRunAt' \in 0 .. clock
    <3>1. \A every \in Nat : every > 0 => CurrentSlot(clock, every) \in 0 .. clock
      BY <1>0, SlotIsPast
    <3> QED BY <1>0, <1>6, <3>1 DEF ProcessRestarts
  <2>2. clock' = clock /\ \A p \in Portfolios : ranAt'[p] = {}
    BY <1>6 DEF ProcessRestarts
  <2> QED BY <2>1, <2>2 DEF SlotsArePast
<1> QED BY <1>1, <1>2, <1>3, <1>4, <1>5, <1>6 DEF PretestSchedulerNext

\* The types of the pretest scheduler: every slot it marks, walks or remembers
\* is a moment of the clock that has come.
THEOREM PretestSchedulerKeepsTypes == PretestSchedulerSpec => []PretestSchedulerTypeOK
<1>1. PretestSchedulerInit => SlotInv /\ ActiveTyped /\ PretestCounted /\ SlotsArePast
  <2> SUFFICES ASSUME PretestSchedulerInit
               PROVE  SlotInv /\ ActiveTyped /\ PretestCounted /\ SlotsArePast
    OBVIOUS
  <2>1. PretestCounted /\ SlotsArePast
    <3>1. clock = 0 /\ lastRunAt = 0 /\ \A p \in Portfolios : ranAt[p] = {}
      BY DEF PretestSchedulerInit
    <3>2. interval = DEFAULT_INTERVAL /\ pretestRunning = FALSE
          /\ intervalEdits = 0 /\ schedulerFaults = 0
      BY DEF PretestSchedulerInit
    <3>3. PretestCounted
      <4>1. interval \in Intervals \cup {DEFAULT_INTERVAL} /\ pretestRunning \in BOOLEAN
        BY <3>2
      <4>2. /\ clock \in 0 .. MaxClock /\ intervalEdits \in 0 .. MaxIntervalEdits
            /\ schedulerFaults \in 0 .. MaxSchedulerFaults
        BY <3>1, <3>2, PretestCounts
      <4> QED BY <4>1, <4>2 DEF PretestCounted
    <3> QED BY <3>1, <3>3 DEF SlotsArePast
  <2> QED BY <2>1, SlotsStart DEF PretestSchedulerInit, ActiveTyped
<1>2. SlotInv /\ ActiveTyped /\ PretestCounted /\ SlotsArePast => PretestSchedulerTypeOK
  <2> SUFFICES ASSUME SlotInv, ActiveTyped, PretestCounted, SlotsArePast
               PROVE  PretestSchedulerTypeOK
    OBVIOUS
  <2>1. clock \in 0 .. MaxClock /\ MaxClock \in Nat
    BY PretestCounts DEF PretestCounted
  <2>2. 0 .. clock \subseteq 0 .. MaxClock
    BY <2>1
  <2>3. ranAt \in [Portfolios -> SUBSET (0 .. MaxClock)]
    BY <2>2 DEF SlotInv, SlotTypes, SlotsArePast
  <2> QED BY <2>1, <2>2, <2>3
          DEF SlotInv, SlotTypes, ActiveTyped, PretestCounted, SlotsArePast, PretestSchedulerTypeOK
<1>3. SlotInv /\ ActiveTyped /\ PretestCounted /\ SlotsArePast
        /\ [PretestSchedulerNext]_pretestSchedulerVars => (SlotsArePast)'
  BY PastStays
<1> QED BY <1>1, <1>2, <1>3, SlotStepKeeps, ActiveStays, PretestCountedStays, PTL
        DEF PretestSchedulerSpec

-----------------------------------------------------------------------------
(* SkillRevision                                                           *)

\* As long as nothing was lost, the oldest snapshot is the installed body; with
\* no snapshot the file holds it, or a revert is about to write it there.
FirstIsInstalled ==
    ~lossy =>
      /\ snapshots # <<>> => snapshots[1] = 0
      /\ snapshots = <<>> => IF reverter.pc = "write" THEN reverter.restores = 0 ELSE body = 0

\* As long as nothing was lost, a write and a revert are not under way together,
\* and each still sees what it read.
NothingInBetween ==
    ~lossy =>
      /\ writer.pc # "none" => reverter.pc = "none"
      /\ writer.pc = "snapshot" => writer.kept = snapshots /\ writer.old = body
      /\ writer.pc = "write" => snapshots # <<>>
      /\ reverter.pc = "pop" => /\ snapshots # <<>> /\ reverter.kept = Front(snapshots)
                                /\ reverter.restores = Last(snapshots)

Bodies == 0 .. MaxBodies

\* A write that is under way has its body to come up with still.
SkillTypes ==
    /\ body \in Bodies /\ bodies \in Bodies
    /\ snapshots \in Seq(Bodies) /\ Len(snapshots) <= SNAPSHOT_CAP
    /\ lossy \in BOOLEAN /\ writable \in BOOLEAN
    /\ writer.pc # "none" => bodies + 1 \in Bodies
    /\ writer \in [pc : {"none", "snapshot", "write"}, old : Bodies, kept : Seq(Bodies)]
    /\ Len(writer.kept) <= SNAPSHOT_CAP
    /\ reverter \in [pc : {"none", "pop", "write"}, kept : Seq(Bodies), restores : Bodies]
    /\ Len(reverter.kept) <= SNAPSHOT_CAP

SkillInv == SkillTypes /\ NothingInBetween /\ FirstIsInstalled

\* With no write and no revert under way, nothing is kept of either.
LEMMA NoneUnderWay ==
    /\ 0 \in Bodies /\ 0 <= SNAPSHOT_CAP /\ Len(<<>>) = 0
    /\ NoWriter \in [pc : {"none", "snapshot", "write"}, old : Bodies, kept : Seq(Bodies)]
    /\ NoWriter.kept = <<>> /\ NoWriter.pc = "none"
    /\ NoReverter \in [pc : {"none", "pop", "write"}, kept : Seq(Bodies), restores : Bodies]
    /\ NoReverter.kept = <<>> /\ NoReverter.pc = "none"
<1>1. 0 \in Bodies
  BY SkillRevisionAssumption DEF Bodies
<1>2. <<>> \in Seq(Bodies) /\ Len(<<>>) = 0
  BY EmptySeq
<1>3. 0 <= SNAPSHOT_CAP
  BY SkillRevisionAssumption
<1> QED BY <1>1, <1>2, <1>3 DEF NoWriter, NoReverter

\* The greater of one and a smaller number.
LEMMA GreaterOfOne ==
    ASSUME NEW n \in Int
    PROVE  /\ n <= 1 => Max({1, n}) = 1
           /\ n >= 1 => Max({1, n}) = n
BY DEF Max

\* The cap keeps all of a sequence that fits, and the end of one that does not.
LEMMA CapKeepsEnd ==
    ASSUME NEW s \in Seq(Bodies), Len(s) <= SNAPSHOT_CAP + 1, s # <<>>
    PROVE  /\ Capped(s) \in Seq(Bodies) /\ Capped(s) # <<>> /\ Len(Capped(s)) <= SNAPSHOT_CAP
           /\ Len(s) <= SNAPSHOT_CAP => Capped(s) = s
<1> DEFINE from == Max({1, Len(s) - SNAPSHOT_CAP + 1})
<1>1. SNAPSHOT_CAP \in Nat /\ SNAPSHOT_CAP > 0 /\ Len(s) \in Nat /\ Len(s) > 0
  BY SkillRevisionAssumption
<1>2. /\ Len(s) <= SNAPSHOT_CAP => from = 1
      /\ Len(s) = SNAPSHOT_CAP + 1 => from = 2
  BY <1>1, GreaterOfOne
<1>3. from \in {1, 2} /\ from <= Len(s)
  BY <1>1, <1>2
<1> HIDE DEF from
<1>4. Capped(s) = SubSeq(s, from, Len(s))
  BY DEF Capped, from
<1>5. \A i \in from .. Len(s) : s[i] \in Bodies
  BY <1>1, <1>3, ElementOfSeq
<1>6. Capped(s) \in Seq(Bodies) /\ Len(Capped(s)) = Len(s) - from + 1
  BY <1>1, <1>3, <1>4, <1>5, SubSeqProperties
<1>7. Len(s) <= SNAPSHOT_CAP => Capped(s) = s
  BY <1>2, <1>4, SubSeqFull
<1>8. Len(Capped(s)) > 0 /\ Len(Capped(s)) <= SNAPSHOT_CAP
  BY <1>1, <1>2, <1>3, <1>6
<1>9. Capped(s) # <<>>
  BY <1>8, EmptySeq
<1> QED BY <1>6, <1>7, <1>8, <1>9

LEMMA SkillStarts == SkillInit => SkillInv
<1> SUFFICES ASSUME SkillInit PROVE SkillInv OBVIOUS
<1>1. writer = NoWriter /\ reverter = NoReverter /\ body = 0 /\ bodies = 0 /\ snapshots = <<>>
      /\ lossy = FALSE /\ writable = TRUE
  BY DEF SkillInit
<1>2. <<>> \in Seq(Bodies)
  BY EmptySeq
<1>3. SkillTypes
  BY <1>1, <1>2, NoneUnderWay DEF SkillTypes
<1>4. NothingInBetween /\ FirstIsInstalled
  BY <1>1, NoneUnderWay DEF NothingInBetween, FirstIsInstalled
<1> QED BY <1>3, <1>4 DEF SkillInv

\* What is kept when a body is replaced: the installed body stays the oldest,
\* unless the cap pushes it out.
LEMMA KeptTyped ==
    ASSUME SkillTypes
    PROVE  /\ Kept \in Seq(Bodies) /\ Kept # <<>> /\ Len(Kept) <= SNAPSHOT_CAP
           /\ Len(writer.kept) < SNAPSHOT_CAP => Kept = Append(writer.kept, writer.old)
<1> DEFINE s == Append(writer.kept, writer.old)
<1>1. s \in Seq(Bodies) /\ Len(s) = Len(writer.kept) + 1 /\ s # <<>> /\ Len(writer.kept) \in Nat
  <2>1. writer.kept \in Seq(Bodies) /\ writer.old \in Bodies
    BY DEF SkillTypes
  <2> QED BY <2>1, AppendProperties, LenProperties
<1>2. Len(s) <= SNAPSHOT_CAP + 1 /\ SNAPSHOT_CAP \in Nat
  BY <1>1, SkillRevisionAssumption DEF SkillTypes
<1> HIDE DEF s
<1>3. Kept = Capped(s)
  BY DEF Kept, s
<1>4. /\ Capped(s) \in Seq(Bodies) /\ Capped(s) # <<>> /\ Len(Capped(s)) <= SNAPSHOT_CAP
      /\ Len(s) <= SNAPSHOT_CAP => Capped(s) = s
  BY <1>1, <1>2, CapKeepsEnd
<1>5. Len(writer.kept) < SNAPSHOT_CAP => Len(s) <= SNAPSHOT_CAP
  BY <1>1, <1>2
<1> QED BY <1>3, <1>4, <1>5 DEF s

\* A write begins.
LEMMA WriteStartsKeeps == ASSUME SkillInv, WriteStarts PROVE SkillInv'
<1>1. /\ writer' = [pc |-> "snapshot", old |-> body, kept |-> snapshots]
      /\ lossy' = (lossy \/ reverter.pc # "none")
      /\ UNCHANGED <<body, snapshots, writable, reverter, bodies>> /\ bodies < MaxBodies
  BY DEF WriteStarts
<1>2. SkillTypes'
  <2>1. bodies + 1 \in Bodies
    BY <1>1, SkillRevisionAssumption DEF SkillInv, SkillTypes, Bodies
  <2> QED BY <1>1, <2>1 DEF SkillInv, SkillTypes
<1>3. NothingInBetween' /\ FirstIsInstalled'
  BY <1>1 DEF SkillInv, SkillTypes, NothingInBetween, FirstIsInstalled
<1> QED BY <1>2, <1>3 DEF SkillInv

\* It keeps the old body, and then writes the new one.
LEMMA WriteGoesOnKeeps == ASSUME SkillInv, WriteGoesOn PROVE SkillInv'
<1>1. UNCHANGED <<reverter, writable>>
  BY DEF WriteGoesOn
<1>2. CASE writer.pc = "snapshot"
  <2>1. /\ snapshots' = Kept /\ lossy' = (lossy \/ PushesOutTheFirst)
        /\ writer' = [writer EXCEPT !.pc = "write"] /\ UNCHANGED <<body, bodies>>
    BY <1>2 DEF WriteGoesOn, SnapshotThenWrite
  <2>2. /\ Kept \in Seq(Bodies) /\ Kept # <<>> /\ Len(Kept) <= SNAPSHOT_CAP
        /\ Len(writer.kept) < SNAPSHOT_CAP => Kept = Append(writer.kept, writer.old)
    BY KeptTyped DEF SkillInv
  <2>3. SkillTypes'
    BY <1>1, <1>2, <2>1, <2>2 DEF SkillInv, SkillTypes
  <2>4. NothingInBetween'
    BY <1>1, <1>2, <2>1, <2>2 DEF SkillInv, SkillTypes, NothingInBetween
  <2>5. ~lossy' => Kept[1] = 0
    <3> SUFFICES ASSUME ~lossy' PROVE Kept[1] = 0 OBVIOUS
    <3>1. ~lossy /\ writer.kept = snapshots /\ writer.old = body /\ reverter.pc = "none"
          /\ ~PushesOutTheFirst
      BY <1>2, <2>1 DEF SkillInv, NothingInBetween
    <3>2. snapshots \in Seq(Bodies) /\ body \in Bodies /\ Len(snapshots) \in Nat
          /\ Len(snapshots) <= SNAPSHOT_CAP /\ SNAPSHOT_CAP \in Nat /\ SNAPSHOT_CAP > 0
      BY SkillRevisionAssumption, LenProperties DEF SkillInv, SkillTypes
    <3>3. CASE snapshots = <<>>
      <4>1. body = 0 /\ Len(snapshots) = 0
        BY <3>1, <3>3, EmptySeq DEF SkillInv, FirstIsInstalled
      <4> QED BY <2>2, <3>1, <3>2, <4>1, AppendProperties
    <3>4. CASE snapshots # <<>>
      <4>1. snapshots[1] = 0 /\ Len(snapshots) > 0
        BY <3>1, <3>2, <3>4, EmptySeq DEF SkillInv, FirstIsInstalled
      <4>2. Len(snapshots) < SNAPSHOT_CAP
        BY <3>1, <3>2, <4>1 DEF PushesOutTheFirst
      <4> QED BY <2>2, <3>1, <3>2, <4>1, <4>2, AppendProperties
    <3> QED BY <3>3, <3>4
  <2>6. FirstIsInstalled'
    BY <2>1, <2>2, <2>5 DEF FirstIsInstalled
  <2> QED BY <2>3, <2>4, <2>6 DEF SkillInv
<1>3. CASE writer.pc = "write"
  <2>1. /\ body' = bodies + 1 /\ bodies' = bodies + 1 /\ writer' = NoWriter
        /\ UNCHANGED <<snapshots, lossy>>
    BY <1>3 DEF WriteGoesOn, SnapshotThenWrite
  <2>3. SkillTypes'
    <3>1. body' \in Bodies /\ bodies' \in Bodies
      BY <1>3, <2>1 DEF SkillInv, SkillTypes
    <3> QED BY <1>1, <2>1, <3>1, NoneUnderWay DEF SkillInv, SkillTypes
  <2>4. NothingInBetween' /\ FirstIsInstalled'
    BY <1>1, <1>3, <2>1, NoneUnderWay DEF SkillInv, NothingInBetween, FirstIsInstalled
  <2> QED BY <2>3, <2>4 DEF SkillInv
<1> QED BY <1>2, <1>3 DEF WriteGoesOn, SnapshotThenWrite

\* All but the last of the snapshots.
LEMMA FrontTyped ==
    ASSUME NEW s \in Seq(Bodies), s # <<>>
    PROVE  /\ Front(s) \in Seq(Bodies) /\ Len(Front(s)) = Len(s) - 1 /\ Last(s) \in Bodies
           /\ Front(s) # <<>> => Front(s)[1] = s[1]
           /\ Front(s) = <<>> => Last(s) = s[1]
<1>1. Len(s) \in Nat \ {0}
  BY EmptySeq
<1>2. \A i \in 1 .. Len(s) : s[i] \in Bodies
  BY ElementOfSeq
<1>3. /\ Front(s) \in Seq(Bodies) /\ Len(Front(s)) = Len(s) - 1
      /\ \A i \in 1 .. Len(s) - 1 : Front(s)[i] = s[i]
  <2> DEFINE last == Len(s) - 1
  <2>1. last \in Nat /\ 1 <= last + 1 /\ \A i \in 1 .. last : s[i] \in Bodies
    BY <1>1, <1>2
  <2>2. Front(s) = SubSeq(s, 1, last)
    BY DEF Front
  <2> HIDE DEF last
  <2>3. /\ SubSeq(s, 1, last) \in Seq(Bodies) /\ Len(SubSeq(s, 1, last)) = last
        /\ \A i \in 1 .. last : SubSeq(s, 1, last)[i] = s[1 + i - 1]
    BY <2>1, SubSeqProperties
  <2>4. \A i \in 1 .. last : 1 + i - 1 = i
    BY <2>1
  <2> QED BY <2>2, <2>3, <2>4 DEF last
<1>4. Front(s) = <<>> => Len(s) = 1
  BY <1>1, <1>3, EmptySeq
<1>5. Front(s) # <<>> => Len(s) > 1
  BY <1>1, <1>3, EmptySeq
<1> QED BY <1>1, <1>2, <1>3, <1>4, <1>5 DEF Last

\* The operator's revert.
LEMMA RevertKeeps ==
    ASSUME SkillInv, RevertReads \/ RevertPops \/ RevertWrites
    PROVE  SkillInv'
<1>1. CASE RevertReads
  <2>1. snapshots \in Seq(Bodies) /\ snapshots # <<>> /\ Len(snapshots) \in Nat
        /\ Len(snapshots) <= SNAPSHOT_CAP
    BY <1>1, EmptySeq, LenProperties DEF RevertReads, SkillInv, SkillTypes
  <2>2. /\ reverter' = [pc |-> "pop", kept |-> Front(snapshots), restores |-> Last(snapshots)]
        /\ lossy' = (lossy \/ writer.pc # "none") /\ reverter.pc = "none"
        /\ UNCHANGED <<body, snapshots, writable, writer, bodies>>
    BY <1>1 DEF RevertReads
  <2>3. Front(snapshots) \in Seq(Bodies) /\ Last(snapshots) \in Bodies
        /\ Len(Front(snapshots)) = Len(snapshots) - 1
    BY <2>1, FrontTyped
  <2>4. SNAPSHOT_CAP \in Nat
    BY SkillRevisionAssumption
  <2>5. SkillTypes'
    BY <2>1, <2>2, <2>3, <2>4 DEF SkillInv, SkillTypes
  <2>6. NothingInBetween' /\ FirstIsInstalled'
    BY <2>1, <2>2 DEF SkillInv, SkillTypes, NothingInBetween, FirstIsInstalled
  <2> QED BY <2>5, <2>6 DEF SkillInv
<1>2. CASE RevertPops
  <2>1. /\ snapshots' = reverter.kept /\ reverter' = [reverter EXCEPT !.pc = "write"]
        /\ reverter.pc = "pop" /\ UNCHANGED <<body, writable, writer, bodies, lossy>>
    BY <1>2 DEF RevertPops
  <2>2. SkillTypes'
    BY <2>1 DEF SkillInv, SkillTypes
  <2>3. reverter'.pc = "write" /\ reverter'.restores = reverter.restores
    BY <2>1 DEF SkillInv, SkillTypes
  <2>4. NothingInBetween'
    BY <2>1, <2>3 DEF SkillInv, NothingInBetween
  <2>5. FirstIsInstalled'
    <3> SUFFICES ASSUME ~lossy
                 PROVE  /\ reverter.kept # <<>> => reverter.kept[1] = 0
                        /\ reverter.kept = <<>> => reverter.restores = 0
      BY <2>1, <2>3 DEF FirstIsInstalled
    <3>1. snapshots # <<>> /\ reverter.kept = Front(snapshots) /\ snapshots \in Seq(Bodies)
          /\ reverter.restores = Last(snapshots) /\ snapshots[1] = 0
      BY <2>1 DEF SkillInv, SkillTypes, NothingInBetween, FirstIsInstalled
    <3> QED BY <3>1, FrontTyped
  <2> QED BY <2>2, <2>4, <2>5 DEF SkillInv
<1>3. CASE RevertWrites
  <2>1. /\ body' = reverter.restores /\ reverter' = NoReverter /\ reverter.pc = "write"
        /\ UNCHANGED <<snapshots, writable, writer, bodies, lossy>>
    BY <1>3 DEF RevertWrites
  <2>3. SkillTypes'
    BY <2>1, NoneUnderWay DEF SkillInv, SkillTypes
  <2>4. NothingInBetween' /\ FirstIsInstalled'
    BY <2>1, NoneUnderWay DEF SkillInv, NothingInBetween, FirstIsInstalled
  <2> QED BY <2>3, <2>4 DEF SkillInv
<1> QED BY <1>1, <1>2, <1>3

LEMMA SkillStepKeeps == SkillInv /\ [SkillNext]_skillVars => SkillInv'
<1> SUFFICES ASSUME SkillInv, [SkillNext]_skillVars PROVE SkillInv' OBVIOUS
<1>1. CASE ManifestChanges \/ UNCHANGED skillVars
  BY <1>1 DEF ManifestChanges, skillVars, SkillInv, SkillTypes, NothingInBetween, FirstIsInstalled
<1>2. CASE SkillProcessStops
  <2>1. /\ lossy' = (lossy \/ reverter.pc = "write") /\ writer' = NoWriter /\ reverter' = NoReverter
        /\ UNCHANGED <<body, snapshots, writable, bodies>>
    BY <1>2 DEF SkillProcessStops
  <2>3. SkillTypes'
    BY <2>1, NoneUnderWay DEF SkillInv, SkillTypes
  <2>4. NothingInBetween' /\ FirstIsInstalled'
    BY <2>1, NoneUnderWay DEF SkillInv, NothingInBetween, FirstIsInstalled
  <2> QED BY <2>3, <2>4 DEF SkillInv
<1> QED BY <1>1, <1>2, WriteStartsKeeps, WriteGoesOnKeeps, RevertKeeps DEF SkillNext

\* The types of a skill's stores: however often it is rewritten and reverted,
\* no more bodies are kept of it than the cap allows.
THEOREM SkillKeepsTypes == SkillSpec => []SkillTypeOK
<1>1. SkillInv => SkillTypeOK
  <2> SUFFICES ASSUME SkillInv PROVE SkillTypeOK OBVIOUS
  <2>1. SkillTypes
    BY DEF SkillInv
  <2>2. ToSet(snapshots) \subseteq Bodies
    <3>1. \A i \in 1 .. Len(snapshots) : snapshots[i] \in Bodies
      BY <2>1, ElementOfSeq DEF SkillTypes
    <3>2. DOMAIN snapshots = 1 .. Len(snapshots)
      BY <2>1, LenProperties DEF SkillTypes
    <3> QED BY <3>1, <3>2 DEF ToSet
  <2> QED BY <2>1, <2>2 DEF SkillTypes, SkillTypeOK, Bodies
<1> QED BY <1>1, SkillStarts, SkillStepKeeps, PTL DEF SkillSpec

\* writeSkillGuarded(), revertSkill(): however often the model rewrites a skill
\* and the operator reverts it, and wherever the process stops, the installed
\* body can be had back until a cut-off revert, an overlap or the cap loses it.
THEOREM InstalledBodyStays == SkillSpec => []InstalledBodyIsKept
<1>1. SkillInv => InstalledBodyIsKept
  <2> SUFFICES ASSUME SkillInv, ~lossy, body # 0, ~(reverter.pc = "write" /\ reverter.restores = 0)
               PROVE  0 \in ToSet(snapshots)
    BY DEF InstalledBodyIsKept
  <2>1. snapshots # <<>> /\ snapshots[1] = 0 /\ snapshots \in Seq(Bodies)
    BY DEF SkillInv, SkillTypes, FirstIsInstalled
  <2>2. 1 \in DOMAIN snapshots
    BY <2>1, EmptySeq, LenProperties
  <2> QED BY <2>1, <2>2 DEF ToSet
<1> QED BY <1>1, SkillStarts, SkillStepKeeps, PTL DEF SkillSpec

-----------------------------------------------------------------------------
(* PluginLifecycle                                                         *)

Releases == 0 .. MaxRelease

Rows == [row : BOOLEAN, active : BOOLEAN, version : Releases, checksum : Releases, git : BOOLEAN]
Places == {"none", "create", "scan", "pull", "version", "audit", "checksum", "smoke", "off"}
Calls == [pc : Places, plugin : Plugins \cup {"none"}, was : Rows, next : Releases]

LifecycleTypes ==
    /\ plugin \in [Plugins -> Rows]
    /\ directory \in [Plugins -> Releases] /\ release \in [Plugins -> Releases]
    /\ request \in [Requests -> Calls]
    /\ \A r \in Requests : request[r].pc # "none" => request[r].plugin \in Plugins
    /\ compared \in [Plugins -> SUBSET Releases]

\* A plugin is active with a row only, and a deactivation under way was let
\* pass because nobody else depended on the plugin; who came to depend on it
\* since is bereft.
DependentsKnown ==
    /\ \A p \in Plugins : plugin[p].active => plugin[p].row
    /\ \A r \in Requests : request[r].pc = "off" =>
         \A p \in Plugins :
           p # request[r].plugin /\ plugin[p].active /\ request[r].plugin \in Requires[p]
             => p \in bereft

\* An update that is about to write a checksum has compared it.
WrittenIsCompared ==
    \A r \in Requests : request[r].pc = "checksum" => request[r].next \in compared[request[r].plugin]

LifecycleInv ==
    /\ LifecycleTypes
    /\ DependentsKnown /\ RequirementsStay
    /\ WrittenIsCompared /\ ContentChangeIsAudited

\* The first releases there are.
LEMMA FirstReleases == 0 \in Releases /\ 1 \in Releases
BY LifecycleAssumption DEF Releases

LEMMA NoRowTyped ==
    /\ NoPlugin \in Rows /\ ~NoPlugin.row /\ ~NoPlugin.active /\ NoPlugin.checksum = 0
    /\ NoRequest \in Calls /\ NoRequest.pc = "none"
    /\ \A v \in Releases :
         /\ Registered(v) \in Rows /\ Registered(v).row /\ ~Registered(v).active
         /\ Registered(v).checksum = 0
<1>1. NoPlugin \in Rows /\ ~NoPlugin.row /\ ~NoPlugin.active /\ NoPlugin.checksum = 0
  BY FirstReleases DEF NoPlugin, Rows
<1>2. NoRequest \in Calls /\ NoRequest.pc = "none"
  <2>1. NoPlugin \in Rows /\ 0 \in Releases
    BY <1>1, FirstReleases
  <2>2. "none" \in Places /\ "none" \in Plugins \cup {"none"}
    BY DEF Places
  <2> QED BY <2>1, <2>2 DEF NoRequest, Calls
<1>3. \A v \in Releases :
        /\ Registered(v) \in Rows /\ Registered(v).row /\ ~Registered(v).active
        /\ Registered(v).checksum = 0
  BY FirstReleases DEF Registered, NoPlugin, Rows
<1> QED BY <1>1, <1>2, <1>3

LEMMA LifecycleStarts == LifecycleInit => LifecycleInv
<1> SUFFICES ASSUME LifecycleInit PROVE LifecycleInv OBVIOUS
<1>1. \A p \in Plugins : /\ plugin[p] \in Rows /\ ~plugin[p].active /\ plugin[p].checksum = 0
                         /\ plugin[p] = IF p \in Bundled THEN Registered(1) ELSE NoPlugin
  BY NoRowTyped, FirstReleases DEF LifecycleInit
<1>2. \A r \in Requests : request[r] = NoRequest
  BY DEF LifecycleInit
<1>3. LifecycleTypes
  BY <1>1, <1>2, NoRowTyped, FirstReleases DEF LifecycleInit, LifecycleTypes
<1> QED BY <1>1, <1>2, <1>3, NoRowTyped
        DEF LifecycleInv, DependentsKnown, RequirementsStay, WrittenIsCompared, ContentChangeIsAudited

\* Nothing is lost by a step in which no plugin becomes active or inactive, no
\* row goes, no deactivation is let pass, and what is compared only grows.
LEMMA QuietStepKeeps ==
    ASSUME LifecycleInv, LifecycleTypes', bereft' = bereft,
           \A p \in Plugins : /\ plugin'[p].active = plugin[p].active
                              /\ plugin[p].row => plugin'[p].row
                              /\ compared[p] \subseteq compared'[p]
                              /\ plugin'[p].checksum = plugin[p].checksum
                                   \/ plugin'[p].checksum \in compared'[p] \cup {0},
           \A r \in Requests : /\ request'[r].pc = "off" => request'[r] = request[r]
                               /\ request'[r].pc = "checksum" =>
                                    \/ request'[r] = request[r]
                                    \/ request'[r].next \in compared'[request'[r].plugin]
    PROVE  LifecycleInv'
<1>1. DependentsKnown'
  BY DEF LifecycleInv, DependentsKnown
<1>2. RequirementsStay'
  <2> SUFFICES ASSUME NEW p \in Plugins, plugin'[p].active, p \notin bereft, NEW q \in Requires[p]
               PROVE  plugin'[q].active
    BY DEF RequirementsStay
  <2>1. plugin[p].active
    OBVIOUS
  <2>2. plugin[q].active
    BY <2>1 DEF LifecycleInv, RequirementsStay
  <2>3. q \in Plugins
    BY LifecycleAssumption
  <2> QED BY <2>2, <2>3
<1>3. WrittenIsCompared'
  <2> SUFFICES ASSUME NEW r \in Requests, request'[r].pc = "checksum"
               PROVE  request'[r].next \in compared'[request'[r].plugin]
    BY DEF WrittenIsCompared
  <2>1. CASE request'[r] = request[r]
    <3>1. request[r].pc = "checksum" /\ request[r].next \in compared[request[r].plugin]
      BY <2>1 DEF LifecycleInv, WrittenIsCompared
    <3>2. request[r].plugin \in Plugins
      BY <3>1 DEF LifecycleInv, LifecycleTypes
    <3> QED BY <2>1, <3>1, <3>2
  <2> QED BY <2>1
<1>4. ContentChangeIsAudited'
  BY DEF LifecycleInv, ContentChangeIsAudited
<1> QED BY <1>1, <1>2, <1>3, <1>4 DEF LifecycleInv

\* A request that moves on keeps its plugin and what it has read; one that is
\* taken up knows the row as it is.
LEMMA RequestTyped ==
    ASSUME LifecycleTypes, NEW r \in Requests
    PROVE  /\ GiveUp(r) => /\ request' \in [Requests -> Calls] /\ request'[r].pc = "none"
                           /\ \A q \in Requests \ {r} : request'[q] = request[q]
           /\ \A pc \in Places : GoOn(r, pc) =>
                /\ request' \in [Requests -> Calls]
                /\ request'[r].pc = pc /\ request'[r].plugin = request[r].plugin
                /\ request'[r].next = request[r].next
                /\ \A q \in Requests \ {r} : request'[q] = request[q]
           /\ \A pc \in Places, p \in Plugins : TakeUp(r, p, pc) =>
                /\ request' \in [Requests -> Calls]
                /\ request'[r].pc = pc /\ request'[r].plugin = p
                /\ \A q \in Requests \ {r} : request'[q] = request[q]
<1>1. request \in [Requests -> Calls] /\ plugin \in [Plugins -> Rows] /\ request[r] \in Calls
  BY DEF LifecycleTypes
<1>2. GiveUp(r) => /\ request' \in [Requests -> Calls] /\ request'[r].pc = "none"
                   /\ \A q \in Requests \ {r} : request'[q] = request[q]
  BY <1>1, NoRowTyped DEF GiveUp
<1>3. ASSUME NEW pc \in Places, GoOn(r, pc)
      PROVE  /\ request' \in [Requests -> Calls]
             /\ request'[r].pc = pc /\ request'[r].plugin = request[r].plugin
             /\ request'[r].next = request[r].next
             /\ \A q \in Requests \ {r} : request'[q] = request[q]
  <2> DEFINE moved == [request[r] EXCEPT !.pc = pc]
  <2>1. moved \in Calls /\ moved.pc = pc /\ moved.plugin = request[r].plugin
        /\ moved.next = request[r].next
    BY <1>1 DEF Calls
  <2>2. request' = [request EXCEPT ![r] = moved]
    BY <1>3 DEF GoOn
  <2> HIDE DEF moved
  <2> QED BY <1>1, <2>1, <2>2
<1>4. ASSUME NEW pc \in Places, NEW p \in Plugins, TakeUp(r, p, pc)
      PROVE  /\ request' \in [Requests -> Calls]
             /\ request'[r].pc = pc /\ request'[r].plugin = p
             /\ \A q \in Requests \ {r} : request'[q] = request[q]
  <2> DEFINE taken == [pc |-> pc, plugin |-> p, was |-> plugin[p], next |-> 0]
  <2>1. taken \in Calls /\ taken.pc = pc /\ taken.plugin = p
    BY <1>1, FirstReleases DEF Calls
  <2>2. request' = [request EXCEPT ![r] = taken]
    BY <1>4 DEF TakeUp
  <2> HIDE DEF taken
  <2> QED BY <1>1, <2>1, <2>2
<1> QED BY <1>2, <1>3, <1>4

\* A row that is written changes the activity and the checksum of no other.
LEMMA RowTyped ==
    ASSUME LifecycleTypes, NEW p \in Plugins, NEW given \in Rows,
           plugin' = [plugin EXCEPT ![p] = given]
    PROVE  /\ plugin' \in [Plugins -> Rows] /\ plugin'[p] = given
           /\ \A q \in Plugins : q # p => plugin'[q] = plugin[q]
BY DEF LifecycleTypes

\* install().
LEMMA InstallKeeps ==
    ASSUME LifecycleInv, NEW r \in Requests,
           InstallClones(r) \/ InstallCreates(r) \/ InstallRecords(r)
    PROVE  LifecycleInv'
<1>0. LifecycleTypes /\ \A p \in Plugins : plugin[p] \in Rows /\ directory[p] \in Releases /\ release[p] \in Releases
                                           /\ (plugin[p].active => plugin[p].row)
  BY DEF LifecycleInv, LifecycleTypes, DependentsKnown
<1>1. CASE InstallClones(r)
  <2>1. PICK p \in Plugins : directory' = [directory EXCEPT ![p] = release[p]] /\ TakeUp(r, p, "create")
    BY <1>1 DEF InstallClones
  <2>2. UNCHANGED <<release, plugin, compared, bereft>>
    BY <1>1 DEF InstallClones
  <2>3. /\ request' \in [Requests -> Calls] /\ request'[r].pc = "create" /\ request'[r].plugin = p
        /\ \A q \in Requests \ {r} : request'[q] = request[q]
    BY <1>0, <2>1, RequestTyped DEF Places
  <2>4. LifecycleTypes'
    BY <1>0, <2>1, <2>2, <2>3 DEF LifecycleTypes
  <2> QED BY <2>2, <2>3, <2>4, QuietStepKeeps
<1>2. CASE InstallCreates(r)
  <2> DEFINE p == request[r].plugin
             made == [Registered(directory[p]) EXCEPT !.git = TRUE]
  <2>1. UNCHANGED <<release, directory, compared, bereft>> /\ request[r].pc = "create"
    BY <1>2 DEF InstallCreates, RequestAt
  <2>2. p \in Plugins
    BY <1>0, <2>1 DEF LifecycleTypes
  <2>3. CASE GiveUp(r) /\ UNCHANGED plugin
    <3>1. /\ request' \in [Requests -> Calls] /\ request'[r].pc = "none"
          /\ \A q \in Requests \ {r} : request'[q] = request[q]
      BY <1>0, <2>3, RequestTyped
    <3>2. LifecycleTypes'
      BY <1>0, <2>1, <2>3, <3>1 DEF LifecycleTypes
    <3> QED BY <2>1, <2>3, <3>1, <3>2, QuietStepKeeps
  <2>4. CASE ~plugin[p].row /\ plugin' = [plugin EXCEPT ![p] = made] /\ GoOn(r, "scan")
    <3>1. made \in Rows /\ made.row /\ ~made.active /\ made.checksum = 0
      BY <1>0, <2>2, NoRowTyped DEF Rows
    <3>2. /\ plugin' \in [Plugins -> Rows] /\ plugin'[p] = made
          /\ \A q \in Plugins : q # p => plugin'[q] = plugin[q]
      BY <1>0, <2>2, <2>4, <3>1, RowTyped
    <3>3. /\ request' \in [Requests -> Calls]
          /\ request'[r].pc = "scan" /\ request'[r].plugin = p
          /\ \A q \in Requests \ {r} : request'[q] = request[q]
      BY <1>0, <2>4, RequestTyped DEF Places
    <3>4. LifecycleTypes'
      BY <1>0, <2>1, <2>2, <3>2, <3>3 DEF LifecycleTypes
    <3>5. \A q \in Plugins : /\ plugin'[q].active = plugin[q].active /\ (plugin[q].row => plugin'[q].row)
                             /\ plugin'[q].checksum = plugin[q].checksum \/ plugin'[q].checksum = 0
      <4> HIDE DEF made, p
      <4> TAKE q \in Plugins
      <4>1. CASE q # p
        BY <3>2, <4>1
      <4>2. CASE q = p
        <5>1. plugin'[q] = made /\ ~plugin[q].row /\ ~plugin[q].active
          BY <1>0, <2>4, <3>2, <4>2
        <5>2. plugin[q].active \in BOOLEAN /\ made.active \in BOOLEAN
          BY <1>0, <3>1 DEF Rows
        <5> QED BY <3>1, <5>1, <5>2
      <4> QED BY <4>1, <4>2
    <3> QED BY <2>1, <3>3, <3>4, <3>5, QuietStepKeeps
  <2> QED BY <1>2, <2>3, <2>4 DEF InstallCreates
<1>3. CASE InstallRecords(r)
  <2> DEFINE p == request[r].plugin
             summed == [plugin[p] EXCEPT !.checksum = directory[p]]
  <2>1. UNCHANGED <<release, directory, bereft>> /\ request[r].pc = "scan" /\ GiveUp(r)
    BY <1>3 DEF InstallRecords, RequestAt
  <2>2. p \in Plugins
    BY <1>0, <2>1 DEF LifecycleTypes
  <2>3. /\ request' \in [Requests -> Calls] /\ request'[r].pc = "none"
        /\ \A q \in Requests \ {r} : request'[q] = request[q]
    BY <1>0, <2>1, RequestTyped
  <2>4. CASE UNCHANGED <<plugin, compared>>
    <3>1. LifecycleTypes'
      BY <1>0, <2>1, <2>3, <2>4 DEF LifecycleTypes
    <3> QED BY <2>1, <2>3, <2>4, <3>1, QuietStepKeeps
  <2>5. CASE /\ plugin' = [plugin EXCEPT ![p] = summed]
             /\ compared' = [compared EXCEPT ![p] = @ \cup {directory[p]}]
    <3>1. summed \in Rows /\ summed.row = plugin[p].row /\ summed.active = plugin[p].active
          /\ summed.checksum = directory[p]
      BY <1>0, <2>2 DEF Rows
    <3>2. /\ plugin' \in [Plugins -> Rows] /\ plugin'[p] = summed
          /\ \A q \in Plugins : q # p => plugin'[q] = plugin[q]
      BY <1>0, <2>2, <2>5, <3>1, RowTyped
    <3>3. compared' \in [Plugins -> SUBSET Releases] /\ directory[p] \in compared'[p]
          /\ \A q \in Plugins : compared[q] \subseteq compared'[q]
      BY <1>0, <2>2, <2>5 DEF LifecycleTypes
    <3>4. LifecycleTypes'
      BY <1>0, <2>1, <2>3, <3>2, <3>3 DEF LifecycleTypes
    <3> HIDE DEF summed, p
    <3> QED BY <2>1, <2>3, <3>1, <3>2, <3>3, <3>4, QuietStepKeeps
  <2> QED BY <1>3, <2>4, <2>5 DEF InstallRecords
<1> QED BY <1>1, <1>2, <1>3

\* update().
LEMMA UpdateKeeps ==
    ASSUME LifecycleInv, NEW r \in Requests,
           \/ UpdateReads(r) \/ UpdatePulls(r) \/ UpdateRenames(r)
           \/ UpdateAudits(r) \/ UpdateRecords(r)
    PROVE  LifecycleInv'
<1>0. LifecycleTypes /\ request[r] \in Calls
      /\ \A p \in Plugins : plugin[p] \in Rows /\ directory[p] \in Releases /\ release[p] \in Releases
  BY DEF LifecycleInv, LifecycleTypes
<1>1. CASE UpdateReads(r)
  <2>1. PICK p \in Plugins : TakeUp(r, p, "pull")
    BY <1>1 DEF UpdateReads
  <2>2. UNCHANGED <<release, directory, plugin, compared, bereft>>
    BY <1>1 DEF UpdateReads
  <2>3. /\ request' \in [Requests -> Calls] /\ request'[r].pc = "pull" /\ request'[r].plugin = p
        /\ \A q \in Requests \ {r} : request'[q] = request[q]
    BY <1>0, <2>1, RequestTyped DEF Places
  <2>4. LifecycleTypes'
    BY <1>0, <2>2, <2>3 DEF LifecycleTypes
  <2> QED BY <2>2, <2>3, <2>4, QuietStepKeeps
<1> DEFINE p == request[r].plugin
<1>p. request[r].pc # "none" => p \in Plugins
  BY <1>0 DEF LifecycleTypes
<1>2. CASE UpdatePulls(r)
  <2>1. UNCHANGED <<release, plugin, compared, bereft>> /\ request[r].pc = "pull" /\ p \in Plugins
    BY <1>2, <1>p DEF UpdatePulls, RequestAt
  <2>2. directory' \in [Plugins -> Releases] /\ directory'[p] \in Releases
    BY <1>0, <1>2, <2>1 DEF UpdatePulls, LifecycleTypes
  <2> DEFINE pulled == [request[r] EXCEPT !.pc = "version", !.next = directory'[p]]
  <2>3. pulled \in Calls /\ pulled.pc = "version" /\ pulled.plugin = p
    BY <1>0, <2>2 DEF Calls, Places
  <2>4. GiveUp(r) \/ request' = [request EXCEPT ![r] = pulled]
    BY <1>2 DEF UpdatePulls
  <2>5. CASE GiveUp(r)
    <3>1. /\ request' \in [Requests -> Calls] /\ request'[r].pc = "none"
          /\ \A q \in Requests \ {r} : request'[q] = request[q]
      BY <1>0, <2>5, RequestTyped
    <3>2. LifecycleTypes'
      BY <1>0, <2>1, <2>2, <3>1 DEF LifecycleTypes
    <3> QED BY <2>1, <3>1, <3>2, QuietStepKeeps
  <2>6. CASE request' = [request EXCEPT ![r] = pulled]
    <3> HIDE DEF pulled, p
    <3>1. /\ request' \in [Requests -> Calls] /\ request'[r] = pulled
          /\ \A q \in Requests \ {r} : request'[q] = request[q]
      BY <1>0, <2>3, <2>6 DEF LifecycleTypes
    <3>2. LifecycleTypes'
      BY <1>0, <2>1, <2>2, <2>3, <3>1 DEF LifecycleTypes
    <3> QED BY <2>1, <2>3, <3>1, <3>2, QuietStepKeeps
  <2> QED BY <2>4, <2>5, <2>6
<1>3. CASE UpdateRenames(r)
  <2>1. UNCHANGED <<release, directory, compared, bereft>> /\ request[r].pc = "version" /\ p \in Plugins
    BY <1>3, <1>p DEF UpdateRenames, RequestAt
  <2> DEFINE renamed == [plugin[p] EXCEPT !.version = request[r].next]
             summed == [request[r] EXCEPT !.pc = "audit", !.next = directory[p]]
  <2>2. CASE GiveUp(r) /\ UNCHANGED plugin
    <3>1. /\ request' \in [Requests -> Calls] /\ request'[r].pc = "none"
          /\ \A q \in Requests \ {r} : request'[q] = request[q]
      BY <1>0, <2>2, RequestTyped
    <3>2. LifecycleTypes'
      BY <1>0, <2>1, <2>2, <3>1 DEF LifecycleTypes
    <3> QED BY <2>1, <2>2, <3>1, <3>2, QuietStepKeeps
  <2>3. CASE plugin' = [plugin EXCEPT ![p] = renamed] /\ request' = [request EXCEPT ![r] = summed]
    <3>1. summed \in Calls /\ summed.pc = "audit" /\ summed.plugin = p
      BY <1>0, <2>1 DEF Calls, Places
    <3>2. renamed \in Rows /\ renamed.row = plugin[p].row /\ renamed.active = plugin[p].active
          /\ renamed.checksum = plugin[p].checksum
      <4>1. request[r].next \in Releases /\ plugin[p] \in Rows
        BY <1>0, <2>1 DEF Calls
      <4> HIDE DEF p
      <4> QED BY <4>1 DEF Rows
    <3> HIDE DEF summed, renamed, p
    <3>3. /\ plugin' \in [Plugins -> Rows] /\ plugin'[p] = renamed
          /\ \A q \in Plugins : q # p => plugin'[q] = plugin[q]
      BY <1>0, <2>1, <2>3, <3>2, RowTyped
    <3>4. /\ request' \in [Requests -> Calls] /\ request'[r] = summed
          /\ \A q \in Requests \ {r} : request'[q] = request[q]
      BY <1>0, <2>3, <3>1 DEF LifecycleTypes
    <3>5. LifecycleTypes'
      BY <1>0, <2>1, <3>1, <3>3, <3>4 DEF LifecycleTypes
    <3> QED BY <2>1, <3>1, <3>2, <3>3, <3>4, <3>5, QuietStepKeeps
  <2> QED BY <1>3, <2>2, <2>3 DEF UpdateRenames
<1>4. CASE UpdateAudits(r)
  <2>1. UNCHANGED <<release, directory, plugin, bereft>> /\ request[r].pc = "audit" /\ p \in Plugins
    BY <1>4, <1>p DEF UpdateAudits, RequestAt
  <2>2. CASE GiveUp(r) /\ UNCHANGED compared
    <3>1. /\ request' \in [Requests -> Calls] /\ request'[r].pc = "none"
          /\ \A q \in Requests \ {r} : request'[q] = request[q]
      BY <1>0, <2>2, RequestTyped
    <3>2. LifecycleTypes'
      BY <1>0, <2>1, <2>2, <3>1 DEF LifecycleTypes
    <3> QED BY <2>1, <2>2, <3>1, <3>2, QuietStepKeeps
  <2>3. CASE compared' = [compared EXCEPT ![p] = @ \cup {request[r].next}] /\ GoOn(r, "checksum")
    <3>1. /\ request' \in [Requests -> Calls]
          /\ request'[r].pc = "checksum" /\ request'[r].plugin = p
          /\ request'[r].next = request[r].next
          /\ \A q \in Requests \ {r} : request'[q] = request[q]
      BY <1>0, <2>3, RequestTyped DEF Places
    <3>2. request[r].next \in Releases
      BY <1>0 DEF Calls
    <3> HIDE DEF p
    <3>3. compared' \in [Plugins -> SUBSET Releases] /\ request[r].next \in compared'[p]
          /\ \A q \in Plugins : compared[q] \subseteq compared'[q]
      BY <1>0, <2>1, <2>3, <3>2 DEF LifecycleTypes
    <3>4. LifecycleTypes'
      BY <1>0, <2>1, <3>1, <3>3 DEF LifecycleTypes
    <3> QED BY <2>1, <3>1, <3>3, <3>4, QuietStepKeeps
  <2> QED BY <1>4, <2>2, <2>3 DEF UpdateAudits
<1>5. CASE UpdateRecords(r)
  <2>1. UNCHANGED <<release, directory, compared, bereft>> /\ request[r].pc = "checksum" /\ p \in Plugins
        /\ GiveUp(r)
    BY <1>5, <1>p DEF UpdateRecords, RequestAt
  <2>2. /\ request' \in [Requests -> Calls] /\ request'[r].pc = "none"
        /\ \A q \in Requests \ {r} : request'[q] = request[q]
    BY <1>0, <2>1, RequestTyped
  <2>3. request[r].next \in compared[p] /\ request[r].next \in Releases
    BY <1>0, <2>1 DEF LifecycleInv, WrittenIsCompared, Calls
  <2> DEFINE summed == [plugin[p] EXCEPT !.checksum = request[r].next]
  <2>4. CASE UNCHANGED plugin
    <3>1. LifecycleTypes'
      BY <1>0, <2>1, <2>2, <2>4 DEF LifecycleTypes
    <3> QED BY <2>1, <2>2, <2>4, <3>1, QuietStepKeeps
  <2>5. CASE plugin' = [plugin EXCEPT ![p] = summed]
    <3>1. summed \in Rows /\ summed.row = plugin[p].row /\ summed.active = plugin[p].active
          /\ summed.checksum = request[r].next
      <4>1. plugin[p] \in Rows
        BY <1>0, <2>1
      <4> HIDE DEF p
      <4> QED BY <2>3, <4>1 DEF Rows
    <3> HIDE DEF summed, p
    <3>2. /\ plugin' \in [Plugins -> Rows] /\ plugin'[p] = summed
          /\ \A q \in Plugins : q # p => plugin'[q] = plugin[q]
      BY <1>0, <2>1, <2>5, <3>1, RowTyped
    <3>3. LifecycleTypes'
      BY <1>0, <2>1, <2>2, <3>2 DEF LifecycleTypes
    <3> QED BY <2>1, <2>2, <2>3, <3>1, <3>2, <3>3, QuietStepKeeps
  <2> QED BY <1>5, <2>4, <2>5 DEF UpdateRecords
<1> QED BY <1>1, <1>2, <1>3, <1>4, <1>5

\* A release, and the sync of a restart.
LEMMA SyncKeeps == ASSUME LifecycleInv, ReleaseComes \/ RestartSyncs PROVE LifecycleInv'
<1>0. LifecycleTypes
  BY DEF LifecycleInv
<1>1. CASE ReleaseComes
  <2>1. UNCHANGED <<directory, plugin, request, compared, bereft>>
    BY <1>1 DEF ReleaseComes
  <2>2. release' \in [Plugins -> Releases]
    <3>1. PICK p \in Plugins : release[p] < MaxRelease /\ release' = [release EXCEPT ![p] = @ + 1]
      BY <1>1 DEF ReleaseComes
    <3>2. release \in [Plugins -> Releases] /\ release[p] \in Releases
      BY <1>0 DEF LifecycleTypes
    <3>3. release[p] + 1 \in Releases
      BY <3>1, <3>2, LifecycleAssumption DEF Releases
    <3> QED BY <3>1, <3>2, <3>3
  <2>3. LifecycleTypes'
    BY <1>0, <2>1, <2>2 DEF LifecycleTypes
  <2> QED BY <2>1, <2>3, QuietStepKeeps
<1>2. CASE RestartSyncs
  <2>1. PICK synced \in SUBSET {p \in Plugins : directory[p] # 0} :
          plugin' = [p \in Plugins |->
             IF p \notin synced THEN plugin[p]
             ELSE IF plugin[p].row THEN [plugin[p] EXCEPT !.version = directory[p]]
             ELSE Registered(directory[p])]
    BY <1>2 DEF RestartSyncs
  <2>2. request' = [r \in Requests |-> NoRequest] /\ UNCHANGED <<release, directory, compared, bereft>>
    BY <1>2 DEF RestartSyncs
  <2>3. ASSUME NEW p \in Plugins
        PROVE  /\ plugin'[p] \in Rows /\ plugin'[p].active = plugin[p].active
               /\ plugin[p].row => plugin'[p].row
               /\ plugin'[p].checksum = plugin[p].checksum \/ plugin'[p].checksum = 0
    <3>1. plugin[p] \in Rows /\ directory[p] \in Releases /\ (plugin[p].active => plugin[p].row)
      BY <1>0 DEF LifecycleTypes, LifecycleInv, DependentsKnown
    <3>2. CASE p \notin synced
      BY <2>1, <3>1, <3>2
    <3>3. CASE p \in synced /\ plugin[p].row
      <4>1. plugin'[p] = [plugin[p] EXCEPT !.version = directory[p]]
        BY <2>1, <3>3
      <4> QED BY <3>1, <3>3, <4>1 DEF Rows
    <3>4. CASE p \in synced /\ ~plugin[p].row
      <4>1. plugin'[p] = Registered(directory[p])
        BY <2>1, <3>4
      <4>2. Registered(directory[p]) \in Rows /\ ~Registered(directory[p]).active
            /\ Registered(directory[p]).checksum = 0
        BY <3>1, NoRowTyped
      <4>3. ~plugin[p].active /\ plugin[p].active \in BOOLEAN /\ Registered(directory[p]).active \in BOOLEAN
        BY <3>1, <3>4, <4>2 DEF Rows
      <4> QED BY <3>4, <4>1, <4>2, <4>3
    <3> QED BY <3>2, <3>3, <3>4
  <2>4. plugin' \in [Plugins -> Rows]
    BY <2>1, <2>3
  <2>5. \A r \in Requests : request'[r] = NoRequest
    BY <2>2
  <2>6. LifecycleTypes'
    BY <1>0, <2>2, <2>4, <2>5, NoRowTyped DEF LifecycleTypes
  <2> QED BY <2>2, <2>3, <2>5, <2>6, NoRowTyped, QuietStepKeeps
<1> QED BY <1>1, <1>2

\* activate(), deactivate() and remove().
LEMMA ActivityKeeps ==
    ASSUME LifecycleInv,
           \/ RemovePlugin
           \/ \E r \in Requests : \/ ActivateChecks(r) \/ ActivateWrites(r)
                                  \/ DeactivateChecks(r) \/ DeactivateWrites(r)
    PROVE  LifecycleInv'
<1>0. LifecycleTypes /\ \A p \in Plugins : /\ plugin[p] \in Rows
                                           /\ plugin[p].active => plugin[p].row
                                           /\ Requires[p] \subseteq Plugins
  BY LifecycleAssumption DEF LifecycleInv, LifecycleTypes, DependentsKnown
<1>1. ASSUME NEW r \in Requests, ActivateChecks(r) PROVE LifecycleInv'
  <2>1. PICK p \in Plugins : TakeUp(r, p, "smoke")
    BY <1>1 DEF ActivateChecks
  <2>2. UNCHANGED <<release, directory, plugin, compared, bereft>>
    BY <1>1 DEF ActivateChecks
  <2>3. /\ request' \in [Requests -> Calls] /\ request'[r].pc = "smoke" /\ request'[r].plugin = p
        /\ \A q \in Requests \ {r} : request'[q] = request[q]
    BY <1>0, <2>1, RequestTyped DEF Places
  <2>4. LifecycleTypes'
    BY <1>0, <2>2, <2>3 DEF LifecycleTypes
  <2> QED BY <2>2, <2>3, <2>4, QuietStepKeeps
<1>2. ASSUME NEW r \in Requests, DeactivateChecks(r) PROVE LifecycleInv'
  <2>1. PICK p \in Plugins : DependentsOf(p) \ {p} = {} /\ TakeUp(r, p, "off")
    BY <1>2 DEF DeactivateChecks
  <2>2. UNCHANGED <<release, directory, plugin, compared, bereft>>
    BY <1>2 DEF DeactivateChecks
  <2>3. /\ request' \in [Requests -> Calls] /\ request'[r].pc = "off" /\ request'[r].plugin = p
        /\ \A q \in Requests \ {r} : request'[q] = request[q]
    BY <1>0, <2>1, RequestTyped DEF Places
  <2>4. LifecycleTypes'
    BY <1>0, <2>2, <2>3 DEF LifecycleTypes
  <2>5. \A q \in Plugins : ~(q # p /\ plugin[q].active /\ p \in Requires[q])
    BY <2>1 DEF DependentsOf
  <2>6. DependentsKnown'
    BY <2>2, <2>3, <2>5 DEF LifecycleInv, DependentsKnown
  <2>7. RequirementsStay' /\ ContentChangeIsAudited'
    BY <2>2 DEF LifecycleInv, RequirementsStay, ContentChangeIsAudited
  <2>8. WrittenIsCompared'
    BY <2>2, <2>3 DEF LifecycleInv, WrittenIsCompared
  <2> QED BY <2>4, <2>6, <2>7, <2>8 DEF LifecycleInv
<1>3. ASSUME NEW r \in Requests, ActivateWrites(r) PROVE LifecycleInv'
  <2> DEFINE p == request[r].plugin
             on == [plugin[p] EXCEPT !.active = TRUE]
  <2>1. UNCHANGED <<release, directory, compared>> /\ request[r].pc = "smoke" /\ GiveUp(r) /\ p \in Plugins
    BY <1>0, <1>3 DEF ActivateWrites, RequestAt, LifecycleTypes
  <2>2. /\ request' \in [Requests -> Calls] /\ request'[r].pc = "none"
        /\ \A q \in Requests \ {r} : request'[q] = request[q]
    BY <1>0, <2>1, RequestTyped
  <2>3. on \in Rows /\ on.row = plugin[p].row /\ on.active = TRUE /\ on.checksum = plugin[p].checksum
    <3>1. plugin[p] \in Rows
      BY <1>0, <2>1
    <3> HIDE DEF p
    <3> QED BY <3>1 DEF Rows
  <2>4. plugin' = IF plugin[p].row THEN [plugin EXCEPT ![p] = on] ELSE plugin
    BY <1>3 DEF ActivateWrites
  <2>5. bereft' = IF MissingFor(p) = {} /\ Requires[p] \cap BeingDeactivated = {}
                  THEN bereft \ {p} ELSE bereft \cup {p}
    BY <1>3 DEF ActivateWrites
  <2> HIDE DEF p, on
  <2>6. /\ plugin' \in [Plugins -> Rows]
        /\ \A q \in Plugins : /\ plugin'[q].row = plugin[q].row
                              /\ plugin'[q].checksum = plugin[q].checksum
                              /\ q # p => plugin'[q] = plugin[q]
        /\ plugin'[p].active => plugin[p].row
    <3>1. CASE plugin[p].row
      <4>1. /\ plugin' \in [Plugins -> Rows] /\ plugin'[p] = on
            /\ \A q \in Plugins : q # p => plugin'[q] = plugin[q]
        BY <1>0, <2>1, <2>3, <2>4, <3>1, RowTyped
      <4> QED BY <2>1, <2>3, <3>1, <4>1
    <3>2. CASE ~plugin[p].row
      <4>1. plugin' = plugin
        BY <2>4, <3>2
      <4> QED BY <1>0, <2>1, <4>1 DEF LifecycleTypes
    <3> QED BY <3>1, <3>2
  <2>7. LifecycleTypes'
    BY <1>0, <2>1, <2>2, <2>6 DEF LifecycleTypes
  <2>8. plugin[p].active => plugin'[p].active
    <3>1. CASE plugin[p].row
      BY <1>0, <2>1, <2>3, <2>4, <3>1, RowTyped
    <3>2. CASE ~plugin[p].row
      BY <1>0, <2>1, <3>2
    <3> QED BY <3>1, <3>2
  <2>9. p \notin bereft' => /\ \A q \in Requires[p] : plugin[q].active
                            /\ \A s \in Requests : request[s].pc = "off" => request[s].plugin \notin Requires[p]
    BY <2>5 DEF MissingFor, BeingDeactivated, RequestAt
  <2>10. \A q \in Plugins : q # p => (q \in bereft' <=> q \in bereft)
    BY <2>5
  <2>11. DependentsKnown'
    <3>1. \A q \in Plugins : plugin'[q].active => plugin'[q].row
      <4> TAKE q \in Plugins
      <4>1. CASE q = p
        BY <2>6, <4>1
      <4>2. CASE q # p
        BY <1>0, <2>6, <4>2
      <4> QED BY <4>1, <4>2
    <3>2. ASSUME NEW s \in Requests, request'[s].pc = "off", NEW q \in Plugins,
                 q # request'[s].plugin, plugin'[q].active, request'[s].plugin \in Requires[q]
          PROVE  q \in bereft'
      <4>1. s # r /\ request'[s] = request[s] /\ request[s].pc = "off"
        BY <2>2, <3>2
      <4>2. CASE q = p
        BY <2>9, <3>2, <4>1, <4>2
      <4>3. CASE q # p
        <5>1. plugin[q].active
          BY <2>6, <3>2, <4>3
        <5>2. q \in bereft
          BY <3>2, <4>1, <5>1 DEF LifecycleInv, DependentsKnown
        <5> QED BY <2>10, <4>3, <5>2
      <4> QED BY <4>2, <4>3
    <3> QED BY <3>1, <3>2 DEF DependentsKnown
  <2>12. \A q \in Plugins : plugin[q].active => plugin'[q].active
    <3> TAKE q \in Plugins
    <3>1. CASE q = p
      BY <2>8, <3>1
    <3>2. CASE q # p
      BY <2>6, <3>2
    <3> QED BY <3>1, <3>2
  <2>13. RequirementsStay'
    <3> SUFFICES ASSUME NEW q \in Plugins, plugin'[q].active, q \notin bereft', NEW s \in Requires[q]
                 PROVE  plugin'[s].active
      BY DEF RequirementsStay
    <3>1. s \in Plugins
      BY <1>0
    <3>2. CASE q = p
      BY <2>9, <2>12, <3>1, <3>2
    <3>3. CASE q # p
      <4>1. plugin[q].active /\ q \notin bereft
        BY <2>6, <2>10, <3>3
      <4>2. plugin[s].active
        BY <4>1 DEF LifecycleInv, RequirementsStay
      <4> QED BY <2>12, <3>1, <4>2
    <3> QED BY <3>2, <3>3
  <2>14. WrittenIsCompared' /\ ContentChangeIsAudited'
    BY <2>1, <2>2, <2>6 DEF LifecycleInv, WrittenIsCompared, ContentChangeIsAudited
  <2> QED BY <2>7, <2>11, <2>13, <2>14 DEF LifecycleInv
\* Whoever depends on a plugin that stops being active is bereft.
<1>4. ASSUME NEW p \in Plugins, LifecycleTypes', ~plugin'[p].active,
             \A q \in Plugins : q # p => plugin'[q] = plugin[q],
             \A q \in Plugins \ {p} : q \in bereft => q \in bereft',
             \A q \in Plugins \ {p} : plugin[q].active /\ p \in Requires[q] => q \in bereft',
             plugin'[p].checksum \in compared'[p] \cup {0}, compared' = compared,
             \A s \in Requests : request'[s] = request[s] \/ request'[s].pc = "none"
      PROVE  LifecycleInv'
  <2>1. DependentsKnown'
    <3>1. \A q \in Plugins : plugin'[q].active => plugin'[q].row
      BY <1>0, <1>4
    <3>2. ASSUME NEW s \in Requests, request'[s].pc = "off", NEW q \in Plugins,
                 q # request'[s].plugin, plugin'[q].active, request'[s].plugin \in Requires[q]
          PROVE  q \in bereft'
      <4>1. request'[s] = request[s] /\ q # p /\ plugin[q].active
        <5>1. q # p
          BY <1>4, <3>2
        <5>2. plugin[q].active
          BY <1>4, <3>2, <5>1
        <5>3. request'[s] = request[s]
          BY <1>4, <3>2
        <5> QED BY <5>1, <5>2, <5>3
      <4>2. q \in bereft
        BY <3>2, <4>1 DEF LifecycleInv, DependentsKnown
      <4> QED BY <1>4, <4>1, <4>2
    <3> QED BY <3>1, <3>2 DEF DependentsKnown
  <2>2. RequirementsStay'
    <3> SUFFICES ASSUME NEW q \in Plugins, plugin'[q].active, q \notin bereft', NEW s \in Requires[q]
                 PROVE  plugin'[s].active
      BY DEF RequirementsStay
    <3>1. q # p
      BY <1>4
    <3>2. plugin[q].active /\ q \notin bereft /\ p \notin Requires[q]
      <4>1. plugin[q].active
        BY <1>4, <3>1
      <4>2. q \notin bereft
        BY <1>4, <3>1
      <4> QED BY <1>4, <3>1, <4>1, <4>2
    <3>3. s \in Plugins /\ s # p /\ plugin[s].active
      BY <1>0, <3>2 DEF LifecycleInv, RequirementsStay
    <3> QED BY <1>4, <3>3
  <2>3. WrittenIsCompared'
    BY <1>4 DEF LifecycleInv, WrittenIsCompared
  <2>4. ContentChangeIsAudited'
    BY <1>4 DEF LifecycleInv, ContentChangeIsAudited
  <2> QED BY <1>4, <2>1, <2>2, <2>3, <2>4 DEF LifecycleInv
<1>5. ASSUME NEW r \in Requests, DeactivateWrites(r) PROVE LifecycleInv'
  <2> DEFINE p == request[r].plugin
             off == [plugin[p] EXCEPT !.active = FALSE]
  <2>1. UNCHANGED <<release, directory, compared, bereft>> /\ request[r].pc = "off" /\ GiveUp(r)
        /\ p \in Plugins /\ plugin' = [plugin EXCEPT ![p] = off]
    BY <1>0, <1>5 DEF DeactivateWrites, RequestAt, LifecycleTypes
  <2>2. /\ request' \in [Requests -> Calls] /\ request'[r].pc = "none"
        /\ \A q \in Requests \ {r} : request'[q] = request[q]
    BY <1>0, <2>1, RequestTyped
  <2>3. off \in Rows /\ off.active = FALSE /\ off.checksum = plugin[p].checksum
    <3>1. plugin[p] \in Rows
      BY <1>0, <2>1
    <3> HIDE DEF p
    <3> QED BY <3>1 DEF Rows
  <2>4. \A q \in Plugins \ {p} : plugin[q].active /\ p \in Requires[q] => q \in bereft
    BY <2>1 DEF LifecycleInv, DependentsKnown
  <2> HIDE DEF p, off
  <2>5. /\ plugin' \in [Plugins -> Rows] /\ plugin'[p] = off
        /\ \A q \in Plugins : q # p => plugin'[q] = plugin[q]
    BY <1>0, <2>1, <2>3, RowTyped
  <2>6. LifecycleTypes'
    BY <1>0, <2>1, <2>2, <2>5 DEF LifecycleTypes
  <2>7. plugin[p].checksum \in compared[p] \cup {0}
    BY <2>1 DEF LifecycleInv, ContentChangeIsAudited
  <2>8. ~plugin'[p].active /\ plugin'[p].checksum \in compared'[p] \cup {0}
    BY <2>1, <2>3, <2>5, <2>7
  <2>9. \A s \in Requests : request'[s] = request[s] \/ request'[s].pc = "none"
    BY <2>2
  <2> QED BY <1>4, <2>1, <2>4, <2>5, <2>6, <2>8, <2>9
<1>6. CASE RemovePlugin
  <2>1. PICK p \in Plugins : /\ plugin' = [plugin EXCEPT ![p] = NoPlugin]
                             /\ bereft' = (bereft \cup DependentsOf(p)) \ {p}
    BY <1>6 DEF RemovePlugin
  <2>2. UNCHANGED <<release, directory, request, compared>>
    BY <1>6 DEF RemovePlugin
  <2>3. /\ plugin' \in [Plugins -> Rows] /\ plugin'[p] = NoPlugin
        /\ \A q \in Plugins : q # p => plugin'[q] = plugin[q]
    BY <1>0, <2>1, NoRowTyped, RowTyped
  <2>4. LifecycleTypes'
    BY <1>0, <2>2, <2>3 DEF LifecycleTypes
  <2>5. ~plugin'[p].active /\ plugin'[p].checksum = 0
    BY <2>3, NoRowTyped
  <2>6. \A q \in Plugins \ {p} : plugin[q].active /\ p \in Requires[q] => q \in bereft'
    BY <2>1 DEF DependentsOf
  <2>7. \A q \in Plugins \ {p} : q \in bereft => q \in bereft'
    BY <2>1
  <2> QED BY <1>4, <2>2, <2>3, <2>4, <2>5, <2>6, <2>7
<1> QED BY <1>1, <1>2, <1>3, <1>5, <1>6

LEMMA LifecycleStepKeeps == LifecycleInv /\ [LifecycleNext]_lifecycleVars => LifecycleInv'
<1> SUFFICES ASSUME LifecycleInv, [LifecycleNext]_lifecycleVars PROVE LifecycleInv' OBVIOUS
<1>1. CASE \E r \in Requests : Serve(r)
  BY <1>1, InstallKeeps, UpdateKeeps, ActivityKeeps DEF Serve
<1>2. CASE RemovePlugin
  BY <1>2, ActivityKeeps
<1>3. CASE ReleaseComes \/ RestartSyncs
  BY <1>3, SyncKeeps
<1>4. CASE UNCHANGED lifecycleVars
  BY <1>4 DEF lifecycleVars, LifecycleInv, LifecycleTypes, DependentsKnown, RequirementsStay,
              WrittenIsCompared, ContentChangeIsAudited
<1> QED BY <1>1, <1>2, <1>3, <1>4 DEF LifecycleNext

\* Only plugins are bereft, and the faults are counted.
LifecycleCounted ==
    bereft \subseteq Plugins /\ lifecycleFaults \in 0 .. MaxLifecycleFaults

LEMMA LifecycleCountedStays ==
    ASSUME LifecycleInv, LifecycleCounted, [LifecycleNext]_lifecycleVars
    PROVE  LifecycleCounted'
<1>0. MaxLifecycleFaults \in Nat
  BY LifecycleAssumption
<1>1. \/ UNCHANGED lifecycleFaults
      \/ lifecycleFaults < MaxLifecycleFaults /\ lifecycleFaults' = lifecycleFaults + 1
  BY DEF LifecycleNext, lifecycleVars, Serve, InstallClones, InstallCreates, InstallRecords, UpdateReads,
         UpdatePulls, UpdateRenames, UpdateAudits, UpdateRecords, ActivateChecks, ActivateWrites,
         DeactivateChecks, DeactivateWrites, RemovePlugin, ReleaseComes, RestartSyncs, LifecycleFault
<1>2. lifecycleFaults' \in 0 .. MaxLifecycleFaults
  BY <1>0, <1>1 DEF LifecycleCounted
<1>3. ASSUME NEW r \in Requests, ActivateWrites(r) PROVE bereft' \subseteq Plugins
  <2>1. request[r].plugin \in Plugins
    BY <1>3 DEF ActivateWrites, RequestAt, LifecycleInv, LifecycleTypes
  <2> QED BY <1>3, <2>1 DEF ActivateWrites, LifecycleCounted
<1>4. CASE RemovePlugin
  BY <1>4 DEF RemovePlugin, DependentsOf, LifecycleCounted
<1>5. ASSUME ~RemovePlugin, \A r \in Requests : ~ActivateWrites(r) PROVE UNCHANGED bereft
  BY <1>5
     DEF LifecycleNext, lifecycleVars, Serve, InstallClones, InstallCreates, InstallRecords, UpdateReads,
         UpdatePulls, UpdateRenames, UpdateAudits, UpdateRecords, ActivateChecks,
         DeactivateChecks, DeactivateWrites, ReleaseComes, RestartSyncs
<1>6. bereft' \subseteq Plugins
  BY <1>3, <1>4, <1>5 DEF LifecycleCounted
<1> QED BY <1>2, <1>6 DEF LifecycleCounted

\* The types of the plugins' two stores and of the calls on them: a version or
\* a checksum in a row, or compared, is of a release there is.
THEOREM LifecycleKeepsTypes == LifecycleSpec => []LifecycleTypeOK
<1>1. LifecycleInit => LifecycleCounted
  BY LifecycleAssumption DEF LifecycleInit, LifecycleCounted
<1>2. LifecycleInv /\ LifecycleCounted => LifecycleTypeOK
  BY DEF LifecycleInv, LifecycleTypes, LifecycleCounted, LifecycleTypeOK, PluginRows, Rows, Calls, Places,
         Releases
<1>3. LifecycleInv /\ LifecycleCounted /\ [LifecycleNext]_lifecycleVars => LifecycleCounted'
  BY LifecycleCountedStays
<1> QED BY <1>1, <1>2, <1>3, LifecycleStarts, LifecycleStepKeeps, PTL DEF LifecycleSpec

\* activate(), deactivate(), remove(): for every set of plugins and any number
\* of panel calls under way together, an active plugin has every plugin its
\* manifest requires active beside it, but for the overlap and the removal named.
THEOREM DependentsAreServed == LifecycleSpec => []RequirementsStay
<1>1. LifecycleInv => RequirementsStay
  BY DEF LifecycleInv
<1> QED BY <1>1, LifecycleStarts, LifecycleStepKeeps, PTL DEF LifecycleSpec

\* install(), update(): whatever overlaps, fails or restarts, the checksum of a
\* row is of content that was compared with the checksum before it.
THEOREM ContentIsAudited == LifecycleSpec => []ContentChangeIsAudited
<1>1. LifecycleInv => ContentChangeIsAudited
  BY DEF LifecycleInv
<1> QED BY <1>1, LifecycleStarts, LifecycleStepKeeps, PTL DEF LifecycleSpec

-----------------------------------------------------------------------------
(* StrategySetup                                                           *)

\* The seeder has gone through every step before the one it is at.
SeedInv ==
    /\ boot \in [pc : {"momentum", "pretest", "up"}, next : Nat]
    /\ boot.pc = "momentum" =>
         \A i \in DOMAIN SeedSteps : i < boot.next => SeedSteps[i] \in seedTried
    /\ FlagMeansSeeded

\* An apply() has written every key before the one it is at.
ApplyInv ==
    /\ application \in [Strategies -> [next : Nat, version : Nat]]
    /\ bundle \in [Strategies -> Nat]
    /\ wrote \in [Strategies -> SUBSET STRING]
    /\ \A s \in Strategies : application[s].next > 0 =>
         \A i \in DOMAIN BundleKeys : i < application[s].next => BundleKeys[i] \in wrote[s]

SetupInv == SeedInv /\ ApplyInv

LEMMA StepsNumbered ==
    /\ \A i \in DOMAIN SeedSteps : i \in Nat /\ i >= 1 /\ i <= Len(SeedSteps)
    /\ \A i \in DOMAIN BundleKeys : i \in Nat /\ i >= 1 /\ i <= Len(BundleKeys) /\ BundleKeys[i] \in STRING
    /\ Len(SeedSteps) \in Nat /\ Len(BundleKeys) \in Nat
<1>1. SeedSteps \in Seq(STRING) /\ BundleKeys \in Seq(STRING)
  BY StrategySetupAssumption
<1> QED BY <1>1, LenProperties, ElementOfSeq

LEMMA SetupStarts == SetupInit => SetupInv
<1> SUFFICES ASSUME SetupInit PROVE SetupInv OBVIOUS
<1>1. SeedInv
  BY StepsNumbered DEF SetupInit, SeedInv, FlagMeansSeeded
<1>2. ApplyInv
  BY DEF SetupInit, ApplyInv, NotApplying
<1> QED BY <1>1, <1>2 DEF SetupInv

\* What an apply() sees is left alone by the seeder, but for a restart.
LEMMA SeedKeeps ==
    ASSUME SetupInv,
           \/ SeedIsDone \/ SeedWrites \/ SeedSwallows \/ SeedBreaksOff \/ SeedSetsFlag
           \/ SeedPortfolios \/ Redeploys
    PROVE  SetupInv'
<1>0. boot \in [pc : {"momentum", "pretest", "up"}, next : Nat]
  BY DEF SetupInv, SeedInv
<1>1. CASE Redeploys
  <2>1. /\ boot' = [pc |-> "momentum", next |-> 1] /\ UNCHANGED <<seeded, seedTried, bundle>>
        /\ application' = [s \in Strategies |-> NotApplying] /\ wrote' = [s \in Strategies |-> {}]
    BY <1>1 DEF Redeploys, BootAt
  <2>2. SeedInv'
    BY <2>1, StepsNumbered DEF SetupInv, SeedInv, FlagMeansSeeded
  <2>3. ApplyInv'
    BY <2>1 DEF SetupInv, ApplyInv, NotApplying
  <2> QED BY <2>2, <2>3 DEF SetupInv
<1>2. CASE SeedWrites \/ SeedSwallows
  <2>1. /\ boot.pc = "momentum" /\ boot' = [pc |-> "momentum", next |-> boot.next + 1]
        /\ seedTried' = seedTried \cup {SeedSteps[boot.next]} /\ UNCHANGED seeded
        /\ UNCHANGED strategyVars
    BY <1>2 DEF SeedWrites, SeedSwallows, BootAt, KeepsFlag
  <2>2. \A i \in DOMAIN SeedSteps : i < boot.next + 1 => i < boot.next \/ i = boot.next
    BY <1>0, StepsNumbered
  <2>3. SeedInv'
    BY <1>0, <2>1, <2>2 DEF SetupInv, SeedInv, FlagMeansSeeded
  <2>4. ApplyInv'
    BY <2>1 DEF SetupInv, ApplyInv, strategyVars
  <2> QED BY <2>3, <2>4 DEF SetupInv
<1>3. CASE SeedSetsFlag
  <2>1. /\ boot.pc = "momentum" /\ boot.next > Len(SeedSteps) /\ boot' = [pc |-> "pretest", next |-> 0]
        /\ UNCHANGED <<strategyVars, seedTried>>
    BY <1>3 DEF SeedSetsFlag, BootAt
  <2>2. \A i \in DOMAIN SeedSteps : i < boot.next
    BY <1>0, <2>1, StepsNumbered
  <2>3. SeedInv'
    BY <2>1, <2>2 DEF SetupInv, SeedInv, FlagMeansSeeded
  <2>4. ApplyInv'
    BY <2>1 DEF SetupInv, ApplyInv, strategyVars
  <2> QED BY <2>3, <2>4 DEF SetupInv
<1>4. CASE SeedIsDone \/ SeedBreaksOff \/ SeedPortfolios
  <2>1. /\ boot' \in {[pc |-> "pretest", next |-> 0], [pc |-> "up", next |-> 0]}
        /\ UNCHANGED <<strategyVars, seeded, seedTried>>
    BY <1>4 DEF SeedIsDone, SeedBreaksOff, SeedPortfolios, BootAt
  <2>2. SeedInv'
    BY <2>1 DEF SetupInv, SeedInv, FlagMeansSeeded
  <2>3. ApplyInv'
    BY <2>1 DEF SetupInv, ApplyInv, strategyVars
  <2> QED BY <2>2, <2>3 DEF SetupInv
<1> QED BY <1>1, <1>2, <1>3, <1>4

LEMMA ApplyKeeps ==
    ASSUME SetupInv, NEW s \in Strategies,
           \/ ApplyReads(s) \/ ApplySets(s) \/ ApplyMarks(s) \/ ApplyBreaksOff(s)
           \/ UpdateStrategy(s) \/ RecordWalkForward(s)
    PROVE  SetupInv'
<1>0. /\ application \in [Strategies -> [next : Nat, version : Nat]]
      /\ bundle \in [Strategies -> Nat] /\ wrote \in [Strategies -> SUBSET STRING]
      /\ \A t \in Strategies : application[t].next > 0 =>
           \A i \in DOMAIN BundleKeys : i < application[t].next => BundleKeys[i] \in wrote[t]
  BY DEF SetupInv, ApplyInv
<1>1. SeedInv'
  <2>1. UNCHANGED bootVars
    BY DEF ApplyReads, ApplySets, ApplyMarks, ApplyBreaksOff, UpdateStrategy, RecordWalkForward
  <2> QED BY <2>1 DEF SetupInv, SeedInv, FlagMeansSeeded, bootVars
<1>2. CASE ApplyReads(s)
  <2>1. /\ application' = [application EXCEPT ![s] = [next |-> 1, version |-> bundle[s]]]
        /\ wrote' = [wrote EXCEPT ![s] = {}] /\ UNCHANGED bundle
    BY <1>2 DEF ApplyReads
  <2>2. ApplyInv'
    BY <1>0, <2>1, StepsNumbered DEF ApplyInv
  <2> QED BY <1>1, <2>2 DEF SetupInv
<1>3. CASE ApplySets(s)
  <2> DEFINE key == BundleKeys[application[s].next]
             on == [application[s] EXCEPT !.next = @ + 1]
  <2>1. /\ application' = [application EXCEPT ![s] = on] /\ wrote' = [wrote EXCEPT ![s] = @ \cup {key}]
        /\ UNCHANGED bundle /\ application[s].next \in DOMAIN BundleKeys
    BY <1>3 DEF ApplySets
  <2>2. application[s].next \in Nat /\ application[s].next > 0 /\ key \in STRING
    BY <1>0, <2>1, StepsNumbered
  <2>3. on \in [next : Nat, version : Nat] /\ on.next = application[s].next + 1
    BY <1>0, <2>2
  <2>4. \A i \in DOMAIN BundleKeys : i < on.next => i < application[s].next \/ i = application[s].next
    BY <2>2, <2>3, StepsNumbered
  <2>5. \A i \in DOMAIN BundleKeys : i < on.next => BundleKeys[i] \in wrote[s] \cup {key}
    BY <1>0, <2>2, <2>4
  <2> HIDE DEF key, on
  <2>6. /\ application' \in [Strategies -> [next : Nat, version : Nat]]
        /\ wrote' \in [Strategies -> SUBSET STRING]
        /\ application'[s] = on /\ wrote'[s] = wrote[s] \cup {key}
        /\ \A t \in Strategies : t # s => application'[t] = application[t] /\ wrote'[t] = wrote[t]
    BY <1>0, <2>1, <2>2, <2>3
  <2>7. ASSUME NEW t \in Strategies, application'[t].next > 0, NEW i \in DOMAIN BundleKeys,
               i < application'[t].next
        PROVE  BundleKeys[i] \in wrote'[t]
    <3>1. CASE t = s
      BY <2>5, <2>6, <2>7, <3>1
    <3>2. CASE t # s
      BY <1>0, <2>6, <2>7, <3>2
    <3> QED BY <3>1, <3>2
  <2>8. ApplyInv'
    BY <1>0, <2>1, <2>6, <2>7 DEF ApplyInv
  <2> QED BY <1>1, <2>8 DEF SetupInv
<1>4. CASE ApplyMarks(s) \/ ApplyBreaksOff(s)
  <2>1. application' = [application EXCEPT ![s] = NotApplying] /\ UNCHANGED <<bundle, wrote>>
    BY <1>4 DEF ApplyMarks, ApplyBreaksOff
  <2>2. ApplyInv'
    BY <1>0, <2>1 DEF ApplyInv, NotApplying
  <2> QED BY <1>1, <2>2 DEF SetupInv
<1>5. CASE UpdateStrategy(s) \/ RecordWalkForward(s)
  <2>1. UNCHANGED <<application, wrote>> /\ bundle' \in [Strategies -> Nat]
    BY <1>0, <1>5 DEF UpdateStrategy, RecordWalkForward
  <2>2. ApplyInv'
    BY <1>0, <2>1 DEF ApplyInv
  <2> QED BY <1>1, <2>2 DEF SetupInv
<1> QED BY <1>2, <1>3, <1>4, <1>5

LEMMA SetupStepKeeps == SetupInv /\ [SetupNext]_setupVars => SetupInv'
<1> SUFFICES ASSUME SetupInv, [SetupNext]_setupVars PROVE SetupInv' OBVIOUS
<1>1. CASE OperatorSetsKey \/ OperatorMakesPortfolio \/ UNCHANGED setupVars
  <2>1. UNCHANGED <<seeded, boot, seedTried, application, bundle, wrote>>
    BY <1>1 DEF OperatorSetsKey, OperatorMakesPortfolio, bootVars, setupVars
  <2> QED BY <2>1 DEF SetupInv, SeedInv, FlagMeansSeeded, ApplyInv
<1> QED BY <1>1, SeedKeeps, ApplyKeeps DEF SetupNext

\* What the seed and the strategies have written is counted, a copy goes no
\* further than the end of its bundle, and no key is added.
SetupCounted ==
    /\ applied \in Strategies \cup {"none"} /\ DOMAIN config = KeySet
    /\ \A s \in Strategies : application[s].next \in 0 .. Len(BundleKeys) + 1
    /\ seeded \in BOOLEAN /\ portfoliosSeeded \in BOOLEAN
    /\ setupFaults \in 0 .. MaxSetupFaults /\ operatorWrites \in 0 .. MaxOperatorWrites

\* At most one portfolio of a seed fails.
LEMMA SeedFaults ==
    ASSUME SeedPortfolios, SetupCounted
    PROVE  setupFaults' \in 0 .. MaxSetupFaults
<1>0. MaxSetupFaults \in Nat /\ setupFaults \in 0 .. MaxSetupFaults
  BY StrategySetupAssumption DEF SetupCounted
<1>1. CASE portfoliosSeeded
  BY <1>0, <1>1 DEF SeedPortfolios
<1>2. CASE ~portfoliosSeeded
  <2>1. PICK failed \in {{}} \cup {{n} : n \in SeededPortfolios} :
          /\ failed # {} => setupFaults < MaxSetupFaults
          /\ setupFaults' = setupFaults + Cardinality(failed)
    BY <1>2 DEF SeedPortfolios
  <2>2. CASE failed = {}
    BY <1>0, <2>1, <2>2, FS_EmptySet
  <2>3. CASE failed # {}
    <3>1. Cardinality(failed) = 1
      BY <2>3, FS_Singleton
    <3> QED BY <1>0, <2>1, <2>3, <3>1
  <2> QED BY <2>2, <2>3
<1> QED BY <1>1, <1>2

LEMMA SetupCountedStays ==
    ASSUME SetupInv, SetupCounted, [SetupNext]_setupVars
    PROVE  SetupCounted'
<1>0. MaxSetupFaults \in Nat /\ MaxOperatorWrites \in Nat /\ Len(BundleKeys) \in Nat
      /\ \A i \in DOMAIN BundleKeys : i \in Nat /\ i >= 1 /\ i <= Len(BundleKeys)
  BY StrategySetupAssumption, StepsNumbered
<1>1. CASE SeedPortfolios
  <2>1. UNCHANGED <<strategyVars, config, seeded>> /\ portfoliosSeeded' \in BOOLEAN
    BY <1>1 DEF SeedPortfolios, SetupCounted
  <2> QED BY <1>1, <2>1, SeedFaults DEF SetupCounted, strategyVars
<1>2. CASE SeedIsDone \/ SeedWrites \/ SeedSwallows \/ SeedBreaksOff \/ SeedSetsFlag
  <2>1. UNCHANGED <<strategyVars, portfoliosSeeded>> /\ seeded' \in BOOLEAN /\ DOMAIN config' = KeySet
    BY <1>2 DEF SeedIsDone, SeedWrites, SeedSwallows, SeedBreaksOff, SeedSetsFlag, KeepsFlag, SetupCounted
  <2>2. UNCHANGED setupFaults \/ Fault
    BY <1>2 DEF SeedIsDone, SeedWrites, SeedSwallows, SeedBreaksOff, SeedSetsFlag
  <2>3. setupFaults' \in 0 .. MaxSetupFaults
    BY <1>0, <2>2 DEF Fault, SetupCounted
  <2> QED BY <2>1, <2>3 DEF SetupCounted, strategyVars
<1>3. CASE Redeploys
  <2>1. UNCHANGED <<config, applied, seeded, portfoliosSeeded, operatorWrites>>
        /\ \A s \in Strategies : application'[s].next = 0
    BY <1>3 DEF Redeploys, NotApplying
  <2>2. setupFaults' \in 0 .. MaxSetupFaults
    BY <1>0, <1>3 DEF Redeploys, Fault, SetupCounted
  <2> QED BY <1>0, <2>1, <2>2 DEF SetupCounted
<1>4. ASSUME NEW s \in Strategies,
             \/ ApplyReads(s) \/ ApplySets(s) \/ ApplyMarks(s) \/ ApplyBreaksOff(s)
             \/ UpdateStrategy(s) \/ RecordWalkForward(s)
      PROVE  SetupCounted'
  <2>1. UNCHANGED <<seeded, portfoliosSeeded>> /\ DOMAIN config' = KeySet
        /\ applied' \in Strategies \cup {"none"}
    BY <1>4 DEF ApplyReads, ApplySets, ApplyMarks, ApplyBreaksOff, UpdateStrategy, RecordWalkForward,
                bootVars, SetupCounted
  <2>2. /\ UNCHANGED setupFaults \/ Fault
        /\ \/ UNCHANGED operatorWrites
           \/ operatorWrites < MaxOperatorWrites /\ operatorWrites' = operatorWrites + 1
    BY <1>4 DEF ApplyReads, ApplySets, ApplyMarks, ApplyBreaksOff, UpdateStrategy, RecordWalkForward,
                OperatorWrites
  <2>3. setupFaults' \in 0 .. MaxSetupFaults /\ operatorWrites' \in 0 .. MaxOperatorWrites
    BY <1>0, <2>2 DEF Fault, SetupCounted
  <2>4. application \in [Strategies -> [next : Nat, version : Nat]] /\ bundle \in [Strategies -> Nat]
    BY DEF SetupInv, ApplyInv
  <2>5. \A t \in Strategies : application'[t].next \in 0 .. Len(BundleKeys) + 1
    <3>1. ASSUME NEW t \in Strategies, t # s PROVE application'[t] = application[t]
      BY <1>4, <2>4, <3>1 DEF ApplyReads, ApplySets, ApplyMarks, ApplyBreaksOff, UpdateStrategy,
                              RecordWalkForward
    <3>2. \/ application'[s].next \in {0, 1, application[s].next}
          \/ application[s].next \in DOMAIN BundleKeys /\ application'[s].next = application[s].next + 1
      BY <1>4, <2>4 DEF ApplyReads, ApplySets, ApplyMarks, ApplyBreaksOff, UpdateStrategy,
                        RecordWalkForward, NotApplying
    <3>3. application'[s].next \in 0 .. Len(BundleKeys) + 1
      BY <1>0, <3>2 DEF SetupCounted
    <3> QED BY <3>1, <3>3 DEF SetupCounted
  <2> QED BY <2>1, <2>3, <2>5 DEF SetupCounted
<1>5. CASE OperatorSetsKey \/ OperatorMakesPortfolio \/ UNCHANGED setupVars
  <2>1. UNCHANGED <<seeded, portfoliosSeeded, applied, application, setupFaults>> /\ DOMAIN config' = KeySet
    BY <1>5 DEF OperatorSetsKey, OperatorMakesPortfolio, bootVars, setupVars, SetupCounted
  <2>2. operatorWrites' \in 0 .. MaxOperatorWrites
    BY <1>0, <1>5 DEF OperatorSetsKey, OperatorMakesPortfolio, OperatorWrites, setupVars, SetupCounted
  <2> QED BY <2>1, <2>2 DEF SetupCounted
<1> QED BY <1>1, <1>2, <1>3, <1>4, <1>5 DEF SetupNext

\* The types of the configuration: only strategies are named as applied, and a
\* copy and a seed go no further than what they have to write.
THEOREM SetupKeepsTypes == SetupSpec => []SetupTypeOK
<1>1. SetupInit => SetupCounted
  <2> SUFFICES ASSUME SetupInit PROVE SetupCounted OBVIOUS
  <2>1. applied = "none" /\ DOMAIN config = KeySet /\ seeded = FALSE /\ portfoliosSeeded = FALSE
        /\ \A s \in Strategies : application[s].next = 0
    BY DEF SetupInit, NotApplying
  <2>2. setupFaults = 0 /\ operatorWrites = 0 /\ MaxSetupFaults \in Nat /\ MaxOperatorWrites \in Nat
        /\ Len(BundleKeys) \in Nat
    BY StrategySetupAssumption, StepsNumbered DEF SetupInit
  <2>3. setupFaults \in 0 .. MaxSetupFaults /\ operatorWrites \in 0 .. MaxOperatorWrites
        /\ 0 \in 0 .. Len(BundleKeys) + 1
    BY <2>2
  <2> QED BY <2>1, <2>3 DEF SetupCounted
<1>2. SetupInv /\ SetupCounted => SetupTypeOK
  <2>1. MaxSetupFaults \in Nat
    BY StrategySetupAssumption
  <2>2. setupFaults \in 0 .. MaxSetupFaults => setupFaults \in 0 .. MaxSetupFaults + 1
    BY <2>1
  <2> QED BY <2>2 DEF SetupInv, SeedInv, SetupCounted, SetupTypeOK
<1>3. SetupInv /\ SetupCounted /\ [SetupNext]_setupVars => SetupCounted'
  BY SetupCountedStays
<1> QED BY <1>1, <1>2, <1>3, SetupStarts, SetupStepKeeps, PTL DEF SetupSpec

\* onModuleInit() of the seeder: in whatever boots the seed took, and whatever
\* broke off, the flag that keeps it from running again means it was run whole.
THEOREM SeedIsWhole == SetupSpec => []FlagMeansSeeded
<1>1. SetupInv => FlagMeansSeeded
  BY DEF SetupInv, SeedInv
<1> QED BY <1>1, SetupStarts, SetupStepKeeps, PTL DEF SetupSpec

\* StrategyService.apply(): for any number of strategies, overlapping calls and
\* failing writes, the strategy named as applied is one whose call wrote every
\* key of its bundle.
THEOREM NamedIsWritten == SetupSpec => AppliedIsWhole
<1>1. SetupInv /\ [SetupNext]_setupVars =>
        [applied' # applied => \A i \in DOMAIN BundleKeys : BundleKeys[i] \in wrote[applied']]_setupVars
  <2> SUFFICES ASSUME SetupInv, SetupNext, applied' # applied, NEW i \in DOMAIN BundleKeys
               PROVE  BundleKeys[i] \in wrote[applied']
    BY DEF setupVars
  <2>1. PICK s \in Strategies : ApplyMarks(s)
    BY DEF SetupNext, SeedIsDone, SeedWrites, SeedSwallows, SeedBreaksOff, SeedSetsFlag, SeedPortfolios,
           Redeploys, strategyVars, ApplyReads, ApplySets, ApplyBreaksOff, UpdateStrategy,
           RecordWalkForward, OperatorSetsKey, OperatorMakesPortfolio
  <2>2. applied' = s /\ application[s].next > Len(BundleKeys)
    BY <2>1 DEF ApplyMarks, MarkerMayBeSet
  <2>3. application[s].next \in Nat
    BY DEF SetupInv, ApplyInv
  <2>4. application[s].next > 0 /\ i < application[s].next
    BY <2>2, <2>3, StepsNumbered
  <2> QED BY <2>2, <2>4 DEF SetupInv, ApplyInv
<1>2. SetupSpec => []SetupInv
  BY SetupStarts, SetupStepKeeps, PTL DEF SetupSpec
<1> QED BY <1>1, <1>2, PTL DEF SetupSpec, AppliedIsWhole

-----------------------------------------------------------------------------
(* The model that decides.                                                 *)

LlmConfig == [backend : Backends, model : Models, active : CustomIds \cup {Unset}]
TurnType ==
    [pc : TurnPC, extra : BOOLEAN, tools : BOOLEAN, via : Known \cup {Unset},
     provider : CustomIds \cup {Unset}, model : Models \cup {"gemini-2.0-flash", Unset},
     ready : BOOLEAN, calls : BOOLEAN]
SeenType == [backends : SUBSET Backends, models : SUBSET Models]
WriteType ==
    {w \in [key : Saved, value : Backends \cup Models, by : {"llm", "strategy"}] :
        IF w.key = "backend" THEN w.value \in Backends ELSE w.value \in Models}

LlmTyped ==
    /\ LlmTypeOK
    /\ turn \in [Turns -> TurnType] /\ inForce \in [Turns -> SeenType]
    /\ writes \in Seq(WriteType)

\* No turn and no strategy is under way in a process that boots, and nothing is
\* saved before what was saved is read.
BootInv ==
    /\ llmBoot # "up" => applying = 0 /\ \A t \in Turns : turn[t].pc = "idle"
    /\ llmBoot = "restoring" => writes = <<>>

\* A turn under way has seen what is in force; the branch it took, and the model
\* it sent, it saw.
Decided(t) == turn[t].pc \in {"loading", "sent", "answered"}
MisspeltTo(t) == turn[t].via = "anthropic" /\ "other" \in inForce[t].backends
TurnInv ==
    \A t \in Turns :
        /\ turn[t].pc # "idle" =>
               llm.backend \in inForce[t].backends /\ llm.model \in inForce[t].models
        /\ Decided(t) =>
               /\ \/ turn[t].via = "subscription" /\ turn[t].extra
                  \/ MisspeltTo(t)
                  \/ turn[t].via \in inForce[t].backends
               /\ turn[t].ready \/ turn[t].via = "subscription" \/ MisspeltTo(t)
               /\ turn[t].via = "custom" => turn[t].provider \in CustomIds
        /\ turn[t].pc \in {"sent", "answered"} =>
               \E m \in inForce[t].models :
                   turn[t].model = ModelSent(turn[t].via, m, turn[t].provider)

\* The newest write of a key that this service has under way.
Ours(w, k) == w.key = k /\ w.by = "llm"
NewestWrite(k, i) ==
    /\ i \in 1..Len(writes) /\ Ours(writes[i], k)
    /\ \A j \in 1..Len(writes) : i < j => ~ Ours(writes[j], k)

\* It brings what is in memory; where none is under way, that is what is saved.
SavedInv ==
    \A k \in Saved :
        /\ \A i \in 1..Len(writes) : NewestWrite(k, i) => writes[i].value = SavedForm(llm)[k]
        /\ (k \notin foreign /\ \A i \in 1..Len(writes) : ~ Ours(writes[i], k)) =>
               saved[k] \in {Unset, SavedForm(llm)[k]}

LlmInv == LlmTyped /\ BootInv /\ TurnInv /\ SavedInv

\* The constants are what their comments say.
LEMMA LlmConstants ==
    /\ Haiku \in Models /\ Unset \notin Models /\ Unset \notin Backends /\ Unset \notin CustomIds
    /\ DefaultModelOf \in [CustomIds -> Models]
    /\ EnvDefaults \in LlmConfig /\ Bundle \in [backend : Backends, model : Models]
    /\ \A patch \in Patches :
          /\ patch.backend \in Backends \cup {Unset} /\ patch.model \in Models \cup {Unset}
          /\ patch.id \in CustomIds \cup {"", Unset}
BY LlmAssumption DEF EnvDefaults, LlmConfig, Backends, Known

\* The bound is a number.
LEMMA LlmBound == MaxLlmFaults \in Nat
BY LlmAssumption

\* A bundle has two keys.
LEMMA BundleOfKeys ==
    /\ DOMAIN BundleOrder = 1..2 /\ Len(BundleOrder) = 2
    /\ BundleOrder[1] = "backend" /\ BundleOrder[2] = "model"
BY DEF BundleOrder

\* What a step of nobody's turn leaves as it is.
LEMMA IdleTurn == NoTurn \in TurnType /\ Nothing \in SeenType
BY DEF NoTurn, TurnType, TurnPC, Nothing, SeenType

\* The first process starts with nothing saved.
LEMMA LlmFirst == LlmInit => LlmInv
<1> SUFFICES ASSUME LlmInit PROVE LlmInv OBVIOUS
<1>1. LlmTypeOK
  <2>1. keys \subseteq KeyNames
    BY DEF LlmInit, KeyNames
  <2>2. saved \in [Saved -> Backends \cup Models \cup {Unset}] /\ llm \in LlmConfig
        /\ saved["backend"] = Unset /\ saved["model"] = Unset
    BY LlmConstants DEF LlmInit, Saved
  <2>3. applying \in 0..Len(BundleOrder) + 1 /\ llmFaults \in 0..MaxLlmFaults
    <3>1. 0 \in 0..3 /\ 0 \in 0..MaxLlmFaults
      BY LlmBound
    <3>2. Len(BundleOrder) + 1 = 3
      BY BundleOfKeys
    <3> QED BY <3>1, <3>2 DEF LlmInit
  <2>4. \A t \in Turns : turn[t].pc \in TurnPC /\ turn[t].extra \in BOOLEAN
    BY DEF LlmInit, NoTurn, TurnPC
  <2> QED BY <2>1, <2>2, <2>3, <2>4 DEF LlmInit, LlmTypeOK, LlmConfig
<1>2. LlmTyped
  BY <1>1, IdleTurn DEF LlmInit, LlmTyped
<1>3. BootInv /\ TurnInv
  BY DEF LlmInit, BootInv, TurnInv, Decided, NoTurn
<1>4. SavedInv
  BY DEF LlmInit, SavedInv
<1> QED BY <1>2, <1>3, <1>4 DEF LlmInv

\* A step of a turn changes nothing of the configuration.
LEMMA TurnKeepsStore ==
    ASSUME LlmInv, UNCHANGED <<llm, worldVars, storeVars, llmBootVars>>,
           turn' \in [Turns -> TurnType], inForce' \in [Turns -> SeenType],
           llmFaults' \in 0..MaxLlmFaults, llmBoot = "up"
    PROVE  LlmTyped' /\ BootInv' /\ SavedInv'
<1>1. LlmTyped'
  <2>1. \A t \in Turns : turn'[t].pc \in TurnPC /\ turn'[t].extra \in BOOLEAN
    BY DEF TurnType
  <2> QED
    BY <2>1 DEF LlmInv, LlmTyped, LlmTypeOK, worldVars, storeVars, llmBootVars
<1>2. BootInv' /\ SavedInv'
  BY DEF LlmInv, BootInv, SavedInv, NewestWrite, storeVars, llmBootVars
<1> QED BY <1>1, <1>2

\* The answer to a turn is of its time.
LEMMA TurnKeepsLlm ==
    ASSUME LlmInv, NEW t \in Turns,
           \/ Complete(t) \/ ReadExtra(t) \/ TakeBranch(t) \/ SendRequest(t) \/ Answer(t)
           \/ TurnThrows(t) \/ TurnEnds(t)
    PROVE  LlmInv'
<1> USE DEF LlmInv
<1>0. /\ llm \in LlmConfig /\ registered \subseteq CustomIds
      /\ turn \in [Turns -> TurnType] /\ inForce \in [Turns -> SeenType]
      /\ turn[t] \in TurnType /\ llmFaults \in 0..MaxLlmFaults
  BY DEF LlmTyped, LlmTypeOK, LlmConfig
<1>u. turn[t].pc # "idle" => llmBoot = "up"
  BY DEF BootInv
<1>1. CASE Complete(t)
  <2>1. PICK tools \in BOOLEAN :
            turn' = [turn EXCEPT ![t] = [NoTurn EXCEPT !.pc = "called", !.tools = tools]]
    BY <1>1 DEF Complete
  <2>2. [NoTurn EXCEPT !.pc = "called", !.tools = tools] \in TurnType
    BY DEF NoTurn, TurnType, TurnPC
  <2>3. [backends |-> {llm.backend}, models |-> {llm.model}] \in SeenType
    BY <1>0 DEF LlmConfig, SeenType
  <2>4. turn' \in [Turns -> TurnType] /\ inForce' \in [Turns -> SeenType]
    BY <1>0, <1>1, <2>1, <2>2, <2>3 DEF Complete
  <2>5. TurnInv'
    BY <1>0, <1>1, <2>1 DEF Complete, TurnInv, Decided, MisspeltTo, NoTurn
  <2> QED BY <1>0, <1>1, <2>4, <2>5, TurnKeepsStore DEF Complete
<1>2. CASE ReadExtra(t)
  <2>1. turn' \in [Turns -> TurnType]
    BY <1>0, <1>2 DEF ReadExtra, TurnType, TurnPC, LlmTyped, LlmTypeOK
  <2>2. TurnInv'
    BY <1>0, <1>2 DEF ReadExtra, TurnInv, Decided, MisspeltTo
  <2> QED BY <1>0, <1>u, <1>2, <2>1, <2>2, TurnKeepsStore DEF ReadExtra
<1>3. CASE TakeBranch(t)
  <2> DEFINE via == Branch(turn[t].extra)
             after == [turn[t] EXCEPT
                          !.pc = IF Refuses(via) THEN "failed" ELSE "loading", !.via = via,
                          !.provider = IF via = "custom" THEN llm.active ELSE Unset,
                          !.ready = CredentialPresent]
  <2>1. /\ turn' = [turn EXCEPT ![t] = after] /\ turn[t].pc = "asked"
        /\ UNCHANGED <<llm, inForce, llmActs, llmFaults, worldVars, storeVars, llmBootVars>>
    BY <1>3 DEF TakeBranch
  <2>2. via \in Known /\ CredentialPresent \in BOOLEAN
    <3>1. llm.backend \in Known \cup {"other"}
      BY <1>0 DEF LlmConfig, Backends
    <3>2. via \in Known
      BY <3>1 DEF Branch, Known
    <3>3. CredentialPresent \in BOOLEAN
      BY DEF CredentialPresent
    <3> QED BY <3>2, <3>3
  <2>3. /\ after.pc = (IF Refuses(via) THEN "failed" ELSE "loading") /\ after.via = via
        /\ after.extra = turn[t].extra /\ after.ready = CredentialPresent /\ after \in TurnType
    BY <1>0, <2>2 DEF TurnType, TurnPC, LlmConfig
  <2>4. turn' \in [Turns -> TurnType]
    BY <1>0, <2>1, <2>3
  <2>5. llm.backend \in inForce[t].backends /\ llm.model \in inForce[t].models
    BY <2>1 DEF TurnInv
  <2>6. \/ via = "subscription" /\ turn[t].extra
        \/ via = "anthropic" /\ "other" \in inForce[t].backends
        \/ via \in inForce[t].backends
    BY <1>0, <2>5 DEF Branch, TurnType
  <2>7. ~ Refuses(via) => \/ CredentialPresent \/ via = "subscription"
                          \/ via = "anthropic" /\ "other" \in inForce[t].backends
    <3>1. CASE turn[t].extra
      BY <3>1 DEF Branch
    <3>2. CASE ~ turn[t].extra /\ llm.backend = "other"
      BY <2>5, <3>2 DEF Branch
    <3>3. CASE ~ turn[t].extra /\ llm.backend # "other"
      <4>1. via = llm.backend /\ llm.backend \in Known
        BY <1>0, <3>3 DEF Branch, LlmConfig, Backends
      <4> QED BY <1>0, <4>1, LlmConstants DEF Refuses, CredentialPresent, Known
    <3> QED BY <1>0, <3>1, <3>2, <3>3 DEF TurnType
  <2>c. ~ Refuses(via) /\ via = "custom" => after.provider \in CustomIds
    BY <1>0 DEF Refuses, TurnType
  <2> HIDE DEF after, via
  <2>8. TurnInv'
    BY <1>0, <2>1, <2>3, <2>5, <2>6, <2>7, <2>c DEF TurnInv, Decided, MisspeltTo
  <2> QED BY <1>0, <1>u, <2>1, <2>4, <2>8, TurnKeepsStore
<1>4. CASE SendRequest(t)
  <2> DEFINE sent == ModelSent(turn[t].via, llm.model, turn[t].provider)
  <2>1. /\ turn' = [turn EXCEPT ![t].pc = "sent", ![t].model = sent] /\ turn[t].pc = "loading"
        /\ UNCHANGED <<llm, inForce, llmActs, llmFaults, worldVars, storeVars, llmBootVars>>
    BY <1>4 DEF SendRequest
  <2>2. llm.model \in inForce[t].models /\ llm.model \in Models
    BY <1>0, <2>1 DEF TurnInv, LlmConfig
  <2>3. turn[t].via = "custom" => turn[t].provider \in CustomIds
    BY <2>1 DEF TurnInv, Decided
  <2>4. sent \in Models \cup {"gemini-2.0-flash", Unset}
    BY <2>2, <2>3, LlmConstants DEF ModelSent
  <2> HIDE DEF sent
  <2>5. [turn[t] EXCEPT !.pc = "sent", !.model = sent] \in TurnType
    BY <1>0, <2>4 DEF TurnType, TurnPC
  <2>6. turn' = [turn EXCEPT ![t] = [turn[t] EXCEPT !.pc = "sent", !.model = sent]]
    BY <1>0, <2>1
  <2>7. turn' \in [Turns -> TurnType]
    BY <1>0, <2>5, <2>6
  <2>8. TurnInv'
    <3> DEFINE after == [turn[t] EXCEPT !.pc = "sent", !.model = sent]
    <3>1. /\ after.pc = "sent" /\ after.via = turn[t].via /\ after.provider = turn[t].provider
          /\ after.ready = turn[t].ready /\ after.extra = turn[t].extra /\ after.model = sent
      BY <1>0 DEF TurnType
    <3>2. turn' = [turn EXCEPT ![t] = after]
      BY <2>6
    <3> HIDE DEF after
    <3> QED BY <1>0, <2>1, <2>2, <3>1, <3>2 DEF TurnInv, Decided, MisspeltTo, sent
  <2> QED BY <1>0, <1>u, <2>1, <2>7, <2>8, TurnKeepsStore
<1>5. CASE Answer(t)
  <2>1. PICK calls \in BOOLEAN : turn' = [turn EXCEPT ![t].pc = "answered", ![t].calls = calls]
    BY <1>5 DEF Answer
  <2> DEFINE after == [turn[t] EXCEPT !.pc = "answered", !.calls = calls]
  <2>2. turn' = [turn EXCEPT ![t] = after] /\ after \in TurnType
    BY <1>0, <2>1 DEF TurnType, TurnPC
  <2>3. /\ after.pc = "answered" /\ after.via = turn[t].via /\ after.provider = turn[t].provider
        /\ after.ready = turn[t].ready /\ after.extra = turn[t].extra
        /\ after.model = turn[t].model
    BY <1>0 DEF TurnType
  <2> HIDE DEF after
  <2>4. turn' \in [Turns -> TurnType] /\ turn[t].pc = "sent" /\ UNCHANGED <<llm, inForce>>
    BY <1>0, <1>5, <2>2 DEF Answer
  <2>5. TurnInv'
    BY <1>0, <2>2, <2>3, <2>4 DEF TurnInv, Decided, MisspeltTo
  <2> QED BY <1>0, <1>u, <1>5, <2>4, <2>5, TurnKeepsStore DEF Answer
<1>6. CASE TurnThrows(t)
  <2>1. turn' \in [Turns -> TurnType]
    BY <1>0, <1>6 DEF TurnThrows, TurnType, TurnPC
  <2>3. llmFaults' \in 0..MaxLlmFaults
    BY <1>0, <1>6, LlmBound DEF TurnThrows
  <2>2. TurnInv'
    BY <1>0, <1>6 DEF TurnThrows, TurnInv, Decided, MisspeltTo
  <2> QED BY <1>0, <1>u, <1>6, <2>1, <2>2, <2>3, TurnKeepsStore DEF TurnThrows
<1>7. CASE TurnEnds(t)
  <2>1. turn' \in [Turns -> TurnType] /\ inForce' \in [Turns -> SeenType]
    BY <1>0, <1>7, IdleTurn DEF TurnEnds
  <2>2. TurnInv'
    BY <1>0, <1>7 DEF TurnEnds, TurnInv, Decided, MisspeltTo, NoTurn
  <2> QED BY <1>0, <1>u, <1>7, <2>1, <2>2, TurnKeepsStore DEF TurnEnds
<1> QED BY <1>1, <1>2, <1>3, <1>4, <1>5, <1>6, <1>7

\* Appending to the writes under way.
LEMMA NewestAfterAppend ==
    ASSUME writes \in Seq(WriteType), NEW w \in WriteType, writes' = Append(writes, w), NEW k
    PROVE  /\ writes' \in Seq(WriteType)
           /\ Ours(w, k) => /\ \A i \in 1..Len(writes') : NewestWrite(k, i)' => writes'[i] = w
                           /\ \E i \in 1..Len(writes') : Ours(writes'[i], k)
           /\ ~ Ours(w, k) =>
                 /\ \A i \in 1..Len(writes') : NewestWrite(k, i)' =>
                        i \in 1..Len(writes) /\ NewestWrite(k, i) /\ writes'[i] = writes[i]
                 /\ (\A i \in 1..Len(writes') : ~ Ours(writes'[i], k)) =>
                        \A i \in 1..Len(writes) : ~ Ours(writes[i], k)
<1>1. /\ writes' \in Seq(WriteType) /\ Len(writes') = Len(writes) + 1 /\ Len(writes) \in Nat
      /\ writes'[Len(writes) + 1] = w /\ \A i \in 1..Len(writes) : writes'[i] = writes[i]
  OBVIOUS
<1>2. Len(writes) + 1 \in 1..Len(writes') /\ \A i \in 1..Len(writes) : i \in 1..Len(writes')
  BY <1>1
<1>3. ASSUME Ours(w, k), NEW i \in 1..Len(writes'), NewestWrite(k, i)' PROVE writes'[i] = w
  <2>1. ~ (i < Len(writes) + 1)
    BY <1>1, <1>2, <1>3 DEF NewestWrite, Ours
  <2>2. i = Len(writes) + 1
    BY <1>1, <2>1
  <2> QED BY <1>1, <2>2
<1>4. ASSUME ~ Ours(w, k), NEW i \in 1..Len(writes'), NewestWrite(k, i)'
      PROVE  i \in 1..Len(writes) /\ NewestWrite(k, i) /\ writes'[i] = writes[i]
  <2>1. i # Len(writes) + 1
    BY <1>1, <1>4 DEF NewestWrite, Ours
  <2>2. i \in 1..Len(writes)
    BY <1>1, <2>1
  <2> QED BY <1>1, <1>2, <1>4, <2>2 DEF NewestWrite, Ours
<1> QED BY <1>1, <1>2, <1>3, <1>4

\* Taking the first of the writes under way.
LEMMA NewestAfterTail ==
    ASSUME writes \in Seq(WriteType), writes # <<>>, writes' = Tail(writes), NEW k
    PROVE  /\ writes' \in Seq(WriteType) /\ Head(writes) = writes[1] /\ writes[1] \in WriteType
           /\ 1 \in 1..Len(writes)
           /\ \A i \in 1..Len(writes') : NewestWrite(k, i)' =>
                  /\ i + 1 \in 1..Len(writes) /\ NewestWrite(k, i + 1)
                  /\ writes'[i] = writes[i + 1]
           /\ (\A i \in 1..Len(writes') : ~ Ours(writes'[i], k)) =>
                  /\ Ours(writes[1], k) => NewestWrite(k, 1)
                  /\ ~ Ours(writes[1], k) => \A i \in 1..Len(writes) : ~ Ours(writes[i], k)
<1>1. /\ writes' \in Seq(WriteType) /\ Len(writes') = Len(writes) - 1
      /\ Len(writes) \in Nat \ {0} /\ Head(writes) = writes[1] /\ writes[1] \in WriteType
      /\ \A i \in 1..Len(writes') : writes'[i] = writes[i + 1]
  OBVIOUS
<1>2. \A j \in 1..Len(writes) : 1 < j => j - 1 \in 1..Len(writes') /\ writes'[j - 1] = writes[j]
  <2> SUFFICES ASSUME NEW j \in 1..Len(writes), 1 < j
               PROVE  j - 1 \in 1..Len(writes') /\ writes'[j - 1] = writes[j]
    OBVIOUS
  <2>1. j - 1 \in 1..Len(writes') /\ (j - 1) + 1 = j
    BY <1>1
  <2> QED BY <1>1, <2>1
<1>3. ASSUME NEW i \in 1..Len(writes'), NewestWrite(k, i)'
      PROVE  /\ i + 1 \in 1..Len(writes) /\ NewestWrite(k, i + 1) /\ writes'[i] = writes[i + 1]
  <2>1. i + 1 \in 1..Len(writes) /\ writes'[i] = writes[i + 1]
    BY <1>1
  <2>2. Ours(writes[i + 1], k)
    BY <1>3, <2>1 DEF NewestWrite, Ours
  <2>3. ASSUME NEW j \in 1..Len(writes), i + 1 < j PROVE ~ Ours(writes[j], k)
    <3>1. 1 < j /\ i < j - 1
      BY <2>3
    <3> QED BY <1>2, <1>3, <3>1 DEF NewestWrite, Ours
  <2> QED BY <2>1, <2>2, <2>3 DEF NewestWrite
<1>4. ASSUME \A i \in 1..Len(writes') : ~ Ours(writes'[i], k)
      PROVE  \A j \in 1..Len(writes) : 1 < j => ~ Ours(writes[j], k)
  BY <1>2, <1>4
<1>5. 1 \in 1..Len(writes)
  BY <1>1
<1>6. \A j \in 1..Len(writes) : j = 1 \/ 1 < j
  BY <1>1
<1> QED BY <1>1, <1>3, <1>4, <1>5, <1>6 DEF NewestWrite

\* Appending two writes at once.
LEMMA AppendTwo ==
    ASSUME writes \in Seq(WriteType), NEW a \in WriteType, NEW b \in WriteType,
           writes' = writes \o <<a, b>>
    PROVE  /\ writes' \in Seq(WriteType) /\ writes'[Len(writes) + 1] = a
           /\ writes'[Len(writes) + 2] = b
           /\ Len(writes) + 1 \in 1..Len(writes') /\ Len(writes) + 2 \in 1..Len(writes')
           /\ \A i \in 1..Len(writes') :
                 /\ ~ (i < Len(writes) + 2) => i = Len(writes) + 2
                 /\ ~ (i < Len(writes) + 1) /\ i # Len(writes) + 2 => i = Len(writes) + 1
<1>1. writes' = Append(Append(writes, a), b)
  OBVIOUS
<1>2. /\ Append(writes, a) \in Seq(WriteType) /\ Len(Append(writes, a)) = Len(writes) + 1
      /\ Append(writes, a)[Len(writes) + 1] = a /\ Len(writes) \in Nat
  OBVIOUS
<1>3. /\ writes' \in Seq(WriteType) /\ Len(writes') = Len(writes) + 2
      /\ writes'[Len(writes) + 2] = b /\ writes'[Len(writes) + 1] = a
  BY <1>1, <1>2
<1> QED BY <1>2, <1>3

\* A patch saves what it leaves in memory, and the turns under way see it.
LEMMA PatchKeepsLlm ==
    ASSUME LlmInv, NEW patch \in [backend : Backends \cup {Unset}, model : Models \cup {Unset},
                                  id : CustomIds \cup {"", Unset}],
           PatchWith(patch), llmBoot # "restoring",
           UNCHANGED <<turn, llmFaults, saved, foreign, applying, worldVars>>,
           llmBoot' = llmBoot \/ (llmBoot' = "up" /\ llmBoot = "syncing")
    PROVE  LlmInv'
<1> USE DEF LlmInv
<1>0. /\ llm \in LlmConfig /\ turn \in [Turns -> TurnType] /\ inForce \in [Turns -> SeenType]
      /\ writes \in Seq(WriteType)
  BY DEF LlmTyped, LlmTypeOK, LlmConfig
<1>1. llm' \in LlmConfig
  <2>1. patch.backend \in Backends \cup {Unset} /\ patch.model \in Models \cup {Unset}
        /\ patch.id \in CustomIds \cup {"", Unset} /\ "custom" \in Backends
    BY DEF Backends, Known
  <2> QED BY <1>0, <2>1, LlmConstants DEF PatchWith, Patched, LlmConfig
<1>2. /\ inForce' \in [Turns -> SeenType]
      /\ \A t \in Turns : turn[t].pc # "idle" =>
             /\ inForce'[t].backends = inForce[t].backends \cup {llm'.backend}
             /\ inForce'[t].models = inForce[t].models \cup {llm'.model}
      /\ \A t \in Turns : turn[t].pc = "idle" => inForce'[t] = inForce[t]
  BY <1>0, <1>1 DEF PatchWith, Witnessed, Sees, SeenType, LlmConfig
<1>3. TurnInv'
  <2> SUFFICES ASSUME NEW t \in Turns, turn[t].pc # "idle"
               PROVE  /\ inForce[t].backends \subseteq inForce'[t].backends
                      /\ inForce[t].models \subseteq inForce'[t].models
                      /\ llm'.backend \in inForce'[t].backends /\ llm'.model \in inForce'[t].models
    BY DEF TurnInv, Decided, MisspeltTo
  <2> QED BY <1>2
<1>4. DEFINE w1 == Write("model", llm'.model, "llm")
             w2 == Write("backend", llm'.backend, "llm")
<1>5. w1 \in WriteType /\ w2 \in WriteType
  BY <1>1 DEF Write, WriteType, Saved, LlmConfig
<1>6. /\ Ours(w1, "model") /\ ~ Ours(w1, "backend") /\ w1.value = SavedForm(llm')["model"]
      /\ Ours(w2, "backend") /\ ~ Ours(w2, "model") /\ w2.value = SavedForm(llm')["backend"]
  BY DEF Write, Ours, SavedForm, Saved
<1>7. writes' = writes \o <<w1, w2>>
  BY DEF PatchWith, Persist
<1> HIDE DEF w1, w2
<1>8. /\ writes' \in Seq(WriteType) /\ writes'[Len(writes) + 1] = w1
      /\ writes'[Len(writes) + 2] = w2
      /\ Len(writes) + 1 \in 1..Len(writes') /\ Len(writes) + 2 \in 1..Len(writes')
      /\ \A i \in 1..Len(writes') :
            /\ ~ (i < Len(writes) + 2) => i = Len(writes) + 2
            /\ ~ (i < Len(writes) + 1) /\ i # Len(writes) + 2 => i = Len(writes) + 1
  BY <1>0, <1>5, <1>7, AppendTwo, ZenonT(30)
<1>9. SavedInv'
  <2>1. Len(writes) + 1 \in 1..Len(writes') /\ Len(writes) + 2 \in 1..Len(writes')
    BY <1>8
  <2>2. ASSUME NEW i \in 1..Len(writes'), NewestWrite("backend", i)' PROVE i = Len(writes) + 2
    <3>1. ~ (i < Len(writes) + 2)
      BY <1>6, <1>8, <2>1, <2>2 DEF NewestWrite, Ours
    <3> QED BY <1>8, <3>1
  <2>3. ASSUME NEW i \in 1..Len(writes'), NewestWrite("model", i)' PROVE i = Len(writes) + 1
    <3>1. ~ (i < Len(writes) + 1) /\ i # Len(writes) + 2
      BY <1>6, <1>8, <2>1, <2>3 DEF NewestWrite, Ours
    <3> QED BY <1>8, <3>1
  <2>4. ASSUME NEW k \in Saved
        PROVE  /\ \A i \in 1..Len(writes') :
                      NewestWrite(k, i)' => writes'[i].value = SavedForm(llm')[k]
               /\ \E i \in 1..Len(writes') : Ours(writes'[i], k)
    BY <1>6, <1>8, <2>1, <2>2, <2>3 DEF Saved
  <2> QED BY <2>4 DEF SavedInv, Ours
<1>10. LlmTyped'
  BY <1>1, <1>2, <1>8 DEF LlmTyped, LlmTypeOK, LlmConfig, worldVars
<1>11. BootInv'
  BY DEF BootInv
<1> QED BY <1>3, <1>9, <1>10, <1>11

\* What the operator does beside it leaves what is saved and what turns have seen.
LEMMA OperatorKeepsLlm ==
    ASSUME LlmInv,
           \/ \E id \in CustomIds : AddCustomProvider(id) \/ RemoveCustomProvider(id)
           \/ \E k \in KeyNames : SetCredential(k)
           \/ SwitchExtra \/ ApplyStrategy
    PROVE  LlmInv'
<1> USE DEF LlmInv
<1>0. llm \in LlmConfig
  BY DEF LlmTyped, LlmTypeOK, LlmConfig
<1>1. ASSUME NEW id \in CustomIds, AddCustomProvider(id) PROVE LlmInv'
  BY <1>1
  DEF AddCustomProvider, LlmTyped, LlmTypeOK, BootInv, TurnInv, Decided, MisspeltTo, SavedInv,
      NewestWrite, storeVars, llmBootVars
<1>2. ASSUME NEW id \in CustomIds, RemoveCustomProvider(id) PROVE LlmInv'
  <2>1. llm' \in LlmConfig /\ llm'.backend = llm.backend /\ llm'.model = llm.model
    BY <1>0, <1>2 DEF RemoveCustomProvider, LlmConfig
  <2>2. SavedForm(llm') = SavedForm(llm) /\ registered' \subseteq CustomIds
    BY <1>2, <2>1 DEF RemoveCustomProvider, SavedForm, LlmTyped, LlmTypeOK
  <2>3. LlmTyped' /\ BootInv' /\ TurnInv'
    BY <1>2, <2>1, <2>2
    DEF RemoveCustomProvider, LlmTyped, LlmTypeOK, LlmConfig, BootInv, TurnInv, Decided, MisspeltTo,
        storeVars, llmBootVars
  <2>4. SavedInv'
    BY <1>2, <2>2 DEF RemoveCustomProvider, SavedInv, NewestWrite, storeVars
  <2> QED BY <2>3, <2>4
<1>3. ASSUME NEW k \in KeyNames, SetCredential(k) PROVE LlmInv'
  <2>1. keys' \subseteq KeyNames
    BY <1>3 DEF SetCredential, LlmTyped, LlmTypeOK
  <2> QED
    BY <1>3, <2>1
    DEF SetCredential, LlmTyped, LlmTypeOK, BootInv, TurnInv, Decided, MisspeltTo, SavedInv,
        NewestWrite, storeVars, llmBootVars
<1>4. CASE SwitchExtra
  BY <1>4
  DEF SwitchExtra, LlmTyped, LlmTypeOK, BootInv, TurnInv, Decided, MisspeltTo, SavedInv,
      NewestWrite, storeVars, llmBootVars
<1>5. CASE ApplyStrategy
  <2>1. applying' \in 0..Len(BundleOrder) + 1 /\ llmBoot = "up"
    <3>1. 1 \in 0..3 /\ Len(BundleOrder) + 1 = 3
      BY BundleOfKeys
    <3> QED BY <1>5, <3>1 DEF ApplyStrategy, Act
  <2> QED
    BY <1>5, <2>1
    DEF ApplyStrategy, LlmTyped, LlmTypeOK, BootInv, TurnInv, Decided, MisspeltTo, SavedInv,
        NewestWrite, worldVars, llmBootVars
<1> QED BY <1>1, <1>2, <1>3, <1>4, <1>5

\* Applying a strategy adds no write of this service.
LEMMA ApplyKeepsLlm ==
    ASSUME LlmInv, ApplyKey \/ ApplyEnds
    PROVE  LlmInv'
<1> USE DEF LlmInv
<1>1. CASE ApplyKey
  <2> DEFINE k == BundleOrder[applying]
             w == Write(k, Bundle[k], "strategy")
  <2>1. /\ applying \in 1..2 /\ applying' = applying + 1 /\ writes' = Append(writes, w)
        /\ UNCHANGED <<llm, turn, inForce, llmActs, llmFaults, saved, foreign, worldVars,
                       llmBootVars>>
    BY <1>1, BundleOfKeys DEF ApplyKey
  <2>2. k \in Saved /\ Bundle[k] \in (IF k = "backend" THEN Backends ELSE Models)
    <3>1. CASE applying = 1
      BY <3>1, LlmConstants, BundleOfKeys DEF Saved
    <3>2. CASE applying = 2
      BY <3>2, LlmConstants, BundleOfKeys DEF Saved
    <3> QED BY <2>1, <3>1, <3>2
  <2> HIDE DEF k
  <2>3. w \in WriteType /\ \A key \in Saved : ~ Ours(w, key)
    BY <2>2 DEF Write, WriteType, Ours, Saved
  <2> HIDE DEF w
  <2>4. SavedInv' /\ writes' \in Seq(WriteType)
    <3>1. ASSUME NEW key \in Saved
          PROVE  /\ writes' \in Seq(WriteType)
                 /\ \A i \in 1..Len(writes') : NewestWrite(key, i)' =>
                        i \in 1..Len(writes) /\ NewestWrite(key, i) /\ writes'[i] = writes[i]
                 /\ (\A i \in 1..Len(writes') : ~ Ours(writes'[i], key)) =>
                        \A i \in 1..Len(writes) : ~ Ours(writes[i], key)
      BY <2>1, <2>3, NewestAfterAppend DEF LlmTyped
    <3>2. SavedInv'
      BY <2>1, <3>1 DEF SavedInv, Ours
    <3> QED BY <3>1, <3>2 DEF Saved
  <2>5. applying' \in 0..Len(BundleOrder) + 1 /\ llmBoot = "up"
    <3>1. applying + 1 \in 0..3 /\ Len(BundleOrder) + 1 = 3 /\ applying # 0
      BY <2>1, BundleOfKeys
    <3> QED BY <2>1, <3>1 DEF BootInv, LlmTyped, LlmTypeOK
  <2> QED
    BY <2>1, <2>4, <2>5
    DEF LlmTyped, LlmTypeOK, BootInv, TurnInv, Decided, MisspeltTo, worldVars, llmBootVars
<1>2. CASE ApplyEnds
  <2>1. applying' \in 0..Len(BundleOrder) + 1
    <3>1. 0 \in 0..3 /\ Len(BundleOrder) + 1 = 3
      BY BundleOfKeys
    <3> QED BY <1>2, <3>1 DEF ApplyEnds
  <2> QED
    BY <1>2, <2>1
    DEF ApplyEnds, LlmTyped, LlmTypeOK, BootInv, TurnInv, Decided, MisspeltTo, SavedInv,
        NewestWrite, worldVars, llmBootVars
<1> QED BY <1>1, <1>2

\* A write that runs, or fails, leaves the newer ones to come.
LEMMA WritesKeepLlm ==
    ASSUME LlmInv, SaveRuns \/ SaveFails
    PROVE  LlmInv'
<1> USE DEF LlmInv
<1>0. /\ writes \in Seq(WriteType) /\ writes # <<>> /\ writes' = Tail(writes)
      /\ llm' = llm /\ turn' = turn /\ inForce' = inForce
      /\ UNCHANGED <<worldVars, llmBootVars>>
  BY DEF SaveRuns, SaveFails, LlmTyped
<1>1. /\ writes' \in Seq(WriteType) /\ Head(writes) = writes[1] /\ writes[1] \in WriteType
      /\ 1 \in 1..Len(writes)
  BY <1>0, NewestAfterTail
<1>k. ASSUME NEW k \in Saved
      PROVE  /\ \A i \in 1..Len(writes') : NewestWrite(k, i)' =>
                    /\ i + 1 \in 1..Len(writes) /\ NewestWrite(k, i + 1)
                    /\ writes'[i] = writes[i + 1]
             /\ (\A i \in 1..Len(writes') : ~ Ours(writes'[i], k)) =>
                    /\ Ours(writes[1], k) => NewestWrite(k, 1)
                    /\ ~ Ours(writes[1], k) => \A i \in 1..Len(writes) : ~ Ours(writes[i], k)
  BY <1>0, NewestAfterTail
<1>2. /\ writes[1].key \in Saved /\ writes[1].by \in {"llm", "strategy"}
      /\ writes[1].value \in Backends \cup Models
      /\ writes[1].key = "backend" => writes[1].value \in Backends
      /\ writes[1].key = "model" => writes[1].value \in Models
  BY <1>1 DEF WriteType
<1>3. saved \in [Saved -> Backends \cup Models \cup {Unset}] /\ foreign \subseteq Saved
  BY DEF LlmTyped, LlmTypeOK
<1>4. LlmTyped' /\ BootInv'
  <2>1. CASE SaveRuns
    <3>1. /\ saved' = [saved EXCEPT ![writes[1].key] = writes[1].value]
          /\ foreign' \subseteq Saved /\ applying' = applying /\ llmFaults' = llmFaults
      BY <1>1, <1>2, <1>3, <2>1 DEF SaveRuns
    <3>2. saved' \in [Saved -> Backends \cup Models \cup {Unset}]
      BY <1>2, <1>3, <3>1
    <3>3. saved'["backend"] \in Backends \cup {Unset} /\ saved'["model"] \in Models \cup {Unset}
      BY <1>2, <1>3, <3>1 DEF Saved, LlmTyped, LlmTypeOK
    <3> QED
      BY <1>0, <1>1, <3>1, <3>2, <3>3
      DEF LlmTyped, LlmTypeOK, BootInv, worldVars, llmBootVars
  <2>2. CASE SaveFails
    <3>1. /\ saved' = saved /\ foreign' \subseteq Saved /\ applying' \in {0, applying}
          /\ llmFaults' \in 0..MaxLlmFaults
      BY <1>1, <1>2, <1>3, <2>2, LlmBound DEF SaveFails, LlmTyped, LlmTypeOK
    <3>2. 0 \in 0..Len(BundleOrder) + 1
      BY BundleOfKeys
    <3> QED
      BY <1>0, <1>1, <3>1, <3>2
      DEF LlmTyped, LlmTypeOK, BootInv, worldVars, llmBootVars
  <2> QED BY <2>1, <2>2
<1>5. TurnInv'
  BY <1>0 DEF TurnInv, Decided, MisspeltTo
<1>6. SavedInv'
  <2> SUFFICES ASSUME NEW k \in Saved, k \notin foreign',
                      \A i \in 1..Len(writes') : ~ Ours(writes'[i], k)
               PROVE  saved'[k] \in {Unset, SavedForm(llm)[k]}
    BY <1>0, <1>k DEF SavedInv, Ours
  <2>1. /\ Ours(writes[1], k) => NewestWrite(k, 1)
        /\ ~ Ours(writes[1], k) => \A i \in 1..Len(writes) : ~ Ours(writes[i], k)
    BY <1>k
  <2>2. CASE SaveRuns
    <3>1. /\ saved' = [saved EXCEPT ![writes[1].key] = writes[1].value]
          /\ foreign' = IF writes[1].by = "llm" THEN foreign \ {writes[1].key}
                        ELSE foreign \cup {writes[1].key}
      BY <1>1, <2>2 DEF SaveRuns
    <3>2. CASE Ours(writes[1], k)
      BY <1>1, <1>3, <2>1, <3>1, <3>2 DEF SavedInv, Ours
    <3>3. CASE ~ Ours(writes[1], k)
      <4>1. writes[1].key # k /\ k \notin foreign
        BY <1>2, <3>1, <3>3 DEF Ours
      <4> QED BY <1>3, <2>1, <3>1, <3>3, <4>1 DEF SavedInv
    <3> QED BY <3>2, <3>3
  <2>3. CASE SaveFails
    <3>1. /\ saved' = saved /\ k \notin foreign /\ ~ Ours(writes[1], k)
      BY <1>1, <2>3 DEF SaveFails, Ours
    <3> QED BY <2>1, <3>1 DEF SavedInv
  <2> QED BY <2>2, <2>3
<1> QED BY <1>4, <1>5, <1>6

\* A boot forgets what it cannot read back, and knows it.
LEMMA BootKeepsLlm ==
    ASSUME LlmInv, Restart \/ OnModuleInit
    PROVE  LlmInv'
<1> USE DEF LlmInv
<1>0. llm \in LlmConfig /\ saved \in [Saved -> Backends \cup Models \cup {Unset}]
      /\ saved["backend"] \in Backends \cup {Unset} /\ saved["model"] \in Models \cup {Unset}
  BY DEF LlmTyped, LlmTypeOK, LlmConfig
<1>1. CASE Restart
  <2>1. /\ llm' = EnvDefaults /\ writes' = <<>> /\ turn' = [t \in Turns |-> NoTurn]
        /\ inForce' = [t \in Turns |-> Nothing] /\ foreign' = Differs(llm') /\ saved' = saved
        /\ registered' = {} /\ applying' = 0 /\ llmBoot' = "restoring"
        /\ UNCHANGED <<llmFaults, keys, extra>>
    BY <1>1 DEF Restart
  <2>2. /\ turn' \in [Turns -> TurnType] /\ inForce' \in [Turns -> SeenType]
        /\ \A t \in Turns : turn'[t].pc = "idle" /\ turn'[t].extra \in BOOLEAN
    BY <2>1, IdleTurn DEF NoTurn
  <2>3. 0 \in 0..Len(BundleOrder) + 1 /\ foreign' \subseteq Saved
    BY <2>1, BundleOfKeys DEF Differs
  <2>c. llm' \in LlmConfig /\ writes' \in Seq(WriteType) /\ turn' \in [Turns -> TurnType]
    <3>1. <<>> \in Seq(WriteType)
      OBVIOUS
    <3> QED BY <2>1, <2>2, <3>1, LlmConstants
  <2>4. LlmTyped'
    BY <1>0, <2>1, <2>2, <2>3, <2>c DEF LlmTyped, LlmTypeOK, LlmConfig, TurnPC
  <2>5. BootInv' /\ TurnInv'
    BY <2>1, <2>2 DEF BootInv, TurnInv, Decided
  <2>6. SavedInv'
    BY <2>1 DEF SavedInv, Differs
  <2> QED BY <2>4, <2>5, <2>6
<1>2. CASE OnModuleInit
  <2>r. Restored \in LlmConfig
    BY <1>0, LlmConstants DEF Restored, LlmConfig
  <2>1. llm' \in LlmConfig /\ llmFaults' \in 0..MaxLlmFaults
    BY <1>0, <1>2, <2>r, LlmBound DEF OnModuleInit, LlmTyped, LlmTypeOK
  <2>2. /\ llmBoot = "restoring" /\ llmBoot' = "syncing" /\ foreign' = Differs(llm')
        /\ UNCHANGED <<turn, inForce, saved, writes, applying, worldVars>>
    BY <1>2 DEF OnModuleInit
  <2>3. foreign' \subseteq Saved /\ writes' = <<>> /\ \A t \in Turns : turn'[t].pc = "idle"
    BY <2>2 DEF Differs, BootInv
  <2>4. LlmTyped'
    BY <1>0, <2>1, <2>2, <2>3 DEF LlmTyped, LlmTypeOK, LlmConfig, worldVars
  <2>5. BootInv' /\ TurnInv'
    BY <2>2, <2>3 DEF BootInv, TurnInv, Decided
  <2>6. SavedInv'
    BY <2>2, <2>3 DEF SavedInv, Differs
  <2> QED BY <2>4, <2>5, <2>6
<1> QED BY <1>1, <1>2

\* Every step keeps the invariant.
LEMMA LlmStep == LlmInv /\ [LlmNext]_llmVars => LlmInv'
<1> SUFFICES ASSUME LlmInv, [LlmNext]_llmVars PROVE LlmInv' OBVIOUS
<1>1. CASE UNCHANGED llmVars
  BY <1>1
  DEF LlmInv, LlmTyped, LlmTypeOK, BootInv, TurnInv, Decided, MisspeltTo, SavedInv, NewestWrite,
      llmVars, llmBootVars, worldVars, storeVars
<1>2. ASSUME NEW patch \in Patches, PatchConfig(patch) PROVE LlmInv'
  <2>1. patch \in [backend : Backends \cup {Unset}, model : Models \cup {Unset},
                   id : CustomIds \cup {"", Unset}]
    BY LlmAssumption
  <2> QED BY <1>2, <2>1, PatchKeepsLlm DEF PatchConfig, Act, llmBootVars
<1>3. CASE ApplyEnv
  <2>1. CASE UNCHANGED <<llm, inForce, writes>>
    <3>1. llmBoot = "syncing" /\ llmBoot' = "up"
          /\ UNCHANGED <<turn, llmFaults, saved, foreign, applying, worldVars>>
      BY <1>3 DEF ApplyEnv
    <3> QED
      BY <2>1, <3>1
      DEF LlmInv, LlmTyped, LlmTypeOK, BootInv, TurnInv, Decided, MisspeltTo, SavedInv,
          NewestWrite, worldVars
  <2>2. CASE /\ PatchWith([backend |-> EnvBackend, model |-> EnvModel, id |-> Unset])
             /\ Unset \notin {EnvBackend, EnvModel}
    <3>1. [backend |-> EnvBackend, model |-> EnvModel, id |-> Unset]
              \in [backend : Backends \cup {Unset}, model : Models \cup {Unset},
                   id : CustomIds \cup {"", Unset}]
      BY LlmAssumption
    <3> QED BY <1>3, <2>2, <3>1, PatchKeepsLlm DEF ApplyEnv
  <2> QED BY <1>3, <2>1, <2>2 DEF ApplyEnv
<1> QED
  BY <1>1, <1>2, <1>3, TurnKeepsLlm, OperatorKeepsLlm, ApplyKeepsLlm, WritesKeepLlm, BootKeepsLlm
  DEF LlmNext

\* The configuration, the turns and what is saved keep their types.
THEOREM LlmKeepsTypes == LlmSpec => []LlmTypeOK
<1>1. LlmInv => LlmTypeOK
  BY DEF LlmInv, LlmTyped
<1> QED BY <1>1, LlmFirst, LlmStep, PTL DEF LlmSpec

\* However the operator patches while turns are under way, each goes out by a
\* backend and with a model that were in force since it was called.
THEOREM RequestsAreOfTheirTime == LlmSpec => []RequestOfItsTime
<1>1. LlmInv => RequestOfItsTime
  BY DEF LlmInv, TurnInv, Decided, MisspeltTo, RequestOfItsTime
<1> QED BY <1>1, LlmFirst, LlmStep, PTL DEF LlmSpec

\* What getReadiness() calls inoperative makes no request.
THEOREM UnreadyStaysSilent == LlmSpec => []UnreadyDecidesNothing
<1>1. LlmInv => UnreadyDecidesNothing
  BY DEF LlmInv, TurnInv, Decided, MisspeltTo, UnreadyDecidesNothing
<1> QED BY <1>1, LlmFirst, LlmStep, PTL DEF LlmSpec

\* Once its writes have run, what is saved is what is in memory.
THEOREM SavedIsWhatIsInForce == LlmSpec => []SavedFollowsMemory
<1>1. LlmInv => SavedFollowsMemory
  BY DEF LlmInv, SavedInv, SavedFollowsMemory
<1> QED BY <1>1, LlmFirst, LlmStep, PTL DEF LlmSpec

-----------------------------------------------------------------------------
(* The files behind the database.                                          *)

\* A database whose schema is its history.
SoundDb ==
    {d \in [file : {"none", "garbage", "whole"}, data : 0..MaxData,
            ran : [Migrations -> Nat], history : SUBSET Migrations] :
        \A m \in Migrations :
            /\ d.ran[m] = IF m \in d.history THEN 1 ELSE 0
            /\ m \in d.history => \A k \in Migrations : k < m => k \in d.history}

SealedFile ==
    [file : {"none", "garbage", "whole"}, pass : Passphrases \cup {""}, db : SoundDb,
     env : -1..MaxEnv]

\* Every database that is written down anywhere is sound, so restoring one
\* brings none back that is not.
FilesSound ==
    /\ db \in SoundDb /\ env \in -1..MaxEnv
    /\ backups \in [Days -> SealedFile]
    /\ sealing \in [Backups -> [pc : {"idle", "sealing"}, day : 0..DayCount, payload : SealedFile]]
    /\ restore \in [pc : {"idle", "opening", "copyDb", "writeDb", "copyEnv", "writeEnv"},
                    payload : SealedFile]

\* A release brings the first migrations there are; no restore is under way
\* where no process serves.
ReleaseInv ==
    /\ \E n \in Migrations : shipped = 1..n
    /\ process \in {"down", "migrating", "up"}
    /\ restore.pc # "idle" => process = "up"
    /\ today \in Days /\ crashes \in 0..MaxCrashes /\ restores \in 0..MaxRestores

\* A file is copied before it is written over, and nothing writes in between.
KeptInv ==
    /\ ReplacedIsKept
    /\ copies = [dbs |-> copies.dbs, envs |-> copies.envs]
    /\ replaced = [dbs |-> replaced.dbs, envs |-> replaced.envs]
    /\ restore.pc = "writeDb" => db \in copies.dbs
    /\ restore.pc = "writeEnv" => {env} \ {0} \subseteq copies.envs

\* What is being sealed was there at one time, as what is there now.
MomentInv ==
    /\ BackupIsOneMoment /\ <<db, env>> \in moments
    /\ \A b \in Backups :
           sealing[b].pc = "sealing" =>
               <<sealing[b].payload.db, sealing[b].payload.env>> \in moments

RecoveryInv == FilesSound /\ ReleaseInv /\ ServesMigrated /\ KeptInv /\ MomentInv

\* The bounds are the numbers their comments say.
LEMMA RecoveryBounds ==
    /\ MigrationCount \in Nat /\ MaxData \in Nat /\ MaxCrashes \in Nat /\ MaxRestores \in Nat
    /\ DayCount \in Nat \ {0} /\ MaxEnv \in Nat \ {0}
BY RecoveryAssumption

\* The files there are before anything is written are sound.
LEMMA EmptyFilesSound ==
    /\ NoFile \in SoundDb /\ CutShort \in SoundDb
    /\ NoBackup \in SealedFile /\ [NoBackup EXCEPT !.file = "garbage"] \in SealedFile
    /\ NotSealing.payload \in SealedFile /\ NotRestoring.payload \in SealedFile
<1>1. NoFile \in SoundDb /\ CutShort \in SoundDb
  BY RecoveryBounds DEF NoFile, CutShort, SoundDb
<1>2. 0 \in -1..MaxEnv
  BY RecoveryBounds
<1>3. NoBackup \in SealedFile /\ [NoBackup EXCEPT !.file = "garbage"] \in SealedFile
  BY <1>1, <1>2 DEF NoBackup, SealedFile
<1> QED BY <1>1, <1>3 DEF NotSealing, NotRestoring

\* The next migration is the first that is not there.
LEMMA NextIsFirst ==
    ASSUME NEW n \in Migrations, shipped = 1..n, Pending # {}
    PROVE  /\ NextMigration \in Pending /\ NextMigration \in Migrations
           /\ \A k \in Migrations : k < NextMigration => k \in db.history
<1> DEFINE Order == OpToRel(<, Nat)
<1>1. IsWellFoundedOn(Order, Nat)
  BY NatLessThanWellFounded
<1>2. \A x, y \in Nat : x < y => <<x, y>> \in Order
  BY DEF OpToRel
<1>3. Pending \subseteq Migrations /\ Migrations \subseteq Nat
  BY RecoveryBounds DEF Pending, Migrations
<1> HIDE DEF Order
<1>4. PICK first \in Pending : \A m \in Pending : ~ (<<m, first>> \in Order)
  BY <1>1, <1>3, WFMin
<1>5. ASSUME NEW k \in Pending PROVE first <= k
  <2>1. first \in Nat /\ k \in Nat /\ ~ (k < first)
    BY <1>2, <1>3, <1>4
  <2> QED BY <2>1
<1>6. NextMigration \in Pending /\ \A k \in Pending : NextMigration <= k
  BY <1>5 DEF NextMigration
<1>7. ASSUME NEW k \in Migrations, k < NextMigration PROVE k \in db.history
  <2>1. k \notin Pending
    BY <1>3, <1>6, <1>7
  <2>2. k \in 1..n
    BY <1>3, <1>6, <1>7, RecoveryBounds DEF Pending, Migrations
  <2> QED BY <2>1, <2>2 DEF Pending
<1> QED BY <1>3, <1>6, <1>7

\* A stopped process leaves no call under way.
LEMMA StopsFacts ==
    ASSUME Stops, RecoveryInv
    PROVE  /\ sealing' \in [Backups -> [pc : {"idle", "sealing"}, day : 0..DayCount,
                                        payload : SealedFile]]
           /\ restore' \in [pc : {"idle", "opening", "copyDb", "writeDb", "copyEnv", "writeEnv"},
                            payload : SealedFile]
           /\ \A b \in Backups : sealing'[b].pc = "idle"
           /\ restore'.pc = "idle" /\ process' = "down" /\ crashes' \in 0..MaxCrashes
<1>1. crashes \in Nat /\ crashes' = crashes + 1 /\ crashes < MaxCrashes
  BY RecoveryBounds DEF Stops, RecoveryInv, ReleaseInv
<1>2. crashes' \in 0..MaxCrashes
  BY <1>1, RecoveryBounds
<1>3. NotSealing \in [pc : {"idle", "sealing"}, day : 0..DayCount, payload : SealedFile]
  BY EmptyFilesSound, RecoveryBounds DEF NotSealing
<1>4. NotRestoring \in [pc : {"idle", "opening", "copyDb", "writeDb", "copyEnv", "writeEnv"},
                        payload : SealedFile]
  BY EmptyFilesSound DEF NotRestoring
<1> QED BY <1>2, <1>3, <1>4 DEF Stops, NotSealing, NotRestoring

\* Applying a migration keeps a database sound.
LEMMA MigrationSound ==
    ASSUME NEW d \in SoundDb, NEW m \in Migrations, m \notin d.history,
           \A k \in Migrations : k < m => k \in d.history
    PROVE  [d EXCEPT !.ran[m] = @ + 1, !.history = @ \cup {m}] \in SoundDb
<1> DEFINE e == [d EXCEPT !.ran[m] = @ + 1, !.history = @ \cup {m}]
<1>1. /\ e.file = d.file /\ e.data = d.data
      /\ e.ran = [d.ran EXCEPT ![m] = @ + 1] /\ e.history = d.history \cup {m}
  BY DEF SoundDb
<1>2. d.ran[m] = 0 /\ e.ran \in [Migrations -> Nat] /\ e.ran[m] = 1
  BY <1>1 DEF SoundDb
<1>3. e \in [file : {"none", "garbage", "whole"}, data : 0..MaxData,
            ran : [Migrations -> Nat], history : SUBSET Migrations]
  BY <1>1, <1>2 DEF SoundDb
<1>4. ASSUME NEW k \in Migrations PROVE e.ran[k] = IF k \in e.history THEN 1 ELSE 0
  BY <1>1, <1>2 DEF SoundDb
<1>5. ASSUME NEW k \in Migrations, k \in e.history, NEW j \in Migrations, j < k
      PROVE  j \in e.history
  BY <1>1, <1>5 DEF SoundDb
<1> QED BY <1>3, <1>4, <1>5 DEF SoundDb

\* The first boot finds the files sound.
LEMMA RecoveryFirst == RecoveryInit => RecoveryInv
<1> SUFFICES ASSUME RecoveryInit PROVE RecoveryInv OBVIOUS
<1>1. FilesSound
  BY EmptyFilesSound, RecoveryBounds
  DEF RecoveryInit, FilesSound, NotSealing, NotRestoring, Days
<1>2. ReleaseInv
  BY RecoveryBounds DEF RecoveryInit, ReleaseInv, NotRestoring, Days
<1>3. ServesMigrated /\ KeptInv /\ MomentInv
  BY DEF RecoveryInit, ServesMigrated, KeptInv, ReplacedIsKept, NoneKept, MomentInv,
         BackupIsOneMoment, NoBackup, NotSealing, NotRestoring
<1> QED BY <1>1, <1>2, <1>3 DEF RecoveryInv

\* Booting keeps the files sound.
LEMMA BootKeepsFiles ==
    ASSUME RecoveryInv,
           \/ OpenDatabase \/ ApplyMigration \/ MigrationFails \/ StartServing
           \/ ServerStops \/ Upgrade
    PROVE  RecoveryInv'
<1> USE DEF RecoveryInv
<1>1. CASE OpenDatabase
  <2>1. db' \in SoundDb /\ db'.history = db.history
    BY <1>1 DEF OpenDatabase, FilesSound, SoundDb
  <2> QED
    BY <1>1, <2>1
    DEF OpenDatabase, Moment, FilesSound, ReleaseInv, ServesMigrated, KeptInv, ReplacedIsKept,
        MomentInv, BackupIsOneMoment
<1>2. CASE ApplyMigration
  <2>1. PICK n \in Migrations : shipped = 1..n
    BY DEF ReleaseInv
  <2>2. /\ NextMigration \in Migrations /\ NextMigration \notin db.history
        /\ \A k \in Migrations : k < NextMigration => k \in db.history
    BY <1>2, <2>1, NextIsFirst DEF ApplyMigration, Pending
  <2>3. db' \in SoundDb
    BY <1>2, <2>2, MigrationSound DEF ApplyMigration, FilesSound
  <2> QED
    BY <1>2, <2>3
    DEF ApplyMigration, Moment, FilesSound, ReleaseInv, ServesMigrated, KeptInv, ReplacedIsKept,
        MomentInv, BackupIsOneMoment, restoreVars, processVars
<1>3. CASE MigrationFails
  <2>1. crashes' \in 0..MaxCrashes
    BY <1>3, RecoveryBounds DEF MigrationFails, ReleaseInv
  <2> QED
    BY <1>3, <2>1
    DEF MigrationFails, FilesSound, ReleaseInv, ServesMigrated, KeptInv, ReplacedIsKept,
        MomentInv, BackupIsOneMoment, restoreVars, fileVars
<1>4. CASE StartServing
  BY <1>4
  DEF StartServing, Pending, FilesSound, ReleaseInv, ServesMigrated, KeptInv, ReplacedIsKept,
      MomentInv, BackupIsOneMoment, restoreVars, fileVars
<1>5. CASE ServerStops
  BY <1>5, StopsFacts
  DEF ServerStops, FilesSound, ReleaseInv, ServesMigrated, KeptInv, ReplacedIsKept,
      MomentInv, BackupIsOneMoment, fileVars
<1>6. CASE Upgrade
  <2>1. PICK n \in Migrations : shipped = 1..n
    BY DEF ReleaseInv
  <2>2. n \in Nat /\ n + 1 \in Migrations
    BY <1>6, <2>1, RecoveryBounds DEF Upgrade, Migrations
  <2>3. Cardinality(shipped) = n
    BY <2>1, <2>2, FS_Interval
  <2>4. shipped' = 1..(n + 1)
    BY <1>6, <2>1, <2>2, <2>3 DEF Upgrade
  <2> QED
    BY <1>6, <2>2, <2>4
    DEF Upgrade, FilesSound, ReleaseInv, ServesMigrated, KeptInv, ReplacedIsKept,
        MomentInv, BackupIsOneMoment, restoreVars, fileVars
<1> QED BY <1>1, <1>2, <1>3, <1>4, <1>5, <1>6

\* So does the running platform.
LEMMA RunningKeepsFiles ==
    ASSUME RecoveryInv,
           \/ WriteData \/ WriteCredential \/ WriteCredentialStops \/ DayPasses
    PROVE  RecoveryInv'
<1> USE DEF RecoveryInv
<1>1. CASE WriteData
  <2>1. db' \in SoundDb /\ db'.history = db.history
    BY <1>1, RecoveryBounds DEF WriteData, FilesSound, SoundDb
  <2> QED
    BY <1>1, <2>1
    DEF WriteData, Idle, Moment, FilesSound, ReleaseInv, ServesMigrated, KeptInv, ReplacedIsKept,
        MomentInv, BackupIsOneMoment, restoreVars, processVars
<1>2. CASE WriteCredential
  <2>1. env' \in -1..MaxEnv
    BY <1>2, RecoveryBounds DEF WriteCredential
  <2> QED
    BY <1>2, <2>1
    DEF WriteCredential, Idle, Moment, FilesSound, ReleaseInv, ServesMigrated, KeptInv,
        ReplacedIsKept, MomentInv, BackupIsOneMoment, restoreVars, processVars
<1>3. CASE WriteCredentialStops
  <2>1. env' \in -1..MaxEnv
    BY <1>3, RecoveryBounds DEF WriteCredentialStops
  <2> QED
    BY <1>3, <2>1, StopsFacts
    DEF WriteCredentialStops, Moment, FilesSound, ReleaseInv, ServesMigrated, KeptInv,
        ReplacedIsKept, MomentInv, BackupIsOneMoment
<1>4. CASE DayPasses
  BY <1>4
  DEF DayPasses, FilesSound, ReleaseInv, ServesMigrated, KeptInv, ReplacedIsKept,
      MomentInv, BackupIsOneMoment, restoreVars, fileVars
<1> QED BY <1>1, <1>2, <1>3, <1>4

\* So does sealing a backup.
LEMMA SealingKeepsFiles ==
    ASSUME RecoveryInv, NEW b \in Backups,
           \/ WriteBackup(b) \/ WriteBackupStops(b)
           \/ \E pass \in Passphrases : CollectPayload(b, pass)
    PROVE  RecoveryInv'
<1> USE DEF RecoveryInv
<1>1. CASE WriteBackup(b)
  <2>1. sealing[b].payload \in SealedFile
    BY DEF FilesSound
  <2>2. NotSealing \in [pc : {"idle", "sealing"}, day : 0..DayCount, payload : SealedFile]
    BY EmptyFilesSound, RecoveryBounds DEF NotSealing
  <2>3. FilesSound'
    BY <1>1, <2>1, <2>2 DEF WriteBackup, FilesSound, restoreVars, fileVars
  <2>4. MomentInv'
    BY <1>1
    DEF WriteBackup, FilesSound, MomentInv, BackupIsOneMoment, NotSealing, restoreVars, fileVars
  <2> QED
    BY <1>1, <2>3, <2>4
    DEF WriteBackup, ReleaseInv, ServesMigrated, KeptInv, ReplacedIsKept, restoreVars, fileVars,
        processVars
<1>2. CASE WriteBackupStops(b)
  <2>1. FilesSound'
    BY <1>2, StopsFacts, EmptyFilesSound DEF WriteBackupStops, FilesSound, fileVars
  <2>2. MomentInv'
    BY <1>2, StopsFacts
    DEF WriteBackupStops, FilesSound, MomentInv, BackupIsOneMoment, NoBackup, fileVars
  <2> QED
    BY <1>2, <2>1, <2>2, StopsFacts
    DEF WriteBackupStops, ReleaseInv, ServesMigrated, KeptInv, ReplacedIsKept, fileVars
<1>3. ASSUME NEW pass \in Passphrases, CollectPayload(b, pass) PROVE RecoveryInv'
  <2> DEFINE payload == [file |-> "whole", pass |-> pass, db |-> db, env |-> env]
  <2>1. payload \in SealedFile /\ <<payload.db, payload.env>> \in moments
    BY DEF FilesSound, MomentInv, SealedFile
  <2>2. today \in 0..DayCount
    BY RecoveryBounds DEF ReleaseInv, Days
  <2>3. sealing' = [sealing EXCEPT ![b] = [pc |-> "sealing", day |-> today, payload |-> payload]]
    BY <1>3 DEF CollectPayload
  <2> HIDE DEF payload
  <2>4. FilesSound' /\ MomentInv'
    BY <1>3, <2>1, <2>2, <2>3
    DEF CollectPayload, FilesSound, MomentInv, BackupIsOneMoment, restoreVars, fileVars
  <2> QED
    BY <1>3, <2>4
    DEF CollectPayload, ReleaseInv, ServesMigrated, KeptInv, ReplacedIsKept, restoreVars,
        fileVars, processVars
<1> QED BY <1>1, <1>2, <1>3

\* So does a restore, wherever it is cut short.
LEMMA RestoreKeepsFiles ==
    ASSUME RecoveryInv,
           \/ \E d \in Days, pass \in Passphrases : RestoreBackup(d, pass)
           \/ ApplyPayload \/ CopyDatabase \/ WriteDatabase \/ WriteDatabaseStops
           \/ CopyEnv \/ WriteEnv \/ WriteEnvStops
    PROVE  RecoveryInv'
<1> USE DEF RecoveryInv
<1>1. ASSUME NEW d \in Days, NEW pass \in Passphrases, RestoreBackup(d, pass) PROVE RecoveryInv'
  <2>1. backups[d] \in SealedFile
    BY DEF FilesSound
  <2>2. restores' \in 0..MaxRestores
    BY <1>1, RecoveryBounds DEF RestoreBackup, ReleaseInv
  <2> QED
    BY <1>1, <2>1, <2>2
    DEF RestoreBackup, Idle, FilesSound, ReleaseInv, ServesMigrated, KeptInv, ReplacedIsKept,
        MomentInv, BackupIsOneMoment, fileVars, processVars
<1>2. CASE ApplyPayload
  BY <1>2
  DEF ApplyPayload, FilesSound, ReleaseInv, ServesMigrated, KeptInv, ReplacedIsKept,
      MomentInv, BackupIsOneMoment, fileVars, processVars
<1>3. CASE CopyDatabase
  BY <1>3
  DEF CopyDatabase, FilesSound, ReleaseInv, ServesMigrated, KeptInv, ReplacedIsKept,
      MomentInv, BackupIsOneMoment, fileVars, processVars
<1>4. CASE WriteDatabase
  <2>1. db' \in SoundDb
    BY <1>4 DEF WriteDatabase, FilesSound, SealedFile
  <2>2. /\ restore' \in [pc : {"idle", "opening", "copyDb", "writeDb", "copyEnv", "writeEnv"},
                         payload : SealedFile]
        /\ restore'.pc \in {"idle", "copyEnv"}
    BY <1>4, EmptyFilesSound DEF WriteDatabase, FilesSound, NotRestoring
  <2>3. KeptInv'
    BY <1>4, <2>2 DEF WriteDatabase, KeptInv, ReplacedIsKept
  <2> QED
    BY <1>4, <2>1, <2>2, <2>3
    DEF WriteDatabase, Moment, FilesSound, ReleaseInv, ServesMigrated, MomentInv,
        BackupIsOneMoment, processVars
<1>5. CASE WriteDatabaseStops
  <2>1. db' \in SoundDb
    BY <1>5, EmptyFilesSound DEF WriteDatabaseStops
  <2>2. KeptInv'
    BY <1>5, StopsFacts DEF WriteDatabaseStops, KeptInv, ReplacedIsKept
  <2> QED
    BY <1>5, <2>1, <2>2, StopsFacts
    DEF WriteDatabaseStops, Moment, FilesSound, ReleaseInv, ServesMigrated, MomentInv,
        BackupIsOneMoment
<1>6. CASE CopyEnv
  BY <1>6
  DEF CopyEnv, FilesSound, ReleaseInv, ServesMigrated, KeptInv, ReplacedIsKept,
      MomentInv, BackupIsOneMoment, fileVars, processVars
<1>7. CASE WriteEnv
  <2>1. env' \in -1..MaxEnv
    BY <1>7 DEF WriteEnv, FilesSound, SealedFile
  <2>2. KeptInv'
    BY <1>7 DEF WriteEnv, EnvReplaced, NotRestoring, KeptInv, ReplacedIsKept
  <2> QED
    BY <1>7, <2>1, <2>2, EmptyFilesSound
    DEF WriteEnv, Moment, NotRestoring, FilesSound, ReleaseInv, ServesMigrated, MomentInv,
        BackupIsOneMoment, processVars
<1>8. CASE WriteEnvStops
  <2>1. env' \in -1..MaxEnv
    BY <1>8, RecoveryBounds DEF WriteEnvStops
  <2>2. KeptInv'
    BY <1>8, StopsFacts DEF WriteEnvStops, EnvReplaced, KeptInv, ReplacedIsKept
  <2> QED
    BY <1>8, <2>1, <2>2, StopsFacts
    DEF WriteEnvStops, Moment, FilesSound, ReleaseInv, ServesMigrated, MomentInv,
        BackupIsOneMoment
<1> QED BY <1>1, <1>2, <1>3, <1>4, <1>5, <1>6, <1>7, <1>8

\* Every step keeps the invariant.
LEMMA RecoveryStep == RecoveryInv /\ [RecoveryNext]_recoveryVars => RecoveryInv'
<1> SUFFICES ASSUME RecoveryInv, [RecoveryNext]_recoveryVars PROVE RecoveryInv' OBVIOUS
<1>1. CASE UNCHANGED recoveryVars
  BY <1>1
  DEF RecoveryInv, recoveryVars, FilesSound, ReleaseInv, ServesMigrated, KeptInv, ReplacedIsKept,
      MomentInv, BackupIsOneMoment
<1>2. CASE RecoveryNext
  BY <1>2, BootKeepsFiles, RunningKeepsFiles, SealingKeepsFiles, RestoreKeepsFiles
  DEF RecoveryNext
<1> QED BY <1>1, <1>2

\* The files keep their types, and every counter its bound.
THEOREM RecoveryKeepsTypes == RecoverySpec => []RecoveryTypeOK
<1>1. RecoveryInv => RecoveryTypeOK
  <2> SUFFICES ASSUME RecoveryInv PROVE RecoveryTypeOK OBVIOUS
  <2>1. shipped \subseteq Migrations
    BY RecoveryBounds DEF RecoveryInv, ReleaseInv, Migrations
  <2>2. /\ db \in [file : {"none", "garbage", "whole"}, data : 0..MaxData,
                   ran : [Migrations -> Nat], history : SUBSET Migrations]
        /\ env \in -1..MaxEnv
    BY DEF RecoveryInv, FilesSound, SoundDb
  <2>3. /\ \A b \in Backups : sealing[b].pc \in {"idle", "sealing"}
        /\ restore.pc \in {"idle", "opening", "copyDb", "writeDb", "copyEnv", "writeEnv"}
    BY DEF RecoveryInv, FilesSound
  <2> QED BY <2>1, <2>2, <2>3 DEF RecoveryInv, RecoveryTypeOK, ReleaseInv
<1> QED BY <1>1, RecoveryFirst, RecoveryStep, PTL DEF RecoverySpec

\* On the database in force, and on any that a restore may bring back, a script
\* has run exactly where its row says so, and behind all that come before it.
THEOREM SchemaFollowsHistory == RecoverySpec => []SchemaIsItsHistory
<1>1. RecoveryInv => SchemaIsItsHistory
  BY DEF RecoveryInv, FilesSound, SoundDb, SchemaIsItsHistory
<1> QED BY <1>1, RecoveryFirst, RecoveryStep, PTL DEF RecoverySpec

\* runMigrations lets no process serve an older schema than its release needs.
THEOREM ServesOnlyMigrated == RecoverySpec => []ServesMigrated
<1>1. RecoveryInv => ServesMigrated
  BY DEF RecoveryInv
<1> QED BY <1>1, RecoveryFirst, RecoveryStep, PTL DEF RecoverySpec

\* No restore loses what it writes over, wherever the process stops.
THEOREM RestoreLosesNothing == RecoverySpec => []ReplacedIsKept
<1>1. RecoveryInv => ReplacedIsKept
  BY DEF RecoveryInv, KeptInv
<1> QED BY <1>1, RecoveryFirst, RecoveryStep, PTL DEF RecoverySpec

\* A backup is of one moment, whatever is written while its key is derived.
THEOREM BackupsAreOfOneMoment == RecoverySpec => []BackupIsOneMoment
<1>1. RecoveryInv => BackupIsOneMoment
  BY DEF RecoveryInv, MomentInv
<1> QED BY <1>1, RecoveryFirst, RecoveryStep, PTL DEF RecoverySpec

-----------------------------------------------------------------------------
(* The reloading of plugins.                                               *)

Manifest(p) == <<p, "manifest.toml">>
Update == [plugin : Extensions, version : 0..MaxVersion]

ReloadTyped ==
    /\ HotReloadTypeOK
    /\ disk \in [Paths -> 0..MaxVersion] /\ updates \in Seq(Update)
    /\ untold \subseteq Paths /\ missed \subseteq Extensions

\* What a timer has run and what it has left are the debounce together.
TimersInv ==
    /\ ToldWhenQuiet
    /\ \A f \in Paths : debounceTimers[f] # Off => quiet[f] + debounceTimers[f] = DEBOUNCE

\* The newest update under way of a plugin.
NewestOf(p, i) ==
    /\ i \in 1..Len(updates) /\ updates[i].plugin = p
    /\ \A j \in 1..Len(updates) : i < j => updates[j].plugin # p

\* Where no timer runs, the newest update brings the manifest on disk, and a row
\* that no update is under way for has it already.
UpdatesInv ==
    \A p \in Extensions \ missed : debounceTimers[Manifest(p)] = Off =>
        /\ \A i \in 1..Len(updates) : NewestOf(p, i) => updates[i].version = disk[Manifest(p)]
        /\ (\A i \in 1..Len(updates) : updates[i].plugin # p) => shownRow[p] = disk[Manifest(p)]

ReloadInv == ReloadTyped /\ TimersInv /\ UpdatesInv

\* The bounds are the numbers their comments say.
LEMMA ReloadBounds ==
    /\ DEBOUNCE \in Nat \ {0} /\ Off \in Nat /\ Off > DEBOUNCE
    /\ MaxVersion \in Nat /\ MaxReloadFaults \in Nat
BY HotReloadAssumption DEF Off

\* The files of a plugin are paths.
LEMMA PathsOf ==
    /\ \A p \in Extensions : Manifest(p) \in Paths
    /\ \A f \in Paths : f[1] \in Extensions /\ (f[2] = "manifest.toml" => f = Manifest(f[1]))
    /\ \A p, q \in Extensions : Manifest(p) = Manifest(q) => p = q
BY DEF Paths, Files, Manifest

\* Nothing has been edited yet.
LEMMA ReloadFirst == HotReloadInit => ReloadInv
<1> SUFFICES ASSUME HotReloadInit PROVE ReloadInv OBVIOUS
<1>1. ReloadTyped
  BY ReloadBounds DEF HotReloadInit, ReloadTyped, HotReloadTypeOK
<1>2. TimersInv
  BY DEF HotReloadInit, TimersInv, ToldWhenQuiet
<1>3. UpdatesInv
  BY PathsOf DEF HotReloadInit, UpdatesInv
<1> QED BY <1>1, <1>2, <1>3 DEF ReloadInv

\* An edit starts the timer of its file.
LEMMA EditKeepsReload ==
    ASSUME ReloadInv, NEW f \in Paths, Edit(f)
    PROVE  ReloadInv'
<1> USE DEF ReloadInv
<1>0. /\ disk' \in [Paths -> 0..MaxVersion] /\ f[1] \in Extensions
      /\ DEBOUNCE \in 0..Off /\ 0 \in 0..DEBOUNCE /\ DEBOUNCE # Off /\ 0 + DEBOUNCE = DEBOUNCE
  BY ReloadBounds, PathsOf DEF Edit, ReloadTyped
<1>t. ReloadTyped' /\ TimersInv'
  <2>1. CASE f[1] \in watched
    <3>1. /\ debounceTimers' = [debounceTimers EXCEPT ![f] = DEBOUNCE]
          /\ quiet' = [quiet EXCEPT ![f] = 0] /\ untold' = untold \cup {f} /\ missed' = missed
          /\ UNCHANGED <<enabledRows, watched, watcherUp, reloadFaults, switches, shownRow, updates,
                         told>>
      BY <2>1 DEF Edit
    <3>2. ReloadTyped'
      BY <1>0, <3>1 DEF ReloadTyped, HotReloadTypeOK
    <3>3. TimersInv'
      BY <1>0, <3>1 DEF ReloadTyped, HotReloadTypeOK, TimersInv, ToldWhenQuiet
    <3> QED BY <3>2, <3>3
  <2>2. CASE f[1] \notin watched
    <3>1. /\ UNCHANGED <<debounceTimers, quiet, untold, enabledRows, watched, watcherUp,
                         reloadFaults,
                         switches, shownRow, updates, told>>
          /\ missed' = IF f[2] = "manifest.toml" THEN missed \cup {f[1]} ELSE missed
      BY <2>2 DEF Edit, seenVars
    <3> QED BY <1>0, <3>1 DEF ReloadTyped, HotReloadTypeOK, TimersInv, ToldWhenQuiet
  <2> QED BY <2>1, <2>2
<1>3. UpdatesInv'
  <2> SUFFICES ASSUME NEW p \in Extensions \ missed', debounceTimers'[Manifest(p)] = Off
               PROVE  /\ f # Manifest(p) /\ p \notin missed
                      /\ debounceTimers[Manifest(p)] = Off /\ disk'[Manifest(p)] = disk[Manifest(p)]
    BY DEF UpdatesInv, NewestOf, Edit
  <2>1. f # Manifest(p)
    <3> SUFFICES ASSUME f = Manifest(p) PROVE FALSE OBVIOUS
    <3>1. f[1] = p /\ f[2] = "manifest.toml"
      BY DEF Manifest
    <3>2. CASE p \in watched
      BY <3>1, <3>2, ReloadBounds DEF Edit, ReloadTyped, HotReloadTypeOK
    <3>3. CASE p \notin watched
      BY <3>1, <3>3 DEF Edit
    <3> QED BY <3>2, <3>3
  <2>2. Manifest(p) \in Paths
    BY PathsOf
  <2> QED
    BY <2>1, <2>2 DEF Edit, ReloadTyped, HotReloadTypeOK, seenVars
<1> QED BY <1>t, <1>3

\* A change that is handled hands over the manifest on disk.
LEMMA HandleKeepsReload ==
    ASSUME ReloadInv, NEW f \in Paths, HandleChange(f)
    PROVE  ReloadInv'
<1> USE DEF ReloadInv
<1>0. updates \in Seq(Update) /\ f[1] \in Extensions /\ disk[f] \in 0..MaxVersion
  BY PathsOf DEF ReloadTyped
<1>1. ReloadTyped'
  <2>1. [plugin |-> f[1], version |-> disk[f]] \in Update
    BY <1>0 DEF Update
  <2>2. updates' \in Seq(Update)
    BY <1>0, <2>1 DEF HandleChange
  <2> QED
    BY <1>0, <2>2, ReloadBounds DEF HandleChange, ReloadTyped, HotReloadTypeOK
<1>2. TimersInv'
  BY ReloadBounds
  DEF HandleChange, ReloadTyped, HotReloadTypeOK, TimersInv, ToldWhenQuiet
<1>3. CASE f[2] # "manifest.toml"
  <2>1. UpdatesInv'
    <3> SUFFICES ASSUME NEW p \in Extensions \ missed', debounceTimers'[Manifest(p)] = Off
                 PROVE  p \notin missed /\ debounceTimers[Manifest(p)] = Off
      BY <1>3 DEF UpdatesInv, NewestOf, HandleChange
    <3>1. f # Manifest(p) /\ Manifest(p) \in Paths
      BY <1>3, PathsOf DEF Manifest
    <3> QED BY <1>3, <3>1 DEF HandleChange, ReloadTyped, HotReloadTypeOK
  <2> QED BY <1>1, <1>2, <2>1
<1>4. CASE f[2] = "manifest.toml"
  <2> DEFINE u == [plugin |-> f[1], version |-> disk[f]]
  <2>1. /\ updates' = Append(updates, u) /\ u \in Update
        /\ Len(updates') = Len(updates) + 1 /\ Len(updates) \in Nat
        /\ updates'[Len(updates) + 1] = u
        /\ \A i \in 1..Len(updates) : updates'[i] = updates[i]
    BY <1>0, <1>4 DEF HandleChange, Update
  <2>2. f = Manifest(f[1]) /\ disk' = disk /\ shownRow' = shownRow /\ missed' = missed \ {f[1]}
    BY <1>4, PathsOf DEF HandleChange
  <2>3. ASSUME NEW p \in Extensions \ missed', debounceTimers'[Manifest(p)] = Off
        PROVE  /\ \A i \in 1..Len(updates') :
                      NewestOf(p, i)' => updates'[i].version = disk'[Manifest(p)]
               /\ (\A i \in 1..Len(updates') : updates'[i].plugin # p) =>
                      shownRow'[p] = disk'[Manifest(p)]
    <3>1. CASE p = f[1]
      <4>1. u.plugin = p /\ u.version = disk[Manifest(p)]
        BY <2>2, <3>1
      <4> HIDE DEF u
      <4>2. Len(updates) + 1 \in 1..Len(updates')
        BY <2>1
      <4>3. \A i \in 1..Len(updates') : NewestOf(p, i)' => i = Len(updates) + 1
        BY <2>1, <4>1, <4>2 DEF NewestOf
      <4> QED BY <2>1, <2>2, <4>1, <4>2, <4>3
    <3>2. CASE p # f[1]
      <4>1. p \notin missed /\ u.plugin # p
        BY <2>2, <3>2
      <4> HIDE DEF u
      <4>2. debounceTimers[Manifest(p)] = Off
        <5>1. f # Manifest(p) /\ Manifest(p) \in Paths
          BY <2>2, <3>2, PathsOf
        <5> QED BY <2>3, <5>1 DEF HandleChange, ReloadTyped, HotReloadTypeOK
      <4>3. ASSUME NEW i \in 1..Len(updates'), NewestOf(p, i)'
            PROVE  i \in 1..Len(updates) /\ NewestOf(p, i)
        <5>1. i # Len(updates) + 1
          BY <2>1, <4>1, <4>3 DEF NewestOf
        <5>2. i \in 1..Len(updates)
          BY <2>1, <5>1
        <5> QED BY <2>1, <4>3, <5>2 DEF NewestOf
      <4>4. /\ \A i \in 1..Len(updates) : NewestOf(p, i) => updates[i].version = disk[Manifest(p)]
            /\ (\A i \in 1..Len(updates) : updates[i].plugin # p) => shownRow[p] = disk[Manifest(p)]
        BY <4>1, <4>2 DEF UpdatesInv
      <4> QED BY <2>1, <2>2, <4>3, <4>4
    <3> QED BY <3>1, <3>2
  <2>4. UpdatesInv'
    BY <2>3 DEF UpdatesInv
  <2> QED BY <1>1, <1>2, <2>4
<1> QED BY <1>3, <1>4

\* An update that runs, or fails, leaves the newer ones to come.
LEMMA UpdateKeepsReload ==
    ASSUME ReloadInv, UpdateRow
    PROVE  ReloadInv'
<1> USE DEF ReloadInv
<1>0. /\ updates \in Seq(Update) /\ updates # <<>> /\ updates' = Tail(updates)
      /\ Len(updates) \in Nat \ {0} /\ Len(updates') = Len(updates) - 1
      /\ Head(updates) = updates[1] /\ updates[1] \in Update
      /\ \A i \in 1..Len(updates') : updates'[i] = updates[i + 1]
      /\ updates' \in Seq(Update)
  BY DEF UpdateRow, ReloadTyped
<1>1. ReloadTyped'
  <2>1. updates[1].plugin \in Extensions /\ updates[1].version \in 0..MaxVersion
    BY <1>0 DEF Update
  <2>2. /\ shownRow' \in [Extensions -> 0..MaxVersion] /\ missed' \subseteq Extensions
        /\ reloadFaults' \in 0..MaxReloadFaults
    <3>1. CASE shownRow' = [shownRow EXCEPT ![updates[1].plugin] = updates[1].version]
               /\ UNCHANGED <<reloadFaults, missed>>
      BY <2>1, <3>1 DEF ReloadTyped, HotReloadTypeOK
    <3>2. CASE /\ reloadFaults < MaxReloadFaults /\ reloadFaults' = reloadFaults + 1
               /\ missed' = missed \cup {updates[1].plugin} /\ shownRow' = shownRow
      BY <2>1, <3>2, ReloadBounds DEF ReloadTyped, HotReloadTypeOK
    <3> QED BY <1>0, <3>1, <3>2 DEF UpdateRow
  <2> QED BY <1>0, <2>2 DEF UpdateRow, ReloadTyped, HotReloadTypeOK, seenVars
<1>2. TimersInv'
  BY DEF UpdateRow, TimersInv, ToldWhenQuiet, seenVars
<1>3. ASSUME NEW p \in Extensions \ missed', debounceTimers'[Manifest(p)] = Off
      PROVE  /\ \A i \in 1..Len(updates') :
                    NewestOf(p, i)' => updates'[i].version = disk'[Manifest(p)]
             /\ (\A i \in 1..Len(updates') : updates'[i].plugin # p) =>
                    shownRow'[p] = disk'[Manifest(p)]
  <2>1. p \notin missed /\ debounceTimers[Manifest(p)] = Off /\ disk' = disk
    BY <1>3 DEF UpdateRow, seenVars
  <2>2. /\ \A i \in 1..Len(updates) : NewestOf(p, i) => updates[i].version = disk[Manifest(p)]
        /\ (\A i \in 1..Len(updates) : updates[i].plugin # p) => shownRow[p] = disk[Manifest(p)]
    BY <2>1 DEF UpdatesInv
  <2>3. ASSUME NEW i \in 1..Len(updates'), NewestOf(p, i)'
        PROVE  updates'[i].version = disk'[Manifest(p)]
    <3>1. i + 1 \in 1..Len(updates) /\ updates'[i] = updates[i + 1]
      BY <1>0
    <3>2. \A j \in 1..Len(updates) : i + 1 < j => j - 1 \in 1..Len(updates') /\ i < j - 1
      BY <1>0
    <3>3. NewestOf(p, i + 1)
      BY <1>0, <2>3, <3>1, <3>2 DEF NewestOf
    <3> QED BY <2>1, <2>2, <3>1, <3>3
  <2>4. ASSUME \A i \in 1..Len(updates') : updates'[i].plugin # p
        PROVE  shownRow'[p] = disk'[Manifest(p)]
    <3>1. \A j \in 1..Len(updates) : 1 < j => updates[j].plugin # p
      <4> SUFFICES ASSUME NEW j \in 1..Len(updates), 1 < j PROVE updates[j].plugin # p
        OBVIOUS
      <4>1. j - 1 \in 1..Len(updates') /\ updates'[j - 1] = updates[j]
        BY <1>0
      <4> QED BY <2>4, <4>1
    <3>2. CASE updates[1].plugin = p
      <4>1. NewestOf(p, 1) /\ 1 \in 1..Len(updates)
        BY <1>0, <3>1, <3>2 DEF NewestOf
      <4>2. shownRow' = [shownRow EXCEPT ![p] = updates[1].version]
        BY <1>0, <1>3, <3>2 DEF UpdateRow
      <4> QED BY <2>1, <2>2, <4>1, <4>2 DEF ReloadTyped, HotReloadTypeOK
    <3>3. CASE updates[1].plugin # p
      <4>1. \A j \in 1..Len(updates) : updates[j].plugin # p
        BY <1>0, <3>1, <3>3
      <4>2. shownRow'[p] = shownRow[p]
        BY <1>0, <3>3 DEF UpdateRow, ReloadTyped, HotReloadTypeOK
      <4> QED BY <2>1, <2>2, <4>1, <4>2
    <3> QED BY <3>2, <3>3
  <2> QED BY <2>3, <2>4
<1>4. UpdatesInv'
  BY <1>3 DEF UpdatesInv
<1> QED BY <1>1, <1>2, <1>4

\* Time passes for the timers that run.
LEMMA ElapseKeepsReload ==
    ASSUME ReloadInv, Elapse
    PROVE  ReloadInv'
<1> USE DEF ReloadInv
<1>1. ASSUME NEW f \in Paths
      PROVE  /\ debounceTimers'[f] \in 0..Off /\ quiet'[f] \in 0..DEBOUNCE
             /\ debounceTimers'[f] = Off <=> debounceTimers[f] = Off
             /\ debounceTimers'[f] # Off => quiet'[f] + debounceTimers'[f] = DEBOUNCE
  <2>1. debounceTimers[f] \in 0..Off /\ quiet[f] \in 0..DEBOUNCE
    BY DEF ReloadTyped, HotReloadTypeOK
  <2>2. debounceTimers[f] # Off => quiet[f] + debounceTimers[f] = DEBOUNCE
    BY DEF TimersInv
  <2>3. debounceTimers'[f] =
            IF debounceTimers[f] \in 1..DEBOUNCE THEN debounceTimers[f] - 1 ELSE debounceTimers[f]
    BY DEF Elapse
  <2>4. quiet'[f] = IF quiet[f] < DEBOUNCE THEN quiet[f] + 1 ELSE quiet[f]
    BY DEF Elapse
  <2> QED BY <2>1, <2>2, <2>3, <2>4, ReloadBounds DEF Off
<1>2. ReloadTyped'
  <2>1. debounceTimers' \in [Paths -> 0..Off] /\ quiet' \in [Paths -> 0..DEBOUNCE]
    BY <1>1 DEF Elapse
  <2> QED BY <2>1 DEF Elapse, ReloadTyped, HotReloadTypeOK, diskVars
<1>3. TimersInv'
  BY <1>1 DEF Elapse, ReloadTyped, TimersInv, ToldWhenQuiet
<1>4. UpdatesInv'
  BY <1>1, PathsOf DEF Elapse, UpdatesInv, NewestOf, diskVars
<1> QED BY <1>2, <1>3, <1>4

\* Every step keeps the invariant.
LEMMA ReloadStep == ReloadInv /\ [HotReloadNext]_reloadVars => ReloadInv'
<1> SUFFICES ASSUME ReloadInv, [HotReloadNext]_reloadVars PROVE ReloadInv' OBVIOUS
<1>1. CASE UNCHANGED reloadVars
  BY <1>1
  DEF ReloadInv, ReloadTyped, HotReloadTypeOK, TimersInv, ToldWhenQuiet, UpdatesInv, NewestOf,
      reloadVars, seenVars, diskVars
<1>2. CASE WatchAll
  <2>1. watched' \subseteq Extensions /\ reloadFaults' \in 0..MaxReloadFaults
    BY <1>2, ReloadBounds DEF WatchAll, ReloadInv, ReloadTyped, HotReloadTypeOK
  <2> QED
    BY <1>2, <2>1
    DEF WatchAll, ReloadInv, ReloadTyped, HotReloadTypeOK, TimersInv, ToldWhenQuiet, UpdatesInv,
        NewestOf, seenVars, diskVars
<1>3. ASSUME NEW p \in Extensions, SwitchPlugin(p) PROVE ReloadInv'
  <2>1. enabledRows' \subseteq Extensions
    BY <1>3 DEF SwitchPlugin, ReloadInv, ReloadTyped, HotReloadTypeOK
  <2>2. ReloadTyped'
    BY <1>3, <2>1
    DEF SwitchPlugin, ReloadInv, ReloadTyped, HotReloadTypeOK, seenVars, diskVars
  <2> QED
    BY <1>3, <2>2
    DEF SwitchPlugin, ReloadInv, TimersInv, ToldWhenQuiet, UpdatesInv, NewestOf, seenVars, diskVars
<1>4. ASSUME NEW p \in Extensions, WatcherError(p) PROVE ReloadInv'
  <2>1. watched' \subseteq Extensions /\ reloadFaults' \in 0..MaxReloadFaults
    BY <1>4, ReloadBounds DEF WatcherError, ReloadInv, ReloadTyped, HotReloadTypeOK
  <2>2. ReloadTyped'
    BY <1>4, <2>1
    DEF WatcherError, ReloadInv, ReloadTyped, HotReloadTypeOK, seenVars, diskVars
  <2> QED
    BY <1>4, <2>2
    DEF WatcherError, ReloadInv, TimersInv, ToldWhenQuiet, UpdatesInv, NewestOf, seenVars, diskVars
<1> QED
  BY <1>1, <1>2, <1>3, <1>4, EditKeepsReload, HandleKeepsReload, UpdateKeepsReload,
     ElapseKeepsReload
  DEF HotReloadNext

\* The watchers, timers and rows keep their types.
THEOREM ReloadKeepsTypes == HotReloadSpec => []HotReloadTypeOK
<1>1. ReloadInv => HotReloadTypeOK
  BY DEF ReloadInv, ReloadTyped
<1> QED BY <1>1, ReloadFirst, ReloadStep, PTL DEF HotReloadSpec

\* However files are saved, none is told of before it has been quiet for as long
\* as the debounce, and none that a watcher saw is forgotten.
THEOREM BurstsAreToldOnce == HotReloadSpec => []ToldWhenQuiet
<1>1. ReloadInv => ToldWhenQuiet
  BY DEF ReloadInv, TimersInv
<1> QED BY <1>1, ReloadFirst, ReloadStep, PTL DEF HotReloadSpec

\* The row settles on the manifest that is on disk, in whatever order edits,
\* timers and updates came.
THEOREM RowSettlesOnManifest == HotReloadSpec => []RowFollowsManifest
<1>1. ReloadInv => RowFollowsManifest
  BY DEF ReloadInv, ReloadTyped, UpdatesInv, RowFollowsManifest, Manifest
<1> QED BY <1>1, ReloadFirst, ReloadStep, PTL DEF HotReloadSpec
=============================================================================
