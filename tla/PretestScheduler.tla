---------------------------- MODULE PretestScheduler ---------------------------
(***************************************************************************)
(* PretestSchedulerService (pretest-scheduler.service.ts): a timer whose   *)
(* ticks may overlap at the read of the interval, the slots of wall-clock  *)
(* time the runs are anchored to, and the walk of runAllActive             *)
(* (pretest.service.ts) over the portfolios of one run.                    *)
(***************************************************************************)
EXTENDS Integers, FiniteSets

CONSTANTS
    Ticks,             \* ticks that can be under way at the same time
    Intervals,         \* values of pretest.scheduler_interval_ms; 0 disables it
    DEFAULT_INTERVAL,  \* used when the value cannot be read
    Portfolios,        \* portfolios of pretest
    MaxClock, MaxIntervalEdits, MaxSchedulerFaults  \* bounds

ASSUME PretestSchedulerAssumption ==
    /\ Intervals \subseteq Nat /\ DEFAULT_INTERVAL \in Nat \ {0}
    /\ {MaxClock, MaxIntervalEdits, MaxSchedulerFaults} \subseteq Nat

VARIABLES
    clock,       \* Date.now(), in units no tick can span
    interval,    \* KV pretest.scheduler_interval_ms
    lastRunAt,   \* the slot of the last run
    pretestRunning, \* the overlap guard
    tickOf,      \* each tick: where it is, the interval it read, its slot
    toRun,       \* portfolios the run of a tick has still to execute
    isActive,    \* portfolios that are active
    intervalEdits, schedulerFaults,
    ranAt        \* history: for each portfolio, the slots it was started in by this process

pretestSchedulerVars == <<clock, interval, lastRunAt, pretestRunning, tickOf, toRun, isActive,
                          intervalEdits, schedulerFaults, ranAt>>

CurrentSlot(now, every) == (now \div every) * every
IsDue(every) == CurrentSlot(clock, every) > lastRunAt
OffTimer == [pc |-> "off", every |-> 0, slot |-> 0]

PretestSchedulerInit ==
    /\ clock = 0 /\ lastRunAt = 0
    /\ interval = DEFAULT_INTERVAL
    /\ pretestRunning = FALSE
    /\ tickOf = [k \in Ticks |-> OffTimer]
    /\ toRun = [k \in Ticks |-> {}]
    /\ isActive = Portfolios
    /\ intervalEdits = 0 /\ schedulerFaults = 0
    /\ ranAt = [p \in Portfolios |-> {}]

\* The timer fires; the guard is looked at before the interval is read.
TimerFires(k) ==
    /\ tickOf[k].pc = "off" /\ ~pretestRunning
    /\ tickOf' = [tickOf EXCEPT ![k].pc = "reading"]
    /\ UNCHANGED <<clock, interval, lastRunAt, pretestRunning, toRun, isActive, intervalEdits,
                   schedulerFaults, ranAt>>

IntervalUnreadable(k) ==
    /\ tickOf[k].pc = "reading" /\ schedulerFaults < MaxSchedulerFaults
    /\ schedulerFaults' = schedulerFaults + 1
    /\ tickOf' = [tickOf EXCEPT ![k] = OffTimer]
    /\ UNCHANGED <<clock, interval, lastRunAt, pretestRunning, toRun, isActive, intervalEdits, ranAt>>

\* Mutant: a run does not mark its slot.
TakeSlotUnmarked(k) ==
    /\ pretestRunning' = TRUE
    /\ tickOf' = [tickOf EXCEPT ![k] = [pc |-> "listing", every |-> interval,
                                        slot |-> CurrentSlot(clock, interval)]]
    /\ UNCHANGED lastRunAt

\* Due: from here to the first await of runAllActive nothing intervenes.
TakeSlot(k) ==
    /\ pretestRunning' = TRUE
    /\ lastRunAt' = CurrentSlot(clock, interval)
    /\ tickOf' = [tickOf EXCEPT ![k] = [pc |-> "listing", every |-> interval,
                                        slot |-> CurrentSlot(clock, interval)]]

IntervalRead(k) ==
    /\ tickOf[k].pc = "reading"
    /\ IF interval > 0 /\ IsDue(interval)
       THEN TakeSlot(k)
       ELSE tickOf' = [tickOf EXCEPT ![k] = OffTimer] /\ UNCHANGED <<lastRunAt, pretestRunning>>
    /\ UNCHANGED <<clock, interval, toRun, isActive, intervalEdits, schedulerFaults, ranAt>>

\* runAllActive() lists the active portfolios once.
ListActive(k) ==
    /\ tickOf[k].pc = "listing"
    /\ toRun' = [toRun EXCEPT ![k] = isActive]
    /\ tickOf' = [tickOf EXCEPT ![k].pc = "running"]
    /\ UNCHANGED <<clock, interval, lastRunAt, pretestRunning, isActive, intervalEdits, schedulerFaults,
                   ranAt>>

\* One after the other; runCycle() refuses one switched off meanwhile, and
\* a failure never ends the walk.
RunPortfolio(k) ==
    /\ tickOf[k].pc = "running"
    /\ \E p \in toRun[k] :
         /\ toRun' = [toRun EXCEPT ![k] = @ \ {p}]
         /\ ranAt' = IF p \in isActive THEN [ranAt EXCEPT ![p] = @ \cup {tickOf[k].slot}] ELSE ranAt
    /\ UNCHANGED <<clock, interval, lastRunAt, pretestRunning, tickOf, isActive, intervalEdits,
                   schedulerFaults>>

RunEnds(k) ==
    /\ \/ tickOf[k].pc = "running" /\ toRun[k] = {}
       \/ tickOf[k].pc = "listing" /\ schedulerFaults < MaxSchedulerFaults
    /\ schedulerFaults' = schedulerFaults + (IF tickOf[k].pc = "listing" THEN 1 ELSE 0)
    /\ pretestRunning' = FALSE
    /\ tickOf' = [tickOf EXCEPT ![k] = OffTimer]
    /\ UNCHANGED <<clock, interval, lastRunAt, toRun, isActive, intervalEdits, ranAt>>

ClockAdvances ==
    /\ clock < MaxClock
    /\ clock' = clock + 1
    /\ UNCHANGED <<interval, lastRunAt, pretestRunning, tickOf, toRun, isActive, intervalEdits,
                   schedulerFaults, ranAt>>

OperatorSetsInterval ==
    /\ intervalEdits < MaxIntervalEdits
    /\ interval' \in Intervals \ {interval}
    /\ intervalEdits' = intervalEdits + 1
    /\ UNCHANGED <<clock, lastRunAt, pretestRunning, tickOf, toRun, isActive, schedulerFaults, ranAt>>

OperatorTogglesPortfolio ==
    /\ intervalEdits < MaxIntervalEdits
    /\ \E p \in Portfolios :
         isActive' = IF p \in isActive THEN isActive \ {p} ELSE isActive \cup {p}
    /\ intervalEdits' = intervalEdits + 1
    /\ UNCHANGED <<clock, interval, lastRunAt, pretestRunning, tickOf, toRun, schedulerFaults, ranAt>>

\* onModuleInit() puts lastRunAt at the slot of now, by the interval it
\* reads, or the default one when it reads none.
ProcessRestarts ==
    /\ schedulerFaults < MaxSchedulerFaults
    /\ schedulerFaults' = schedulerFaults + 1
    /\ lastRunAt' \in {CurrentSlot(clock, IF interval > 0 THEN interval ELSE DEFAULT_INTERVAL),
                       CurrentSlot(clock, DEFAULT_INTERVAL)}
    /\ pretestRunning' = FALSE
    /\ tickOf' = [k \in Ticks |-> OffTimer]
    /\ toRun' = [k \in Ticks |-> {}]
    /\ ranAt' = [p \in Portfolios |-> {}]
    /\ UNCHANGED <<clock, interval, isActive, intervalEdits>>

PretestSchedulerNext ==
    \/ \E k \in Ticks : TimerFires(k) \/ IntervalUnreadable(k) \/ IntervalRead(k)
                        \/ ListActive(k) \/ RunPortfolio(k) \/ RunEnds(k)
    \/ ClockAdvances \/ OperatorSetsInterval \/ OperatorTogglesPortfolio \/ ProcessRestarts

PretestSchedulerSpec == PretestSchedulerInit /\ [][PretestSchedulerNext]_pretestSchedulerVars

-----------------------------------------------------------------------------
PretestSchedulerTypeOK ==
    /\ clock \in 0 .. MaxClock /\ lastRunAt \in 0 .. MaxClock
    /\ interval \in Intervals \cup {DEFAULT_INTERVAL} /\ pretestRunning \in BOOLEAN
    /\ tickOf \in [Ticks -> [pc : {"off", "reading", "listing", "running"}, every : Nat, slot : Nat]]
    /\ toRun \in [Ticks -> SUBSET Portfolios] /\ isActive \subseteq Portfolios
    /\ intervalEdits \in 0 .. MaxIntervalEdits /\ schedulerFaults \in 0 .. MaxSchedulerFaults
    /\ ranAt \in [Portfolios -> SUBSET (0 .. MaxClock)]

\* A slot is executed once: two ticks that passed the guard together do not
\* both run it, and no portfolio is started twice in a slot.
SlotRunsOnce ==
    \A j, k \in Ticks :
      tickOf[k].pc \in {"listing", "running"} =>
        /\ tickOf[j].pc \in {"listing", "running"} /\ tickOf[j].slot = tickOf[k].slot => j = k
        /\ \A p \in toRun[k] : tickOf[k].slot \notin ranAt[p]
=============================================================================
