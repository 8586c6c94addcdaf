------------------------------ MODULE LoopProofs ------------------------------
(***************************************************************************)
(* Theorems about the loop that reconciles the account with the broker     *)
(* (ReconciliationLoop), for any ticks, symbols and adoptions and every    *)
(* bound.                                                                  *)
(***************************************************************************)
EXTENDS ReconciliationLoop, TLAPS

LoopTypeOK ==
    /\ breaker \in Breaker
    /\ tickRunning \in BOOLEAN
    /\ timer \in BOOLEAN
    /\ loop \in [Ticks -> TickState]

\* A tick that is about to save a probe saves a half-open breaker.
ProbesInv == \A t \in Ticks : TickAt(t, "probe") => loop[t].cb.state = "half_open"

\* An adoption under way has a symbol.
AdoptersInv ==
    \A a \in Adopters : adopt[a].pc \in {"fetch", "write"} => adopt[a].symbol \in Symbols

LoopInv == LoopTypeOK /\ ProbesInv /\ BreakerConsistent

-----------------------------------------------------------------------------
(* The account.                                                            *)

\* The bounds are the numbers their comments say.
LEMMA Bounds ==
    /\ MaxEquity \in Nat \ {0}
    /\ CB_MAX_FAILURES \in Nat \ {0}
    /\ MaxFaults \in Nat
    /\ MaxQty = 1
BY PortfolioAssumption DEF MaxQty

\* What syncs and adoptions start from has its type.
LEMMA RecordsTyped ==
    /\ IdleSync \in Sync
    /\ [IdleSync EXCEPT !.pc = "fetch"] \in Sync
    /\ IdleAdoption \in Adoption
    /\ ClosedBreaker \in Breaker
    /\ IdleTick \in TickState
    /\ [IdleTick EXCEPT !.pc = "sync"] \in TickState
<1>1. ClosedBreaker \in Breaker
  BY Bounds DEF ClosedBreaker, Breaker
<1>2. IdleTick \in TickState /\ [IdleTick EXCEPT !.pc = "sync"] \in TickState
  BY <1>1 DEF IdleTick, TickState, TickPlaces
<1>3. IdleSync \in Sync /\ [IdleSync EXCEPT !.pc = "fetch"] \in Sync
  BY DEF IdleSync, Sync, SyncPlaces
<1>4. IdleAdoption \in Adoption
  BY DEF IdleAdoption, Adoption
<1> QED BY <1>1, <1>2, <1>3, <1>4

\* onModuleInit leaves typed records behind.
LEMMA BootTyped ==
    /\ Booted(sync, loop) => sync \in [Syncers -> Sync] /\ loop \in [Ticks -> TickState]
    /\ Booted(sync', loop') => sync' \in [Syncers -> Sync] /\ loop' \in [Ticks -> TickState]
BY RecordsTyped DEF Booted

\* The first state is typed.
LEMMA InitTyped == Init => TypeOK
<1> SUFFICES ASSUME Init PROVE TypeOK OBVIOUS
<1>1. /\ stage \in [Orders -> {"free", "recorded", "sent", "taken", "lost"}]
      /\ traded \in [Orders -> 0 .. MaxQty]
      /\ booked \in [Orders -> 0 .. MaxQty]
  BY Bounds DEF Init, Path!Init
<1>2. sync \in [Syncers -> Sync] /\ loop \in [Ticks -> TickState]
  BY BootTyped DEF Init
<1>3. adopt \in [Adopters -> Adoption] /\ breaker \in Breaker
  BY RecordsTyped DEF Init
<1>4. hwm \in 0 .. MaxEquity /\ faults \in 0 .. MaxFaults
  BY Bounds DEF Init
<1> QED BY <1>1, <1>2, <1>3, <1>4 DEF Init, TypeOK, AccountTypeOK

\* A fault is counted.
LEMMA FaultTyped == ASSUME AccountTypeOK, Fault PROVE faults' \in 0 .. MaxFaults
BY Bounds DEF AccountTypeOK, Fault

\* The orders keep their types.
LEMMA PathTyped ==
    ASSUME AccountTypeOK, Path!Next
    PROVE  /\ stage' \in [Orders -> {"free", "recorded", "sent", "taken", "lost"}]
           /\ traded' \in [Orders -> 0 .. MaxQty]
           /\ booked' \in [Orders -> 0 .. MaxQty]
<1>1. PICK o \in Orders : Path!Record(o) \/ Path!Send(o) \/ Path!Take(o) \/ Path!Lose(o)
                          \/ Path!Trade(o) \/ Path!Book(o)
  BY DEF Path!Next
<1>2. CASE Path!Record(o) \/ Path!Send(o) \/ Path!Take(o) \/ Path!Lose(o)
  BY <1>2 DEF AccountTypeOK, Path!Record, Path!Send, Path!Take, Path!Lose, Path!Move
<1>3. CASE Path!Trade(o)
  BY <1>3, Bounds DEF AccountTypeOK, Path!Trade
<1>4. CASE Path!Book(o)
  BY <1>4, Bounds DEF AccountTypeOK, Path!Book
<1> QED BY <1>1, <1>2, <1>3, <1>4

\* syncPortfolio and detectDrift keep the types and leave the loop alone.
LEMMA SyncTyped ==
    ASSUME AccountTypeOK, NEW p \in Syncers, SyncStep(p)
    PROVE  AccountTypeOK'
<1>1. CASE FetchPortfolio(p)
  <2>1. Held \in SUBSET Symbols
    BY PortfolioAssumption DEF AccountTypeOK, Held
  <2>2. PICK fetched \in {Held, {}} :
          /\ sync' = [sync EXCEPT ![p] = [@ EXCEPT !.pc = "commit", !.todo = fetched]]
          /\ IF fetched = Held THEN UNCHANGED faults ELSE Fault
    BY <1>1 DEF FetchPortfolio
  <2>3. sync' \in [Syncers -> Sync]
    BY <2>1, <2>2 DEF AccountTypeOK, Sync, SyncPlaces
  <2>4. faults' \in 0 .. MaxFaults
    BY <2>2, FaultTyped DEF AccountTypeOK
  <2> QED BY <1>1, <2>3, <2>4 DEF AccountTypeOK, FetchPortfolio, pathVars, ledgerVars
<1>2. CASE SyncThrows(p)
  BY <1>2, FaultTyped, RecordsTyped DEF AccountTypeOK, SyncThrows, SyncOver, pathVars, ledgerVars
<1>3. CASE Commit(p)
  <2>1. hwm' \in 0 .. MaxEquity
    BY <1>3, Bounds DEF Commit, HigherOf, AccountTypeOK
  <2>2. positions' \in SUBSET Symbols
    BY <1>3 DEF Commit, AccountTypeOK, Sync
  <2>3. sync' \in [Syncers -> Sync]
    BY <1>3 DEF Commit, SyncGoto, AccountTypeOK, Sync, SyncPlaces
  <2> QED BY <1>3, <2>1, <2>2, <2>3 DEF AccountTypeOK, Commit, pathVars
<1>4. CASE ListAlerts(p)
  BY <1>4 DEF AccountTypeOK, ListAlerts, SyncGoto, Sync, SyncPlaces, pathVars, ledgerVars
<1>5. CASE CheckPosition(p)
  <2>1. PICK s \in sync[p].todo :
          sync' = [sync EXCEPT ![p] = [pc |-> "check", todo |-> @.todo \ {s},
                                       drifted |-> @.drifted \/ ~Explained(s)]]
    BY <1>5 DEF CheckPosition
  <2> DEFINE drift == sync[p].drifted \/ ~Explained(s)
             checked == [pc |-> "check", todo |-> sync[p].todo \ {s}, drifted |-> drift]
  <2>2. drift \in BOOLEAN
    OBVIOUS
  <2>3. sync' = [sync EXCEPT ![p] = checked]
    BY <2>1, Zenon
  <2> HIDE DEF drift
  <2>4. checked \in Sync
    BY <2>2 DEF AccountTypeOK, Sync, SyncPlaces
  <2> HIDE DEF checked
  <2>5. sync' \in [Syncers -> Sync]
    BY <2>3, <2>4 DEF AccountTypeOK
  <2> QED BY <1>5, <2>5 DEF AccountTypeOK, CheckPosition, pathVars, ledgerVars
<1>6. CASE DriftChecked(p)
  BY <1>6, RecordsTyped
  DEF AccountTypeOK, DriftChecked, SyncGoto, SyncOver, Sync, SyncPlaces, pathVars, ledgerVars
<1>7. CASE DriftHalts(p)
  <2>1. sync' \in [Syncers -> Sync]
    BY <1>7, RecordsTyped DEF AccountTypeOK, DriftHalts, SyncOver
  <2>2. halted' \in BOOLEAN /\ faults' \in 0 .. MaxFaults
    BY <1>7, FaultTyped DEF AccountTypeOK, DriftHalts
  <2> QED BY <1>7, <2>1, <2>2 DEF AccountTypeOK, DriftHalts, pathVars, ledgerVars
<1> QED BY <1>1, <1>2, <1>3, <1>4, <1>5, <1>6, <1>7 DEF SyncStep

\* adoptBrokerPosition keeps the types.
LEMMA AdoptTyped ==
    ASSUME AccountTypeOK, AdoptersInv, NEW a \in Adopters, AdoptStep(a)
    PROVE  AccountTypeOK' /\ AdoptersInv'
<1>1. CASE BeginAdoption(a)
  <2>1. PICK s \in Symbols : adopt' = [adopt EXCEPT ![a] = [pc |-> "fetch", symbol |-> s]]
    BY <1>1 DEF BeginAdoption
  <2>2. adopt' \in [Adopters -> Adoption] /\ AdoptersInv'
    BY <2>1 DEF AccountTypeOK, AdoptersInv, Adoption
  <2> QED BY <1>1, <2>2 DEF AccountTypeOK, BeginAdoption, pathVars, ledgerVars
<1>2. CASE CheckHeld(a)
  <2>1. adopt' \in [Adopters -> Adoption] /\ AdoptersInv'
    BY <1>2 DEF CheckHeld, Adopting, AccountTypeOK, AdoptersInv, Adoption
  <2> QED BY <1>2, <2>1 DEF AccountTypeOK, CheckHeld, pathVars, ledgerVars
<1>3. CASE AdoptThrows(a)
  <2>1. adopt' \in [Adopters -> Adoption] /\ AdoptersInv'
    BY <1>3 DEF AdoptThrows, Adopting, AccountTypeOK, AdoptersInv, Adoption
  <2> QED BY <1>3, <2>1, FaultTyped DEF AccountTypeOK, AdoptThrows, pathVars, ledgerVars
<1>4. CASE AdoptPosition(a)
  <2>1. adopt' \in [Adopters -> Adoption] /\ AdoptersInv'
    BY <1>4 DEF AdoptPosition, Adopting, AccountTypeOK, AdoptersInv, Adoption
  <2>2. adopted' \in SUBSET Symbols
    BY <1>4 DEF AdoptPosition, AccountTypeOK, AdoptersInv
  <2>3. sync' \in [Syncers -> Sync]
    BY <1>4, RecordsTyped DEF AdoptPosition, StartSync, AccountTypeOK
  <2> QED BY <1>4, <2>1, <2>2, <2>3 DEF AccountTypeOK, AdoptPosition, pathVars
<1>5. CASE AdoptReturns(a)
  <2>1. adopt' \in [Adopters -> Adoption] /\ AdoptersInv'
    BY <1>5 DEF AdoptReturns, Adopting, AccountTypeOK, AdoptersInv, Adoption
  <2> QED BY <1>5, <2>1 DEF AccountTypeOK, AdoptReturns, pathVars, ledgerVars
<1> QED BY <1>1, <1>2, <1>3, <1>4, <1>5 DEF AdoptStep

-----------------------------------------------------------------------------
(* The loop.                                                               *)

\* The breaker a failed tick writes.
LEMMA FailureTyped ==
    ASSUME NEW cb \in Breaker
    PROVE  /\ Failed(cb) \in 0 .. CB_MAX_FAILURES
           /\ ~Tripped(cb) => Failed(cb) < CB_MAX_FAILURES
           /\ [state |-> IF Tripped(cb) THEN "open" ELSE "closed",
               failures |-> Failed(cb), cooling |-> TRUE] \in Breaker
<1>1. Failed(cb) \in 0 .. CB_MAX_FAILURES
  BY Bounds DEF Failed, Breaker
<1> QED BY <1>1, Bounds DEF Tripped, Breaker

\* A tick keeps the types of the account: it starts a sync or trips the halt.
LEMMA TickKeepsAccount ==
    ASSUME AccountTypeOK, NEW t \in Ticks, TickStep(t)
    PROVE  AccountTypeOK' /\ adopt' = adopt /\ hwm' = hwm
<1>1. CASE TickStarts(t)
  <2>1. sync' \in [Syncers -> Sync] /\ syncDue' \in BOOLEAN
    BY <1>1, RecordsTyped DEF TickStarts, StartSync, AccountTypeOK
  <2> QED BY <1>1, <2>1 DEF AccountTypeOK, TickStarts, pathVars, ledgerVars
<1>2. CASE BreakerHalts(t)
  <2>1. halted' \in BOOLEAN /\ faults' \in 0 .. MaxFaults
    BY <1>2, FaultTyped DEF AccountTypeOK, BreakerHalts
  <2> QED BY <1>2, <2>1 DEF AccountTypeOK, BreakerHalts, pathVars, ledgerVars
<1>3. CASE BreakerLetsPass(t) \/ SaveSuccessThrows(t)
  <2>1. faults' \in 0 .. MaxFaults
    BY <1>3, FaultTyped DEF AccountTypeOK, BreakerLetsPass, SaveSuccessThrows
  <2> QED
    BY <1>3, <2>1
    DEF AccountTypeOK, BreakerLetsPass, SaveSuccessThrows, pathVars, accountVars, ledgerVars
<1>4. CASE \/ OverlapGuard(t) \/ StillCooling(t) \/ HalfOpen(t) \/ SaveProbe(t)
           \/ WorkEnds(t) \/ SaveSuccess(t) \/ SaveFailure(t)
  <2>1. UNCHANGED <<pathVars, accountVars, faults>>
    BY <1>4 DEF OverlapGuard, StillCooling, HalfOpen, SaveProbe, WorkEnds, SaveSuccess, SaveFailure
  <2> QED BY <2>1 DEF AccountTypeOK, pathVars, accountVars, ledgerVars
<1> QED BY <1>1, <1>2, <1>3, <1>4 DEF TickStep

\* A tick that is over left the guard clear, or another tick holds it.
LEMMA EndsTyped ==
    ASSUME LoopTypeOK, NEW t \in Ticks, TickEnds(t)
    PROVE  loop' \in [Ticks -> TickState] /\ timer' \in BOOLEAN
BY RecordsTyped DEF LoopTypeOK, TickEnds

\* A tick keeps the breaker consistent.
LEMMA TickKeepsLoop ==
    ASSUME LoopInv, NEW t \in Ticks, TickStep(t)
    PROVE  LoopInv'
<1> DEFINE Working(u) == loop[u].pc \in {"work", "save", "failed", "halt"}
<1>1. CASE TickStarts(t)
  BY <1>1
  DEF LoopInv, LoopTypeOK, ProbesInv, BreakerConsistent, TickStarts, TickAt, TickGoto,
      TickState, TickPlaces
<1>2. CASE OverlapGuard(t)
  <2>1. loop' \in [Ticks -> TickState] /\ timer' \in BOOLEAN
    BY <1>2, EndsTyped DEF OverlapGuard, LoopInv, LoopTypeOK, TickGoto, TickState, TickPlaces
  <2>2. /\ \A u \in Ticks \ {t} : loop'[u] = loop[u]
        /\ loop'[t].pc # "probe" /\ ~Working(t)
    BY <1>2 DEF OverlapGuard, LoopInv, LoopTypeOK, TickAt, TickGoto, TickEnds, IdleTick, TickState
  <2> QED
    BY <1>2, <2>1, <2>2
    DEF LoopInv, LoopTypeOK, ProbesInv, BreakerConsistent, OverlapGuard, TickAt
<1>3. CASE BreakerLetsPass(t)
  <2>1. PICK cb \in Breaker : Attempt(t, cb)
    BY <1>3, RecordsTyped DEF BreakerLetsPass, LoopInv, LoopTypeOK
  <2>2. loop' \in [Ticks -> TickState]
    BY <2>1 DEF Attempt, LoopInv, LoopTypeOK, TickState, TickPlaces
  <2>3. /\ \A u \in Ticks \ {t} : loop'[u] = loop[u]
        /\ loop'[t].pc = "work" /\ tickRunning'
    BY <2>1 DEF Attempt, LoopInv, LoopTypeOK
  <2> QED
    BY <1>3, <2>2, <2>3
    DEF LoopInv, LoopTypeOK, ProbesInv, BreakerConsistent, BreakerLetsPass, TickAt
<1>4. CASE StillCooling(t)
  <2>1. loop' \in [Ticks -> TickState] /\ timer' \in BOOLEAN
    BY <1>4, EndsTyped DEF StillCooling, LoopInv
  <2>2. /\ \A u \in Ticks \ {t} : loop'[u] = loop[u]
        /\ loop'[t].pc # "probe" /\ ~Working(t)
    BY <1>4 DEF StillCooling, LoopInv, LoopTypeOK, TickAt, TickEnds, IdleTick
  <2> QED
    BY <1>4, <2>1, <2>2
    DEF LoopInv, LoopTypeOK, ProbesInv, BreakerConsistent, StillCooling, TickAt
<1>5. CASE HalfOpen(t)
  <2>1. [breaker EXCEPT !.state = "half_open"] \in Breaker
    BY DEF LoopInv, LoopTypeOK, Breaker
  <2>2. loop' \in [Ticks -> TickState]
    BY <1>5, <2>1 DEF HalfOpen, LoopInv, LoopTypeOK, TickState, TickPlaces
  <2>3. /\ \A u \in Ticks \ {t} : loop'[u] = loop[u]
        /\ loop'[t].cb.state = "half_open" /\ ~Working(t)
    BY <1>5 DEF HalfOpen, LoopInv, LoopTypeOK, TickAt, Breaker
  <2> QED
    BY <1>5, <2>2, <2>3
    DEF LoopInv, LoopTypeOK, ProbesInv, BreakerConsistent, HalfOpen, TickAt
<1>6. CASE SaveProbe(t)
  <2>1. loop[t].cb \in Breaker /\ loop[t].cb.state = "half_open"
    BY <1>6 DEF SaveProbe, LoopInv, LoopTypeOK, ProbesInv, TickState
  <2>2. loop' \in [Ticks -> TickState]
    BY <1>6, <2>1 DEF SaveProbe, Attempt, LoopInv, LoopTypeOK, TickState, TickPlaces
  <2>3. /\ \A u \in Ticks \ {t} : loop'[u] = loop[u]
        /\ loop'[t].pc = "work" /\ tickRunning'
    BY <1>6 DEF SaveProbe, Attempt, LoopInv, LoopTypeOK
  <2> QED
    BY <1>6, <2>1, <2>2, <2>3
    DEF LoopInv, LoopTypeOK, ProbesInv, BreakerConsistent, SaveProbe, TickAt
<1>7. CASE WorkEnds(t) \/ SaveSuccessThrows(t)
  <2>1. loop' \in [Ticks -> TickState]
    BY <1>7 DEF WorkEnds, SaveSuccessThrows, TickGoto, LoopInv, LoopTypeOK, TickState, TickPlaces
  <2>2. /\ \A u \in Ticks \ {t} : loop'[u] = loop[u]
        /\ loop'[t].pc \in {"save", "failed"}
    BY <1>7 DEF WorkEnds, SaveSuccessThrows, TickGoto, LoopInv, LoopTypeOK, TickState
  <2>3. UNCHANGED <<breaker, tickRunning, timer>>
    BY <1>7 DEF WorkEnds, SaveSuccessThrows
  <2> QED
    BY <2>1, <2>2, <2>3 DEF LoopInv, LoopTypeOK, ProbesInv, BreakerConsistent, TickAt
<1>8. CASE SaveSuccess(t)
  <2>1. loop' \in [Ticks -> TickState] /\ timer' \in BOOLEAN
    BY <1>8, EndsTyped DEF SaveSuccess, LoopInv
  <2>2. /\ \A u \in Ticks \ {t} : loop'[u] = loop[u]
        /\ loop'[t].pc # "probe"
    BY <1>8 DEF SaveSuccess, LoopInv, LoopTypeOK, TickEnds, IdleTick
  <2>3. breaker' \in Breaker /\ breaker'.failures < CB_MAX_FAILURES
    <3>1. loop[t].cb \in Breaker
      BY DEF LoopInv, LoopTypeOK, TickState
    <3>2. breaker' = [loop[t].cb EXCEPT !.state = "closed", !.failures = 0]
      BY <1>8 DEF SaveSuccess
    <3>3. breaker' \in Breaker
      <4>1. 0 \in 0 .. CB_MAX_FAILURES
        BY Bounds
      <4> QED BY <3>1, <3>2, <4>1 DEF Breaker
    <3>4. breaker'.failures = 0
      BY <3>1, <3>2 DEF Breaker
    <3> QED BY <3>3, <3>4, Bounds
  <2> QED
    BY <1>8, <2>1, <2>2, <2>3
    DEF LoopInv, LoopTypeOK, ProbesInv, BreakerConsistent, SaveSuccess, TickAt
<1>9. CASE SaveFailure(t)
  <2>1. loop[t].cb \in Breaker
    BY DEF LoopInv, LoopTypeOK, TickState
  <2>2. breaker' \in Breaker /\ (breaker'.state = "closed" => breaker'.failures < CB_MAX_FAILURES)
    BY <1>9, <2>1, FailureTyped DEF SaveFailure
  <2>3. CASE Tripped(loop[t].cb)
    <3>1. loop' \in [Ticks -> TickState]
      BY <1>9, <2>3 DEF SaveFailure, TickGoto, LoopInv, LoopTypeOK, TickState, TickPlaces
    <3>2. /\ \A u \in Ticks \ {t} : loop'[u] = loop[u]
          /\ loop'[t].pc = "halt"
      BY <1>9, <2>3 DEF SaveFailure, TickGoto, LoopInv, LoopTypeOK, TickState
    <3>3. UNCHANGED <<tickRunning, timer>>
      BY <1>9, <2>3 DEF SaveFailure
    <3> QED BY <2>2, <3>1, <3>2, <3>3 DEF LoopInv, LoopTypeOK, ProbesInv, BreakerConsistent, TickAt
  <2>4. CASE ~Tripped(loop[t].cb)
    <3>1. TickEnds(t) /\ tickRunning' = FALSE
      BY <1>9, <2>4 DEF SaveFailure
    <3>2. loop' \in [Ticks -> TickState] /\ timer' \in BOOLEAN
      BY <3>1, EndsTyped DEF LoopInv
    <3>3. /\ \A u \in Ticks \ {t} : loop'[u] = loop[u]
          /\ loop'[t].pc # "probe"
      BY <3>1 DEF LoopInv, LoopTypeOK, TickEnds, IdleTick
    <3> QED BY <2>2, <3>1, <3>2, <3>3 DEF LoopInv, LoopTypeOK, ProbesInv, BreakerConsistent, TickAt
  <2> QED BY <2>3, <2>4
<1>10. CASE BreakerHalts(t)
  <2>1. loop' \in [Ticks -> TickState] /\ timer' \in BOOLEAN
    BY <1>10, EndsTyped DEF BreakerHalts, LoopInv
  <2>2. /\ \A u \in Ticks \ {t} : loop'[u] = loop[u]
        /\ loop'[t].pc # "probe"
    BY <1>10 DEF BreakerHalts, LoopInv, LoopTypeOK, TickEnds, IdleTick
  <2> QED
    BY <1>10, <2>1, <2>2
    DEF LoopInv, LoopTypeOK, ProbesInv, BreakerConsistent, BreakerHalts, TickAt
<1> QED
  BY <1>1, <1>2, <1>3, <1>4, <1>5, <1>6, <1>7, <1>8, <1>9, <1>10 DEF TickStep

\* Nothing else touches the breaker or the guard, but time and a crash.
LEMMA OthersKeepLoop ==
    ASSUME LoopInv,
           \/ UNCHANGED loopVars
           \/ CoolsDown
           \/ Crash
    PROVE  LoopInv'
<1>1. CASE UNCHANGED loopVars
  BY <1>1 DEF LoopInv, LoopTypeOK, ProbesInv, BreakerConsistent, TickAt, loopVars
<1>2. CASE CoolsDown
  <2>1. /\ breaker' \in Breaker
        /\ breaker'.state = breaker.state /\ breaker'.failures = breaker.failures
    BY <1>2 DEF CoolsDown, LoopInv, LoopTypeOK, Breaker
  <2> QED
    BY <1>2, <2>1 DEF CoolsDown, LoopInv, LoopTypeOK, ProbesInv, BreakerConsistent, TickAt
<1>3. CASE Crash
  <2>1. loop' \in [Ticks -> TickState]
    BY <1>3, BootTyped DEF Crash
  <2>2. \A t \in Ticks : loop'[t].pc # "probe"
    BY <1>3 DEF Crash, Booted, IdleTick
  <2> QED
    BY <1>3, <2>1, <2>2 DEF Crash, LoopInv, LoopTypeOK, ProbesInv, BreakerConsistent, TickAt
<1> QED BY <1>1, <1>2, <1>3

-----------------------------------------------------------------------------
(* The theorems.                                                           *)

Inv == TypeOK /\ AdoptersInv /\ LoopInv

\* The invariant holds when the process first boots.
LEMMA InvInit == Init => Inv
<1> SUFFICES ASSUME Init PROVE Inv OBVIOUS
<1>1. TypeOK
  BY InitTyped
<1>2. AdoptersInv
  BY DEF Init, AdoptersInv, IdleAdoption
<1>3. LoopInv
  <2>1. \A t \in Ticks : loop[t].pc # "probe"
    BY DEF Init, Booted, IdleTick
  <2>2. breaker.failures < CB_MAX_FAILURES
    BY Bounds DEF Init, ClosedBreaker
  <2> QED
    BY <1>1, <2>1, <2>2 DEF Init, TypeOK, LoopInv, LoopTypeOK, ProbesInv, BreakerConsistent, TickAt
<1> QED BY <1>1, <1>2, <1>3 DEF Inv

\* Every step keeps the invariant.
LEMMA InvStep == Inv /\ [Next]_vars => Inv'
<1> SUFFICES ASSUME Inv, [Next]_vars PROVE AccountTypeOK' /\ AdoptersInv' /\ LoopInv'
  BY DEF Inv, TypeOK, LoopInv, LoopTypeOK
<1>0. AccountTypeOK /\ AdoptersInv /\ LoopInv
  BY DEF Inv, TypeOK
<1>1. CASE \E t \in Ticks : TickStep(t)
  <2>1. PICK t \in Ticks : TickStep(t)
    BY <1>1
  <2> QED BY <1>0, <2>1, TickKeepsAccount, TickKeepsLoop DEF AdoptersInv
<1>2. CASE \E p \in Syncers : SyncStep(p)
  <2>1. PICK p \in Syncers : SyncStep(p)
    BY <1>2
  <2>2. UNCHANGED loopVars /\ adopt' = adopt
    BY <2>1
    DEF SyncStep, FetchPortfolio, SyncThrows, Commit, ListAlerts, CheckPosition,
        DriftChecked, DriftHalts
  <2> QED BY <1>0, <2>1, <2>2, SyncTyped, OthersKeepLoop DEF AdoptersInv
<1>3. CASE \E a \in Adopters : AdoptStep(a)
  <2>1. PICK a \in Adopters : AdoptStep(a)
    BY <1>3
  <2>2. UNCHANGED loopVars
    BY <2>1 DEF AdoptStep, BeginAdoption, CheckHeld, AdoptThrows, AdoptPosition, AdoptReturns
  <2> QED BY <1>0, <2>1, <2>2, AdoptTyped, OthersKeepLoop
<1>4. CASE PathStep
  <2>1. UNCHANGED <<accountVars, loopVars, faults>>
    BY <1>4 DEF PathStep
  <2>2. AccountTypeOK'
    BY <1>0, <1>4, <2>1, PathTyped DEF PathStep, AccountTypeOK, accountVars, ledgerVars
  <2> QED BY <1>0, <2>1, <2>2, OthersKeepLoop DEF AdoptersInv, accountVars
<1>5. CASE OutsideTrade
  <2>1. outside' \in SUBSET HandTraded
    BY <1>0, <1>5 DEF OutsideTrade, AccountTypeOK
  <2> QED
    BY <1>0, <1>5, <2>1, OthersKeepLoop DEF OutsideTrade, AccountTypeOK, AdoptersInv, pathVars
<1>6. CASE SyncDue \/ ClearHalt
  BY <1>0, <1>6, OthersKeepLoop
  DEF SyncDue, ClearHalt, AccountTypeOK, AdoptersInv, pathVars, ledgerVars
<1>7. CASE CoolsDown
  BY <1>0, <1>7, OthersKeepLoop
  DEF CoolsDown, AccountTypeOK, AdoptersInv, pathVars, accountVars, ledgerVars
<1>8. CASE Crash
  <2>1. sync' \in [Syncers -> Sync] /\ faults' \in 0 .. MaxFaults
    BY <1>0, <1>8, BootTyped, FaultTyped DEF Crash
  <2>2. adopt' \in [Adopters -> Adoption] /\ AdoptersInv'
    BY <1>0, <1>8, RecordsTyped DEF Crash, AccountTypeOK, AdoptersInv, Adoption, IdleAdoption
  <2> QED
    BY <1>0, <1>8, <2>1, <2>2, OthersKeepLoop DEF Crash, AccountTypeOK, pathVars, ledgerVars
<1>9. CASE UNCHANGED vars
  BY <1>0, <1>9, OthersKeepLoop 
  DEF vars, AccountTypeOK, AdoptersInv, pathVars, accountVars, ledgerVars
<1> QED BY <1>1, <1>2, <1>3, <1>4, <1>5, <1>6, <1>7, <1>8, <1>9 DEF Next

\* Every variable of the loop and of the account keeps its type, and so do
\* the locals of ticks, syncs and adoptions.
THEOREM TypeCorrect == Spec => []TypeOK
<1>1. Inv => TypeOK
  BY DEF Inv
<1> QED BY <1>1, InvInit, InvStep, PTL DEF Spec

\* However many ticks overlap, and whichever of them saves last, a closed
\* breaker is below its threshold and tickRunning is held by a running tick:
\* the guard of tick() cannot stay set and silence the loop.
THEOREM BreakerStaysConsistent == Spec => []BreakerConsistent
<1>1. Inv => BreakerConsistent
  BY DEF Inv, LoopInv
<1> QED BY <1>1, InvInit, InvStep, PTL DEF Spec

\* The high-water mark of the drawdown gate never falls, however many syncs
\* commit and in whichever order.
THEOREM MarkIsMonotone == Spec => MarkNeverFalls
<1>1. Inv /\ [Next]_vars => hwm' >= hwm \/ UNCHANGED vars
  <2> SUFFICES ASSUME Inv, Next PROVE hwm' >= hwm
    BY DEF Next
  <2>0. hwm \in Nat /\ AccountTypeOK
    BY Bounds DEF Inv, TypeOK, AccountTypeOK
  <2>1. CASE \E p \in Syncers : Commit(p)
    BY <2>0, <2>1, Bounds DEF Commit, HigherOf
  <2>2. CASE ~\E p \in Syncers : Commit(p)
    <3>1. hwm' = hwm
      <4>1. CASE \E t \in Ticks : TickStep(t)
        BY <2>0, <4>1, TickKeepsAccount
      <4>2. CASE \E p \in Syncers : SyncStep(p)
        BY <2>2, <4>2
        DEF SyncStep, FetchPortfolio, SyncThrows, ListAlerts, CheckPosition, DriftChecked,
            DriftHalts, ledgerVars
      <4>3. CASE \E a \in Adopters : AdoptStep(a)
        BY <4>3
        DEF AdoptStep, BeginAdoption, CheckHeld, AdoptThrows, AdoptPosition,
            AdoptReturns, ledgerVars
      <4>4. CASE PathStep \/ OutsideTrade \/ SyncDue \/ CoolsDown \/ ClearHalt \/ Crash
        BY <4>4
        DEF PathStep, OutsideTrade, SyncDue, CoolsDown, ClearHalt, Crash, accountVars, ledgerVars
      <4> QED BY <4>1, <4>2, <4>3, <4>4 DEF Next
    <3> QED BY <2>0, <3>1
  <2> QED BY <2>1, <2>2
<1> QED BY <1>1, InvInit, InvStep, PTL DEF Spec, MarkNeverFalls
=============================================================================
