----------------------------- MODULE StrategySetup -----------------------------
(***************************************************************************)
(* Who writes the configuration a cycle runs with: StrategyService.apply   *)
(* (strategy.service.ts) copies a strategy's bundle key by key and then    *)
(* names it as applied, StrategyBootstrapService                           *)
(* (strategy-bootstrap.service.ts) seeds a new instance at boot, and the   *)
(* operator sets keys by hand.  Any write can fail, and the process can    *)
(* stop between two of them.  A key's value is who wrote it.               *)
(***************************************************************************)
EXTENDS Integers, FiniteSets, Sequences

CONSTANTS
    Strategies,   \* rows of the strategies
    BundleKeys,   \* keys of a strategy's bundle, in the order it lists them
    SeedSteps,    \* what the seeder writes, in its order
    SeededPortfolios,  \* names of the pretest portfolios it creates
    MaxSetupFaults, MaxOperatorWrites, MaxApplies  \* bounds

ASSUME StrategySetupAssumption ==
    /\ {MaxSetupFaults, MaxOperatorWrites, MaxApplies} \subseteq Nat
    /\ BundleKeys \in Seq(STRING) /\ SeedSteps \in Seq(STRING)

VARIABLES
    config,        \* KV: who wrote each key
    applied,       \* KV strategy.applied
    application,   \* each apply() under way: the next key, and the bundle's version it read
    bundle,        \* version of each strategy's bundle
    verdict,       \* version of the bundle whose walk-forward run is on the row
    seeded,        \* KV bootstrap.momentum_v1_applied
    portfoliosSeeded,  \* KV bootstrap.pretest_seed_v5
    portfolios,    \* portfolios that exist: who made them
    boot,          \* the seeder: its next step; "up" once the application serves
    setupFaults, operatorWrites, applies,
    wrote,         \* history: keys each apply() under way has written
    seedTried      \* history: steps of the seed that were written or swallowed

setupVars == <<config, applied, application, bundle, verdict, seeded, portfoliosSeeded, portfolios,
               boot, setupFaults, operatorWrites, applies, wrote, seedTried>>

KeySet == {BundleKeys[i] : i \in DOMAIN BundleKeys} \cup {SeedSteps[i] : i \in DOMAIN SeedSteps}
Up == boot.pc = "up"
NotApplying == [next |-> 0, version |-> 0]

SetupInit ==
    /\ config = [k \in KeySet |-> "default"]
    /\ applied = "none"
    /\ application = [s \in Strategies |-> NotApplying]
    /\ bundle = [s \in Strategies |-> 1] /\ verdict = [s \in Strategies |-> 0]
    /\ seeded = FALSE /\ portfoliosSeeded = FALSE
    /\ portfolios = [n \in SeededPortfolios |-> "none"]
    /\ boot = [pc |-> "momentum", next |-> 1]
    /\ setupFaults = 0 /\ operatorWrites = 0 /\ applies = 0
    /\ wrote = [s \in Strategies |-> {}]
    /\ seedTried = {}

Fault == setupFaults < MaxSetupFaults /\ setupFaults' = setupFaults + 1
strategyVars == <<applied, application, bundle, verdict, operatorWrites, applies, wrote>>

-----------------------------------------------------------------------------
(* onModuleInit of the seeder *)

BootAt(pc, next) == boot' = [pc |-> pc, next |-> next]

\* The flag was there already: nothing is written.
SeedIsDone ==
    /\ boot = [pc |-> "momentum", next |-> 1] /\ seeded
    /\ BootAt("pretest", 0)
    /\ UNCHANGED <<strategyVars, config, seeded, portfoliosSeeded, portfolios, setupFaults, seedTried>>

\* Mutant: the flag is set before the steps.
SeedsFlagFirst == seeded' = TRUE

KeepsFlag == UNCHANGED seeded

SeedWrites ==
    /\ boot.pc = "momentum" /\ boot.next \in DOMAIN SeedSteps
    /\ boot.next = 1 => ~seeded
    /\ config' = [config EXCEPT ![SeedSteps[boot.next]] = "seed"]
    /\ seedTried' = seedTried \cup {SeedSteps[boot.next]}
    /\ KeepsFlag
    /\ BootAt("momentum", boot.next + 1)
    /\ UNCHANGED <<strategyVars, portfoliosSeeded, portfolios, setupFaults>>

\* The active flags of the plugins and the scheduler's row are written best
\* effort: a failure is swallowed, and the seed goes on.
BestEffort == {"plugins", "scheduler"}

SeedSwallows ==
    /\ boot.pc = "momentum" /\ boot.next \in DOMAIN SeedSteps
    /\ boot.next = 1 => ~seeded
    /\ SeedSteps[boot.next] \in BestEffort /\ Fault
    /\ seedTried' = seedTried \cup {SeedSteps[boot.next]}
    /\ BootAt("momentum", boot.next + 1)
    /\ UNCHANGED <<strategyVars, config, seeded, portfoliosSeeded, portfolios>>

\* Any other failure ends this part of the seed, to be tried at the next boot.
SeedBreaksOff ==
    /\ boot.pc = "momentum" /\ Fault
    /\ boot.next \in DOMAIN SeedSteps => SeedSteps[boot.next] \notin BestEffort
    /\ BootAt("pretest", 0)
    /\ UNCHANGED <<strategyVars, config, seeded, portfoliosSeeded, portfolios, seedTried>>

SeedSetsFlag ==
    /\ boot.pc = "momentum" /\ boot.next > Len(SeedSteps)
    /\ seeded' = TRUE
    /\ BootAt("pretest", 0)
    /\ UNCHANGED <<strategyVars, config, portfoliosSeeded, portfolios, setupFaults, seedTried>>

\* Each portfolio is created unless one of its name exists; a failure is
\* swallowed, and the flag is set all the same.
SeedPortfolios ==
    /\ boot.pc = "pretest"
    /\ IF portfoliosSeeded THEN UNCHANGED <<portfolios, portfoliosSeeded, setupFaults>>
       ELSE \E failed \in {{}} \cup {{n} : n \in SeededPortfolios} :
              /\ failed # {} => setupFaults < MaxSetupFaults
              /\ setupFaults' = setupFaults + Cardinality(failed)
              /\ portfolios' = [n \in SeededPortfolios |->
                                  IF portfolios[n] = "none" /\ n \notin failed THEN "seed" ELSE portfolios[n]]
              /\ portfoliosSeeded' = TRUE
    /\ BootAt("up", 0)
    /\ UNCHANGED <<strategyVars, config, seeded, seedTried>>

Redeploys ==
    /\ Fault
    /\ BootAt("momentum", 1)
    /\ application' = [s \in Strategies |-> NotApplying]
    /\ wrote' = [s \in Strategies |-> {}]
    /\ UNCHANGED <<config, applied, bundle, verdict, seeded, portfoliosSeeded, portfolios,
                   operatorWrites, applies, seedTried>>

-----------------------------------------------------------------------------
(* StrategyService *)

bootVars == <<seeded, portfoliosSeeded, portfolios, boot, seedTried>>

ApplyReads(s) ==
    /\ Up /\ application[s].next = 0 /\ applies < MaxApplies
    /\ applies' = applies + 1
    /\ application' = [application EXCEPT ![s] = [next |-> 1, version |-> bundle[s]]]
    /\ wrote' = [wrote EXCEPT ![s] = {}]
    /\ UNCHANGED <<bootVars, config, applied, bundle, verdict, setupFaults, operatorWrites>>

MarkerMayBeSet(s) == application[s].next > Len(BundleKeys)

ApplySets(s) ==
    /\ application[s].next \in DOMAIN BundleKeys
    /\ LET key == BundleKeys[application[s].next]
       IN  config' = [config EXCEPT ![key] = s] /\ wrote' = [wrote EXCEPT ![s] = @ \cup {key}]
    /\ application' = [application EXCEPT ![s].next = @ + 1]
    /\ UNCHANGED <<bootVars, applied, bundle, verdict, setupFaults, operatorWrites, applies>>

ApplyMarks(s) ==
    /\ MarkerMayBeSet(s)
    /\ applied' = s
    /\ application' = [application EXCEPT ![s] = NotApplying]
    /\ UNCHANGED <<bootVars, config, bundle, verdict, setupFaults, operatorWrites, applies, wrote>>

ApplyBreaksOff(s) ==
    /\ application[s].next > 0 /\ Fault
    /\ application' = [application EXCEPT ![s] = NotApplying]
    /\ UNCHANGED <<bootVars, config, applied, bundle, verdict, operatorWrites, applies, wrote>>

OperatorWrites == Up /\ operatorWrites < MaxOperatorWrites /\ operatorWrites' = operatorWrites + 1

\* update() leaves the row's walk-forward verdict as it is.
UpdateStrategy(s) ==
    /\ OperatorWrites
    /\ bundle' = [bundle EXCEPT ![s] = @ + 1]
    /\ UNCHANGED <<bootVars, config, applied, application, verdict, setupFaults, applies, wrote>>

RecordWalkForward(s) ==
    /\ Up /\ verdict[s] # bundle[s]
    /\ verdict' = [verdict EXCEPT ![s] = bundle[s]]
    /\ UNCHANGED <<bootVars, config, applied, application, bundle, setupFaults, operatorWrites,
                   applies, wrote>>

OperatorSetsKey ==
    /\ OperatorWrites
    /\ \E k \in KeySet : config' = [config EXCEPT ![k] = "operator"]
    /\ UNCHANGED <<bootVars, applied, application, bundle, verdict, setupFaults, applies, wrote>>

OperatorMakesPortfolio ==
    /\ OperatorWrites
    /\ \E n \in SeededPortfolios : portfolios' = [portfolios EXCEPT ![n] = "operator"]
    /\ UNCHANGED <<config, applied, application, bundle, verdict, seeded, portfoliosSeeded, boot,
                   setupFaults, applies, wrote, seedTried>>

SetupNext ==
    \/ SeedIsDone \/ SeedWrites \/ SeedSwallows \/ SeedBreaksOff \/ SeedSetsFlag \/ SeedPortfolios
    \/ Redeploys
    \/ \E s \in Strategies : ApplyReads(s) \/ ApplySets(s) \/ ApplyMarks(s) \/ ApplyBreaksOff(s)
                             \/ UpdateStrategy(s) \/ RecordWalkForward(s)
    \/ OperatorSetsKey \/ OperatorMakesPortfolio

SetupSpec == SetupInit /\ [][SetupNext]_setupVars

-----------------------------------------------------------------------------
SetupTypeOK ==
    /\ applied \in Strategies \cup {"none"}
    /\ DOMAIN config = KeySet
    /\ \A s \in Strategies : application[s].next \in 0 .. Len(BundleKeys) + 1
    /\ boot.pc \in {"momentum", "pretest", "up"} /\ {seeded, portfoliosSeeded} \subseteq BOOLEAN
    /\ setupFaults \in 0 .. MaxSetupFaults + 1 /\ operatorWrites \in 0 .. MaxOperatorWrites

\* A seed that broke off is not taken for done: the flag says that every
\* step was gone through, in whatever boots that took.
FlagMeansSeeded == seeded => \A i \in DOMAIN SeedSteps : SeedSteps[i] \in seedTried

\* A strategy is named as applied, and its results and its walk-forward
\* verdict counted for it, only when the call that names it wrote its whole
\* bundle, however many writes failed or raced in between.
AppliedIsWhole ==
    [][applied' # applied => \A i \in DOMAIN BundleKeys : BundleKeys[i] \in wrote[applied']]_setupVars
=============================================================================
