# A TLA+ development of OpenNeoTrader

OpenNeoTrader is a self-hosted trading platform: plugins propose signals, language-model agents
turn them into trade intents, risk gates and people decide on them, and the platform executes
them on paper or at a real broker. This directory holds TLA+ modules of the services that decide,
execute, schedule and learn; the configurations that model-check them with TLC; and theorems
about them that TLAPS checks. Paths below are relative to `src/`; `api` stands for
`apps/api/src`.

A configuration is run with `tlc -config race.cfg MCRealTrading`. `race`, `settle`,
`claim_both_sides`, `claim_final` and `claim_one_order` belong to `MCRealTrading`; `loop` and
`account` to `MCReconciliationLoop`; `cycle`, `claim_exit`, `claim_labels` and `claim_memory` to
`MCTradingCycle`; `platform` to `MCPlatform`. Proofs are checked with
`tlapm RealTradingProofs.tla`, and so for the other six `*Proofs.tla` and for `FoldFacts.tla`.

## 1. The system

| Component | State it keeps | Operations | Talks to | Hard behaviour |
|---|---|---|---|---|
| Real order service `api/real-order` | `real_orders`; in memory: failure window, null-lookup counts | `submit`, `recoverInflight` | gateway, KV (halt) | create race, placement timeout, crash between row and request |
| Real reconciliation `api/real-reconciliation` | `real_orders`, `trade_intents`, `real_positions`, NAV, breaker in KV | `reconcileOrder`, `fastPollOrder`, `tick`, `syncPortfolio`, `adoptBrokerPosition` | gateway, order service, KV | concurrent reconcilers, stale answers, overlapping ticks |
| Trade intents `api/trade-intent` | `trade_intents`, policy in KV | `recordIntent`, `autoProcess`, `approve`, `reject` | order service, paper execution | many reads with awaits between, unconditional writes |
| Kill-switch `api/common` | two KV keys | halt, clear, read | the three above | tripped and cleared while calls are under way |
| Governed paper execution `api/execution` | paper portfolio (one JSON value) | entry gate, fills, rebalance | gateway | lost update, rounding, limits |
| Scheduler, executor `api/scheduler`, `api/cycle` | configuration, breaker, reflection counter, run lock | `tick`, `runNow`, `runCycle`, `runReflection` | agents | overlap guards read before an await |
| Agents, debate `api/agents` | a cycle's context, a turn's budgets, KV journal | `_executeCycle`, `runGovernedTurn`, kernel tools | sandbox, LLM, intents | fail-closed vetoes, budgets over iterations |
| Sandbox gateway `api/sandbox`, runner `apps/sandbox/runner.py` | one process per call | `run_cycle`, `smoke_test`, `run_hook` | plugin code | a hook that raises, hangs, or edits what it was given |
| Risk manager `plugins/risk-manager` | none: a function of its context | `on_cycle` | runner | caps over a batch |
| Pretest, its scheduler `api/pretest`, `api/pretest-scheduler` | portfolios, reputation, slots | `runCycle`, `gate`, `promote`, ticks | agents, plugins | long read-modify-write, gate stale when used |
| Strategy, bootstrap `api/strategy`, `api/strategy-bootstrap` | strategies, KV | `apply`, seeders at boot | plugins, pretest | sequences of writes that stop half-way |
| Memories `api/context-memory`, `api/long-term-memory`, `api/ml-signal-record`, `api/snapshot` | KV row; episodes, lessons, signal rows, NAV | record, label, train | executor | fail-soft writes, labels of the right cycle |
| Plugins, skills `api/plugins` | directory and row of each plugin, `SKILL.md` and its snapshots | install, update, activate, deactivate, remove, rewrite, revert | git, sandbox | two stores with an await between |
| Veto analyzer `api/veto-analyzer` | `veto_decisions` | `recordVeto`, `backfill` | gateway | overlapping sweeps |
| Market data `api/providers` | two caches | `getOhlcv`, `getQuote` | providers | overlapping fetches, eviction, rate limits |
| LLM service `api/llm` | backend, model and custom provider in memory; KV | `complete`, `patchConfig`, `getReadiness` | KV, plugins, LLM services | patched between the reads of a turn, saved without waiting |
| Migrations, backup, credentials `api/prisma`, `api/backup`, `api/credentials` | the SQLite file, `.env`, one sealed file per day | `runMigrations`, `createBackup`, `restoreBackup`, `set` | files | stops between a script and its row, restores under a running process |
| Plugin watcher `api/plugins/plugin-watcher` | watchers, one timer per file | `watchAll`, `handleChange` | files, plugin rows | bursts of saves, updates under way, watchers that fail |
| Registry, store, auth, alerts, audit, web search, backtest, panel, dashboard | rows and files | record, fetch, report | | little concurrency |
| `apps/web`, `apps/store`, the other plugins, `packages/plugin-sdk` | none shared with the above | clients, content, pure signal functions | API | none at this level |

A tick of the scheduler launches a cycle. The sandbox asks every active skill for signals; the disciplines
(the risk manager among them) veto them one after another; the LLM's turn emits trade intents through
tool calls within its budgets; each intent is recorded once and routed to paper or to the broker; a
real order gets a row before its request and is followed by reconciliation until it ends; a snapshot
labels what the cycle leaves to learn from. Reflections read it and tune parameters,
rewrite skills and promote pretests. Everything in `api` runs in one Node process, so between two
`await`s nothing interleaves; at each `await` everything does, and the process can stop.

## 2. The modules

Three models, and one abstract specification between two of them.

**Real orders** (state shared, modules extend each other in this order):

| Module | What it is |
|---|---|
| `BrokerStatus` | `normalizeBrokerStatus`, and the lists by which the two services classify a row |
| `RealTradingState` | constants, variables, types, the tables and the partial unique index |
| `Broker` | the broker, outside the repository, as the gateway's calls let one see it |
| `RealOrderService` | `submit()` and `recoverInflight()`, one action per stretch between two awaits |
| `RealReconciliation` | `reconcileOrder()` with its compare-and-set, fast polls, ticks, cancels of stale orders |
| `RealExecution` | decisions on intents, the halt, the last write of `_executeReal` |
| `RealTrading` | the composition, crashes, fairness, and the properties |
| `OrderPromise` | abstract: what the path promises of each order |
| `RealTradingClaims`, `MCRealTrading` | comments some interleaving breaks; instances |

**Account and loop**: `Portfolio` (`syncPortfolio`, `detectDrift`, `adoptBrokerPosition`),
`ReconciliationLoop` (`tick()`, its guard and breaker, boot, crashes, fairness),
`MCReconciliationLoop`. The two models are composed through `OrderPromise`: `RealTrading` is proved to
implement it, and `Portfolio` takes the order path to be it (`Path == INSTANCE OrderPromise`).

**The cycle and the platform**: one module per service, each with its own variables and
specification. `MCTradingCycle` and `MCPlatform` instantiate them together; since they share no variable,
a behaviour studies one of them (variable `study`) while the others rest, which gives
the sum of their state spaces and not the product. `MCPlatform` has the three services
beneath the platform too: the model that decides, the files and the reloading of plugins.

| Module | Code | Its state and actions |
|---|---|---|
| `SkillChain` | `runner.py`, `sandbox.gateway.ts`, `lifecycle.service.ts` | `chain`: the run of the hooks, skill by skill, on one list they all share; `trial`: smoke test and `on_activate`. A plugin's code is one of ten conducts |
| `RiskDiscipline` | `risk_manager_core.py`, `hooks/cycle.py` | the four layers as functions folded over a batch; `risk` is one call |
| `AgentCycle` | `_executeCycle`, `_runVetoLayer`, `_persistVetoDecisions` | `cyc`: the stage of a cycle, what was proposed, what is pending, the ledger's rows, what an extra asked to send |
| `GovernedTurn` | `runGovernedTurn`, `_resolveDropReason`, `_executeToolCalls`, `debate.service.ts` | `turn`: iteration, budgets, the calls valid, deferred and to run; `running`: plugins the operator switches meanwhile |
| `KernelTools` | `_kernelCreatePretestVariant`, `_runTuneChain`, `train_ml_model`, `param_discipline.py` | `tool`: the call under way; `settings`, `journal`, `variants`, `mlModel`; the operator's edits and crashes between any two steps |
| `GovernedAccount` | `governed-paper-execution.service.ts` | entry gate, ceilings and fills as functions of an account, in integer hundredths; a position keeps its signed cost in place of an average price |
| `GovernedLedger` | same | one account under `evaluateAndExecuteEntry` and `applyRebalanceTrade`, over days and weeks |
| `IntentRouting` | `trade-intent.service.ts` | `intent`, the paper `account`, `orders`; `call[c]`: where a cycle or request is and what it has read; `policy`, `robust`, `stopped`, `held` change between its reads. Extends `GovernedAccount` for the paper branch |
| `OutcomeLabels` | `snapshot`, `long-term-memory`, `ml-signal-record` | `nav`, `episodes`, `mlRows`, `lessons`; profit is told by the time its prices are of |
| `ContextMemory` | `context-memory.service.ts` | `memoryRow`, and `blank`: what the arrays of the constant `EMPTY_MEMORY` hold by now |
| `CycleScheduler` | `cycle-scheduler`, `cycle-executor` | `timer[t]`: each tick and `runNow`; `busy`, `locked`: the two guards; `conf`, `breaker`, `counter` in KV; `jobs` |
| `PretestScheduler` | `pretest-scheduler`, `runAllActive` | `tickOf`, `toRun`, `interval`, `lastRunAt` |
| `PretestBook`, `Pretest` | `pretest.service.ts` | the arithmetic of a cycle's trades; `row`, `inCycle`, `promotion`, `rating` |
| `StrategySetup` | `strategy`, `strategy-bootstrap` | `config` (a key's value is who wrote it), `application`, `boot`, the flags |
| `SkillRevision` | `writeSkillGuarded`, `revertSkill` | `body`, `snapshots`, and the writer and the reverter under way |
| `PluginLifecycle` | `install`, `update`, `activate`, `deactivate`, `remove`, boot sync | `directory`, `plugin` (the row), `request[r]` |
| `VetoBackfill` | `veto-analyzer.service.ts` | `verdicts`, `sweeps`; a judgement is the bar it was made by |
| `MarketData` | `ohlcv-cache`, `provider-gateway` | `cached`, `reading`; an answer is the moment it is true of |
| `LlmBackend` | `llm.service.ts`; `apply()` and `applyLlmConfigFromEnv` as far as they write its keys | `llm`, `registered`: what is in memory; `saved` and `writes`: the two KV keys and the statements on their way; `turn[t]`: `complete()`, which reads the plugin, the backend and the model at three moments |
| `Recovery` | `migration-runner`, `backup`, `credentials` | `db`, `env`, `backups`: the files; `shipped`, `process`: the release and whether it serves; `sealing[b]`, `restore`: what has been read and is yet to be written |
| `HotReload` | `plugin-watcher.service.ts` | `watched`, `debounceTimers`, `disk`, `shownRow`, `updates` |
| `Selection` | `filter()` over a list | what several of the above fold with |

### State and code

- An action is what the code does between two awaits. An update by id is a write whatever the row
  has become; a whole-row write (paper portfolio, pretest state, scheduler configuration, context
  memory) writes what was read before.
- Tables, KV values and files survive a crash; locals and in-memory guards do not, and a crash is followed by
  what the service does at boot.
- A variable or field marked "history" is not in the code: it records what has been so that a property can
  speak of the past. No guard reads one.
- In the real-order model an element of `Orders` is at once a row, its client order id and the broker's
  order (ids are random UUIDs). `call[c]`, `sweep[t]`, `tick[t]`, `rec[r]` are locals. A write
  that would give an intent two active rows fails, as the index of migrations 0016 and 0017 makes it
  (`IndexAllows`), and what the code does with that exception is an action of its own. Prices, raw JSON,
  errors and timestamps are left out. `Ticks` bounds how many ticks overlap.
- In the account model `sync[p]`, `adopt[a]`, `loop[t]` are locals, `breaker` is the persisted breaker
  whose count saturates at the threshold; a write outside the `try` that throws ends the process.
- `RealTrading` decides by a gate that is one choice; `IntentRouting` has that gate read by read, and
  its `Submit` places an order at most once for an intent, as `OrderPromise` states and `RealTrading` is proved to do.

## 3. What the runs check

| Run | Instance | States |
|---|---|---|
| `race` | 1 intent, 2 calls, 2 rows, quantity 1, thresholds 1 and 2, 1 fault | two decisions against sweep, reconcilers and a crash |
| `settle` | 1 call, 1 row, quantity 3, 4 fast polls, thresholds 3, 2 faults, fairness | what is booked, and what must happen |
| `loop` | 2 ticks, 1 symbol traded by hand, threshold 3, 2 faults, fairness | overlapping ticks, trips, probes, a stop between trip and halt |
| `account` | 1 tick, 1 adoption, 1 symbol ordered and traded by hand, 1 fault, fairness | two syncs in any order, drift found, cleared, adopted |
| `cycle` | see below | 1.3 million |
| `platform` | see below | 1.5 million |

Bounds of the first four: `Orders` caps the rows ever created, `MaxQty` the quantity, `MaxFaults` the crashes and
the lookups that throw, `FastPolls` the polls of a call; `SubmitFailureThreshold` and `AbsentThreshold`
are 3 in the code and lowered in `race` so that a halt and a success after it both happen. Two
rows are enough for `race`: every property relates at most two rows of one intent, and a third is
created only after one of them is inactive, which the second shows. These four check for deadlock: a tick can always
start. `cycle` and `platform` do not, since a component whose bound is spent stops.

Bounds of `cycle`: three skills of every conduct in the middle and four mixed chains; every batch of up to three of
eight signals in five contexts of the risk manager; two disciplines, an extra before and
after the turn; replies of up to three tool calls, budgets at both clamps (0 and 2); two intents, one
cycle and one request, one symbol, and one change of the world at any moment: two intents are
what a duplicate needs, and a second change would only undo the first or grant what the property already takes
as granted; two cycles and one price move for the labels.

Bounds of `platform`: three trades of the ledger over three days and two weeks at two prices; one tick,
`runNow`, three launches and two failing KV writes for the scheduler; two ticks and three intervals for the
slots; two overlapping pretest cycles out of three; two strategies, two faults; three bodies with a cap of
two; two plugins, one requiring the other, two overlapping requests; two sweeps and two decisions; two
readers; one turn, two acts of the operator, one failure and two boots of the process; two migrations, two days,
one backup under way, one crash and one restore; one plugin with two files of two versions, a debounce of 2, one
failure and one activation. Each is the smallest at which two actors can meet with a third event between; the theorems of
section 4 lift most of them.

Properties of the order path (`RealTrading`):

- `OneActiveOrderPerIntent`: no interleaving of two submits, the sweep's revival of a row and reconcilers
  leaves an intent two active rows.
- `NoFabricatedFill`: a row holds at most what the broker traded; an executed intent owns an order that traded.
- `BrokerOrderIsTracked`: an order the broker took is selected by some loop, or its row agrees with how it
  ended, or was given up as `confirmed_absent`.
- `RowAndIntentEndTogether`: the step that ends a row ends its intent, as executed when something was traded.
- `ReconcilerNeverDowngrades`: an answer applied late never moves a row backwards.
- `PromiseKept`: on record before sent, sent once, booked only as traded.
- Liveness: `PhantomOrderLetsGo` (a row the broker has no record of stops blocking), `FillSettles` (a fill
  reaches `filled` and stays).

Of the loop and the account: `LoopKeepsTrying` (no silent halt),
`OpenBreakerHaltsOrHeals`, `DriftKeepsHalting`, `AdoptionEndsDrift`, `CacheSettles`.

Of the cycle:

- `BrokenSkillEndsNothing`: whatever one hook does short of ending the process, the signals of the others
  arrive and every failure is reported.
- `CapsHoldOverTheBatch`: executing what the risk manager lets through takes no symbol, sector or book past
  its cap, however often a batch names it, and exits come out as they went in.
- `OnlyDisciplinesApprove`: no extra brings back what a discipline took out, and a discipline that fails
  leaves nothing. `BlockedMeansGone`: the ledger calls blocked what is gone, and never what was merged or resized.
- `BudgetHolds`: over all iterations of a turn.
- `EntryWasPermitted`: an entry reaches `submit()` only if policy, verdict and kill-switch each allowed it
  at some time since the call began. `ExitFollowsPosition`: an exit is booked on paper only if
  the broker held nothing (or did not answer). `OneIntentPerSignal`: a cycle acts once on a symbol and action.
- `OutcomeIsItsCycles`: a label is its own cycle's, in both stores.

Of the platform:

- `LedgerBalances`, `BookConserves`: cash and cost are capital and profit, over both ledgers.
- `TuneIsJournaled`: no unrecorded change, wherever the process stops.
- `OneJobAtATime`, `SlotRunsOnce`: guards read before an await still let one through.
- `PromotionIsEarned`: nothing trades or is rated from a pretest that never stood the gate.
- `FlagMeansSeeded`: the seed's flag comes last. `InstalledBodyIsKept`: a rewritten skill can be had back.
- `RequirementsStay`: no active plugin without its requirements, but for the overlap it names.
- `JudgedAtItsHorizon`: vetoes are judged by the bar of their horizon, whichever sweep writes last.
- `NeverStalerThanPromised`: nothing served is older than its lifetime and one request.
- `RequestOfItsTime`: a request goes out by a backend and with a model that were in force since its turn was called.
- `SavedFollowsMemory`: once its writes have run, what is saved is what is in memory, unless a write failed or somebody
  else wrote the key.
- `SchemaIsItsHistory`: a script has run exactly where its row says so, behind those before it, through crashes and restores.
- `RowFollowsManifest`: when no timer runs and no update is under way, a watched plugin's row shows the manifest on disk.

A few properties are stated in the modules and proved (section 4) without being in a run, which has nothing to add to
a proof for every value of the constants: `OnlyOperatorClearsHalt`, `BreakerConsistent`, `MarkNeverFalls`, `SourceGateHolds`,
`GuardIsReleased`, `ContentChangeIsAudited`, `AppliedIsWhole`, `UnreadyDecidesNothing`, `ServesMigrated`, `ReplacedIsKept`,
`BackupIsOneMoment`, `ToldWhenQuiet`.

Fairness is stated where liveness is checked (`FairSpec` of `RealTrading` and `ReconciliationLoop`), weak
and per process: promises settle and timers fire, so a call, sweep, reconciler or tick that can take a
step takes one; the interval is never cleared while the process is up; a request is taken or lost in the
end; the throttle and the cooldown end. Nothing is assumed of crashes (they are bounded), operators, callers or
the market; reconciliations may fail for ever.

Each property of a passing run has a mutant, a plausible slip in one definition (a guard dropped, a
budget kept per iteration, a flag written first, a stale read), that makes TLC report that property. Mutants
stand beside the definition they change.

### What the code says and does not do

Six runs end in a counterexample. Each checks a sentence of the source.

1. `claim_both_sides`. *A fill must never appear on one side of the ledger without the other.* A tick books the
   fill between `submit()`'s write and the last write of `_executeReal`, which sets the executed intent
   back to `real_pending`; the row is `filled`, so nothing reads it again.
2. `claim_final`. *Statuses that can never receive further broker activity.* `pending_cancel` is read as
   `canceled`; the row ends and the intent fails while the order still works.
3. `claim_one_order`. *`submit()` is idempotent per `trade_intent_id`.* A placement times out and its row becomes
   `submit_failed` while the order is live; a second call that read the intent pending places another.
4. `claim_exit`. *Broker query fails: NEVER report a false paper 'executed'.* `getPortfolio` catches both of its
   requests, so an outage is an empty portfolio, and the exit is booked on paper.
5. `claim_labels`. *These values come from a LATER snapshot than the decision cycle.* The cycle's own snapshot labels
   it, at the equity it decided on.
6. `claim_memory`. *Returns an empty state if there is none*; *reset deletes all memory*. The empty state is
   a shallow copy of a constant whose arrays the first observation changes.

Behaviours the models have and no run singles out:

- Real orders: the sweep's write of a revived row meets the unique index and nothing catches it, so the rows behind are
  not looked at. Two reconcilers that both read `partially_filled` pass the compare-and-set, so an older
  quantity can overwrite a newer one until the next reconcile. Two intents can both pass the
  symbol guard, a read with no index behind it. A sync between a fill and its booking takes the platform's own
  position for drift and halts. A broker outage makes `syncPortfolio` delete every cached position.
- Intents: the paper portfolio is read and written whole, so two intents lose one fill. An exit is always a sell, so
  it enlarges a short. The kill-switch is not read again before the order is sent.
- Scheduler: `_bumpRunCount` writes back a configuration read before, over an operator's disable. A reflection is
  not counted towards while the cycle just launched still runs.
- Pretest: a cycle writes the whole state minutes after reading it. A buy that meets a short of its size leaves a
  position of quantity 0. Reputation is only computed when the gate is ready.
- Setup: a seed that broke off is redone over keys the operator has set; two overlapping `apply()` calls leave a mixture
  under one name.
- Plugins: `deactivate()` does not look at `stack.requires`; `remove()` does not look at dependents; a failed install leaves its
  directory; `revertSkill` drops the snapshot before the file is written.
- Sandbox: a hook that never returns, exits, or prints loses every skill's signals, and the caller cannot tell that from no
  signals. A hook that returns the pending list it was given does not end.
- Risk: the cycle calls the risk manager with no positions and no history, so its caps hold per batch and its
  breaker has nothing to act on.
- LLM: with the backend on custom, readiness asks only whether an id is active, and a turn is refused where that id is
  not registered or its key is unset. `apply()` writes `llm.backend` and `llm.model` to the KV, which the service reads at
  boot only, so the applied model does not decide before a restart. The backend 'custom' is saved and its provider and
  id are not: the process restarts on a backend that refuses every turn.
- Files: a backup of the day is written over in place, and so is `.env` by `set()`: a stop in between loses them. A restore
  puts an older schema under a process that goes on serving.
- Watcher: `watchAll` runs once, so a plugin activated later is watched by nobody and one deactivated still is.
- Vetoes: a rate limit that outlasts its retries gives an empty list, and a decision is condemned as
  `insufficient_data`. Market data: the limit of the quote cache is not enforced; a rate-limited quote is
  cached with price 0.

## 4. What is proved

Seven modules of theorems, and one of lemmas on folds and selections, for every value of the constants.

| Theorem | States | Inductive invariant |
|---|---|---|
| `RealTradingProofs` | | `TypeOK /\ LocalsInv /\ LedgerInv`, `SeenInv`, and `EndInv` for the last |
| `TypeCorrect`, `OneActive`, `NothingFabricated`, `EndTogether`, `HaltIsSticky` | `TypeOK`, `OneActiveOrderPerIntent`, `NoFabricatedFill`, `RowAndIntentEndTogether`, `OnlyOperatorClearsHalt` | |
| `NeverDowngrades` | `ReconcilerNeverDowngrades` | |
| `KeepsPromise` | `Spec => PromiseKept`, the refinement of `OrderPromise` | |
| `NothingLost` | `BrokerOrderIsTracked`, where a cancel takes effect at once | |
| `IntentRoutingProofs` | | `RoutingInv`, `SignalInv` |
| `EntriesArePermitted`, `ExitsFollowPositions` | `EntryWasPermitted`, `ExitFollowsPosition` | `RouteInv` of each call |
| `SignalsActOnce` | `OneIntentPerSignal` | `SignalInv` |
| `CycleProofs` | | `ChainInv`, `ApprovalInv`, `VetoInv`, `TurnInv`, `MemoryInv` |
| `BrokenSkillIsIsolated` | `BrokenSkillEndsNothing` | `ChainInv` |
| `ApprovedByDisciplines`, `BlockedSignalsAreGone` | `OnlyDisciplinesApprove`, `BlockedMeansGone` where `ProposedOnce` | `ApprovalInv`, `VetoInv` |
| `TurnStaysInBudget`, `SourcesAreGated` | `BudgetHolds`, `SourceGateHolds` | `TurnInv` |
| `CapsHold` | `CapsHoldOverTheBatch` | over the batch: `ExposureKeeps`, `ConcentrationKeeps`, `Narrows` |
| `CyclePartsKeepTypes` | `CycleTypesOK` of `MCTradingCycle` | those of its parts |
| `AccountProofs` | | `LedgerInv`, `BookInv`, `EarnedInv`, `MarketInv` |
| `LedgerAlwaysBalances`, `BooksConserve` | `LedgerBalances`, `BookConserves` | |
| `PromotionsAreEarned`, `ServedDataIsFresh` | `PromotionIsEarned`, `NeverStalerThanPromised` | |
| `PlatformPartsKeepTypes` | `PlatformTypesOK` of `MCPlatform` | those of its parts |
| `LearningProofs` | | `TuneInv`, `OutcomeInv`, `BackfillInv` |
| `TunesAreJournaled`, `OutcomesAreOwn`, `VerdictsAreTimely` | `TuneIsJournaled`, `OutcomeIsItsCycles`, `JudgedAtItsHorizon` | |
| `PlatformProofs` | | `SchedulerInv`, `SlotInv`, `SkillInv`, `LifecycleInv`, `SetupInv`, `LlmInv`, `RecoveryInv`, `ReloadInv` |
| `OneJob`, `GuardComesDown`, `OneRunPerSlot` | `OneJobAtATime`, `GuardIsReleased`, `SlotRunsOnce` | |
| `InstalledBodyStays`, `DependentsAreServed`, `ContentIsAudited` | `InstalledBodyIsKept`, `RequirementsStay`, `ContentChangeIsAudited` | |
| `SeedIsWhole`, `NamedIsWritten` | `FlagMeansSeeded`, `AppliedIsWhole` | |
| `RequestsAreOfTheirTime`, `UnreadyStaysSilent`, `SavedIsWhatIsInForce` | `RequestOfItsTime`, `UnreadyDecidesNothing`, `SavedFollowsMemory` | `BootInv`, `TurnInv`, `SavedInv` |
| `SchemaFollowsHistory`, `ServesOnlyMigrated`, `RestoreLosesNothing`, `BackupsAreOfOneMoment` | `SchemaIsItsHistory`, `ServesMigrated`, `ReplacedIsKept`, `BackupIsOneMoment` | `FilesSound`, `ReleaseInv`, `KeptInv`, `MomentInv` |
| `BurstsAreToldOnce`, `RowSettlesOnManifest` | `ToldWhenQuiet`, `RowFollowsManifest` | `TimersInv`, `UpdatesInv` |
| `LoopProofs` | | `Inv` |
| `TypeCorrect`, `BreakerStaysConsistent`, `MarkIsMonotone` | types, `BreakerConsistent`, `MarkNeverFalls` of the loop | `ProbesInv`, `AdoptersInv` added |
| `...KeepsTypes`, `...KeepTypes` | the type invariant of every part of the two compositions, one theorem each, in the module of its part | |

The assumptions are the ones the modules name, and TLC evaluates each of them on the instances it checks. The constants
are what their comments say; those that carry weight are these:

- `StateAssumption`: the broker accepts an order only in statuses `normalizeBrokerStatus` maps to `accepted`.
- `GovernedLedgerAssumption`: slippage is less than any price, so a fill has a positive price; the symbols are finitely
  many, as are the assets of a pretest (`PretestBookAssumption`), since cost is a sum over them.
- `RiskAssumption`: the symbols are finitely many, for a total is a sum over them, and what is held, what a size
  comes to and the limits are not negative: the book and the configuration the plugin is called with.
- `PluginLifecycle` has a release to install, `IntentRouting` a day to live through and a symbol to trade. The flags of
  `ContextMemory` are a set of keys; the cut at `MAX_FLAGS` is not modelled.
- `AgentCycleAssumption`: what a hook proposes carries the name of its plugin, as the runner stamps it.
  `SkillChainAssumption`: a hook's conduct is one of the ten.
- `RecoveryAssumption` has only bounds; that a release adds its migrations behind the others is how `Upgrade` is written.
- `LlmBackend` and `HotReload` run database statements one at a time in the order they were issued, as Prisma over
  one SQLite connection does.
- `BlockedSignalsAreGone` supposes `ProposedOnce`, that no plugin proposes a symbol twice. The bundled plugins do not, and
  nothing in the code keeps another from it: the ledger matches by plugin and symbol, so of two such signals the
  one left answers for the one taken out. `BooksConserve` speaks of a book until a buy meets a short, as the property does.

Why the properties are not inductive as they stand:

- `LocalsInv` says what each process holds: a call past `create` holds a row of its own intent, a sweep about to
  write holds a legal write, a reconciler holds an answer that was true when read. `LedgerInv` ties both
  sides: a call about to place holds a row the broker never saw and no other call holds; an answer in
  hand is no more than the broker's record of now, which only grows. Without it the quantity checked at the
  lookup would say nothing at the write. `SeenInv`: a reconciler that went on past its read holds a status that had not
  ended, which the comparison at the write then carries to the row. `EndInv` adds that an ended row agrees with the broker's end; it fails
  with pending cancels (story 2), hence the assumption of `NothingLost`.
- `RouteInv` says of each call what its place grants: that a call past the policy holds one that was the
  policy at some time since it began (`OfItsPolicy`), that its mode and every later place come with the reads
  they passed (`OfItsReads`), and where its exit was sent by what it saw (`OfItsPosition`). `SignalInv`
  has two halves, before and after the create: a cycle is the only call that records its intents, so a duplicate check
  it made still holds when it writes.
- `ChainInv` says what the list holds after the first n skills: what each of them handed over, from the last one that
  emptied the list on, and an error for each that raised. The property speaks of the end only.
- `ApprovalInv` adds that once a discipline has failed nothing is pending, which the later ones cannot change, and that the
  signals are those of the end of the veto already while the ledger is written. `VetoInv` adds that no signal left was not
  proposed and that each row is the verdict on its proposal.
- `TurnInv` adds that what has run and what waits to run, after a reply was split, deferred and cut, was counted when it was
  let through, and that what waits passed the gate of the turn's source.
- `CapsHold`: the risk hook is one call, so its batch is what the induction runs over. `ExposureKeeps` says that after the
  first n signals the running book is what executing the signals kept so far gives, and that no symbol, and no total where
  the batch has no exit, is over its cap unless it was when the batch came; `ConcentrationKeeps` says it of the sectors, and
  that the book is below the one of the layer before (`BookBelow`). The layers behind only soften a signal: an entry is
  made smaller or cancelled, an exit passes as it is (`Softens`), so what is executed is no more and the exits are the
  same (`Narrows`), and the sums follow (`TotalMonotone`). That a running total is the total of what it has let through
  is what a fold over the whole batch does not say, and `FoldsAppend` does: the fold of a longer batch is one step more.
- The types of the parts need more than types, too. `RunTyped` says that whoever raised had been asked, which a run that was
  lost shows only from the steps before it; `RoutingKeepsTypes` rests on what each call has read (`RoutingInv`,
  `SignalInv`); an update that writes a checksum has compared it (`LifecycleInv`); what a caller of the context memory has
  read, and the blank memory that calls may share, hold notes there have been (`MemoryInv`).
- `CyclePartsKeepTypes` and `PlatformPartsKeepTypes` are of the compositions: `PartsStep` shows each step of the whole
  to be a step or a stutter of every part, so `Spec` implies the specification of each, and their theorems carry over.
- `LedgerInv` and `BookInv` carry the balance together with the types of every quantity and cost. The work is in the
  operators: each fill, cover, flip and rebalance is shown to move cash, cost and profit by amounts that cancel
  (`FillBalances`, `RebalanceBalances`, `TradesConserve`). `BookInv` adds that what a cycle has read conserves, since it is written back minutes later.
- `EarnedInv` adds that whoever looked at an open gate, `promote()` or the computation of the reputation, may go on when the row
  has changed since.
- `MarketInv` adds that a request is no older than its timeout, whatever it retries, and that an entry is kept
  no longer than its lifetime and that timeout after the moment it is true of.
- `SchedulerInv` adds that a reflecting tick holds the lock; `SlotInv` that the slots of running ticks are
  taken, distinct, and their remaining portfolios not yet started in them.
- `SkillInv` adds that a write under way holds the body it replaces, and that the installed body is the first
  snapshot while it is one. `LifecycleInv` adds that a plugin about to be deactivated has no dependents but those that
  were activated meanwhile, and that a checksum about to be written was compared. `SetupInv` says of each `apply()` which keys it has written.
- `OutcomeInv` says what a cycle's end has done so far and that later cycles have no rows; `BackfillInv` of the analyzer that a sweep
  holds decisions already made and fetched for them after they matured.
- `SavedInv`: among the writes under way, the newest one of this service for a key brings what is in memory, and only where
  there is none does the saved value. `TurnInv` of the LLM service: what is in force has been seen by every turn under way.
  A boot needs `BootInv`: nothing is on its way before what was saved is read.
- `FilesSound`: a restore brings back any database that was sealed or is about to be, so all of them are sound, and not
  only the one in force. `KeptInv` adds that the file about to be written over is copied already; `MomentInv` that what is being
  sealed was there at one time.
- `TimersInv`: the time a file has been quiet and what its timer has left are the debounce together. `UpdatesInv`: the
  newest update under way brings the manifest on disk, which is what the row settles on.

The library's induction theorems take an operator as a parameter, which the provers cannot instantiate. `FoldFacts` goes
around that with sets: a set of numbers, of subsets or of sequences that has a member outside it has a smallest one
(`NatSetInduction`, `SubsetInduction`, `SeqSetInduction`, from the well-foundedness of the orders). What the folds compute
(`LeftFoldStays`, `TotalChanges`, `OnlyFacts`) follows, and with it the sums, selections and chains above.

Every invariant that a passing run checks is the statement of a theorem. Only model-checked are the liveness properties
(`FillSettles`, `PhantomOrderLetsGo`, `LoopKeepsTrying`, `OpenBreakerHaltsOrHeals`, `CacheSettles`, `DriftKeepsHalting`,
`AdoptionEndsDrift`), since fairness and `ENABLED` are out of the prover's reach.

With pending cancels `BrokerOrderIsTracked` is neither checked nor proved: the run `claim_final` shows the broker trading
on behind an ended row.

## 5. Not modelled

- Floating-point arithmetic: the statistics of the pretest gate, walk-forward windows, the backtest. The gate is
  modelled by its counts of trades and losses.
- Prompts, parsers and the LLM itself: a reply is any short sequence of kinds of tool calls. The injection of
  ML features into the context, the chat, and the texts of skills are left out.
- Registry, store, authentication, alerts, audit, notifier, web search, panel, dashboard, onboarding and
  health: one row or one file at a time, with no decision taken by them.
- The cipher of a backup: a sealed file opens with the passphrase it was sealed with and with no other. The prompts
  of the five LLM backends and the shape of their requests.
- The web application, the store backend, the SDK, and the plugins other than `risk-manager` and
  `param-discipline`: clients and pure signal functions.
- Of the modelled services: creation and NAV rows of pretests, `create`, `remove` and `publish` of
  strategies, configuration and rescans of plugins, alerts and audit rows of intents, `trackSignal` of the context memory.

`PROJECT.json` lists every component with its status, the lines each definition models, and every hazard
with the properties that cover it. Natural continuations: `IntentRouting` composed with `RealTrading` by refining the
gate of `RealExecution`, and one-time codes of the authentication.
