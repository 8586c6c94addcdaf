------------------------------ MODULE MCPlatform ------------------------------
(***************************************************************************)
(* Instance for TLC: the parts of the platform around the trading cycle.   *)
(* The modules share no variables, so a behaviour studies one of them, and *)
(* the others stay as they start.                                          *)
(***************************************************************************)
EXTENDS TLC, GovernedLedger, KernelTools, CycleScheduler, PretestScheduler, Pretest,
        StrategySetup, SkillRevision, PluginLifecycle, VetoBackfill, MarketData,
        LlmBackend, Recovery, HotReload

CONSTANTS p1, p2, d1, d2, haiku, gemini, groq, ollama

VARIABLE study   \* the component that moves

MCLimits ==
    [position |-> 60, short |-> 40, positions |-> 2, drawdown |-> 30, breaker |-> TRUE,
     daily |-> 10, weekly |-> 15]

ToolCall(s, x) == [symbol |-> s, action |-> x]
MCQuotes ==
    {[s \in Assets |-> price] : price \in {2, 4}}
      \cup {[s \in Assets |-> IF s = "a" THEN 0 ELSE 2]}
MCOrders ==
    {<<ToolCall("a", "long")>>, <<ToolCall("a", "short")>>, <<ToolCall("a", "exit")>>,
     <<ToolCall("b", "short"), ToolCall("c", "long")>>,
     <<ToolCall("a", "long"), ToolCall("a", "exit")>>}

MCBundle == <<"universe", "real">>
MCSeed == <<"universe", "plugins", "real", "scheduler">>

MCRequires == (p1 :> {}) @@ (p2 :> {p1})
MCStack == [p \in Plugins |-> {}]

MCProposal == (d1 :> "trade") @@ (d2 :> "unpriced")

MCInstruments == [bars |-> {"a", "b"}, quotes |-> {"a"}]
MCTTL == [bars |-> 1, quotes |-> 0, empty |-> 0]
MCMaxEntries == [bars |-> 1, quotes |-> 1]

MCDefaultModelOf == (groq :> gemini) @@ (ollama :> haiku)
MCPatch(b, m, id) == [backend |-> b, model |-> m, id |-> id]
MCPatches ==
    {MCPatch("openai", Unset, Unset), MCPatch("other", Unset, Unset),
     MCPatch("gemini", gemini, Unset), MCPatch("anthropic", haiku, Unset),
     MCPatch(Unset, gemini, groq), MCPatch(Unset, Unset, ""), MCPatch("subscription", gemini, Unset)}
MCApplied == [backend |-> "anthropic", model |-> gemini]

Init ==
    /\ study \in {"ledger", "tools", "scheduler", "pretestScheduler", "pretest", "setup",
                  "skill", "plugins", "veto", "market", "llm", "recovery", "reload"}
    /\ LedgerInit /\ ToolsInit /\ SchedulerInit /\ PretestSchedulerInit /\ PretestInit
    /\ SetupInit /\ SkillInit /\ LifecycleInit /\ VetoInit /\ MarketInit
    /\ LlmInit /\ RecoveryInit /\ HotReloadInit
    \* One initial state is enough of a component that does not move.
    /\ study # "llm" => keys = {}
    /\ study # "recovery" => env = 0 /\ shipped = {1}
    /\ study # "reload" => enabledRows = {}

serviceVars == <<llmVars, recoveryVars, reloadVars>>

Moves(name) == study = name /\ UNCHANGED study

Next ==
    \/ /\ Moves("ledger") /\ LedgerNext
       /\ UNCHANGED <<toolVars, schedulerVars, pretestSchedulerVars, pretestVars,
                      setupVars, skillVars, lifecycleVars, vetoVars, marketVars,
                      serviceVars>>
    \/ /\ Moves("tools") /\ ToolsNext
       /\ UNCHANGED <<ledgerVars, schedulerVars, pretestSchedulerVars, pretestVars,
                      setupVars, skillVars, lifecycleVars, vetoVars, marketVars,
                      serviceVars>>
    \/ /\ Moves("scheduler") /\ SchedulerNext
       /\ UNCHANGED <<ledgerVars, toolVars, pretestSchedulerVars, pretestVars,
                      setupVars, skillVars, lifecycleVars, vetoVars, marketVars,
                      serviceVars>>
    \/ /\ Moves("pretestScheduler") /\ PretestSchedulerNext
       /\ UNCHANGED <<ledgerVars, toolVars, schedulerVars, pretestVars, setupVars,
                      skillVars, lifecycleVars, vetoVars, marketVars, serviceVars>>
    \/ /\ Moves("pretest") /\ PretestNext
       /\ UNCHANGED <<ledgerVars, toolVars, schedulerVars, pretestSchedulerVars, setupVars,
                      skillVars, lifecycleVars, vetoVars, marketVars, serviceVars>>
    \/ /\ Moves("setup") /\ SetupNext
       /\ UNCHANGED <<ledgerVars, toolVars, schedulerVars, pretestSchedulerVars, pretestVars,
                      skillVars, lifecycleVars, vetoVars, marketVars, serviceVars>>
    \/ /\ Moves("skill") /\ SkillNext
       /\ UNCHANGED <<ledgerVars, toolVars, schedulerVars, pretestSchedulerVars, pretestVars,
                      setupVars, lifecycleVars, vetoVars, marketVars, serviceVars>>
    \/ /\ Moves("plugins") /\ LifecycleNext
       /\ UNCHANGED <<ledgerVars, toolVars, schedulerVars, pretestSchedulerVars, pretestVars,
                      setupVars, skillVars, vetoVars, marketVars, serviceVars>>
    \/ /\ Moves("veto") /\ VetoNext
       /\ UNCHANGED <<ledgerVars, toolVars, schedulerVars, pretestSchedulerVars, pretestVars,
                      setupVars, skillVars, lifecycleVars, marketVars, serviceVars>>
    \/ /\ Moves("market") /\ MarketNext
       /\ UNCHANGED <<ledgerVars, toolVars, schedulerVars, pretestSchedulerVars, pretestVars,
                      setupVars, skillVars, lifecycleVars, vetoVars, serviceVars>>
    \/ /\ Moves("llm") /\ LlmNext
       /\ UNCHANGED <<ledgerVars, toolVars, schedulerVars, pretestSchedulerVars, pretestVars,
                      setupVars, skillVars, lifecycleVars, vetoVars, marketVars,
                      recoveryVars, reloadVars>>
    \/ /\ Moves("recovery") /\ RecoveryNext
       /\ UNCHANGED <<ledgerVars, toolVars, schedulerVars, pretestSchedulerVars, pretestVars,
                      setupVars, skillVars, lifecycleVars, vetoVars, marketVars,
                      llmVars, reloadVars>>
    \/ /\ Moves("reload") /\ HotReloadNext
       /\ UNCHANGED <<ledgerVars, toolVars, schedulerVars, pretestSchedulerVars, pretestVars,
                      setupVars, skillVars, lifecycleVars, vetoVars, marketVars,
                      llmVars, recoveryVars>>

vars ==
    <<study, ledgerVars, toolVars, schedulerVars, pretestSchedulerVars, pretestVars, setupVars,
      skillVars, lifecycleVars, vetoVars, marketVars, serviceVars>>

Spec == Init /\ [][Next]_vars

\* Every component keeps to its types.
PlatformTypesOK ==
    /\ LedgerTypeOK /\ ToolsTypeOK /\ SchedulerTypeOK /\ PretestSchedulerTypeOK
    /\ PretestTypeOK /\ SetupTypeOK /\ SkillTypeOK /\ LifecycleTypeOK /\ MarketTypeOK
    /\ LlmTypeOK /\ RecoveryTypeOK /\ HotReloadTypeOK
=============================================================================
