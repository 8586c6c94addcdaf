----------------------------- MODULE GovernedTurn -----------------------------
(***************************************************************************)
(* AgentsService.runGovernedTurn() (agents.service.ts) and the debate      *)
(* panel in front of its high-impact calls (debate.service.ts): the ReAct  *)
(* loop asks the LLM, drops the tool calls that may not run, and executes  *)
(* the others within budgets that hold for the whole turn.  A tool call is *)
(* known here by its kind; what the LLM answers is any sequence of them.   *)
(***************************************************************************)
EXTENDS Integers, Selection

CONSTANTS
    Replies,     \* bound: what the LLM can answer, sequences of Kinds
    RawLimits,   \* values of react.max_turns and react.max_tool_calls in KV
    SearchesPerIteration, \* MAX_WEB_SEARCH_CALLS_PER_ITERATION, 3 in the code
    SearchesPerCycle,     \* MAX_WEB_SEARCH_CALLS_PER_CYCLE, 5 in the code
    Roles,       \* the active debate roles: do they block?
    MaxRoles,    \* debate.max_roles
    MaxToggles   \* bound: plugins switched on or off by the operator

\* emit_trade_intent of an exit or an entry, a call of a broker plugin, a web
\* search, a kernel tool that changes things, promote_pretest, a function no
\* manifest declares, and a kernel function that does not exist.
Kinds == {"exit", "entry", "trade", "search", "mutate", "promote", "ghost", "bogus"}
KernelKinds == {"search", "mutate", "promote", "bogus"}
Sources == {"cycle", "pretest", "reflection", "chat"}
TurnPlugins == {"decision", "broker"}
PluginOf(k) == IF k = "trade" THEN "broker" ELSE "decision"

ASSUME TurnAssumption ==
    /\ Replies \subseteq Seq(Kinds)
    /\ RawLimits \subseteq Int
    /\ {SearchesPerIteration, SearchesPerCycle, MaxRoles, MaxToggles} \subseteq Nat
    /\ \A r \in DOMAIN Roles : Roles[r] \in BOOLEAN

VARIABLES
    turn,     \* the governed turn: where it is, its budgets and what it is to run
    running,  \* the active plugins, by now
    toggles,  \* changes of running so far
    ran       \* history: what the turn has run

turnVars == <<turn, running, toggles, ran>>

Clamp(n, lo, hi) == IF n < lo THEN lo ELSE IF n > hi THEN hi ELSE n
ResolveMaxTurns(raw) == Clamp(raw, 1, 10)
ResolveMaxToolCalls(raw) == Clamp(raw, 1, 20)

AtTurn(pc) == turn.pc = pc
IdleTurn == [pc |-> "idle", source |-> "cycle", virtual |-> FALSE, n |-> 0, executed |-> 0,
             searched |-> 0, maxTurns |-> 1, maxCalls |-> 1, hoisted |-> {}, debate |-> "off",
             valid |-> <<>>, search |-> <<>>, run |-> <<>>]
NothingRan == [calls |-> 0, searches |-> 0, kinds |-> {}]

TurnInit ==
    /\ turn = IdleTurn
    /\ running = TurnPlugins
    /\ toggles = 0
    /\ ran = NothingRan

\* The tools, the active plugins of a cycle, and both budgets are read once.
\* A pretest evaluates virtually.
BeginTurn ==
    /\ AtTurn("idle")
    /\ \E source \in Sources, turns \in RawLimits, calls \in RawLimits,
          debate \in {"off", "allow", "block"} :
         turn' = [IdleTurn EXCEPT !.pc = "ask", !.source = source, !.virtual = source = "pretest",
                    !.maxTurns = ResolveMaxTurns(turns), !.maxCalls = ResolveMaxToolCalls(calls),
                    !.hoisted = IF source = "chat" THEN {} ELSE running, !.debate = debate]
    /\ ran' = NothingRan
    /\ UNCHANGED <<running, toggles>>

\* _resolveDropReason: the kernel's own tools first, then virtual_only, then
\* what is active and declared.
DropReason(k, active) ==
    IF k \in KernelKinds
    THEN IF k = "bogus" THEN "unknown_kernel_tool"
         ELSE IF k # "search" /\ turn.source # "reflection" THEN "kernel_source_not_allowed"
         ELSE "none"
    ELSE IF turn.virtual /\ PluginOf(k) = "broker" /\ "broker" \in active
         THEN "virtual_mode_provider_blocked"
    ELSE IF PluginOf(k) \notin active THEN "plugin_inactive"
    ELSE IF k = "ghost" \/ PluginOf(k) \notin turn.hoisted THEN "function_not_declared"
    ELSE "none"

Validate(reply, active) == Only(reply, {k \in Kinds : DropReason(k, active) = "none"})

\* llm.complete and _validateToolCalls.  The plugins of a cycle are those it
\* began with; any other turn reads them again.  Chat has no tools, and its
\* answer is the text.  A failure of the LLM ends the turn.
AskLlm ==
    /\ AtTurn("ask")
    /\ \/ \E reply \in Replies :
            LET active == IF turn.source = "cycle" THEN turn.hoisted ELSE running
            IN  turn' = [turn EXCEPT !.pc = "split", !.n = @ + 1,
                                     !.valid = Validate(reply, active)]
       \/ turn' = IdleTurn
    /\ UNCHANGED <<running, toggles, ran>>

Remaining(limit, used) == IF used >= limit THEN 0 ELSE limit - used
FirstOf(s, n) == SubSeq(s, 1, IF Len(s) <= n THEN Len(s) ELSE n)

PrioritizeExits(calls) ==
    Only(calls, {"exit"}) \o Only(calls, Kinds \ {"exit"})

\* Mutant: each iteration has the whole budget again.
SplitPerIteration ==
    /\ AtTurn("split")
    /\ LET searches == Only(turn.valid, {"search"})
           others == PrioritizeExits(Only(turn.valid, Kinds \ {"search"}))
           search == FirstOf(searches, SearchesPerIteration)
           run == FirstOf(others, turn.maxCalls)
       IN  turn' = [turn EXCEPT !.pc = "dispatch", !.search = search, !.run = run,
                      !.executed = @ + Len(run), !.searched = @ + Len(search)]
    /\ UNCHANGED <<running, toggles, ran>>

\* _executeToolCalls: searches have a budget of their own, the other calls
\* what is left of the turn's, with the exits in front.
Split ==
    /\ AtTurn("split")
    /\ LET searches == Only(turn.valid, {"search"})
           others == PrioritizeExits(Only(turn.valid, Kinds \ {"search"}))
           left == Remaining(SearchesPerCycle, turn.searched)
           search == FirstOf(searches, IF left < SearchesPerIteration THEN left
                                       ELSE SearchesPerIteration)
           run == FirstOf(others, Remaining(turn.maxCalls, turn.executed))
       IN  turn' = [turn EXCEPT !.pc = "dispatch", !.search = search, !.run = run,
                      !.executed = @ + Len(run), !.searched = @ + Len(search)]
    /\ UNCHANGED <<running, toggles, ran>>

-----------------------------------------------------------------------------
(* The debate: a role that fails abstains, and one that blocks can veto. *)

Stances == {"approve", "reject", "abstain"}
Panel == 1 .. (IF Len(Roles) <= MaxRoles THEN Len(Roles) ELSE MaxRoles)

Score(stances) ==
    Cardinality({r \in Panel : stances[r] = "approve"})
      - Cardinality({r \in Panel : stances[r] = "reject"})

SynthesizeConsensus(stances) ==
    IF (\E r \in Panel : Roles[r] /\ stances[r] = "reject") \/ Score(stances) <= 0
    THEN "reject" ELSE "approve"

\* An exit is never of high impact and a promotion always is; the size of
\* another call may make it so.
MayBeHighImpact(k) == k \in {"promote", "trade", "entry"}

\* The panel can time out, and debate.fail_mode decides.
Outcomes(k) ==
    IF turn.debate = "off" \/ Panel = {} \/ ~MayBeHighImpact(k) THEN {"run"}
    ELSE (IF k = "promote" THEN {} ELSE {"run"})
         \cup {IF SynthesizeConsensus(s) = "reject" THEN "drop" ELSE "run" :
                 s \in [Panel -> Stances]}
         \cup {IF turn.debate = "block" THEN "drop" ELSE "run"}

\* _executeToolCalls runs the searches first.
Search ==
    /\ AtTurn("dispatch") /\ turn.search # <<>>
    /\ ran' = [ran EXCEPT !.searches = @ + 1, !.kinds = @ \cup {"search"}]
    /\ turn' = [turn EXCEPT !.search = Tail(@)]
    /\ UNCHANGED <<running, toggles>>

\* _dispatchOne: whatever becomes of the call, the next one follows.
Dispatch ==
    /\ AtTurn("dispatch") /\ turn.search = <<>> /\ turn.run # <<>>
    /\ \E outcome \in Outcomes(Head(turn.run)) :
         ran' = IF outcome = "drop" THEN ran
                ELSE [ran EXCEPT !.calls = @ + 1, !.kinds = @ \cup {Head(turn.run)}]
    /\ turn' = [turn EXCEPT !.run = Tail(@)]
    /\ UNCHANGED <<running, toggles>>

\* The loop ends when nothing valid was asked for, at the last turn, and when
\* the budget of tool calls is spent.
EndIteration ==
    /\ AtTurn("dispatch") /\ turn.search = <<>> /\ turn.run = <<>>
    /\ turn' = IF turn.valid = <<>> \/ turn.n >= turn.maxTurns \/ turn.executed >= turn.maxCalls
               THEN IdleTurn ELSE [turn EXCEPT !.pc = "ask"]
    /\ UNCHANGED <<running, toggles, ran>>

TogglePlugin ==
    /\ toggles < MaxToggles
    /\ \E p \in TurnPlugins : running' = IF p \in running THEN running \ {p} ELSE running \cup {p}
    /\ toggles' = toggles + 1
    /\ UNCHANGED <<turn, ran>>

TurnNext == BeginTurn \/ AskLlm \/ Split \/ Search \/ Dispatch \/ EndIteration \/ TogglePlugin

TurnSpec == TurnInit /\ [][TurnNext]_turnVars

-----------------------------------------------------------------------------
TurnTypeOK ==
    /\ turn.pc \in {"idle", "ask", "split", "dispatch"} /\ turn.source \in Sources
    /\ turn.n \in 0 .. 10 /\ turn.maxTurns \in 1 .. 10 /\ turn.maxCalls \in 1 .. 20
    /\ {turn.executed, turn.searched, ran.calls, ran.searches} \subseteq Nat
    /\ {turn.valid, turn.search, turn.run} \subseteq Seq(Kinds)
    /\ ran.kinds \subseteq Kinds
    /\ running \subseteq TurnPlugins /\ toggles \in 0 .. MaxToggles

\* Anti-amplification: over all its iterations a turn executes no more tool
\* calls than react.max_tool_calls, clamped, and no more searches than its
\* own cap, whatever the LLM asks for in each of them.
BudgetHolds ==
    turn.pc # "idle" =>
      /\ ran.calls <= turn.maxCalls
      /\ ran.searches <= SearchesPerCycle

\* Only a reflection changes skills, pretests, models or parameters, a chat
\* runs no plugin, and a virtual evaluation never reaches a broker plugin,
\* whatever the LLM asks for and the operator switches meanwhile.
SourceGateHolds ==
    turn.pc # "idle" =>
      /\ ran.kinds \cap {"mutate", "promote"} # {} => turn.source = "reflection"
      /\ turn.source = "chat" => ran.kinds \subseteq {"search"}
      /\ turn.virtual => "trade" \notin ran.kinds
=============================================================================
