---------------------------- MODULE MCTradingCycle ----------------------------
(***************************************************************************)
(* Instance for TLC: the parts of one trading cycle, from the sandbox that *)
(* proposes signals to the routing of the intents that come of them and    *)
(* the labels they get.  The modules share no variables, so a behaviour    *)
(* studies one of them, and the others stay as they start.                 *)
(***************************************************************************)
EXTENDS SkillChain, RiskDiscipline, AgentCycle, GovernedTurn, IntentRouting,
        OutcomeLabels, ContextMemory

VARIABLE study   \* the component that moves

MCSkills == <<"u1", "u2", "u3">>
Uniform(x) == [s \in SkillNames |-> x]
MCConducts ==
    {Uniform(x) : x \in {"signals", "nothing", "repeats", "echoes"}}
      \cup {[Uniform("signals") EXCEPT !["u2"] = x] : x \in Conducts}
      \cup {[Uniform("half") EXCEPT !["u1"] = "broken", !["u3"] = x] :
              x \in {"repeats", "empties", "raises"}}

MCSectorOf == [s \in RiskSymbols |-> IF s = "c" THEN "energy" ELSE "tech"]
MCRiskConfig ==
    [trade |-> 30, asset |-> 40, total |-> 80, open |-> 2, shorts |-> FALSE, sector |-> 30,
     cash |-> 20, positions |-> 2, warning |-> 5, danger |-> 10, breaker |-> 15,
     recovery |-> 3, daily |-> 8]

Order(s, x, n) == [symbol |-> s, action |-> x, notional |-> n, size |-> 20, usd |-> 40]
MCOrderSet ==
    {Order("a", "long", 20), Order("a", "long", 60), Order("b", "long", 50),
     Order("c", "buy", 30), Order("b", "short", 20), Order("a", "exit", 30),
     Order("b", "exit", 0), Order("c", "hold", 0)}
MCRiskBatches == UNION {[1 .. k -> MCOrderSet] : k \in 1 .. 3}

Context(holds, sized, alike, history, circuit, worst) ==
    [value |-> 100, held |-> holds, sized |-> sized, alike |-> alike, history |-> history,
     today |-> 0, circuit |-> circuit, worst |-> worst]
Flat == [s \in RiskSymbols |-> 0]
HoldsA == [Flat EXCEPT !["a"] = 30]
MCRiskContexts ==
    {Context(Flat, Flat, {}, <<>>, "normal", 0),
     Context(HoldsA, HoldsA, {<<"b", "a">>}, <<100, 94>>, "normal", 0),
     Context(HoldsA, Flat, {}, <<120, 100, 107>>, "breaker", 16),
     Context(Flat, HoldsA, {}, <<100, 120, 100>>, "normal", 0),
     Context(Flat, Flat, {}, <<100, 90>>, "normal", 0)}

Signal(src, q) == [symbol |-> "SPY", source |-> src, action |-> "buy", qty |-> q]
MCProposals ==
    {<<Signal("p", 1)>>, <<Signal("p", 1), Signal("q", 1)>>, <<Signal("p", 0), Signal("q", 2)>>}
MCDisciplines == <<"ml", "risk">>

MCRoles == <<FALSE, TRUE>>
MCReplies ==
    UNION {[1 .. n -> Kinds] : n \in 0 .. 2}
      \cup {<<"entry", "exit", "exit">>, <<"mutate", "exit", "search">>,
            <<"search", "search", "search">>}

MCLimits ==
    [position |-> 50, short |-> 50, positions |-> 1, drawdown |-> 30, breaker |-> TRUE,
     daily |-> 10, weekly |-> 15]

Init ==
    /\ study \in {"chain", "trial", "risk", "cycle", "turn", "routing", "labels", "memory"}
    /\ ChainInit /\ RiskInit /\ CycleInit /\ TurnInit /\ RoutingInit /\ OutcomeInit
    /\ ContextMemoryInit

StudyChain == study = "chain" /\ ChainNext /\ UNCHANGED trial
StudyTrial == study = "trial" /\ ChainNext /\ UNCHANGED chain

Next ==
    /\ UNCHANGED study
    /\ \/ (StudyChain \/ StudyTrial)
          /\ UNCHANGED <<risk, cycleVars, turnVars, routingVars, outcomeVars, contextMemoryVars>>
       \/ study = "risk" /\ RiskNext
          /\ UNCHANGED <<chainVars, cycleVars, turnVars, routingVars, outcomeVars, contextMemoryVars>>
       \/ study = "cycle" /\ CycleNext
          /\ UNCHANGED <<chainVars, risk, turnVars, routingVars, outcomeVars, contextMemoryVars>>
       \/ study = "turn" /\ TurnNext
          /\ UNCHANGED <<chainVars, risk, cycleVars, routingVars, outcomeVars, contextMemoryVars>>
       \/ study = "routing" /\ RoutingNext
          /\ UNCHANGED <<chainVars, risk, cycleVars, turnVars, outcomeVars, contextMemoryVars>>
       \/ study = "labels" /\ OutcomeNext
          /\ UNCHANGED <<chainVars, risk, cycleVars, turnVars, routingVars, contextMemoryVars>>
       \/ study = "memory" /\ ContextMemoryNext
          /\ UNCHANGED <<chainVars, risk, cycleVars, turnVars, routingVars, outcomeVars>>

vars == <<study, chainVars, risk, cycleVars, turnVars, routingVars, outcomeVars, contextMemoryVars>>

Spec == Init /\ [][Next]_vars

\* Intents, and the calls of the memory, are told apart by nothing.
Symmetry == Permutations(Intents) \cup Permutations(MemoryCallers)

\* Every component keeps to its types.
CycleTypesOK ==
    /\ ChainTypeOK /\ CycleTypeOK /\ TurnTypeOK /\ RoutingTypeOK /\ OutcomeTypeOK
    /\ ContextMemoryTypeOK
=============================================================================
