------------------------------ MODULE AgentCycle -------------------------------
(***************************************************************************)
(* AgentsService._executeCycle() (agents.service.ts): the pipeline of one  *)
(* governed cycle around its LLM turn.  The plugins' hooks propose         *)
(* signals, the disciplines veto them one after another, the ledger        *)
(* records what became of each, the extras run before and after the turn,  *)
(* and what they want told is sent at the end.                             *)
(***************************************************************************)
EXTENDS Integers, Selection

CONSTANTS
    Proposals,   \* bound: what the hooks can propose, sequences of signals
    Disciplines, \* the active discipline plugins, as sorted
    Extras,      \* bound: how many extras run before the turn, and after it
    MaxCycles    \* bound: cycles

\* A signal, as the sandbox tags it with its plugin; a discipline can leave out
\* its source and its quantity.
UnknownQty == 0
NoSource == ""
Proposed == UNION {ToSet(signals) : signals \in Proposals}
PendingSignal ==
    [symbol : {s.symbol : s \in Proposed}, source : {s.source : s \in Proposed} \cup {NoSource},
     action : {s.action : s \in Proposed} \cup {"cancelled"}, qty : Nat]

ASSUME AgentCycleAssumption ==
    /\ Proposals \subseteq Seq(PendingSignal)
    /\ \A s \in Proposed : s.source # NoSource
    /\ MaxCycles \in Nat /\ Extras \in Nat

VARIABLES
    cyc,    \* the cycle: where it is, its context and what it has left to do
    cycles  \* cycles begun

cycleVars == <<cyc, cycles>>

AtStage(pc) == cyc.pc = pc
ToStage(pc) == cyc' = [cyc EXCEPT !.pc = pc]
NoCycle == [pc |-> "idle", proposed |-> <<>>, pending |-> <<>>, todo |-> <<>>,
            failed |-> FALSE, approved |-> <<>>, rows |-> <<>>,
            pre |-> 0, post |-> 0, collected |-> 0, sent |-> 0, aborted |-> FALSE]

CycleInit ==
    /\ cyc = NoCycle
    /\ cycles = 0

\* sandbox.runCycle(): a run that fails proposes nothing.
RunHooks ==
    /\ AtStage("idle") /\ cycles < MaxCycles
    /\ \E proposed \in Proposals \cup {<<>>}, pre, post \in 0 .. Extras :
         cyc' = [NoCycle EXCEPT !.pc = "veto", !.proposed = proposed, !.pending = proposed,
                   !.todo = Disciplines, !.pre = pre, !.post = post]
    /\ cycles' = cycles + 1

-----------------------------------------------------------------------------
(* _runVetoLayer *)

\* What a discipline that runs can leave of the signals: all of them or fewer,
\* resized, cancelled, stripped of their source, or merged into one.
Answers(signals) ==
    {signals}
      \cup {RemoveAt(signals, i) : i \in DOMAIN signals}
      \cup {[signals EXCEPT ![i].qty = @ + 1] : i \in DOMAIN signals}
      \cup {[signals EXCEPT ![i].action = "cancelled"] : i \in DOMAIN signals}
      \cup {[signals EXCEPT ![i].source = NoSource] : i \in DOMAIN signals}
      \cup IF Len(signals) < 2 THEN {}
           ELSE {<<[Head(signals) EXCEPT !.source = NoSource, !.qty = UnknownQty]>>}

RunDiscipline ==
    /\ AtStage("veto") /\ cyc.todo # <<>>
    /\ \E kept \in Answers(cyc.pending) :
         cyc' = [cyc EXCEPT !.todo = Tail(@), !.pending = kept]
    /\ UNCHANGED cycles

\* A discipline that fails vetoes everything.
DisciplineFails ==
    /\ AtStage("veto") /\ cyc.todo # <<>>
    /\ cyc' = [cyc EXCEPT !.todo = Tail(@), !.pending = <<>>, !.failed = TRUE]
    /\ UNCHANGED cycles

VetoEnds ==
    /\ AtStage("veto") /\ cyc.todo = <<>>
    /\ cyc' = [cyc EXCEPT !.pc = "ledger", !.approved = cyc.pending]
    /\ UNCHANGED cycles

-----------------------------------------------------------------------------
(* _persistVetoDecisions *)

Named(p, kept) == Only(kept, {s \in ToSet(kept) : s.symbol = p.symbol})
Exact(p, kept) == Only(Named(p, kept), {s \in ToSet(kept) : s.source = p.source})

\* Mutant: a signal that lost its source is taken for a vetoed one.
MatchesExactly(p, kept) == Exact(p, kept)

\* _findVetoMatch: the signals that can stand for p, of which the first does.
Matches(p, kept) == IF Exact(p, kept) # <<>> THEN Exact(p, kept) ELSE Named(p, kept)

Verdict(p, kept, proposed) ==
    LET match == Head(Matches(p, kept))
        ambiguous == /\ Exact(p, kept) = <<>> /\ Len(Named(p, proposed)) > 1
                     /\ match.source = NoSource
    IN  IF Matches(p, kept) = <<>> THEN "blocked"
        ELSE IF match.action = "cancelled" THEN "blocked"
        ELSE IF ~ambiguous /\ match.action = p.action
                /\ match.qty = p.qty /\ p.qty # UnknownQty
        THEN "approved" ELSE "modified"

\* One row for each proposal; a row that cannot be written is passed over.
PersistVetoDecision ==
    /\ AtStage("ledger") /\ Len(cyc.rows) < Len(cyc.proposed)
    /\ LET p == cyc.proposed[Len(cyc.rows) + 1]
       IN  \E row \in {Verdict(p, cyc.pending, cyc.proposed), "lost"} :
             cyc' = [cyc EXCEPT !.rows = Append(@, row)]
    /\ UNCHANGED cycles

LedgerEnds ==
    /\ AtStage("ledger") /\ Len(cyc.rows) = Len(cyc.proposed)
    /\ ToStage("pre")
    /\ UNCHANGED cycles

-----------------------------------------------------------------------------
(* The extras, the turn and the end of the cycle *)

\* Mutant: what an extra answers is laid over the context as it is.
MergeEverything(pending, offered) == offered

\* _mergeExtraCtx: pending_signals is one of the PROTECTED_KEYS.
MergeExtraCtx(pending, offered) == pending

\* An extra that runs can offer signals of its own and ask for messages.
RunPreExtra ==
    /\ AtStage("pre") /\ cyc.pre > 0
    /\ \E offered \in {cyc.pending, cyc.proposed}, wants \in 0 .. 1, abort \in BOOLEAN :
         cyc' = [cyc EXCEPT !.pre = @ - 1, !.pending = MergeExtraCtx(@, offered),
                            !.collected = @ + wants, !.aborted = abort,
                            !.pc = IF abort THEN "abort" ELSE "pre"]
    /\ UNCHANGED cycles

\* The intents dispatched are those of the context before the extras ran.
AbortCycle ==
    /\ AtStage("abort")
    /\ ToStage("done")
    /\ UNCHANGED cycles

\* runGovernedTurn(); what it does is in GovernedTurn.
RunTurn ==
    /\ AtStage("pre") /\ cyc.pre = 0
    /\ ToStage("post")
    /\ UNCHANGED cycles

\* After the turn an abort is too late and is ignored.
RunPostExtra ==
    /\ AtStage("post") /\ cyc.post > 0
    /\ \E offered \in {cyc.pending, cyc.proposed}, wants \in 0 .. 1 :
         cyc' = [cyc EXCEPT !.post = @ - 1, !.pending = MergeExtraCtx(@, offered),
                            !.collected = @ + wants]
    /\ UNCHANGED cycles

PostEnds ==
    /\ AtStage("post") /\ cyc.post = 0
    /\ ToStage("notify")
    /\ UNCHANGED cycles

\* Each intent is sent once, whether or not the bridge takes it.
SendNotification ==
    /\ AtStage("notify") /\ cyc.sent < cyc.collected
    /\ cyc' = [cyc EXCEPT !.sent = @ + 1]
    /\ UNCHANGED cycles

CycleReturns ==
    /\ AtStage("notify") /\ cyc.sent = cyc.collected
    /\ ToStage("done")
    /\ UNCHANGED cycles

\* Any await outside the try blocks, the LLM's among them, can throw.
CycleThrows ==
    /\ cyc.pc \notin {"idle", "done", "notify"}
    /\ cyc' = NoCycle
    /\ UNCHANGED cycles

CycleEnds ==
    /\ AtStage("done")
    /\ cyc' = NoCycle
    /\ UNCHANGED cycles

CycleNext ==
    \/ RunHooks \/ RunDiscipline \/ DisciplineFails \/ VetoEnds
    \/ PersistVetoDecision \/ LedgerEnds \/ RunPreExtra \/ AbortCycle \/ RunTurn
    \/ RunPostExtra \/ PostEnds \/ SendNotification \/ CycleReturns
    \/ CycleThrows \/ CycleEnds

CycleSpec == CycleInit /\ [][CycleNext]_cycleVars

-----------------------------------------------------------------------------
CycleTypeOK ==
    /\ cyc.pc \in {"idle", "veto", "ledger", "pre", "abort", "post", "notify", "done"}
    /\ Len(cyc.pending) <= Len(cyc.proposed) /\ Len(cyc.rows) <= Len(cyc.proposed)
    /\ ToSet(cyc.rows) \subseteq {"approved", "blocked", "modified", "lost"}
    /\ {cyc.failed, cyc.aborted} \subseteq BOOLEAN
    /\ cyc.pre \in 0 .. Extras /\ cyc.post \in 0 .. Extras
    /\ cyc.sent \in 0 .. cyc.collected /\ cycles \in 0 .. MaxCycles

AfterVeto == cyc.pc \in {"pre", "abort", "post", "notify", "done"}

\* What the LLM, the captured features and the later extras are given as
\* approved is what the disciplines approved, whatever the extras answer; and
\* it is nothing if one discipline could not be run.
OnlyDisciplinesApprove ==
    AfterVeto => /\ cyc.pending = cyc.approved
                 /\ cyc.failed => cyc.pending = <<>>

\* The ledger calls a proposal blocked exactly when no signal of its symbol
\* is left to act on: never one that was merged, resized or passed on.
BlockedMeansGone ==
    \A i \in DOMAIN cyc.rows :
      LET alive == {j \in DOMAIN cyc.approved :
                      /\ cyc.approved[j].symbol = cyc.proposed[i].symbol
                      /\ cyc.approved[j].action # "cancelled"}
      IN  /\ cyc.rows[i] = "blocked" =>
               ~ \E j \in alive : cyc.approved[j].source = cyc.proposed[i].source
          /\ alive = {} => cyc.rows[i] \in {"blocked", "lost"}
          /\ Len(cyc.approved) = 1 /\ alive # {} => cyc.rows[i] # "blocked"
=============================================================================
