------------------------------ MODULE SkillChain ------------------------------
(***************************************************************************)
(* The Python sandbox: one process of runner.py per call of SandboxGateway *)
(* (sandbox.gateway.ts).  A run_cycle calls the cycle hook of every active *)
(* skill in turn, on one list of pending signals that it hands to each of  *)
(* them; a smoke_test and the run_hook of LifecycleService try on_activate.*)
(*                                                                         *)
(* What a plugin's code does is its Conduct.  A signal is an object: <<p,  *)
(* n>> is the n-th signal plugin p made, and its _plugin tag may change    *)
(* after it was put in the list.                                           *)
(***************************************************************************)
EXTENDS Integers, Sequences, SequencesExt

CONSTANTS
    SkillIds,     \* the skill plugins, in the order of their directories
    HookConducts  \* the assignments of a Conduct to each of them

\* signals   returns two signals           nothing  returns no signal, or no dict
\* absent    has no hook, or no on_cycle   broken   raises when it is imported
\* raises    raises when it is called      half     its list breaks off after one
\* repeats   returns a copy of the pending signals and one of its own
\* echoes    returns the pending list itself
\* empties   clears the pending list, then returns one signal
\* ends      never returns, exits, or writes on stdout
Conducts == {"signals", "nothing", "absent", "broken", "raises", "half",
             "repeats", "echoes", "empties", "ends"}

SkillNames == {SkillIds[k] : k \in DOMAIN SkillIds}

ASSUME SkillChainAssumption ==
    /\ SkillIds \in Seq(SkillNames)
    /\ HookConducts \subseteq [SkillNames -> Conducts]

VARIABLES
    chain,   \* the run_cycle under way: what the runner has, then its reply
    trial    \* the plugin being activated, its smoke test and its hook

chainVars == <<chain, trial>>

NoSignals == [list |-> <<>>, tag |-> <<>>, errors |-> {}]
NoChain == [pc |-> "idle", conduct |-> <<>>, active |-> {}, at |-> 0, got |-> NoSignals]
NoTrial == [pc |-> "idle", manifest |-> TRUE, hook |-> "absent", skill |-> "absent",
            smoke |-> "none", ran |-> "none"]

ChainInit == chain = NoChain /\ trial = NoTrial

-----------------------------------------------------------------------------
(* cmd_run_cycle *)

PutSignal(got, p, s) ==
    [got EXCEPT !.list = Append(@, s),
                !.tag = [x \in DOMAIN @ \cup {s} |-> IF x = s THEN p ELSE @[x]]]

\* for sig in result["signals"]: sig["_plugin"] = pid; pending_signals.append(sig)
Collect(got, p, signals) == FoldLeft(LAMBDA g, s : PutSignal(g, p, s), got, signals)

Report(got, p) == [got EXCEPT !.errors = @ \cup {p}]

\* The list after the hook of p, whatever it does short of ending the process.
Called(got, p, conduct) ==
    CASE conduct = "signals" -> Collect(got, p, << <<p, 1>>, <<p, 2>> >>)
      [] conduct = "half"    -> Report(Collect(got, p, << <<p, 1>> >>), p)
      [] conduct = "raises"  -> Report(got, p)
      [] conduct = "repeats" -> Collect(got, p, Append(got.list, <<p, 1>>))
      [] conduct = "empties" -> Collect([got EXCEPT !.list = <<>>], p, << <<p, 1>> >>)
      [] OTHER               -> got

\* A loop over a list that grows under it does not end.
NeverEnds(got, conduct) ==
    \/ conduct = "ends"
    \/ conduct = "echoes" /\ got.list # <<>>

\* Gateway: stdin is written, and stdout parsed when the process closes.
CallCycle ==
    /\ chain.pc = "idle"
    /\ \E conduct \in HookConducts, active \in SUBSET SkillNames :
         chain' = [NoChain EXCEPT !.pc = "runner", !.conduct = conduct, !.active = active, !.at = 1]
    /\ UNCHANGED trial

\* Mutant: an import that raises is not isolated.
RunCycleHookBare(p) ==
    IF chain.conduct[p] = "broken" THEN chain' = [chain EXCEPT !.pc = "error"]
    ELSE IF NeverEnds(chain.got, chain.conduct[p]) THEN chain' = [chain EXCEPT !.pc = "lost"]
    ELSE chain' = [chain EXCEPT !.at = @ + 1, !.got = Called(@, p, chain.conduct[p])]

\* _load_cycle_hook() and the call of on_cycle, each in a try of its own.
RunCycleHook(p) ==
    IF chain.conduct[p] = "broken"
    THEN chain' = [chain EXCEPT !.at = @ + 1, !.got = Report(@, p)]
    ELSE IF NeverEnds(chain.got, chain.conduct[p]) THEN chain' = [chain EXCEPT !.pc = "lost"]
    ELSE chain' = [chain EXCEPT !.at = @ + 1, !.got = Called(@, p, chain.conduct[p])]

NextSkill ==
    /\ chain.pc = "runner" /\ chain.at <= Len(SkillIds)
    /\ IF SkillIds[chain.at] \in chain.active THEN RunCycleHook(SkillIds[chain.at])
       ELSE chain' = [chain EXCEPT !.at = @ + 1]
    /\ UNCHANGED trial

\* The process closes with its reply; or the timer of the gateway, or a limit
\* of the runner, kills it first, whatever it has collected.
RunnerReplies ==
    /\ chain.pc = "runner" /\ chain.at > Len(SkillIds)
    /\ chain' = [chain EXCEPT !.pc = "ok"]
    /\ UNCHANGED trial

RunnerKilled ==
    /\ chain.pc = "runner"
    /\ chain' = [chain EXCEPT !.pc = "lost"]
    /\ UNCHANGED trial

\* runCycle() of the caller: without a result it goes on with no signals.
CallerReads ==
    /\ chain.pc \in {"ok", "error", "lost"}
    /\ chain' = NoChain
    /\ UNCHANGED trial

-----------------------------------------------------------------------------
(* cmd_smoke_test, then the on_activate hook of LifecycleService *)

\* What a function does with no credentials and no data: runs, is absent, asks
\* for what is not there, raises, or ends the process.
TrialReplies == {"runs", "absent", "asks", "raises", "ends"}

Classify(reply) == IF reply = "asks" THEN "inconclusive" ELSE "failed"

\* No file is fine; a file without on_activate is not.
HookCheck(hook) == IF hook \in {"runs", "no_file"} THEN "passed" ELSE Classify(hook)
KeyCheck(skill) == IF skill = "runs" THEN "passed" ELSE Classify(skill)

\* The worst of the checks; a process that ends leaves no verdict.
SmokeVerdict(manifest, hook, skill) ==
    LET checks == {IF manifest THEN "passed" ELSE "failed", HookCheck(hook)}
                    \cup (IF manifest /\ skill # "no_file" THEN {KeyCheck(skill)} ELSE {})
    IN  IF hook = "ends" \/ (manifest /\ skill = "ends") THEN "inconclusive"
        ELSE IF "failed" \in checks THEN "failed"
        ELSE IF "inconclusive" \in checks THEN "inconclusive"
        ELSE "passed"

\* _smokeTestOnActivate: warns only.  "no_file" is a hook, or a list of keys,
\* that the plugin does not have.
SmokeTest ==
    /\ trial.pc = "idle"
    /\ \E manifest \in BOOLEAN, hook, skill \in TrialReplies \cup {"no_file"} :
         trial' = [pc |-> "activated", manifest |-> manifest, hook |-> hook, skill |-> skill,
                   smoke |-> SmokeVerdict(manifest, hook, skill), ran |-> "none"]
    /\ UNCHANGED chain

\* cmd_run_hook: on_activate runs a second time, now for real.  A manifest that
\* is there but cannot be parsed ends it.
HookAnswer(hook) == IF hook \in {"runs", "no_file"} THEN "ok" ELSE "failed"

ActivateHook ==
    /\ trial.pc = "activated"
    /\ \E answer \in {HookAnswer(trial.hook)} \cup (IF trial.manifest THEN {} ELSE {"failed"}) :
         trial' = [trial EXCEPT !.pc = "ran", !.ran = answer]
    /\ UNCHANGED chain

TrialEnds ==
    /\ trial.pc = "ran"
    /\ trial' = NoTrial
    /\ UNCHANGED chain

-----------------------------------------------------------------------------
ChainNext ==
    \/ CallCycle \/ NextSkill \/ RunnerReplies \/ RunnerKilled \/ CallerReads
    \/ SmokeTest \/ ActivateHook \/ TrialEnds

ChainSpec == ChainInit /\ [][ChainNext]_chainVars

SignalsOf(p) == {<<p, n>> : n \in 1 .. 2}

\* Types of the run under way and of the activation.
ChainTypeOK ==
    /\ chain.pc \in {"idle", "runner", "ok", "error", "lost"}
    /\ chain.active \subseteq SkillNames /\ chain.at \in 0 .. Len(SkillIds) + 1
    /\ ToSet(chain.got.list) \subseteq UNION {SignalsOf(p) : p \in SkillNames}
    /\ DOMAIN chain.got.tag \subseteq UNION {SignalsOf(p) : p \in SkillNames}
    /\ chain.got.errors \subseteq chain.active
    /\ trial.pc \in {"idle", "activated", "ran"}

\* What skill p has handed over when its hook was called.
Handed(p) ==
    CASE chain.conduct[p] = "signals" -> SignalsOf(p)
      [] chain.conduct[p] \in {"half", "repeats", "empties"} -> {<<p, 1>>}
      [] OTHER -> {}

Asked == {k \in DOMAIN SkillIds : SkillIds[k] \in chain.active}
LastEmptying == {k \in Asked : chain.conduct[SkillIds[k]] = "empties"}

\* run_cycle ("one broken plugin can't take down the whole cycle"): it answers
\* unless the process was ended, and its answer has every signal each skill
\* handed over and no later skill took out, and an error for each that raised.
BrokenSkillEndsNothing ==
    /\ chain.pc # "error"
    /\ chain.pc = "ok" =>
         /\ ToSet(chain.got.list) =
              UNION {Handed(SkillIds[k]) : k \in {j \in Asked : \A e \in LastEmptying : e <= j}}
         /\ chain.got.errors =
              {p \in chain.active : chain.conduct[p] \in {"broken", "raises", "half"}}

=============================================================================
