--------------------------- MODULE RealExecution ----------------------------
(***************************************************************************)
(* TradeIntentService on the real-money path (trade-intent.service.ts):    *)
(* autoProcess(), approve() and reject() read the intent, and every write  *)
(* they make to it later is an update by id.  The risk gates are one       *)
(* choice here: they may refuse any intent, and must refuse an entry while *)
(* the kill-switch is on.                                                  *)
(***************************************************************************)
EXTENDS RealReconciliation

Begin(c) ==
    /\ At(c, "idle")
    /\ \E i \in Intents :
         /\ intents[i] = "pending"
         /\ call' = [call EXCEPT ![c] = [@ EXCEPT !.pc = "gate", !.intent = i]]
    /\ UNCHANGED <<dbVars, broker, memoryVars, sweep, rec, tick, faults>>

\* The halt is read in _checkExecuteRealPreconditions, and not again.
GatePasses(c) ==
    /\ At(c, "gate")
    /\ call[c].intent \in Entries => ~halted
    /\ Goto(c, "by_intent")
    /\ UNCHANGED <<dbVars, broker, memoryVars, sweep, rec, tick, faults>>

\* No account state, no quote, a quantity of zero, the ceiling, the halt:
\* failed.  The drawdown and position gates, and reject(): rejected.
GateRefuses(c) ==
    /\ At(c, "gate")
    /\ Goto(c, "fail") \/ Goto(c, "refuse")
    /\ UNCHANGED <<dbVars, broker, memoryVars, sweep, rec, tick, faults>>

Decide(c, status) ==
    /\ intents' = [intents EXCEPT ![call[c].intent] = status]
    /\ Goto(c, "done")
    /\ UNCHANGED <<rows, halted, broker, memoryVars, sweep, tick, faults>>

FailIntent(c) == At(c, "fail") /\ Decide(c, "failed") /\ UNCHANGED rec
RejectIntent(c) == At(c, "refuse") /\ Decide(c, "rejected") /\ UNCHANGED rec

\* The end of _executeReal: the fast poll is left running, of the row that
\* submit() returned, and the intent is pending on it.
SettleIntent(c) ==
    /\ At(c, "settle")
    /\ rec' = [rec EXCEPT ![c] = Polling(call[c].order)]
    /\ Decide(c, "real_pending")

CallStep(c) ==
    \/ Begin(c) \/ GatePasses(c) \/ GateRefuses(c)
    \/ FailIntent(c) \/ RejectIntent(c) \/ SettleIntent(c)
    \/ SubmitStep(c)

\* clearRealExecutionHalt, by an operator with a TOTP code.
ClearHalt ==
    /\ halted
    /\ halted' = FALSE
    /\ UNCHANGED <<rows, intents, broker, memoryVars, processVars, faults>>
=============================================================================
