---------------------------- MODULE RealTrading -----------------------------
(***************************************************************************)
(* The real-money order path as one system: concurrent decisions on trade  *)
(* intents, the steady reconciliation tick, the fast polls, the broker,    *)
(* and a process that can crash and start again at any moment.             *)
(***************************************************************************)
EXTENDS RealExecution

\* Everything in memory is lost.  The process starts again with onModuleInit,
\* whose first act is a sweep; a request to the broker is not taken back.
Crash ==
    /\ faults < MaxFaults
    /\ faults' = faults + 1
    /\ call' = [c \in Calls |->
                  IF At(c, "idle") THEN IdleCall ELSE [IdleCall EXCEPT !.pc = "done"]]
    /\ failures' = 0
    /\ absent' = [o \in Orders |-> 0]
    /\ rec' = [r \in Reconcilers |-> IdleRec]
    /\ \E boot \in Ticks :
         /\ sweep' = [t \in Ticks |-> IF t = boot THEN Recovering ELSE IdleSweep]
         /\ tick' = [t \in Ticks |-> [pc |-> IF t = boot THEN "boot" ELSE "idle", todo |-> {}]]
    /\ UNCHANGED <<dbVars, broker>>

Next ==
    \/ \E c \in Calls : CallStep(c)
    \/ \E t \in Ticks : SweepStep(t) \/ TickStep(t)
    \/ \E r \in Reconcilers : ReconcileStep(r)
    \/ BrokerStep
    \/ ClearHalt
    \/ Crash

Spec == Init /\ [][Next]_vars

(***************************************************************************)
(* Promises settle and timers fire: every process that can go on does.     *)
(* The interval of the loop is never cleared while the process is up, and  *)
(* a request reaches the broker or is lost.  Nothing is assumed of         *)
(* crashes, of the operator, of callers, or of when the market trades.     *)
(***************************************************************************)
Fairness ==
    /\ \A c \in Calls : WF_vars(CallStep(c) /\ ~At(c, "idle"))
    /\ \A t \in Ticks : WF_vars(SweepStep(t)) /\ WF_vars(TickStep(t))
    /\ \A r \in Reconcilers : WF_vars(ReconcileStep(r))
    /\ \A o \in Orders : WF_vars(BrokerAccepts(o) \/ BrokerDrops(o))

FairSpec == Spec /\ Fairness

-----------------------------------------------------------------------------
(* Safety.                                                                 *)

\* One-active-order-per-intent (real-order.service.ts:19): no interleaving of
\* submit(), the sweep and the reconcilers leaves an intent two active rows.
OneActiveOrderPerIntent ==
    \A o, p \in Orders :
        Active(o) /\ Active(p) /\ rows[o].intent = rows[p].intent => o = p

\* No fabricated fill (real-broker-reconciliation.service.ts:17): a row holds
\* no quantity the broker has not traded, a filled row is filled at the
\* broker, and an executed intent owns an order that traded.
NoFabricatedFill ==
    /\ \A o \in Orders :
         /\ rows[o].qty =< broker[o].qty
         /\ rows[o].status = "filled" => broker[o].status = "filled"
    /\ \A i \in Intents : intents[i] = "executed" =>
         \E o \in Orders : rows[o].intent = i /\ broker[o].qty > 0

\* Nothing the broker took is lost (broker-status.util.ts:47): its row is
\* selected by the sweep or by the loop, or agrees with the broker on how the
\* order ended.  The one exception is a row given up as confirmed_absent.
BrokerOrderIsTracked ==
    \A o \in Orders : KnownToBroker(o) =>
        \/ rows[o].status \in {"pending_submit", "submit_failed",
                               "submitted", "accepted", "partially_filled"}
        \/ broker[o].status \in BrokerFinal /\ rows[o].status = Normalize(broker[o].status)
        \/ rows[o].status = "confirmed_absent"

-----------------------------------------------------------------------------
(* What no step does.                                                      *)

Ended(rs, o) == rs[o].status \in {"filled", "canceled", "rejected", "expired"}

\* "A fill must never appear on one side of the ledger without the other"
\* (real-broker-reconciliation.service.ts:5): the step that ends a row at the
\* broker's word ends its intent too, as executed if anything was traded and
\* priced.
RowAndIntentEndTogether ==
    [][\A o \in Orders : Ended(rows', o) /\ ~Ended(rows, o) =>
         \/ intents'[rows[o].intent] = "executed" /\ rows'[o].qty > 0
         \/ /\ intents'[rows[o].intent] = "failed"
            /\ rows'[o].status # "filled"
            /\ rows'[o].qty > 0 => \E r \in Reconcilers : rec[r].order = o /\ ~rec[r].priced]_vars

Progress(status) ==
    CASE status \in {"pending_submit", "submit_failed", "confirmed_absent"} -> 0
      [] status \in {"submitted", "accepted"} -> 1
      [] status = "partially_filled" -> 2
      [] OTHER -> 3

\* applyBrokerOrder "must NEVER downgrade a row another writer already moved
\* further along" (real-broker-reconciliation.service.ts:209).
ReconcilerNeverDowngrades ==
    [][\A r \in Reconcilers, o \in Orders :
         rec[r].pc = "apply" /\ rec'[r].pc # "apply"
           => Progress(rows'[o].status) >= Progress(rows[o].status)]_vars

\* Crash safety and no blind resubmit (real-order.service.ts:8-17), and books
\* that only follow the broker: this is OrderPromise.
Stage(o) ==
    CASE broker[o].status = "none"    -> IF Exists(o) THEN "recorded" ELSE "free"
      [] broker[o].status = "sent"    -> "sent"
      [] broker[o].status = "dropped" -> "lost"
      [] OTHER                        -> "taken"

Promise == INSTANCE OrderPromise WITH
    stage <- [o \in Orders |-> Stage(o)],
    traded <- [o \in Orders |-> broker[o].qty],
    booked <- [o \in Orders |-> rows[o].qty]

PromiseKept == Promise!Spec

\* "NO AUTO-CLEAR, EVER" (real-execution-halt.util.ts:13): of all steps, a
\* crash and restart among them, only the operator's un-trips the switch.
OnlyOperatorClearsHalt == [][halted /\ ~halted' => ClearHalt]_vars

-----------------------------------------------------------------------------
(* What must happen.                                                       *)

\* The production incident of real-order.service.ts:77: a row the broker has
\* no record of stops blocking its intent and its slot.
PhantomOrderLetsGo ==
    \A o \in Orders :
        (rows[o].status = "pending_submit" /\ broker[o].status = "dropped") ~> ~Active(o)

\* Fix 1 of reconcileAllOpenOrders: a fill at the broker reaches the row and
\* stays there, even when placeOrder timed out, a write failed, the process
\* crashed, or a late write put the row back to an earlier status.
FillSettles ==
    \A o \in Orders : (broker[o].status = "filled") ~>
        [](rows[o].status \in {"filled", "confirmed_absent"})
=============================================================================
