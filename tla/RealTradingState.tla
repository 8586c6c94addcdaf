-------------------------- MODULE RealTradingState --------------------------
(***************************************************************************)
(* The state of the real-money order path.                                 *)
(*                                                                         *)
(* Outside the process: the RealOrder and TradeIntent tables, the          *)
(* kill-switch in the KV table, and the broker.  Inside it, and lost with  *)
(* it: the local variables of the calls, sweeps, polls and ticks under     *)
(* way, and two counters of RealOrderService.                              *)
(*                                                                         *)
(* An element of Orders stands for a RealOrder row, its client_order_id    *)
(* and the broker's order of that id at once: generateClientOrderId makes  *)
(* a fresh id for each row and no row ever changes its id.                 *)
(***************************************************************************)
EXTENDS Naturals, BrokerStatus

CONSTANTS
    Orders,        \* rows the database can hold: bounds how many are created
    Intents,       \* TradeIntents
    Calls,         \* calls of autoProcess, approve or reject
    Ticks,         \* reconciliation ticks that can be running at once
    None,          \* no intent, no order
    SlotOf,        \* SlotOf[i]: the symbol, broker and side of intent i
    Entries,       \* the intents whose action is long or short; the rest exit
    MaxQty,        \* the quantity every order asks for
    AcceptedAs,    \* the raw statuses in which the broker may take an order
    StopStatuses,  \* the raw statuses in which the broker may end one early
    PendingCancel, \* does a cancel leave the order working for a while?
    SubmitFailureThreshold, \* SUBMIT_FAILURE_THRESHOLD, 3 in the code
    AbsentThreshold,        \* CONFIRMED_ABSENT_ESCALATION_THRESHOLD, 3 in the code
    FastPolls,              \* length of FAST_POLL_DELAYS_MS, 4 in the code
    MaxFaults               \* bound: crashes, and lookups that fail

Reconcilers == Calls \cup Ticks

ASSUME StateAssumption ==
    /\ None \notin Orders \cup Intents
    /\ Calls \cap Ticks = {}
    /\ Entries \subseteq Intents
    /\ MaxQty \in Nat \ {0}
    /\ \A raw \in AcceptedAs :
         /\ Normalize(raw) = "accepted"
         /\ raw \notin {"none", "sent", "dropped"}
    /\ StopStatuses \subseteq {"canceled", "rejected", "expired", "done_for_day"}
    /\ PendingCancel \in BOOLEAN
    /\ SubmitFailureThreshold \in Nat \ {0}
    /\ AbsentThreshold \in Nat \ {0}
    /\ FastPolls \in Nat \ {0}
    /\ MaxFaults \in Nat

VARIABLES
    rows,      \* real_orders: status "none" is a row not created yet
    intents,   \* trade_intents.status
    halted,    \* real_execution.halted
    broker,    \* the broker's own record of each order
    call,      \* each call: where it is, the intent it decides, its order
    failures,  \* submitFailureTimestamps: how many
    absent,    \* confirmedAbsentCounts
    sweep,     \* each run of recoverInflight: rows left, row and write in hand
    rec,       \* each reconcileOrder: its row, the status it read, the answer
    tick,      \* each tick of the loop: its phase and the rows left to it
    faults     \* crashes and failed lookups so far

dbVars == <<rows, intents, halted>>
memoryVars == <<failures, absent>>
processVars == <<call, sweep, rec, tick>>
vars == <<dbVars, broker, memoryVars, processVars, faults>>

-----------------------------------------------------------------------------
IntentStatuses == {"pending", "real_pending", "executed", "failed", "rejected"}

BrokerFinal == {"filled", "canceled", "rejected", "expired", "done_for_day"}
BrokerAbsent == {"none", "sent", "dropped"}
BrokerStatuses == BrokerAbsent \cup BrokerFinal
                    \cup AcceptedAs \cup {"partially_filled", "pending_cancel"}
BrokerOrder == [status : BrokerStatuses, qty : 0 .. MaxQty]

\* Status, filled_qty, and whether submitted_at and broker_order_id are set,
\* which submit() writes together and _cancelStaleOpenOrders needs together.
Row == [intent : Intents \cup {None}, status : RowStatuses \cup {"none"},
        qty : 0 .. MaxQty, cancellable : BOOLEAN]
NoRow == [intent |-> None, status |-> "none", qty |-> 0, cancellable |-> FALSE]
NewRow(i) == [intent |-> i, status |-> "pending_submit", qty |-> 0, cancellable |-> FALSE]

CallPlaces == {"idle", "gate", "by_intent", "by_symbol", "create", "race", "place",
               "placing", "halt", "mark_submitted", "mark_failed", "settle",
               "fail", "refuse", "done"}
Call == [pc : CallPlaces, intent : Intents \cup {None}, order : Orders \cup {None}]
IdleCall == [pc |-> "idle", intent |-> None, order |-> None]

SweepWrites == {"none", "confirmed_absent", "accepted", "partially_filled"}
Sweep == [pc : {"idle", "lookup", "write"}, todo : SUBSET Orders,
          order : Orders \cup {None}, write : SweepWrites]
IdleSweep == [pc |-> "idle", todo |-> {}, order |-> None, write |-> "none"]
Looking(todo) == [pc |-> "lookup", todo |-> todo, order |-> None, write |-> "none"]

Reconciliation == [pc : {"idle", "read", "lookup", "apply"}, order : Orders \cup {None},
                   seen : RowStatuses \cup {"none"}, status : Canonical \cup {"none"},
                   qty : 0 .. MaxQty, priced : BOOLEAN, left : 0 .. FastPolls]
IdleRec == [pc |-> "idle", order |-> None, seen |-> "none",
            status |-> "none", qty |-> 0, priced |-> FALSE, left |-> 0]
Reading(o, left) == [pc |-> "read", order |-> o, seen |-> "none", status |-> "none",
                     qty |-> 0, priced |-> FALSE, left |-> left]

Tick == [pc : {"boot", "idle", "sweep", "cancel", "reconcile"}, todo : SUBSET Orders]

TypeOK ==
    /\ rows \in [Orders -> Row]
    /\ intents \in [Intents -> IntentStatuses]
    /\ halted \in BOOLEAN
    /\ broker \in [Orders -> BrokerOrder]
    /\ call \in [Calls -> Call]
    /\ failures \in 0 .. SubmitFailureThreshold
    /\ absent \in [Orders -> 0 .. AbsentThreshold - 1]
    /\ sweep \in [Ticks -> Sweep]
    /\ rec \in [Reconcilers -> Reconciliation]
    /\ tick \in [Ticks -> Tick]
    /\ faults \in 0 .. MaxFaults

Init ==
    /\ rows = [o \in Orders |-> NoRow]
    /\ intents = [i \in Intents |-> "pending"]
    /\ halted = FALSE
    /\ broker = [o \in Orders |-> [status |-> "none", qty |-> 0]]
    /\ call = [c \in Calls |-> IdleCall]
    /\ failures = 0
    /\ absent = [o \in Orders |-> 0]
    /\ sweep = [t \in Ticks |-> IdleSweep]
    /\ rec = [r \in Reconcilers |-> IdleRec]
    /\ tick = [t \in Ticks |-> [pc |-> "idle", todo |-> {}]]
    /\ faults = 0

-----------------------------------------------------------------------------
(* The tables.                                                             *)

Exists(o) == rows[o].status # "none"
Active(o) == Exists(o) /\ rows[o].status \notin InactiveStatuses
ActiveFor(i) == {o \in Orders : Active(o) /\ rows[o].intent = i}
ActiveInSlot(s) == {o \in Orders : Active(o) /\ SlotOf[rows[o].intent] = s}
WithStatus(statuses) == {o \in Orders : rows[o].status \in statuses}

\* Mutant: migration 0016 was not applied.
NoIndex(o, status) == TRUE

\* real_orders_active_trade_intent_id_key: no write may leave an intent with
\* two active rows; the write that would throws P2002 and changes nothing.
IndexAllows(o, status) ==
    \/ status \in InactiveStatuses
    \/ ActiveFor(rows[o].intent) \subseteq {o}

KnownToBroker(o) == broker[o].status \notin BrokerAbsent
Working(o) == KnownToBroker(o) /\ broker[o].status \notin BrokerFinal
=============================================================================
