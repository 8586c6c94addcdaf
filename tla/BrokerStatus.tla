---------------------------- MODULE BrokerStatus ----------------------------
(***************************************************************************)
(* The order-status vocabularies of the real-money path.                   *)
(*                                                                         *)
(* apps/api/src/common/broker-status.util.ts maps what a broker says of an *)
(* order to the platform's canonical statuses; real-order.service.ts and   *)
(* real-broker-reconciliation.service.ts each classify RealOrder.status    *)
(* with lists of their own.  The lists are different on purpose in the     *)
(* code, and the difference matters: submit_failed and confirmed_absent    *)
(* are terminal for the first service and not for the second.              *)
(***************************************************************************)

\* normalizeBrokerStatus: a status the switch does not list is "accepted".
Normalize(raw) ==
    CASE raw = "partially_filled"               -> "partially_filled"
      [] raw = "filled"                         -> "filled"
      [] raw \in {"canceled", "pending_cancel"} -> "canceled"
      [] raw = "rejected"                       -> "rejected"
      [] raw \in {"expired", "done_for_day"}    -> "expired"
      [] OTHER                                  -> "accepted"

CanonicalTerminal == {"filled", "canceled", "rejected", "expired"}
Canonical == {"accepted", "partially_filled"} \cup CanonicalTerminal

\* Mutant: the sweep before Fix 1, blind to an order whose placement timed out.
OnlyPendingSubmit == {"pending_submit"}

\* Which statuses recoverInflight selects, which ones free an intent for a
\* new order (and leave the partial unique index), and which ones the
\* reconciliation loop selects and refuses.
RecoverableStatuses == {"pending_submit", "submit_failed"}
InactiveStatuses == CanonicalTerminal \cup {"submit_failed", "confirmed_absent"}
OpenStatuses == {"submitted", "accepted", "partially_filled"}
ReconciledStatuses == {"filled", "canceled", "rejected", "expired"}

RowStatuses == RecoverableStatuses \cup OpenStatuses \cup InactiveStatuses

\* Mutant: recoverRow before the shared vocabulary, which wrote what it heard.
StatusAsHeard(canonical) == canonical

\* recoverRow never writes a terminal broker status: it makes the row
\* pollable and leaves the transition to reconcileOrder.
PollableStatus(canonical) ==
    IF canonical \in CanonicalTerminal THEN "accepted" ELSE canonical
=============================================================================
