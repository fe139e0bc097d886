--------------------------- MODULE OrderLifecycle ---------------------------
(***************************************************************************)
(* What the Order aggregate promises about the stored order row: it is     *)
(* created `placed' and then moves only along Table T-1, one command       *)
(* method at a time, with a cancellation reason exactly when it is         *)
(* cancelled.  `completed' and `cancelled' have no way out.                *)
(*                                                                         *)
(* The saga applies approveCredit and confirm to one loaded aggregate and  *)
(* saves once, so the stored row moves from stock_reserved to confirmed in *)
(* one step and credit_approved is never a stored status.                  *)
(***************************************************************************)
EXTENDS OrderStatuses

VARIABLES
  status,   \* orders.status
  reason    \* orders.cancellation_reason

lifecycleVars == <<status, reason>>

Place == status = "placed" /\ reason = NoReason

(* The command methods without a reason, each one call of transitionTo.    *)
transitionTo(to) ==
  /\ to # "cancelled"
  /\ findTransition(status, to)
  /\ status' = to
  /\ UNCHANGED reason

approveCreditAndConfirm ==
  /\ findTransition(status, "credit_approved")
  /\ findTransition("credit_approved", "confirmed")
  /\ status' = "confirmed"
  /\ UNCHANGED reason

cancel(r) ==
  /\ mayCancel(status, r)
  /\ status' = "cancelled"
  /\ reason' = r

LifecycleNext ==
  \/ \E to \in ORDER_STATUSES : transitionTo(to)
  \/ approveCreditAndConfirm
  \/ \E r \in CANCELLATION_REASONS : cancel(r)

LifecycleSpec == Place /\ [][LifecycleNext]_lifecycleVars

=============================================================================
