----------------------------- MODULE SagaSteps -----------------------------
(***************************************************************************)
(* The orchestrator's step table (saga-steps.ts): which fact, seen in      *)
(* which order status, moves the order where and owes which command.       *)
(* Fact names drop their ".v1" suffix.                                     *)
(***************************************************************************)
EXTENDS OrderStatuses

SagaCommandKind ==
  {"stock.reserve", "stock.release", "credit.hold", "credit.release",
   "despatch.create", "invoice.issue"}

NoCommand == "none"

(* `to' is the stored status after the step; for a step whose apply() is   *)
(* empty it is the precondition itself.                                    *)
Advance(fact, precondition, to, commandAfter) ==
  [fact |-> fact, kind |-> "advance", precondition |-> precondition,
   to |-> to, commandAfter |-> commandAfter]

Cancel(fact, precondition) ==
  [fact |-> fact, kind |-> "cancel", precondition |-> precondition,
   to |-> "cancelled", commandAfter |-> NoCommand]

(* Mutant: a confirmed order's released stock is not followed up.           *)
SAGA_STEPS_NoFollowUp ==
  { Advance("order.placed", "placed", "placed", "stock.reserve"),
    Advance("stock.reserved", "placed", "stock_reserved", "credit.hold"),
    Cancel("stock.rejected", "placed"),
    Advance("credit.approved", "stock_reserved", "confirmed", "despatch.create"),
    Advance("credit.rejected", "stock_reserved", "stock_reserved", "stock.release"),
    Cancel("stock.released", "stock_reserved"),
    Advance("order.despatched", "confirmed", "despatched", "invoice.issue"),
    Advance("invoice.issued", "despatched", "invoiced", NoCommand),
    Advance("payment.received", "invoiced", "paid", NoCommand),
    Advance("credit.released", "paid", "completed", NoCommand),
    Cancel("credit.released", "confirmed") }

SAGA_STEPS ==
  { Advance("order.placed", "placed", "placed", "stock.reserve"),
    Advance("stock.reserved", "placed", "stock_reserved", "credit.hold"),
    Cancel("stock.rejected", "placed"),
    Advance("credit.approved", "stock_reserved", "confirmed", "despatch.create"),
    Advance("credit.rejected", "stock_reserved", "stock_reserved", "stock.release"),
    Cancel("stock.released", "stock_reserved"),
    Advance("stock.released", "credit_approved", "credit_approved", "credit.release"),
    Advance("stock.released", "confirmed", "confirmed", "credit.release"),
    Advance("order.despatched", "confirmed", "despatched", "invoice.issue"),
    Advance("invoice.issued", "despatched", "invoiced", NoCommand),
    Advance("payment.received", "invoiced", "paid", NoCommand),
    Advance("credit.released", "paid", "completed", NoCommand),
    Cancel("credit.released", "credit_approved"),
    Cancel("credit.released", "confirmed") }

(* The facts Orders publishes and never acts on: the three skip entries,   *)
(* and order.saga_failed, which the table does not list at all.            *)
SkippedFacts == {"order.confirmed", "order.completed", "order.cancelled", "order.saga_failed"}

(* Mutant: the step is picked by the fact alone.                           *)
stepForFact(factType, status) == {s \in SAGA_STEPS : s.fact = factType}

(* At most one step: no fact lists a precondition twice.                   *)
stepForStatus(factType, status) ==
  {s \in SAGA_STEPS : s.fact = factType /\ s.precondition = status}

(* The cancellation reason a cancel step reads off the fact, and NoReason  *)
(* where the code throws (mapCreditReleaseReason on invoice_paid).         *)
cancelReason(fact) ==
  IF fact.type = "stock.rejected" THEN "stock_rejected"
  ELSE IF fact.reason = "credit_rejected" THEN "credit_rejected"
  ELSE IF fact.reason = "order_cancelled" THEN "operator_cancelled"
  ELSE NoReason

=============================================================================
