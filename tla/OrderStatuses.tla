--------------------------- MODULE OrderStatuses ---------------------------
(***************************************************************************)
(* The order state machine of the Orders service as data: the closed set   *)
(* of statuses, the transition table T-1 with the fact each edge emits,    *)
(* and the rule that pairs a cancellation reason with the status it may    *)
(* be given in.  No variables; every module about orders extends this one. *)
(***************************************************************************)

ORDER_STATUSES ==
  {"placed", "stock_reserved", "credit_approved", "confirmed", "despatched",
   "invoiced", "paid", "completed", "cancelled"}

CANCELLATION_REASONS == {"stock_rejected", "credit_rejected", "operator_cancelled"}

(* The value of the nullable column orders.cancellation_reason when unset. *)
NoReason == "none"

(* Table T-1 without its creation row: the legal edges of an order.        *)
ORDER_TRANSITIONS ==
  { <<"placed", "stock_reserved">>,
    <<"stock_reserved", "credit_approved">>,
    <<"credit_approved", "confirmed">>,
    <<"confirmed", "despatched">>,
    <<"despatched", "invoiced">>,
    <<"invoiced", "paid">>,
    <<"paid", "completed">>,
    <<"placed", "cancelled">>,
    <<"stock_reserved", "cancelled">>,
    <<"credit_approved", "cancelled">>,
    <<"confirmed", "cancelled">> }

findTransition(from, to) == <<from, to>> \in ORDER_TRANSITIONS

(* Order.cancel: the edge must exist and the reason must fit the status.   *)
mayCancel(status, reason) ==
  /\ findTransition(status, "cancelled")
  /\ reason \in CANCELLATION_REASONS
  /\ reason = "stock_rejected" => status = "placed"
  /\ reason = "credit_rejected" => status = "stock_reserved"

=============================================================================
