---------------------------- MODULE MCOrderSaga ----------------------------
(* Values of the constants of OrderSaga for TLC.                           *)
EXTENDS OrderSaga

(* Billing decides the same way each time it is asked.                      *)
StableHoldWorlds == {{"approved"}, {"rejected"}}

(* The stock is there each time it is asked for.                           *)
ReservedWorld == {{"reserved"}}

(* Stock and credit may change between two requests for the same order; a  *)
(* product or buyer the responder does not know stays unknown.             *)
AnyReserveWorld == {{"reserved", "rejected"}, {"unknown"}}
AnyHoldWorld == {{"approved", "rejected"}, {"unknown"}}

(* Both answers are open each time, so a refusal may be reconsidered.       *)
ReconsideredReserve == {{"reserved", "rejected"}}
ReconsideredHold == {{"approved", "rejected"}}

reconsidered ==
  \/ announced("fulfillment", "stock.rejected") /\ announced("fulfillment", "stock.reserved")
  \/ announced("billing", "credit.rejected") /\ announced("billing", "credit.approved")

(* Bound: a refusal is reconsidered or Orders restarts, not both.           *)
OneMishap == restarts' = 1 => ~reconsidered'

(* Bound: one dead letter in a behaviour, a command or a fact.              *)
OneDeadLetter == Cardinality(deadLettered') + lostFacts' <= 1

=============================================================================
