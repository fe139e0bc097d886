------------------------ MODULE ReservationContract ------------------------
(***************************************************************************)
(* What Fulfillment promises the saga about each order's stock: one        *)
(* decision, one way out, and exactly one fact for each change.  It is     *)
(* the contract OrderSaga's responders rely on; FulfillmentStock, with its *)
(* rows, counters, locks and concurrent requests, is shown to implement    *)
(* it.  A refusal decides nothing and may be repeated.                     *)
(***************************************************************************)
EXTENDS Sequences

CONSTANT Order

VARIABLES
  reservation,   \* the state of each order's stock
  facts          \* the facts published about each order, in order

contractVars == <<reservation, facts>>

ContractInit ==
  /\ reservation = [o \in Order |-> "none"]
  /\ facts = [o \in Order |-> <<>>]

publish(o, type) == facts' = [facts EXCEPT ![o] = Append(@, type)]

move(o, from, to, type) ==
  /\ reservation[o] = from
  /\ reservation' = [reservation EXCEPT ![o] = to]
  /\ publish(o, type)

Refuse(o) == reservation[o] = "none" /\ publish(o, "stock.rejected") /\ UNCHANGED reservation

ContractNext == \E o \in Order :
  \/ Refuse(o)
  \/ move(o, "none", "reserved", "stock.reserved")
  \/ move(o, "reserved", "released", "stock.released")
  \/ move(o, "reserved", "consumed", "order.despatched")

ContractSpec == ContractInit /\ [][ContractNext]_contractVars

=============================================================================
