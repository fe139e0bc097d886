--------------------------- MODULE CreditContract ---------------------------
(***************************************************************************)
(* What Billing promises the saga about each order's credit and invoice:   *)
(* one hold that goes back once, one invoice paid once, and the facts of   *)
(* each change, a payment's before the credit it frees.  It is the         *)
(* contract OrderSaga's responders rely on; BillingCredit, with its        *)
(* ledger, locks, retries and concurrent requests, is shown to implement   *)
(* it.  A refusal decides nothing and may be repeated.                     *)
(***************************************************************************)
EXTENDS Sequences

CONSTANT Order

VARIABLES
  hold,      \* the state of each order's credit
  invoice,   \* the state of each order's invoice
  facts      \* the facts published about each order, in order

contractVars == <<hold, invoice, facts>>

ContractInit ==
  /\ hold = [o \in Order |-> "none"]
  /\ invoice = [o \in Order |-> "none"]
  /\ facts = [o \in Order |-> <<>>]

fact(type) == [type |-> type, reason |-> "none"]
releaseFact(reason) == [type |-> "credit.released", reason |-> reason]

publish(o, news) == facts' = [facts EXCEPT ![o] = @ \o news]
moveHold(o, to) == hold' = [hold EXCEPT ![o] = to]
moveInvoice(o, to) == invoice' = [invoice EXCEPT ![o] = to]

Refuse(o) ==
  /\ hold[o] = "none"
  /\ publish(o, <<fact("credit.rejected")>>)
  /\ UNCHANGED <<hold, invoice>>

Approve(o) ==
  /\ hold[o] = "none"
  /\ moveHold(o, "held")
  /\ publish(o, <<fact("credit.approved")>>)
  /\ UNCHANGED invoice

GiveBack(o) ==
  /\ hold[o] \in {"held", "open"}
  /\ moveHold(o, "released")
  /\ publish(o, <<releaseFact("order_cancelled")>>)
  /\ UNCHANGED invoice

IssueInvoice(o) ==
  /\ hold[o] = "held" /\ invoice[o] = "none"
  /\ moveHold(o, "open")
  /\ moveInvoice(o, "issued")
  /\ publish(o, <<fact("invoice.issued")>>)

(* A payment frees the credit unless a cancellation already did.           *)
ReceivePayment(o) ==
  /\ invoice[o] = "issued"
  /\ moveInvoice(o, "paid")
  /\ \/ /\ hold[o] = "open"
        /\ moveHold(o, "released")
        /\ publish(o, <<fact("payment.received"), releaseFact("invoice_paid")>>)
     \/ /\ hold[o] = "released"
        /\ publish(o, <<fact("payment.received")>>)
        /\ UNCHANGED hold

ContractNext == \E o \in Order :
  Refuse(o) \/ Approve(o) \/ GiveBack(o) \/ IssueInvoice(o) \/ ReceivePayment(o)

ContractSpec == ContractInit /\ [][ContractNext]_contractVars

=============================================================================
