---------------------------- MODULE PaymentIntake ----------------------------
(***************************************************************************)
(* POST /invoices/{id}/payments.  The gateway has only the invoice's id,   *)
(* and Billing wants the order's: it pages through Billing's list, newest  *)
(* first, finds the order in the read model, and only then asks Billing.   *)
(* Invoices go on being issued while it pages.                             *)
(*                                                                         *)
(* Billing's own interleavings are BillingCredit's; here registering a     *)
(* payment is one step, and an invoice is its number.                      *)
(***************************************************************************)
EXTENDS GatewayCommands, SequencesExt

CONSTANTS
  Reference,                 \* payment references
  InvoiceTotal,              \* what each invoice asks for
  Backlog,                   \* invoices issued before
  MaxIssued,                 \* bound on invoices
  INVOICE_SCAN_PAGE_SIZE,
  INVOICE_SCAN_MAX_PAGES

ASSUME ScanAssumption == Backlog \in Nat /\ INVOICE_SCAN_PAGE_SIZE \in Nat \ {0}

VARIABLES
  issued,      \* the number of invoices issued: 1..issued
  projected,   \* invoices whose order the read model has
  payments,    \* payment rows: an invoice and the reference that paid it
  scan         \* per request: the page to ask for

paymentVars == <<issued, projected, payments, scan>>

PaymentInit ==
  /\ issued = Backlog
  /\ projected = 1..Backlog
  /\ payments = {}
  /\ scan = [c \in Call |-> 1]

(* An invoice is issued.                                                   *)
IssueInvoice ==
  /\ issued < MaxIssued
  /\ issued' = issued + 1
  /\ UNCHANGED <<gatewayVars, projected, payments, scan>>

(* The projector reaches an invoice's order.                               *)
ProjectOrder ==
  /\ \E n \in 1..issued \ projected : projected' = projected \union {n}
  /\ UNCHANGED <<gatewayVars, issued, payments, scan>>

(* billing.invoice.list: newest first, without a filter.                   *)
invoicePage(page) ==
  LET newestFirst == [i \in 1..issued |-> issued + 1 - i]
      start == (page - 1) * INVOICE_SCAN_PAGE_SIZE
      stop == start + INVOICE_SCAN_PAGE_SIZE
  IN SubSeq(newestFirst, start + 1, IF stop < issued THEN stop ELSE issued)

resolving(c) == open(c) /\ stageIs(c, "resolving")

over(c, code) ==
  call' = [call EXCEPT ![c].stage = "over", ![c].answer = classifyRpcError(code)]

(* Mutant: an exhausted budget reads as an exhausted list.                 *)
missNotFound(c, items) ==
  IF Len(items) < INVOICE_SCAN_PAGE_SIZE \/ scan[c] = INVOICE_SCAN_MAX_PAGES
  THEN "NOT_FOUND" ELSE "nextPage"

(* Only a page that is not full is the end of the list.                    *)
miss(c, items) ==
  CASE Len(items) < INVOICE_SCAN_PAGE_SIZE -> "NOT_FOUND"
    [] scan[c] = INVOICE_SCAN_MAX_PAGES -> "SCAN_BUDGET_EXCEEDED"
    [] OTHER -> "nextPage"

(* The read model has the invoice's order.                                 *)
findByOrderReference(n) == n \in projected

(* One page.  Its invoice found, the order must be in the read model.      *)
resolveOrderReference(c) ==
  LET items == invoicePage(scan[c])
      n == call[c].command.invoice
  IN
  /\ resolving(c)
  /\ \/ /\ Contains(items, n) /\ findByOrderReference(n)
        /\ call' = withStage(c, "asked")
        /\ UNCHANGED scan
     \/ /\ Contains(items, n) /\ ~findByOrderReference(n)
        /\ over(c, "UNAVAILABLE")
        /\ UNCHANGED scan
     \/ /\ ~Contains(items, n) /\ miss(c, items) = "nextPage"
        /\ scan' = [scan EXCEPT ![c] = @ + 1]
        /\ UNCHANGED call
     \/ /\ ~Contains(items, n) /\ miss(c, items) # "nextPage"
        /\ over(c, miss(c, items))
        /\ UNCHANGED scan
  /\ UNCHANGED <<faults, issued, projected, payments>>

paying(c) == stageIs(c, "asked") /\ call[c].command.kind = "pay"

paidWith(reference) == {p \in payments : p.reference = reference}
paidInvoice(n) == {p \in payments : p.invoice = n}

(* PaymentRegisterHandler: a reference that paid this invoice is a         *)
(* duplicate, one that paid another a conflict; then the invoice's own     *)
(* refusals.                                                               *)
paymentOutcome(command) ==
  CASE \E p \in paidWith(command.reference) : p.invoice = command.invoice -> "duplicate"
    [] \E p \in paidWith(command.reference) : p.invoice # command.invoice ->
         "PAYMENT_REFERENCE_CONFLICT"
    [] paidWith(command.reference) = {} /\ paidInvoice(command.invoice) # {} ->
         "INVOICE_ALREADY_PAID"
    [] paidWith(command.reference) = {} /\ paidInvoice(command.invoice) = {}
       /\ command.amount # InvoiceTotal -> "INVOICE_PAYMENT_AMOUNT_MISMATCH"
    [] OTHER -> "accepted"

(* With the reply, or with its transaction committed but not known to be.  *)
RegisterPayment(c) ==
  LET command == call[c].command
      outcome == paymentOutcome(command)
  IN
  /\ paying(c)
  /\ payments' = IF outcome = "accepted"
                 THEN payments \union {[invoice |-> command.invoice,
                                        reference |-> command.reference]}
                 ELSE payments
  /\ \/ /\ call' = withReply(c, IF outcome \in {"accepted", "duplicate"}
                                THEN Done(outcome) ELSE RpcError(outcome))
        /\ UNCHANGED faults
     \/ outcome = "accepted" /\ call' = withReply(c, RpcError("INTERNAL_ERROR")) /\ fault
  /\ UNCHANGED <<issued, projected, scan>>

PaymentNext ==
  \/ IssueInvoice
  \/ ProjectOrder
  \/ \E c \in Call : resolveOrderReference(c) \/ RegisterPayment(c)

=============================================================================
