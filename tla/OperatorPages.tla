---------------------------- MODULE OperatorPages ----------------------------
(***************************************************************************)
(* Who asks: the web pages that place an order, register a payment and     *)
(* replenish stock, and a client of the REST API that retries under one    *)
(* Idempotency-Key.                                                        *)
(*                                                                         *)
(* A page has one request open at most: its button is disabled meanwhile.  *)
(* The place page makes a new key each time it submits, and keeps its      *)
(* draft when the answer is an error.                                      *)
(***************************************************************************)
EXTENDS OrderPlacement, PaymentIntake, InOrder

CONSTANTS
  Draft,         \* what an operator fills in on the place page
  ApiKey,        \* Idempotency-Keys an API client uses
  ApiCommand,    \* API client: key -> the order it asks for
  DefaultCurrency,
  Catalogued,    \* whether the page has the catalogue's prices
  Units,         \* what is typed as units to add
  Wanted,        \* invoices an operator wants to pay
  MaxDrafts      \* bound on drafts

(* An invoice's number counts from 1; a draft's lines are a list; a key a  *)
(* client chose is none of the UUIDs the place page makes.                 *)
ASSUME OperatorAssumption ==
  /\ Wanted \subseteq Nat \ {0}
  /\ Catalogued \in BOOLEAN
  /\ \A form \in Draft : "lines" \in DOMAIN form /\ form.lines \in Seq(ToSet(form.lines))
  /\ \A key \in ApiKey :
       ApiCommand[key].kind = "place" /\ ApiCommand[key].requestId \notin Call

VARIABLES
  draft,         \* the place page: its draft, which one it is, and whether
                 \* it was ever submitted
  added          \* Fulfillment: the requests whose units were added

pageVars == <<draft, added>>

PagesInit ==
  /\ draft = [number |-> 0, submitAttempted |-> FALSE,
              form |-> [retailer |-> "", company |-> "", currency |-> DefaultCurrency, lines |-> <<>>]]
  /\ added = {}

fromDraft(n) == [client |-> "placePage", draft |-> n]
fromPayments == [client |-> "billingPage"]
fromStock == [client |-> "stockPage"]
fromApi(key) == [client |-> "API", key |-> key]

isPending(from) == \E c \in Call : open(c) /\ call[c].from.client = from.client

-----------------------------------------------------------------------------
(* The place page.                                                         *)

(* The lines that name a product, as they stand.                           *)
chosen(form) ==
  LET named == {i \in DOMAIN form.lines : form.lines[i].product # ""}
  IN kept(form.lines, named)

problemsByLine(form) ==
  {i \in DOMAIN chosen(form) :
     LET l == chosen(form)[i]
     IN \/ wholeNumberProblem(l.quantity, 1)
        \/ optionalAmountProblem(l.unitPrice, form.currency)
        \/ optionalAmountProblem(l.lineDiscount, form.currency)}

toMinorUnits(text, currency) ==
  IF text = Blank THEN NotTyped ELSE decimalStringToMinorUnits(text, currency)

payload(form, key) ==
  [kind |-> "place", requestId |-> key, retailer |-> form.retailer, company |-> form.company,
   currency |-> form.currency, orderDiscount |-> 0,
   lines |-> [i \in DOMAIN chosen(form) |->
     LET l == chosen(form)[i]
     IN [product |-> l.product, quantity |-> l.quantity.whole,
         unitPrice |-> toMinorUnits(l.unitPrice, form.currency),
         lineDiscount |-> toMinorUnits(l.lineDiscount, form.currency)]]]

(* What the page shows as the total: a price typed, or the catalogue's, or *)
(* nothing.                                                                *)
draftLineTotal(line) ==
  LET price == CASE line.unitPrice # NotTyped -> line.unitPrice
                 [] line.unitPrice = NotTyped /\ Catalogued /\ line.product \in DOMAIN Product ->
                      Product[line.product].amount
                 [] OTHER -> 0
  IN price * line.quantity - (IF line.lineDiscount = NotTyped THEN 0 ELSE line.lineDiscount)

draftOrderTotal(command) ==
  FoldLeft(LAMBDA sum, l : sum + draftLineTotal(l), 0, command.lines)

(* The gateway's own DTO.                                                  *)
acceptable(command) ==
  /\ command.currency \in Currency
  /\ command.lines # <<>>
  /\ \A i \in DOMAIN command.lines :
       isQuantity(command.lines[i].quantity) /\ command.lines[i].lineDiscount >= NotTyped

(* requireGatewayToken, JwtAuthGuard: the web server's session, or the     *)
(* token itself, may have run out.                                         *)
unauthorized(c, from, command) == Refuse(c, from, command, 401, "UNAUTHORIZED")

(* The token and the request's shape come before any RPC.                  *)
post(c, from, command, wellShaped, stage) ==
  \/ unauthorized(c, from, command)
  \/ ~wellShaped /\ Refuse(c, from, command, 400, "VALIDATION_FAILED")
  \/ wellShaped /\ Accept(c, from, command, stage)

(* crypto.randomUUID(): as unique as the request.                          *)
freshKey(c) == c

(* submit(): a box with a problem is refused on the page and nothing sent. *)
SubmitDraft(c) ==
  /\ ~isPending(fromDraft(draft.number))
  /\ draft' = [draft EXCEPT !.submitAttempted = TRUE]
  /\ \/ problemsByLine(draft.form) # {} /\ ~draft.submitAttempted /\ UNCHANGED call
     \/ /\ problemsByLine(draft.form) = {}
        /\ LET command == payload(draft.form, freshKey(c))
           IN post(c, fromDraft(draft.number), command, acceptable(command), "asked")
  /\ UNCHANGED <<faults, added>>

(* The operator fills the form in: another order.                          *)
EditDraft ==
  /\ ~isPending(fromDraft(draft.number))
  /\ draft.number < MaxDrafts
  /\ \E form \in Draft :
       draft' = [number |-> draft.number + 1, form |-> form, submitAttempted |-> FALSE]
  /\ UNCHANGED <<gatewayVars, added>>

(* Placed: the page empties its lines.                                     *)
draftAfter(c) ==
  IF /\ call'[c].answer.status = 200
     /\ call[c].from = fromDraft(draft.number)
  THEN [draft EXCEPT !.form.lines = <<>>, !.submitAttempted = FALSE]
  ELSE draft

-----------------------------------------------------------------------------
(* The other clients.                                                      *)

SubmitByKey(c, key) ==
  /\ post(c, fromApi(key), ApiCommand[key], acceptable(ApiCommand[key]), "asked")
  /\ UNCHANGED <<faults, pageVars>>

(* The payment form comes filled in and every box can be changed.  existed *)
(* remembers whether the invoice was there when its payment was asked for. *)
SubmitPayment(c) ==
  /\ ~isPending(fromPayments)
  /\ \E n \in Wanted, reference \in Reference, amount \in {InvoiceTotal, InvoiceTotal - 1} :
       post(c, fromPayments,
            [kind |-> "pay", invoice |-> n, reference |-> reference, amount |-> amount,
             existed |-> n <= issued],
            TRUE, "resolving")
  /\ UNCHANGED <<faults, pageVars>>

SubmitReplenish(c) ==
  /\ ~isPending(fromStock)
  /\ \E text \in Units :
       /\ ~wholeNumberProblem(text, 1)
       /\ post(c, fromStock, [kind |-> "replenish", units |-> text.whole], TRUE, "asked")
  /\ UNCHANGED <<faults, pageVars>>

(* Fulfillment adds the units, each time it is asked.                      *)
ReplenishStock(c) ==
  /\ asked(c, "replenish")
  /\ added' = added \union {c}
  /\ \/ call' = withReply(c, Done(call[c].command.units)) /\ UNCHANGED faults
     \/ call' = withReply(c, RpcError("INTERNAL_ERROR")) /\ fault
  /\ UNCHANGED draft

=============================================================================
