------------------------------ MODULE FrontDoor ------------------------------
(***************************************************************************)
(* The pages, the gateway and the services behind it, for commands that    *)
(* place an order, pay an invoice or replenish stock; a behaviour is about *)
(* one of the three.                                                       *)
(***************************************************************************)
EXTENDS OperatorPages

CONSTANT MaxCalls    \* requests of a behaviour, by what it is about

VARIABLE about       \* which of the three

vars == <<gatewayVars, ordersVars, paymentVars, pageVars, about>>

Init ==
  /\ about \in {"placing", "paying", "replenishing"}
  /\ GatewayInit /\ OrdersInit /\ PaymentInit /\ PagesInit

Submit(c) ==
  /\ Cardinality({d \in Call : used(d)}) < MaxCalls[about]
  /\ \/ /\ about = "placing"
        /\ SubmitDraft(c) \/ \E key \in ApiKey : SubmitByKey(c, key)
     \/ about = "paying" /\ SubmitPayment(c)
     \/ about = "replenishing" /\ SubmitReplenish(c)

(* What happens to a command between gateway and service, none of whose    *)
(* code runs then.                                                         *)
Transport(c) ==
  \/ RpcTimeout(c)
  \/ placing[c] = NotPlacing /\ (NoResponders(c) \/ RequestLost(c))

Answer(c) ==
  /\ AnswerCall(c)
  /\ draft' = draftAfter(c)
  /\ UNCHANGED <<ordersVars, paymentVars, added, about>>

Next ==
  \/ \E c \in Call :
       \/ (Submit(c) \/ ReplenishStock(c)) /\ UNCHANGED <<ordersVars, paymentVars, about>>
       \/ Transport(c) /\ UNCHANGED <<ordersVars, paymentVars, pageVars, about>>
       \/ Answer(c)
  \/ about = "placing" /\ EditDraft /\ UNCHANGED <<ordersVars, paymentVars, about>>
  \/ PlacementNext /\ UNCHANGED <<paymentVars, pageVars, about>>
  \/ about = "paying" /\ PaymentNext /\ UNCHANGED <<ordersVars, pageVars, about>>

Spec == Init /\ [][Next]_vars

-----------------------------------------------------------------------------
(* The orders of an answer: what a request was told it placed.             *)
told(c) == answered(c) /\ call[c].answer.status = 200
failed(c) == answered(c) /\ call[c].answer.status \in {500, 503}

(* openapi.yaml, orders.create (RI1-RI3): requests under one key have one  *)
(* order; a number goes to one order, and is burnt only by a placement     *)
(* that lost the race for its key; a placement fails inside only after     *)
(* lock contention or a commit nobody acknowledged; and one draft of the   *)
(* place page is two orders only when an answer that promised nothing came *)
(* in between.                                                             *)
PlacedOnce ==
  /\ \A o, p \in orders :
       o # p => o.reference # p.reference /\ (o.requestId = NoRequestId \/ o.requestId # p.requestId)
  /\ \A c \in Call :
       /\ used(c) /\ call[c].reply.code = "INTERNAL_ERROR" /\ about = "placing" => c \in excused
       /\ used(c) /\ call[c].reply.code = "DONE" /\ about = "placing" =>
            /\ call[c].reply.body \in orders
            /\ call[c].reply.body.requestId = call[c].command.requestId
  /\ lockedBy = Nobody /\ nextValue > 0 =>
       LET numbers == {o.reference : o \in orders}
       IN numbers \union burnt = 1..nextValue - 1 /\ numbers \intersect burnt = {}
  /\ burnt # {} =>
       \E c, d \in Call : c # d /\ used(c) /\ used(d)
                          /\ call[c].command.requestId = call[d].command.requestId
  /\ \A c, d \in Call :
       /\ used(c) /\ used(d) /\ c # d /\ call[c].from.client = "placePage"
       /\ call[c].from = call[d].from
       /\ {c, d} \subseteq {o.id : o \in orders}
       => failed(c) \/ failed(d)

(* D7 (place-order.handler.ts): order references have no gaps.  A loser of *)
(* the race for a key finds the winner inside its own transaction, which   *)
(* then commits the number it had taken.                                   *)
ReferencesGapFree ==
  lockedBy = Nobody /\ nextValue > 0 => {o.reference : o \in orders} = 1..nextValue - 1

(* openapi.yaml:1073-1078: an answer tells the truth of the system.  Placed*)
(* means that the order is there, under the request's key, and for a draft *)
(* of the page the one it asked for; a 4xx means this request did and will *)
(* do nothing, and no such invoice that there was none when it was asked;  *)
(* paid means the invoice is paid under that reference, no other invoice   *)
(* is, and it is paid once; replenished means the units were added.        *)
AnswersTrue ==
  /\ \A c \in Call : told(c) /\ about = "placing" =>
       LET o == call[c].answer.body IN
       /\ o \in orders /\ o.requestId = call[c].command.requestId
       /\ call[c].from.client = "placePage" =>
            o.id = c /\ o.total = placedTotal(call[c].command)
  /\ \A c \in Call : answered(c) /\ call[c].answer.status \in 400..499 =>
       /\ c \notin added
       /\ \A o \in orders : o.id # c
       /\ call[c].answer.code = "NOT_FOUND" /\ about = "paying" => ~call[c].command.existed
  /\ \A c \in Call : told(c) /\ about = "paying" =>
       [invoice |-> call[c].command.invoice, reference |-> call[c].command.reference] \in payments
  /\ \A p, q \in payments : p.invoice = q.invoice \/ p.reference = q.reference => p = q
  /\ \A c \in Call : told(c) /\ about = "replenishing" => c \in added

(* The place page and orders.create: an order that was placed is charged   *)
(* what the page, which computes its total by itself, showed.              *)
ChargedAsShown ==
  \A c \in Call : told(c) /\ about = "placing" /\ call[c].from.client = "placePage" =>
    call[c].answer.body.total = money(draftOrderTotal(call[c].command), call[c].command.currency)

-----------------------------------------------------------------------------
(* Why answers hold: an answer says what the reply said, or something that *)
(* promises nothing.                                                       *)

kindOf == [placing |-> "place", paying |-> "pay", replenishing |-> "replenish"]
rejected(c) == call[c].answer.status \in 400..499

explained(r) ==
  \/ r.answer = NoAnswer
  \/ r.answer = classifyRpcError("TIMEOUT") /\ r.stage # "resolving"
  \/ r.stage = "over" /\ r.answer.status \in {400, 401}
  \/ r.stage = "over" /\ r.answer.status \in {404, 503} /\ r.reply = NoReply
  \/ r.stage = "replied" /\ r.answer = answerTo(r.reply)

validCall(r) ==
  /\ r = [stage |-> r.stage, from |-> r.from, command |-> r.command, reply |-> r.reply,
          answer |-> r.answer]
  /\ r.stage \in {"resolving", "asked", "replied", "over"}
  /\ r.command.kind = kindOf[about]
  /\ r.stage \in {"resolving", "asked"} => r.reply = NoReply
  /\ r.stage = "replied" => r.reply # NoReply
  /\ explained(r)

CallsInv ==
  /\ about \in {"placing", "paying", "replenishing"}
  /\ call = [c \in Call |-> call[c]]
  /\ \A c \in Call : used(c) => validCall(call[c])

(* Why an order is placed once: whoever holds the counter row is the only  *)
(* one to write orders, and what it has taken is not yet committed.        *)

committedNext == IF lockedBy = Nobody THEN nextValue ELSE placing[lockedBy].before
lastNumber == IF committedNext = 0 THEN SeededOrders ELSE committedNext - 1

written(c) ==
  LET o == placing[c].order
      id == placement(c).requestId
  IN
  \/ /\ placing[c].new = TRUE /\ withRequestId(id) = {}
     /\ o = [id |-> c, reference |-> placing[c].number, requestId |-> id,
             total |-> placedTotal(placement(c))]
  \/ placing[c].new = FALSE /\ o \in withRequestId(id)

onItsWay(c) ==
  /\ placing[c] = NotPlacing \/ placing[c].step \in {"stock", "begun", "numbered", "written"}
  /\ placing[c] # NotPlacing => used(c) /\ stageIs(c, "asked") /\ about = "placing"
  /\ placing[c].step \in {"numbered", "written"} <=> lockedBy = c
  /\ placing[c].step = "begun" /\ committedNext = 0 => placing[c].max = SeededOrders
  /\ lockedBy = c => placing[c].number = lastNumber + 1
  /\ placing[c].step = "written" => written(c)

PlacementsInv ==
  /\ placing = [c \in Call |-> placing[c]]
  /\ lockedBy \in Call \union {Nobody}
  /\ nextValue \in Nat /\ committedNext \in Nat
  /\ lockedBy # Nobody => nextValue = lastNumber + 2
  /\ \A c \in Call : onItsWay(c)

seeded(o) == o.id = "seeded" /\ o.requestId = NoRequestId

askedFor(o) ==
  /\ o.id \in Call /\ used(o.id) /\ about = "placing"
  /\ o.requestId = placement(o.id).requestId /\ o.total = placedTotal(placement(o.id))
  /\ call[o.id].stage \in {"replied", "over"}
  /\ call[o.id].reply.code \in {"none", "DONE", "INTERNAL_ERROR"}
  /\ ~rejected(o.id)

numbers == {o.reference : o \in orders}

OrdersInv ==
  /\ \A o \in orders : seeded(o) \/ askedFor(o)
  /\ \A o, p \in orders :
       o # p => o.reference # p.reference /\ (o.requestId = NoRequestId \/ o.requestId # p.requestId)
  /\ numbers \union burnt = 1..lastNumber /\ numbers \intersect burnt = {}
  /\ committedNext = 0 => burnt = {}
  /\ burnt # {} =>
       \E c, d \in Call : c # d /\ used(c) /\ used(d)
                          /\ call[c].command.requestId = call[d].command.requestId
  /\ \A c \in Call : used(c) /\ about = "placing" =>
       /\ call[c].reply.code = "INTERNAL_ERROR" => c \in excused
       /\ call[c].reply.code = "DONE" =>
            call[c].reply.body \in orders /\ call[c].reply.body.requestId = placement(c).requestId

(* Why a draft is one order: an answer that it was placed empties it.      *)
onPage(c) == used(c) /\ call[c].from.client = "placePage"

DraftsInv ==
  /\ draft = [number |-> draft.number, form |-> draft.form, submitAttempted |-> draft.submitAttempted]
  /\ draft.number \in Nat /\ "lines" \in DOMAIN draft.form
  /\ \A c \in Call : onPage(c) =>
       /\ about = "placing" /\ placement(c).requestId = c
       /\ call[c].from = fromDraft(call[c].from.draft) /\ call[c].from.draft \in 0..draft.number
       /\ told(c) /\ call[c].from.draft = draft.number => draft.form.lines = <<>>
  /\ \A c \in Call : used(c) /\ about = "placing" /\ ~onPage(c) => placement(c).requestId \notin Call
  /\ \A c, d \in Call :
       onPage(c) /\ onPage(d) /\ c # d /\ call[c].from = call[d].from =>
         rejected(c) \/ rejected(d) \/ failed(c) \/ failed(d)

(* Why a payment's answer is true: while the gateway pages, invoices are   *)
(* only added in front of the page it is at.                               *)
PaymentsInv ==
  /\ issued \in Nat /\ scan \in [Call -> Nat \ {0}]
  /\ \A c \in Call : ~used(c) => scan[c] = 1
  /\ payments \subseteq [invoice : Nat, reference : Reference]
  /\ \A p, q \in payments : p.invoice = q.invoice \/ p.reference = q.reference => p = q
  /\ \A c \in Call : used(c) /\ about = "paying" =>
       /\ call[c].command.invoice \in Nat /\ call[c].command.reference \in Reference
       /\ call[c].command.existed => call[c].command.invoice \in 1..issued
       /\ call[c].command.existed /\ call[c].stage = "resolving" =>
            (scan[c] - 1) * INVOICE_SCAN_PAGE_SIZE < issued + 1 - call[c].command.invoice
       /\ call[c].reply.code # "NOT_FOUND"
       /\ call[c].reply.code = "DONE" =>
            [invoice |-> call[c].command.invoice, reference |-> call[c].command.reference] \in payments
       /\ call[c].answer # NoAnswer /\ call[c].answer.code = "NOT_FOUND" => ~call[c].command.existed

ReplenishInv == \A c \in Call :
  /\ c \in added => used(c) /\ call[c].stage \in {"replied", "over"} /\ ~rejected(c)
                    /\ about = "replenishing"
  /\ used(c) /\ about = "replenishing" =>
       /\ call[c].reply.code \in {"none", "DONE", "INTERNAL_ERROR"}
       /\ call[c].reply.code = "DONE" => c \in added

(* Why a draft is charged what it shows: its lines carry numbers the page  *)
(* could read, and what is placed has prices and a valid total.            *)
readable(command) ==
  /\ command.lines \in Seq(ToSet(command.lines))
  /\ \A l \in ToSet(command.lines) :
       l.quantity \in Int /\ l.unitPrice \in Int /\ l.lineDiscount \in Int

ChargesInv ==
  /\ draft.form.lines \in Seq(ToSet(draft.form.lines))
  /\ \A c \in Call :
       /\ onPage(c) => readable(placement(c))
       /\ placing[c] # NotPlacing => isComplete(placement(c))
       /\ placing[c].step = "written" /\ placing[c].new = TRUE => placing[c].order.total # InvalidMoney
  /\ \A o \in orders : o.id \in Call => isComplete(placement(o.id)) /\ o.total # InvalidMoney

FrontDoorInv ==
  CallsInv /\ PlacementsInv /\ OrdersInv /\ DraftsInv /\ PaymentsInv /\ ReplenishInv

=============================================================================
