----------------------------- MODULE OrderSaga -----------------------------
(***************************************************************************)
(* One order's order-to-cash saga: the Orders service (orchestrator,       *)
(* operator cancellation, durable saga commands) together with the parts   *)
(* of Fulfillment and Billing that one order touches.  Commands travel as  *)
(* request/reply calls that may be lost, delayed or repeated; facts travel *)
(* over three Kafka topics, each in commit order and delivered at least    *)
(* once.  The saga moves on facts only, never on a reply.                  *)
(*                                                                         *)
(* An Orders transaction that loads the order and saves it later is two    *)
(* steps: the load is a plain snapshot read and the save a blind UPDATE by *)
(* primary key, so whatever commits in between is overwritten.  Handlers   *)
(* of Fulfillment and Billing decide under row locks and are one step.     *)
(*                                                                         *)
(* Orders do not interact here except through the stock and the credit     *)
(* they compete for, which reserveOutcomes and holdOutcomes stand for.     *)
(***************************************************************************)
EXTENDS SagaSteps, Naturals, Sequences, FiniteSets

CONSTANTS
  Cancellers,      \* operator cancel requests made for the order
  MaxCalls,        \* bound: requests ever sent for one command
  MaxAttempts,     \* in-line attempts before a command is parked
  MaxDeadLetters,  \* bound: commands that may exhaust their attempts
  MaxRestarts,     \* bound: restarts of the Orders process
  MaxLostFacts,    \* bound: facts dead-lettered after failing every retry
  ReserveWorlds,   \* what Fulfillment may answer to a first reservation
  HoldWorlds       \* what Billing may answer to a first hold

ReserveOutcome == {"reserved", "rejected", "unknown"}
HoldOutcome == {"approved", "rejected", "unknown"}

ASSUME SagaAssumption ==
  /\ MaxCalls \in Nat /\ MaxAttempts \in Nat /\ MaxDeadLetters \in Nat
  /\ MaxRestarts \in Nat /\ MaxLostFacts \in Nat
  /\ ReserveWorlds \subseteq SUBSET ReserveOutcome
  /\ HoldWorlds \subseteq SUBSET HoldOutcome

Topic == {"orders", "fulfillment", "billing"}

FactType ==
  {s.fact : s \in SAGA_STEPS} \union SkippedFacts

ReleaseReason == {"credit_rejected", "order_cancelled", "invoice_paid"}

Fact == [type : FactType, reason : ReleaseReason \union {NoReason}]

fact(type) == [type |-> type, reason |-> NoReason]
releaseFact(type, reason) == [type |-> type, reason |-> reason]

VARIABLES
  order,           \* the stored row: status and cancellation reason
  rows,            \* saga_commands.status per command, "absent" when no row
  releaseReason,   \* the reason in the stock.release row's payload
  deadLettered,    \* commands whose row has dead_lettered_at set
  topics,          \* the fact log of each producing service for this order
  offset,          \* facts the orders.saga group has passed, per topic
  processed,       \* processed_events: positions handled, <<topic, index>>
  factTx,          \* the open transaction of the fact consumer, at most one
  firstParks,      \* commands whose first-park hook is publishing to the DLQ
  parkTx,          \* open transactions of the first-park hook
  cancels,         \* where each operator cancel request is
  calls,           \* requests sent so far per command
  requests,        \* requests on their way or queued at the responder
  reservation,     \* Fulfillment: the order's reservation
  hold,            \* Billing: the order's credit exposure
  invoice,         \* Billing: the order's invoice
  reserveOutcomes, \* what Fulfillment may answer in this behaviour
  holdOutcomes,    \* what Billing may answer in this behaviour
  restarts,        \* restarts so far
  lostFacts        \* facts dead-lettered so far

ordersDb == <<order, rows, releaseReason, deadLettered>>
consumer == <<offset, processed, factTx>>
parks == <<firstParks, parkTx>>
rpc == <<calls, requests>>
world == <<reserveOutcomes, holdOutcomes, restarts, lostFacts>>
vars == <<ordersDb, topics, consumer, parks, cancels, rpc,
          reservation, hold, invoice, world>>

RowStatus == {"absent", "pending", "parked", "rejected", "sent"}
ReservationStatus == {"none", "reserved", "released", "consumed"}
HoldStatus == {"none", "held", "open", "released_cancel", "released_paid"}
InvoiceStatus == {"none", "issued", "paid"}
CancelStage == {"idle", "compensate", "direct", "write", "done"}

OrderRow == [status : ORDER_STATUSES, reason : CANCELLATION_REASONS \union {NoReason}]
FactTx == [topic : Topic, fact : Fact, row : OrderRow, operatorCancel : BOOLEAN]
ParkTx == [command : SagaCommandKind, row : OrderRow]

TypeOK ==
  /\ order \in OrderRow
  /\ rows \in [SagaCommandKind -> RowStatus]
  /\ releaseReason \in {NoReason, "credit_rejected", "order_cancelled"}
  /\ deadLettered \subseteq SagaCommandKind
  /\ topics \in [Topic -> Seq(Fact)]
  /\ offset \in [Topic -> Nat]
  /\ processed \subseteq Topic \X Nat
  /\ factTx \subseteq FactTx
  /\ firstParks \subseteq SagaCommandKind
  /\ parkTx \subseteq ParkTx
  /\ cancels \in [Cancellers -> CancelStage]
  /\ calls \in [SagaCommandKind -> Nat]
  /\ requests \in [SagaCommandKind -> Nat]
  /\ reservation \in ReservationStatus
  /\ hold \in HoldStatus
  /\ invoice \in InvoiceStatus
  /\ reserveOutcomes \subseteq ReserveOutcome
  /\ holdOutcomes \subseteq HoldOutcome
  /\ restarts \in Nat
  /\ lostFacts \in Nat

(* The order has just been accepted: its row and order.placed are          *)
(* committed together, nothing else has happened.                          *)
Init ==
  /\ order = [status |-> "placed", reason |-> NoReason]
  /\ rows = [c \in SagaCommandKind |-> "absent"]
  /\ releaseReason = NoReason
  /\ deadLettered = {}
  /\ topics = [t \in Topic |-> IF t = "orders" THEN <<fact("order.placed")>> ELSE <<>>]
  /\ offset = [t \in Topic |-> 0]
  /\ processed = {}
  /\ factTx = {}
  /\ firstParks = {}
  /\ parkTx = {}
  /\ cancels = [k \in Cancellers |-> "idle"]
  /\ calls = [c \in SagaCommandKind |-> 0]
  /\ requests = [c \in SagaCommandKind |-> 0]
  /\ reservation = "none"
  /\ hold = "none"
  /\ invoice = "none"
  /\ reserveOutcomes \in ReserveWorlds
  /\ holdOutcomes \in HoldWorlds
  /\ restarts = 0
  /\ lostFacts = 0

-----------------------------------------------------------------------------
(* Writes shared by the transactions of the Orders service.                *)

emit(topic, f) == topics' = [topics EXCEPT ![topic] = Append(@, f)]

(* The domain event a transition into `status' appends to the outbox.      *)
TransitionFact ==
  [confirmed |-> "order.confirmed", completed |-> "order.completed",
   cancelled |-> "order.cancelled"]

emitTransition(status) ==
  IF status \in DOMAIN TransitionFact
  THEN emit("orders", fact(TransitionFact[status]))
  ELSE UNCHANGED topics

(* INSERT ... ON DUPLICATE KEY UPDATE id = id: an existing row, payload    *)
(* included, is left as it is.                                             *)
enqueue(command, reason) ==
  IF rows[command] # "absent"
  THEN UNCHANGED <<rows, releaseReason>>
  ELSE /\ rows' = [rows EXCEPT ![command] = "pending"]
       /\ releaseReason' = IF command = "stock.release" THEN reason ELSE releaseReason

hasAcceptedOperatorCancel ==
  rows["stock.release"] # "absent" /\ releaseReason = "order_cancelled"

-----------------------------------------------------------------------------
(* The fact consumer, group orders.saga: one fact at a time over all three *)
(* topics, each handled once by the processed_events record.               *)

position(t) == <<t, offset[t] + 1>>
nextFact(t) == topics[t][offset[t] + 1]
hasNextFact(t) == factTx = {} /\ offset[t] < Len(topics[t])

passFact(t) == offset' = [offset EXCEPT ![t] = @ + 1]

SkipFact(t) ==
  /\ hasNextFact(t)
  /\ nextFact(t).type \in SkippedFacts \/ position(t) \in processed
  /\ passFact(t)
  /\ UNCHANGED <<ordersDb, topics, processed, factTx, parks, cancels, rpc,
                 reservation, hold, invoice, world>>

(* The transaction's snapshot: order row and saga_commands rows.           *)
ReadFact(t) ==
  /\ hasNextFact(t)
  /\ nextFact(t).type \notin SkippedFacts
  /\ position(t) \notin processed
  /\ factTx' = {[topic |-> t, fact |-> nextFact(t), row |-> order,
                 operatorCancel |-> hasAcceptedOperatorCancel]}
  /\ UNCHANGED <<ordersDb, topics, offset, processed, parks, cancels, rpc,
                 reservation, hold, invoice, world>>

(* Mutant: the effects commit without their dedup record.                  *)
commitFactUnrecorded(x) ==
  /\ factTx' = {}
  /\ passFact(x.topic)
  /\ UNCHANGED <<processed, deadLettered, parks, cancels, rpc, reservation, hold, invoice, world>>

(* The dedup record commits with the effects, then the offset moves.       *)
commitFact(x) ==
  /\ factTx' = {}
  /\ passFact(x.topic)
  /\ processed' = processed \union {position(x.topic)}
  /\ UNCHANGED <<deadLettered, parks, cancels, rpc, reservation, hold, invoice, world>>

(* Mutant: an approval after the order's cancellation is not looked for.   *)
lateApprovalBeforeCancelOnly(x) ==
  /\ x.fact.type = "credit.approved"
  /\ x.row.status = "stock_reserved" /\ x.operatorCancel

lateApproval(x) ==
  /\ x.fact.type = "credit.approved"
  /\ \/ x.row.status = "cancelled" /\ x.row.reason = "operator_cancelled"
     \/ x.row.status = "stock_reserved" /\ x.operatorCancel

ReleaseLateApproval(x) ==
  /\ lateApproval(x)
  /\ enqueue("credit.release", NoReason)
  /\ commitFact(x)
  /\ UNCHANGED <<order, topics>>

IgnoreFact(x) ==
  /\ ~lateApproval(x)
  /\ stepForStatus(x.fact.type, x.row.status) = {}
  /\ commitFact(x)
  /\ UNCHANGED <<order, rows, releaseReason, topics>>

(* Mutant: a refused credit cancels the order at once and the stock is     *)
(* released afterwards.                                                    *)
AdvanceOrCancelFirst(x) ==
  /\ ~lateApproval(x)
  /\ \E s \in stepForStatus(x.fact.type, x.row.status) :
       /\ s.kind = "advance"
       /\ order' = IF s.fact = "credit.rejected"
                   THEN [status |-> "cancelled", reason |-> "credit_rejected"]
                   ELSE [status |-> s.to, reason |-> x.row.reason]
       /\ UNCHANGED topics
       /\ IF s.commandAfter = NoCommand
          THEN UNCHANGED <<rows, releaseReason>>
          ELSE enqueue(s.commandAfter, "credit_rejected")
  /\ commitFact(x)

AdvanceOrder(x) ==
  /\ ~lateApproval(x)
  /\ \E s \in stepForStatus(x.fact.type, x.row.status) :
       /\ s.kind = "advance"
       /\ order' = [status |-> s.to, reason |-> x.row.reason]
       /\ IF s.to = s.precondition THEN UNCHANGED topics ELSE emitTransition(s.to)
       /\ IF s.commandAfter = NoCommand
          THEN UNCHANGED <<rows, releaseReason>>
          ELSE enqueue(s.commandAfter, "credit_rejected")
  /\ commitFact(x)

CancelOrder(x) ==
  /\ \E s \in stepForStatus(x.fact.type, x.row.status) : s.kind = "cancel"
  /\ mayCancel(x.row.status, cancelReason(x.fact))
  /\ order' = [status |-> "cancelled", reason |-> cancelReason(x.fact)]
  /\ emitTransition("cancelled")
  /\ commitFact(x)
  /\ UNCHANGED <<rows, releaseReason>>

HandleFact == \E x \in factTx :
  ReleaseLateApproval(x) \/ IgnoreFact(x) \/ AdvanceOrder(x) \/ CancelOrder(x)

(* The reason cannot be read off the fact or does not fit the status.      *)
handlerThrows(x) ==
  /\ \E s \in stepForStatus(x.fact.type, x.row.status) : s.kind = "cancel"
  /\ ~mayCancel(x.row.status, cancelReason(x.fact))

(* Every retry failed, because the handler throws on this fact or because  *)
(* the database was away: the fact goes to <topic>.dlq and is acknowledged *)
(* having changed nothing.                                                 *)
DeadLetterFact ==
  /\ \E x \in factTx :
       /\ passFact(x.topic)
       /\ \/ handlerThrows(x) /\ UNCHANGED lostFacts
          \/ lostFacts < MaxLostFacts /\ lostFacts' = lostFacts + 1
  /\ factTx' = {}
  /\ UNCHANGED <<ordersDb, topics, processed, parks, cancels, rpc,
                 reservation, hold, invoice, reserveOutcomes, holdOutcomes, restarts>>

-----------------------------------------------------------------------------
(* The operator's cancel request.  The status that picks the branch is     *)
(* read outside any transaction.                                           *)

goCancel(k, from, to) == cancels[k] = from /\ cancels' = [cancels EXCEPT ![k] = to]

CompensatingStatus == {"stock_reserved", "credit_approved", "confirmed"}

CancelRead(k) ==
  /\ goCancel(k, "idle", IF order.status \in CompensatingStatus THEN "compensate" ELSE "direct")
  /\ UNCHANGED <<ordersDb, topics, consumer, parks, rpc, reservation, hold, invoice, world>>

(* Mutant: a confirmed order's credit is given back first.                 *)
CancelCompensateCreditFirst(k) ==
  /\ goCancel(k, "compensate", "done")
  /\ enqueue("credit.release", NoReason)
  /\ UNCHANGED <<order, deadLettered, topics, consumer, parks, rpc,
                 reservation, hold, invoice, world>>

CancelCompensate(k) ==
  /\ goCancel(k, "compensate", "done")
  /\ enqueue("stock.release", "order_cancelled")
  /\ UNCHANGED <<order, deadLettered, topics, consumer, parks, rpc,
                 reservation, hold, invoice, world>>

CancelTxRead(k) ==
  /\ goCancel(k, "direct",
              IF mayCancel(order.status, "operator_cancelled") THEN "write" ELSE "done")
  /\ UNCHANGED <<ordersDb, topics, consumer, parks, rpc, reservation, hold, invoice, world>>

CancelTxWrite(k) ==
  /\ goCancel(k, "write", "done")
  /\ order' = [status |-> "cancelled", reason |-> "operator_cancelled"]
  /\ emitTransition("cancelled")
  /\ UNCHANGED <<rows, releaseReason, deadLettered, consumer, parks, rpc,
                 reservation, hold, invoice, world>>

-----------------------------------------------------------------------------
(* Dispatching a durable command: fast path, in-line retries and sweeper   *)
(* all come down to sending one more request for a row that is not `sent'. *)

(* Mutant: a command is sent once and never retried.                       *)
IssueOnce(c) ==
  /\ rows[c] \in {"pending", "parked", "rejected"}
  /\ calls[c] = 0
  /\ calls' = [calls EXCEPT ![c] = @ + 1]
  /\ requests' = [requests EXCEPT ![c] = @ + 1]
  /\ UNCHANGED <<ordersDb, topics, consumer, parks, cancels,
                 reservation, hold, invoice, world>>

Issue(c) ==
  /\ rows[c] \in {"pending", "parked", "rejected"}
  /\ calls[c] < MaxCalls
  /\ calls' = [calls EXCEPT ![c] = @ + 1]
  /\ requests' = [requests EXCEPT ![c] = @ + 1]
  /\ UNCHANGED <<ordersDb, topics, consumer, parks, cancels,
                 reservation, hold, invoice, world>>

(* No responder, or the transport fails: there is always another attempt,  *)
(* so the last request of the bound is never the one lost.                 *)
LoseRequest(c) ==
  /\ requests[c] > 0
  /\ calls[c] < MaxCalls
  /\ requests' = [requests EXCEPT ![c] = @ - 1]
  /\ UNCHANGED <<ordersDb, topics, consumer, parks, cancels, calls,
                 reservation, hold, invoice, world>>

(* Mutant: the hook runs at every park.                                    *)
ParkEveryTime(c) ==
  /\ calls[c] >= MaxAttempts
  /\ Cardinality(deadLettered \union {c}) <= MaxDeadLetters
  /\ rows[c] \in {"pending", "parked", "rejected"}
  /\ rows' = [rows EXCEPT ![c] = "parked"]
  /\ deadLettered' = deadLettered \union {c}
  /\ firstParks' = firstParks \union {c}
  /\ UNCHANGED <<order, releaseReason, topics, parkTx, consumer, cancels, rpc,
                 reservation, hold, invoice, world>>

(* A dispatch whose attempts all failed parks the row; the first time, it  *)
(* also claims the dead letter and runs the first-park hook.               *)
Park(c) ==
  /\ calls[c] >= MaxAttempts
  /\ Cardinality(deadLettered \union {c}) <= MaxDeadLetters
  /\ rows[c] \in {"pending", "parked", "rejected"}
  /\ rows' = [rows EXCEPT ![c] = "parked"]
  /\ deadLettered' = deadLettered \union {c}
  /\ firstParks' = IF c \in deadLettered THEN firstParks ELSE firstParks \union {c}
  /\ UNCHANGED <<order, releaseReason, topics, parkTx, consumer, cancels, rpc,
                 reservation, hold, invoice, world>>

(* The hook publishes the triggering fact to the DLQ and then opens the    *)
(* transaction that loads the order; a failed publish ends the hook, and   *)
(* the claim is not given back.                                            *)
ReadFirstPark(c) ==
  /\ c \in firstParks
  /\ firstParks' = firstParks \ {c}
  /\ \/ parkTx' = parkTx \union {[command |-> c, row |-> order]}
     \/ UNCHANGED parkTx
  /\ UNCHANGED <<ordersDb, topics, consumer, cancels, rpc,
                 reservation, hold, invoice, world>>

(* recordSagaFailure appends a fact and save writes the whole row back.    *)
RecordSagaFailure(p) ==
  /\ parkTx' = parkTx \ {p}
  /\ order' = p.row
  /\ emit("orders", fact("order.saga_failed"))
  /\ UNCHANGED <<rows, releaseReason, deadLettered, firstParks, consumer, cancels, rpc,
                 reservation, hold, invoice, world>>

(* The Orders process dies and comes back: open transactions roll back,    *)
(* waiting calls are abandoned, and the group resumes from an offset that  *)
(* may lie behind what was processed.                                      *)
Restart ==
  /\ restarts < MaxRestarts
  /\ restarts' = restarts + 1
  /\ factTx' = {}
  /\ firstParks' = {}
  /\ parkTx' = {}
  /\ cancels' = [k \in Cancellers |-> IF cancels[k] = "idle" THEN "idle" ELSE "done"]
  /\ \E t \in Topic : \E n \in 0 .. offset[t] : offset' = [offset EXCEPT ![t] = n]
  /\ UNCHANGED <<ordersDb, topics, processed, calls, requests, reservation, hold, invoice,
                 reserveOutcomes, holdOutcomes, lostFacts>>

-----------------------------------------------------------------------------
(* The responders.  Each takes one request and replies; the reply reaches  *)
(* a waiting dispatcher, which marks the row sent or rejected (never a row *)
(* already sent), or it is lost or late and the row stays as it is.  Only  *)
(* the dispatcher reads the row's progress, so the two are one step.       *)

answer(c, mark) ==
  /\ requests[c] > 0
  /\ requests' = [requests EXCEPT ![c] = @ - 1]
  /\ \/ rows[c] # "sent" /\ rows' = [rows EXCEPT ![c] = mark]
     \/ UNCHANGED rows
  /\ UNCHANGED <<order, releaseReason, deadLettered, consumer, parks, cancels, calls, world>>

(* Any reservation row of the order, whatever its status, answers for it;  *)
(* a refusal leaves no row, so the next request is decided afresh.         *)
Reserve ==
  /\ UNCHANGED <<hold, invoice>>
  /\ \/ /\ reservation # "none"
        /\ answer("stock.reserve", "sent")
        /\ UNCHANGED <<reservation, topics>>
     \/ /\ reservation = "none" /\ "reserved" \in reserveOutcomes
        /\ answer("stock.reserve", "sent")
        /\ reservation' = "reserved"
        /\ emit("fulfillment", fact("stock.reserved"))
     \/ /\ reservation = "none" /\ "rejected" \in reserveOutcomes
        /\ answer("stock.reserve", "sent")
        /\ emit("fulfillment", fact("stock.rejected"))
        /\ UNCHANGED reservation
     \/ /\ reservation = "none" /\ "unknown" \in reserveOutcomes
        /\ answer("stock.reserve", "rejected")
        /\ UNCHANGED <<reservation, topics>>

(* Mutant: the release is announced and not done.                          *)
ReleaseAnnouncedOnly ==
  /\ UNCHANGED <<hold, invoice, reservation>>
  /\ answer("stock.release", "sent")
  /\ emit("fulfillment", releaseFact("stock.released", releaseReason))

Release ==
  /\ UNCHANGED <<hold, invoice>>
  /\ \/ /\ reservation \in {"none", "released"}
        /\ answer("stock.release", "sent")
        /\ UNCHANGED <<reservation, topics>>
     \/ /\ reservation = "reserved"
        /\ answer("stock.release", "sent")
        /\ reservation' = "released"
        /\ emit("fulfillment", releaseFact("stock.released", releaseReason))
     \/ /\ reservation = "consumed"
        /\ answer("stock.release", "rejected")
        /\ UNCHANGED <<reservation, topics>>

CreateDespatch ==
  /\ UNCHANGED <<hold, invoice>>
  /\ \/ /\ reservation = "consumed"
        /\ answer("despatch.create", "sent")
        /\ UNCHANGED <<reservation, topics>>
     \/ /\ reservation = "reserved"
        /\ answer("despatch.create", "sent")
        /\ reservation' = "consumed"
        /\ emit("fulfillment", fact("order.despatched"))
     \/ /\ reservation \in {"none", "released"}
        /\ answer("despatch.create", "rejected")
        /\ UNCHANGED <<reservation, topics>>

(* Any hold entry, released since or not, answers already_held.            *)
HoldCredit ==
  /\ UNCHANGED <<reservation, invoice>>
  /\ \/ /\ hold # "none"
        /\ answer("credit.hold", "sent")
        /\ UNCHANGED <<hold, topics>>
     \/ /\ hold = "none" /\ "approved" \in holdOutcomes
        /\ answer("credit.hold", "sent")
        /\ hold' = "held"
        /\ emit("billing", fact("credit.approved"))
     \/ /\ hold = "none" /\ "rejected" \in holdOutcomes
        /\ answer("credit.hold", "sent")
        /\ emit("billing", fact("credit.rejected"))
        /\ UNCHANGED hold
     \/ /\ hold = "none" /\ "unknown" \in holdOutcomes
        /\ answer("credit.hold", "rejected")
        /\ UNCHANGED <<hold, topics>>

(* Whatever exposure is outstanding is released, invoiced or not.          *)
ReleaseCredit ==
  /\ UNCHANGED <<reservation, invoice>>
  /\ answer("credit.release", "sent")
  /\ \/ /\ hold \in {"held", "open"}
        /\ hold' = "released_cancel"
        /\ emit("billing", releaseFact("credit.released", "order_cancelled"))
     \/ /\ hold \notin {"held", "open"}
        /\ UNCHANGED <<hold, topics>>

IssueInvoice ==
  /\ UNCHANGED reservation
  /\ \/ /\ invoice # "none"
        /\ answer("invoice.issue", "sent")
        /\ UNCHANGED <<hold, invoice, topics>>
     \/ /\ invoice = "none" /\ hold = "held"
        /\ answer("invoice.issue", "sent")
        /\ invoice' = "issued"
        /\ hold' = "open"
        /\ emit("billing", fact("invoice.issued"))
     \/ /\ invoice = "none" /\ hold # "held"
        /\ answer("invoice.issue", "rejected")
        /\ UNCHANGED <<hold, invoice, topics>>

(* Mutants: the payment's facts swapped; the hold left in place.           *)
RegisterPaymentSwapped ==
  /\ invoice = "issued"
  /\ invoice' = "paid"
  /\ hold' = "released_paid"
  /\ topics' = [topics EXCEPT !["billing"] =
       Append(Append(@, releaseFact("credit.released", "invoice_paid")),
              fact("payment.received"))]
  /\ UNCHANGED <<ordersDb, consumer, parks, cancels, rpc, reservation, world>>

RegisterPaymentKeepsHold ==
  /\ invoice = "issued"
  /\ invoice' = "paid"
  /\ topics' = [topics EXCEPT !["billing"] =
       Append(Append(@, fact("payment.received")),
              releaseFact("credit.released", "invoice_paid"))]
  /\ UNCHANGED <<ordersDb, consumer, parks, cancels, rpc, reservation, hold, world>>

(* A remittance for the invoice, from outside: payment.received, then      *)
(* credit.released for whatever exposure is left, in one transaction.      *)
RegisterPayment ==
  /\ invoice = "issued"
  /\ invoice' = "paid"
  /\ IF hold \in {"held", "open"}
     THEN /\ hold' = "released_paid"
          /\ topics' = [topics EXCEPT !["billing"] =
               Append(Append(@, fact("payment.received")),
                      releaseFact("credit.released", "invoice_paid"))]
     ELSE emit("billing", fact("payment.received")) /\ UNCHANGED hold
  /\ UNCHANGED <<ordersDb, consumer, parks, cancels, rpc, reservation, world>>

-----------------------------------------------------------------------------

ConsumeFact == HandleFact \/ \E t \in Topic : SkipFact(t) \/ ReadFact(t)

Respond == Reserve \/ Release \/ CreateDespatch \/ HoldCredit \/ ReleaseCredit \/ IssueInvoice

Next ==
  \/ \E t \in Topic : SkipFact(t) \/ ReadFact(t)
  \/ HandleFact
  \/ DeadLetterFact
  \/ \E k \in Cancellers :
       CancelRead(k) \/ CancelCompensate(k) \/ CancelTxRead(k) \/ CancelTxWrite(k)
  \/ \E c \in SagaCommandKind :
       Issue(c) \/ LoseRequest(c) \/ Park(c) \/ ReadFirstPark(c)
  \/ \E p \in parkTx : RecordSagaFailure(p)
  \/ Restart
  \/ Reserve \/ Release \/ CreateDespatch
  \/ HoldCredit \/ ReleaseCredit \/ IssueInvoice \/ RegisterPayment

Spec == Init /\ [][Next]_vars

(* The consumer polls, the sweeper retries what is owed and the responders *)
(* answer for as long as the processes run; an operator's request, once    *)
(* made, runs to its end.  Nothing makes a customer pay.                   *)
Fairness ==
  /\ WF_vars(ConsumeFact \/ DeadLetterFact)
  /\ WF_vars(\E c \in SagaCommandKind : rows[c] \in {"pending", "parked"} /\ Issue(c))
  /\ WF_vars(Respond)
  /\ WF_vars(\E k \in Cancellers : CancelCompensate(k) \/ CancelTxRead(k) \/ CancelTxWrite(k))

FairSpec == Spec /\ Fairness

-----------------------------------------------------------------------------
(* Properties.                                                             *)

(* Goods leave only against credit: once a despatch has consumed the       *)
(* reservation, the order's hold exists and was not given back by a        *)
(* cancellation, whatever operators, retries and restarts do (saga.md      *)
(* section 4.3: releasing the credit first "is exactly wrong here").       *)
NeverShipUnbacked ==
  reservation = "consumed" => hold \in {"held", "open", "released_paid"}

(* Billing invoices only what Fulfillment has despatched.                  *)
InvoiceOnlyDespatched == invoice # "none" => reservation = "consumed"

failureReports ==
  {i \in DOMAIN topics["orders"] : topics["orders"][i].type = "order.saga_failed"}

(* OR3: an exhausted command is reported at most once, however often its   *)
(* row is parked again, whichever dispatcher parks it and whenever the     *)
(* process dies: every order.saga_failed published or under way answers to *)
(* a dead-letter claim of its own.                                         *)
FailureReportedOnce ==
  /\ Cardinality(failureReports) + Cardinality(firstParks) + Cardinality(parkTx)
       <= Cardinality(deadLettered)
  /\ firstParks \intersect {p.command : p \in parkTx} = {}

(* Nothing is on its way: no unread fact, open transaction, request or     *)
(* owed command that could still be sent.                                  *)
Quiescent ==
  /\ factTx = {} /\ firstParks = {} /\ parkTx = {}
  /\ \A t \in Topic : offset[t] = Len(topics[t])
  /\ \A c \in SagaCommandKind :
       /\ requests[c] = 0
       /\ rows[c] \in {"pending", "parked"} => calls[c] = MaxCalls
  /\ \A k \in Cancellers : cancels[k] \in {"idle", "done"}

announced(t, type) == \E i \in DOMAIN topics[t] : topics[t][i].type = type

(* Compensation is complete: a cancelled order ties up neither stock nor   *)
(* credit, but what a responder had refused, leaving no trace of it, and   *)
(* then granted to a repeated request.                                     *)
NothingStranded ==
  order.status = "cancelled" =>
    /\ reservation = "reserved" => announced("fulfillment", "stock.rejected")
    /\ hold \in {"held", "open"} => announced("billing", "credit.rejected")

(* A completed order was shipped, invoiced, paid and its credit returned   *)
(* by that payment.                                                        *)
CompletedIsSettled ==
  order.status = "completed" =>
    reservation = "consumed" /\ invoice = "paid" /\ hold = "released_paid"

(* Release first, cancel second (saga.md section 4.3): an order the stored *)
(* row knows to hold stock is cancelled only after the stock is back.      *)
ReleaseFirst ==
  [][order.status \in CompensatingStatus /\ order'.status = "cancelled"
       => reservation = "released"]_vars

(* O7: no step leads out of `cancelled'.                                   *)
CancelledIsTerminal == [][order.status = "cancelled" => order' = order]_vars

Lifecycle == INSTANCE OrderLifecycle WITH status <- order.status, reason <- order.reason

(* The stored row only ever moves the way the Order aggregate allows.      *)
FollowsLifecycle == Lifecycle!LifecycleSpec

(* The order's stock and credit as the contracts see them.                 *)
only(v) == [o \in {"order"} |-> v]
typesOn(t) == [i \in DOMAIN topics[t] |-> topics[t][i].type]
creditOf(h) == IF h \in {"released_cancel", "released_paid"} THEN "released" ELSE h

Stock == INSTANCE ReservationContract
  WITH Order <- {"order"}, reservation <- only(reservation), facts <- only(typesOn("fulfillment"))

Credit == INSTANCE CreditContract
  WITH Order <- {"order"}, hold <- only(creditOf(hold)), invoice <- only(invoice),
       facts <- only(topics["billing"])

(* The saga counts on nothing its services do not promise: whatever is     *)
(* repeated, late or lost, the stock and the credit of the order move, and *)
(* the facts it lives on follow, as the contracts say that                 *)
(* FulfillmentStock and BillingCredit are shown to implement.              *)
RespondersKeepContracts == Stock!ContractSpec /\ Credit!ContractSpec

(* An accepted compensating cancellation unwinds everything: when it has   *)
(* run its course and the order is cancelled, the stock was released and   *)
(* the credit, if it was ever held, was given back, also when the approval *)
(* arrived after the cancellation.                                         *)
AcceptedCancelUnwinds ==
  Quiescent /\ releaseReason = "order_cancelled" /\ order.status = "cancelled" =>
    reservation = "released" /\ hold \notin {"held", "open"}

(* ... and it always comes to an end: the order is cancelled, or the       *)
(* despatch won the race for the reservation.                              *)
AcceptedCancelResolves ==
  (releaseReason = "order_cancelled")
    ~> (order.status = "cancelled" \/ reservation = "consumed")

(* The automated part of the saga never stalls: every order ends cancelled *)
(* or reaches the point where it waits for the customer's money.           *)
AutomatedPartEnds ==
  <>(order.status \in {"cancelled", "invoiced", "paid", "completed"})

(* Once the money is in, the saga closes.                                  *)
PaidCompletes == (invoice = "paid") ~> (order.status = "completed")

(* A reservation made behind an operator's cancellation is unwound         *)
(* (saga.md section 4.3): processing stock.reserved for an order already   *)
(* cancelled by its operator owes stock.release.                           *)
LateReservationReleased ==
  [][\A x \in factTx :
       /\ x.fact.type = "stock.reserved"
       /\ x.row = [status |-> "cancelled", reason |-> "operator_cancelled"]
       /\ processed' # processed
       => rows'["stock.release"] # "absent"]_vars

-----------------------------------------------------------------------------
(* Why goods never leave unbacked: the inductive invariant behind          *)
(* NeverShipUnbacked and InvoiceOnlyDespatched, for any number of          *)
(* operators, retries, restarts and dead letters.                          *)

(* Each service publishes its own facts on its own topic.                  *)
FactsOf ==
  [fulfillment |-> {"stock.reserved", "stock.rejected", "stock.released", "order.despatched"},
   billing |-> {"credit.approved", "credit.rejected", "credit.released", "invoice.issued",
                "payment.received"},
   orders |-> SkippedFacts \union {"order.placed"}]

FactsOnTheirTopic ==
  \A t \in Topic : \A i \in DOMAIN topics[t] : topics[t][i].type \in FactsOf[t]

isApproval(i) == topics["billing"][i].type = "credit.approved"

(* There is at most one approval, and only behind a hold.                  *)
OneApproval ==
  /\ \A i, j \in DOMAIN topics["billing"] : isApproval(i) /\ isApproval(j) => i = j
  /\ \A i \in DOMAIN topics["billing"] : isApproval(i) => hold # "none"

approvalHandled == \E i \in DOMAIN topics["billing"] : isApproval(i) /\ <<"billing", i>> \in processed

(* The open transaction works on the fact at the consumer's position,      *)
(* which no committed transaction has handled.                             *)
OpenFactIsNext ==
  \A x \in factTx :
    /\ offset[x.topic] + 1 \in DOMAIN topics[x.topic]
    /\ x.fact = nextFact(x.topic)
    /\ position(x.topic) \notin processed

isCancelRelease(f) == f.type = "credit.released" /\ f.reason = "order_cancelled"

(* What the published facts say about stock and credit is final.           *)
FactsAreFinal ==
  /\ \A i \in DOMAIN topics["fulfillment"] :
       /\ topics["fulfillment"][i].type = "stock.released" => reservation = "released"
       /\ topics["fulfillment"][i].type = "order.despatched" => reservation = "consumed"
  /\ \A i \in DOMAIN topics["billing"] :
       isCancelRelease(topics["billing"][i]) => hold = "released_cancel"

(* Nothing is asked, or done, that no row owes.                            *)
OnlyOwedWork ==
  /\ \A c \in SagaCommandKind : requests[c] > 0 => rows[c] # "absent"
  /\ reservation = "consumed" => rows["despatch.create"] # "absent"
  /\ hold = "released_cancel" => rows["credit.release"] # "absent"
  /\ rows["invoice.issue"] # "absent" => reservation = "consumed"

(* The heart of it: a credit release is owed only once the stock is back,  *)
(* or instead of the despatch that the same approval would have triggered. *)
ReleaseExcludesDespatch ==
  /\ rows["despatch.create"] # "absent" => approvalHandled
  /\ rows["credit.release"] # "absent" /\ reservation # "released" =>
       approvalHandled /\ rows["despatch.create"] = "absent"

(* Inductive: the credit behind a despatch that is owed cannot be taken    *)
(* away before the reservation is out of the despatch's reach.             *)
BackingInv ==
  /\ TypeOK
  /\ FactsOnTheirTopic
  /\ OneApproval
  /\ OpenFactIsNext
  /\ FactsAreFinal
  /\ OnlyOwedWork
  /\ ReleaseExcludesDespatch
  /\ InvoiceOnlyDespatched

-----------------------------------------------------------------------------
(* Why an exhausted command is reported once: whoever is about to report   *)
(* it holds the only claim its row ever gives out, dead_lettered_at.       *)
ReportInv ==
  /\ IsFiniteSet(parkTx)
  /\ firstParks \union {p.command : p \in parkTx} \subseteq deadLettered
  /\ \A p, q \in parkTx : p.command = q.command => p = q
  /\ FailureReportedOnce

-----------------------------------------------------------------------------
(* Why a completed order is settled: the inductive invariant behind        *)
(* CompletedIsSettled, whichever writer overwrites the row with a copy.    *)

MoneyFactsAreTrue ==
  \A i \in DOMAIN topics["billing"] :
    /\ topics["billing"][i].type = "payment.received" => invoice = "paid"
    /\ topics["billing"][i].type = "credit.released" =>
         isCancelRelease(topics["billing"][i]) \/ hold = "released_paid"

(* What a row claims, stored or in a transaction's snapshot, is so.        *)
rowSettled(row) ==
  /\ row.status \in {"paid", "completed"} => invoice = "paid"
  /\ row.status = "completed" => hold = "released_paid"

SettledInv ==
  /\ MoneyFactsAreTrue
  /\ rowSettled(order)
  /\ \A x \in factTx : rowSettled(x.row)
  /\ \A p \in parkTx : rowSettled(p.row)

-----------------------------------------------------------------------------
(* Behind RespondersKeepContracts: an invoice opens the hold for good.     *)
InvoicedOpensHold == invoice # "none" => hold \notin {"none", "held"}

-----------------------------------------------------------------------------
(* Without dead-lettered commands, and while the operator, if there is     *)
(* one, is not about to cancel the order directly, the fact consumer is    *)
(* the only writer of the order row: the inductive invariant behind        *)
(* FollowsLifecycle and ReleaseFirst, and the ground of the two below.     *)

AtMostOneOperator == \A k, l \in Cancellers : k = l

consumerWrites ==
  releaseReason = "order_cancelled" \/ \A k \in Cancellers : cancels[k] \in {"idle", "compensate"}

SoleWriterInv ==
  /\ BackingInv
  /\ firstParks = {} /\ parkTx = {}
  /\ releaseReason = "order_cancelled" => \A k \in Cancellers : cancels[k] = "done"
  /\ consumerWrites =>
       /\ \A x \in factTx : x.row = order
       /\ order.status # "credit_approved"
       /\ order.status = "confirmed" => rows["despatch.create"] # "absent"

(* What the logs, the rows and the responders' state say of each other.    *)
HistoryInv ==
  /\ \A t \in Topic : offset[t] <= Len(topics[t])
  /\ \A p \in processed : p[2] \in DOMAIN topics[p[1]]
  /\ \A c \in SagaCommandKind : rows[c] = "absent" => calls[c] = 0
  /\ releaseReason # NoReason \/ reservation = "released" => rows["stock.release"] # "absent"
  /\ hold # "none" =>
       rows["credit.hold"] # "absent" /\ \E i \in DOMAIN topics["billing"] : isApproval(i)
  /\ \A i \in DOMAIN topics["fulfillment"] :
       topics["fulfillment"][i].type = "stock.released" =>
         topics["fulfillment"][i].reason = releaseReason

(* Without lost facts an approval the consumer has passed was handled.     *)
approvalsHandled ==
  \A i \in DOMAIN topics["billing"] :
    isApproval(i) /\ i <= offset["billing"] => <<"billing", i>> \in processed

(* An order that holds stock, or that an operator found holding it, has    *)
(* got past `placed', and not by a refusal of its stock.                   *)
placedLeft ==
  /\ order.status = "cancelled" <=> order.reason # NoReason
  /\ \/ rows["credit.hold"] # "absent"
     \/ releaseReason = "order_cancelled"
     \/ \E k \in Cancellers : cancels[k] = "compensate"
     => order.status # "placed" /\ order.reason # "stock_rejected"

cancelledReleased ==
  order.status = "cancelled" /\ order.reason # "stock_rejected" =>
    /\ reservation = "released"
    /\ order.reason = "credit_rejected" => releaseReason = "credit_rejected"

(* An approval the consumer has handled confirmed the order or owes the    *)
(* release of the credit it granted.                                       *)
approvalKept ==
  approvalHandled =>
    \/ order.status \notin {"placed", "stock_reserved", "cancelled"}
    \/ rows["credit.release"] # "absent"
    \/ releaseReason = "credit_rejected"

(* The credit release, once owed, has been carried out or still will be.   *)
releaseOnItsWay ==
  rows["credit.release"] # "absent" =>
    /\ hold # "none"
    /\ rows["credit.release"] # "rejected"
    /\ hold \in {"held", "open"} =>
         /\ rows["credit.release"] # "sent"
         /\ requests["credit.release"] > 0 \/ calls["credit.release"] < MaxCalls

(* Inductive, behind AcceptedCancelUnwinds.                                *)
UnwindInv ==
  /\ HistoryInv
  /\ approvalsHandled
  /\ consumerWrites => placedLeft /\ cancelledReleased /\ approvalKept /\ releaseOnItsWay

(* Behind NothingStranded: stock goes back for a refused credit, and an    *)
(* order refused for its stock never asked for credit.                     *)
StrandedInv ==
  /\ placedLeft /\ cancelledReleased
  /\ rows["stock.release"] # "absent" => announced("billing", "credit.rejected")
  /\ order.reason = "stock_rejected" => announced("fulfillment", "stock.rejected")

=============================================================================
