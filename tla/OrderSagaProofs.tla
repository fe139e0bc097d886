-------------------------- MODULE OrderSagaProofs --------------------------
(***************************************************************************)
(* Proofs about OrderSaga, for every number of operators, retries,         *)
(* restarts and dead letters and every way the responders may decide.      *)
(***************************************************************************)
EXTENDS OrderSaga, FiniteSetTheorems, TLAPS

-----------------------------------------------------------------------------
(* The facts that travel, listed.                                          *)
LEMMA FactTypes ==
  FactType = {"order.placed", "stock.reserved", "stock.rejected", "credit.approved",
              "credit.rejected", "stock.released", "order.despatched", "invoice.issued",
              "payment.received", "credit.released", "order.confirmed", "order.completed",
              "order.cancelled", "order.saga_failed"}
BY DEF FactType, SAGA_STEPS, Advance, Cancel, SkippedFacts

(* A step of the table never leads to an unknown status or command.        *)
LEMMA StepTypes ==
  ASSUME NEW s \in SAGA_STEPS
  PROVE  /\ s.to \in ORDER_STATUSES
         /\ s.commandAfter \in SagaCommandKind \union {NoCommand}
         /\ s.kind \in {"advance", "cancel"}
BY DEF SAGA_STEPS, Advance, Cancel, ORDER_STATUSES, SagaCommandKind, NoCommand

LEMMA FactIsFact ==
  ASSUME NEW type \in FactType
  PROVE  fact(type) \in Fact
BY DEF fact, Fact, NoReason

LEMMA ReleaseFactIsFact ==
  ASSUME NEW type \in FactType, NEW reason \in ReleaseReason \union {NoReason}
  PROVE  releaseFact(type, reason) \in Fact
BY DEF releaseFact, Fact

(* Appending a fact keeps every log and extends the one it goes to.        *)
LEMMA EmitEffect ==
  ASSUME topics \in [Topic -> Seq(Fact)], NEW t \in Topic, NEW f \in Fact, emit(t, f)
  PROVE  /\ topics' \in [Topic -> Seq(Fact)]
         /\ Len(topics'[t]) = Len(topics[t]) + 1
         /\ topics'[t][Len(topics[t]) + 1] = f
         /\ \A u \in Topic : u # t => topics'[u] = topics[u]
         /\ \A i \in 1 .. Len(topics[t]) : topics'[t][i] = topics[t][i]
BY DEF emit

(* A transition is silent or appends one of Orders' own facts.             *)
LEMMA EmitTransitionCases ==
  ASSUME NEW status, emitTransition(status)
  PROVE  \/ UNCHANGED topics
         \/ \E type \in SkippedFacts : emit("orders", fact(type))
<1>1. CASE status \notin DOMAIN TransitionFact
  BY <1>1 DEF emitTransition
<1>2. CASE status \in DOMAIN TransitionFact
  <2>1. TransitionFact[status] \in SkippedFacts
    BY <1>2 DEF TransitionFact, SkippedFacts
  <2>. QED  BY <1>2, <2>1 DEF emitTransition
<1>. QED  BY <1>1, <1>2

LEMMA EmitTransitionType ==
  ASSUME topics \in [Topic -> Seq(Fact)], NEW status, emitTransition(status)
  PROVE  topics' \in [Topic -> Seq(Fact)]
<1>1. SkippedFacts \subseteq FactType
  BY DEF FactType
<1>2. "orders" \in Topic
  BY DEF Topic
<1>. QED  BY <1>1, <1>2, FactIsFact, EmitEffect, EmitTransitionCases

LEMMA EnqueueType ==
  ASSUME rows \in [SagaCommandKind -> RowStatus],
         releaseReason \in {NoReason, "credit_rejected", "order_cancelled"},
         NEW c \in SagaCommandKind,
         NEW reason \in {NoReason, "credit_rejected", "order_cancelled"},
         enqueue(c, reason)
  PROVE  /\ rows' \in [SagaCommandKind -> RowStatus]
         /\ releaseReason' \in {NoReason, "credit_rejected", "order_cancelled"}
BY DEF enqueue, RowStatus

-----------------------------------------------------------------------------
(* Type correctness.                                                       *)

LEMMA TypeInit == Init => TypeOK
<1>. SUFFICES ASSUME Init PROVE TypeOK
  OBVIOUS
<1>1. fact("order.placed") \in Fact
  BY FactTypes, FactIsFact
<1>2. order \in OrderRow
  BY DEF Init, OrderRow, ORDER_STATUSES
<1>3. topics \in [Topic -> Seq(Fact)]
  BY <1>1 DEF Init
<1>4. reserveOutcomes \subseteq ReserveOutcome /\ holdOutcomes \subseteq HoldOutcome
  BY SagaAssumption DEF Init
<1>. QED
  BY <1>2, <1>3, <1>4 DEF Init, TypeOK, RowStatus, CancelStage, ReservationStatus,
     HoldStatus, InvoiceStatus

(* The snapshot an open transaction works on is well-formed.               *)
LEMMA TypeHandleFact ==
  ASSUME TypeOK, HandleFact
  PROVE  TypeOK'
<1>1. PICK x \in factTx :
        ReleaseLateApproval(x) \/ IgnoreFact(x) \/ AdvanceOrder(x) \/ CancelOrder(x)
  BY DEF HandleFact
<1>2. x \in FactTx /\ x.topic \in Topic /\ x.row \in OrderRow
  BY DEF TypeOK, FactTx
<1>3. ASSUME commitFact(x)
      PROVE  /\ deadLettered' \subseteq SagaCommandKind
             /\ offset' \in [Topic -> Nat]
             /\ processed' \subseteq Topic \X Nat
             /\ factTx' \subseteq FactTx
             /\ firstParks' \subseteq SagaCommandKind
             /\ parkTx' \subseteq ParkTx
             /\ cancels' \in [Cancellers -> CancelStage]
             /\ calls' \in [SagaCommandKind -> Nat]
             /\ requests' \in [SagaCommandKind -> Nat]
             /\ reservation' \in ReservationStatus
             /\ hold' \in HoldStatus
             /\ invoice' \in InvoiceStatus
             /\ reserveOutcomes' \subseteq ReserveOutcome
             /\ holdOutcomes' \subseteq HoldOutcome
             /\ restarts' \in Nat
             /\ lostFacts' \in Nat
  BY <1>2, <1>3 DEF TypeOK, commitFact, passFact, position, parks, rpc, world
<1>4. CASE ReleaseLateApproval(x)
  <2>1. "credit.release" \in SagaCommandKind
    BY DEF SagaCommandKind
  <2>. QED  BY <1>3, <1>4, <2>1, EnqueueType DEF ReleaseLateApproval, TypeOK
<1>5. CASE IgnoreFact(x)
  BY <1>3, <1>5 DEF IgnoreFact, TypeOK
<1>6. CASE AdvanceOrder(x)
  <2>1. PICK s \in stepForStatus(x.fact.type, x.row.status) :
          /\ order' = [status |-> s.to, reason |-> x.row.reason]
          /\ IF s.to = s.precondition THEN UNCHANGED topics ELSE emitTransition(s.to)
          /\ IF s.commandAfter = NoCommand
             THEN UNCHANGED <<rows, releaseReason>>
             ELSE enqueue(s.commandAfter, "credit_rejected")
    BY <1>6 DEF AdvanceOrder
  <2>2. s \in SAGA_STEPS
    BY DEF stepForStatus
  <2>3. order' \in OrderRow
    BY <1>2, <2>1, <2>2, StepTypes DEF OrderRow
  <2>4. topics' \in [Topic -> Seq(Fact)]
    BY <2>1, EmitTransitionType DEF TypeOK
  <2>5. /\ rows' \in [SagaCommandKind -> RowStatus]
        /\ releaseReason' \in {NoReason, "credit_rejected", "order_cancelled"}
    BY <2>1, <2>2, StepTypes, EnqueueType DEF TypeOK
  <2>6. commitFact(x)
    BY <1>6 DEF AdvanceOrder
  <2>. QED  BY <1>3, <2>3, <2>4, <2>5, <2>6 DEF TypeOK
<1>7. CASE CancelOrder(x)
  <2>1. order' \in OrderRow
    BY <1>7 DEF CancelOrder, mayCancel, OrderRow, ORDER_STATUSES
  <2>2. topics' \in [Topic -> Seq(Fact)]
    BY <1>7, EmitTransitionType DEF TypeOK, CancelOrder
  <2>. QED  BY <1>3, <1>7, <2>1, <2>2 DEF TypeOK, CancelOrder
<1>. QED  BY <1>1, <1>4, <1>5, <1>6, <1>7

(* What a responder leaves alone, and the row its reply marks.             *)
LEMMA TypeAnswer ==
  ASSUME TypeOK, NEW c \in SagaCommandKind, NEW mark \in RowStatus, answer(c, mark),
         topics' \in [Topic -> Seq(Fact)], reservation' \in ReservationStatus,
         hold' \in HoldStatus, invoice' \in InvoiceStatus
  PROVE  TypeOK'
<1>1. requests' \in [SagaCommandKind -> Nat]
  BY DEF TypeOK, answer
<1>2. rows' \in [SagaCommandKind -> RowStatus]
  BY DEF TypeOK, answer
<1>. QED  BY <1>1, <1>2 DEF TypeOK, answer, consumer, parks, world

LEMMA TypeFulfillment ==
  ASSUME TypeOK, Reserve \/ Release \/ CreateDespatch
  PROVE  TypeOK'
<1>1. /\ {"stock.reserve", "stock.release", "despatch.create"} \subseteq SagaCommandKind
      /\ {"sent", "rejected"} \subseteq RowStatus
      /\ "fulfillment" \in Topic
  BY DEF SagaCommandKind, RowStatus, Topic
<1>2. /\ fact("stock.reserved") \in Fact
      /\ fact("stock.rejected") \in Fact
      /\ fact("order.despatched") \in Fact
      /\ releaseFact("stock.released", releaseReason) \in Fact
  BY FactTypes, FactIsFact, ReleaseFactIsFact DEF TypeOK, ReleaseReason
<1>3. CASE Reserve
  <2>1. /\ topics' \in [Topic -> Seq(Fact)] /\ reservation' \in ReservationStatus
        /\ hold' \in HoldStatus /\ invoice' \in InvoiceStatus
    BY <1>1, <1>2, <1>3, EmitEffect DEF Reserve, TypeOK, ReservationStatus
  <2>2. \E mark \in RowStatus : answer("stock.reserve", mark)
    BY <1>1, <1>3 DEF Reserve
  <2>. QED  BY <1>1, <2>1, <2>2, TypeAnswer
<1>4. CASE Release
  <2>1. /\ topics' \in [Topic -> Seq(Fact)] /\ reservation' \in ReservationStatus
        /\ hold' \in HoldStatus /\ invoice' \in InvoiceStatus
    BY <1>1, <1>2, <1>4, EmitEffect DEF Release, TypeOK, ReservationStatus
  <2>2. \E mark \in RowStatus : answer("stock.release", mark)
    BY <1>1, <1>4 DEF Release
  <2>. QED  BY <1>1, <2>1, <2>2, TypeAnswer
<1>5. CASE CreateDespatch
  <2>1. /\ topics' \in [Topic -> Seq(Fact)] /\ reservation' \in ReservationStatus
        /\ hold' \in HoldStatus /\ invoice' \in InvoiceStatus
    BY <1>1, <1>2, <1>5, EmitEffect DEF CreateDespatch, TypeOK, ReservationStatus
  <2>2. \E mark \in RowStatus : answer("despatch.create", mark)
    BY <1>1, <1>5 DEF CreateDespatch
  <2>. QED  BY <1>1, <2>1, <2>2, TypeAnswer
<1>. QED  BY <1>3, <1>4, <1>5

LEMMA TypeBilling ==
  ASSUME TypeOK, HoldCredit \/ ReleaseCredit \/ IssueInvoice
  PROVE  TypeOK'
<1>1. /\ {"credit.hold", "credit.release", "invoice.issue"} \subseteq SagaCommandKind
      /\ {"sent", "rejected"} \subseteq RowStatus
      /\ "billing" \in Topic
  BY DEF SagaCommandKind, RowStatus, Topic
<1>2. /\ fact("credit.approved") \in Fact
      /\ fact("credit.rejected") \in Fact
      /\ fact("invoice.issued") \in Fact
      /\ releaseFact("credit.released", "order_cancelled") \in Fact
  BY FactTypes, FactIsFact, ReleaseFactIsFact DEF ReleaseReason
<1>3. CASE HoldCredit
  <2>1. /\ topics' \in [Topic -> Seq(Fact)] /\ reservation' \in ReservationStatus
        /\ hold' \in HoldStatus /\ invoice' \in InvoiceStatus
    BY <1>1, <1>2, <1>3, EmitEffect DEF HoldCredit, TypeOK, HoldStatus
  <2>2. \E mark \in RowStatus : answer("credit.hold", mark)
    BY <1>1, <1>3 DEF HoldCredit
  <2>. QED  BY <1>1, <2>1, <2>2, TypeAnswer
<1>4. CASE ReleaseCredit
  <2>1. /\ topics' \in [Topic -> Seq(Fact)] /\ reservation' \in ReservationStatus
        /\ hold' \in HoldStatus /\ invoice' \in InvoiceStatus
    BY <1>1, <1>2, <1>4, EmitEffect DEF ReleaseCredit, TypeOK, HoldStatus
  <2>2. \E mark \in RowStatus : answer("credit.release", mark)
    BY <1>1, <1>4 DEF ReleaseCredit
  <2>. QED  BY <1>1, <2>1, <2>2, TypeAnswer
<1>5. CASE IssueInvoice
  <2>1. /\ topics' \in [Topic -> Seq(Fact)] /\ reservation' \in ReservationStatus
        /\ hold' \in HoldStatus /\ invoice' \in InvoiceStatus
    BY <1>1, <1>2, <1>5, EmitEffect DEF IssueInvoice, TypeOK, HoldStatus, InvoiceStatus
  <2>2. \E mark \in RowStatus : answer("invoice.issue", mark)
    BY <1>1, <1>5 DEF IssueInvoice
  <2>. QED  BY <1>1, <2>1, <2>2, TypeAnswer
<1>. QED  BY <1>3, <1>4, <1>5

(* A payment appends one or two facts to Billing's log.                    *)
LEMMA PaymentEffect ==
  ASSUME topics \in [Topic -> Seq(Fact)], RegisterPayment
  PROVE  /\ topics' \in [Topic -> Seq(Fact)]
         /\ \A u \in Topic : u # "billing" => topics'[u] = topics[u]
         /\ \A i \in DOMAIN topics["billing"] :
              i \in DOMAIN topics'["billing"] /\ topics'["billing"][i] = topics["billing"][i]
         /\ \A i \in DOMAIN topics'["billing"] \ DOMAIN topics["billing"] :
              /\ topics'["billing"][i].type \in {"payment.received", "credit.released"}
              /\ topics'["billing"][i].reason # "order_cancelled"
              /\ topics'["billing"][i].type = "credit.released" => hold' = "released_paid"
<1>1. "billing" \in Topic
  BY DEF Topic
<1>2. fact("payment.received") \in Fact /\ releaseFact("credit.released", "invoice_paid") \in Fact
  BY FactTypes, FactIsFact, ReleaseFactIsFact DEF ReleaseReason
<1>3. CASE hold \in {"held", "open"}
  <2>. DEFINE log == topics["billing"]
              a == fact("payment.received")
              b == releaseFact("credit.released", "invoice_paid")
  <2>1. topics' = [topics EXCEPT !["billing"] = Append(Append(log, a), b)]
    BY <1>1, <1>3 DEF RegisterPayment
  <2>2. log \in Seq(Fact) /\ a \in Fact /\ b \in Fact
    BY <1>1, <1>2
  <2>3. /\ a.type = "payment.received" /\ b.type = "credit.released"
        /\ a.reason # "order_cancelled" /\ b.reason # "order_cancelled"
    BY DEF fact, releaseFact, NoReason
  <2>. HIDE DEF log, a, b
  <2>4. Append(log, a) \in Seq(Fact) /\ Append(Append(log, a), b) \in Seq(Fact)
    BY <2>2
  <2>5. /\ DOMAIN log = 1 .. Len(log)
        /\ DOMAIN Append(Append(log, a), b) = 1 .. (Len(log) + 2)
        /\ \A i \in 1 .. Len(log) : Append(Append(log, a), b)[i] = log[i]
        /\ Append(Append(log, a), b)[Len(log) + 1] = a
        /\ Append(Append(log, a), b)[Len(log) + 2] = b
    BY <2>2, <2>4
  <2>6. \A i \in DOMAIN Append(Append(log, a), b) \ DOMAIN log :
          i = Len(log) + 1 \/ i = Len(log) + 2
    BY <2>2, <2>5
  <2>7. topics'["billing"] = Append(Append(log, a), b)
    BY <1>1, <2>1
  <2>8. hold' = "released_paid"
    BY <1>3 DEF RegisterPayment
  <2>. QED  BY <1>1, <2>1, <2>2, <2>3, <2>4, <2>5, <2>6, <2>7, <2>8 DEF log
<1>4. CASE hold \notin {"held", "open"}
  <2>1. emit("billing", fact("payment.received"))
    BY <1>4 DEF RegisterPayment
  <2>2. /\ topics' \in [Topic -> Seq(Fact)]
        /\ Len(topics'["billing"]) = Len(topics["billing"]) + 1
        /\ topics'["billing"][Len(topics["billing"]) + 1] = fact("payment.received")
        /\ \A u \in Topic : u # "billing" => topics'[u] = topics[u]
        /\ \A i \in 1 .. Len(topics["billing"]) : topics'["billing"][i] = topics["billing"][i]
    BY <1>1, <1>2, <2>1, EmitEffect
  <2>3. /\ DOMAIN topics["billing"] = 1 .. Len(topics["billing"])
        /\ DOMAIN topics'["billing"] = 1 .. (Len(topics["billing"]) + 1)
        /\ Len(topics["billing"]) \in Nat
    BY <1>1, <2>2
  <2>4. /\ fact("payment.received").type = "payment.received"
        /\ fact("payment.received").reason # "order_cancelled"
    BY DEF fact, NoReason
  <2>5. \A i \in DOMAIN topics'["billing"] \ DOMAIN topics["billing"] :
          i = Len(topics["billing"]) + 1
    BY <2>3
  <2>. QED  BY <2>2, <2>3, <2>4, <2>5
<1>. QED  BY <1>3, <1>4

LEMMA TypeStep == TypeOK /\ [Next]_vars => TypeOK'
<1>. SUFFICES ASSUME TypeOK, [Next]_vars PROVE TypeOK'
  OBVIOUS
<1>1. ASSUME NEW t \in Topic, SkipFact(t) PROVE TypeOK'
  BY <1>1 DEF TypeOK, SkipFact, passFact, ordersDb, parks, rpc, world
<1>2. ASSUME NEW t \in Topic, ReadFact(t) PROVE TypeOK'
  <2>1. nextFact(t) \in Fact
    BY <1>2 DEF TypeOK, ReadFact, hasNextFact, nextFact
  <2>2. hasAcceptedOperatorCancel \in BOOLEAN
    BY DEF hasAcceptedOperatorCancel
  <2>3. factTx' \subseteq FactTx
    BY <1>2, <2>1, <2>2 DEF TypeOK, ReadFact, FactTx
  <2>. QED  BY <1>2, <2>3 DEF TypeOK, ReadFact, ordersDb, parks, rpc, world
<1>3. CASE HandleFact
  BY <1>3, TypeHandleFact
<1>4. CASE DeadLetterFact
  <2>1. offset' \in [Topic -> Nat] /\ lostFacts' \in Nat
    BY <1>4 DEF TypeOK, DeadLetterFact, passFact, FactTx
  <2>. QED  BY <1>4, <2>1 DEF TypeOK, DeadLetterFact, ordersDb, parks, rpc
<1>5. ASSUME NEW k \in Cancellers, CancelRead(k) \/ CancelTxRead(k) PROVE TypeOK'
  BY <1>5 DEF TypeOK, CancelRead, CancelTxRead, goCancel, CancelStage, ordersDb, consumer,
     parks, rpc, world
<1>6. ASSUME NEW k \in Cancellers, CancelCompensate(k) PROVE TypeOK'
  <2>1. "stock.release" \in SagaCommandKind
    BY DEF SagaCommandKind
  <2>2. /\ rows' \in [SagaCommandKind -> RowStatus]
        /\ releaseReason' \in {NoReason, "credit_rejected", "order_cancelled"}
    BY <1>6, <2>1, EnqueueType DEF TypeOK, CancelCompensate
  <2>. QED
    BY <1>6, <2>2 DEF TypeOK, CancelCompensate, goCancel, CancelStage, consumer, parks, rpc, world
<1>7. ASSUME NEW k \in Cancellers, CancelTxWrite(k) PROVE TypeOK'
  <2>1. order' \in OrderRow
    BY <1>7 DEF CancelTxWrite, OrderRow, ORDER_STATUSES, CANCELLATION_REASONS
  <2>2. topics' \in [Topic -> Seq(Fact)]
    BY <1>7, EmitTransitionType DEF TypeOK, CancelTxWrite
  <2>. QED
    BY <1>7, <2>1, <2>2 DEF TypeOK, CancelTxWrite, goCancel, CancelStage, consumer, parks, rpc, world
<1>8. ASSUME NEW c \in SagaCommandKind, Issue(c) \/ LoseRequest(c) PROVE TypeOK'
  <2>2. CASE Issue(c)
    <3>1. requests' \in [SagaCommandKind -> Nat] /\ calls' \in [SagaCommandKind -> Nat]
      BY <2>2 DEF TypeOK, Issue
    <3>. QED  BY <2>2, <3>1 DEF TypeOK, Issue, ordersDb, consumer, parks, world
  <2>3. CASE LoseRequest(c)
    <3>1. requests[c] - 1 \in Nat
      BY <2>3 DEF TypeOK, LoseRequest
    <3>2. requests' \in [SagaCommandKind -> Nat]
      BY <2>3, <3>1 DEF TypeOK, LoseRequest
    <3>. QED  BY <2>3, <3>2 DEF TypeOK, LoseRequest, ordersDb, consumer, parks, world
  <2>. QED  BY <1>8, <2>2, <2>3
<1>9. ASSUME NEW c \in SagaCommandKind, Park(c) PROVE TypeOK'
  <2>1. /\ rows' \in [SagaCommandKind -> RowStatus]
        /\ deadLettered' \subseteq SagaCommandKind
        /\ firstParks' \subseteq SagaCommandKind
    BY <1>9 DEF TypeOK, Park, RowStatus
  <2>. QED  BY <1>9, <2>1 DEF TypeOK, Park, consumer, rpc, world
<1>10. ASSUME NEW c \in SagaCommandKind, ReadFirstPark(c) PROVE TypeOK'
  <2>1. firstParks' \subseteq SagaCommandKind /\ parkTx' \subseteq ParkTx
    BY <1>10 DEF TypeOK, ReadFirstPark, ParkTx
  <2>. QED  BY <1>10, <2>1 DEF TypeOK, ReadFirstPark, ordersDb, consumer, rpc, world
<1>11. ASSUME NEW p \in parkTx, RecordSagaFailure(p) PROVE TypeOK'
  <2>1. order' \in OrderRow /\ parkTx' \subseteq ParkTx
    BY <1>11 DEF TypeOK, RecordSagaFailure, ParkTx
  <2>2. topics' \in [Topic -> Seq(Fact)]
    BY <1>11, FactTypes, FactIsFact, EmitEffect DEF TypeOK, RecordSagaFailure, Topic
  <2>. QED  BY <1>11, <2>1, <2>2 DEF TypeOK, RecordSagaFailure, consumer, rpc, world
<1>12. CASE Restart
  <2>1. offset' \in [Topic -> Nat]
    BY <1>12 DEF TypeOK, Restart
  <2>2. cancels' \in [Cancellers -> CancelStage]
    BY <1>12 DEF TypeOK, Restart, CancelStage
  <2>. QED  BY <1>12, <2>1, <2>2 DEF TypeOK, Restart, ordersDb
<1>13. CASE RegisterPayment
  BY <1>13, PaymentEffect
     DEF TypeOK, RegisterPayment, HoldStatus, InvoiceStatus, ordersDb, consumer, parks, rpc, world
<1>14. CASE UNCHANGED vars
  BY <1>14 DEF TypeOK, vars, ordersDb, consumer, parks, rpc, world
<1>. QED
  BY <1>1, <1>2, <1>3, <1>4, <1>5, <1>6, <1>7, <1>8, <1>9, <1>10, <1>11, <1>12, <1>13, <1>14,
     TypeFulfillment, TypeBilling DEF Next

(* Every variable keeps its type, whatever is lost, repeated or restarted. *)
THEOREM TypeCorrect == Spec => []TypeOK
BY TypeInit, TypeStep, PTL DEF Spec

-----------------------------------------------------------------------------
(* Facts are never lost from a log, and each new one is justified by what  *)
(* the step that publishes it does.                                        *)

LogsGrow ==
  \A t \in Topic : \A i \in DOMAIN topics[t] :
    i \in DOMAIN topics'[t] /\ topics'[t][i] = topics[t][i]

justified(t, f) ==
  /\ f.type \in FactsOf[t]
  /\ f.type = "credit.approved" => hold = "none" /\ hold' = "held"
  /\ f.type = "stock.released" =>
       reservation' = "released" /\ f.reason = releaseReason /\ requests["stock.release"] > 0
  /\ f.type = "order.despatched" => reservation' = "consumed"
  /\ isCancelRelease(f) => hold' = "released_cancel"
  /\ f.type = "payment.received" => invoice' = "paid"
  /\ f.type = "credit.released" => isCancelRelease(f) \/ hold' = "released_paid"

NewFactsJustified ==
  \A t \in Topic : \A i \in DOMAIN topics'[t] \ DOMAIN topics[t] :
    /\ justified(t, topics'[t][i])
    /\ topics'[t][i].type = "credit.approved" => i = Len(topics[t]) + 1

LEMMA EmitJustified ==
  ASSUME topics \in [Topic -> Seq(Fact)], NEW t \in Topic, NEW f \in Fact, emit(t, f),
         justified(t, f)
  PROVE  LogsGrow /\ NewFactsJustified
<1>1. /\ topics' \in [Topic -> Seq(Fact)]
      /\ Len(topics'[t]) = Len(topics[t]) + 1
      /\ topics'[t][Len(topics[t]) + 1] = f
      /\ \A u \in Topic : u # t => topics'[u] = topics[u]
      /\ \A i \in 1 .. Len(topics[t]) : topics'[t][i] = topics[t][i]
  BY EmitEffect
<1>2. /\ DOMAIN topics[t] = 1 .. Len(topics[t])
      /\ DOMAIN topics'[t] = 1 .. (Len(topics[t]) + 1)
      /\ Len(topics[t]) \in Nat
  BY <1>1
<1>3. LogsGrow
  <2>1. ASSUME NEW u \in Topic, NEW i \in DOMAIN topics[u]
        PROVE  i \in DOMAIN topics'[u] /\ topics'[u][i] = topics[u][i]
    <3>1. CASE u = t
      BY <1>1, <1>2, <3>1
    <3>2. CASE u # t
      BY <1>1, <3>2
    <3>. QED  BY <3>1, <3>2
  <2>. QED  BY <2>1 DEF LogsGrow
<1>4. \A i \in DOMAIN topics'[t] \ DOMAIN topics[t] : i = Len(topics[t]) + 1
  BY <1>2
<1>. QED  BY <1>1, <1>3, <1>4 DEF NewFactsJustified

LEMMA OwnFactJustified ==
  ASSUME topics \in [Topic -> Seq(Fact)], NEW type \in SkippedFacts, emit("orders", fact(type))
  PROVE  LogsGrow /\ NewFactsJustified
<1>1. "orders" \in Topic /\ fact(type) \in Fact
  BY FactIsFact DEF Topic, FactType
<1>2. justified("orders", fact(type))
  BY DEF justified, isCancelRelease, fact, FactsOf, SkippedFacts
<1>. QED  BY <1>1, <1>2, EmitJustified

LEMMA SilentLogs ==
  ASSUME UNCHANGED topics
  PROVE  LogsGrow /\ NewFactsJustified
BY DEF LogsGrow, NewFactsJustified

LEMMA LogStep ==
  ASSUME TypeOK, [Next]_vars
  PROVE  LogsGrow /\ NewFactsJustified
<1>. topics \in [Topic -> Seq(Fact)]
  BY DEF TypeOK
<1>1. CASE HandleFact
  <2>1. \/ UNCHANGED topics
        \/ \E type \in SkippedFacts : emit("orders", fact(type))
    BY <1>1, EmitTransitionCases
       DEF HandleFact, ReleaseLateApproval, IgnoreFact, AdvanceOrder, CancelOrder
  <2>. QED  BY <2>1, SilentLogs, OwnFactJustified
<1>2. ASSUME NEW k \in Cancellers, CancelTxWrite(k) PROVE LogsGrow /\ NewFactsJustified
  BY <1>2, EmitTransitionCases, SilentLogs, OwnFactJustified DEF CancelTxWrite
<1>3. ASSUME NEW p \in parkTx, RecordSagaFailure(p) PROVE LogsGrow /\ NewFactsJustified
  <2>1. "order.saga_failed" \in SkippedFacts
    BY DEF SkippedFacts
  <2>. QED  BY <1>3, <2>1, OwnFactJustified DEF RecordSagaFailure
<1>4. CASE Reserve \/ Release \/ CreateDespatch
  <2>1. /\ "fulfillment" \in Topic
        /\ fact("stock.reserved") \in Fact
        /\ fact("stock.rejected") \in Fact
        /\ fact("order.despatched") \in Fact
        /\ releaseFact("stock.released", releaseReason) \in Fact
    BY FactTypes, FactIsFact, ReleaseFactIsFact DEF TypeOK, ReleaseReason, Topic
  <2>2. /\ reservation' # "none" => justified("fulfillment", fact("stock.reserved"))
        /\ "rejected" \in reserveOutcomes => justified("fulfillment", fact("stock.rejected"))
    BY DEF justified, isCancelRelease, fact, FactsOf
  <2>3. reservation' = "released" /\ requests["stock.release"] > 0 =>
          justified("fulfillment", releaseFact("stock.released", releaseReason))
    BY DEF justified, isCancelRelease, releaseFact, FactsOf
  <2>4. reservation' = "consumed" => justified("fulfillment", fact("order.despatched"))
    BY DEF justified, isCancelRelease, fact, FactsOf
  <2>5. \/ UNCHANGED topics
        \/ reservation' # "none" /\ emit("fulfillment", fact("stock.reserved"))
        \/ "rejected" \in reserveOutcomes /\ emit("fulfillment", fact("stock.rejected"))
        \/ reservation' = "released" /\ requests["stock.release"] > 0
             /\ emit("fulfillment", releaseFact("stock.released", releaseReason))
        \/ reservation' = "consumed" /\ emit("fulfillment", fact("order.despatched"))
    BY <1>4 DEF Reserve, Release, CreateDespatch, answer
  <2>. QED  BY <2>1, <2>2, <2>3, <2>4, <2>5, SilentLogs, EmitJustified
<1>5. CASE HoldCredit \/ ReleaseCredit \/ IssueInvoice
  <2>1. /\ "billing" \in Topic
        /\ fact("credit.approved") \in Fact
        /\ fact("credit.rejected") \in Fact
        /\ fact("invoice.issued") \in Fact
        /\ releaseFact("credit.released", "order_cancelled") \in Fact
    BY FactTypes, FactIsFact, ReleaseFactIsFact DEF ReleaseReason, Topic
  <2>2. /\ "rejected" \in holdOutcomes => justified("billing", fact("credit.rejected"))
        /\ justified("billing", fact("invoice.issued"))
        /\ hold' = "released_cancel" =>
             justified("billing", releaseFact("credit.released", "order_cancelled"))
    BY DEF justified, isCancelRelease, fact, releaseFact, FactsOf
  <2>3. hold = "none" /\ hold' = "held" => justified("billing", fact("credit.approved"))
    BY DEF justified, isCancelRelease, fact, FactsOf
  <2>4. \/ UNCHANGED topics
        \/ hold = "none" /\ hold' = "held" /\ emit("billing", fact("credit.approved"))
        \/ "rejected" \in holdOutcomes /\ emit("billing", fact("credit.rejected"))
        \/ emit("billing", fact("invoice.issued"))
        \/ hold' = "released_cancel"
             /\ emit("billing", releaseFact("credit.released", "order_cancelled"))
    BY <1>5 DEF HoldCredit, ReleaseCredit, IssueInvoice
  <2>. QED  BY <2>1, <2>2, <2>3, <2>4, SilentLogs, EmitJustified
<1>6. CASE RegisterPayment
  <2>1. /\ \A u \in Topic : u # "billing" => topics'[u] = topics[u]
        /\ \A i \in DOMAIN topics["billing"] :
             i \in DOMAIN topics'["billing"] /\ topics'["billing"][i] = topics["billing"][i]
        /\ \A i \in DOMAIN topics'["billing"] \ DOMAIN topics["billing"] :
             /\ topics'["billing"][i].type \in {"payment.received", "credit.released"}
             /\ topics'["billing"][i].reason # "order_cancelled"
             /\ topics'["billing"][i].type = "credit.released" => hold' = "released_paid"
    BY <1>6, PaymentEffect
  <2>2. invoice' = "paid"
    BY <1>6 DEF RegisterPayment
  <2>3. \A i \in DOMAIN topics'["billing"] \ DOMAIN topics["billing"] :
          /\ justified("billing", topics'["billing"][i])
          /\ topics'["billing"][i].type # "credit.approved"
    BY <2>1, <2>2 DEF justified, isCancelRelease, FactsOf
  <2>. QED  BY <2>1, <2>3 DEF LogsGrow, NewFactsJustified
<1>7. CASE UNCHANGED topics
  BY <1>7, SilentLogs
<1>. QED
  BY <1>1, <1>2, <1>3, <1>4, <1>5, <1>6, <1>7
     DEF Next, vars, SkipFact, ReadFact, DeadLetterFact, CancelRead, CancelCompensate,
         CancelTxRead, Issue, LoseRequest, Park, ReadFirstPark, Restart

-----------------------------------------------------------------------------
(* What no step undoes.                                                    *)

NothingUndone ==
  /\ reservation \in {"released", "consumed"} => reservation' = reservation
  /\ hold # "none" => hold' # "none"
  /\ hold = "released_cancel" => hold' = hold
  /\ \A c \in SagaCommandKind : rows[c] # "absent" => rows'[c] # "absent"
  /\ processed \subseteq processed'

(* The rows change only by an enqueue, a mark or a park.                   *)
LEMMA EnqueueRows ==
  ASSUME TypeOK, NEW c \in SagaCommandKind, NEW reason, enqueue(c, reason)
  PROVE  /\ rows'[c] # "absent"
         /\ \A d \in SagaCommandKind : d # c => rows'[d] = rows[d]
         /\ \A d \in SagaCommandKind : rows[d] # "absent" => rows'[d] # "absent"
BY DEF enqueue, TypeOK

LEMMA AnswerRows ==
  ASSUME TypeOK, NEW c \in SagaCommandKind, NEW mark \in {"sent", "rejected"}, answer(c, mark),
         requests[c] > 0 => rows[c] # "absent"
  PROVE  \A d \in SagaCommandKind : rows'[d] = "absent" <=> rows[d] = "absent"
<1>1. requests[c] > 0
  BY DEF answer
<1>2. CASE rows' = [rows EXCEPT ![c] = mark]
  BY <1>1, <1>2 DEF TypeOK
<1>3. CASE UNCHANGED rows
  BY <1>3
<1>. QED  BY <1>2, <1>3 DEF answer

(* A handled fact adds at most one row: the one its step owes.             *)
LEMMA HandleRows ==
  ASSUME TypeOK, NEW x \in factTx,
         ReleaseLateApproval(x) \/ IgnoreFact(x) \/ AdvanceOrder(x) \/ CancelOrder(x)
  PROVE  \A d \in SagaCommandKind :
           /\ rows[d] # "absent" => rows'[d] # "absent"
           /\ rows[d] = "absent" /\ rows'[d] # "absent" =>
                \/ lateApproval(x) /\ d = "credit.release"
                \/ ~lateApproval(x) /\ \E s \in SAGA_STEPS : s.fact = x.fact.type /\ d = s.commandAfter
<1>1. CASE ReleaseLateApproval(x)
  <2>1. "credit.release" \in SagaCommandKind
    BY DEF SagaCommandKind
  <2>. QED  BY <1>1, <2>1, EnqueueRows DEF ReleaseLateApproval
<1>2. CASE IgnoreFact(x) \/ CancelOrder(x)
  BY <1>2 DEF IgnoreFact, CancelOrder
<1>3. CASE AdvanceOrder(x)
  <2>1. ~lateApproval(x)
    BY <1>3 DEF AdvanceOrder
  <2>2. PICK s \in stepForStatus(x.fact.type, x.row.status) :
          IF s.commandAfter = NoCommand
          THEN UNCHANGED <<rows, releaseReason>>
          ELSE enqueue(s.commandAfter, "credit_rejected")
    BY <1>3 DEF AdvanceOrder
  <2>3. s \in SAGA_STEPS /\ s.fact = x.fact.type
    BY DEF stepForStatus
  <2>4. CASE s.commandAfter = NoCommand
    BY <2>2, <2>4
  <2>5. CASE s.commandAfter # NoCommand
    <3>1. s.commandAfter \in SagaCommandKind
      BY <2>3, <2>5, StepTypes
    <3>. QED  BY <2>1, <2>2, <2>3, <2>5, <3>1, EnqueueRows
  <2>. QED  BY <2>4, <2>5
<1>. QED  BY <1>1, <1>2, <1>3

(* Who may owe what: a release of credit and a despatch come from the      *)
(* approval or from the stock's return, an invoice from the despatch.      *)
LEMMA OwedBy ==
  ASSUME NEW s \in SAGA_STEPS
  PROVE  /\ s.commandAfter = "despatch.create" => s.fact = "credit.approved"
         /\ s.commandAfter = "credit.release" => s.fact = "stock.released"
         /\ s.commandAfter = "invoice.issue" => s.fact = "order.despatched"
BY DEF SAGA_STEPS, Advance, Cancel, NoCommand

(* The steps outside the fact handler that touch the rows.                 *)
LEMMA OtherRows ==
  ASSUME TypeOK, OnlyOwedWork, [Next]_vars, ~HandleFact
  PROVE  \A d \in SagaCommandKind :
           /\ rows[d] # "absent" => rows'[d] # "absent"
           /\ d # "stock.release" /\ rows[d] = "absent" => rows'[d] = "absent"
<1>1. ASSUME NEW k \in Cancellers, CancelCompensate(k)
      PROVE  \A d \in SagaCommandKind :
               /\ rows[d] # "absent" => rows'[d] # "absent"
               /\ d # "stock.release" => rows'[d] = rows[d]
  <2>1. "stock.release" \in SagaCommandKind
    BY DEF SagaCommandKind
  <2>. QED  BY <1>1, <2>1, EnqueueRows DEF CancelCompensate
<1>2. ASSUME NEW c \in SagaCommandKind, Park(c)
      PROVE  \A d \in SagaCommandKind : rows'[d] = "absent" <=> rows[d] = "absent"
  BY <1>2 DEF Park, TypeOK
<1>3. CASE Reserve \/ Release \/ CreateDespatch \/ HoldCredit \/ ReleaseCredit \/ IssueInvoice
  <2>1. \E c \in SagaCommandKind, mark \in {"sent", "rejected"} : answer(c, mark)
    BY <1>3 DEF Reserve, Release, CreateDespatch, HoldCredit, ReleaseCredit, IssueInvoice,
                SagaCommandKind
  <2>. QED  BY <2>1, AnswerRows DEF OnlyOwedWork
<1>4. CASE UNCHANGED rows
  BY <1>4
<1>. QED
  BY <1>1, <1>2, <1>3, <1>4
     DEF Next, vars, SkipFact, ReadFact, DeadLetterFact, CancelRead, CancelTxRead, CancelTxWrite,
         Issue, LoseRequest, ReadFirstPark, RecordSagaFailure, Restart, RegisterPayment, ordersDb

LEMMA WorldStep ==
  ASSUME TypeOK, OnlyOwedWork, [Next]_vars
  PROVE  NothingUndone
<1>1. CASE HandleFact
  <2>1. \A c \in SagaCommandKind : rows[c] # "absent" => rows'[c] # "absent"
    BY <1>1, HandleRows DEF HandleFact
  <2>2. UNCHANGED <<reservation, hold>> /\ processed \subseteq processed'
    BY <1>1 DEF HandleFact, ReleaseLateApproval, IgnoreFact, AdvanceOrder, CancelOrder, commitFact
  <2>. QED  BY <2>1, <2>2 DEF NothingUndone
<1>2. CASE ~HandleFact
  <2>1. \A c \in SagaCommandKind : rows[c] # "absent" => rows'[c] # "absent"
    BY <1>2, OtherRows
  <2>2. processed' = processed
    BY <1>2 DEF Next, vars, SkipFact, ReadFact, DeadLetterFact, CancelRead, CancelCompensate,
         CancelTxRead, CancelTxWrite, Issue, LoseRequest, Park, ReadFirstPark, RecordSagaFailure,
         Restart, Reserve, Release, CreateDespatch, HoldCredit, ReleaseCredit, IssueInvoice,
         RegisterPayment, answer, consumer
  <2>3. /\ reservation \in {"released", "consumed"} => reservation' = reservation
        /\ hold # "none" => hold' # "none"
        /\ hold = "released_cancel" => hold' = hold
    BY <1>2 DEF Next, vars, SkipFact, ReadFact, DeadLetterFact, CancelRead, CancelCompensate,
         CancelTxRead, CancelTxWrite, Issue, LoseRequest, Park, ReadFirstPark, RecordSagaFailure,
         Restart, Reserve, Release, CreateDespatch, HoldCredit, ReleaseCredit, IssueInvoice,
         RegisterPayment
  <2>. QED  BY <2>1, <2>2, <2>3 DEF NothingUndone
<1>. QED  BY <1>1, <1>2

-----------------------------------------------------------------------------
(* The inductive invariant, conjunct by conjunct.                          *)

LEMMA TopicStep ==
  ASSUME TypeOK, TypeOK', FactsOnTheirTopic, LogsGrow, NewFactsJustified
  PROVE  FactsOnTheirTopic'
<1>1. ASSUME NEW t \in Topic, NEW i \in DOMAIN topics'[t]
      PROVE  topics'[t][i].type \in FactsOf[t]
  <2>1. CASE i \in DOMAIN topics[t]
    BY <2>1 DEF LogsGrow, FactsOnTheirTopic
  <2>2. CASE i \notin DOMAIN topics[t]
    BY <2>2 DEF NewFactsJustified, justified
  <2>. QED  BY <2>1, <2>2
<1>. QED  BY <1>1 DEF FactsOnTheirTopic

LEMMA ApprovalStep ==
  ASSUME TypeOK, OneApproval, LogsGrow, NewFactsJustified, NothingUndone
  PROVE  OneApproval'
<1>. "billing" \in Topic
  BY DEF Topic
<1>1. ASSUME NEW i \in DOMAIN topics'["billing"], topics'["billing"][i].type = "credit.approved"
      PROVE  /\ hold' # "none"
             /\ i \in DOMAIN topics["billing"] => isApproval(i) /\ hold # "none"
             /\ i \notin DOMAIN topics["billing"] =>
                  hold = "none" /\ i = Len(topics["billing"]) + 1
  <2>1. CASE i \in DOMAIN topics["billing"]
    BY <1>1, <2>1 DEF LogsGrow, OneApproval, isApproval, NothingUndone
  <2>2. CASE i \notin DOMAIN topics["billing"]
    BY <1>1, <2>2 DEF NewFactsJustified, justified
  <2>. QED  BY <2>1, <2>2
<1>2. ASSUME NEW i \in DOMAIN topics'["billing"], NEW j \in DOMAIN topics'["billing"],
             topics'["billing"][i].type = "credit.approved",
             topics'["billing"][j].type = "credit.approved"
      PROVE  i = j
  <2>1. CASE hold = "none"
    BY <1>1, <1>2, <2>1
  <2>2. CASE hold # "none"
    BY <1>1, <1>2, <2>2 DEF OneApproval
  <2>. QED  BY <2>1, <2>2
<1>. QED  BY <1>1, <1>2 DEF OneApproval, isApproval

LEMMA FinalStep ==
  ASSUME TypeOK, FactsAreFinal, LogsGrow, NewFactsJustified, NothingUndone
  PROVE  FactsAreFinal'
<1>. {"fulfillment", "billing"} \subseteq Topic
  BY DEF Topic
<1>1. ASSUME NEW i \in DOMAIN topics'["fulfillment"]
      PROVE  /\ topics'["fulfillment"][i].type = "stock.released" => reservation' = "released"
             /\ topics'["fulfillment"][i].type = "order.despatched" => reservation' = "consumed"
  <2>1. CASE i \in DOMAIN topics["fulfillment"]
    BY <2>1 DEF LogsGrow, FactsAreFinal, NothingUndone
  <2>2. CASE i \notin DOMAIN topics["fulfillment"]
    BY <2>2 DEF NewFactsJustified, justified
  <2>. QED  BY <2>1, <2>2
<1>2. ASSUME NEW i \in DOMAIN topics'["billing"], isCancelRelease(topics'["billing"][i])
      PROVE  hold' = "released_cancel"
  <2>1. CASE i \in DOMAIN topics["billing"]
    BY <1>2, <2>1 DEF LogsGrow, FactsAreFinal, NothingUndone
  <2>2. CASE i \notin DOMAIN topics["billing"]
    BY <1>2, <2>2 DEF NewFactsJustified, justified
  <2>. QED  BY <2>1, <2>2
<1>. QED  BY <1>1, <1>2 DEF FactsAreFinal, isCancelRelease

LEMMA OpenFactStep ==
  ASSUME TypeOK, OpenFactIsNext, LogsGrow, [Next]_vars
  PROVE  OpenFactIsNext'
<1>1. CASE factTx' = {}
  BY <1>1 DEF OpenFactIsNext
<1>2. ASSUME NEW t \in Topic, ReadFact(t) PROVE OpenFactIsNext'
  <2>1. ASSUME NEW x \in factTx'
        PROVE  /\ x.topic = t /\ x.fact = topics[t][offset[t] + 1]
               /\ offset[t] + 1 \in DOMAIN topics[t]
               /\ <<t, offset[t] + 1>> \notin processed
               /\ UNCHANGED <<topics, offset, processed>>
    BY <1>2 DEF ReadFact, hasNextFact, nextFact, position, TypeOK
  <2>. QED  BY <2>1 DEF OpenFactIsNext, nextFact, position
<1>3. CASE UNCHANGED <<factTx, offset, processed>>
  <2>1. ASSUME NEW x \in factTx'
        PROVE  /\ offset'[x.topic] + 1 \in DOMAIN topics'[x.topic]
               /\ x.fact = topics'[x.topic][offset'[x.topic] + 1]
               /\ <<x.topic, offset'[x.topic] + 1>> \notin processed'
    <3>1. x \in factTx /\ x.topic \in Topic
      BY <1>3, <2>1 DEF TypeOK, FactTx
    <3>. QED  BY <1>3, <3>1 DEF OpenFactIsNext, LogsGrow, nextFact, position
  <2>. QED  BY <2>1 DEF OpenFactIsNext, nextFact, position
<1>4. ASSUME NEW t \in Topic, SkipFact(t) PROVE factTx' = {}
  BY <1>4 DEF SkipFact, hasNextFact
<1>5. CASE HandleFact \/ DeadLetterFact \/ Restart
  BY <1>1, <1>5 DEF HandleFact, ReleaseLateApproval, IgnoreFact, AdvanceOrder, CancelOrder,
     commitFact, DeadLetterFact, Restart
<1>. QED
  BY <1>1, <1>2, <1>3, <1>4, <1>5
     DEF Next, vars, CancelRead, CancelCompensate, CancelTxRead, CancelTxWrite, Issue, LoseRequest,
         Park, ReadFirstPark, RecordSagaFailure, Reserve, Release, CreateDespatch, HoldCredit,
         ReleaseCredit, IssueInvoice, RegisterPayment, answer, consumer

(* What the fact in hand says about the world it is handled in.            *)
LEMMA OpenFactMeans ==
  ASSUME BackingInv, NEW x \in factTx
  PROVE  /\ x.fact.type = "stock.released" => reservation = "released"
         /\ x.fact.type = "order.despatched" => reservation = "consumed"
         /\ isCancelRelease(x.fact) => rows["credit.release"] # "absent"
         /\ x.fact.type = "credit.approved" =>
              /\ x.topic = "billing"
              /\ offset["billing"] + 1 \in DOMAIN topics["billing"]
              /\ isApproval(offset["billing"] + 1)
              /\ ~approvalHandled
<1>1. x.topic \in Topic
  BY DEF BackingInv, TypeOK, FactTx
<1>2. /\ offset[x.topic] + 1 \in DOMAIN topics[x.topic]
      /\ x.fact = topics[x.topic][offset[x.topic] + 1]
      /\ <<x.topic, offset[x.topic] + 1>> \notin processed
  BY DEF BackingInv, OpenFactIsNext, nextFact, position
<1>3. x.fact.type \in FactsOf[x.topic]
  BY <1>1, <1>2 DEF BackingInv, FactsOnTheirTopic
<1>4. x.fact.type \in {"stock.released", "order.despatched"} => x.topic = "fulfillment"
  BY <1>1, <1>3 DEF FactsOf, Topic, SkippedFacts
<1>5. x.fact.type \in {"credit.approved", "credit.released"} => x.topic = "billing"
  BY <1>1, <1>3 DEF FactsOf, Topic, SkippedFacts
<1>6. ASSUME x.fact.type = "credit.approved"
      PROVE  isApproval(offset["billing"] + 1) /\ ~approvalHandled
  BY <1>2, <1>5, <1>6 DEF BackingInv, OneApproval, isApproval, approvalHandled
<1>7. ASSUME isCancelRelease(x.fact) PROVE rows["credit.release"] # "absent"
  <2>1. x.topic = "billing"
    BY <1>5, <1>7 DEF isCancelRelease
  <2>2. hold = "released_cancel"
    BY <1>2, <1>7, <2>1 DEF BackingInv, FactsAreFinal
  <2>. QED  BY <2>2 DEF BackingInv, OnlyOwedWork
<1>. QED  BY <1>2, <1>4, <1>5, <1>6, <1>7 DEF BackingInv, FactsAreFinal

LEMMA OwedStep ==
  ASSUME BackingInv, [Next]_vars, NothingUndone
  PROVE  OnlyOwedWork'
<1>. TypeOK /\ OnlyOwedWork
  BY DEF BackingInv
<1>0. {"despatch.create", "credit.release", "invoice.issue"} \subseteq SagaCommandKind
  BY DEF SagaCommandKind
<1>1. ASSUME NEW c \in SagaCommandKind, requests'[c] > 0
      PROVE  rows[c] # "absent"
  <2>1. ASSUME NEW d \in SagaCommandKind, Issue(d) PROVE rows[c] # "absent"
    <3>1. CASE c = d
      BY <2>1, <3>1 DEF Issue
    <3>2. CASE c # d
      BY <1>1, <2>1, <3>2 DEF Issue, TypeOK, OnlyOwedWork
    <3>. QED  BY <3>1, <3>2
  <2>2. ASSUME NEW d \in SagaCommandKind, requests[d] > 0,
               requests' = [requests EXCEPT ![d] = @ - 1]
        PROVE  rows[c] # "absent"
    BY <1>1, <2>2 DEF TypeOK, OnlyOwedWork
  <2>3. CASE UNCHANGED requests
    BY <1>1, <2>3 DEF OnlyOwedWork
  <2>4. CASE Reserve \/ Release \/ CreateDespatch \/ HoldCredit \/ ReleaseCredit \/ IssueInvoice
    BY <2>2, <2>4 DEF Reserve, Release, CreateDespatch, HoldCredit, ReleaseCredit, IssueInvoice,
       answer, SagaCommandKind
  <2>. QED
    BY <2>1, <2>2, <2>3, <2>4
       DEF Next, vars, SkipFact, ReadFact, HandleFact, ReleaseLateApproval, IgnoreFact, AdvanceOrder,
           CancelOrder, commitFact, DeadLetterFact, CancelRead, CancelCompensate, CancelTxRead,
           CancelTxWrite, LoseRequest, Park, ReadFirstPark, RecordSagaFailure, Restart,
           RegisterPayment, rpc
<1>2. ASSUME reservation # "consumed", reservation' = "consumed"
      PROVE  rows["despatch.create"] # "absent"
  <2>1. requests["despatch.create"] > 0
    BY <1>2 DEF Next, vars, SkipFact, ReadFact, HandleFact, ReleaseLateApproval, IgnoreFact,
       AdvanceOrder, CancelOrder, commitFact, DeadLetterFact, CancelRead, CancelCompensate,
       CancelTxRead, CancelTxWrite, Issue, LoseRequest, Park, ReadFirstPark, RecordSagaFailure,
       Restart, Reserve, Release, CreateDespatch, HoldCredit, ReleaseCredit, IssueInvoice,
       RegisterPayment, answer
  <2>. QED  BY <1>0, <2>1 DEF OnlyOwedWork
<1>3. ASSUME hold # "released_cancel", hold' = "released_cancel"
      PROVE  rows["credit.release"] # "absent"
  <2>1. requests["credit.release"] > 0
    BY <1>3 DEF Next, vars, SkipFact, ReadFact, HandleFact, ReleaseLateApproval, IgnoreFact,
       AdvanceOrder, CancelOrder, commitFact, DeadLetterFact, CancelRead, CancelCompensate,
       CancelTxRead, CancelTxWrite, Issue, LoseRequest, Park, ReadFirstPark, RecordSagaFailure,
       Restart, Reserve, Release, CreateDespatch, HoldCredit, ReleaseCredit, IssueInvoice,
       RegisterPayment, answer
  <2>. QED  BY <1>0, <2>1 DEF OnlyOwedWork
<1>4. ASSUME rows["invoice.issue"] = "absent", rows'["invoice.issue"] # "absent"
      PROVE  reservation = "consumed"
  <2>1. HandleFact
    BY <1>0, <1>4, OtherRows
  <2>2. PICK x \in factTx :
          ReleaseLateApproval(x) \/ IgnoreFact(x) \/ AdvanceOrder(x) \/ CancelOrder(x)
    BY <2>1 DEF HandleFact
  <2>3. x.fact.type = "order.despatched"
    BY <1>0, <1>4, <2>2, HandleRows, OwedBy
  <2>. QED  BY <2>3, OpenFactMeans
<1>5. rows'["invoice.issue"] # "absent" => reservation' = "consumed"
  BY <1>4 DEF OnlyOwedWork, NothingUndone
<1>. QED  BY <1>0, <1>1, <1>2, <1>3, <1>5 DEF OnlyOwedWork, NothingUndone

LEMMA ExclusionStep ==
  ASSUME BackingInv, [Next]_vars, LogsGrow, NothingUndone
  PROVE  ReleaseExcludesDespatch'
<1>. TypeOK /\ OnlyOwedWork /\ ReleaseExcludesDespatch
  BY DEF BackingInv
<1>0. {"despatch.create", "credit.release"} \subseteq SagaCommandKind /\ "billing" \in Topic
  BY DEF SagaCommandKind, Topic
<1>1. approvalHandled => approvalHandled'
  BY <1>0 DEF approvalHandled, isApproval, LogsGrow, NothingUndone
<1>2. CASE /\ rows["despatch.create"] = "absent" => rows'["despatch.create"] = "absent"
           /\ rows["credit.release"] = "absent" => rows'["credit.release"] = "absent"
  BY <1>0, <1>1, <1>2 DEF ReleaseExcludesDespatch, NothingUndone
<1>3. ASSUME NEW d \in {"despatch.create", "credit.release"},
             rows[d] = "absent", rows'[d] # "absent"
      PROVE  ReleaseExcludesDespatch'
  <2>1. HandleFact
    BY <1>0, <1>3, OtherRows
  <2>2. PICK x \in factTx :
          ReleaseLateApproval(x) \/ IgnoreFact(x) \/ AdvanceOrder(x) \/ CancelOrder(x)
    BY <2>1 DEF HandleFact
  <2>3. commitFact(x)
    BY <2>2 DEF ReleaseLateApproval, IgnoreFact, AdvanceOrder, CancelOrder
  <2>4. UNCHANGED reservation
    BY <2>3 DEF commitFact
  <2>5. CASE x.fact.type = "stock.released"
    <3>1. reservation' = "released"
      BY <2>4, <2>5, OpenFactMeans
    <3>2. rows["despatch.create"] = "absent" => rows'["despatch.create"] = "absent"
      BY <1>0, <2>2, <2>5, HandleRows, OwedBy DEF lateApproval
    <3>. QED  BY <1>1, <3>1, <3>2 DEF ReleaseExcludesDespatch
  <2>6. CASE x.fact.type = "credit.approved"
    <3>1. ~approvalHandled /\ approvalHandled'
      <4>1. /\ x.topic = "billing" /\ isApproval(offset["billing"] + 1)
            /\ offset["billing"] + 1 \in DOMAIN topics["billing"]
            /\ ~approvalHandled
        BY <2>6, OpenFactMeans
      <4>2. <<"billing", offset["billing"] + 1>> \in processed'
        BY <2>3, <4>1 DEF commitFact, position
      <4>. QED  BY <1>0, <4>1, <4>2 DEF approvalHandled, isApproval, LogsGrow
    <3>2. /\ rows["despatch.create"] = "absent"
          /\ rows["credit.release"] # "absent" => reservation = "released"
      BY <3>1 DEF ReleaseExcludesDespatch
    <3>3. lateApproval(x) => rows'["despatch.create"] = "absent"
      BY <1>0, <2>2, <3>2, HandleRows
    <3>4. ~lateApproval(x) /\ rows["credit.release"] = "absent" => rows'["credit.release"] = "absent"
      BY <1>0, <2>2, <2>6, HandleRows, OwedBy
    <3>. QED  BY <2>4, <3>1, <3>2, <3>3, <3>4 DEF ReleaseExcludesDespatch
  <2>7. x.fact.type \in {"stock.released", "credit.approved"}
    BY <1>0, <1>3, <2>2, HandleRows, OwedBy DEF lateApproval
  <2>. QED  BY <2>5, <2>6, <2>7
<1>. QED  BY <1>2, <1>3

LEMMA InvoiceStep ==
  ASSUME BackingInv, [Next]_vars, NothingUndone
  PROVE  InvoiceOnlyDespatched'
<1>. TypeOK /\ OnlyOwedWork /\ InvoiceOnlyDespatched
  BY DEF BackingInv
<1>1. ASSUME invoice = "none", invoice' # "none" PROVE reservation = "consumed"
  <2>1. requests["invoice.issue"] > 0
    BY <1>1 DEF Next, vars, SkipFact, ReadFact, HandleFact, ReleaseLateApproval, IgnoreFact,
       AdvanceOrder, CancelOrder, commitFact, DeadLetterFact, CancelRead, CancelCompensate,
       CancelTxRead, CancelTxWrite, Issue, LoseRequest, Park, ReadFirstPark, RecordSagaFailure,
       Restart, Reserve, Release, CreateDespatch, HoldCredit, ReleaseCredit, IssueInvoice,
       RegisterPayment, answer
  <2>. QED  BY <2>1 DEF OnlyOwedWork, SagaCommandKind
<1>. QED  BY <1>1 DEF InvoiceOnlyDespatched, NothingUndone

LEMMA BackingInit == Init => BackingInv
<1>. SUFFICES ASSUME Init PROVE BackingInv
  OBVIOUS
<1>1. TypeOK
  BY TypeInit
<1>2. /\ topics["fulfillment"] = <<>>
      /\ topics["billing"] = <<>>
      /\ topics["orders"] = <<fact("order.placed")>>
  BY DEF Init, Topic
<1>3. FactsOnTheirTopic
  <2>1. \A i \in DOMAIN topics["orders"] : topics["orders"][i].type = "order.placed"
    BY <1>2 DEF fact
  <2>. QED  BY <1>2, <2>1 DEF FactsOnTheirTopic, FactsOf, Topic
<1>4. OneApproval /\ FactsAreFinal
  BY <1>2 DEF OneApproval, FactsAreFinal
<1>5. OpenFactIsNext
  BY DEF Init, OpenFactIsNext
<1>6. OnlyOwedWork /\ ReleaseExcludesDespatch /\ InvoiceOnlyDespatched
  BY DEF Init, OnlyOwedWork, ReleaseExcludesDespatch, InvoiceOnlyDespatched, SagaCommandKind
<1>. QED  BY <1>1, <1>3, <1>4, <1>5, <1>6 DEF BackingInv

LEMMA BackingStep == BackingInv /\ [Next]_vars => BackingInv'
<1>. SUFFICES ASSUME BackingInv, [Next]_vars PROVE BackingInv'
  OBVIOUS
<1>1. TypeOK /\ TypeOK'
  BY TypeStep DEF BackingInv
<1>2. LogsGrow /\ NewFactsJustified
  BY <1>1, LogStep
<1>3. NothingUndone
  BY <1>1, WorldStep DEF BackingInv
<1>4. FactsOnTheirTopic' /\ OneApproval' /\ FactsAreFinal' /\ OpenFactIsNext'
  BY <1>1, <1>2, <1>3, TopicStep, ApprovalStep, FinalStep, OpenFactStep DEF BackingInv
<1>5. OnlyOwedWork' /\ ReleaseExcludesDespatch' /\ InvoiceOnlyDespatched'
  BY <1>2, <1>3, OwedStep, ExclusionStep, InvoiceStep
<1>. QED  BY <1>1, <1>4, <1>5 DEF BackingInv

(* If the goods are gone, the despatch was owed, so the approval was       *)
(* handled and a hold exists; had it been given back, the credit release   *)
(* would be owed while the reservation is not released, and the despatch   *)
(* would not.                                                              *)
LEMMA BackingImplies == BackingInv => NeverShipUnbacked
<1>. SUFFICES ASSUME BackingInv, reservation = "consumed"
              PROVE  hold \in {"held", "open", "released_paid"}
  BY DEF NeverShipUnbacked
<1>1. rows["despatch.create"] # "absent"
  BY DEF BackingInv, OnlyOwedWork
<1>2. hold # "none"
  BY <1>1 DEF BackingInv, ReleaseExcludesDespatch, approvalHandled, OneApproval
<1>3. hold # "released_cancel"
  BY <1>1 DEF BackingInv, OnlyOwedWork, ReleaseExcludesDespatch
<1>. QED  BY <1>2, <1>3 DEF BackingInv, TypeOK, HoldStatus

(* BackingInv holds throughout.                                            *)
THEOREM BackingInvariant == Spec => []BackingInv
BY BackingInit, BackingStep, PTL DEF Spec

(* Goods never leave without credit behind them: no interleaving of        *)
(* operator cancellations, retries, lost updates, redelivered or           *)
(* dead-lettered facts and restarts ships an order whose hold is missing   *)
(* or was given back to cancel it.                                         *)
THEOREM ShippedIsBacked == Spec => []NeverShipUnbacked
BY BackingInvariant, BackingImplies, PTL

(* Billing never invoices goods that have not left.                        *)
THEOREM InvoicedIsDespatched == Spec => []InvoiceOnlyDespatched
<1>1. BackingInv => InvoiceOnlyDespatched
  BY DEF BackingInv
<1>. QED  BY <1>1, BackingInvariant, PTL

-----------------------------------------------------------------------------
(* A completed order is settled.                                           *)

LEMMA MoneyIsFinal ==
  ASSUME [Next]_vars
  PROVE  /\ invoice = "paid" => invoice' = "paid"
         /\ hold = "released_paid" => hold' = "released_paid"
BY DEF Next, vars, SkipFact, ReadFact, HandleFact, ReleaseLateApproval, IgnoreFact, AdvanceOrder,
       CancelOrder, commitFact, DeadLetterFact, CancelRead, CancelCompensate, CancelTxRead,
       CancelTxWrite, Issue, LoseRequest, Park, ReadFirstPark, RecordSagaFailure, Restart, Reserve,
       Release, CreateDespatch, HoldCredit, ReleaseCredit, IssueInvoice, RegisterPayment

(* Which steps of the table reach `paid' and `completed'.                  *)
LEMMA SettlingSteps ==
  ASSUME NEW s \in SAGA_STEPS
  PROVE  /\ s.to = "paid" => s.fact = "payment.received"
         /\ s.to = "completed" => s.fact = "credit.released" /\ s.precondition = "paid"
BY DEF SAGA_STEPS, Advance, Cancel

(* A paid order's credit was not given back to cancel it, so the release   *)
(* that completes it is the one its payment made.                          *)
LEMMA AdvanceSettled ==
  ASSUME BackingInv, SettledInv, NEW x \in factTx, AdvanceOrder(x)
  PROVE  rowSettled(order)'
<1>1. PICK s \in stepForStatus(x.fact.type, x.row.status) :
        order' = [status |-> s.to, reason |-> x.row.reason]
  BY DEF AdvanceOrder
<1>2. s \in SAGA_STEPS /\ s.fact = x.fact.type /\ s.precondition = x.row.status
  BY DEF stepForStatus
<1>3. UNCHANGED <<hold, invoice>>
  BY DEF AdvanceOrder, commitFact
<1>4. /\ x.topic \in Topic
      /\ offset[x.topic] + 1 \in DOMAIN topics[x.topic]
      /\ x.fact = topics[x.topic][offset[x.topic] + 1]
  BY DEF BackingInv, TypeOK, FactTx, OpenFactIsNext, nextFact
<1>5. x.fact.type \in {"payment.received", "credit.released"} => x.topic = "billing"
  BY <1>4 DEF BackingInv, FactsOnTheirTopic, FactsOf, Topic, SkippedFacts
<1>6. CASE s.to = "paid"
  <2>1. invoice = "paid"
    BY <1>2, <1>4, <1>5, <1>6, SettlingSteps DEF SettledInv, MoneyFactsAreTrue
  <2>. QED  BY <1>1, <1>3, <1>6, <2>1 DEF rowSettled
<1>7. CASE s.to = "completed"
  <2>1. x.fact.type = "credit.released" /\ x.row.status = "paid"
    BY <1>2, <1>7, SettlingSteps
  <2>2. invoice = "paid"
    BY <2>1 DEF SettledInv, rowSettled
  <2>3. hold \in {"held", "open", "released_paid"}
    BY <2>2, BackingImplies DEF BackingInv, InvoiceOnlyDespatched, NeverShipUnbacked
  <2>4. ~isCancelRelease(x.fact)
    BY <1>4, <1>5, <2>1, <2>3 DEF BackingInv, FactsAreFinal
  <2>5. hold = "released_paid"
    BY <1>4, <1>5, <2>1, <2>4 DEF SettledInv, MoneyFactsAreTrue
  <2>. QED  BY <1>1, <1>3, <2>2, <2>5 DEF rowSettled
<1>8. CASE s.to \notin {"paid", "completed"}
  BY <1>1, <1>8 DEF rowSettled
<1>. QED  BY <1>6, <1>7, <1>8

LEMMA SettledStep ==
  ASSUME BackingInv, SettledInv, [Next]_vars
  PROVE  SettledInv'
<1>. TypeOK
  BY DEF BackingInv
<1>0. LogsGrow /\ NewFactsJustified
  BY LogStep
<1>1. \A row : rowSettled(row) => rowSettled(row)'
  BY MoneyIsFinal DEF rowSettled
<1>2. MoneyFactsAreTrue'
  <2>1. ASSUME NEW i \in DOMAIN topics'["billing"]
        PROVE  /\ topics'["billing"][i].type = "payment.received" => invoice' = "paid"
               /\ topics'["billing"][i].type = "credit.released" =>
                    isCancelRelease(topics'["billing"][i]) \/ hold' = "released_paid"
    <3>1. CASE i \in DOMAIN topics["billing"]
      BY <1>0, <3>1, MoneyIsFinal DEF LogsGrow, SettledInv, MoneyFactsAreTrue, Topic
    <3>2. CASE i \notin DOMAIN topics["billing"]
      BY <1>0, <3>2 DEF NewFactsJustified, justified, Topic
    <3>. QED  BY <3>1, <3>2
  <2>. QED  BY <2>1 DEF MoneyFactsAreTrue, isCancelRelease
<1>3. ASSUME UNCHANGED <<order, factTx, parkTx>> PROVE SettledInv'
  BY <1>1, <1>2, <1>3 DEF SettledInv
<1>4. CASE HandleFact
  <2>1. PICK x \in factTx :
          ReleaseLateApproval(x) \/ IgnoreFact(x) \/ AdvanceOrder(x) \/ CancelOrder(x)
    BY <1>4 DEF HandleFact
  <2>2. factTx' = {} /\ parkTx' = parkTx
    BY <2>1 DEF ReleaseLateApproval, IgnoreFact, AdvanceOrder, CancelOrder, commitFact, parks
  <2>3. rowSettled(order)'
    <3>1. CASE ReleaseLateApproval(x) \/ IgnoreFact(x)
      BY <1>1, <3>1 DEF ReleaseLateApproval, IgnoreFact, SettledInv
    <3>2. CASE CancelOrder(x)
      BY <3>2 DEF CancelOrder, rowSettled
    <3>. QED  BY <2>1, <3>1, <3>2, AdvanceSettled
  <2>. QED  BY <1>1, <1>2, <2>2, <2>3 DEF SettledInv
<1>5. ASSUME NEW t \in Topic, ReadFact(t) PROVE SettledInv'
  <2>1. /\ order' = order /\ parkTx' = parkTx
        /\ \A x \in factTx' : x.row = order
    BY <1>5 DEF ReadFact, ordersDb, parks
  <2>. QED  BY <1>1, <1>2, <2>1 DEF SettledInv
<1>6. ASSUME NEW k \in Cancellers, CancelTxWrite(k) PROVE SettledInv'
  <2>1. factTx' = factTx /\ parkTx' = parkTx /\ order'.status = "cancelled"
    BY <1>6 DEF CancelTxWrite, consumer, parks
  <2>2. rowSettled(order)'
    BY <2>1 DEF rowSettled
  <2>. QED  BY <1>1, <1>2, <2>1, <2>2 DEF SettledInv
<1>7. ASSUME NEW c \in SagaCommandKind, ReadFirstPark(c) PROVE SettledInv'
  <2>1. /\ order' = order /\ factTx' = factTx
        /\ \A p \in parkTx' : p \in parkTx \/ p.row = order
    BY <1>7 DEF ReadFirstPark, ordersDb, consumer
  <2>. QED  BY <1>1, <1>2, <2>1 DEF SettledInv
<1>8. ASSUME NEW p \in parkTx, RecordSagaFailure(p) PROVE SettledInv'
  <2>1. order' = p.row /\ factTx' = factTx /\ parkTx' \subseteq parkTx
    BY <1>8 DEF RecordSagaFailure, consumer
  <2>. QED  BY <1>1, <1>2, <2>1 DEF SettledInv
<1>9. CASE DeadLetterFact \/ Restart
  <2>1. order' = order /\ factTx' = {} /\ parkTx' \subseteq parkTx
    BY <1>9 DEF DeadLetterFact, Restart, ordersDb, parks
  <2>. QED  BY <1>1, <1>2, <2>1 DEF SettledInv
<1>. QED
  BY <1>3, <1>4, <1>5, <1>6, <1>7, <1>8, <1>9
     DEF Next, vars, SkipFact, CancelRead, CancelCompensate, CancelTxRead, Issue, LoseRequest, Park,
         Reserve, Release, CreateDespatch, HoldCredit, ReleaseCredit, IssueInvoice, RegisterPayment,
         answer, ordersDb, consumer, parks

(* A completed order was shipped, invoiced, paid, and its credit came back *)
(* through that payment: no lost update, redelivery or cancellation race   *)
(* closes an order early (saga-steps.ts, the credit.released step).        *)
THEOREM CompletedMeansSettled == Spec => []CompletedIsSettled
<1>1. Init => SettledInv
  BY DEF Init, SettledInv, MoneyFactsAreTrue, rowSettled, Topic
<1>2. BackingInv /\ SettledInv /\ [Next]_vars => SettledInv'
  BY SettledStep
<1>3. BackingInv /\ SettledInv => CompletedIsSettled
  BY DEF BackingInv, InvoiceOnlyDespatched, SettledInv, rowSettled, CompletedIsSettled
<1>. QED  BY <1>1, <1>2, <1>3, BackingInvariant, PTL DEF Spec

-----------------------------------------------------------------------------
(* An exhausted command is reported at most once.                          *)

LEMMA CommandsFinite == IsFiniteSet(SagaCommandKind)
<1>1. IsFiniteSet({"stock.reserve"})
  BY FS_Singleton
<1>2. IsFiniteSet({"stock.reserve"} \union {"stock.release"} \union {"credit.hold"})
  BY <1>1, FS_AddElement
<1>3. IsFiniteSet({"stock.reserve"} \union {"stock.release"} \union {"credit.hold"}
                    \union {"credit.release"} \union {"despatch.create"} \union {"invoice.issue"})
  BY <1>2, FS_AddElement
<1>4. SagaCommandKind = {"stock.reserve"} \union {"stock.release"} \union {"credit.hold"}
                    \union {"credit.release"} \union {"despatch.create"} \union {"invoice.issue"}
  BY DEF SagaCommandKind
<1>. QED  BY <1>3, <1>4

(* The sets counted are finite, so their sizes are numbers.                *)
LEMMA ReportsFinite ==
  ASSUME TypeOK
  PROVE  /\ IsFiniteSet(failureReports) /\ Cardinality(failureReports) \in Nat
         /\ IsFiniteSet(firstParks) /\ Cardinality(firstParks) \in Nat
         /\ IsFiniteSet(deadLettered) /\ Cardinality(deadLettered) \in Nat
<1>1. topics["orders"] \in Seq(Fact)
  BY DEF TypeOK, Topic
<1>2. IsFiniteSet(DOMAIN topics["orders"])
  <2>1. DOMAIN topics["orders"] = 1 .. Len(topics["orders"]) /\ Len(topics["orders"]) \in Nat
    BY <1>1
  <2>. QED  BY <2>1, FS_Interval
<1>3. IsFiniteSet(failureReports)
  BY <1>2, FS_Subset DEF failureReports
<1>4. IsFiniteSet(firstParks) /\ IsFiniteSet(deadLettered)
  BY CommandsFinite, FS_Subset DEF TypeOK
<1>. QED  BY <1>3, <1>4, FS_CardinalityType

(* A fact that is not a failure report adds none.                          *)
LEMMA OtherFactsReportNothing ==
  ASSUME TypeOK, NEW t \in Topic, NEW f \in Fact, emit(t, f),
         f.type # "order.saga_failed" \/ t # "orders"
  PROVE  failureReports' = failureReports
<1>. topics \in [Topic -> Seq(Fact)] /\ "orders" \in Topic
  BY DEF TypeOK, Topic
<1>1. /\ topics' \in [Topic -> Seq(Fact)]
      /\ Len(topics'[t]) = Len(topics[t]) + 1
      /\ topics'[t][Len(topics[t]) + 1] = f
      /\ \A u \in Topic : u # t => topics'[u] = topics[u]
      /\ \A i \in 1 .. Len(topics[t]) : topics'[t][i] = topics[t][i]
  BY EmitEffect
<1>2. CASE t # "orders"
  BY <1>1, <1>2 DEF failureReports
<1>3. CASE t = "orders" /\ f.type # "order.saga_failed"
  <2>1. /\ DOMAIN topics["orders"] = 1 .. Len(topics["orders"])
        /\ DOMAIN topics'["orders"] = 1 .. (Len(topics["orders"]) + 1)
        /\ Len(topics["orders"]) \in Nat
    BY <1>1, <1>3
  <2>. QED  BY <1>1, <1>3, <2>1 DEF failureReports
<1>. QED  BY <1>2, <1>3

LEMMA ReportAdds ==
  ASSUME TypeOK, emit("orders", fact("order.saga_failed"))
  PROVE  Cardinality(failureReports') = Cardinality(failureReports) + 1
<1>. topics \in [Topic -> Seq(Fact)] /\ "orders" \in Topic
  BY DEF TypeOK, Topic
<1>. DEFINE n == Len(topics["orders"])
<1>1. /\ topics' \in [Topic -> Seq(Fact)]
      /\ Len(topics'["orders"]) = n + 1
      /\ topics'["orders"][n + 1] = fact("order.saga_failed")
      /\ \A i \in 1 .. n : topics'["orders"][i] = topics["orders"][i]
  BY FactTypes, FactIsFact, EmitEffect
<1>2. /\ DOMAIN topics["orders"] = 1 .. n
      /\ DOMAIN topics'["orders"] = 1 .. (n + 1)
      /\ n \in Nat
  BY <1>1
<1>3. fact("order.saga_failed").type = "order.saga_failed"
  BY DEF fact
<1>4. failureReports' = failureReports \union {n + 1} /\ n + 1 \notin failureReports
  <2>. HIDE DEF n
  <2>. QED  BY <1>1, <1>2, <1>3 DEF failureReports
<1>. QED  BY <1>4, ReportsFinite, FS_AddElement

(* A status transition reports no failure.                                 *)
LEMMA TransitionReportsNothing ==
  ASSUME TypeOK, NEW status, emitTransition(status)
  PROVE  failureReports' = failureReports
<1>1. CASE status \notin DOMAIN TransitionFact
  BY <1>1 DEF emitTransition, failureReports
<1>2. CASE status \in DOMAIN TransitionFact
  <2>1. TransitionFact[status] \in FactType /\ TransitionFact[status] # "order.saga_failed"
    BY <1>2, FactTypes DEF TransitionFact
  <2>2. /\ fact(TransitionFact[status]) \in Fact
        /\ fact(TransitionFact[status]).type # "order.saga_failed"
    BY <2>1, FactIsFact DEF fact
  <2>3. emit("orders", fact(TransitionFact[status]))
    BY <1>2 DEF emitTransition
  <2>. QED  BY <2>2, <2>3, OtherFactsReportNothing DEF Topic
<1>. QED  BY <1>1, <1>2

(* Only the first-park hook writes order.saga_failed.                      *)
LEMMA OnlyHookReports ==
  ASSUME TypeOK, [Next]_vars, \A p \in parkTx : ~RecordSagaFailure(p)
  PROVE  failureReports' = failureReports
<1>. topics \in [Topic -> Seq(Fact)]
  BY DEF TypeOK
<1>1. CASE UNCHANGED topics
  BY <1>1 DEF failureReports
<1>2. CASE HandleFact
  BY <1>1, <1>2, TransitionReportsNothing
     DEF HandleFact, ReleaseLateApproval, IgnoreFact, AdvanceOrder, CancelOrder
<1>3. ASSUME NEW k \in Cancellers, CancelTxWrite(k) PROVE failureReports' = failureReports
  BY <1>3, TransitionReportsNothing DEF CancelTxWrite
<1>4. CASE Reserve \/ Release \/ CreateDespatch \/ HoldCredit \/ ReleaseCredit \/ IssueInvoice
  <2>1. /\ fact("stock.reserved") \in Fact
        /\ fact("stock.rejected") \in Fact
        /\ fact("order.despatched") \in Fact
        /\ releaseFact("stock.released", releaseReason) \in Fact
        /\ fact("credit.approved") \in Fact
        /\ fact("credit.rejected") \in Fact
        /\ fact("invoice.issued") \in Fact
        /\ releaseFact("credit.released", "order_cancelled") \in Fact
    BY FactTypes, FactIsFact, ReleaseFactIsFact DEF TypeOK, ReleaseReason
  <2>2. \/ UNCHANGED topics
        \/ \E t \in {"fulfillment", "billing"}, f \in Fact : emit(t, f)
    BY <1>4, <2>1 DEF Reserve, Release, CreateDespatch, HoldCredit, ReleaseCredit, IssueInvoice
  <2>. QED  BY <1>1, <2>2, OtherFactsReportNothing DEF Topic
<1>5. CASE RegisterPayment
  BY <1>5, PaymentEffect DEF failureReports, Topic
<1>. QED
  BY <1>1, <1>2, <1>3, <1>4, <1>5
     DEF Next, vars, SkipFact, ReadFact, DeadLetterFact, CancelRead, CancelCompensate,
         CancelTxRead, Issue, LoseRequest, Park, ReadFirstPark, Restart

LEMMA ReportInit == Init => ReportInv
<1>. SUFFICES ASSUME Init PROVE ReportInv
  OBVIOUS
<1>1. failureReports = {}
  <2>1. topics["orders"] = <<fact("order.placed")>>
    BY DEF Init, Topic
  <2>. QED  BY <2>1 DEF failureReports, fact
<1>. QED  BY <1>1, FS_EmptySet DEF Init, ReportInv, FailureReportedOnce

(* Parking claims the report once: the hook starts only when the row had   *)
(* no dead_lettered_at, and what it started it can only finish or drop.    *)
LEMMA ReportStep ==
  ASSUME TypeOK, ReportInv, [Next]_vars
  PROVE  ReportInv'
<1>. DEFINE owing == {p.command : p \in parkTx}
<1>0. /\ IsFiniteSet(parkTx) /\ Cardinality(parkTx) \in Nat
      /\ firstParks \union owing \subseteq deadLettered
      /\ firstParks \intersect owing = {}
      /\ Cardinality(failureReports) + Cardinality(firstParks) + Cardinality(parkTx)
           <= Cardinality(deadLettered)
  BY FS_CardinalityType DEF ReportInv, FailureReportedOnce
<1>1. ASSUME NEW c \in SagaCommandKind, Park(c) PROVE ReportInv'
  <2>1. failureReports' = failureReports /\ parkTx' = parkTx
    BY <1>1 DEF Park, failureReports
  <2>2. CASE c \in deadLettered
    <3>1. firstParks' = firstParks /\ deadLettered' = deadLettered
      BY <1>1, <2>2 DEF Park
    <3>. QED  BY <2>1, <3>1 DEF ReportInv, FailureReportedOnce
  <2>3. CASE c \notin deadLettered
    <3>1. firstParks' = firstParks \union {c} /\ deadLettered' = deadLettered \union {c}
      BY <1>1, <2>3 DEF Park
    <3>2. c \notin firstParks /\ c \notin owing
      BY <1>0, <2>3
    <3>3. /\ Cardinality(firstParks') = Cardinality(firstParks) + 1
          /\ Cardinality(deadLettered') = Cardinality(deadLettered) + 1
      BY <2>3, <3>1, <3>2, ReportsFinite, FS_AddElement
    <3>. QED  BY <1>0, <2>1, <3>1, <3>2, <3>3, ReportsFinite DEF ReportInv, FailureReportedOnce
  <2>. QED  BY <2>2, <2>3
<1>2. ASSUME NEW c \in SagaCommandKind, ReadFirstPark(c) PROVE ReportInv'
  <2>1. /\ failureReports' = failureReports /\ deadLettered' = deadLettered
        /\ c \in firstParks /\ firstParks' = firstParks \ {c}
    BY <1>2 DEF ReadFirstPark, failureReports, ordersDb
  <2>2. Cardinality(firstParks') = Cardinality(firstParks) - 1
    BY <2>1, ReportsFinite, FS_RemoveElement
  <2>3. CASE parkTx' = parkTx
    BY <1>0, <2>1, <2>2, <2>3, ReportsFinite DEF ReportInv, FailureReportedOnce
  <2>4. CASE parkTx' = parkTx \union {[command |-> c, row |-> order]}
    <3>. DEFINE q == [command |-> c, row |-> order]
    <3>1. c \notin owing /\ q \notin parkTx
      BY <1>0, <2>1
    <3>2. IsFiniteSet(parkTx') /\ Cardinality(parkTx') = Cardinality(parkTx) + 1
      BY <1>0, <2>4, <3>1, FS_AddElement
    <3>3. {p.command : p \in parkTx'} = owing \union {c}
      <4>1. q.command = c /\ parkTx' = parkTx \union {q}
        BY <2>4
      <4>. HIDE DEF q
      <4>. QED  BY <4>1
    <3>4. \A p, r \in parkTx' : p.command = r.command => p = r
      BY <2>4, <3>1 DEF ReportInv
    <3>. HIDE DEF q, owing
    <3>5. /\ firstParks' \union {p.command : p \in parkTx'} \subseteq deadLettered'
          /\ firstParks' \intersect {p.command : p \in parkTx'} = {}
      BY <1>0, <2>1, <3>3
    <3>. QED  BY <1>0, <2>1, <2>2, <3>2, <3>4, <3>5, ReportsFinite DEF ReportInv, FailureReportedOnce
  <2>. QED  BY <1>2, <2>3, <2>4 DEF ReadFirstPark
<1>3. ASSUME NEW p \in parkTx, RecordSagaFailure(p) PROVE ReportInv'
  <2>1. /\ firstParks' = firstParks /\ deadLettered' = deadLettered /\ parkTx' = parkTx \ {p}
        /\ Cardinality(failureReports') = Cardinality(failureReports) + 1
    BY <1>3, ReportAdds DEF RecordSagaFailure
  <2>2. IsFiniteSet(parkTx') /\ Cardinality(parkTx') = Cardinality(parkTx) - 1
    BY <1>0, <2>1, FS_RemoveElement
  <2>3. {q.command : q \in parkTx'} \subseteq owing
    BY <2>1
  <2>. HIDE DEF owing
  <2>4. \A q, r \in parkTx' : q.command = r.command => q = r
    BY <2>1 DEF ReportInv
  <2>5. /\ firstParks' \union {q.command : q \in parkTx'} \subseteq deadLettered'
        /\ firstParks' \intersect {q.command : q \in parkTx'} = {}
    BY <1>0, <2>1, <2>3
  <2>. QED  BY <1>0, <2>1, <2>2, <2>4, <2>5, ReportsFinite DEF ReportInv, FailureReportedOnce
<1>4. CASE Restart
  <2>1. /\ failureReports' = failureReports /\ deadLettered' = deadLettered
        /\ firstParks' = {} /\ parkTx' = {}
    BY <1>4 DEF Restart, failureReports, ordersDb
  <2>2. {p.command : p \in parkTx'} = {}
    BY <2>1
  <2>. QED  BY <1>0, <2>1, <2>2, ReportsFinite, FS_EmptySet DEF ReportInv, FailureReportedOnce
<1>5. CASE UNCHANGED <<deadLettered, firstParks, parkTx>> /\ \A p \in parkTx : ~RecordSagaFailure(p)
  BY <1>5, OnlyHookReports DEF ReportInv, FailureReportedOnce
<1>. QED
  BY <1>1, <1>2, <1>3, <1>4, <1>5
     DEF Next, vars, SkipFact, ReadFact, HandleFact, ReleaseLateApproval, IgnoreFact, AdvanceOrder,
         CancelOrder, commitFact, DeadLetterFact, CancelRead, CancelCompensate, CancelTxRead,
         CancelTxWrite, Issue, LoseRequest, Reserve, Release, CreateDespatch, HoldCredit,
         ReleaseCredit, IssueInvoice, RegisterPayment, answer, ordersDb, parks

(* OR3: an exhausted command is reported at most once, whichever           *)
(* dispatcher parks it, however often, and whenever the process dies       *)
(* (saga-command-dispatcher.ts, the first-park hook).                      *)
THEOREM FailureIsReportedOnce == Spec => []FailureReportedOnce
<1>1. TypeOK /\ ReportInv /\ [Next]_vars => ReportInv'
  BY ReportStep
<1>2. ReportInv => FailureReportedOnce
  BY DEF ReportInv
<1>. QED  BY <1>1, <1>2, ReportInit, TypeCorrect, PTL DEF Spec

-----------------------------------------------------------------------------
(* The saga in which at most one operator cancels and no command exhausts  *)
(* its attempts: unless the operator's request writes the order, the fact  *)
(* consumer alone does.                                                    *)

LEMMA NeverParks ==
  ASSUME MaxDeadLetters = 0, TypeOK, NEW c \in SagaCommandKind
  PROVE  ~Park(c)
<1>1. IsFiniteSet(deadLettered \union {c})
  BY CommandsFinite, FS_Subset DEF TypeOK
<1>2. Cardinality(deadLettered \union {c}) # 0 /\ Cardinality(deadLettered \union {c}) \in Nat
  BY <1>1, FS_EmptySet, FS_CardinalityType
<1>. QED  BY <1>2 DEF Park

(* Every step of the table is a move of the aggregate, or none.            *)
LEMMA StepsFollowLifecycle ==
  ASSUME NEW s \in SAGA_STEPS, s.kind = "advance"
  PROVE  /\ s.to = "credit_approved" => s.precondition = "credit_approved"
         /\ \/ s.to = s.precondition
            \/ findTransition(s.precondition, s.to) /\ s.to # "cancelled"
            \/ s.precondition = "stock_reserved" /\ s.to = "confirmed"
         /\ s.to = "confirmed" => s.commandAfter = "despatch.create" \/ s.precondition = "confirmed"
BY DEF SAGA_STEPS, Advance, Cancel, findTransition, ORDER_TRANSITIONS, NoCommand

(* Who writes the reason into the stock.release row.                       *)
LEMMA EnqueueReason ==
  ASSUME NEW c, NEW reason, enqueue(c, reason)
  PROVE  \/ releaseReason' = releaseReason
         \/ c = "stock.release" /\ rows[c] = "absent" /\ releaseReason' = reason
BY DEF enqueue

LEMMA ReasonStep ==
  ASSUME [Next]_vars, releaseReason' # releaseReason
  PROVE  /\ rows["stock.release"] = "absent"
         /\ \/ releaseReason' = "credit_rejected" /\ HandleFact
            \/ releaseReason' = "order_cancelled" /\ \E k \in Cancellers : CancelCompensate(k)
<1>1. CASE HandleFact
  <2>1. PICK x \in factTx :
          ReleaseLateApproval(x) \/ IgnoreFact(x) \/ AdvanceOrder(x) \/ CancelOrder(x)
    BY <1>1 DEF HandleFact
  <2>2. CASE ReleaseLateApproval(x)
    BY <2>2, EnqueueReason DEF ReleaseLateApproval
  <2>3. CASE AdvanceOrder(x)
    BY <1>1, <2>3, EnqueueReason DEF AdvanceOrder
  <2>. QED  BY <2>1, <2>2, <2>3 DEF IgnoreFact, CancelOrder
<1>2. ASSUME NEW k \in Cancellers, CancelCompensate(k)
      PROVE  rows["stock.release"] = "absent" /\ releaseReason' = "order_cancelled"
  BY <1>2, EnqueueReason DEF CancelCompensate
<1>. QED
  BY <1>1, <1>2 DEF Next, vars, SkipFact, ReadFact, DeadLetterFact, CancelRead, CancelTxRead,
     CancelTxWrite, Issue, LoseRequest, Park, ReadFirstPark, RecordSagaFailure, Restart, Reserve,
     Release, CreateDespatch, HoldCredit, ReleaseCredit, IssueInvoice, RegisterPayment, answer, ordersDb

(* Where an operator's request may go next.                                *)
LEMMA CancelStep ==
  ASSUME TypeOK, [Next]_vars, NEW k \in Cancellers
  PROVE  /\ cancels[k] = "done" => cancels'[k] = "done"
         /\ cancels'[k] = "idle" => cancels[k] = "idle"
         /\ cancels'[k] = "compensate" /\ cancels[k] # "compensate" =>
              cancels[k] = "idle" /\ CancelRead(k) /\ order.status \in CompensatingStatus
<1>1. ASSUME NEW l \in Cancellers, NEW from, NEW to, goCancel(l, from, to)
      PROVE  cancels[l] = from /\ cancels'[k] = IF k = l THEN to ELSE cancels[k]
  BY <1>1 DEF goCancel, TypeOK
<1>2. ASSUME NEW l \in Cancellers, CancelRead(l)
      PROVE  /\ cancels[l] = "idle"
             /\ k # l => cancels'[k] = cancels[k]
             /\ cancels'[l] \in {"compensate", "direct"}
             /\ cancels'[l] = "compensate" => order.status \in CompensatingStatus
  BY <1>1, <1>2 DEF CancelRead, goCancel, TypeOK
<1>3. ASSUME NEW l \in Cancellers, CancelCompensate(l) \/ CancelTxRead(l) \/ CancelTxWrite(l)
      PROVE  /\ cancels[l] # "done"
             /\ k # l => cancels'[k] = cancels[k]
             /\ cancels'[l] \in {"write", "done"}
  BY <1>3 DEF CancelCompensate, CancelTxRead, CancelTxWrite, goCancel, TypeOK
<1>4. CASE Restart
  BY <1>4 DEF Restart
<1>5. CASE UNCHANGED cancels
  BY <1>5
<1>. QED
  BY <1>2, <1>3, <1>4, <1>5
     DEF Next, vars, SkipFact, ReadFact, HandleFact, ReleaseLateApproval, IgnoreFact, AdvanceOrder,
         CancelOrder, commitFact, DeadLetterFact, Issue, LoseRequest, Park, ReadFirstPark,
         RecordSagaFailure, Reserve, Release, CreateDespatch, HoldCredit, ReleaseCredit,
         IssueInvoice, RegisterPayment, answer

(* The consumer does not get the order back once an operator writes it.    *)
LEMMA ConsumerWroteBefore ==
  ASSUME AtMostOneOperator, TypeOK, [Next]_vars, consumerWrites'
  PROVE  consumerWrites
<1>1. CASE releaseReason' = "order_cancelled" /\ releaseReason # "order_cancelled"
  <2>1. PICK k \in Cancellers : CancelCompensate(k)
    BY <1>1, ReasonStep
  <2>2. cancels[k] = "compensate"
    BY <2>1 DEF CancelCompensate, goCancel
  <2>. QED  BY <2>2 DEF AtMostOneOperator, consumerWrites
<1>2. CASE \A k \in Cancellers : cancels'[k] \in {"idle", "compensate"}
  BY <1>2, CancelStep DEF consumerWrites
<1>. QED  BY <1>1, <1>2 DEF consumerWrites

LEMMA SoleWriterStep ==
  ASSUME AtMostOneOperator, MaxDeadLetters = 0, SoleWriterInv, [Next]_vars
  PROVE  SoleWriterInv'
<1>. TypeOK /\ BackingInv /\ OnlyOwedWork
  BY DEF SoleWriterInv, BackingInv
<1>0. BackingInv' /\ NothingUndone /\ "despatch.create" \in SagaCommandKind
  BY BackingStep, WorldStep DEF SagaCommandKind
<1>1. firstParks' = {} /\ parkTx' = {}
  <2>1. \A c \in SagaCommandKind : ~Park(c) /\ ~ReadFirstPark(c)
    BY NeverParks DEF ReadFirstPark, SoleWriterInv
  <2>. QED
    BY <2>1
       DEF SoleWriterInv, Next, vars, SkipFact, ReadFact, HandleFact, ReleaseLateApproval, IgnoreFact,
           AdvanceOrder, CancelOrder, commitFact, DeadLetterFact, CancelRead, CancelCompensate,
           CancelTxRead, CancelTxWrite, Issue, LoseRequest, Restart, Reserve, Release, CreateDespatch,
           HoldCredit, ReleaseCredit, IssueInvoice, RegisterPayment, answer, parks
<1>2. releaseReason' = "order_cancelled" => \A k \in Cancellers : cancels'[k] = "done"
  <2>1. CASE releaseReason' = releaseReason
    BY <2>1, CancelStep DEF SoleWriterInv
  <2>2. ASSUME NEW k \in Cancellers, CancelCompensate(k)
        PROVE  \A l \in Cancellers : cancels'[l] = "done"
    <3>1. cancels'[k] = "done"
      BY <2>2 DEF CancelCompensate, goCancel, TypeOK
    <3>. QED  BY <3>1 DEF AtMostOneOperator
  <2>. QED  BY <2>1, <2>2, ReasonStep
<1>3. ASSUME consumerWrites'
      PROVE  /\ \A x \in factTx' : x.row = order'
             /\ order'.status # "credit_approved"
             /\ order'.status = "confirmed" => rows'["despatch.create"] # "absent"
  <2>1. consumerWrites
    BY <1>3, ConsumerWroteBefore
  <2>2. /\ \A x \in factTx : x.row = order
        /\ order.status # "credit_approved"
        /\ order.status = "confirmed" => rows["despatch.create"] # "absent"
    BY <2>1 DEF SoleWriterInv
  <2>3. CASE HandleFact
    <3>1. PICK x \in factTx :
            ReleaseLateApproval(x) \/ IgnoreFact(x) \/ AdvanceOrder(x) \/ CancelOrder(x)
      BY <2>3 DEF HandleFact
    <3>2. factTx' = {}
      BY <3>1 DEF ReleaseLateApproval, IgnoreFact, AdvanceOrder, CancelOrder, commitFact
    <3>3. CASE ReleaseLateApproval(x) \/ IgnoreFact(x)
      BY <1>0, <2>2, <3>2, <3>3 DEF ReleaseLateApproval, IgnoreFact, NothingUndone
    <3>4. CASE CancelOrder(x)
      BY <3>2, <3>4 DEF CancelOrder
    <3>5. CASE AdvanceOrder(x)
      <4>1. PICK s \in stepForStatus(x.fact.type, x.row.status) :
              /\ s.kind = "advance"
              /\ order' = [status |-> s.to, reason |-> x.row.reason]
              /\ IF s.commandAfter = NoCommand
                 THEN UNCHANGED <<rows, releaseReason>>
                 ELSE enqueue(s.commandAfter, "credit_rejected")
        BY <3>5 DEF AdvanceOrder
      <4>2. s \in SAGA_STEPS /\ s.precondition = order.status
        BY <2>2, <4>1 DEF stepForStatus
      <4>3. order'.status # "credit_approved"
        BY <2>2, <4>1, <4>2, StepsFollowLifecycle
      <4>4. order'.status = "confirmed" => rows'["despatch.create"] # "absent"
        <5>1. CASE s.precondition = "confirmed"
          BY <1>0, <2>2, <4>2, <5>1 DEF NothingUndone
        <5>2. CASE s.commandAfter = "despatch.create"
          BY <1>0, <4>1, <5>2, EnqueueRows DEF NoCommand
        <5>. QED  BY <4>1, <4>2, <5>1, <5>2, StepsFollowLifecycle
      <4>. QED  BY <3>2, <4>3, <4>4
    <3>. QED  BY <3>1, <3>3, <3>4, <3>5
  <2>4. ASSUME NEW t \in Topic, ReadFact(t)
        PROVE  order' = order /\ \A x \in factTx' : x.row = order
    BY <2>4 DEF ReadFact, ordersDb
  <2>5. ~HandleFact => order' = order /\ \A x \in factTx' : x.row = order
    <3>1. ~ \E k \in Cancellers : CancelTxWrite(k)
      BY <2>1 DEF CancelTxWrite, goCancel, consumerWrites, SoleWriterInv
    <3>2. \A p \in parkTx : FALSE
      BY DEF SoleWriterInv
    <3>. QED
      BY <2>2, <2>4, <3>1, <3>2
         DEF Next, vars, SkipFact, DeadLetterFact, CancelRead, CancelCompensate, CancelTxRead, Issue,
             LoseRequest, Park, ReadFirstPark, Restart, Reserve, Release, CreateDespatch, HoldCredit,
             ReleaseCredit, IssueInvoice, RegisterPayment, answer, ordersDb, consumer
  <2>. QED  BY <1>0, <2>2, <2>3, <2>5 DEF NothingUndone
<1>. QED  BY <1>0, <1>1, <1>2, <1>3 DEF SoleWriterInv

LEMMA SoleWriterInit == Init => SoleWriterInv
BY BackingInit DEF Init, SoleWriterInv, NoReason

(* The order row changes only when the consumer commits a fact.            *)
LEMMA SoleWriter ==
  ASSUME MaxDeadLetters = 0, SoleWriterInv, consumerWrites, [Next]_vars, order' # order
  PROVE  \E x \in factTx : x.row = order /\ (AdvanceOrder(x) \/ CancelOrder(x))
<1>1. \A p \in parkTx : FALSE
  BY DEF SoleWriterInv
<1>2. ~ \E k \in Cancellers : CancelTxWrite(k)
  BY DEF CancelTxWrite, goCancel, consumerWrites, SoleWriterInv
<1>3. HandleFact
  BY <1>1, <1>2 DEF Next, vars, SkipFact, ReadFact, DeadLetterFact, CancelRead, CancelCompensate,
     CancelTxRead, Restart, Issue, LoseRequest, Park, ReadFirstPark, Reserve, Release,
     CreateDespatch, HoldCredit, ReleaseCredit, IssueInvoice, RegisterPayment, answer, ordersDb
<1>. QED  BY <1>3 DEF HandleFact, ReleaseLateApproval, IgnoreFact, SoleWriterInv

LEMMA LifecycleStep ==
  ASSUME Cancellers = {}, MaxDeadLetters = 0, SoleWriterInv, [Next]_vars
  PROVE  [Lifecycle!LifecycleNext]_(Lifecycle!lifecycleVars)
<1>. TypeOK /\ consumerWrites
  BY DEF SoleWriterInv, BackingInv, consumerWrites
<1>1. CASE order' = order
  BY <1>1 DEF Lifecycle!lifecycleVars
<1>2. CASE order' # order
  <2>1. PICK x \in factTx : x.row = order /\ (AdvanceOrder(x) \/ CancelOrder(x))
    BY <1>2, SoleWriter
  <2>2. CASE AdvanceOrder(x)
    <3>1. PICK s \in stepForStatus(x.fact.type, x.row.status) :
            s.kind = "advance" /\ order' = [status |-> s.to, reason |-> x.row.reason]
      BY <2>2 DEF AdvanceOrder
    <3>2. s \in SAGA_STEPS /\ s.precondition = order.status
      BY <2>1, <3>1 DEF stepForStatus
    <3>3. order'.status = s.to /\ order'.reason = order.reason
      BY <2>1, <3>1
    <3>4. CASE s.to = s.precondition
      BY <3>2, <3>3, <3>4 DEF Lifecycle!lifecycleVars
    <3>5. CASE findTransition(s.precondition, s.to) /\ s.to # "cancelled"
      <4>1. s.to \in ORDER_STATUSES
        BY <3>2, StepTypes
      <4>2. Lifecycle!transitionTo(s.to)
        BY <3>2, <3>3, <3>5 DEF Lifecycle!transitionTo, Lifecycle!findTransition,
           Lifecycle!ORDER_TRANSITIONS, findTransition, ORDER_TRANSITIONS
      <4>. QED  BY <4>1, <4>2 DEF Lifecycle!LifecycleNext, Lifecycle!ORDER_STATUSES, ORDER_STATUSES
    <3>6. CASE s.precondition = "stock_reserved" /\ s.to = "confirmed"
      <4>1. Lifecycle!approveCreditAndConfirm
        BY <3>2, <3>3, <3>6 DEF Lifecycle!approveCreditAndConfirm, Lifecycle!findTransition,
           Lifecycle!ORDER_TRANSITIONS
      <4>. QED  BY <4>1 DEF Lifecycle!LifecycleNext
    <3>. QED  BY <3>1, <3>2, <3>4, <3>5, <3>6, StepsFollowLifecycle
  <2>3. CASE CancelOrder(x)
    <3>1. /\ mayCancel(order.status, cancelReason(x.fact))
          /\ order'.status = "cancelled" /\ order'.reason = cancelReason(x.fact)
      BY <2>1, <2>3 DEF CancelOrder
    <3>2. cancelReason(x.fact) \in CANCELLATION_REASONS
      BY <3>1 DEF mayCancel
    <3>3. Lifecycle!cancel(cancelReason(x.fact))
      BY <3>1 DEF Lifecycle!cancel, Lifecycle!mayCancel, Lifecycle!findTransition,
         Lifecycle!ORDER_TRANSITIONS, Lifecycle!CANCELLATION_REASONS, mayCancel, findTransition,
         ORDER_TRANSITIONS, CANCELLATION_REASONS
    <3>. QED
      BY <3>2, <3>3 DEF Lifecycle!LifecycleNext, Lifecycle!CANCELLATION_REASONS, CANCELLATION_REASONS
  <2>. QED  BY <2>1, <2>2, <2>3
<1>. QED  BY <1>1, <1>2

(* The automatic saga implements the order lifecycle: it starts an order   *)
(* `placed' and moves it only as the Order aggregate allows, however often *)
(* facts are redelivered and commands repeated.                            *)
THEOREM AutomaticFollowsLifecycle ==
  ASSUME Cancellers = {}, MaxDeadLetters = 0
  PROVE  Spec => FollowsLifecycle
<1>1. Init => Lifecycle!Place
  BY DEF Init, Lifecycle!Place, Lifecycle!NoReason, NoReason
<1>2. SoleWriterInv /\ [Next]_vars => SoleWriterInv'
  BY SoleWriterStep DEF AtMostOneOperator
<1>3. SoleWriterInv /\ [Next]_vars => [Lifecycle!LifecycleNext]_(Lifecycle!lifecycleVars)
  BY LifecycleStep
<1>. QED
  BY <1>1, <1>2, <1>3, SoleWriterInit, PTL DEF Spec, FollowsLifecycle, Lifecycle!LifecycleSpec

(* Release first, cancel second: the automatic saga cancels an order that  *)
(* holds stock only once Fulfillment has taken the stock back.             *)
THEOREM AutomaticReleasesFirst ==
  ASSUME Cancellers = {}, MaxDeadLetters = 0
  PROVE  Spec => ReleaseFirst
<1>1. ASSUME SoleWriterInv, [Next]_vars, order.status \in CompensatingStatus,
             order'.status = "cancelled"
      PROVE  reservation = "released"
  <2>. BackingInv /\ consumerWrites
    BY <1>1 DEF SoleWriterInv, consumerWrites
  <2>1. order' # order
    BY <1>1 DEF CompensatingStatus
  <2>2. PICK x \in factTx : x.row = order /\ (AdvanceOrder(x) \/ CancelOrder(x))
    BY <1>1, <2>1, SoleWriter
  <2>3. CASE AdvanceOrder(x)
    <3>1. PICK s \in stepForStatus(x.fact.type, x.row.status) :
            s.kind = "advance" /\ order' = [status |-> s.to, reason |-> x.row.reason]
      BY <2>3 DEF AdvanceOrder
    <3>2. s \in SAGA_STEPS /\ s.to # "cancelled"
      BY <3>1 DEF stepForStatus, SAGA_STEPS, Advance, Cancel
    <3>. QED  BY <1>1, <3>1, <3>2
  <2>4. CASE CancelOrder(x)
    <3>1. PICK s \in stepForStatus(x.fact.type, order.status) : s.kind = "cancel"
      BY <2>2, <2>4 DEF CancelOrder
    <3>2. \/ x.fact.type = "stock.released"
          \/ x.fact.type = "credit.released" /\ order.status \in {"credit_approved", "confirmed"}
      BY <1>1, <3>1 DEF stepForStatus, SAGA_STEPS, Advance, Cancel, CompensatingStatus
    <3>3. CASE x.fact.type = "stock.released"
      BY <3>3, OpenFactMeans
    <3>4. CASE x.fact.type = "credit.released" /\ order.status \in {"credit_approved", "confirmed"}
      <4>1. rows["despatch.create"] # "absent"
        BY <1>1, <3>4 DEF SoleWriterInv
      <4>2. isCancelRelease(x.fact)
        BY <2>2, <2>4, <3>4 DEF CancelOrder, mayCancel, cancelReason, isCancelRelease,
           CANCELLATION_REASONS, NoReason
      <4>3. rows["credit.release"] # "absent"
        BY <4>2, OpenFactMeans
      <4>. QED  BY <4>1, <4>3 DEF BackingInv, ReleaseExcludesDespatch
    <3>. QED  BY <3>2, <3>3, <3>4
  <2>. QED  BY <2>2, <2>3, <2>4
<1>2. SoleWriterInv /\ [Next]_vars => SoleWriterInv'
  BY SoleWriterStep DEF AtMostOneOperator
<1>3. SoleWriterInv /\ [Next]_vars =>
        [order.status \in CompensatingStatus /\ order'.status = "cancelled"
           => reservation = "released"]_vars
  BY <1>1
<1>. QED  BY <1>2, <1>3, SoleWriterInit, PTL DEF Spec, ReleaseFirst

-----------------------------------------------------------------------------
(* What happened stays on record: logs, rows and offsets agree.            *)

LEMMA HistoryInit == Init => HistoryInv
BY DEF Init, HistoryInv, Topic, NoReason

(* The offset passes one position at a time, and only a position of the    *)
(* log that is skipped, handled, or dead-lettered.                         *)
LEMMA OffsetStep ==
  ASSUME TypeOK, OpenFactIsNext, [Next]_vars, NEW t \in Topic
  PROVE  \/ offset'[t] <= offset[t]
         \/ /\ offset'[t] = offset[t] + 1
            /\ offset[t] + 1 \in DOMAIN topics[t]
            /\ \/ nextFact(t).type \in SkippedFacts
               \/ position(t) \in processed'
               \/ \E x \in factTx :
                    x.fact = nextFact(t) /\ (handlerThrows(x) \/ lostFacts < MaxLostFacts)
<1>. offset \in [Topic -> Nat] /\ topics \in [Topic -> Seq(Fact)]
  BY DEF TypeOK
<1>1. ASSUME NEW u \in Topic, passFact(u)
      PROVE  offset'[t] = IF t = u THEN offset[t] + 1 ELSE offset[t]
  BY <1>1 DEF passFact
<1>2. ASSUME NEW u \in Topic, SkipFact(u)
      PROVE  /\ offset[u] + 1 \in DOMAIN topics[u]
             /\ nextFact(u).type \in SkippedFacts \/ position(u) \in processed'
  BY <1>2 DEF SkipFact, hasNextFact
<1>3. ASSUME NEW u \in Topic, SkipFact(u)
      PROVE  \/ offset'[t] <= offset[t]
             \/ /\ offset'[t] = offset[t] + 1
                /\ offset[t] + 1 \in DOMAIN topics[t]
                /\ nextFact(t).type \in SkippedFacts \/ position(t) \in processed'
  <2>1. passFact(u)
    BY <1>3 DEF SkipFact
  <2>. QED  BY <1>1, <1>2, <1>3, <2>1
<1>4. CASE HandleFact
  <2>1. PICK x \in factTx : commitFact(x)
    BY <1>4 DEF HandleFact, ReleaseLateApproval, IgnoreFact, AdvanceOrder, CancelOrder
  <2>2. x.topic \in Topic /\ passFact(x.topic) /\ position(x.topic) \in processed'
    BY <2>1 DEF commitFact, TypeOK, FactTx
  <2>3. offset[x.topic] + 1 \in DOMAIN topics[x.topic]
    BY DEF OpenFactIsNext
  <2>. QED  BY <1>1, <2>2, <2>3
<1>5. CASE DeadLetterFact
  <2>1. PICK x \in factTx : passFact(x.topic) /\ (handlerThrows(x) \/ lostFacts < MaxLostFacts)
    BY <1>5 DEF DeadLetterFact
  <2>2. /\ x.topic \in Topic /\ offset[x.topic] + 1 \in DOMAIN topics[x.topic]
        /\ x.fact = nextFact(x.topic)
    BY DEF OpenFactIsNext, TypeOK, FactTx
  <2>. QED  BY <1>1, <2>1, <2>2
<1>6. CASE Restart
  <2>1. PICK u \in Topic : \E n \in 0 .. offset[u] : offset' = [offset EXCEPT ![u] = n]
    BY <1>6 DEF Restart
  <2>. QED  BY <2>1
<1>7. CASE UNCHANGED offset
  BY <1>7
<1>. QED
  BY <1>3, <1>4, <1>5, <1>6, <1>7
     DEF Next, vars, ReadFact, CancelRead, CancelCompensate, CancelTxRead, CancelTxWrite, Issue,
         LoseRequest, Park, ReadFirstPark, RecordSagaFailure, Reserve, Release, CreateDespatch,
         HoldCredit, ReleaseCredit, IssueInvoice, RegisterPayment, answer, consumer

(* The dedup records grow by the fact that is committed.                   *)
LEMMA ProcessedStep ==
  ASSUME TypeOK, OpenFactIsNext, [Next]_vars, processed' # processed
  PROVE  \E x \in factTx :
           /\ ReleaseLateApproval(x) \/ IgnoreFact(x) \/ AdvanceOrder(x) \/ CancelOrder(x)
           /\ processed' = processed \union {<<x.topic, offset[x.topic] + 1>>}
           /\ x.topic \in Topic
           /\ offset[x.topic] + 1 \in DOMAIN topics[x.topic]
           /\ x.fact = topics[x.topic][offset[x.topic] + 1]
<1>1. HandleFact
  BY DEF Next, vars, SkipFact, ReadFact, DeadLetterFact, CancelRead, CancelCompensate, CancelTxRead,
     CancelTxWrite, Issue, LoseRequest, Park, ReadFirstPark, RecordSagaFailure, Restart, Reserve,
     Release, CreateDespatch, HoldCredit, ReleaseCredit, IssueInvoice, RegisterPayment, answer, consumer
<1>2. PICK x \in factTx : ReleaseLateApproval(x) \/ IgnoreFact(x) \/ AdvanceOrder(x) \/ CancelOrder(x)
  BY <1>1 DEF HandleFact
<1>3. commitFact(x)
  BY <1>2 DEF ReleaseLateApproval, IgnoreFact, AdvanceOrder, CancelOrder
<1>. QED  BY <1>2, <1>3 DEF commitFact, position, nextFact, OpenFactIsNext, TypeOK, FactTx

(* A hold is granted to a request, with its approval in the log.           *)
LEMMA GrantedHold ==
  ASSUME TypeOK, OnlyOwedWork, [Next]_vars, hold = "none", hold' # "none"
  PROVE  /\ rows["credit.hold"] # "absent"
         /\ \E i \in DOMAIN topics'["billing"] : topics'["billing"][i].type = "credit.approved"
<1>1. requests["credit.hold"] > 0 /\ emit("billing", fact("credit.approved"))
  BY DEF Next, vars, SkipFact, ReadFact, HandleFact, ReleaseLateApproval, IgnoreFact, AdvanceOrder,
     CancelOrder, commitFact, DeadLetterFact, CancelRead, CancelCompensate, CancelTxRead,
     CancelTxWrite, Issue, LoseRequest, Park, ReadFirstPark, RecordSagaFailure, Restart, Reserve,
     Release, CreateDespatch, HoldCredit, ReleaseCredit, IssueInvoice, RegisterPayment, answer
<1>2. rows["credit.hold"] # "absent"
  BY <1>1 DEF OnlyOwedWork, SagaCommandKind
<1>3. topics \in [Topic -> Seq(Fact)] /\ "billing" \in Topic /\ fact("credit.approved") \in Fact
  BY FactTypes, FactIsFact DEF TypeOK, Topic
<1>4. /\ topics' \in [Topic -> Seq(Fact)]
      /\ Len(topics'["billing"]) = Len(topics["billing"]) + 1
      /\ topics'["billing"][Len(topics["billing"]) + 1] = fact("credit.approved")
  BY <1>1, <1>3, EmitEffect
<1>5. Len(topics["billing"]) + 1 \in DOMAIN topics'["billing"]
  BY <1>3, <1>4
<1>. QED  BY <1>2, <1>4, <1>5 DEF fact

LEMMA ReleasedOnRequest ==
  ASSUME OnlyOwedWork, [Next]_vars, reservation # "released", reservation' = "released"
  PROVE  rows["stock.release"] # "absent"
<1>1. requests["stock.release"] > 0
  BY DEF Next, vars, SkipFact, ReadFact, HandleFact, ReleaseLateApproval, IgnoreFact, AdvanceOrder,
     CancelOrder, commitFact, DeadLetterFact, CancelRead, CancelCompensate, CancelTxRead,
     CancelTxWrite, Issue, LoseRequest, Park, ReadFirstPark, RecordSagaFailure, Restart, Reserve,
     Release, CreateDespatch, HoldCredit, ReleaseCredit, IssueInvoice, RegisterPayment, answer
<1>. QED  BY <1>1 DEF OnlyOwedWork, SagaCommandKind

LEMMA HistoryStep ==
  ASSUME BackingInv, HistoryInv, [Next]_vars
  PROVE  HistoryInv'
<1>. TypeOK /\ TypeOK' /\ OnlyOwedWork /\ OpenFactIsNext
  BY TypeStep DEF BackingInv
<1>. /\ topics \in [Topic -> Seq(Fact)] /\ topics' \in [Topic -> Seq(Fact)]
     /\ offset \in [Topic -> Nat] /\ offset' \in [Topic -> Nat]
  BY DEF TypeOK
<1>0. LogsGrow /\ NewFactsJustified /\ NothingUndone
  BY LogStep, WorldStep
<1>. {"fulfillment", "billing"} \subseteq Topic
     /\ {"stock.release", "credit.hold"} \subseteq SagaCommandKind
  BY DEF Topic, SagaCommandKind
<1>1. \A t \in Topic : offset'[t] <= Len(topics'[t])
  <2>. TAKE t \in Topic
  <2>1. Len(topics[t]) <= Len(topics'[t])
    <3>1. CASE Len(topics[t]) = 0
      BY <3>1
    <3>2. CASE Len(topics[t]) > 0
      <4>1. Len(topics[t]) \in DOMAIN topics[t]
        BY <3>2
      <4>2. Len(topics[t]) \in DOMAIN topics'[t]
        BY <1>0, <4>1 DEF LogsGrow
      <4>. QED  BY <4>2
    <3>. QED  BY <3>1, <3>2
  <2>2. offset[t] <= Len(topics[t])
    BY DEF HistoryInv
  <2>3. offset'[t] <= Len(topics[t])
    <3>1. CASE offset'[t] <= offset[t]
      BY <2>2, <3>1
    <3>2. CASE offset'[t] = offset[t] + 1 /\ offset[t] + 1 \in DOMAIN topics[t]
      BY <3>2
    <3>. QED  BY <3>1, <3>2, OffsetStep
  <2>. QED  BY <2>1, <2>3
<1>2. \A p \in processed' : p[2] \in DOMAIN topics'[p[1]]
  <2>1. \A p \in processed : p[1] \in Topic /\ p[2] \in DOMAIN topics[p[1]]
    BY DEF HistoryInv, TypeOK
  <2>2. \A p \in processed' : p[1] \in Topic /\ p[2] \in DOMAIN topics[p[1]]
    <3>1. CASE processed' = processed
      BY <2>1, <3>1
    <3>2. CASE processed' # processed
      <4>1. PICK x \in factTx :
              /\ processed' = processed \union {<<x.topic, offset[x.topic] + 1>>}
              /\ x.topic \in Topic /\ offset[x.topic] + 1 \in DOMAIN topics[x.topic]
        BY <3>2, ProcessedStep
      <4>. DEFINE q == <<x.topic, offset[x.topic] + 1>>
      <4>2. q[1] \in Topic /\ q[2] \in DOMAIN topics[q[1]]
        BY <4>1
      <4>. HIDE DEF q
      <4>. QED  BY <2>1, <4>1, <4>2 DEF q
    <3>. QED  BY <3>1, <3>2
  <2>. QED  BY <1>0, <2>2 DEF LogsGrow
<1>3. \A c \in SagaCommandKind : rows'[c] = "absent" => calls'[c] = 0
  <2>. SUFFICES ASSUME NEW c \in SagaCommandKind, rows'[c] = "absent" PROVE calls'[c] = 0
    OBVIOUS
  <2>1. rows[c] = "absent"
    BY <1>0 DEF NothingUndone
  <2>2. calls[c] = 0
    BY <2>1 DEF HistoryInv
  <2>3. ASSUME NEW d \in SagaCommandKind, Issue(d) PROVE calls'[c] = calls[c]
    <3>1. c # d
      BY <2>1, <2>3 DEF Issue
    <3>. QED  BY <2>3, <3>1 DEF Issue
  <2>4. calls'[c] = calls[c]
    BY <2>3
       DEF Next, vars, SkipFact, ReadFact, HandleFact, ReleaseLateApproval, IgnoreFact, AdvanceOrder,
           CancelOrder, commitFact, DeadLetterFact, CancelRead, CancelCompensate, CancelTxRead,
           CancelTxWrite, LoseRequest, Park, ReadFirstPark, RecordSagaFailure, Restart, Reserve,
           Release, CreateDespatch, HoldCredit, ReleaseCredit, IssueInvoice, RegisterPayment, answer,
           rpc
  <2>. QED  BY <2>2, <2>4
<1>4. releaseReason' # NoReason \/ reservation' = "released" => rows'["stock.release"] # "absent"
  <2>1. CASE rows["stock.release"] # "absent"
    BY <1>0, <2>1 DEF NothingUndone
  <2>2. CASE rows["stock.release"] = "absent"
    <3>1. reservation' # "released" /\ releaseReason = NoReason
      BY <2>2, ReleasedOnRequest DEF HistoryInv
    <3>2. CASE releaseReason' # releaseReason
      <4>1. ASSUME NEW k \in Cancellers, CancelCompensate(k) PROVE rows'["stock.release"] # "absent"
        BY <4>1, EnqueueRows DEF CancelCompensate
      <4>2. CASE HandleFact
        <5>1. PICK x \in factTx : ReleaseLateApproval(x) \/ IgnoreFact(x) \/ AdvanceOrder(x) \/ CancelOrder(x)
          BY <4>2 DEF HandleFact
        <5>2. CASE AdvanceOrder(x)
          <6>1. PICK s \in SAGA_STEPS :
                  /\ s.commandAfter # NoCommand
                  /\ enqueue(s.commandAfter, "credit_rejected")
            BY <3>2, <5>2 DEF AdvanceOrder, stepForStatus
          <6>2. s.commandAfter = "stock.release"
            BY <3>2, <6>1, EnqueueReason
          <6>. QED  BY <6>1, <6>2, EnqueueRows
        <5>3. ~ReleaseLateApproval(x)
          BY <3>2, EnqueueReason DEF ReleaseLateApproval
        <5>. QED  BY <3>2, <5>1, <5>2, <5>3 DEF IgnoreFact, CancelOrder
      <4>. QED  BY <3>2, <4>1, <4>2, ReasonStep
    <3>. QED  BY <3>1, <3>2
  <2>. QED  BY <2>1, <2>2
<1>5. hold' # "none" =>
        /\ rows'["credit.hold"] # "absent"
        /\ \E i \in DOMAIN topics'["billing"] : topics'["billing"][i].type = "credit.approved"
  <2>1. CASE hold = "none"
    BY <1>0, <2>1, GrantedHold DEF NothingUndone
  <2>2. CASE hold # "none"
    BY <1>0, <2>2 DEF HistoryInv, LogsGrow, NothingUndone, isApproval
  <2>. QED  BY <2>1, <2>2
<1>6. ASSUME NEW i \in DOMAIN topics'["fulfillment"], topics'["fulfillment"][i].type = "stock.released"
      PROVE  topics'["fulfillment"][i].reason = releaseReason'
  <2>1. CASE i \in DOMAIN topics["fulfillment"]
    <3>1. /\ topics'["fulfillment"][i] = topics["fulfillment"][i]
          /\ topics["fulfillment"][i].reason = releaseReason
      BY <1>0, <1>6, <2>1 DEF LogsGrow, HistoryInv
    <3>2. reservation = "released"
      BY <1>6, <2>1, <3>1 DEF BackingInv, FactsAreFinal
    <3>3. releaseReason' = releaseReason
      BY <3>2, ReasonStep DEF HistoryInv
    <3>. QED  BY <3>1, <3>3
  <2>2. CASE i \notin DOMAIN topics["fulfillment"]
    <3>1. /\ topics'["fulfillment"][i].reason = releaseReason
          /\ requests["stock.release"] > 0
      BY <1>0, <1>6, <2>2 DEF NewFactsJustified, justified
    <3>2. releaseReason' = releaseReason
      BY <3>1, ReasonStep DEF OnlyOwedWork
    <3>. QED  BY <3>1, <3>2
  <2>. QED  BY <2>1, <2>2
<1>. QED  BY <1>1, <1>2, <1>3, <1>4, <1>5, <1>6 DEF HistoryInv, isApproval

-----------------------------------------------------------------------------
(* An accepted compensating cancellation unwinds everything.               *)

(* What the steps of the table do to an order the consumer alone writes.   *)
LEMMA AdvanceMoves ==
  ASSUME NEW s \in SAGA_STEPS, s.kind = "advance"
  PROVE  /\ s.to # "cancelled"
         /\ s.to = "placed" => s.precondition = "placed"
         /\ s.to = "stock_reserved" => s.precondition \in {"placed", "stock_reserved"}
         /\ s.commandAfter = "credit.hold" => s.to = "stock_reserved"
         /\ s.fact = "credit.approved" => s.to = "confirmed"
         /\ s.commandAfter = "credit.release" => s.precondition \in {"credit_approved", "confirmed"}
<1>1. s.to # "cancelled" /\ (s.to = "placed" => s.precondition = "placed")
  BY DEF SAGA_STEPS, Advance, Cancel
<1>2. s.to = "stock_reserved" => s.precondition \in {"placed", "stock_reserved"}
  BY DEF SAGA_STEPS, Advance, Cancel
<1>3. /\ s.commandAfter = "credit.hold" => s.to = "stock_reserved"
      /\ s.fact = "credit.approved" => s.to = "confirmed"
  BY DEF SAGA_STEPS, Advance, Cancel, NoCommand
<1>4. s.commandAfter = "credit.release" => s.precondition \in {"credit_approved", "confirmed"}
  BY DEF SAGA_STEPS, Advance, Cancel, NoCommand
<1>. QED  BY <1>1, <1>2, <1>3, <1>4

LEMMA CancelMoves ==
  ASSUME NEW s \in SAGA_STEPS, s.kind = "cancel"
  PROVE  \/ s.fact = "stock.rejected" /\ s.precondition = "placed"
         \/ s.fact = "stock.released" /\ s.precondition = "stock_reserved"
         \/ s.fact = "credit.released" /\ s.precondition \in {"credit_approved", "confirmed"}
BY DEF SAGA_STEPS, Advance, Cancel

(* No fact that advances an order is ever refused by the handler.          *)
LEMMA ApprovalIsHandled ==
  ASSUME NEW x, x.fact.type = "credit.approved"
  PROVE  ~handlerThrows(x)
BY DEF handlerThrows, stepForStatus, SAGA_STEPS, Advance, Cancel

(* While the consumer alone writes the order, it changes in one of two     *)
(* ways.                                                                   *)
LEMMA OrderMoves ==
  ASSUME MaxDeadLetters = 0, SoleWriterInv, consumerWrites, [Next]_vars
  PROVE  \/ order' = order
         \/ \E x \in factTx, s \in SAGA_STEPS :
              /\ AdvanceOrder(x) /\ x.row = order
              /\ s.kind = "advance" /\ s.fact = x.fact.type /\ s.precondition = order.status
              /\ order' = [status |-> s.to, reason |-> order.reason]
         \/ \E x \in factTx, s \in SAGA_STEPS :
              /\ CancelOrder(x) /\ x.row = order
              /\ s.kind = "cancel" /\ s.fact = x.fact.type /\ s.precondition = order.status
              /\ mayCancel(order.status, cancelReason(x.fact))
              /\ order' = [status |-> "cancelled", reason |-> cancelReason(x.fact)]
<1>1. CASE order' # order
  <2>1. PICK x \in factTx : x.row = order /\ (AdvanceOrder(x) \/ CancelOrder(x))
    BY <1>1, SoleWriter
  <2>2. CASE AdvanceOrder(x)
    <3>1. PICK s \in stepForStatus(x.fact.type, x.row.status) :
            s.kind = "advance" /\ order' = [status |-> s.to, reason |-> x.row.reason]
      BY <2>2 DEF AdvanceOrder
    <3>. QED  BY <2>1, <2>2, <3>1 DEF stepForStatus
  <2>3. CASE CancelOrder(x)
    <3>1. PICK s \in stepForStatus(x.fact.type, x.row.status) : s.kind = "cancel"
      BY <2>3 DEF CancelOrder
    <3>2. /\ mayCancel(order.status, cancelReason(x.fact))
          /\ order' = [status |-> "cancelled", reason |-> cancelReason(x.fact)]
      BY <2>1, <2>3 DEF CancelOrder
    <3>. QED  BY <2>1, <2>3, <3>1, <3>2 DEF stepForStatus
  <2>. QED  BY <2>1, <2>2, <2>3
<1>. QED  BY <1>1

(* A cancellation off the table finds the stock released, or never         *)
(* reserved; once the order is confirmed it also finds the credit release  *)
(* owed.                                                                   *)
LEMMA CancelMeans ==
  ASSUME SoleWriterInv, HistoryInv, consumerWrites, NEW x \in factTx, x.row = order,
         NEW s \in SAGA_STEPS, s.kind = "cancel", s.fact = x.fact.type,
         s.precondition = order.status, mayCancel(order.status, cancelReason(x.fact))
  PROVE  /\ cancelReason(x.fact) \in CANCELLATION_REASONS
         /\ \/ cancelReason(x.fact) = "stock_rejected" /\ order.status = "placed"
            \/ /\ cancelReason(x.fact) # "stock_rejected"
               /\ reservation = "released" /\ order.status \in {"stock_reserved", "confirmed"}
               /\ cancelReason(x.fact) = "credit_rejected" => releaseReason = "credit_rejected"
         /\ order.status = "confirmed" => rows["credit.release"] # "absent"
<1>. BackingInv /\ order.status # "credit_approved"
     /\ (order.status = "confirmed" => rows["despatch.create"] # "absent")
  BY DEF SoleWriterInv
<1>1. cancelReason(x.fact) \in CANCELLATION_REASONS
  BY DEF mayCancel
<1>2. CASE s.fact = "stock.rejected" /\ s.precondition = "placed"
  BY <1>1, <1>2 DEF cancelReason
<1>3. CASE s.fact = "stock.released" /\ s.precondition = "stock_reserved"
  <2>1. reservation = "released"
    BY <1>3, OpenFactMeans
  <2>2. x.topic \in Topic /\ offset[x.topic] + 1 \in DOMAIN topics[x.topic]
        /\ x.fact = topics[x.topic][offset[x.topic] + 1]
    BY DEF BackingInv, TypeOK, FactTx, OpenFactIsNext, nextFact
  <2>3. x.topic = "fulfillment"
    BY <1>3, <2>2, ZenonT(60) DEF BackingInv, FactsOnTheirTopic, FactsOf, Topic, SkippedFacts
  <2>4. x.fact.reason = releaseReason
    BY <1>3, <2>2, <2>3 DEF HistoryInv
  <2>5. cancelReason(x.fact) # "stock_rejected"
    BY <1>3 DEF cancelReason, NoReason
  <2>6. cancelReason(x.fact) = "credit_rejected" => releaseReason = "credit_rejected"
    BY <1>3, <2>4 DEF cancelReason, NoReason
  <2>. QED  BY <1>1, <1>3, <2>1, <2>5, <2>6
<1>4. CASE s.fact = "credit.released" /\ s.precondition \in {"credit_approved", "confirmed"}
  <2>1. order.status = "confirmed" /\ rows["despatch.create"] # "absent"
    BY <1>4
  <2>2. isCancelRelease(x.fact) /\ cancelReason(x.fact) = "operator_cancelled"
    BY <1>1, <1>4, <2>1 DEF mayCancel, cancelReason, isCancelRelease, CANCELLATION_REASONS, NoReason
  <2>3. rows["credit.release"] # "absent"
    BY <2>2, OpenFactMeans
  <2>4. reservation = "released"
    BY <2>1, <2>3 DEF BackingInv, ReleaseExcludesDespatch
  <2>. QED  BY <1>1, <2>1, <2>2, <2>3, <2>4
<1>. QED  BY <1>2, <1>3, <1>4, CancelMoves

LEMMA ApprovalsHandledStep ==
  ASSUME MaxLostFacts = 0, BackingInv, HistoryInv, approvalsHandled, [Next]_vars
  PROVE  approvalsHandled'
<1>. TypeOK /\ OnlyOwedWork /\ OpenFactIsNext
  BY DEF BackingInv
<1>. "billing" \in Topic /\ LogsGrow /\ NothingUndone
  BY LogStep, WorldStep DEF Topic
<1>. /\ topics \in [Topic -> Seq(Fact)] /\ offset \in [Topic -> Nat]
     /\ TypeOK' /\ topics' \in [Topic -> Seq(Fact)] /\ offset' \in [Topic -> Nat]
  BY TypeStep DEF TypeOK
<1>. SUFFICES ASSUME NEW i \in DOMAIN topics'["billing"],
                     topics'["billing"][i].type = "credit.approved", i <= offset'["billing"]
              PROVE  <<"billing", i>> \in processed'
  BY DEF approvalsHandled, isApproval
<1>0. offset["billing"] <= Len(topics["billing"])
  BY DEF HistoryInv
<1>1. CASE i <= offset["billing"]
  <2>1. i \in DOMAIN topics["billing"]
    BY <1>0, <1>1
  <2>2. topics["billing"][i] = topics'["billing"][i]
    BY <2>1 DEF LogsGrow
  <2>. QED  BY <1>1, <2>1, <2>2 DEF approvalsHandled, isApproval, NothingUndone
<1>2. CASE ~(i <= offset["billing"])
  <2>1. /\ offset'["billing"] = offset["billing"] + 1
        /\ offset["billing"] + 1 \in DOMAIN topics["billing"]
        /\ \/ nextFact("billing").type \in SkippedFacts
           \/ position("billing") \in processed'
           \/ \E x \in factTx :
                x.fact = nextFact("billing") /\ (handlerThrows(x) \/ lostFacts < MaxLostFacts)
    BY <1>2, OffsetStep
  <2>2. i = offset["billing"] + 1
    BY <1>2, <2>1
  <2>3. nextFact("billing").type = "credit.approved"
    BY <2>1, <2>2 DEF nextFact, LogsGrow
  <2>4. ~(lostFacts < MaxLostFacts)
    BY DEF TypeOK
  <2>. QED  BY <2>1, <2>2, <2>3, <2>4, ApprovalIsHandled DEF position, SkippedFacts
<1>. QED  BY <1>1, <1>2

LEMMA PlacedLeftStep ==
  ASSUME AtMostOneOperator, MaxDeadLetters = 0, SoleWriterInv, HistoryInv, consumerWrites,
         consumerWrites', placedLeft, [Next]_vars
  PROVE  placedLeft'
<1>. TypeOK /\ OnlyOwedWork
  BY DEF SoleWriterInv, BackingInv
<1>1. order'.status = "cancelled" <=> order'.reason # NoReason
  <2>1. CASE order' = order
    BY <2>1 DEF placedLeft
  <2>2. ASSUME NEW x \in factTx, NEW s \in SAGA_STEPS, s.kind = "advance",
               s.precondition = order.status, order' = [status |-> s.to, reason |-> order.reason]
        PROVE  order'.status = "cancelled" <=> order'.reason # NoReason
    <3>1. s.to # "cancelled" /\ s.precondition # "cancelled"
      BY <2>2, AdvanceMoves DEF SAGA_STEPS, Advance, Cancel
    <3>. QED  BY <2>2, <3>1 DEF placedLeft
  <2>3. ASSUME NEW x \in factTx, mayCancel(order.status, cancelReason(x.fact)),
               order' = [status |-> "cancelled", reason |-> cancelReason(x.fact)]
        PROVE  order'.status = "cancelled" <=> order'.reason # NoReason
    BY <2>3 DEF mayCancel, CANCELLATION_REASONS, NoReason
  <2>. QED  BY <2>1, <2>2, <2>3, OrderMoves
<1>2. ASSUME order.status # "placed", order.reason # "stock_rejected"
      PROVE  order'.status # "placed" /\ order'.reason # "stock_rejected"
  <2>1. CASE order' = order
    BY <1>2, <2>1
  <2>2. ASSUME NEW s \in SAGA_STEPS, s.kind = "advance", s.precondition = order.status,
               order' = [status |-> s.to, reason |-> order.reason]
        PROVE  order'.status # "placed" /\ order'.reason # "stock_rejected"
    BY <1>2, <2>2, AdvanceMoves
  <2>3. ASSUME NEW x \in factTx, mayCancel(order.status, cancelReason(x.fact)),
               order' = [status |-> "cancelled", reason |-> cancelReason(x.fact)]
        PROVE  order'.status # "placed" /\ order'.reason # "stock_rejected"
    BY <1>2, <2>3 DEF mayCancel
  <2>. QED  BY <2>1, <2>2, <2>3, OrderMoves
<1>3. ASSUME rows["credit.hold"] = "absent", rows'["credit.hold"] # "absent"
      PROVE  order'.status # "placed" /\ order'.reason # "stock_rejected"
  <2>1. HandleFact
    BY <1>3, OtherRows DEF SagaCommandKind
  <2>2. PICK x \in factTx :
          ReleaseLateApproval(x) \/ IgnoreFact(x) \/ AdvanceOrder(x) \/ CancelOrder(x)
    BY <2>1 DEF HandleFact
  <2>3. AdvanceOrder(x)
    <3>1. ~ReleaseLateApproval(x)
      BY <1>3, EnqueueRows DEF ReleaseLateApproval, SagaCommandKind
    <3>. QED  BY <1>3, <2>2, <3>1 DEF IgnoreFact, CancelOrder
  <2>4. PICK s \in stepForStatus(x.fact.type, x.row.status) :
          /\ s.kind = "advance"
          /\ order' = [status |-> s.to, reason |-> x.row.reason]
          /\ IF s.commandAfter = NoCommand
             THEN UNCHANGED <<rows, releaseReason>>
             ELSE enqueue(s.commandAfter, "credit_rejected")
    BY <2>3 DEF AdvanceOrder
  <2>5. s \in SAGA_STEPS /\ s.commandAfter = "credit.hold"
    <3>1. s \in SAGA_STEPS
      BY DEF stepForStatus
    <3>2. s.commandAfter \in SagaCommandKind
      BY <1>3, <2>4, <3>1, StepTypes
    <3>. QED  BY <1>3, <2>4, <3>1, <3>2, EnqueueRows DEF SagaCommandKind, NoCommand
  <2>6. order'.status = "stock_reserved"
    BY <2>4, <2>5, AdvanceMoves
  <2>. QED  BY <1>1, <2>6 DEF NoReason
<1>4. ASSUME NEW k \in Cancellers, cancels[k] # "compensate", cancels'[k] = "compensate"
      PROVE  order.status # "placed" /\ order.reason # "stock_rejected"
  <2>1. order.status \in CompensatingStatus
    BY <1>4, CancelStep
  <2>. QED  BY <2>1 DEF CompensatingStatus, placedLeft, NoReason
<1>5. ASSUME releaseReason # "order_cancelled", releaseReason' = "order_cancelled"
      PROVE  \E k \in Cancellers : cancels[k] = "compensate"
  <2>1. \E k \in Cancellers : CancelCompensate(k)
    BY <1>5, ReasonStep
  <2>. QED  BY <2>1 DEF CancelCompensate, goCancel
<1>. QED  BY <1>1, <1>2, <1>3, <1>4, <1>5 DEF placedLeft

LEMMA CancelledReleasedStep ==
  ASSUME MaxDeadLetters = 0, SoleWriterInv, HistoryInv, consumerWrites, cancelledReleased,
         placedLeft, [Next]_vars
  PROVE  cancelledReleased'
<1>. TypeOK /\ OnlyOwedWork
  BY DEF SoleWriterInv, BackingInv
<1>0. NothingUndone
  BY WorldStep
<1>1. ASSUME reservation = "released" PROVE reservation' = "released" /\ releaseReason' = releaseReason
  BY <1>0, <1>1, ReasonStep DEF NothingUndone, HistoryInv
<1>2. CASE order' = order
  BY <1>1, <1>2 DEF cancelledReleased
<1>3. ASSUME NEW s \in SAGA_STEPS, s.kind = "advance", order' = [status |-> s.to, reason |-> order.reason]
      PROVE  cancelledReleased'
  BY <1>3, AdvanceMoves DEF cancelledReleased
<1>4. ASSUME NEW x \in factTx, NEW s \in SAGA_STEPS, x.row = order,
             s.kind = "cancel", s.fact = x.fact.type, s.precondition = order.status,
             mayCancel(order.status, cancelReason(x.fact)),
             order' = [status |-> "cancelled", reason |-> cancelReason(x.fact)]
      PROVE  cancelledReleased'
  <2>1. order'.reason # "stock_rejected" =>
          reservation = "released" /\ (order'.reason = "credit_rejected" => releaseReason = "credit_rejected")
    BY <1>4, CancelMeans
  <2>. QED  BY <1>1, <2>1 DEF cancelledReleased
<1>. QED  BY <1>2, <1>3, <1>4, OrderMoves

LEMMA ApprovalKeptStep ==
  ASSUME MaxDeadLetters = 0, SoleWriterInv, HistoryInv, consumerWrites, placedLeft,
         cancelledReleased, approvalKept, [Next]_vars
  PROVE  approvalKept'
<1>. BackingInv /\ TypeOK /\ OnlyOwedWork /\ OpenFactIsNext
  BY DEF SoleWriterInv, BackingInv
<1>0. NothingUndone /\ LogsGrow /\ "billing" \in Topic /\ "credit.release" \in SagaCommandKind
  BY WorldStep, LogStep DEF Topic, SagaCommandKind
<1>1. releaseReason = "credit_rejected" => releaseReason' = "credit_rejected"
  BY ReasonStep DEF HistoryInv, NoReason
<1>2. CASE approvalHandled
  <2>1. CASE rows["credit.release"] # "absent" \/ releaseReason = "credit_rejected"
    BY <1>0, <1>1, <2>1 DEF approvalKept, NothingUndone
  <2>2. CASE order.status \notin {"placed", "stock_reserved", "cancelled"} /\ order' = order
    BY <2>2 DEF approvalKept
  <2>3. ASSUME order.status \notin {"placed", "stock_reserved", "cancelled"},
               NEW s \in SAGA_STEPS, s.kind = "advance", s.precondition = order.status,
               order' = [status |-> s.to, reason |-> order.reason]
        PROVE  approvalKept'
    BY <2>3, AdvanceMoves DEF approvalKept
  <2>4. ASSUME order.status \notin {"placed", "stock_reserved", "cancelled"},
               NEW x \in factTx, NEW s \in SAGA_STEPS, x.row = order,
               s.kind = "cancel", s.fact = x.fact.type, s.precondition = order.status,
               mayCancel(order.status, cancelReason(x.fact))
        PROVE  approvalKept'
    BY <1>0, <2>4, CancelMeans DEF approvalKept, NothingUndone
  <2>. QED  BY <1>2, <2>1, <2>2, <2>3, <2>4, OrderMoves DEF approvalKept
<1>3. CASE ~approvalHandled /\ approvalHandled'
  <2>1. PICK i \in DOMAIN topics'["billing"] :
          topics'["billing"][i].type = "credit.approved" /\ <<"billing", i>> \in processed'
    BY <1>3 DEF approvalHandled, isApproval
  <2>2. <<"billing", i>> \notin processed
    <3>1. SUFFICES ASSUME <<"billing", i>> \in processed PROVE FALSE
      OBVIOUS
    <3>2. i \in DOMAIN topics["billing"]
      BY <3>1 DEF HistoryInv
    <3>3. isApproval(i)
      BY <1>0, <2>1, <3>2 DEF LogsGrow, isApproval
    <3>. QED  BY <1>3, <3>1, <3>2, <3>3 DEF approvalHandled
  <2>3. PICK x \in factTx :
          /\ ReleaseLateApproval(x) \/ IgnoreFact(x) \/ AdvanceOrder(x) \/ CancelOrder(x)
          /\ processed' = processed \union {<<x.topic, offset[x.topic] + 1>>}
          /\ x.topic \in Topic
          /\ offset[x.topic] + 1 \in DOMAIN topics[x.topic]
          /\ x.fact = topics[x.topic][offset[x.topic] + 1]
    BY <2>1, <2>2, ProcessedStep
  <2>4. x.topic = "billing" /\ offset[x.topic] + 1 = i
    BY <2>1, <2>2, <2>3
  <2>5. x.fact.type = "credit.approved" /\ isApproval(i) /\ i \in DOMAIN topics["billing"]
    BY <1>0, <2>1, <2>3, <2>4 DEF LogsGrow, isApproval
  <2>6. hold # "none"
    BY <2>5 DEF BackingInv, OneApproval
  <2>7. x.row = order /\ order.status \in ORDER_STATUSES /\ order.status # "credit_approved"
        /\ order.reason \in CANCELLATION_REASONS \union {NoReason}
    BY DEF SoleWriterInv, TypeOK, OrderRow
  <2>8. order.status # "placed" /\ order.reason # "stock_rejected"
    BY <2>6 DEF HistoryInv, placedLeft
  <2>9. CASE ReleaseLateApproval(x)
    <3>1. rows'["credit.release"] # "absent"
      BY <1>0, <2>9, EnqueueRows DEF ReleaseLateApproval
    <3>. QED  BY <3>1 DEF approvalKept
  <2>10. CASE AdvanceOrder(x)
    <3>1. PICK s \in stepForStatus(x.fact.type, x.row.status) :
            s.kind = "advance" /\ order' = [status |-> s.to, reason |-> x.row.reason]
      BY <2>10 DEF AdvanceOrder
    <3>2. s \in SAGA_STEPS /\ s.fact = "credit.approved"
      BY <2>5 DEF stepForStatus
    <3>3. order'.status = "confirmed"
      BY <3>1, <3>2, AdvanceMoves
    <3>. QED  BY <3>3 DEF approvalKept
  <2>11. CASE CancelOrder(x)
    BY <2>5, <2>11 DEF CancelOrder, stepForStatus, SAGA_STEPS, Advance, Cancel
  <2>12. CASE IgnoreFact(x)
    <3>1. order' = order /\ ~lateApproval(x) /\ stepForStatus("credit.approved", order.status) = {}
      BY <2>5, <2>7, <2>12 DEF IgnoreFact
    <3>2. order.status # "stock_reserved"
      <4>1. Advance("credit.approved", "stock_reserved", "confirmed", "despatch.create")
              \in stepForStatus("credit.approved", "stock_reserved")
        BY DEF stepForStatus, SAGA_STEPS, Advance
      <4>. QED  BY <3>1, <4>1
    <3>3. CASE order.status = "cancelled"
      <4>1. order.reason = "credit_rejected"
        BY <2>5, <2>7, <2>8, <3>1, <3>3 DEF lateApproval, placedLeft, CANCELLATION_REASONS
      <4>2. releaseReason = "credit_rejected"
        BY <3>3, <4>1 DEF cancelledReleased
      <4>. QED  BY <1>1, <4>2 DEF approvalKept
    <3>4. CASE order.status # "cancelled"
      BY <2>8, <3>1, <3>2, <3>4 DEF approvalKept
    <3>. QED  BY <3>3, <3>4
  <2>. QED  BY <2>3, <2>9, <2>10, <2>11, <2>12
<1>4. CASE ~approvalHandled'
  BY <1>4 DEF approvalKept
<1>. QED  BY <1>2, <1>3, <1>4

LEMMA ReleaseOnItsWayStep ==
  ASSUME MaxDeadLetters = 0, MaxCalls > 0, SoleWriterInv, HistoryInv, consumerWrites,
         releaseOnItsWay, [Next]_vars
  PROVE  releaseOnItsWay'
<1>. BackingInv /\ TypeOK /\ OnlyOwedWork
  BY DEF SoleWriterInv, BackingInv
<1>0. NothingUndone /\ "credit.release" \in SagaCommandKind
  BY WorldStep DEF SagaCommandKind
<1>1. CASE rows'["credit.release"] = "absent"
  BY <1>1 DEF releaseOnItsWay
<1>2. CASE rows["credit.release"] = "absent" /\ rows'["credit.release"] # "absent"
  <2>1. HandleFact
    BY <1>0, <1>2, OtherRows
  <2>2. PICK x \in factTx :
          ReleaseLateApproval(x) \/ IgnoreFact(x) \/ AdvanceOrder(x) \/ CancelOrder(x)
    BY <2>1 DEF HandleFact
  <2>3. UNCHANGED <<hold, calls, requests>>
    BY <2>2 DEF ReleaseLateApproval, IgnoreFact, AdvanceOrder, CancelOrder, commitFact, rpc
  <2>4. CASE ReleaseLateApproval(x)
    <3>1. hold # "none"
      BY <2>4, OpenFactMeans DEF ReleaseLateApproval, lateApproval, BackingInv, OneApproval
    <3>2. rows'["credit.release"] = "pending"
      BY <1>0, <1>2, <2>4 DEF ReleaseLateApproval, enqueue, TypeOK
    <3>. QED  BY <1>0, <1>2, <2>3, <3>1, <3>2 DEF releaseOnItsWay, HistoryInv
  <2>5. CASE AdvanceOrder(x)
    <3>1. PICK s \in stepForStatus(x.fact.type, x.row.status) :
            /\ s.kind = "advance"
            /\ IF s.commandAfter = NoCommand
               THEN UNCHANGED <<rows, releaseReason>>
               ELSE enqueue(s.commandAfter, "credit_rejected")
      BY <2>5 DEF AdvanceOrder
    <3>2. s \in SAGA_STEPS /\ s.precondition = order.status
      BY DEF stepForStatus, SoleWriterInv
    <3>3. s.commandAfter = "credit.release" /\ rows'["credit.release"] = "pending"
      BY <1>0, <1>2, <3>1 DEF enqueue, TypeOK
    <3>4. order.status = "confirmed"
      BY <3>1, <3>2, <3>3, AdvanceMoves DEF SoleWriterInv
    <3>5. hold # "none"
      BY <3>4 DEF SoleWriterInv, BackingInv, ReleaseExcludesDespatch, approvalHandled, OneApproval
    <3>. QED  BY <1>0, <1>2, <2>3, <3>3, <3>5 DEF releaseOnItsWay, HistoryInv
  <2>. QED  BY <1>2, <2>2, <2>4, <2>5 DEF IgnoreFact, CancelOrder
<1>3. CASE rows["credit.release"] # "absent"
  <2>1. hold # "none" /\ hold' # "none" /\ rows["credit.release"] # "rejected"
    BY <1>0, <1>3 DEF releaseOnItsWay, NothingUndone
  <2>2. hold' \in {"held", "open"} => hold \in {"held", "open"} /\ ~ReleaseCredit
    BY <2>1 DEF Next, vars, SkipFact, ReadFact, HandleFact, ReleaseLateApproval, IgnoreFact,
       AdvanceOrder, CancelOrder, commitFact, DeadLetterFact, CancelRead, CancelCompensate,
       CancelTxRead, CancelTxWrite, Issue, LoseRequest, Park, ReadFirstPark, RecordSagaFailure,
       Restart, Reserve, Release, CreateDespatch, HoldCredit, ReleaseCredit, IssueInvoice,
       RegisterPayment
  <2>3. /\ rows'["credit.release"] # "rejected"
        /\ ~ReleaseCredit => rows'["credit.release"] = rows["credit.release"]
    <3>1. ASSUME NEW c \in SagaCommandKind, NEW reason, enqueue(c, reason)
          PROVE  rows'["credit.release"] = rows["credit.release"]
      BY <1>0, <1>3, <3>1 DEF enqueue, TypeOK
    <3>2. ASSUME NEW c \in SagaCommandKind, NEW mark, answer(c, mark)
          PROVE  c # "credit.release" => rows'["credit.release"] = rows["credit.release"]
      BY <1>0, <3>2 DEF answer, TypeOK
    <3>3. CASE ReleaseCredit
      BY <1>0, <2>1, <3>3 DEF ReleaseCredit, answer, TypeOK
    <3>4. CASE Reserve \/ Release \/ CreateDespatch \/ HoldCredit \/ IssueInvoice
      <4>1. \E c \in SagaCommandKind, mark \in {"sent", "rejected"} : answer(c, mark) /\ c # "credit.release"
        BY <3>4 DEF Reserve, Release, CreateDespatch, HoldCredit, IssueInvoice, SagaCommandKind
      <4>. QED  BY <2>1, <3>2, <4>1
    <3>5. CASE HandleFact
      <4>1. PICK x \in factTx :
              ReleaseLateApproval(x) \/ IgnoreFact(x) \/ AdvanceOrder(x) \/ CancelOrder(x)
        BY <3>5 DEF HandleFact
      <4>2. CASE AdvanceOrder(x)
        <5>1. PICK s \in SAGA_STEPS :
                IF s.commandAfter = NoCommand
                THEN UNCHANGED <<rows, releaseReason>>
                ELSE enqueue(s.commandAfter, "credit_rejected")
          BY <4>2 DEF AdvanceOrder, stepForStatus
        <5>. QED  BY <2>1, <3>1, <5>1, StepTypes
      <4>. QED  BY <1>0, <2>1, <3>1, <4>1, <4>2 DEF ReleaseLateApproval, IgnoreFact, CancelOrder
    <3>6. ASSUME NEW k \in Cancellers, CancelCompensate(k)
          PROVE  rows'["credit.release"] = rows["credit.release"]
      BY <3>1, <3>6 DEF CancelCompensate, SagaCommandKind
    <3>7. \A c \in SagaCommandKind : ~Park(c)
      BY NeverParks
    <3>8. CASE UNCHANGED rows
      BY <2>1, <3>8
    <3>. QED
      BY <2>1, <3>3, <3>4, <3>5, <3>6, <3>7, <3>8
         DEF Next, vars, SkipFact, ReadFact, DeadLetterFact, CancelRead, CancelTxRead, CancelTxWrite,
             Issue, LoseRequest, ReadFirstPark, RecordSagaFailure, Restart, RegisterPayment, ordersDb
  <2>4. ASSUME ~ReleaseCredit, requests["credit.release"] > 0 \/ calls["credit.release"] < MaxCalls
        PROVE  requests'["credit.release"] > 0 \/ calls'["credit.release"] < MaxCalls
    <3>1. ASSUME NEW c \in SagaCommandKind, Issue(c)
          PROVE  requests'["credit.release"] > 0 \/ calls'["credit.release"] < MaxCalls
      <4>1. CASE c = "credit.release"
        BY <3>1, <4>1 DEF Issue, TypeOK
      <4>2. CASE c # "credit.release"
        BY <1>0, <2>4, <3>1, <4>2 DEF Issue, TypeOK
      <4>. QED  BY <4>1, <4>2
    <3>2. ASSUME NEW c \in SagaCommandKind, LoseRequest(c)
          PROVE  requests'["credit.release"] > 0 \/ calls'["credit.release"] < MaxCalls
      <4>1. CASE c = "credit.release"
        BY <3>2, <4>1 DEF LoseRequest
      <4>2. CASE c # "credit.release"
        BY <1>0, <2>4, <3>2, <4>2 DEF LoseRequest, TypeOK
      <4>. QED  BY <4>1, <4>2
    <3>3. ASSUME NEW c \in SagaCommandKind, NEW mark, answer(c, mark), c # "credit.release"
          PROVE  requests'["credit.release"] > 0 \/ calls'["credit.release"] < MaxCalls
      BY <1>0, <2>4, <3>3 DEF answer, TypeOK
    <3>4. CASE Reserve \/ Release \/ CreateDespatch \/ HoldCredit \/ IssueInvoice
      <4>1. \E c \in SagaCommandKind, mark \in {"sent", "rejected"} : answer(c, mark) /\ c # "credit.release"
        BY <3>4 DEF Reserve, Release, CreateDespatch, HoldCredit, IssueInvoice, SagaCommandKind
      <4>. QED  BY <3>3, <4>1
    <3>5. CASE UNCHANGED rpc
      BY <2>4, <3>5 DEF rpc
    <3>. QED
      BY <2>4, <3>1, <3>2, <3>4, <3>5
         DEF Next, vars, SkipFact, ReadFact, HandleFact, ReleaseLateApproval, IgnoreFact, AdvanceOrder,
             CancelOrder, commitFact, DeadLetterFact, CancelRead, CancelCompensate, CancelTxRead,
             CancelTxWrite, Park, ReadFirstPark, RecordSagaFailure, Restart, RegisterPayment, rpc
  <2>. QED  BY <1>3, <2>1, <2>2, <2>3, <2>4 DEF releaseOnItsWay
<1>. QED  BY <1>1, <1>2, <1>3

LEMMA UnwindInit ==
  ASSUME Init, MaxCalls > 0
  PROVE  UnwindInv
<1>1. HistoryInv
  BY HistoryInit
<1>2. approvalsHandled /\ ~approvalHandled
  BY DEF Init, approvalsHandled, approvalHandled, Topic
<1>3. placedLeft /\ cancelledReleased
  BY DEF Init, placedLeft, cancelledReleased, SagaCommandKind, NoReason
<1>4. approvalKept /\ releaseOnItsWay
  BY <1>2 DEF Init, approvalKept, releaseOnItsWay, SagaCommandKind
<1>. QED  BY <1>1, <1>2, <1>3, <1>4 DEF UnwindInv

LEMMA UnwindStep ==
  ASSUME AtMostOneOperator, MaxDeadLetters = 0, MaxLostFacts = 0, MaxCalls > 0,
         SoleWriterInv, UnwindInv, [Next]_vars
  PROVE  UnwindInv'
<1>. BackingInv /\ TypeOK
  BY DEF SoleWriterInv, BackingInv
<1>1. HistoryInv' /\ approvalsHandled'
  BY HistoryStep, ApprovalsHandledStep DEF UnwindInv
<1>2. ASSUME consumerWrites'
      PROVE  placedLeft' /\ cancelledReleased' /\ approvalKept' /\ releaseOnItsWay'
  <2>1. consumerWrites
    BY <1>2, ConsumerWroteBefore
  <2>2. HistoryInv /\ placedLeft /\ cancelledReleased /\ approvalKept /\ releaseOnItsWay
    BY <2>1 DEF UnwindInv
  <2>. QED
    BY <1>2, <2>1, <2>2, PlacedLeftStep, CancelledReleasedStep, ApprovalKeptStep, ReleaseOnItsWayStep
<1>. QED  BY <1>1, <1>2 DEF UnwindInv

(* At rest the approval of whatever credit is held has been handled, so    *)
(* its release is owed, and what is owed has been carried out.             *)
LEMMA UnwindImplies ==
  ASSUME SoleWriterInv, UnwindInv
  PROVE  AcceptedCancelUnwinds
<1>. SUFFICES ASSUME Quiescent, releaseReason = "order_cancelled", order.status = "cancelled"
              PROVE  reservation = "released" /\ hold \notin {"held", "open"}
  BY DEF AcceptedCancelUnwinds
<1>. BackingInv /\ TypeOK
  BY DEF SoleWriterInv, BackingInv
<1>. {"billing"} \subseteq Topic /\ "credit.release" \in SagaCommandKind
  BY DEF Topic, SagaCommandKind
<1>1. HistoryInv /\ placedLeft /\ cancelledReleased /\ approvalKept /\ releaseOnItsWay
  BY DEF UnwindInv, consumerWrites
<1>2. reservation = "released"
  BY <1>1 DEF placedLeft, cancelledReleased
<1>3. ASSUME hold \in {"held", "open"} PROVE FALSE
  <2>1. PICK i \in DOMAIN topics["billing"] : isApproval(i)
    BY <1>1, <1>3 DEF HistoryInv
  <2>2. offset["billing"] = Len(topics["billing"]) /\ topics["billing"] \in Seq(Fact)
    BY DEF Quiescent, TypeOK
  <2>3. i <= offset["billing"]
    BY <2>1, <2>2
  <2>4. approvalHandled
    BY <2>1, <2>3 DEF UnwindInv, approvalsHandled, approvalHandled
  <2>5. rows["credit.release"] # "absent"
    BY <1>1, <2>4 DEF approvalKept
  <2>6. /\ rows["credit.release"] \in {"pending", "parked"}
        /\ requests["credit.release"] > 0 \/ calls["credit.release"] < MaxCalls
    BY <1>1, <1>3, <2>5 DEF releaseOnItsWay, TypeOK, RowStatus
  <2>. QED  BY <2>6, SagaAssumption DEF Quiescent
<1>. QED  BY <1>2, <1>3

(* An accepted compensating cancellation unwinds everything: whenever its  *)
(* saga has come to rest cancelled, the stock is back and no credit is     *)
(* held, also when the approval overtakes the cancellation or is given     *)
(* after it (saga-fact-handler.ts, the late approval).  One operator, no   *)
(* dead letters; any decisions of the responders, requests and restarts.   *)
THEOREM AcceptedCancellationUnwinds ==
  ASSUME AtMostOneOperator, MaxDeadLetters = 0, MaxLostFacts = 0, MaxCalls > 0
  PROVE  Spec => []AcceptedCancelUnwinds
<1>1. Init => SoleWriterInv /\ UnwindInv
  BY SoleWriterInit, UnwindInit
<1>2. SoleWriterInv /\ UnwindInv /\ [Next]_vars => (SoleWriterInv /\ UnwindInv)'
  BY SoleWriterStep, UnwindStep
<1>3. SoleWriterInv /\ UnwindInv => AcceptedCancelUnwinds
  BY UnwindImplies
<1>. QED  BY <1>1, <1>2, <1>3, PTL DEF Spec

-----------------------------------------------------------------------------
(* The automatic saga strands nothing.                                     *)

(* What has been announced stays announced, the fact in hand included.     *)
LEMMA AnnouncedStays ==
  ASSUME LogsGrow, NEW t \in Topic, NEW type, announced(t, type)
  PROVE  announced(t, type)'
BY DEF LogsGrow, announced

LEMMA OpenFactAnnounced ==
  ASSUME BackingInv, NEW x \in factTx
  PROVE  /\ x.fact.type = "stock.rejected" => announced("fulfillment", "stock.rejected")
         /\ x.fact.type = "credit.rejected" => announced("billing", "credit.rejected")
<1>1. /\ x.topic \in Topic /\ offset[x.topic] + 1 \in DOMAIN topics[x.topic]
      /\ x.fact = topics[x.topic][offset[x.topic] + 1]
  BY DEF BackingInv, TypeOK, FactTx, OpenFactIsNext, nextFact
<1>2. /\ x.fact.type = "stock.rejected" => x.topic = "fulfillment"
      /\ x.fact.type = "credit.rejected" => x.topic = "billing"
  BY <1>1 DEF BackingInv, FactsOnTheirTopic, FactsOf, Topic, SkippedFacts
<1>. QED  BY <1>1, <1>2 DEF announced

(* Only a refused credit owes the release of the stock.                    *)
LEMMA OwedByRefusal ==
  ASSUME NEW s \in SAGA_STEPS
  PROVE  s.commandAfter = "stock.release" => s.fact = "credit.rejected"
BY DEF SAGA_STEPS, Advance, Cancel, NoCommand

LEMMA StrandedStep ==
  ASSUME Cancellers = {}, MaxDeadLetters = 0, SoleWriterInv, HistoryInv, StrandedInv, [Next]_vars
  PROVE  StrandedInv'
<1>. BackingInv /\ TypeOK /\ OnlyOwedWork /\ consumerWrites /\ consumerWrites' /\ AtMostOneOperator
  BY DEF SoleWriterInv, BackingInv, consumerWrites, AtMostOneOperator
<1>0. LogsGrow /\ {"fulfillment", "billing"} \subseteq Topic /\ "stock.release" \in SagaCommandKind
  BY LogStep DEF Topic, SagaCommandKind
<1>1. placedLeft' /\ cancelledReleased'
  BY PlacedLeftStep, CancelledReleasedStep DEF StrandedInv
<1>2. ASSUME rows["stock.release"] = "absent", rows'["stock.release"] # "absent"
      PROVE  announced("billing", "credit.rejected")
  <2>1. HandleFact
    <3>1. SUFFICES ASSUME ~HandleFact PROVE FALSE
      OBVIOUS
    <3>2. ASSUME NEW c \in SagaCommandKind, Park(c) PROVE FALSE
      BY <3>2, NeverParks
    <3>3. CASE Reserve \/ Release \/ CreateDespatch \/ HoldCredit \/ ReleaseCredit \/ IssueInvoice
      <4>1. \E c \in SagaCommandKind, mark \in {"sent", "rejected"} : answer(c, mark)
        BY <3>3 DEF Reserve, Release, CreateDespatch, HoldCredit, ReleaseCredit, IssueInvoice,
                    SagaCommandKind
      <4>. QED  BY <1>0, <1>2, <4>1, AnswerRows DEF OnlyOwedWork
    <3>4. rows' # rows
      BY <1>2
    <3>. QED
      BY <3>1, <3>2, <3>3, <3>4
         DEF Next, vars, SkipFact, ReadFact, DeadLetterFact, Issue, LoseRequest, ReadFirstPark,
             RecordSagaFailure, Restart, RegisterPayment, ordersDb
  <2>2. PICK x \in factTx :
          ReleaseLateApproval(x) \/ IgnoreFact(x) \/ AdvanceOrder(x) \/ CancelOrder(x)
    BY <2>1 DEF HandleFact
  <2>3. \E s \in SAGA_STEPS : s.fact = x.fact.type /\ "stock.release" = s.commandAfter
    BY <1>0, <1>2, <2>2, HandleRows
  <2>. QED  BY <2>3, OwedByRefusal, OpenFactAnnounced
<1>3. rows'["stock.release"] # "absent" => announced("billing", "credit.rejected")'
  BY <1>0, <1>2, AnnouncedStays DEF StrandedInv
<1>4. ASSUME order'.reason = "stock_rejected", order.reason # "stock_rejected"
      PROVE  announced("fulfillment", "stock.rejected")
  <2>1. PICK x \in factTx, s \in SAGA_STEPS :
          /\ x.row = order /\ s.kind = "cancel" /\ s.fact = x.fact.type
          /\ s.precondition = order.status
          /\ mayCancel(order.status, cancelReason(x.fact))
          /\ order' = [status |-> "cancelled", reason |-> cancelReason(x.fact)]
    BY <1>4, OrderMoves
  <2>2. order.status = "placed"
    BY <1>4, <2>1, CancelMeans
  <2>3. x.fact.type = "stock.rejected"
    BY <2>1, <2>2, CancelMoves
  <2>. QED  BY <2>3, OpenFactAnnounced
<1>5. order'.reason = "stock_rejected" => announced("fulfillment", "stock.rejected")'
  BY <1>0, <1>4, AnnouncedStays DEF StrandedInv
<1>. QED  BY <1>1, <1>3, <1>5 DEF StrandedInv

(* Compensation is complete: an automatic saga leaves a cancelled order    *)
(* with neither stock nor credit tied up, however requests are lost or     *)
(* repeated and whenever the process dies, but for what a responder        *)
(* granted after it had refused it (saga-steps.ts, the compensating        *)
(* steps).                                                                 *)
THEOREM AutomaticStrandsNothing ==
  ASSUME Cancellers = {}, MaxDeadLetters = 0
  PROVE  Spec => []NothingStranded
<1>1. Init => SoleWriterInv /\ HistoryInv /\ StrandedInv
  <2>1. Init => StrandedInv
    BY DEF Init, StrandedInv, placedLeft, cancelledReleased, SagaCommandKind, NoReason
  <2>. QED  BY <2>1, SoleWriterInit, HistoryInit
<1>2. /\ SoleWriterInv /\ HistoryInv /\ StrandedInv /\ [Next]_vars
      => (SoleWriterInv /\ HistoryInv /\ StrandedInv)'
  <2>1. SoleWriterInv => BackingInv
    BY DEF SoleWriterInv
  <2>. QED  BY <2>1, SoleWriterStep, HistoryStep, StrandedStep DEF AtMostOneOperator
<1>3. SoleWriterInv /\ HistoryInv /\ StrandedInv => NothingStranded
  <2>. SUFFICES ASSUME SoleWriterInv, HistoryInv, StrandedInv, order.status = "cancelled"
                PROVE  /\ reservation = "reserved" => announced("fulfillment", "stock.rejected")
                       /\ hold \in {"held", "open"} => announced("billing", "credit.rejected")
    BY DEF NothingStranded
  <2>1. CASE order.reason = "stock_rejected"
    <3>1. hold = "none"
      BY <2>1 DEF HistoryInv, StrandedInv, placedLeft
    <3>. QED  BY <2>1, <3>1 DEF StrandedInv
  <2>2. CASE order.reason # "stock_rejected"
    <3>1. reservation = "released"
      BY <2>2 DEF StrandedInv, cancelledReleased
    <3>. QED  BY <3>1 DEF HistoryInv, StrandedInv
  <2>. QED  BY <2>1, <2>2
<1>. QED  BY <1>1, <1>2, <1>3, PTL DEF Spec

-----------------------------------------------------------------------------
(* The responders against the contracts of Fulfillment and Billing.        *)

StockStep == [Stock!ContractNext]_(Stock!contractVars)
CreditStep == [Credit!ContractNext]_(Credit!contractVars)

(* A fact appended to Fulfillment's topic appends its type to the facts.   *)
LEMMA StockPublished ==
  ASSUME topics \in [Topic -> Seq(Fact)], NEW f \in Fact, emit("fulfillment", f)
  PROVE  Stock!publish("order", f.type) /\ topics'["billing"] = topics["billing"]
<1>. DEFINE s == topics["fulfillment"]
            T == {g.type : g \in Fact}
            u == [i \in DOMAIN s |-> s[i].type]
            v == [i \in DOMAIN s' |-> s'[i].type]
<1>1. s \in Seq(Fact) /\ s' = Append(s, f) /\ topics'["billing"] = topics["billing"]
  BY DEF emit, Topic
<1>2. u \in Seq(T) /\ f.type \in T
  BY <1>1
<1>3. v = Append(u, f.type)
  <2>. HIDE DEF T
  <2>1. /\ DOMAIN s = 1 .. Len(s) /\ Len(s) \in Nat
        /\ DOMAIN s' = 1 .. (Len(s) + 1)
        /\ \A i \in 1 .. Len(s) : s'[i] = s[i]
        /\ s'[Len(s) + 1] = f
    BY <1>1
  <2>. HIDE DEF s
  <2>2. DOMAIN u = 1 .. Len(s) /\ Len(u) = Len(s)
    BY <2>1, <1>2
  <2>3. Append(u, f.type) = [i \in 1 .. (Len(s) + 1) |-> IF i <= Len(s) THEN u[i] ELSE f.type]
    BY <1>2, <2>1, <2>2
  <2>4. v = [i \in 1 .. (Len(s) + 1) |-> s'[i].type]
    BY <2>1
  <2>5. \A i \in 1 .. (Len(s) + 1) : s'[i].type = IF i <= Len(s) THEN u[i] ELSE f.type
    BY <2>1
  <2>. QED  BY <2>3, <2>4, <2>5
<1>4. typesOn("fulfillment") = u /\ typesOn("fulfillment")' = v
  BY DEF typesOn
<1>. HIDE DEF u, v
<1>5. only(typesOn("fulfillment"))' =
        [only(typesOn("fulfillment")) EXCEPT !["order"] = Append(@, f.type)]
  BY <1>3, <1>4 DEF only
<1>. QED  BY <1>1, <1>5 DEF Stock!publish

(* The contracts' view of Billing's facts.                                 *)
LEMMA CreditPublished ==
  ASSUME topics \in [Topic -> Seq(Fact)], NEW n \in Seq(Fact),
         topics' = [topics EXCEPT !["billing"] = @ \o n]
  PROVE  Credit!publish("order", n) /\ typesOn("fulfillment")' = typesOn("fulfillment")
<1>1. /\ topics'["billing"] = topics["billing"] \o n
      /\ topics'["fulfillment"] = topics["fulfillment"]
  BY DEF Topic
<1>2. only(topics["billing"])' = [only(topics["billing"]) EXCEPT !["order"] = @ \o n]
  BY <1>1 DEF only
<1>. QED  BY <1>1, <1>2 DEF Credit!publish, typesOn

LEMMA OneFactPublished ==
  ASSUME topics \in [Topic -> Seq(Fact)], NEW f \in Fact, emit("billing", f)
  PROVE  Credit!publish("order", <<f>>) /\ typesOn("fulfillment")' = typesOn("fulfillment")
<1>1. topics["billing"] \in Seq(Fact) /\ "billing" \in Topic
  BY DEF Topic
<1>2. Append(topics["billing"], f) = topics["billing"] \o <<f>>
  BY <1>1
<1>3. topics' = [topics EXCEPT !["billing"] = @ \o <<f>>]
  BY <1>1, <1>2 DEF emit
<1>4. <<f>> \in Seq(Fact)
  OBVIOUS
<1>. QED  BY <1>3, <1>4, CreditPublished

LEMMA Unseen ==
  /\ reservation' = reservation /\ typesOn("fulfillment")' = typesOn("fulfillment") => StockStep
  /\ UNCHANGED <<hold, invoice>> /\ topics'["billing"] = topics["billing"] => CreditStep
BY DEF StockStep, CreditStep, Stock!contractVars, Credit!contractVars, only

LEMMA StockMoves ==
  ASSUME topics \in [Topic -> Seq(Fact)], NEW f \in Fact, emit("fulfillment", f),
         NEW from, NEW to, reservation = from, reservation' = to
  PROVE  Stock!move("order", from, to, f.type)
<1>1. Stock!publish("order", f.type)
  BY StockPublished
<1>2. only(reservation)["order"] = from
  BY DEF only
<1>3. only(reservation)' = [only(reservation) EXCEPT !["order"] = to]
  BY DEF only
<1>. QED  BY <1>1, <1>2, <1>3 DEF Stock!move

LEMMA FulfillmentKeeps ==
  ASSUME TypeOK, Reserve \/ Release \/ CreateDespatch
  PROVE  StockStep /\ CreditStep
<1>1. topics \in [Topic -> Seq(Fact)] /\ UNCHANGED <<hold, invoice>>
  BY DEF TypeOK, Reserve, Release, CreateDespatch
<1>2. /\ fact("stock.reserved") \in Fact /\ fact("stock.rejected") \in Fact
      /\ fact("order.despatched") \in Fact
      /\ releaseFact("stock.released", releaseReason) \in Fact
  BY FactTypes, FactIsFact, ReleaseFactIsFact DEF TypeOK, ReleaseReason
<1>3. /\ \A type : fact(type).type = type
      /\ \A type, reason : releaseFact(type, reason).type = type
  BY DEF fact, releaseFact
<1>4. ASSUME NEW f \in Fact, emit("fulfillment", f) PROVE CreditStep
  BY <1>1, <1>4, StockPublished, Unseen
<1>5. CASE UNCHANGED <<reservation, topics>>
  BY <1>1, <1>5, Unseen DEF typesOn
<1>6. CASE reservation = "none" /\ reservation' = "reserved"
           /\ emit("fulfillment", fact("stock.reserved"))
  <2>1. Stock!move("order", "none", "reserved", "stock.reserved")
    BY <1>1, <1>2, <1>3, <1>6, StockMoves
  <2>. QED  BY <1>2, <1>4, <1>6, <2>1 DEF StockStep, Stock!ContractNext
<1>7. CASE reservation = "reserved" /\ reservation' = "released"
           /\ emit("fulfillment", releaseFact("stock.released", releaseReason))
  <2>1. Stock!move("order", "reserved", "released", "stock.released")
    BY <1>1, <1>2, <1>3, <1>7, StockMoves
  <2>. QED  BY <1>2, <1>4, <1>7, <2>1 DEF StockStep, Stock!ContractNext
<1>8. CASE reservation = "reserved" /\ reservation' = "consumed"
           /\ emit("fulfillment", fact("order.despatched"))
  <2>1. Stock!move("order", "reserved", "consumed", "order.despatched")
    BY <1>1, <1>2, <1>3, <1>8, StockMoves
  <2>. QED  BY <1>2, <1>4, <1>8, <2>1 DEF StockStep, Stock!ContractNext
<1>9. CASE reservation = "none" /\ reservation' = "none"
           /\ emit("fulfillment", fact("stock.rejected"))
  <2>1. Stock!publish("order", "stock.rejected")
    BY <1>1, <1>2, <1>3, <1>9, StockPublished
  <2>2. Stock!Refuse("order")
    BY <1>9, <2>1 DEF Stock!Refuse, only
  <2>. QED  BY <1>2, <1>4, <1>9, <2>2 DEF StockStep, Stock!ContractNext
<1>. QED
  BY <1>5, <1>6, <1>7, <1>8, <1>9 DEF Reserve, Release, CreateDespatch

LEMMA BillingKeeps ==
  ASSUME TypeOK, InvoicedOpensHold,
         HoldCredit \/ ReleaseCredit \/ IssueInvoice \/ RegisterPayment
  PROVE  StockStep /\ CreditStep
<1>1. topics \in [Topic -> Seq(Fact)] /\ reservation' = reservation
  BY DEF TypeOK, HoldCredit, ReleaseCredit, IssueInvoice, RegisterPayment
<1>2. /\ fact("credit.approved") \in Fact /\ fact("credit.rejected") \in Fact
      /\ fact("invoice.issued") \in Fact /\ fact("payment.received") \in Fact
      /\ releaseFact("credit.released", "order_cancelled") \in Fact
      /\ releaseFact("credit.released", "invoice_paid") \in Fact
  BY FactTypes, FactIsFact, ReleaseFactIsFact DEF ReleaseReason
<1>3. /\ \A type : fact(type) = Credit!fact(type)
      /\ \A reason : releaseFact("credit.released", reason) = Credit!releaseFact(reason)
  BY DEF fact, releaseFact, Credit!fact, Credit!releaseFact, NoReason
<1>4. /\ \A h : hold' = h => Credit!moveHold("order", creditOf(h))
      /\ \A i : invoice' = i => Credit!moveInvoice("order", i)
      /\ only(creditOf(hold))["order"] = creditOf(hold) /\ only(invoice)["order"] = invoice
      /\ hold' = hold => only(creditOf(hold))' = only(creditOf(hold))
      /\ invoice' = invoice => only(invoice)' = only(invoice)
  BY DEF Credit!moveHold, Credit!moveInvoice, only
<1>5. /\ creditOf("none") = "none" /\ creditOf("held") = "held" /\ creditOf("open") = "open"
      /\ creditOf("released_cancel") = "released" /\ creditOf("released_paid") = "released"
  BY DEF creditOf
<1>6. ASSUME NEW f \in Fact, emit("billing", f)
      PROVE  Credit!publish("order", <<f>>) /\ StockStep
  BY <1>1, <1>6, OneFactPublished, Unseen
<1>7. ASSUME Credit!Refuse("order") \/ Credit!Approve("order") \/ Credit!GiveBack("order")
               \/ Credit!IssueInvoice("order") \/ Credit!ReceivePayment("order")
      PROVE  CreditStep
  BY <1>7 DEF CreditStep, Credit!ContractNext
<1>8. CASE UNCHANGED <<hold, invoice, topics>>
  BY <1>1, <1>8, Unseen DEF typesOn
<1>9. CASE hold = "none" /\ UNCHANGED <<hold, invoice>> /\ emit("billing", fact("credit.rejected"))
  <2>1. Credit!Refuse("order")
    BY <1>2, <1>3, <1>4, <1>5, <1>6, <1>9 DEF Credit!Refuse
  <2>. QED  BY <1>2, <1>6, <1>7, <1>9, <2>1
<1>10. CASE hold = "none" /\ hold' = "held" /\ invoice' = invoice
            /\ emit("billing", fact("credit.approved"))
  <2>1. Credit!Approve("order")
    BY <1>2, <1>3, <1>4, <1>5, <1>6, <1>10 DEF Credit!Approve
  <2>. QED  BY <1>2, <1>6, <1>7, <1>10, <2>1
<1>11. CASE hold \in {"held", "open"} /\ hold' = "released_cancel" /\ invoice' = invoice
            /\ emit("billing", releaseFact("credit.released", "order_cancelled"))
  <2>1. Credit!GiveBack("order")
    BY <1>2, <1>3, <1>4, <1>5, <1>6, <1>11 DEF Credit!GiveBack
  <2>. QED  BY <1>2, <1>6, <1>7, <1>11, <2>1
<1>12. CASE invoice = "none" /\ hold = "held" /\ invoice' = "issued" /\ hold' = "open"
            /\ emit("billing", fact("invoice.issued"))
  <2>1. Credit!IssueInvoice("order")
    BY <1>2, <1>3, <1>4, <1>5, <1>6, <1>12 DEF Credit!IssueInvoice
  <2>. QED  BY <1>2, <1>6, <1>7, <1>12, <2>1
<1>13. CASE RegisterPayment
  <2>1. invoice = "issued" /\ invoice' = "paid"
    BY <1>13 DEF RegisterPayment
  <2>2. hold \in {"open", "released_cancel", "released_paid"}
    BY <2>1 DEF InvoicedOpensHold, TypeOK, HoldStatus
  <2>3. CASE hold = "open"
    <3>. DEFINE a == fact("payment.received")
                b == releaseFact("credit.released", "invoice_paid")
                s == topics["billing"]
    <3>1. hold' = "released_paid" /\ topics' = [topics EXCEPT !["billing"] = Append(Append(@, a), b)]
      BY <1>13, <2>3 DEF RegisterPayment
    <3>2. s \in Seq(Fact) /\ a \in Fact /\ b \in Fact /\ "billing" \in Topic
      BY <1>1, <1>2 DEF Topic
    <3>3. Append(Append(s, a), b) = s \o <<a, b>> /\ <<a, b>> \in Seq(Fact)
      <4>. HIDE DEF a, b, s
      <4>. QED  BY <3>2
    <3>4. topics' = [topics EXCEPT !["billing"] = @ \o <<a, b>>]
      BY <3>1, <3>3
    <3>5. Credit!publish("order", <<a, b>>) /\ typesOn("fulfillment")' = typesOn("fulfillment")
      BY <1>1, <3>3, <3>4, CreditPublished
    <3>6. Credit!publish("order", <<Credit!fact("payment.received"), Credit!releaseFact("invoice_paid")>>)
      BY <1>3, <3>5
    <3>7. Credit!ReceivePayment("order")
      BY <1>4, <1>5, <2>1, <2>3, <3>1, <3>6 DEF Credit!ReceivePayment
    <3>. QED  BY <1>1, <1>7, <3>5, <3>7, Unseen
  <2>4. CASE hold # "open"
    <3>1. hold' = hold /\ emit("billing", fact("payment.received"))
      BY <1>13, <2>2, <2>4 DEF RegisterPayment
    <3>2. Credit!ReceivePayment("order")
      BY <1>2, <1>3, <1>4, <1>5, <1>6, <2>1, <2>2, <2>4, <3>1 DEF Credit!ReceivePayment
    <3>. QED  BY <1>2, <1>6, <1>7, <3>1, <3>2
  <2>. QED  BY <2>3, <2>4
<1>. QED
  BY <1>8, <1>9, <1>10, <1>11, <1>12, <1>13 DEF HoldCredit, ReleaseCredit, IssueInvoice

(* Orders' own facts are none of the contracts' business.                  *)
LEMMA OrdersKeeps ==
  ASSUME TypeOK, UNCHANGED <<reservation, hold, invoice>>,
         UNCHANGED topics \/ \E type \in SkippedFacts : emit("orders", fact(type))
  PROVE  StockStep /\ CreditStep
<1>1. topics'["fulfillment"] = topics["fulfillment"] /\ topics'["billing"] = topics["billing"]
  BY DEF TypeOK, emit, Topic
<1>. QED  BY <1>1, Unseen DEF typesOn

LEMMA RespondersStep ==
  ASSUME TypeOK, InvoicedOpensHold, [Next]_vars
  PROVE  StockStep /\ CreditStep
<1>1. CASE HandleFact
  <2>1. /\ UNCHANGED <<reservation, hold, invoice>>
        /\ UNCHANGED topics \/ \E type \in SkippedFacts : emit("orders", fact(type))
    BY <1>1, EmitTransitionCases
       DEF HandleFact, ReleaseLateApproval, IgnoreFact, AdvanceOrder, CancelOrder, commitFact
  <2>. QED  BY <2>1, OrdersKeeps
<1>2. ASSUME NEW k \in Cancellers, CancelTxWrite(k) PROVE StockStep /\ CreditStep
  <2>1. /\ UNCHANGED <<reservation, hold, invoice>>
        /\ UNCHANGED topics \/ \E type \in SkippedFacts : emit("orders", fact(type))
    BY <1>2, EmitTransitionCases DEF CancelTxWrite
  <2>. QED  BY <2>1, OrdersKeeps
<1>3. ASSUME NEW p \in parkTx, RecordSagaFailure(p) PROVE StockStep /\ CreditStep
  <2>1. "order.saga_failed" \in SkippedFacts
    BY DEF SkippedFacts
  <2>2. UNCHANGED <<reservation, hold, invoice>> /\ emit("orders", fact("order.saga_failed"))
    BY <1>3 DEF RecordSagaFailure
  <2>. QED  BY <2>1, <2>2, OrdersKeeps
<1>4. CASE Reserve \/ Release \/ CreateDespatch
  BY <1>4, FulfillmentKeeps
<1>5. CASE HoldCredit \/ ReleaseCredit \/ IssueInvoice \/ RegisterPayment
  BY <1>5, BillingKeeps
<1>6. CASE UNCHANGED <<reservation, hold, invoice, topics>>
  BY <1>6, OrdersKeeps
<1>. QED
  BY <1>1, <1>2, <1>3, <1>4, <1>5, <1>6
     DEF Next, vars, SkipFact, ReadFact, DeadLetterFact, CancelRead, CancelCompensate,
         CancelTxRead, Issue, LoseRequest, Park, ReadFirstPark, Restart

LEMMA InvoicedStep ==
  ASSUME TypeOK, InvoicedOpensHold, [Next]_vars
  PROVE  InvoicedOpensHold'
BY DEF InvoicedOpensHold, Next, vars, HandleFact, ReleaseLateApproval, IgnoreFact, AdvanceOrder,
       CancelOrder, commitFact, SkipFact, ReadFact, DeadLetterFact, CancelRead, CancelCompensate,
       CancelTxRead, CancelTxWrite, Issue, LoseRequest, Park, ReadFirstPark, RecordSagaFailure,
       Restart, Reserve, Release, CreateDespatch, HoldCredit, ReleaseCredit, IssueInvoice,
       RegisterPayment

(* The saga counts on nothing its services do not promise: in every        *)
(* behaviour of the saga the order's stock and credit, and the facts about *)
(* them, are those of the contracts that the locking implementations keep  *)
(* (stock-reservation.handler.ts, credit-hold.handler.ts, siblings).       *)
THEOREM RespondersKeepTheirContracts == Spec => RespondersKeepContracts
<1>1. Init => Stock!ContractInit /\ Credit!ContractInit /\ InvoicedOpensHold
  <2>. SUFFICES ASSUME Init
                PROVE  Stock!ContractInit /\ Credit!ContractInit /\ InvoicedOpensHold
    OBVIOUS
  <2>1. topics["fulfillment"] = <<>> /\ topics["billing"] = <<>>
    BY DEF Init, Topic
  <2>2. typesOn("fulfillment") = <<>>
    BY <2>1 DEF typesOn
  <2>3. creditOf(hold) = "none" /\ reservation = "none" /\ invoice = "none"
    BY DEF Init, creditOf
  <2>. QED
    BY <2>1, <2>2, <2>3
       DEF Stock!ContractInit, Credit!ContractInit, InvoicedOpensHold, only
<1>2. TypeOK /\ InvoicedOpensHold /\ [Next]_vars => InvoicedOpensHold' /\ StockStep /\ CreditStep
  BY InvoicedStep, RespondersStep
<1>. QED
  BY <1>1, <1>2, TypeCorrect, PTL
     DEF Spec, RespondersKeepContracts, Stock!ContractSpec, Credit!ContractSpec, StockStep,
         CreditStep

=============================================================================
