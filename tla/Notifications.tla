--------------------------- MODULE Notifications ----------------------------
(***************************************************************************)
(* The notifications group: an email for each notified fact.  Its ledger   *)
(* row is committed before the email is sent and deleted when the send     *)
(* fails; a permanent SMTP failure degrades to the console.  A rebalance   *)
(* may hand a partition to another worker while the first is still sending *)
(* (its session timed out), so two may be at work on one fact.             *)
(***************************************************************************)
EXTENDS FactTopics, SequencesExt

CONSTANTS
  Worker,            \* processes of the group
  MaxSendAttempts    \* FactRetryPolicy.maxAttempts

ASSUME NotifierAssumption == MaxSendAttempts \in Nat \ {0} /\ Worker # {}

VARIABLES
  owner,         \* the worker the partitions are assigned to
  acked,         \* per stream: records whose offset is committed
  job,           \* per worker: the delivery it works on
  ledger,        \* processed_events of this consumer
  mailbox,       \* emails the SMTP server took, in order
  degraded,      \* facts shown on the console instead
  deadMail,      \* facts on <topic>.dlq, failed by this consumer
  unsure,        \* facts with a send that failed after the server took it
  abandoned      \* facts whose delivery was cut short by a crash, a failed
                 \* compensation, a ledger commit nobody acknowledged or a
                 \* dead letter that could not be published

notifierVars == <<owner, acked, job, ledger, mailbox, degraded, deadMail, unsure, abandoned>>

NoJob == [stage |-> "idle"]
JobStage == {"recording", "sending", "failing", "exhausted", "settled"}

NotifierTypeOK ==
  /\ owner \in Worker
  /\ \A s \in Stream : acked[s] \in 0..Len(log[s])
  /\ \A w \in Worker : job[w] # NoJob =>
       /\ job[w].stage \in JobStage
       /\ job[w].stream \in Stream /\ job[w].offset \in 1..Len(log[job[w].stream])
       /\ job[w].attempt \in 1..MaxSendAttempts
  /\ ledger \union degraded \union deadMail \union unsure \union abandoned \subseteq DOMAIN payloads

NotifierInit ==
  /\ owner = CHOOSE w \in Worker : TRUE
  /\ acked = [s \in Stream |-> 0]
  /\ job = [w \in Worker |-> NoJob]
  /\ ledger = {}
  /\ mailbox = <<>>
  /\ degraded = {} /\ deadMail = {} /\ unsure = {} /\ abandoned = {}

-----------------------------------------------------------------------------
(* Messages.  A template needs every field it renders: a missing one makes *)
(* it throw before anything is sent.                                       *)

parties == {"orderReference", "retailerCode", "companyCode"}
money == {"totalAmount", "currency"}

buildOrderPlacedMessage == [to |-> "retailerCode", needs |-> parties \union money \union {"orderDate"}]
buildOrderConfirmedMessage ==
  [to |-> "retailerCode", needs |-> parties \union money \union {"confirmedAt"}]
buildOrderDespatchedMessage ==
  [to |-> "retailerCode", needs |-> parties \union {"despatchReference", "despatchDate", "lines"}]
buildInvoiceIssuedMessage ==
  [to |-> "retailerCode", needs |-> parties \union money \union {"invoiceReference", "invoiceDate"}]
buildPaymentReceivedMessage ==
  [to |-> "orderReference",
   needs |-> {"orderReference", "invoiceReference", "paymentReference", "amount", "currency",
              "valueDate", "source"}]
buildOrderCompletedMessage ==
  [to |-> "retailerCode", needs |-> parties \union money \union {"completedAt"}]
buildOrderCancelledMessage ==
  [to |-> "retailerCode",
   needs |-> parties \union {"cancellationReason", "cancelledAt", "compensationSteps"}]

(* notifyCommandFor and its seven handlers.                                *)
template ==
  [type \in {"order.placed", "order.confirmed", "order.despatched", "invoice.issued",
             "payment.received", "order.completed", "order.cancelled"} |->
     CASE type = "order.placed" -> buildOrderPlacedMessage
       [] type = "order.confirmed" -> buildOrderConfirmedMessage
       [] type = "order.despatched" -> buildOrderDespatchedMessage
       [] type = "invoice.issued" -> buildInvoiceIssuedMessage
       [] type = "payment.received" -> buildPaymentReceivedMessage
       [] type = "order.completed" -> buildOrderCompletedMessage
       [] type = "order.cancelled" -> buildOrderCancelledMessage]

notified(type) == type \in DOMAIN template

buildable(e) == template[factType(e)].needs \subseteq payloads[e].fields

(* classifySendFailure: a 5xx reply, or no way to authenticate, is         *)
(* permanent; a 4xx reply and every other transport error is not.          *)
SendError == {"5xx", "4xx", "EAUTH", "ETIMEDOUT"}
classifySendFailure(error) == IF error \in {"5xx", "EAUTH"} THEN "permanent" ELSE "transient"

-----------------------------------------------------------------------------

event(w) == log[job[w].stream][job[w].offset]
at(w, stage) == job[w] # NoJob /\ job[w].stage = stage
move(w, stage) == job' = [job EXCEPT ![w].stage = stage]
drop(w) == job' = [job EXCEPT ![w] = NoJob]

(* Retries are in line, a dead letter follows the last.                    *)
nextAttempt(w) ==
  IF job[w].attempt < MaxSendAttempts
  THEN job' = [job EXCEPT ![w].stage = "recording", ![w].attempt = @ + 1]
  ELSE move(w, "exhausted")

Receive(w, s) ==
  LET record == log[s][acked[s] + 1]
      handled == parses(record) /\ notified(factType(record))
  IN
  /\ w = owner /\ job[w] = NoJob
  /\ acked[s] < Len(log[s])
  /\ job' = [job EXCEPT ![w] = [stage |-> IF handled THEN "recording" ELSE "settled",
                                stream |-> s, offset |-> acked[s] + 1, attempt |-> 1]]
  /\ UNCHANGED <<topicVars, owner, acked, ledger, mailbox, degraded, deadMail, unsure, abandoned>>

(* recordProcessedEvent: the insert hits the key of an earlier row.        *)
inLedger(w) == event(w) \in ledger

(* runOnce with no work: the ledger row alone is committed.                *)
RecordInLedger(w) ==
  /\ at(w, "recording")
  /\ IF inLedger(w)
     THEN move(w, "settled") /\ UNCHANGED ledger
     ELSE move(w, "sending") /\ ledger' = ledger \union {event(w)}
  /\ UNCHANGED <<topicVars, owner, acked, mailbox, degraded, deadMail, unsure, abandoned>>

(* The ledger transaction throws, outside the try that compensates: the    *)
(* attempt is used up, the last one by a dead letter.  If the commit had   *)
(* landed all the same, the row stays, the next attempt is taken for a     *)
(* duplicate, and no email is sent.                                        *)
RecordFails(w) ==
  /\ at(w, "recording")
  /\ fault
  /\ \/ UNCHANGED <<ledger, abandoned>>
     \/ /\ ~ inLedger(w)
        /\ ledger' = ledger \union {event(w)}
        /\ abandoned' = abandoned \union {event(w)}
  /\ nextAttempt(w)
  /\ UNCHANGED <<log, payloads, owner, acked, mailbox, degraded, deadMail, unsure>>

Send(w) ==
  /\ at(w, "sending") /\ buildable(event(w))
  /\ mailbox' = Append(mailbox, event(w))
  /\ move(w, "settled")
  /\ UNCHANGED <<topicVars, owner, acked, ledger, degraded, deadMail, unsure, abandoned>>

(* The template throws.                                                    *)
Unbuildable(w) ==
  /\ at(w, "sending") /\ ~ buildable(event(w))
  /\ move(w, "failing")
  /\ UNCHANGED <<topicVars, owner, acked, ledger, mailbox, degraded, deadMail, unsure, abandoned>>

(* DegradingNotificationSender: a permanent failure counts as sent; any    *)
(* other is thrown on.  The server may have taken the message before the   *)
(* connection broke.                                                       *)
SendFails(w) ==
  /\ at(w, "sending") /\ buildable(event(w))
  /\ fault
  /\ \E error \in SendError :
       IF classifySendFailure(error) = "permanent"
       THEN /\ degraded' = degraded \union {event(w)}
            /\ move(w, "settled")
            /\ UNCHANGED <<mailbox, unsure>>
       ELSE /\ move(w, "failing")
            /\ \/ UNCHANGED <<mailbox, unsure>>
               \/ /\ error = "ETIMEDOUT"
                  /\ mailbox' = Append(mailbox, event(w))
                  /\ unsure' = unsure \union {event(w)}
            /\ UNCHANGED degraded
  /\ UNCHANGED <<log, payloads, owner, acked, ledger, deadMail, abandoned>>

(* Mutant: the row stays when the send has failed.                         *)
CompensateNothing(w) ==
  /\ at(w, "failing")
  /\ nextAttempt(w)
  /\ UNCHANGED <<topicVars, owner, acked, ledger, mailbox, degraded, deadMail, unsure, abandoned>>

(* The ledger row is deleted so that the next attempt is a first one.      *)
Compensate(w) ==
  /\ at(w, "failing")
  /\ ledger' = ledger \ {event(w)}
  /\ nextAttempt(w)
  /\ UNCHANGED <<topicVars, owner, acked, mailbox, degraded, deadMail, unsure, abandoned>>

(* The delete fails: logged, and the send's error thrown all the same.     *)
CompensateFails(w) ==
  /\ at(w, "failing")
  /\ fault
  /\ abandoned' = abandoned \union {event(w)}
  /\ nextAttempt(w)
  /\ UNCHANGED <<log, payloads, owner, acked, ledger, mailbox, degraded, deadMail, unsure>>

(* Mutant: the exhausted fact is thrown back at the broker.                *)
PublishDeadMailAndThrow(w) ==
  /\ at(w, "exhausted")
  /\ deadMail' = deadMail \union {event(w)}
  /\ drop(w)
  /\ UNCHANGED <<topicVars, owner, acked, ledger, mailbox, degraded, unsure, abandoned>>

(* R16: the offset is committed all the same, the partition goes on.       *)
PublishDeadMail(w) ==
  /\ at(w, "exhausted")
  /\ deadMail' = deadMail \union {event(w)}
  /\ move(w, "settled")
  /\ UNCHANGED <<topicVars, owner, acked, ledger, mailbox, degraded, unsure, abandoned>>

(* Only the partition's owner may commit, from where the group stands.     *)
Acknowledge(w) ==
  /\ at(w, "settled")
  /\ acked' = IF w = owner /\ acked[job[w].stream] = job[w].offset - 1
              THEN [acked EXCEPT ![job[w].stream] = job[w].offset]
              ELSE acked
  /\ drop(w)
  /\ UNCHANGED <<topicVars, owner, ledger, mailbox, degraded, deadMail, unsure, abandoned>>

(* The process dies, or its dead letter cannot be published.               *)
WorkerStops(w) ==
  /\ job[w] # NoJob
  /\ fault
  /\ abandoned' = IF at(w, "settled") THEN abandoned ELSE abandoned \union {event(w)}
  /\ drop(w)
  /\ UNCHANGED <<log, payloads, owner, acked, ledger, mailbox, degraded, deadMail, unsure>>

Rebalance ==
  /\ fault
  /\ \E w \in Worker \ {owner} : owner' = w
  /\ UNCHANGED <<log, payloads, acked, job, ledger, mailbox, degraded, deadMail, unsure, abandoned>>

notify(w) ==
  \/ \E s \in Stream : Receive(w, s)
  \/ RecordInLedger(w) \/ Send(w) \/ Unbuildable(w) \/ Compensate(w)
  \/ PublishDeadMail(w) \/ Acknowledge(w)

NotifierNext ==
  \/ \E w \in Worker :
       notify(w) \/ RecordFails(w) \/ SendFails(w) \/ CompensateFails(w) \/ WorkerStops(w)
  \/ Rebalance

-----------------------------------------------------------------------------

times(e) == Cardinality({i \in DOMAIN mailbox : mailbox[i] = e})

(* N6 and N13: a notified fact whose offset was committed was emailed,     *)
(* shown on the console or dead-lettered, or is still being worked on,     *)
(* unless a crash, a failed compensation, a ledger commit nobody           *)
(* acknowledged or a lost dead letter cut it short; and nobody gets it     *)
(* twice unless the mail server took a message it then failed.             *)
NoticesAccounted == \A s \in Stream :
  /\ \A k \in 1..acked[s] :
       LET e == log[s][k] IN
       parses(e) /\ notified(factType(e)) =>
         \/ e \in Range(mailbox) \union degraded \union deadMail \union abandoned
         \/ \E w \in Worker : job[w] # NoJob /\ event(w) = e
  /\ \A k \in 1..Len(log[s]) : times(log[s][k]) > 1 => log[s][k] \in unsure

-----------------------------------------------------------------------------
(* Why nobody gets a notice twice and none is forgotten: the ledger row is *)
(* held by whoever is sending, and only its holder takes it away again.    *)

noteworthy(record) == parses(record) /\ notified(factType(record))
heldBy(w, e) == (at(w, "sending") \/ at(w, "failing")) /\ event(w) = e
answered == Range(mailbox) \union degraded \union deadMail \union abandoned

accounted(e) ==
  e \in answered \/ \E w \in Worker : job[w] # NoJob /\ job[w].stage # "settled" /\ event(w) = e

NoticeInv ==
  /\ owner \in Worker
  /\ acked \in [Stream -> Nat]
  /\ job \in [Worker -> {NoJob} \union [stage : JobStage, stream : Stream, offset : Nat \ {0},
                                        attempt : 1..MaxSendAttempts]]
  /\ mailbox \in Seq(DOMAIN payloads)
  /\ ledger \union degraded \union deadMail \union unsure \union abandoned \subseteq DOMAIN payloads
  /\ \A s \in Stream : acked[s] <= Len(log[s])
  /\ \A w \in Worker : job[w] # NoJob =>
       /\ job[w].offset <= Len(log[job[w].stream])
       /\ job[w].stage # "settled" => noteworthy(event(w))
       /\ job[w].stage = "settled" /\ noteworthy(event(w)) => accounted(event(w))
       /\ job[w].stage \in {"sending", "failing"} => event(w) \in ledger
  /\ \A v, w \in Worker : \A e \in ledger : heldBy(v, e) /\ heldBy(w, e) => v = w
  /\ \A e \in ledger : e \in answered \/ \E w \in Worker : heldBy(w, e)
  /\ \A i \in DOMAIN mailbox : mailbox[i] \notin unsure =>
       /\ mailbox[i] \in ledger
       /\ \A w \in Worker : ~ heldBy(w, mailbox[i])
       /\ \A j \in DOMAIN mailbox : mailbox[j] = mailbox[i] => j = i
  /\ \A s \in Stream : \A k \in 1..acked[s] :
       noteworthy(log[s][k]) => accounted(log[s][k])

=============================================================================
