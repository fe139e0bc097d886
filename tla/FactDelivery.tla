---------------------------- MODULE FactDelivery ----------------------------
(***************************************************************************)
(* From a committed fact to its effects: a write model's outbox, its topic *)
(* and a consumer group.                                                   *)
(*                                                                         *)
(* The three outboxes share nothing, and neither do the groups, each with  *)
(* its offsets and its ledger: a behaviour follows the outbox of one       *)
(* service and the deliveries of one group, whichever they are.            *)
(***************************************************************************)
EXTENDS OutboxRelay, FactConsumer, Notifications

VARIABLES
  producer,    \* the service whose outbox is followed
  group        \* the consumer group that is followed

vars == <<topicVars, relayVars, consumerVars, notifierVars, producer, group>>

TypeOK == RelayTypeOK /\ ConsumerTypeOK /\ NotifierTypeOK

Init ==
  /\ TopicsInit /\ RelayInit /\ ConsumerInit /\ NotifierInit
  /\ producer \in Service
  /\ group \in {"orders.saga", "notifications"}

(* Who takes a step, the others standing still.                            *)
outboxStep(A) == A /\ UNCHANGED <<consumerVars, notifierVars, producer, group>>
sagaStep(A) ==
  group = "orders.saga" /\ A /\ UNCHANGED <<relayVars, notifierVars, producer, group>>
notifierStep(A) ==
  group = "notifications" /\ A /\ UNCHANGED <<relayVars, consumerVars, producer, group>>

Next ==
  \/ outboxStep(producer = "orders" /\ OrdersOutbox)
  \/ outboxStep(producer = "fulfillment" /\ FulfillmentOutbox)
  \/ outboxStep(producer = "billing" /\ BillingOutbox)
  \/ outboxStep(LateSend)
  \/ outboxStep(ForeignRecord(producer) /\ UNCHANGED relayVars)
  \/ sagaStep(ConsumerNext)
  \/ notifierStep(NotifierNext)

Spec == Init /\ [][Next]_vars

(* A process that is up runs its handlers, its relay's timer and its       *)
(* consumer; faults are finitely many.                                     *)
FairSpec ==
  /\ Spec
  /\ \A s \in Stream : WF_vars(outboxStep(s[1] = producer /\ (Record(s) \/ Commit(s))))
  /\ WF_vars(outboxStep(runCycle(producer)))
  /\ WF_vars(sagaStep(consume))
  /\ \A w \in Worker : WF_vars(notifierStep(notify(w)))

(* Everything the service has to say is published, and the group comes to  *)
(* the end of every stream: no failure leaves a row or a partition stuck.  *)
Drains == <>[](\A s \in Stream :
  /\ s[1] = producer =>
       work[s] = Len(Emits[s]) /\ \A e \in committed(s) : e \in Range(log[s])
  /\ (IF group = "orders.saga" THEN position[s] ELSE acked[s]) = Len(log[s]))

=============================================================================
