----------------------------- MODULE FactTopics -----------------------------
(***************************************************************************)
(* What the producing services and the consuming groups share: the fact    *)
(* topics.  Each service has one, keyed by correlationId, so the facts of  *)
(* one order from one service form a partition of their own: a stream.     *)
(*                                                                         *)
(* A fact is named by its service and the seq of its outbox row.           *)
(***************************************************************************)
EXTENDS Integers, Sequences, FiniteSets

CONSTANTS
  Order,       \* correlation ids
  MaxFaults    \* bound: failures, crashes and foreign messages in one behaviour

(* orders.facts.v1, fulfillment.facts.v1 and billing.facts.v1.             *)
Service == {"orders", "fulfillment", "billing"}

Stream == Service \X Order

VARIABLES
  log,         \* per stream: the records on its partition, in offset order
  payloads,    \* per fact written: its type, its order and the payload fields it has
  faults       \* faults so far

topicVars == <<log, payloads, faults>>

(* A record some other producer put on the topic, which no parser accepts. *)
Foreign == <<"foreign", 0>>

TopicsInit ==
  /\ log = [s \in Stream |-> <<>>]
  /\ payloads = <<>>
  /\ faults = 0

(* One more fault is still within the bound.                               *)
fault == faults < MaxFaults /\ faults' = faults + 1

(* parseFactEnvelope: what is not a complete envelope is acknowledged      *)
(* without being processed.                                                *)
parses(record) == record # Foreign

factType(e) == payloads[e].type

(* Something that is not a fact lands on a fact topic.                     *)
ForeignRecord(svc) ==
  /\ fault
  /\ \E o \in Order : log' = [log EXCEPT ![<<svc, o>>] = Append(@, Foreign)]
  /\ UNCHANGED payloads

=============================================================================
