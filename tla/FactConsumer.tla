---------------------------- MODULE FactConsumer ----------------------------
(***************************************************************************)
(* A consumer group that applies each fact in a database transaction, as   *)
(* the saga's group orders.saga does: one message at a time, the effect    *)
(* and the processed_events row in one transaction, retries in line, a     *)
(* dead letter when they are exhausted, the offset committed last.         *)
(***************************************************************************)
EXTENDS FactTopics, SequencesExt

CONSTANTS
  Consumed,      \* fact types that have a command (factCommandFor)
  MaxAttempts    \* FactRetryPolicy.maxAttempts

ASSUME ConsumerAssumption == MaxAttempts \in Nat \ {0}

VARIABLES
  position,      \* per stream: records whose offset is committed
  delivery,      \* the delivery being worked on
  processed,     \* processed_events of this consumer
  effects,       \* per stream: facts applied, in the order of their commits
  deadLetters    \* facts on <topic>.dlq, failed by this consumer

consumerVars == <<position, delivery, processed, effects, deadLetters>>

Idle == [stage |-> "idle"]

ConsumerTypeOK ==
  /\ \A s \in Stream : position[s] \in 0..Len(log[s])
  /\ delivery # Idle =>
       /\ delivery.stream \in Stream
       /\ delivery.attempt \in 1..MaxAttempts
       /\ delivery.stage \in {"processing", "exhausted", "settled"}
  /\ processed \union deadLetters \subseteq DOMAIN payloads

ConsumerInit ==
  /\ position = [s \in Stream |-> 0]
  /\ delivery = Idle
  /\ processed = {}
  /\ effects = [s \in Stream |-> <<>>]
  /\ deadLetters = {}

delivered == log[delivery.stream][position[delivery.stream] + 1]

(* Routing: a record that does not parse, or a fact no command handles, is *)
(* acknowledged as it is.                                                  *)
Fetch(s) ==
  LET record == log[s][position[s] + 1]
      handled == parses(record) /\ factType(record) \in Consumed
  IN
  /\ delivery = Idle
  /\ position[s] < Len(log[s])
  /\ delivery' = [stage |-> IF handled THEN "processing" ELSE "settled", stream |-> s, attempt |-> 1]
  /\ UNCHANGED <<topicVars, position, processed, effects, deadLetters>>

(* A processed_events row of this consumer is there already: the insert    *)
(* hits its key.                                                           *)
isDuplicate == delivered \in processed

(* Mutant: the effect is applied and then found to be a duplicate.         *)
RunOnceEffectFirst ==
  /\ delivery.stage = "processing"
  /\ delivery' = [delivery EXCEPT !.stage = "settled"]
  /\ processed' = processed \union {delivered}
  /\ effects' = [effects EXCEPT ![delivery.stream] = Append(@, delivered)]
  /\ UNCHANGED <<topicVars, position, deadLetters>>

(* IdempotentConsumer.runOnce: the processed_events row is inserted first, *)
(* a duplicate key rolls back.                                             *)
runOnce ==
  IF isDuplicate
  THEN UNCHANGED <<processed, effects>>
  ELSE /\ processed' = processed \union {delivered}
       /\ effects' = [effects EXCEPT ![delivery.stream] = Append(@, delivered)]

RunOnce ==
  /\ delivery.stage = "processing"
  /\ delivery' = [delivery EXCEPT !.stage = "settled"]
  /\ runOnce
  /\ UNCHANGED <<topicVars, position, deadLetters>>

(* The transaction throws, though its commit may have landed; the next     *)
(* attempt follows after the backoff.                                      *)
AttemptFails ==
  /\ delivery.stage = "processing"
  /\ fault
  /\ delivery' = IF delivery.attempt < MaxAttempts
                 THEN [delivery EXCEPT !.attempt = @ + 1]
                 ELSE [delivery EXCEPT !.stage = "exhausted"]
  /\ runOnce \/ UNCHANGED <<processed, effects>>
  /\ UNCHANGED <<log, payloads, position, deadLetters>>

DeadLetter ==
  /\ delivery.stage = "exhausted"
  /\ deadLetters' = deadLetters \union {delivered}
  /\ delivery' = [delivery EXCEPT !.stage = "settled"]
  /\ UNCHANGED <<topicVars, position, processed, effects>>

(* Mutant: a duplicate found is counted as a record of its own.            *)
CommitOffsetTwice ==
  /\ delivery.stage = "settled"
  /\ position' = [position EXCEPT ![delivery.stream] = @ + 2]
  /\ delivery' = Idle
  /\ UNCHANGED <<topicVars, processed, effects, deadLetters>>

CommitOffset ==
  /\ delivery.stage = "settled"
  /\ position' = [position EXCEPT ![delivery.stream] = @ + 1]
  /\ delivery' = Idle
  /\ UNCHANGED <<topicVars, processed, effects, deadLetters>>

(* The dead letter cannot be published, or the process dies: the offset is *)
(* not committed and the record is delivered again.                        *)
DeliveryLost ==
  /\ delivery # Idle
  /\ fault
  /\ delivery' = Idle
  /\ UNCHANGED <<log, payloads, position, processed, effects, deadLetters>>

consume == (\E s \in Stream : Fetch(s)) \/ RunOnce \/ DeadLetter \/ CommitOffset

ConsumerNext == consume \/ AttemptFails \/ DeliveryLost

-----------------------------------------------------------------------------

(* R17: a fact takes effect at most once however often it is published or  *)
(* delivered, and none that was acknowledged is missing from both the      *)
(* effects and the dead letters.                                           *)
EffectsOnce == \A s \in Stream :
  /\ \A i, j \in DOMAIN effects[s] : i < j => effects[s][i] # effects[s][j]
  /\ \A k \in 1..position[s] :
       parses(log[s][k]) /\ factType(log[s][k]) \in Consumed =>
         log[s][k] \in Range(effects[s]) \union deadLetters

(* R18: facts of one order take effect in emission order, but for one that *)
(* was dead-lettered and came again.                                       *)
EffectsInOrder == \A s \in Stream : \A i, j \in DOMAIN effects[s] :
  i < j /\ effects[s][i][2] > effects[s][j][2] => effects[s][j] \in deadLetters

(* The transaction and its processed_events row, the offset committed last *)
(* and the partition's order give both.                                    *)
EffectsOnceInOrder == EffectsOnce /\ EffectsInOrder

-----------------------------------------------------------------------------
(* Why effects are applied once: a fact that was applied is on its stream, *)
(* not beyond where the group stands, and has its row. Why in order: what  *)
(* was emitted before it came before it there and was answered for.        *)

handled(record) == parses(record) /\ factType(record) \in Consumed

ConsumerInv ==
  /\ position \in [Stream -> Nat]
  /\ effects \in [Stream -> Seq(Service \X Nat)]
  /\ \A s \in Stream : position[s] <= Len(log[s])
  /\ delivery # Idle =>
       /\ delivery \in [stage : {"processing", "exhausted", "settled"}, stream : Stream,
                        attempt : 1..MaxAttempts]
       /\ position[delivery.stream] < Len(log[delivery.stream])
       /\ delivery.stage # "settled" => handled(delivered)
       /\ delivery.stage = "settled" /\ handled(delivered) =>
            delivered \in Range(effects[delivery.stream]) \union deadLetters
  /\ deadLetters \subseteq DOMAIN payloads
  /\ processed = UNION {Range(effects[s]) : s \in Stream}
  /\ \A s \in Stream : \A i \in DOMAIN effects[s] :
       \E k \in DOMAIN log[s] : k <= position[s] + 1 /\ log[s][k] = effects[s][i]
  /\ EffectsOnce

=============================================================================
