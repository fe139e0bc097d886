---------------------------- MODULE OutboxRelay -----------------------------
(***************************************************************************)
(* The transactional outbox of a write model and its relay.  A unit of     *)
(* work writes an aggregate and its facts in one transaction; the relay    *)
(* claims unpublished rows by seq under SKIP LOCKED, sends them as one     *)
(* batch and stamps them in the transaction that claimed them.             *)
(*                                                                         *)
(* The aggregate itself is in the modules of the services; here a unit of  *)
(* work is the facts it emits, one after the other on one order because    *)
(* the transaction holds the order's row until it commits.                 *)
(***************************************************************************)
EXTENDS FactTopics, InOrder

CONSTANTS
  Emits,       \* per stream: the transactions to come, each a sequence of facts
  Instance,    \* relay processes of each service
  BatchSize    \* OUTBOX_BATCH_SIZE

ASSUME OutboxAssumption ==
  /\ BatchSize \in Nat \ {0}
  /\ MaxFaults \in Nat
  /\ Emits \in [Stream -> Seq(Seq([type : STRING, fields : SUBSET STRING]))]

VARIABLES
  outbox,      \* per service: the outbox rows, in seq order
  open,        \* per stream: the rows of the transaction still open on it
  work,        \* per stream: transactions committed so far
  batch,       \* per service and instance: the rows claimed
  stage,       \* where the relay's cycle is
  flight       \* sends given up on that the broker may still carry out

outboxVars == <<outbox, open, work>>
cycleVars == <<batch, stage, flight>>
relayVars == <<outboxVars, cycleVars>>

RowState == {"open", "unpublished", "published", "gone"}

RelayTypeOK ==
  /\ \A svc \in Service : \A n \in DOMAIN outbox[svc] :
       outbox[svc][n].order \in Order /\ outbox[svc][n].state \in RowState
  /\ \A s \in Stream : work[s] \in 0..Len(Emits[s])
  /\ \A svc \in Service : \A i \in Instance :
       /\ stage[svc][i] \in {"idle", "claimed", "acknowledged"}
       /\ Cardinality(batch[svc][i]) <= BatchSize
       /\ stage[svc][i] = "idle" <=> batch[svc][i] = {}
  /\ faults \in 0..MaxFaults

RelayInit ==
  /\ outbox = [svc \in Service |-> <<>>]
  /\ open = [s \in Stream |-> {}]
  /\ work = [s \in Stream |-> 0]
  /\ batch = [svc \in Service |-> [i \in Instance |-> {}]]
  /\ stage = [svc \in Service |-> [i \in Instance |-> "idle"]]
  /\ flight = {}

-----------------------------------------------------------------------------
(* Writing.                                                                *)

(* The rows of one multi-row INSERT: AUTO_INCREMENT gives them the next    *)
(* seqs in statement order.                                                *)
newRows(s) == [k \in 1..Len(Emits[s][work[s] + 1]) |-> [order |-> s[2], state |-> "open"]]

(* OutboxRecorder.record, inside the caller's transaction.                 *)
Record(s) ==
  LET svc == s[1]
      n == Len(outbox[svc])
      facts == Emits[s][work[s] + 1]
      seqs == n + 1 .. n + Len(facts)
  IN
  /\ open[s] = {}
  /\ work[s] < Len(Emits[s])
  /\ outbox' = [outbox EXCEPT ![svc] = @ \o newRows(s)]
  /\ open' = [open EXCEPT ![s] = seqs]
  /\ payloads' = [e \in DOMAIN payloads \union {<<svc, q>> : q \in seqs} |->
       IF e \in DOMAIN payloads THEN payloads[e]
       ELSE [type |-> facts[e[2] - n].type, fields |-> facts[e[2] - n].fields, order |-> s[2]]]
  /\ UNCHANGED <<log, faults, work, cycleVars>>

setRows(svc, seqs, state) ==
  outbox' = [outbox EXCEPT ![svc] = [n \in DOMAIN @ |->
               IF n \in seqs THEN [@[n] EXCEPT !.state = state] ELSE @[n]]]

Commit(s) ==
  /\ open[s] # {}
  /\ setRows(s[1], open[s], "unpublished")
  /\ open' = [open EXCEPT ![s] = {}]
  /\ work' = [work EXCEPT ![s] = @ + 1]
  /\ UNCHANGED <<topicVars, cycleVars>>

(* The transaction fails or is a deadlock's victim: its rows are gone and  *)
(* the whole unit of work runs again.                                      *)
Rollback(s) ==
  /\ open[s] # {}
  /\ fault
  /\ setRows(s[1], open[s], "gone")
  /\ open' = [open EXCEPT ![s] = {}]
  /\ UNCHANGED <<log, payloads, work, cycleVars>>

-----------------------------------------------------------------------------
(* The relay's cycle.                                                      *)

locked(svc) == UNION {batch[svc][i] : i \in Instance}

unpublished(svc) ==
  {n \in DOMAIN outbox[svc] : outbox[svc][n].state = "unpublished" /\ n \notin locked(svc)}

(* Mutant: the newest rows first.                                          *)
claimableNewestFirst(svc) ==
  {n \in unpublished(svc) : Cardinality({m \in unpublished(svc) : m >= n}) <= BatchSize}

(* WHERE published_at IS NULL ORDER BY seq LIMIT n FOR UPDATE SKIP LOCKED. *)
claimable(svc) ==
  {n \in unpublished(svc) : Cardinality({m \in unpublished(svc) : m <= n}) <= BatchSize}

Claim(svc, i) ==
  /\ stage[svc][i] = "idle"
  /\ claimable(svc) # {}
  /\ batch' = [batch EXCEPT ![svc][i] = claimable(svc)]
  /\ stage' = [stage EXCEPT ![svc][i] = "claimed"]
  /\ UNCHANGED <<topicVars, outboxVars, flight>>

rowsOf(svc, o) == {n \in DOMAIN outbox[svc] : outbox[svc][n].order = o}

(* The part of a batch that goes to the partition of order o, in seq       *)
(* order, which is how the rows were selected.                             *)
recordsFor(svc, rows, o) ==
  LET own == inOrder(rows \intersect rowsOf(svc, o))
  IN [k \in DOMAIN own |-> <<svc, own[k]>>]

(* producer.send: the broker appends a batch partition by partition.       *)
append(svc, rows, orders) ==
  log' = [s \in Stream |->
            IF s[1] = svc /\ s[2] \in orders THEN log[s] \o recordsFor(svc, rows, s[2]) ELSE log[s]]

publish(svc, rows) == append(svc, rows, Order)

Publish(svc, i) ==
  /\ stage[svc][i] = "claimed"
  /\ publish(svc, batch[svc][i])
  /\ stage' = [stage EXCEPT ![svc][i] = "acknowledged"]
  /\ UNCHANGED <<payloads, faults, outboxVars, batch, flight>>

settle(svc, i) ==
  /\ batch' = [batch EXCEPT ![svc][i] = {}]
  /\ stage' = [stage EXCEPT ![svc][i] = "idle"]

Stamp(svc, i) ==
  /\ stage[svc][i] = "acknowledged"
  /\ setRows(svc, batch[svc][i], "published")
  /\ settle(svc, i)
  /\ UNCHANGED <<topicVars, open, work, flight>>

(* The broker refuses some partitions' records: the rows stay unstamped.   *)
PublishFails(svc, i) ==
  /\ stage[svc][i] = "claimed"
  /\ fault
  /\ \E orders \in SUBSET Order : append(svc, batch[svc][i], orders)
  /\ settle(svc, i)
  /\ UNCHANGED <<payloads, outboxVars, flight>>

(* withPublishTimeout: the relay stops waiting, the send goes on.          *)
PublishTimesOut(svc, i) ==
  /\ stage[svc][i] = "claimed"
  /\ fault
  /\ flight' = flight \union {<<svc, batch[svc][i]>>}
  /\ settle(svc, i)
  /\ UNCHANGED <<log, payloads, outboxVars>>

LateSend ==
  /\ \E f \in flight : publish(f[1], f[2]) /\ flight' = flight \ {f}
  /\ UNCHANGED <<payloads, faults, outboxVars, batch, stage>>

(* The relay dies: its transaction is rolled back, the locks are released. *)
RelayCrash(svc, i) ==
  /\ stage[svc][i] # "idle"
  /\ fault
  /\ flight' = IF stage[svc][i] = "claimed" THEN flight \union {<<svc, batch[svc][i]>>} ELSE flight
  /\ settle(svc, i)
  /\ UNCHANGED <<log, payloads, outboxVars>>

(* One cycle after the other: the next is scheduled when the last settles. *)
runCycle(svc) == \E i \in Instance : Claim(svc, i) \/ Publish(svc, i) \/ Stamp(svc, i)

relayFails(svc) ==
  \E i \in Instance : PublishFails(svc, i) \/ PublishTimesOut(svc, i) \/ RelayCrash(svc, i)

unitOfWork(svc) == \E o \in Order : Record(<<svc, o>>) \/ Commit(<<svc, o>>) \/ Rollback(<<svc, o>>)

OrdersOutbox == unitOfWork("orders") \/ runCycle("orders") \/ relayFails("orders")
FulfillmentOutbox ==
  unitOfWork("fulfillment") \/ runCycle("fulfillment") \/ relayFails("fulfillment")
BillingOutbox == unitOfWork("billing") \/ runCycle("billing") \/ relayFails("billing")

-----------------------------------------------------------------------------

eventsOf(s, states) ==
  {<<s[1], n>> : n \in {m \in rowsOf(s[1], s[2]) : outbox[s[1]][m].state \in states}}

committed(s) == eventsOf(s, {"unpublished", "published"})

Promise == INSTANCE FactLog WITH
  emitted <- [s \in Stream |-> committed(s)],
  stream <- log,
  settled <- UNION {eventsOf(s, {"published"}) : s \in Stream}

(* R14 and R15: whatever fails, times out late or dies, facts of one order *)
(* reach their stream at least once, first in emission order, and are      *)
(* stamped only when they are there.                                       *)
ImplementsFactLog == Promise!LogSpec

-----------------------------------------------------------------------------
(* The inductive invariant behind ImplementsFactLog. Streams keep order    *)
(* with one relay per service; the rest holds for any number of them.      *)

SingleRelay == \A i, j \in Instance : i = j

stateOf(svc, n) == outbox[svc][n].state
orderOf(svc, n) == outbox[svc][n].order

onStream(svc, n) ==
  \E k \in DOMAIN log[<<svc, orderOf(svc, n)>>] : log[<<svc, orderOf(svc, n)>>][k] = <<svc, n>>

(* Rows that may be sent at any time: what was committed before one of     *)
(* them on its order is sent with it or was stamped already.               *)
sendable(svc, rows) ==
  /\ rows \subseteq DOMAIN outbox[svc]
  /\ \A n \in rows : stateOf(svc, n) \in {"unpublished", "published"}
  /\ SingleRelay => \A n \in rows, m \in DOMAIN outbox[svc] :
       m < n /\ orderOf(svc, m) = orderOf(svc, n) =>
         m \in rows \/ stateOf(svc, m) \in {"published", "gone"}

(* An order's rows are written by one transaction after the other.         *)
OutboxInv ==
  /\ outbox \in [Service -> Seq([order : Order, state : RowState])]
  /\ DOMAIN payloads = UNION {{svc} \X DOMAIN outbox[svc] : svc \in Service}
  /\ open \in [Stream -> SUBSET Nat]
  /\ work \in [Stream -> Nat]
  /\ \A s \in Stream :
       /\ work[s] <= Len(Emits[s])
       /\ open[s] # {} => work[s] < Len(Emits[s])
       /\ open[s] = {n \in rowsOf(s[1], s[2]) : stateOf(s[1], n) = "open"}
  /\ \A svc \in Service : \A m, n \in DOMAIN outbox[svc] :
       /\ orderOf(svc, m) = orderOf(svc, n)
       /\ stateOf(svc, n) = "open" /\ stateOf(svc, m) # "open"
       => m < n

CycleInv ==
  /\ batch \in [Service -> [Instance -> SUBSET Nat]]
  /\ stage \in [Service -> [Instance -> {"idle", "claimed", "acknowledged"}]]
  /\ \A svc \in Service, i \in Instance :
       /\ stage[svc][i] = "idle" <=> batch[svc][i] = {}
       /\ sendable(svc, batch[svc][i])
       /\ Cardinality(batch[svc][i]) <= BatchSize
       /\ stage[svc][i] = "acknowledged" => \A n \in batch[svc][i] : onStream(svc, n)
  /\ \A f \in flight : f \in Service \X SUBSET Nat /\ sendable(f[1], f[2])

(* First appearances are in emission order, a stamp is never early.        *)
StreamsInv ==
  /\ log \in [Stream -> Seq((Service \X Nat) \union {Foreign})]
  /\ \A svc \in Service : \A n \in DOMAIN outbox[svc] :
       stateOf(svc, n) = "published" => onStream(svc, n)
  /\ \A s \in Stream : \A i \in DOMAIN log[s] :
       log[s][i] # Foreign =>
         /\ log[s][i] \in committed(s)
         /\ SingleRelay => \A d \in committed(s) :
              d[2] < log[s][i][2] => \E h \in 1..(i - 1) : log[s][h] = d

RelayInv == OutboxInv /\ CycleInv /\ StreamsInv /\ faults \in 0..MaxFaults

=============================================================================
