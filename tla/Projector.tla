----------------------------- MODULE Projector -----------------------------
(***************************************************************************)
(* The projector: three fact topics applied to the document of one order.  *)
(* Facts of one service arrive in order; across services anything goes,    *)
(* and up to three instances apply facts of the order at once.             *)
(*                                                                         *)
(* Two updates per fact: the placeholder upsert, and one findOneAndUpdate  *)
(* whose filter is the duplicate check.  After it, never before, the       *)
(* change is announced on NATS; a lost announcement is not repeated.       *)
(***************************************************************************)
EXTENDS OrderTimeline, SequencesExt

CONSTANTS
  Story,         \* what may happen to the order
  Facts,         \* per story and service: the records of its topic
  Seeded,        \* per story: the document at the start
  MaxAttempts,   \* FactRetryPolicy.maxAttempts
  MaxFaults      \* bound: failures, restarts and losses in one behaviour

Service == {"orders", "fulfillment", "billing"}

VARIABLES
  story,         \* the story of this behaviour
  document,      \* the order_timeline document
  position,      \* per service: records acknowledged
  delivery,      \* per service: the delivery its instance works on
  deadLetters,   \* facts on <topic>.dlq
  faults

projectorVars == <<document, position, delivery, deadLetters>>

records(s) == Facts[story][s]
Malformed == [id |-> 0]

Stage == {"down", "idle", "received", "placed", "applied", "settled"}
at(stage) == [stage |-> stage, attempt |-> 0, after |-> NoDocument]

ProjectorTypeOK ==
  /\ document # NoDocument =>
       /\ document.status \in OrderStatus
       /\ document.processedEventKeys \subseteq Nat
  /\ \A s \in Service :
       position[s] \in 0..Len(records(s)) /\ delivery[s].stage \in Stage
  /\ deadLetters \subseteq Nat
  /\ faults \in 0..MaxFaults

ProjectorInit ==
  /\ story \in Story
  /\ document = Seeded[story]
  /\ position = [s \in Service |-> 0]
  /\ delivery = [s \in Service |-> at("down")]
  /\ deadLetters = {}
  /\ faults = 0

fault == faults < MaxFaults /\ faults' = faults + 1

fact(s) == records(s)[position[s] + 1]

(* What the controller acknowledges without projecting it: a value that is *)
(* no envelope, an eventType outside the table.                            *)
parseFactEnvelope(record) == record # Malformed
ignored(record) == ~parseFactEnvelope(record) \/ record.type \notin HANDLED_EVENT_TYPES

moves(s, from, to) ==
  delivery[s].stage = from /\ delivery' = [delivery EXCEPT ![s].stage = to]

-----------------------------------------------------------------------------

(* main.ts: both migrations run before any consumption starts.             *)
Boot ==
  /\ delivery = [s \in Service |-> at("down")]
  /\ delivery' = [s \in Service |-> at("idle")]
  /\ document' = migrateTimelineOrder(backfillLegacyDocuments(document))
  /\ UNCHANGED <<position, deadLetters, faults>>

Receive(s) ==
  /\ delivery[s].stage = "idle"
  /\ position[s] < Len(records(s))
  /\ delivery' = [delivery EXCEPT ![s] =
       [stage |-> IF ignored(fact(s)) THEN "settled" ELSE "received", attempt |-> 1,
        after |-> NoDocument]]
  /\ UNCHANGED <<document, position, deadLetters, faults>>

(* Insert if absent; the loser of an insert race tries once more and       *)
(* matches.                                                                *)
UpsertPlaceholder(s) ==
  /\ moves(s, "received", "placed")
  /\ summarizes(fact(s))
  /\ document' = IF document = NoDocument THEN placeholderSkeleton(fact(s).at) ELSE document
  /\ UNCHANGED <<position, deadLetters, faults>>

(* runOnce: the filter is the check.                                       *)
Apply(s) ==
  LET new == deltaToPipeline(document, projectFact(fact(s))) IN
  /\ delivery[s].stage = "placed"
  /\ IF fact(s).id \in document.processedEventKeys
     THEN /\ delivery' = [delivery EXCEPT ![s].stage = "settled"]
          /\ UNCHANGED document
     ELSE /\ document' = new
          /\ delivery' = [delivery EXCEPT ![s].stage = "applied", ![s].after = new]
  /\ UNCHANGED <<position, deadLetters, faults>>

(* toAppliedOrderTimeline: the newest entry of the sorted timeline speaks  *)
(* for the update, whichever fact was applied.                             *)
latestEntry(d) == Last(d.events)

orderUpdated(d) ==
  [event |-> "order.updated", eventId |-> latestEntry(d).id, status |-> d.status]
timelineAppended(d) ==
  [event |-> "timeline.appended", eventId |-> latestEntry(d).id, entry |-> latestEntry(d)]

announced(s) == <<orderUpdated(delivery[s].after), timelineAppended(delivery[s].after)>>

(* Announced or not (PR19: a failure is logged and swallowed), the fact is *)
(* done with.                                                              *)
PublishSignal(s) ==
  /\ delivery[s].stage = "applied"
  /\ delivery' = [delivery EXCEPT ![s].stage = "settled", ![s].after = NoDocument]
  /\ UNCHANGED <<document, position, deadLetters>>

(* A write fails, or the summary cannot be built: tried again, and         *)
(* dead-lettered when the attempts are exhausted.                          *)
AttemptFails(s) ==
  /\ \/ delivery[s].stage = "received" /\ ~summarizes(fact(s)) /\ UNCHANGED faults
     \/ delivery[s].stage \in {"received", "placed"} /\ summarizes(fact(s)) /\ fault
  /\ IF delivery[s].attempt < MaxAttempts
     THEN /\ delivery' = [delivery EXCEPT ![s].stage = "received", ![s].attempt = @ + 1]
          /\ UNCHANGED deadLetters
     ELSE /\ delivery' = [delivery EXCEPT ![s].stage = "settled"]
          /\ deadLetters' = deadLetters \union {fact(s).id}
  /\ UNCHANGED <<document, position>>

CommitOffset(s) ==
  /\ delivery[s].stage = "settled"
  /\ position' = [position EXCEPT ![s] = @ + 1]
  /\ delivery' = [delivery EXCEPT ![s] = at("idle")]
  /\ UNCHANGED <<document, deadLetters, faults>>

(* The instance dies; what it had not acknowledged is delivered again, to  *)
(* another instance or after a boot that finds nothing left to migrate.    *)
Restart(s) ==
  /\ delivery[s].stage \notin {"down", "idle"}
  /\ fault
  /\ delivery' = [delivery EXCEPT ![s] = at("idle")]
  /\ UNCHANGED <<document, position, deadLetters>>

project(s) ==
  \/ Receive(s) \/ UpsertPlaceholder(s) \/ Apply(s) \/ CommitOffset(s)
  \/ delivery[s].stage = "received" /\ ~summarizes(fact(s)) /\ AttemptFails(s)

ProjectorNext == Boot \/ \E s \in Service :
  \/ Receive(s) \/ UpsertPlaceholder(s) \/ Apply(s) \/ AttemptFails(s) \/ CommitOffset(s)
  \/ Restart(s)

-----------------------------------------------------------------------------

(* PR10: an acknowledged fact has had its effect, unless it is none, or    *)
(* was dead-lettered.                                                      *)
accountedFor(f) ==
  \/ ignored(f) \/ f.id \in deadLetters
  \/ document # NoDocument /\ f.id \in document.processedEventKeys

NothingIsDropped ==
  \A s \in Service : \A k \in 1..position[s] : accountedFor(records(s)[k])

(* PR10, PR15, R51, R52: once the projector is up, the document says what  *)
(* the facts applied so far say, in whatever order they came: each has one *)
(* entry, none comes before its cause or before what happened earlier, the *)
(* status is the furthest one proved, and every acknowledged fact is in it *)
(* unless it was dead-lettered.                                            *)
DocumentIsReplay ==
  /\ (document # NoDocument /\ \A s \in Service : delivery[s].stage # "down") =>
       LET es == document.events IN
       /\ oneEntryEach(es)
       /\ inCausalOrder(es)
       /\ document.status =
            (IF ranked(es) = {} THEN "placed" ELSE impliedStatusOf(furthest(es).type))
       /\ document.processedEventKeys = eventIds(es)
       /\ filledBy(es, document.filled)
  /\ NothingIsDropped

-----------------------------------------------------------------------------
(* The state the updates rest on.                                          *)

(* The entries a story can bring to the timeline.                          *)
seededEntries(p) == IF Seeded[p] = NoDocument THEN {} ELSE ToSet(Seeded[p].events)
storyEntries(p) ==
  seededEntries(p) \union UNION {{entryOf(r) : r \in {f \in ToSet(Facts[p][s]) : ~ignored(f)}} : s \in Service}

(* The rank that goes with the status: of the furthest entry, or of the    *)
(* placeholder or a seeded order without one.                              *)
rankMatches(es, status, rank) ==
  \/ ranked(es) = {} /\ status = "placed" /\ rank \in {0, 1}
  \/ \E e \in ranked(es) :
       /\ \A g \in ranked(es) : rankOf(g.type) <= rankOf(e.type)
       /\ status = impliedStatusOf(e.type) /\ rank = rankOf(e.type)

(* A document that is there at the start tells of its own entries, in the  *)
(* form of the release that wrote it.                                      *)
seedWrites(d) ==
  /\ {"status", "statusRank", "events", "filled", "processedEventKeys", "timelineOrderVersion"}
       \subseteq DOMAIN d
  /\ d.events \in Seq(TimelineEntry) /\ oneEntryEach(d.events)
  /\ filledBy(d.events, d.filled)
  /\ \E t \in HANDLED_EVENT_TYPES :
       rankMatches(d.events, d.status, rankOf(t)) /\ d.statusRank \in {NoRank, rankOf(t)}
  /\ d.processedEventKeys \subseteq Nat
  /\ d.statusRank # NoRank => d.processedEventKeys = eventIds(d.events)
  /\ d.timelineOrderVersion = TIMELINE_ORDER_VERSION => inCausalOrder(d.events)

ASSUME StoryAssumption ==
  /\ MaxFaults \in Nat
  /\ \A p \in Story, s \in Service : Facts[p][s] \in Seq(ToSet(Facts[p][s]))
  /\ \A p \in Story : storyEntries(p) \subseteq TimelineEntry /\ acyclic(storyEntries(p))
  /\ \A p \in Story : Seeded[p] # NoDocument => seedWrites(Seeded[p])

working(s) ==
  /\ delivery[s] = [stage |-> delivery[s].stage, attempt |-> delivery[s].attempt,
                    after |-> delivery[s].after]
  /\ delivery[s].stage \notin {"down", "idle"} => position[s] < Len(records(s))
  /\ delivery[s].stage \in {"received", "placed", "applied"} => ~ignored(fact(s))
  /\ delivery[s].stage = "placed" => document # NoDocument
  /\ delivery[s].stage = "applied" => delivery[s].after.status \in OrderStatus
  /\ delivery[s].stage \in {"applied", "settled"} => accountedFor(fact(s))
  /\ delivery[s].stage = "down" => position[s] = 0

ProjectorInv ==
  /\ ProjectorTypeOK
  /\ story \in Story
  /\ position = [s \in Service |-> position[s]]
  /\ delivery = [s \in Service |-> delivery[s]]
  /\ NothingIsDropped
  /\ \A s \in Service : working(s)
  /\ delivery = [s \in Service |-> at("down")] => document = Seeded[story]

(* Inductive: what the document says of its own entries, and that these    *)
(* are the story's.                                                        *)
replays(d) ==
  /\ d.events \in Seq(TimelineEntry) /\ ToSet(d.events) \subseteq storyEntries(story)
  /\ oneEntryEach(d.events) /\ inCausalOrder(d.events)
  /\ rankMatches(d.events, d.status, d.statusRank)
  /\ d.processedEventKeys = eventIds(d.events)
  /\ filledBy(d.events, d.filled)

DocumentInv ==
  \/ delivery = [s \in Service |-> at("down")]
  \/ (\A s \in Service : delivery[s].stage # "down") /\ (document = NoDocument \/ replays(document))

=============================================================================
