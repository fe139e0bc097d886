----------------------------- MODULE StreamHub -----------------------------
(***************************************************************************)
(* The gateway's live stream: announcements become frames with a cursor,   *)
(* kept in a bounded replay buffer and written to the open connection.     *)
(* One connection is modelled, filtered on the projector's order; frames   *)
(* of other orders take their place in the buffer.                         *)
(***************************************************************************)
EXTENDS Projector, InOrder

CONSTANT Capacity    \* of the replay buffer
ASSUME CapacityAssumption == Capacity \in Nat \ {0}

VARIABLES
  buffer,      \* the replay buffer, oldest first
  cursor,      \* the last cursor minted
  open,        \* the response is open and subscribed to the hub
  pipe,        \* what was written to it and the browser has not handled
  since        \* history: the cursor after which this connection carries all

hubVars == <<buffer, cursor, open, pipe, since>>

HubInit == buffer = <<>> /\ cursor = 0 /\ open = FALSE /\ pipe = <<>> /\ since = 0

(* ReplayBuffer.push: the oldest entries give way.                         *)
push(entries, frame) ==
  LET longer == Append(entries, frame) IN
  IF Len(longer) > Capacity THEN Tail(longer) ELSE longer

(* Mutant: the replay begins with the frame the client already has.        *)
replayAfterInclusive(last) ==
  LET known == {i \in DOMAIN buffer : buffer[i].cursor = last} IN
  [resumed |-> known # {},
   missed |-> IF known = {} THEN <<>>
              ELSE SubSeq(buffer, CHOOSE i \in known : TRUE, Len(buffer))]

(* ReplayBuffer.replayAfter: a cursor that is not there, never was or no   *)
(* longer, cannot be resumed from.  0 stands for no Last-Event-ID.         *)
replayAfter(last) ==
  LET known == {i \in DOMAIN buffer : buffer[i].cursor = last} IN
  [resumed |-> known # {},
   missed |-> IF known = {} THEN <<>>
              ELSE SubSeq(buffer, 1 + CHOOSE i \in known : TRUE, Len(buffer))]

matchesFilter(frame) == frame.ours

frameAt(c, ours, data) == [cursor |-> c, ours |-> ours, event |-> data.event, data |-> data]

(* StreamHub.publish: mint a cursor, keep the frame, fan it out.           *)
hubPublish(ours, data) ==
  LET frame == frameAt(cursor + 1, ours, data) IN
  /\ cursor' = cursor + 1
  /\ buffer' = push(buffer, frame)
  /\ pipe' = IF open /\ matchesFilter(frame) THEN Append(pipe, frame) ELSE pipe
  /\ UNCHANGED <<open, since>>

(* Both frames of an announcement, in the order they come in.              *)
hubPublishBoth(first, second) ==
  LET one == frameAt(cursor + 1, TRUE, first)
      two == frameAt(cursor + 2, TRUE, second)
  IN
  /\ cursor' = cursor + 2
  /\ buffer' = push(push(buffer, one), two)
  /\ pipe' = IF open THEN pipe \o <<one, two>> ELSE pipe
  /\ UNCHANGED <<open, since>>

(* NatsStreamSignalAdapter: the two subjects have subscriptions of their   *)
(* own, either frame may come first.                                       *)
SignalArrives(announcement) ==
  \/ hubPublishBoth(announcement[1], announcement[2])
  \/ hubPublishBoth(announcement[2], announcement[1])

(* Core NATS delivers at most once, and a frame that does not decode is    *)
(* skipped: one of the two is lost, or both.                               *)
SignalLost(announcement) ==
  \/ hubPublish(TRUE, announcement[1])
  \/ hubPublish(TRUE, announcement[2])
  \/ UNCHANGED hubVars

OtherOrderArrives == hubPublish(FALSE, [event |-> "order.updated"])

(* StreamController.stream: stream.ready, then what was missed, then live. *)
stream(last) ==
  LET replay == replayAfter(last)
      ready == [event |-> "stream.ready", resumed |-> replay.resumed]
      mine == {i \in DOMAIN replay.missed : matchesFilter(replay.missed[i])}
  IN
  /\ open' = TRUE
  /\ pipe' = <<ready>> \o kept(replay.missed, mine)
  /\ since' = IF replay.resumed THEN last ELSE cursor
  /\ UNCHANGED <<buffer, cursor>>

close == open' = FALSE /\ pipe' = <<>> /\ UNCHANGED <<buffer, cursor, since>>

(* A restarted gateway has an empty buffer and knows no cursor.            *)
GatewayRestarts ==
  open' = FALSE /\ pipe' = <<>> /\ buffer' = <<>> /\ UNCHANGED <<cursor, since>>

-----------------------------------------------------------------------------
(* The state resuming rests on: the buffer's cursors are the last ones     *)
(* minted, without a gap, and what is written is ours and minted.          *)

isFrame(f) ==
  /\ f = frameAt(f.cursor, f.ours, f.data)
  /\ f.cursor \in Nat \ {0} /\ f.ours \in BOOLEAN
  /\ f.event \in {"order.updated", "timeline.appended"}
  /\ f.ours /\ f.event = "order.updated" => f.data.status \in OrderStatus

lastMinted(frames, c) ==
  /\ frames \in Seq(ToSet(frames)) /\ Len(frames) <= c
  /\ \A i \in DOMAIN frames :
       isFrame(frames[i]) /\ frames[i].cursor = c - Len(frames) + i

writable(written, c) ==
  /\ written \in Seq(ToSet(written))
  /\ \A i \in DOMAIN written :
       \/ i = 1 /\ written[i].event = "stream.ready"
       \/ isFrame(written[i]) /\ written[i].ours /\ written[i].cursor <= c

HubInv ==
  /\ cursor \in Nat /\ since \in 0..cursor /\ open \in BOOLEAN
  /\ lastMinted(buffer, cursor)
  /\ writable(pipe, cursor)
  /\ ~open => pipe = <<>>

=============================================================================
