----------------------------- MODULE OrderPage -----------------------------
(***************************************************************************)
(* The order detail page: a query cache filled by GET /orders/{id}, and    *)
(* patched by the frames of the live stream; a slow poll behind both.      *)
(***************************************************************************)
EXTENDS StreamHub

CONSTANTS
  GiveUpAfter,   \* consecutive errors until the client gives up
  Watched        \* bound: the stories somebody has the page open for
ASSUME GiveUpAssumption == GiveUpAfter \in Nat \ {0}

VARIABLES
  cache,          \* the cached result of the query
  response,       \* the answer of the GET under way
  timer,          \* the refetch interval is armed
  observedNonTerminal, extraPollDone,
  client,         \* the stream client
  issued          \* the order is in the gateway's issued-order window

pageVars == <<cache, response, timer, observedNonTerminal, extraPollDone, client, issued>>

Nothing == [kind |-> "none"]
Pending == [kind |-> "pending"]
Failed == [kind |-> "failed"]

(* GetOrderHandler: found, pending for an id just handed out, unknown.     *)
getOrder ==
  IF document # NoDocument
  THEN [kind |-> "ready", status |-> document.status, events |-> document.events]
  ELSE IF issued THEN Pending ELSE Failed

Offline == [state |-> "off", seenUpdates |-> {}, seenEntries |-> {}, last |-> 0, errors |-> 0]

ClientState == {"off", "connecting", "connected", "reconnecting", "gave-up"}

PageTypeOK ==
  /\ cache.kind \in {"none", "pending", "ready", "failed"}
  /\ cache.kind = "ready" => cache.status \in OrderStatus
  /\ client.state \in ClientState
  /\ client.last \in 0..cursor
  /\ open => client.state \in {"connecting", "connected", "reconnecting"}

PageInit ==
  /\ cache = Nothing /\ response = Nothing /\ timer = FALSE
  /\ observedNonTerminal = FALSE /\ extraPollDone = FALSE
  /\ client = Offline
  /\ issued = TRUE

isTerminalOrderStatus(status) == status \in Terminal

(* Mutant: the backstop stops as soon as a document has landed.            *)
refetchIntervalPendingOnly(c) ==
  /\ timer' = (c.kind = "pending")
  /\ UNCHANGED <<observedNonTerminal, extraPollDone>>

(* refetchInterval, evaluated whenever the cache changes: it notes what it *)
(* saw, and grants one more poll after a transition it watched.            *)
refetchInterval(c) ==
  LET terminal == c.kind = "ready" /\ isTerminalOrderStatus(c.status)
      live == c.kind = "ready" /\ ~terminal
      oneMore == terminal /\ observedNonTerminal /\ ~extraPollDone
  IN
  /\ timer' = (c.kind = "pending" \/ live \/ oneMore)
  /\ observedNonTerminal' = (observedNonTerminal \/ live)
  /\ extraPollDone' = (extraPollDone \/ oneMore)

idsOf(c) == {c.events[i].id : i \in DOMAIN c.events}

(* A new client, its two duplicate filters seeded from what is on screen.  *)
connect(seed) ==
  [state |-> "connecting", seenUpdates |-> seed, seenEntries |-> seed, last |-> 0, errors |-> 0]

(* The page is opened; after a failure it is up to the user to try again.  *)
Load ==
  /\ story \in Watched
  /\ cache.kind = "none" /\ response = Nothing
  /\ response' = getOrder
  /\ UNCHANGED <<cache, timer, observedNonTerminal, extraPollDone, client, issued, hubVars>>

Reload ==
  /\ cache.kind = "failed" /\ response = Nothing
  /\ response' = getOrder
  /\ UNCHANGED <<cache, timer, observedNonTerminal, extraPollDone, client, issued, hubVars>>

Poll ==
  /\ timer /\ response = Nothing
  /\ response' = getOrder
  /\ refetchInterval(cache)
  /\ UNCHANGED <<cache, client, issued, hubVars>>

(* An answer replaces the cache; an error leaves what was there.  The      *)
(* first document starts the stream.                                       *)
Respond ==
  LET new == IF response = Failed /\ cache.kind \in {"pending", "ready"} THEN cache ELSE response IN
  /\ response # Nothing
  /\ response' = Nothing
  /\ cache' = new
  /\ refetchInterval(new)
  /\ client' = IF new.kind = "ready" /\ client.state = "off" THEN connect(idsOf(new)) ELSE client
  /\ UNCHANGED <<issued, hubVars>>

(* The browser opens the stream, through the web server's proxy, with the  *)
(* last cursor it saw.                                                     *)
OpenStream ==
  /\ client.state \in {"connecting", "reconnecting"} /\ ~open
  /\ stream(client.last)
  /\ UNCHANGED pageVars

alive(c) == [c EXCEPT !.state = "connected", !.errors = 0]

(* resumed: false means frames may be missing: fetch again, instead of     *)
(* whatever fetch is under way.                                            *)
HandleReady ==
  /\ pipe # <<>> /\ Head(pipe).event = "stream.ready"
  /\ pipe' = Tail(pipe)
  /\ client' = alive(client)
  /\ IF Head(pipe).resumed
     THEN UNCHANGED <<response, timer, observedNonTerminal, extraPollDone>>
     ELSE response' = getOrder /\ refetchInterval(cache)
  /\ UNCHANGED <<cache, issued, buffer, cursor, open, since>>

(* applyOrderStreamUpdate: the status of the frame, whatever is on screen. *)
applyOrderStreamUpdate(c, update) ==
  IF c.kind = "ready" THEN [c EXCEPT !.status = update.status] ELSE c

(* applyTimelineAppended: once per eventId, sorted by occurredAt alone.    *)
applyTimelineAppended(c, entry) ==
  IF c.kind = "ready" /\ entry.id \notin idsOf(c)
  THEN LET earlier == SelectSeq(c.events, LAMBDA e : e.at <= entry.at)
           later == SelectSeq(c.events, LAMBDA e : e.at > entry.at)
       IN [c EXCEPT !.events = Append(earlier, entry) \o later]
  ELSE c

(* A content frame: its cursor is remembered, a repeat of its kind for the *)
(* same eventId is dropped.                                                *)
HandleFrame ==
  LET frame == Head(pipe)
      id == frame.data.eventId
      isUpdate == frame.event = "order.updated"
      seen == IF isUpdate THEN client.seenUpdates ELSE client.seenEntries
      patched == IF isUpdate THEN applyOrderStreamUpdate(cache, frame.data)
                 ELSE applyTimelineAppended(cache, frame.data.entry)
      heard == [alive(client) EXCEPT !.last = frame.cursor]
  IN
  /\ pipe # <<>> /\ frame.event # "stream.ready"
  /\ pipe' = Tail(pipe)
  /\ client' = IF isUpdate THEN [heard EXCEPT !.seenUpdates = @ \union {id}]
               ELSE [heard EXCEPT !.seenEntries = @ \union {id}]
  /\ IF id \in seen
     THEN UNCHANGED <<cache, timer, observedNonTerminal, extraPollDone>>
     ELSE cache' = patched /\ refetchInterval(patched)
  /\ UNCHANGED <<response, issued, buffer, cursor, open, since>>

(* The heartbeat carries no id: it only shows that the stream is up.       *)
HandlePing ==
  /\ open /\ pipe = <<>> /\ client.errors > 0
  /\ client' = alive(client)
  /\ UNCHANGED <<cache, response, timer, observedNonTerminal, extraPollDone, issued, hubVars>>

streamError(c) ==
  IF c.errors + 1 >= GiveUpAfter
  THEN [c EXCEPT !.state = "gave-up", !.errors = @ + 1]
  ELSE [c EXCEPT !.state = "reconnecting", !.errors = @ + 1]

(* The connection breaks, or cannot be opened, or the gateway restarts.    *)
StreamBreaks ==
  /\ client.state \in {"connecting", "connected", "reconnecting"}
  /\ client' = streamError(client)
  /\ close \/ GatewayRestarts
  /\ UNCHANGED <<cache, response, timer, observedNonTerminal, extraPollDone, issued>>

(* Refused outright (no session): the browser does not retry.              *)
StreamRefused ==
  /\ client.state \in {"connecting", "reconnecting"} /\ ~open
  /\ client' = [client EXCEPT !.state = "gave-up"]
  /\ UNCHANGED <<cache, response, timer, observedNonTerminal, extraPollDone, issued, hubVars>>

(* The user asks for the connection again: a client of its own.            *)
RetryConnection ==
  /\ client.state = "gave-up"
  /\ client' = connect(IF cache.kind = "ready" THEN idsOf(cache) ELSE {})
  /\ UNCHANGED <<cache, response, timer, observedNonTerminal, extraPollDone, issued, hubVars>>

(* The issued-order window forgets the order: too old, or one too many.    *)
WindowForgets ==
  /\ issued /\ issued' = FALSE
  /\ UNCHANGED <<cache, response, timer, observedNonTerminal, extraPollDone, client, hubVars>>

-----------------------------------------------------------------------------

shown(c) ==
  \/ c \in {Nothing, Pending, Failed}
  \/ /\ c = [kind |-> "ready", status |-> c.status, events |-> c.events]
     /\ c.status \in OrderStatus

PageInv ==
  /\ PageTypeOK
  /\ shown(cache) /\ shown(response)
  /\ client = [state |-> client.state, seenUpdates |-> client.seenUpdates,
               seenEntries |-> client.seenEntries, last |-> client.last, errors |-> client.errors]

=============================================================================
