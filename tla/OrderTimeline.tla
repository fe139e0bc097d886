--------------------------- MODULE OrderTimeline ---------------------------
(***************************************************************************)
(* The read model of one order: the order_timeline document, and what the  *)
(* projector makes of it when it applies a fact.  Pure: the document after *)
(* one atomic update is a function of the document before and of the fact. *)
(*                                                                         *)
(* A fact is [id, type, at, cause, complete]: its eventId, eventType,      *)
(* occurredAt and causationId, and whether its payload has what its        *)
(* summary reads.  Wording, amounts and lines are left out.                *)
(***************************************************************************)
EXTENDS Integers, Sequences, SequencesExt, FiniteSets, TLC

HANDLED_EVENT_TYPES ==
  {"order.placed", "stock.reserved", "stock.rejected", "stock.released", "credit.approved",
   "credit.rejected", "credit.released", "order.confirmed", "order.despatched", "invoice.issued",
   "payment.received", "order.completed", "order.cancelled", "order.saga_failed"}

(* order-status-rank.ts: the status a fact proves, "none" when it proves   *)
(* nothing, and how far along that status is.                              *)
RANK_TABLE ==
  LET entry(status, rank) == [status |-> status, rank |-> rank] IN
  [t \in HANDLED_EVENT_TYPES |->
     CASE t = "order.placed" -> entry("placed", 1)
       [] t = "stock.reserved" -> entry("stock_reserved", 2)
       [] t = "credit.approved" -> entry("credit_approved", 3)
       [] t = "order.confirmed" -> entry("confirmed", 4)
       [] t = "order.despatched" -> entry("despatched", 5)
       [] t = "invoice.issued" -> entry("invoiced", 6)
       [] t = "payment.received" -> entry("paid", 7)
       [] t = "order.completed" -> entry("completed", 98)
       [] t = "order.cancelled" -> entry("cancelled", 99)
       [] OTHER -> entry("none", 0)]

impliedStatusOf(type) == RANK_TABLE[type].status
rankOf(type) == RANK_TABLE[type].rank

OrderStatus == {RANK_TABLE[t].status : t \in HANDLED_EVENT_TYPES} \ {"none"}
Terminal == {"completed", "cancelled"}

(* The summary builders: one that misses a field it reads throws, past the *)
(* envelope guard.                                                         *)
summarizes(fact) == fact.complete

(* What a fact writes once: the reference it brings, or the reason.        *)
fills(fact) ==
  CASE fact.type = "order.despatched" -> {"despatchReference"}
    [] fact.type = "invoice.issued" -> {"invoiceReference"}
    [] fact.type = "payment.received" -> {"paymentReference"}
    [] fact.type = "order.cancelled" -> {"cancellationReason"}
    [] OTHER -> {}

TIMELINE_ORDER_VERSION == 2

(* A fact's timeline entry; cause 0 is no fact's id.                       *)
TimelineEntry == [id : Nat, type : HANDLED_EVENT_TYPES, at : Nat, cause : Nat]
entryOf(fact) == [id |-> fact.id, type |-> fact.type, at |-> fact.at, cause |-> fact.cause]

(* projectFact: the whole change a fact asks for.                          *)
projectFact(fact) ==
  [entry |-> entryOf(fact), impliedStatus |-> impliedStatusOf(fact.type),
   statusRank |-> rankOf(fact.type), fillIfAbsent |-> fills(fact),
   header |-> fact.type = "order.placed"]

-----------------------------------------------------------------------------
(* The order of the timeline.                                              *)

(* The entry's cause among the entries of the same instant, if it is here. *)
causeOf(events, i) ==
  {c \in DOMAIN events \ {i} :
     events[c].id = events[i].cause /\ events[c].at = events[i].at}

(* One relaxation round for each entry: at <<n, i>>, after n rounds, entry *)
(* i is one deeper than its cause was in the round before.                 *)
DeepEntry == [entry : TimelineEntry, depth : Nat]

depthFixpoint[events \in Seq(TimelineEntry)] ==
  LET depth[p \in (0..Len(events)) \X DOMAIN events] ==
        IF p[1] = 0 \/ causeOf(events, p[2]) = {} THEN 0
        ELSE 1 + depth[<<p[1] - 1, CHOOSE c \in causeOf(events, p[2]) : TRUE>>]
  IN [i \in DOMAIN events |-> [entry |-> events[i], depth |-> depth[<<Len(events), i>>]]]

(* Mutant: the order before causal edges were recorded.                    *)
timelineOrderById(events) ==
  SortSeq(events, LAMBDA a, b : a.at < b.at \/ (a.at = b.at /\ a.id < b.id))

(* $sortArray by instant, depth and id, no two of which are the same: the  *)
(* place of an entry says how many come before it.                         *)
sortedWithDepth[deep \in Seq(DeepEntry)] ==
  LET before(a, b) ==
        \/ a.entry.at < b.entry.at
        \/ a.entry.at = b.entry.at /\ a.depth < b.depth
        \/ a.entry.at = b.entry.at /\ a.depth = b.depth /\ a.entry.id < b.entry.id
      place(i) == 1 + Cardinality({j \in DOMAIN deep : before(deep[j], deep[i])})
  IN [k \in DOMAIN deep |-> deep[CHOOSE i \in DOMAIN deep : place(i) = k].entry]

causalTimelineOrder(events) == sortedWithDepth[depthFixpoint[events]]

-----------------------------------------------------------------------------
(* The document.  A document an older release or the seed wrote has no     *)
(* statusRank (NoRank) and no processed keys.                              *)

NoDocument == [status |-> "absent"]
NoRank == -1

(* The earliest thing that is certainly true of an order.                  *)
placeholderSkeleton(at) ==
  [status |-> "placed", statusRank |-> 0, events |-> <<>>, filled |-> <<>>,
   headerComplete |-> FALSE, updatedAt |-> at, processedEventKeys |-> {},
   timelineOrderVersion |-> TIMELINE_ORDER_VERSION]

orZero(rank) == IF rank = NoRank THEN 0 ELSE rank
larger(m, n) == IF m > n THEN m ELSE n

(* Mutant: every fact writes the status its table row has.                 *)
raisedStatusAlways(document, delta) == delta.impliedStatus

(* R52: the status moves only to a strictly greater rank.                  *)
raisedStatus(document, delta) ==
  IF delta.impliedStatus # "none" /\ delta.statusRank > orZero(document.statusRank)
  THEN delta.impliedStatus ELSE document.status

deltaToPipeline(document, delta) ==
  [status |-> raisedStatus(document, delta),
   statusRank |-> larger(orZero(document.statusRank), delta.statusRank),
   events |-> causalTimelineOrder(Append(document.events, delta.entry)),
   filled |-> [f \in DOMAIN document.filled \union delta.fillIfAbsent |->
                 IF f \in DOMAIN document.filled THEN document.filled[f] ELSE delta.entry.id],
   headerComplete |-> document.headerComplete \/ delta.header,
   updatedAt |-> larger(document.updatedAt, delta.entry.at),
   processedEventKeys |-> document.processedEventKeys \union {delta.entry.id},
   timelineOrderVersion |-> TIMELINE_ORDER_VERSION]

(* Boot: documents the projector did not write get their rank from their   *)
(* status and their processed keys from their own timeline.                *)
STATUS_RANK(status) ==
  RANK_TABLE[CHOOSE t \in HANDLED_EVENT_TYPES : RANK_TABLE[t].status = status].rank

backfillLegacyDocuments(document) ==
  IF document.status = "absent" \/ document.statusRank # NoRank THEN document
  ELSE [document EXCEPT
          !.statusRank = STATUS_RANK(document.status),
          !.processedEventKeys = {document.events[i].id : i \in DOMAIN document.events}]

(* Boot: a timeline sorted by an older rule is sorted again; a terminal    *)
(* order gets no further fact that would do it.                            *)
migrateTimelineOrder(document) ==
  IF document.status = "absent" \/ document.timelineOrderVersion = TIMELINE_ORDER_VERSION
  THEN document
  ELSE [document EXCEPT !.events = causalTimelineOrder(document.events),
                        !.timelineOrderVersion = TIMELINE_ORDER_VERSION]

-----------------------------------------------------------------------------
(* What a document should say of the facts it has.                         *)

ranked(es) == {e \in ToSet(es) : impliedStatusOf(e.type) # "none"}
furthest(es) == CHOOSE e \in ranked(es) : \A g \in ranked(es) : rankOf(g.type) <= rankOf(e.type)

oneEntryEach(es) == \A i, j \in DOMAIN es : es[i].id = es[j].id => i = j

inCausalOrder(es) == \A i, j \in DOMAIN es :
  /\ i < j => es[i].at <= es[j].at
  /\ es[i].at = es[j].at /\ es[j].cause = es[i].id => i < j

eventIds(es) == {es[i].id : i \in DOMAIN es}

filledBy(es, filled) == \A e \in ToSet(es) : fills([type |-> e.type]) \subseteq DOMAIN filled

(* Causes of one instant do not go in a circle.                            *)
acyclic(entries) == \A S \in SUBSET entries :
  S # {} => \E e \in S : \A g \in S : g.id # e.cause \/ g.at # e.at

=============================================================================
