----------------------------- MODULE MCReadSide -----------------------------
(* Stories for TLC.  Event ids are chosen against the causal order, so     *)
(* that ids alone would sort the entries of one instant the wrong way.     *)
EXTENDS ReadSide

fact_(id, type, at_, cause) ==
  [id |-> id, type |-> type, at |-> at_, cause |-> cause, complete |-> TRUE]
early == <<fact_(11, "order.placed", 1, 0), fact_(12, "stock.reserved", 2, 0),
           fact_(13, "credit.approved", 2, 0), fact_(14, "order.confirmed", 2, 13),
           fact_(15, "order.despatched", 4, 0), fact_(16, "invoice.issued", 5, 0)>>
completed == fact_(7, "order.completed", 6, 8)
released == fact_(8, "credit.released", 6, 9)
paid == fact_(9, "payment.received", 6, 0)

(* The document after these facts, as this release writes it, and as the   *)
(* seed wrote it: without ranks and keys, sorted by an older rule.         *)
documentOf(fs) ==
  FoldLeft(LAMBDA d, f : deltaToPipeline(d, projectFact(f)), placeholderSkeleton(1), fs)
SeededInvoiced ==
  [documentOf(early) EXCEPT !.statusRank = NoRank, !.processedEventKeys = {},
     !.timelineOrderVersion = 1,
     !.events = [@ EXCEPT ![3] = entryOf(early[4]), ![4] = entryOf(early[3])]]

MCStory == {"whole", "seeded", "odd", "opening", "closing"}
MCWatched == {"opening", "closing"}

MCSeeded == [p \in MCStory |->
  CASE p = "seeded" -> SeededInvoiced
    [] p = "closing" -> documentOf(early \o <<paid>>)
    [] OTHER -> NoDocument]

topics(os, fs, bs) == [orders |-> os, fulfillment |-> fs, billing |-> bs]

(* whole: an order from placement to its invoice; seeded: the completion   *)
(* of a seeded order, the triple of one instant across two topics; odd:    *)
(* what is no fact, what is unknown, what cannot be summarised, and a      *)
(* cancellation that may come before what it follows; opening and closing: *)
(* the ends of an order's life, watched.                                   *)
MCFacts == [p \in MCStory |->
  CASE p = "whole" ->
         topics(<<early[1], early[4]>>, <<early[2], early[5]>>, <<early[3], early[6]>>)
    [] p = "seeded" -> topics(<<completed>>, <<>>, <<early[6], paid, released>>)
    [] p = "odd" ->
         topics(<<fact_(3, "order.placed", 1, 0), fact_(5, "order.archived", 2, 4),
                  fact_(1, "order.cancelled", 2, 2)>>,
                <<Malformed, fact_(2, "stock.rejected", 2, 0),
                  [fact_(6, "stock.released", 2, 1) EXCEPT !.complete = FALSE]>>, <<>>)
    [] p = "opening" -> topics(<<early[1]>>, <<>>, <<>>)
    [] p = "closing" -> topics(<<completed>>, <<>>, <<released>>)]

=============================================================================
