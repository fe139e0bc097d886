------------------------- MODULE MCFulfillmentStock -------------------------
(* A small warehouse for TLC: two known products and one unknown, orders   *)
(* that compete for them and deliveries.                                   *)
EXTENDS FulfillmentStock, TLC

CONSTANTS a, b, x, o1, o2, o3, o4, d1, d2,
          r1, s1, r2, r3, r4, l1, k1, k2, f1, f2

MCProduct == {a, b, x}
MCKnown == {a, b}
MCRank == a :> 1 @@ b :> 2 @@ x :> 3
MCOrder == {o1, o2, o3, o4}
MCDelivery == {d1, d2}

line(na, nb, nx) == a :> na @@ b :> nb @@ x :> nx
MCDemand ==
  o1 :> line(1, 2, 0) @@ o2 :> line(1, 1, 0) @@ o3 :> line(1, 0, 1) @@ o4 :> line(0, 0, 1)
    @@ d1 :> line(1, 1, 0) @@ d2 :> line(1, 0, 1)

(* Enough of a for one order: o1 and o2 compete until the delivery.        *)
MCInitialUnits == a :> 1 @@ b :> 2

(* o1 is asked for twice and raced by o2, a release, two despatches and a  *)
(* delivery; o3 and o4, and the second delivery, name an unknown product.  *)
MCCall == {r1, s1, r2, r3, r4, l1, k1, k2, f1, f2}
MCOperation ==
  r1 :> "reserve" @@ s1 :> "reserve" @@ r2 :> "reserve" @@ r3 :> "reserve" @@ r4 :> "reserve"
    @@ l1 :> "release" @@ k1 :> "despatch" @@ k2 :> "despatch"
    @@ f1 :> "replenish" @@ f2 :> "replenish"
MCTarget ==
  r1 :> o1 @@ s1 :> o1 @@ r2 :> o2 @@ r3 :> o3 @@ r4 :> o4 @@ l1 :> o1 @@ k1 :> o1 @@ k2 :> o1
    @@ f1 :> d1 @@ f2 :> d2

=============================================================================
