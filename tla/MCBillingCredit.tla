-------------------------- MODULE MCBillingCredit --------------------------
(* A small ledger for TLC: two orders competing for one credit line, one   *)
(* on a second line, one the simulator always refuses, and one on a line   *)
(* that does not exist.                                                    *)
EXTENDS BillingCredit, TLC

CONSTANTS l1, l2, lx, o1, o2, o3, o4, o5, r1, r2,
          h1, g1, f1, h2, h3, h4, h5, x1, i1, e1, i3, p1, d1, q1, w1, p3

MCLine == {l1, l2, lx}
MCKnown == {l1, l2}
MCLimit == l1 :> 5 @@ l2 :> 200
MCOrder == {o1, o2, o3, o4, o5}
MCLineOf == o1 :> l1 @@ o2 :> l1 @@ o3 :> l2 @@ o4 :> l2 @@ o5 :> lx
MCAmount == o1 :> 3 @@ o2 :> 4 @@ o3 :> 2 @@ o4 :> 199 @@ o5 :> 1
MCReference == {r1, r2}
MCCall == {h1, g1, f1, h2, h3, h4, h5, x1, i1, e1, i3, p1, d1, q1, w1, p3}

MCOperation == [c \in MCCall |->
  CASE c \in {h1, g1, f1, h2, h3, h4, h5} -> "hold"
    [] c = x1 -> "release"
    [] c \in {i1, e1, i3} -> "issue"
    [] c \in {p1, d1, q1, w1, p3} -> "pay"]

MCTarget == [c \in MCCall |->
  CASE c \in {h1, g1, f1, x1, i1, e1, p1, d1, q1, w1} -> o1
    [] c = h2 -> o2
    [] c \in {h3, i3, p3} -> o3
    [] c = h4 -> o4
    [] c = h5 -> o5]

(* d1 repeats p1, q1 pays o1's invoice under another reference, p3 pays    *)
(* o3's under p1's, w1 pays too little, f1 and e1 quote a foreign currency. *)
MCReferenceOf == [c \in MCCall |-> IF c = q1 THEN r2 ELSE r1]
MCPaidAmount == [c \in MCCall |-> IF c = w1 THEN 1 ELSE MCAmount[MCTarget[c]]]
MCForeign == {f1, e1}

(* Orders of different lines with neighbouring references.                 *)
MCNear == {<<o1, o3>>, <<o3, o1>>}

(* One line with every operation and a repeated hold; two lines that share *)
(* the number sequence, a payment reference and a gap; requests that are   *)
(* refused; an order's remittance, repeated, doubled and short.            *)
MCMixes == {{h1, g1, h2, x1, i1, p1},
            {h1, h3, i1, i3, p1, p3},
            {h1, f1, h4, h5, i1, e1},
            {h1, i1, p1, d1, q1, w1}}

=============================================================================
