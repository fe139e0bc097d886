------------------------------- MODULE InOrder -------------------------------
(* Numbers in ascending order, and what a filter keeps of a sequence.      *)
EXTENDS Integers, FiniteSets

inOrder(S) ==
  [k \in 1..Cardinality(S) |-> CHOOSE n \in S : Cardinality({m \in S : m <= n}) = k]

(* The elements of a sequence at these places, as they stand.              *)
kept(sequence, places) ==
  [k \in 1..Cardinality(places) |-> sequence[inOrder(places)[k]]]

=============================================================================
