--------------------------- MODULE CountingLemmas ---------------------------
(***************************************************************************)
(* Facts proved by counting: sums over a finite set, for counters that are *)
(* sums over orders and requests; numbers in order, for rows and frames    *)
(* that are picked out of a sequence; folds over a list, for totals; and   *)
(* places in an order, for sorting.                                        *)
(*                                                                         *)
(* A sum is a recursive function on subsets, so each fact would take an    *)
(* induction.  Instead the values are counted: a value n stands for n      *)
(* tokens, and the sum is shown once to be the number of tokens (a         *)
(* smallest subset on which the two differed would have to be empty).      *)
(* Adding and removing are then facts about cardinalities.  Induction on a *)
(* number is had in the same way: a set of naturals that leaves one out    *)
(* leaves a least one out.                                                 *)
(***************************************************************************)
EXTENDS InOrder, Sequences, FiniteSetsExt, Functions, FiniteSetTheorems, WellFoundedInduction,
        TLAPS

(* A set of naturals has a least element ...                               *)
LEMMA LeastNatural ==
  ASSUME NEW T \in SUBSET Nat, T # {}
  PROVE  \E x \in T : \A y \in T : x <= y
<1> DEFINE R == OpToRel(<, Nat)
<1>1. IsWellFoundedOn(R, Nat)
  BY NatLessThanWellFounded, Zenon
<1>2. \A x, y \in Nat : y < x => <<y, x>> \in R
  BY DEF OpToRel
<1> HIDE DEF R
<1>3. PICK x \in T : \A y \in T : <<y, x>> \notin R
  BY <1>1, WFMin
<1>4. \A y \in T : ~(y < x)
  BY <1>2, <1>3
<1> QED
  BY <1>3, <1>4

(* ... so a set that is closed under successors and has zero has them all. *)
LEMMA Induction ==
  ASSUME NEW S, 0 \in S, \A n \in Nat : n \in S => n + 1 \in S
  PROVE  Nat \subseteq S
<1> SUFFICES ASSUME Nat \ S # {}
             PROVE  FALSE
  OBVIOUS
<1>1. PICK x \in Nat \ S : \A y \in Nat \ S : x <= y
  BY LeastNatural
<1>2. x # 0 /\ x - 1 \in Nat /\ x - 1 < x
  BY <1>1
<1>3. x - 1 \in S
  BY <1>1, <1>2
<1>4. (x - 1) + 1 \in S /\ (x - 1) + 1 = x
  BY <1>2, <1>3
<1> QED
  BY <1>1, <1>4

LOCAL tokensOf(f, x) == {x} \X (1 .. f[x])
LOCAL tokens(f, S) == UNION {tokensOf(f, x) : x \in S}

LEMMA OneValueTokens ==
  ASSUME NEW f, NEW x, f[x] \in Nat
  PROVE  IsFiniteSet(tokensOf(f, x)) /\ Cardinality(tokensOf(f, x)) = f[x]
<1>1. IsFiniteSet({x}) /\ Cardinality({x}) = 1
  BY FS_Singleton
<1>2. IsFiniteSet(1 .. f[x]) /\ Cardinality(1 .. f[x]) = f[x]
  BY FS_Interval, SMTT(60)
<1>3. IsFiniteSet({x} \X (1 .. f[x])) /\ Cardinality({x} \X (1 .. f[x])) = 1 * f[x]
  BY ONLY <1>1, <1>2, FS_Product, ZenonT(60)
<1> QED
  BY <1>3 DEF tokensOf

LEMMA TokensFinite ==
  ASSUME NEW S, IsFiniteSet(S), NEW f, \A x \in S : f[x] \in Nat
  PROVE  IsFiniteSet(tokens(f, S)) /\ Cardinality(tokens(f, S)) \in Nat
<1> DEFINE T == {tokensOf(f, x) : x \in S}
           g == [x \in S |-> tokensOf(f, x)]
<1>1. \A x \in S : IsFiniteSet(tokensOf(f, x))
  BY OneValueTokens
<1>2. IsFiniteSet(T)
  <2>1. g \in Surjection(S, T)
    BY DEF Surjection
  <2> HIDE DEF g, T
  <2> QED
    BY <2>1, FS_Surjection
<1>3. IsFiniteSet(UNION T)
  <2>1. \A t \in T : IsFiniteSet(t)
    BY <1>1
  <2> HIDE DEF T
  <2> QED
    BY <1>2, <2>1, FS_UNION
<1> QED
  BY <1>3, FS_CardinalityType DEF tokens

LEMMA TokensAdd ==
  ASSUME NEW S, IsFiniteSet(S), NEW x \in S, NEW f, \A y \in S : f[y] \in Nat
  PROVE  Cardinality(tokens(f, S)) = f[x] + Cardinality(tokens(f, S \ {x}))
<1>1. IsFiniteSet(tokens(f, S \ {x})) /\ Cardinality(tokens(f, S \ {x})) \in Nat
  BY FS_RemoveElement, TokensFinite
<1>2. IsFiniteSet(tokensOf(f, x)) /\ Cardinality(tokensOf(f, x)) = f[x]
  BY OneValueTokens
<1>3. tokens(f, S) = tokens(f, S \ {x}) \union tokensOf(f, x)
  BY DEF tokens
<1>4. tokens(f, S \ {x}) \intersect tokensOf(f, x) = {}
  BY DEF tokens, tokensOf
<1>5. Cardinality(tokens(f, S)) =
        Cardinality(tokens(f, S \ {x})) + f[x] - Cardinality({})
  <2> DEFINE A == tokens(f, S \ {x})
             B == tokensOf(f, x)
  <2> HIDE DEF A, B
  <2>1. IsFiniteSet(A) /\ IsFiniteSet(B)
    BY <1>1, <1>2 DEF A, B
  <2>2. Cardinality(A \union B) = Cardinality(A) + Cardinality(B) - Cardinality(A \intersect B)
    BY <2>1, FS_Union
  <2> QED
    BY <1>2, <1>3, <1>4, <2>2 DEF A, B
<1> QED
  BY <1>1, <1>5, FS_EmptySet

LEMMA SumCountsTokens ==
  ASSUME NEW S, IsFiniteSet(S), NEW f, \A x \in S : f[x] \in Nat
  PROVE  SumFunctionOnSet(f, S) = Cardinality(tokens(f, S))
<1> DEFINE pick(s) == CHOOSE x \in s : TRUE
           body(g, s) == IF s = {} THEN 0 ELSE f[pick(s)] + g[s \ {pick(s)}]
           count == [s \in SUBSET S |-> Cardinality(tokens(f, s))]
           iter == CHOOSE g : g = [s \in SUBSET S |-> body(g, s)]
<1>1. \A s \in SUBSET S : IsFiniteSet(s)
  BY FS_Subset
<1>2. \A s \in SUBSET S : count[s] = body(count, s)
  <2> TAKE s \in SUBSET S
  <2>1. CASE s = {}
    <3>1. tokens(f, {}) = {}
      BY DEF tokens
    <3> QED
      BY <2>1, <3>1, FS_EmptySet
  <2>2. CASE s # {}
    <3>1. pick(s) \in s
      BY <2>2
    <3> HIDE DEF pick
    <3> QED
      BY <1>1, <2>2, <3>1, TokensAdd
  <2> QED
    BY <2>1, <2>2
<1>3. count = [s \in SUBSET S |-> body(count, s)]
  BY <1>2
<1>4. iter = [s \in SUBSET S |-> body(iter, s)]
  <2> HIDE DEF count, body
  <2> QED
    BY <1>3
<1>5. \A s \in SUBSET S : iter[s] = count[s]
  <2> DEFINE Bad == {s \in SUBSET S : iter[s] # count[s]}
  <2> HIDE DEF iter, count
  <2> SUFFICES ASSUME Bad # {} PROVE FALSE
    OBVIOUS
  <2>1. FiniteSubsetsOf(S) = SUBSET S
    BY FS_FiniteSubsetsOfFinite
  <2>2. IsWellFoundedOn(StrictSubsetOrdering(S), SUBSET S)
    BY <2>1, FS_StrictSubsetOrderingWellFounded
  <2>3. PICK s \in Bad : \A t \in Bad : ~(<<t, s>> \in StrictSubsetOrdering(S))
    <3>1. Bad \subseteq SUBSET S
      OBVIOUS
    <3> HIDE DEF Bad
    <3> QED
      BY <2>2, <3>1, WFMin
  <2>4. CASE s = {}
    BY <1>2, <1>4, <2>4
  <2>5. CASE s # {}
    <3>1. pick(s) \in s /\ s \ {pick(s)} \in SUBSET S
      BY <2>5
    <3>2. iter[s \ {pick(s)}] = count[s \ {pick(s)}]
      <4> DEFINE t == s \ {pick(s)}
      <4>1. t \in SUBSET S /\ s \in SUBSET S /\ t \subseteq s /\ t # s
        BY <3>1
      <4> HIDE DEF t
      <4>2. <<t, s>> \in StrictSubsetOrdering(S)
        BY <4>1 DEF StrictSubsetOrdering
      <4>3. iter[t] = count[t]
        BY <2>3, <4>1, <4>2
      <4> QED
        BY <4>3 DEF t
    <3> QED
      BY <1>2, <1>4, <2>5, <3>2, ZenonT(60)
  <2> QED
    BY <2>4, <2>5
<1>6. SumFunctionOnSet(f, S) = iter[S]
  BY DEF SumFunctionOnSet, FoldFunctionOnSet, MapThenFoldSet
<1> QED
  BY <1>5, <1>6

-----------------------------------------------------------------------------
(* The facts the proofs about counters cite.                               *)

LEMMA SumIsNat ==
  ASSUME NEW S, IsFiniteSet(S), NEW f, \A x \in S : f[x] \in Nat
  PROVE  SumFunctionOnSet(f, S) \in Nat
BY SumCountsTokens, TokensFinite

LEMMA SumOfNone == \A f : SumFunctionOnSet(f, {}) = 0
<1> TAKE f
<1>1. tokens(f, {}) = {}
  BY DEF tokens
<1> QED
  BY <1>1, SumCountsTokens, FS_EmptySet

(* One more element adds its value.                                        *)
LEMMA SumWith ==
  ASSUME NEW S, IsFiniteSet(S), NEW x, x \notin S, NEW f,
         \A y \in S \union {x} : f[y] \in Nat
  PROVE  /\ IsFiniteSet(S \union {x})
         /\ SumFunctionOnSet(f, S \union {x}) = SumFunctionOnSet(f, S) + f[x]
<1>1. IsFiniteSet(S \union {x}) /\ (S \union {x}) \ {x} = S
  BY FS_AddElement
<1>2. Cardinality(tokens(f, S \union {x})) = f[x] + Cardinality(tokens(f, S))
  BY <1>1, TokensAdd
<1>3. Cardinality(tokens(f, S)) \in Nat
  BY TokensFinite
<1> QED
  BY <1>1, <1>2, <1>3, SumCountsTokens

(* One element less takes its value away.                                  *)
LEMMA SumWithout ==
  ASSUME NEW S, IsFiniteSet(S), NEW x \in S, NEW f, \A y \in S : f[y] \in Nat
  PROVE  /\ IsFiniteSet(S \ {x})
         /\ SumFunctionOnSet(f, S \ {x}) = SumFunctionOnSet(f, S) - f[x]
<1>1. IsFiniteSet(S \ {x}) /\ (S \ {x}) \union {x} = S
  BY FS_RemoveElement
<1>2. SumFunctionOnSet(f, S) = SumFunctionOnSet(f, S \ {x}) + f[x]
  <2>1. x \notin S \ {x} /\ \A y \in (S \ {x}) \union {x} : f[y] \in Nat
    OBVIOUS
  <2> QED
    BY <1>1, <2>1, SumWith
<1>3. SumFunctionOnSet(f, S \ {x}) \in Nat
  BY <1>1, SumIsNat
<1> QED
  BY <1>1, <1>2, <1>3

-----------------------------------------------------------------------------
(* Numbers in order.                                                       *)

LEMMA RankBounds ==
  ASSUME NEW S \in SUBSET Nat, IsFiniteSet(S), NEW n \in S
  PROVE  /\ IsFiniteSet({m \in S : m <= n})
         /\ Cardinality({m \in S : m <= n}) \in 1..Cardinality(S)
<1> DEFINE T == {m \in S : m <= n}
<1>1. IsFiniteSet(T) /\ Cardinality(T) <= Cardinality(S)
  BY FS_Subset
<1>2. T # {} /\ Cardinality(T) \in Nat /\ Cardinality(S) \in Nat
  BY <1>1, FS_CardinalityType
<1>3. Cardinality(T) # 0
  BY <1>1, <1>2, FS_EmptySet
<1> QED
  BY <1>1, <1>2, <1>3

LEMMA RankGrows ==
  ASSUME NEW S \in SUBSET Nat, IsFiniteSet(S), NEW n \in S, NEW m \in S, m < n
  PROVE  Cardinality({k \in S : k <= m}) < Cardinality({k \in S : k <= n})
<1> DEFINE M == {k \in S : k <= m}
           N == {k \in S : k <= n}
<1>1. M \subseteq N /\ n \in N /\ n \notin M
  <2>1. S \subseteq Nat
    OBVIOUS
  <2>2. \A k \in S : k <= m => k <= n
    BY <2>1
  <2>3. ~ (n <= m) /\ n <= n
    BY <2>1
  <2> QED
    BY <2>2, <2>3
<1>2. IsFiniteSet(N) /\ Cardinality(M) \in Nat /\ Cardinality(N) \in Nat
  BY RankBounds
<1> HIDE DEF M, N
<1>3. Cardinality(M) <= Cardinality(N) /\ (Cardinality(N) = Cardinality(M) => N = M)
  BY <1>1, <1>2, FS_Subset
<1>4. Cardinality(M) < Cardinality(N)
  BY <1>1, <1>2, <1>3
<1> QED
  BY <1>4 DEF M, N

(* inOrder lists a finite set of numbers, each once, in ascending order.   *)
LEMMA InAscendingOrder ==
  ASSUME NEW S \in SUBSET Nat, IsFiniteSet(S)
  PROVE  /\ Cardinality(S) \in Nat
         /\ DOMAIN inOrder(S) = 1..Cardinality(S)
         /\ \A k \in 1..Cardinality(S) : inOrder(S)[k] \in S
         /\ \A n \in S : \E k \in 1..Cardinality(S) : inOrder(S)[k] = n
         /\ \A j, k \in 1..Cardinality(S) : j < k => inOrder(S)[j] < inOrder(S)[k]
<1> DEFINE N == Cardinality(S)
           rank == [n \in S |-> Cardinality({m \in S : m <= n})]
<1>1. N \in Nat
  BY FS_CardinalityType
<1>2. \A n \in S : rank[n] \in 1..N
  BY RankBounds
<1>3. \A m, n \in S : m < n => rank[m] < rank[n]
  BY RankGrows
<1>4. rank \in Surjection(S, 1..N)
  <2>1. rank \in [S -> 1..N]
    BY <1>2
  <2>2. \A m, n \in S : rank[m] = rank[n] => m = n
    <3> SUFFICES ASSUME NEW m \in S, NEW n \in S, rank[m] = rank[n], m # n
                 PROVE  FALSE
      OBVIOUS
    <3>1. m < n \/ n < m
      OBVIOUS
    <3>2. rank[m] \in Nat /\ rank[n] \in Nat
      BY <1>1, <1>2
    <3> HIDE DEF rank
    <3> QED
      BY <1>3, <3>1, <3>2
  <2>3. IsFiniteSet(1..N) /\ Cardinality(1..N) = N
    BY <1>1, FS_Interval
  <2> HIDE DEF rank
  <2>4. rank \in Injection(S, 1..N)
    BY <2>1, <2>2 DEF Injection, IsInjective
  <2> QED
    BY <2>3, <2>4, FS_Injection
<1>5. \A k \in 1..N : inOrder(S)[k] \in S /\ rank[inOrder(S)[k]] = k
  <2> TAKE k \in 1..N
  <2>1. \E n \in S : rank[n] = k
    <3> HIDE DEF rank
    <3> QED
      BY <1>4 DEF Surjection
  <2>2. \E n \in S : Cardinality({m \in S : m <= n}) = k
    BY <2>1
  <2>3. inOrder(S)[k] = CHOOSE n \in S : Cardinality({m \in S : m <= n}) = k
    BY DEF inOrder
  <2> QED
    BY <2>2, <2>3
<1>6. DOMAIN inOrder(S) = 1..N
  BY DEF inOrder
<1> HIDE DEF rank
<1>7. \A n \in S : \E k \in 1..N : inOrder(S)[k] = n
  <2> TAKE n \in S
  <2>1. rank[n] \in 1..N
    BY <1>2
  <2>2. inOrder(S)[rank[n]] \in S /\ rank[inOrder(S)[rank[n]]] = rank[n]
    BY <1>5, <2>1
  <2>3. inOrder(S)[rank[n]] = n
    <3> DEFINE m == inOrder(S)[rank[n]]
    <3> SUFFICES ASSUME m # n PROVE FALSE
      OBVIOUS
    <3>1. m \in Nat /\ n \in Nat /\ m # n
      BY <2>2
    <3> HIDE DEF m
    <3>2. m < n \/ n < m
      BY <3>1
    <3>3. rank[m] \in Nat /\ rank[n] \in Nat /\ rank[m] = rank[n]
      BY <1>1, <1>2, <2>2 DEF m
    <3> QED
      BY <1>3, <2>2, <3>1, <3>2, <3>3 DEF m
  <2> QED
    BY <2>1, <2>3
<1>8. \A j, k \in 1..N : j < k => inOrder(S)[j] < inOrder(S)[k]
  <2> SUFFICES ASSUME NEW j \in 1..N, NEW k \in 1..N, j < k,
                      ~ (inOrder(S)[j] < inOrder(S)[k])
               PROVE  FALSE
    OBVIOUS
  <2> DEFINE m == inOrder(S)[j]
             n == inOrder(S)[k]
  <2>1. m \in S /\ n \in S /\ rank[m] = j /\ rank[n] = k
    BY <1>5
  <2>2. m \in Nat /\ n \in Nat
    BY <2>1
  <2>4. j \in Nat /\ k \in Nat
    BY <1>1
  <2> HIDE DEF m, n
  <2>3. n < m \/ n = m
    BY <2>2 DEF m, n
  <2> QED
    BY <1>3, <2>1, <2>3, <2>4
<1> QED
  BY <1>1, <1>5, <1>6, <1>7, <1>8

(* A filter keeps the order and nothing else.                              *)
LEMMA KeptInOrder ==
  ASSUME NEW S, NEW s \in Seq(S), NEW I \in SUBSET DOMAIN s
  PROVE  LET q == kept(s, I) IN
         /\ q \in Seq(S)
         /\ \A k \in DOMAIN q : \E i \in I : q[k] = s[i]
         /\ \A i \in I : \E k \in DOMAIN q : q[k] = s[i]
         /\ \A j, k \in DOMAIN q : j < k => \E h, i \in I : h < i /\ q[j] = s[h] /\ q[k] = s[i]
<1> DEFINE N == Cardinality(I)
           own == inOrder(I)
           q == kept(s, I)
<1>1. I \in SUBSET Nat /\ IsFiniteSet(I) /\ \A i \in I : s[i] \in S
  <2>1. DOMAIN s = 1..Len(s) /\ Len(s) \in Nat
    OBVIOUS
  <2>2. IsFiniteSet(1..Len(s))
    BY <2>1, FS_Interval
  <2> QED
    BY <2>1, <2>2, FS_Subset
<1>2. /\ N \in Nat
      /\ \A k \in 1..N : own[k] \in I
      /\ \A n \in I : \E k \in 1..N : own[k] = n
      /\ \A j, k \in 1..N : j < k => own[j] < own[k]
  BY <1>1, InAscendingOrder
<1> HIDE DEF own, N
<1>3. q = [k \in 1..N |-> s[own[k]]]
  BY DEF kept, own, N
<1> HIDE DEF q
<1>4. q \in Seq(S) /\ DOMAIN q = 1..N
  BY <1>1, <1>2, <1>3
<1>5. \A k \in DOMAIN q : q[k] = s[own[k]]
  BY <1>3
<1> QED
  BY <1>2, <1>4, <1>5, SMTT(60) DEF q

-----------------------------------------------------------------------------
(* Finite sets and what they are measured by.                              *)

(* Of finitely many things one has the largest measure.                    *)
LEMMA LargestMeasure ==
  ASSUME NEW S, IsFiniteSet(S), S # {}, NEW measure \in [S -> Nat]
  PROVE  \E x \in S : \A y \in S : measure[y] <= measure[x]
<1> DEFINE I == {measure[x] : x \in S}
           upTo(n) == {m \in I : m <= n}
           above == {Cardinality(I) - Cardinality(upTo(n)) : n \in I}
<1>1. I \in SUBSET Nat /\ IsFiniteSet(I) /\ I # {}
  <2>1. measure \in Surjection(S, I)
    BY DEF Surjection
  <2>2. IsFiniteSet(I)
    BY <2>1, FS_Surjection
  <2> QED
    BY <2>2
<1>2. Cardinality(I) \in Nat
  BY <1>1, FS_CardinalityType
<1>3. \A n \in I : Cardinality(upTo(n)) \in 1..Cardinality(I)
  BY <1>1, RankBounds
<1>4. \A m, n \in I : m < n => Cardinality(upTo(m)) < Cardinality(upTo(n))
  BY <1>1, RankGrows
<1> HIDE DEF I, upTo
<1>5. above \in SUBSET Nat /\ above # {}
  BY <1>1, <1>2, <1>3
<1>6. PICK n \in I : \A m \in I :
        Cardinality(I) - Cardinality(upTo(n)) <= Cardinality(I) - Cardinality(upTo(m))
  <2> HIDE DEF above
  <2>1. PICK a \in above : \A b \in above : a <= b
    BY <1>5, LeastNatural
  <2> QED
    BY <2>1 DEF above
<1>7. \A m \in I : m <= n
  <2> SUFFICES ASSUME NEW m \in I, n < m
               PROVE  FALSE
    BY <1>1, <1>6
  <2> QED
    BY <1>2, <1>3, <1>4, <1>6
<1>8. PICK x \in S : measure[x] = n
  BY <1>6 DEF I
<1> QED
  BY <1>7, <1>8 DEF I

-----------------------------------------------------------------------------
(* Places in a strict total order.                                         *)

strictOrder(N, B) ==
  /\ \A i \in 1..N : <<i, i>> \notin B
  /\ \A i, j \in 1..N : i = j \/ <<i, j>> \in B \/ <<j, i>> \in B
  /\ \A i, j, k \in 1..N : <<i, j>> \in B /\ <<j, k>> \in B => <<i, k>> \in B

numbered(N, B, place) ==
  /\ \A i \in 1..N : place[i] \in 1..N
  /\ \A i, j \in 1..N : <<i, j>> \in B => place[i] < place[j]
  /\ \A k \in 1..N : \E i \in 1..N : place[i] = k

(* Counting who comes before whom numbers N things from 1 to N, in order.  *)
LEMMA PlacesInOrder ==
  ASSUME NEW N \in Nat, NEW B, strictOrder(N, B),
         NEW place, place = [i \in 1..N |-> 1 + Cardinality({j \in 1..N : <<j, i>> \in B})]
  PROVE  numbered(N, B, place)
<1> USE DEF strictOrder, numbered
<1> DEFINE D == 1..N
           first(i) == {j \in D : <<j, i>> \in B}
<1>1. IsFiniteSet(D) /\ Cardinality(D) = N
  BY FS_Interval
<1>2. \A i \in D : IsFiniteSet(first(i)) /\ Cardinality(first(i)) \in Nat
  <2> TAKE i \in D
  <2>1. first(i) \subseteq D
    OBVIOUS
  <2> HIDE DEF first, D
  <2> QED
    BY <1>1, <2>1, FS_Subset, FS_CardinalityType
<1>3. \A i \in D : Cardinality(first(i)) < N
  <2> TAKE i \in D
  <2>1. first(i) \subseteq D \ {i}
    OBVIOUS
  <2>2. IsFiniteSet(D \ {i}) /\ Cardinality(D \ {i}) = N - 1
    BY <1>1, FS_RemoveElement
  <2> HIDE DEF first, D
  <2> QED
    BY <1>2, <2>1, <2>2, FS_Subset
<1>4. \A i, j \in D : <<i, j>> \in B => Cardinality(first(i)) < Cardinality(first(j))
  <2> SUFFICES ASSUME NEW i \in D, NEW j \in D, <<i, j>> \in B
               PROVE  Cardinality(first(i)) < Cardinality(first(j))
    OBVIOUS
  <2>1. first(i) \subseteq first(j) /\ i \in first(j) /\ i \notin first(i)
    OBVIOUS
  <2> HIDE DEF first
  <2> QED
    BY <1>2, <2>1, FS_Subset
<1>5. \A i \in D : place[i] = 1 + Cardinality(first(i))
  OBVIOUS
<1> DEFINE size == [i \in D |-> Cardinality(first(i))]
<1>11. /\ \A i \in D : size[i] \in Nat /\ size[i] < N /\ place[i] = 1 + size[i]
       /\ \A i, j \in D : <<i, j>> \in B => size[i] < size[j]
  <2> HIDE DEF first
  <2> QED
    BY <1>2, <1>3, <1>4, <1>5
<1> HIDE DEF first, size
<1>6. \A i \in D : place[i] \in D
  BY <1>11
<1>7. \A i, j \in D : <<i, j>> \in B => place[i] < place[j]
  BY <1>11
<1>8. place \in Injection(D, D)
  <2>1. DOMAIN place = D /\ place \in [D -> D]
    BY <1>6
  <2>2. \A i, j \in D : place[i] = place[j] => i = j
    <3>1. \A i, j \in D : place[i] = place[j] => ~(place[i] < place[j]) /\ ~(place[j] < place[i])
      BY <1>6
    <3> QED
      BY <1>7, <3>1
  <2> HIDE DEF D
  <2> QED
    BY <2>1, <2>2 DEF Injection, IsInjective
<1>9. place \in Surjection(D, D)
  <2> HIDE DEF D
  <2> QED
    BY <1>1, <1>8, FS_Injection
<1>10. \A k \in D : \E i \in D : place[i] = k
  BY <1>9 DEF Surjection
<1> QED
  BY <1>6, <1>7, <1>10


-----------------------------------------------------------------------------
(* A fold of a sequence from the left takes the last place off a set of    *)
(* places again and again: such a recursion defines a function.            *)
LEMMA LastPlace ==
  ASSUME NEW n \in Nat, NEW s \in SUBSET (1..n), s # {}
  PROVE  Max(s) \in s /\ \A y \in s : Max(s) >= y
<1>1. PICK x \in s : \A y \in s : y <= x
  <2> DEFINE T == {m \in 0..n : \E y \in s : m = n - y}
  <2>1. T \in SUBSET Nat /\ T # {}
    <3>1. PICK y : y \in s
      OBVIOUS
    <3>2. n - y \in T
      BY <3>1
    <3> QED
      BY <3>2
  <2>2. PICK m \in T : \A k \in T : m <= k
    <3> HIDE DEF T
    <3> QED
      BY <2>1, LeastNatural
  <2>3. PICK x \in s : m = n - x
    OBVIOUS
  <2>4. ASSUME NEW y \in s
        PROVE  y <= x
    <3>1. y \in 1..n /\ x \in 1..n /\ n - y \in T
      OBVIOUS
    <3> QED
      BY <2>2, <2>3, <3>1
  <2> QED
    BY <2>4
<1>2. \E z \in s : \A y \in s : z >= y
  BY <1>1
<1> QED
  BY <1>2 DEF Max

LEMMA PrefixEnds ==
  ASSUME NEW k \in Nat \ {0}
  PROVE  1..k # {} /\ Max(1..k) = k /\ (1..k) \ {k} = 1..(k - 1)
<1>1. 1..k \in SUBSET (1..k) /\ 1..k # {}
  OBVIOUS
<1>2. Max(1..k) \in 1..k /\ \A y \in 1..k : Max(1..k) >= y
  BY <1>1, LastPlace
<1> QED
  BY <1>2

lastOff(n, base, step, g) == \A s \in SUBSET (1..n) :
  g[s] = IF s = {} THEN base ELSE step[<<g[s \ {Max(s)}], Max(s)>>]

LOCAL folds(V, base, step, n) ==
  \E g \in [SUBSET (1..n) -> V] : lastOff(n, base, step, g)

LEMMA LeftFoldExists ==
  ASSUME NEW V, NEW base \in V, NEW N \in Nat, NEW step \in [V \X (1..N) -> V]
  PROVE  \E g \in [SUBSET (1..N) -> V] : lastOff(N, base, step, g)
<1> DEFINE T == {n \in Nat : n <= N => folds(V, base, step, n)}
<1>1. 0 \in T
  <2> DEFINE g == [s \in SUBSET (1..0) |-> base]
  <2>1. g \in [SUBSET (1..0) -> V]
    OBVIOUS
  <2>2. lastOff(0, base, step, g)
    BY DEF lastOff
  <2> QED
    BY <2>1, <2>2 DEF folds
<1>2. ASSUME NEW n \in Nat, folds(V, base, step, n), n + 1 <= N
      PROVE  folds(V, base, step, n + 1)
  <2>1. PICK g \in [SUBSET (1..n) -> V] : lastOff(n, base, step, g)
    BY <1>2 DEF folds
  <2> DEFINE h == [s \in SUBSET (1..(n + 1)) |->
                     IF n + 1 \in s THEN step[<<g[s \ {n + 1}], n + 1>>] ELSE g[s]]
  <2>2. ASSUME NEW s \in SUBSET (1..(n + 1)), n + 1 \in s
        PROVE  /\ h[s] \in V /\ Max(s) = n + 1 /\ s # {}
               /\ h[s] = step[<<h[s \ {Max(s)}], Max(s)>>]
    <3>1. Max(s) = n + 1
      <4>1. Max(s) \in s /\ \A y \in s : Max(s) >= y
        <5>1. n + 1 \in Nat /\ s # {}
          BY <2>2
        <5> QED
          BY <5>1, LastPlace, Zenon
      <4>2. PICK m : m = Max(s)
        OBVIOUS
      <4>3. m \in 1..(n + 1) /\ m >= n + 1
        BY <2>2, <4>1, <4>2
      <4> QED
        BY <4>2, <4>3
    <3>2. s \ {n + 1} \in SUBSET (1..n) /\ s \ {n + 1} \in SUBSET (1..(n + 1))
      OBVIOUS
    <3>3. g[s \ {n + 1}] \in V /\ h[s \ {n + 1}] = g[s \ {n + 1}]
      BY <3>2
    <3>4. h[s] = step[<<g[s \ {n + 1}], n + 1>>]
      BY <2>2
    <3>5. <<g[s \ {n + 1}], n + 1>> \in V \X (1..N)
      BY <1>2, <3>3
    <3>6. step[<<g[s \ {n + 1}], n + 1>>] \in V
      BY <3>5
    <3> HIDE DEF h
    <3> QED
      BY <2>2, <3>1, <3>3, <3>4, <3>6
  <2>3. ASSUME NEW s \in SUBSET (1..(n + 1)), n + 1 \notin s
        PROVE  /\ h[s] \in V
               /\ h[s] = IF s = {} THEN base ELSE step[<<h[s \ {Max(s)}], Max(s)>>]
    <3>1. s \in SUBSET (1..n) /\ h[s] = g[s]
      BY <2>3
    <3>2. s \ {Max(s)} \in SUBSET (1..n) /\ h[s \ {Max(s)}] = g[s \ {Max(s)}]
      BY <2>3, <3>1
    <3> HIDE DEF h
    <3> QED
      BY <2>1, <3>1, <3>2 DEF lastOff
  <2>4. h \in [SUBSET (1..(n + 1)) -> V]
    <3>1. \A s \in SUBSET (1..(n + 1)) : h[s] \in V
      BY <2>2, <2>3
    <3>2. h = [s \in SUBSET (1..(n + 1)) |-> h[s]]
      OBVIOUS
    <3> HIDE DEF h
    <3> QED
      BY <3>1, <3>2
  <2>5. lastOff(n + 1, base, step, h)
    <3> HIDE DEF h
    <3> QED
      BY <2>2, <2>3 DEF lastOff
  <2> HIDE DEF h
  <2> QED
    BY <2>4, <2>5 DEF folds
<1>3. \A n \in Nat : n \in T => n + 1 \in T
  BY <1>2
<1> HIDE DEF T
<1>4. N \in T
  BY <1>1, <1>3, Induction
<1>5. folds(V, base, step, N)
  BY <1>4 DEF T
<1> QED
  BY <1>5 DEF folds

=============================================================================
