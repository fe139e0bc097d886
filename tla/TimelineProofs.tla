--------------------------- MODULE TimelineProofs ---------------------------
(***************************************************************************)
(* For any entries with different ids whose causes do not go in a circle:  *)
(* the relaxation rounds end with every entry one deeper than its cause,   *)
(* so the sort puts it behind its cause; and a document that a fact is     *)
(* applied to still says what all its facts say.                           *)
(***************************************************************************)
EXTENDS Projector, CountingLemmas

LOCAL hasCause(events, i) == causeOf(events, i) # {}
LOCAL cause(events, i) == CHOOSE c \in causeOf(events, i) : TRUE

(* A round's depth of an entry, from the round before.                     *)
LOCAL roundOf(events) == (0..Len(events)) \X DOMAIN events
LOCAL relaxed(events, g, p) ==
  IF p[1] = 0 \/ causeOf(events, p[2]) = {} THEN 0
  ELSE 1 + g[<<p[1] - 1, CHOOSE c \in causeOf(events, p[2]) : TRUE>>]

LEMMA CauseIsEntry ==
  ASSUME NEW events \in Seq(TimelineEntry), NEW i \in DOMAIN events, hasCause(events, i)
  PROVE  /\ cause(events, i) \in DOMAIN events \ {i}
         /\ events[cause(events, i)].id = events[i].cause
         /\ events[cause(events, i)].at = events[i].at
<1>1. cause(events, i) \in causeOf(events, i)
  BY DEF hasCause, cause
<1> QED
  BY <1>1 DEF causeOf

LEMMA RelaxedIs ==
  ASSUME NEW events \in Seq(TimelineEntry), NEW g, NEW n \in 0..Len(events), NEW i \in DOMAIN events
  PROVE  relaxed(events, g, <<n, i>>)
           = IF n = 0 \/ ~hasCause(events, i) THEN 0 ELSE 1 + g[<<n - 1, cause(events, i)>>]
BY DEF relaxed, hasCause, cause

LOCAL isRounds(events, g) == g = [p \in roundOf(events) |-> relaxed(events, g, p)]

(* The recursion over the rounds defines a function.                       *)
LEMMA RoundsExist ==
  ASSUME NEW events \in Seq(TimelineEntry)
  PROVE  \E g : isRounds(events, g)
<1> DEFINE N == Len(events)
           D == DOMAIN events
           P == roundOf(events)
           upTo(g, n) == \A p \in P : p[1] <= n => g[p] = relaxed(events, g, p)
           T == {n \in Nat : \E g : g = [p \in P |-> g[p]] /\ upTo(g, n)}
<1>0. N \in Nat /\ D = 1..N /\ P = (0..N) \X D
  BY DEF roundOf
<1> HIDE DEF N, D, P
<1>1. 0 \in T
  <2> DEFINE g == [p \in P |-> 0]
  <2>1. g = [p \in P |-> g[p]]
    OBVIOUS
  <2>2. \A p \in P : p[1] <= 0 => p[1] = 0 /\ g[p] = 0
    BY <1>0
  <2>3. upTo(g, 0)
    BY <2>2 DEF relaxed
  <2> HIDE DEF g
  <2> QED
    BY <2>1, <2>3
<1>2. \A n \in Nat : n \in T => n + 1 \in T
  <2> SUFFICES ASSUME NEW n \in Nat, n \in T
               PROVE  n + 1 \in T
    OBVIOUS
  <2>1. PICK g : g = [p \in P |-> g[p]] /\ upTo(g, n)
    OBVIOUS
  <2> DEFINE h == [p \in P |-> IF p[1] = n + 1 THEN relaxed(events, g, p) ELSE g[p]]
  <2>2. \A p \in P : h[p] = IF p[1] = n + 1 THEN relaxed(events, g, p) ELSE g[p]
    OBVIOUS
  <2>3. h = [p \in P |-> h[p]]
    OBVIOUS
  <2> HIDE DEF h
  <2>4. ASSUME NEW m \in 0..N, NEW i \in D, m <= n + 1
        PROVE  h[<<m, i>>] = relaxed(events, h, <<m, i>>)
    <3>0. <<m, i>> \in P /\ <<m, i>>[1] = m
      BY <1>0
    <3>1. relaxed(events, h, <<m, i>>) = relaxed(events, g, <<m, i>>)
      <4>1. CASE m = 0 \/ ~hasCause(events, i)
        BY <4>1, RelaxedIs DEF N, D
      <4>2. CASE m # 0 /\ hasCause(events, i)
        <5>1. m - 1 \in 0..N /\ m - 1 # n + 1 /\ cause(events, i) \in D
          BY <1>0, <2>4, <4>2, CauseIsEntry DEF D
        <5>2. h[<<m - 1, cause(events, i)>>] = g[<<m - 1, cause(events, i)>>]
          BY <1>0, <2>2, <5>1
        <5> QED
          BY <5>2, RelaxedIs DEF N, D
      <4> QED
        BY <4>1, <4>2
    <3>2. CASE m = n + 1
      BY <2>2, <3>0, <3>1, <3>2
    <3>3. CASE m # n + 1
      <4>1. m <= n
        BY <1>0, <2>4, <3>3
      <4>2. g[<<m, i>>] = relaxed(events, g, <<m, i>>)
        BY <2>1, <3>0, <4>1
      <4> QED
        BY <2>2, <3>0, <3>1, <3>3, <4>2
    <3> QED
      BY <3>2, <3>3
  <2>5. upTo(h, n + 1)
    <3> SUFFICES ASSUME NEW p \in P, p[1] <= n + 1
                 PROVE  h[p] = relaxed(events, h, p)
      OBVIOUS
    <3>1. p[1] \in 0..N /\ p[2] \in D /\ p = <<p[1], p[2]>>
      BY <1>0
    <3> QED
      BY <2>4, <3>1
  <2> HIDE DEF upTo
  <2> QED
    BY <2>3, <2>5
<1>3. N \in T
  <2> HIDE DEF T
  <2> QED
    BY <1>0, <1>1, <1>2, Induction
<1>4. PICK g : g = [p \in P |-> g[p]] /\ upTo(g, N)
  BY <1>3
<1>5. \A p \in P : g[p] = relaxed(events, g, p)
  <2> TAKE p \in P
  <2>1. p[1] <= N
    BY <1>0
  <2> QED
    BY <1>4, <2>1, Zenon
<1>6. g = [p \in P |-> relaxed(events, g, p)]
  BY <1>4, <1>5
<1> QED
  BY <1>6 DEF P, isRounds


-----------------------------------------------------------------------------
(* What the rounds end with.                                               *)

LOCAL noCircle(N, c) == \A S \in SUBSET (1..N) : S # {} => \E i \in S : c[i] \notin S
LOCAL deepens(N, c, r) == \A n \in 0..N, i \in 1..N :
  r[n][i] = IF n = 0 \/ c[i] = 0 THEN 0 ELSE 1 + r[n - 1][c[i]]
LOCAL settled(N, c, d) == \A i \in 1..N :
  d[i] \in Nat /\ d[i] = IF c[i] = 0 THEN 0 ELSE 1 + d[c[i]]

(* N rounds over N entries: when no causes go in a circle (0 stands for no *)
(* cause), each round settles an entry, until all of them are.             *)
LEMMA RoundsSettle ==
  ASSUME NEW N \in Nat, NEW c \in [1..N -> 0..N], noCircle(N, c), NEW r, deepens(N, c, r)
  PROVE  settled(N, c, r[N])
<1> USE DEF noCircle, deepens, settled
<1> DEFINE D == 1..N
           still(n) == {i \in D : \A m \in n..N : r[m][i] = r[n][i]}
           T == {n \in Nat : n <= N => \A i \in D : r[n][i] \in Nat}
           U == {n \in Nat : n < N => still(n) = D \/ Cardinality(still(n)) > n}
<1>1. \A n \in 0..N, i \in D : r[n][i] \in Nat
  <2>1. 0 \in T
    OBVIOUS
  <2>2. ASSUME NEW n \in Nat, n \in T
        PROVE  n + 1 \in T
    <3> SUFFICES ASSUME n + 1 <= N, NEW i \in D
                 PROVE  r[n + 1][i] \in Nat
      OBVIOUS
    <3>1. n <= N /\ n + 1 \in 0..N /\ n + 1 # 0 /\ (n + 1) - 1 = n
      OBVIOUS
    <3>2. r[n + 1][i] = IF c[i] = 0 THEN 0 ELSE 1 + r[n][c[i]]
      BY <3>1
    <3>3. c[i] # 0 => c[i] \in D
      OBVIOUS
    <3> QED
      BY <2>2, <3>1, <3>2, <3>3, SMTT(30)
  <2>3. Nat \subseteq T
    <3> HIDE DEF T
    <3> QED
      BY <2>1, <2>2, Induction
  <2> QED
    BY <2>3
<1>2. \A n \in 0..N : still(n) \subseteq D /\ IsFiniteSet(still(n)) /\ Cardinality(still(n)) \in Nat
  <2> TAKE n \in 0..N
  <2>1. IsFiniteSet(D) /\ still(n) \subseteq D
    BY FS_Interval
  <2> HIDE DEF still, D
  <2> QED
    BY <2>1, FS_Subset, FS_CardinalityType
<1>3. \A n \in 0..N, i \in D : c[i] = 0 => i \in still(n)
  OBVIOUS
<1>4. \A n \in 0..N - 1 : still(n) \subseteq still(n + 1)
  <2> SUFFICES ASSUME NEW n \in 0..N - 1, NEW i \in still(n), NEW m \in n + 1..N
               PROVE  r[m][i] = r[n + 1][i]
    OBVIOUS
  <2>1. m \in n..N /\ n + 1 \in n..N
    OBVIOUS
  <2> QED
    BY <2>1
<1>5. \A n \in 0..N - 1, i \in D : c[i] \in still(n) => i \in still(n + 1)
  <2> SUFFICES ASSUME NEW n \in 0..N - 1, NEW i \in D, c[i] \in still(n), NEW m \in n + 1..N
               PROVE  r[m][i] = r[n + 1][i]
    OBVIOUS
  <2>1. c[i] # 0 /\ m - 1 \in n..N /\ m # 0 /\ n + 1 # 0 /\ (n + 1) - 1 = n /\ m \in 0..N /\ n + 1 \in 0..N
    OBVIOUS
  <2>2. r[m - 1][c[i]] = r[n][c[i]]
    BY <2>1
  <2>3. r[m][i] = 1 + r[m - 1][c[i]] /\ r[n + 1][i] = 1 + r[n][c[i]]
    BY <2>1
  <2> QED
    BY <2>2, <2>3
<1>6. 0 \in U
  <2> SUFFICES ASSUME 0 < N
               PROVE  Cardinality(still(0)) > 0
    OBVIOUS
  <2>3. D # {} /\ D \in SUBSET D
    <3>1. 1 \in D
      OBVIOUS
    <3> QED
      BY <3>1
  <2>1. PICK i \in D : c[i] \notin D
    BY <2>3, Zenon
  <2>2. i \in still(0)
    BY <1>3, <2>1
  <2> HIDE DEF still
  <2> QED
    BY <1>2, <2>2, FS_EmptySet
<1>7. ASSUME NEW n \in Nat, n \in U
      PROVE  n + 1 \in U
  <2> SUFFICES ASSUME n + 1 < N
               PROVE  still(n + 1) = D \/ Cardinality(still(n + 1)) > n + 1
    OBVIOUS
  <2>1. n < N /\ n \in 0..N - 1 /\ n \in 0..N /\ n + 1 \in 0..N
    OBVIOUS
  <2>2. CASE still(n) = D
    <3> HIDE DEF still
    <3> QED
      BY <1>2, <1>4, <2>1, <2>2
  <2>3. CASE still(n) # D
    <3>1. Cardinality(still(n)) > n
      BY <1>7, <2>1, <2>3
    <3> HIDE DEF still
    <3>2. D \ still(n) # {}
      BY <1>2, <2>1, <2>3
    <3>3. PICK i \in D \ still(n) : c[i] \notin D \ still(n)
      BY <3>2
    <3>4. c[i] \in still(n)
      BY <1>3, <2>1, <3>3
    <3>5. still(n) \subseteq still(n + 1) /\ i \in still(n + 1) /\ i \notin still(n)
      BY <1>4, <1>5, <2>1, <3>3, <3>4
    <3>6. /\ Cardinality(still(n)) <= Cardinality(still(n + 1))
          /\ Cardinality(still(n)) # Cardinality(still(n + 1))
      <4>1. IsFiniteSet(still(n + 1)) /\ still(n + 1) # still(n)
        BY <1>2, <2>1, <3>5
      <4> QED
        BY <3>5, <4>1, FS_Subset, Zenon
    <3>7. Cardinality(still(n)) \in Nat /\ Cardinality(still(n + 1)) \in Nat
      BY <1>2, <2>1
    <3> QED
      BY <3>1, <3>6, <3>7
  <2> QED
    BY <2>2, <2>3
<1>8. Nat \subseteq U
  <2> HIDE DEF U
  <2> QED
    BY <1>6, <1>7, Induction
<1>9. ASSUME 0 < N
      PROVE  still(N - 1) = D
  <2>1. N - 1 \in Nat /\ N - 1 < N /\ N - 1 \in 0..N
    BY <1>9
  <2>2. still(N - 1) = D \/ Cardinality(still(N - 1)) > N - 1
    BY <1>8, <2>1
  <2>3. IsFiniteSet(D) /\ Cardinality(D) = N
    BY FS_Interval
  <2> HIDE DEF still, D, U
  <2>4. Cardinality(still(N - 1)) \in Nat /\ still(N - 1) \subseteq D
    BY <1>2, <2>1
  <2>5. CASE still(N - 1) # D
    <3>1. Cardinality(still(N - 1)) < Cardinality(D)
      BY <2>3, <2>4, <2>5, FS_Subset
    <3> QED
      BY <2>1, <2>2, <2>3, <2>4, <2>5, <3>1
  <2> QED
    BY <2>5
<1>10. ASSUME NEW i \in D, c[i] # 0
       PROVE  r[N][i] = 1 + r[N][c[i]]
  <2>1. 0 < N /\ N - 1 \in 0..N /\ N \in (N - 1)..N /\ c[i] \in D
    BY <1>10
  <2>2. r[N][i] = 1 + r[N - 1][c[i]]
    BY <1>10, <2>1
  <2>3. r[N][c[i]] = r[N - 1][c[i]]
    BY <1>9, <2>1
  <2> QED
    BY <2>2, <2>3
<1> QED
  BY <1>1, <1>10


(* An entry has at most one cause here, and is not its own.                *)
LEMMA CausesAreOne ==
  ASSUME NEW events \in Seq(TimelineEntry), oneEntryEach(events), NEW i \in DOMAIN events,
         NEW k \in causeOf(events, i)
  PROVE  hasCause(events, i) /\ k = cause(events, i)
<1>1. hasCause(events, i)
  BY DEF hasCause
<1>2. events[k].id = events[cause(events, i)].id
  BY <1>1, CauseIsEntry DEF causeOf
<1> QED
  BY <1>1, <1>2, CauseIsEntry DEF oneEntryEach, causeOf

(* In a story that goes in no circle, some entry of any has a cause that   *)
(* is none of them.                                                        *)
LEMMA SomeComeFirst ==
  ASSUME NEW events \in Seq(TimelineEntry), oneEntryEach(events), acyclic(ToSet(events)),
         NEW S \in SUBSET DOMAIN events, S # {}
  PROVE  \E i \in S : ~hasCause(events, i) \/ cause(events, i) \notin S
<1>1. {events[i] : i \in S} \in SUBSET ToSet(events) /\ {events[i] : i \in S} # {}
  BY DEF ToSet
<1>2. PICK i \in S : \A k \in S : events[k].id # events[i].cause \/ events[k].at # events[i].at
  <2> DEFINE E == {events[i] : i \in S}
  <2>1. PICK e \in E : \A g \in E : g.id # e.cause \/ g.at # e.at
    <3> HIDE DEF E
    <3> QED
      BY <1>1, Zenon DEF acyclic, E
  <2>2. PICK i \in S : e = events[i]
    OBVIOUS
  <2>3. \A k \in S : events[k] \in E
    OBVIOUS
  <2> HIDE DEF E
  <2> QED
    BY <2>1, <2>2, <2>3, Zenon
<1> QED
  BY <1>2, CauseIsEntry

(* The depth of an entry: one more than its cause's.                       *)
LEMMA DepthsSettle ==
  ASSUME NEW events \in Seq(TimelineEntry), oneEntryEach(events), acyclic(ToSet(events))
  PROVE  LET deep == depthFixpoint[events] IN
         /\ deep \in Seq(DeepEntry) /\ Len(deep) = Len(events)
         /\ \A i \in DOMAIN events :
              /\ deep[i].entry = events[i]
              /\ deep[i].depth =
                   IF hasCause(events, i) THEN 1 + deep[cause(events, i)].depth ELSE 0
<1> DEFINE N == Len(events)
           D == DOMAIN events
           Rounds == CHOOSE g : isRounds(events, g)
           c == [i \in D |-> IF hasCause(events, i) THEN cause(events, i) ELSE 0]
           r == [n \in 0..N |-> [i \in D |-> Rounds[<<n, i>>]]]
<1>0. N \in Nat /\ D = 1..N /\ roundOf(events) = (0..N) \X D
  BY DEF roundOf
<1>1. isRounds(events, Rounds)
  BY RoundsExist
<1>2. depthFixpoint[events] =
        [i \in D |-> [entry |-> events[i], depth |-> Rounds[<<N, i>>]]]
  BY DEF depthFixpoint, isRounds, roundOf, relaxed
<1> HIDE DEF Rounds
<1>3. \A n \in 0..N, i \in D :
        Rounds[<<n, i>>] = IF n = 0 \/ ~hasCause(events, i) THEN 0
                           ELSE 1 + Rounds[<<n - 1, cause(events, i)>>]
  <2> TAKE n \in 0..N, i \in D
  <2>1. <<n, i>> \in roundOf(events)
    BY <1>0
  <2>2. Rounds[<<n, i>>] = relaxed(events, Rounds, <<n, i>>)
    BY <1>1, <2>1, Zenon DEF isRounds
  <2> QED
    BY <2>2, RelaxedIs
<1>4. \A i \in D : /\ c[i] = IF hasCause(events, i) THEN cause(events, i) ELSE 0
                   /\ hasCause(events, i) => cause(events, i) \in D
  BY CauseIsEntry
<1>5. c \in [1..N -> 0..N]
  BY <1>0, <1>4
<1>6. \A S \in SUBSET D : S # {} => \E i \in S : c[i] \notin S
  <2> SUFFICES ASSUME NEW S \in SUBSET D, S # {}
               PROVE  \E i \in S : c[i] \notin S
    OBVIOUS
  <2>1. PICK i \in S : ~hasCause(events, i) \/ cause(events, i) \notin S
    BY SomeComeFirst
  <2>2. 0 \notin S
    BY <1>0
  <2> HIDE DEF c, D
  <2> QED
    BY <1>4, <2>1, <2>2
<1>7. \A n \in 0..N, i \in D : r[n][i] = Rounds[<<n, i>>]
  OBVIOUS
<1> HIDE DEF r, c
<1>8. deepens(N, c, r)
  <2> SUFFICES ASSUME NEW n \in 0..N, NEW i \in D
               PROVE  r[n][i] = IF n = 0 \/ c[i] = 0 THEN 0 ELSE 1 + r[n - 1][c[i]]
    BY <1>0 DEF deepens
  <2>1. c[i] = 0 <=> ~hasCause(events, i)
    BY <1>0, <1>4
  <2>2. CASE n = 0 \/ c[i] = 0
    BY <1>3, <1>7, <2>1, <2>2
  <2>3. CASE n # 0 /\ c[i] # 0
    <3>1. n - 1 \in 0..N /\ c[i] \in D /\ c[i] = cause(events, i)
      BY <1>0, <1>4, <2>1, <2>3
    <3>2. r[n][i] = 1 + Rounds[<<n - 1, cause(events, i)>>]
      BY <1>3, <1>7, <2>1, <2>3
    <3>3. r[n - 1][c[i]] = Rounds[<<n - 1, cause(events, i)>>]
      BY <1>7, <3>1
    <3> QED
      BY <2>3, <3>2, <3>3
  <2> QED
    BY <2>2, <2>3
<1>9. settled(N, c, r[N])
  <2>1. noCircle(N, c)
    BY <1>0, <1>6 DEF noCircle
  <2> HIDE DEF N, D
  <2> QED
    BY <1>0, <1>5, <1>8, <2>1, RoundsSettle
<1>10. \A i \in D : /\ Rounds[<<N, i>>] \in Nat
                    /\ Rounds[<<N, i>>] =
                         IF hasCause(events, i) THEN 1 + Rounds[<<N, cause(events, i)>>] ELSE 0
  <2> TAKE i \in D
  <2>1. N \in 0..N /\ r[N][i] = Rounds[<<N, i>>]
    BY <1>0, <1>7
  <2>2. c[i] # 0 => c[i] = cause(events, i) /\ r[N][c[i]] = Rounds[<<N, cause(events, i)>>]
    BY <1>4, <1>7, <2>1
  <2>3. c[i] = 0 <=> ~hasCause(events, i)
    BY <1>0, <1>4
  <2> HIDE DEF N, D
  <2> QED
    BY <1>0, <1>9, <2>1, <2>2, <2>3 DEF settled
<1> DEFINE deep == [i \in D |-> [entry |-> events[i], depth |-> Rounds[<<N, i>>]]]
<1>11. deep \in Seq(DeepEntry) /\ Len(deep) = N
  <2>1. \A i \in D : events[i] \in TimelineEntry
    OBVIOUS
  <2>2. \A i \in D : [entry |-> events[i], depth |-> Rounds[<<N, i>>]] \in DeepEntry
    BY <1>10, <2>1, Zenon DEF DeepEntry
  <2> HIDE DEF N, D
  <2> QED
    BY <1>0, <2>2
<1>12. \A i \in D : deep[i].entry = events[i] /\ deep[i].depth = Rounds[<<N, i>>]
  OBVIOUS
<1> HIDE DEF deep
<1>13. depthFixpoint[events] = deep
  BY <1>2 DEF deep
<1> QED
  BY <1>4, <1>10, <1>11, <1>12, <1>13


-----------------------------------------------------------------------------
(* The sort.                                                               *)

LOCAL before(a, b) ==
  \/ a.entry.at < b.entry.at
  \/ a.entry.at = b.entry.at /\ a.depth < b.depth
  \/ a.entry.at = b.entry.at /\ a.depth = b.depth /\ a.entry.id < b.entry.id

LEMMA BeforeIsTransitive ==
  ASSUME NEW a \in DeepEntry, NEW b \in DeepEntry, NEW c \in DeepEntry, before(a, b), before(b, c)
  PROVE  before(a, c)
<1> DEFINE a1 == a.entry.at  a2 == a.depth  a3 == a.entry.id
           b1 == b.entry.at  b2 == b.depth  b3 == b.entry.id
           c1 == c.entry.at  c2 == c.depth  c3 == c.entry.id
<1>1. /\ a1 \in Nat /\ a2 \in Nat /\ a3 \in Nat /\ b1 \in Nat /\ b2 \in Nat /\ b3 \in Nat
      /\ c1 \in Nat /\ c2 \in Nat /\ c3 \in Nat
  BY DEF DeepEntry, TimelineEntry
<1>2. /\ a1 < b1 \/ (a1 = b1 /\ a2 < b2) \/ (a1 = b1 /\ a2 = b2 /\ a3 < b3)
      /\ b1 < c1 \/ (b1 = c1 /\ b2 < c2) \/ (b1 = c1 /\ b2 = c2 /\ b3 < c3)
  BY DEF before
<1>3. SUFFICES a1 < c1 \/ (a1 = c1 /\ a2 < c2) \/ (a1 = c1 /\ a2 = c2 /\ a3 < c3)
  BY DEF before
<1> HIDE DEF a1, a2, a3, b1, b2, b3, c1, c2, c3
<1> QED
  BY <1>1, <1>2

(* Entries with different ids get a place each, in order.                  *)
LEMMA SortedInPlaces ==
  ASSUME NEW deep \in Seq(DeepEntry),
         \A i, j \in DOMAIN deep : deep[i].entry.id = deep[j].entry.id => i = j
  PROVE  LET es == sortedWithDepth[deep] IN
         /\ es \in Seq(TimelineEntry) /\ DOMAIN es = DOMAIN deep
         /\ \E place \in [DOMAIN deep -> DOMAIN deep] :
              /\ \A k \in DOMAIN es : \E i \in DOMAIN deep : place[i] = k
              /\ \A i \in DOMAIN deep : es[place[i]] = deep[i].entry
              /\ \A i, j \in DOMAIN deep : before(deep[i], deep[j]) => place[i] < place[j]
<1> DEFINE N == Len(deep)
           D == DOMAIN deep
           B == {p \in D \X D : before(deep[p[1]], deep[p[2]])}
           count(i) == 1 + Cardinality({j \in D : before(deep[j], deep[i])})
           place == [i \in D |-> 1 + Cardinality({j \in D : <<j, i>> \in B})]
           who(k) == CHOOSE i \in D : count(i) = k
           es == sortedWithDepth[deep]
<1>0. N \in Nat /\ D = 1..N
  OBVIOUS
<1>1. \A i \in D : /\ deep[i].entry \in TimelineEntry
                   /\ deep[i].entry.at \in Nat /\ deep[i].entry.id \in Nat /\ deep[i].depth \in Nat
  <2> TAKE i \in D
  <2>1. deep[i] \in DeepEntry
    OBVIOUS
  <2> QED
    BY <2>1 DEF DeepEntry, TimelineEntry
<1>2. \A i, j \in D : <<i, j>> \in B <=> before(deep[i], deep[j])
  OBVIOUS
<1> HIDE DEF B
<1>3. es = [k \in D |-> deep[who(k)].entry]
  BY Zenon DEF sortedWithDepth, before
<1> HIDE DEF es
<1>4. \A i \in D : <<i, i>> \notin B
  BY <1>1, <1>2, SMTT(30) DEF before
<1>5. \A i, j \in D : i = j \/ <<i, j>> \in B \/ <<j, i>> \in B
  <2> SUFFICES ASSUME NEW i \in D, NEW j \in D, i # j
               PROVE  before(deep[i], deep[j]) \/ before(deep[j], deep[i])
    BY <1>2, Zenon
  <2>1. deep[i].entry.id # deep[j].entry.id
    OBVIOUS
  <2> HIDE DEF D
  <2> QED
    BY <1>1, <2>1, SMTT(30) DEF before
<1>6. \A i, j, k \in D : <<i, j>> \in B /\ <<j, k>> \in B => <<i, k>> \in B
  <2> SUFFICES ASSUME NEW i \in D, NEW j \in D, NEW k \in D,
                      before(deep[i], deep[j]), before(deep[j], deep[k])
               PROVE  before(deep[i], deep[k])
    BY <1>2, Zenon
  <2>1. deep[i] \in DeepEntry /\ deep[j] \in DeepEntry /\ deep[k] \in DeepEntry
    OBVIOUS
  <2> QED
    BY <2>1, BeforeIsTransitive
<1>7. place = [i \in 1..N |-> 1 + Cardinality({j \in 1..N : <<j, i>> \in B})]
  BY <1>0
<1>8. \A i \in D : place[i] = count(i)
  <2> TAKE i \in D
  <2>1. {j \in D : before(deep[j], deep[i])} = {j \in D : <<j, i>> \in B}
    BY <1>2
  <2> QED
    BY <2>1
<1>9. place = [i \in D |-> place[i]]
  OBVIOUS
<1> HIDE DEF place
<1>10. /\ \A i \in D : place[i] \in D
       /\ \A i, j \in D : <<i, j>> \in B => place[i] < place[j]
       /\ \A k \in D : \E i \in D : place[i] = k
  <2> HIDE DEF N, D
  <2>1. strictOrder(N, B)
    BY <1>0, <1>4, <1>5, <1>6 DEF strictOrder
  <2>2. numbered(N, B, place)
    BY <1>0, <1>7, <2>1, PlacesInOrder
  <2> QED
    BY <1>0, <2>2 DEF numbered
<1> HIDE DEF count
<1>11. \A k \in D : who(k) \in D /\ place[who(k)] = k
  <2> HIDE DEF D
  <2> TAKE k \in D
  <2>1. \E i \in D : count(i) = k
    BY <1>8, <1>10
  <2>2. who(k) \in D /\ count(who(k)) = k
    BY <2>1
  <2> QED
    BY <1>8, <2>2
<1> HIDE DEF who, D
<1>12. \A i, j \in D : place[i] = place[j] => i = j
  <2>1. \A i, j \in D : place[i] = place[j] => ~(place[i] < place[j]) /\ ~(place[j] < place[i])
    <3> SUFFICES ASSUME NEW i \in D, NEW j \in D, place[i] = place[j]
                 PROVE  ~(place[i] < place[j]) /\ ~(place[j] < place[i])
      OBVIOUS
    <3>1. PICK m : m = place[i]
      OBVIOUS
    <3>2. m \in D
      BY <1>10, <3>1
    <3>3. m \in Nat
      <4> HIDE DEF N
      <4> QED
        BY <1>0, <3>2
    <3> QED
      BY <3>1, <3>3
  <2> QED
    BY <1>5, <1>10, <2>1
<1>13. \A k \in D : es[k] = deep[who(k)].entry
  BY <1>3
<1>14. \A i \in D : es[place[i]] = deep[i].entry
  <2> TAKE i \in D
  <2>1. who(place[i]) = i
    BY <1>10, <1>11, <1>12
  <2> QED
    BY <1>10, <1>13, <2>1
<1>15. es \in Seq(TimelineEntry) /\ DOMAIN es = D
  BY <1>0, <1>1, <1>3, <1>11
<1>16. place \in [D -> D]
  BY <1>9, <1>10
<1>17. \A i, j \in D : before(deep[i], deep[j]) => place[i] < place[j]
  BY <1>2, <1>10
<1> QED
  BY <1>10, <1>14, <1>15, <1>16, <1>17, Zenon DEF es, D


-----------------------------------------------------------------------------
(* The timeline.                                                           *)

(* What the order promises: the same entries, each once, none before its   *)
(* cause or before what happened earlier.                                  *)
LEMMA TimelineIsInOrder ==
  ASSUME NEW events \in Seq(TimelineEntry), oneEntryEach(events), acyclic(ToSet(events))
  PROVE  LET es == causalTimelineOrder(events) IN
         /\ es \in Seq(TimelineEntry) /\ ToSet(es) = ToSet(events)
         /\ oneEntryEach(es) /\ inCausalOrder(es)
<1> DEFINE deep == depthFixpoint[events]
           es == sortedWithDepth[deep]
           D == DOMAIN events
<1>1. /\ deep \in Seq(DeepEntry) /\ Len(deep) = Len(events)
      /\ \A i \in D : /\ deep[i].entry = events[i]
                      /\ deep[i].depth = IF hasCause(events, i)
                                         THEN 1 + deep[cause(events, i)].depth ELSE 0
  BY DepthsSettle
<1>0. causalTimelineOrder(events) = es
  BY DEF causalTimelineOrder
<1> HIDE DEF deep
<1>2. DOMAIN deep = D
  BY <1>1
<1>3. \A i, j \in DOMAIN deep : deep[i].entry.id = deep[j].entry.id => i = j
  BY <1>1, <1>2 DEF oneEntryEach
<1>4. /\ es \in Seq(TimelineEntry) /\ DOMAIN es = D
      /\ \E place \in [D -> D] :
           /\ \A k \in D : \E i \in D : place[i] = k
           /\ \A i \in D : es[place[i]] = deep[i].entry
           /\ \A i, j \in D : before(deep[i], deep[j]) => place[i] < place[j]
  <2> HIDE DEF D
  <2>1. /\ es \in Seq(TimelineEntry) /\ DOMAIN es = DOMAIN deep
        /\ \E place \in [DOMAIN deep -> DOMAIN deep] :
             /\ \A k \in DOMAIN es : \E i \in DOMAIN deep : place[i] = k
             /\ \A i \in DOMAIN deep : es[place[i]] = deep[i].entry
             /\ \A i, j \in DOMAIN deep : before(deep[i], deep[j]) => place[i] < place[j]
    BY <1>1, <1>3, SortedInPlaces
  <2> HIDE DEF es
  <2> QED
    BY <1>2, <2>1
<1> HIDE DEF es
<1>5. PICK place \in [D -> D] :
           /\ \A k \in D : \E i \in D : place[i] = k
           /\ \A i \in D : es[place[i]] = deep[i].entry
           /\ \A i, j \in D : before(deep[i], deep[j]) => place[i] < place[j]
  BY <1>4
<1>6. \A i \in D : es[place[i]] = events[i]
  BY <1>1, <1>5
<1>7. ToSet(es) = ToSet(events)
  <2> HIDE DEF D
  <2>1. \A k \in D : \E i \in D : es[k] = events[i]
    BY <1>5, <1>6
  <2>2. \A i \in D : \E k \in D : es[k] = events[i]
    BY <1>5, <1>6
  <2>3. {es[k] : k \in D} \subseteq {events[i] : i \in D}
    BY <2>1
  <2>4. {events[i] : i \in D} \subseteq {es[k] : k \in D}
    BY <2>2
  <2> QED
    BY <1>4, <2>3, <2>4 DEF ToSet, D
<1>8. oneEntryEach(es)
  <2> SUFFICES ASSUME NEW k \in D, NEW l \in D, es[k].id = es[l].id
               PROVE  k = l
    BY <1>4 DEF oneEntryEach
  <2>1. PICK i \in D, j \in D : place[i] = k /\ place[j] = l
    BY <1>5
  <2>2. events[i].id = events[j].id
    BY <1>6, <2>1
  <2> QED
    BY <2>1, <2>2 DEF oneEntryEach
<1>9. inCausalOrder(es)
  <2> SUFFICES ASSUME NEW k \in D, NEW l \in D
               PROVE  /\ k < l => es[k].at <= es[l].at
                      /\ es[k].at = es[l].at /\ es[l].cause = es[k].id => k < l
    BY <1>4 DEF inCausalOrder
  <2>1. PICK i \in D, j \in D : place[i] = k /\ place[j] = l
    BY <1>5
  <2>2. es[k] = events[i] /\ es[l] = events[j] /\ deep[i].entry = events[i] /\ deep[j].entry = events[j]
    BY <1>1, <1>6, <2>1
  <2>3. events[i] \in TimelineEntry /\ events[j] \in TimelineEntry
    OBVIOUS
  <2>4. events[i].at \in Nat /\ events[j].at \in Nat
    BY <2>3 DEF TimelineEntry
  <2>5. k \in Nat /\ l \in Nat
    OBVIOUS
  <2>6. ASSUME k < l
        PROVE  es[k].at <= es[l].at
    <3>1. ~before(deep[j], deep[i])
      BY <1>5, <2>1, <2>5, <2>6
    <3> QED
      BY <2>2, <2>4, <3>1 DEF before
  <2>7. ASSUME es[k].at = es[l].at, es[l].cause = es[k].id
        PROVE  k < l
    <3>1. i # j
      <4>1. {events[i]} \in SUBSET ToSet(events) /\ {events[i]} # {}
        BY DEF ToSet
      <4>2. events[i].id # events[i].cause
        BY <4>1, Zenon DEF acyclic
      <4> QED
        BY <2>2, <2>7, <4>2
    <3>2. i \in causeOf(events, j)
      BY <2>2, <2>7, <3>1 DEF causeOf
    <3>3. hasCause(events, j) /\ cause(events, j) = i
      BY <3>2, CausesAreOne
    <3>4. deep[j].depth = 1 + deep[i].depth /\ deep[i].depth \in Nat
      <4>1. deep[i] \in DeepEntry
        BY <1>1, <1>2
      <4> QED
        BY <1>1, <3>3, <4>1 DEF DeepEntry
    <3>5. before(deep[i], deep[j])
      BY <2>2, <2>7, <3>4 DEF before
    <3> QED
      BY <1>5, <2>1, <3>5
  <2> QED
    BY <2>6, <2>7
<1> QED
  BY <1>0, <1>4, <1>7, <1>8, <1>9


-----------------------------------------------------------------------------
(* The status.                                                             *)

(* The table has no two statuses of one rank, nor two ranks of one status. *)
LEMMA RanksAndStatuses ==
  /\ \A t \in HANDLED_EVENT_TYPES : rankOf(t) \in Nat /\ (impliedStatusOf(t) = "none" <=> rankOf(t) = 0)
  /\ \A t, u \in HANDLED_EVENT_TYPES : rankOf(t) = rankOf(u) <=> impliedStatusOf(t) = impliedStatusOf(u)
  /\ "order.placed" \in HANDLED_EVENT_TYPES
  /\ rankOf("order.placed") = 1 /\ impliedStatusOf("order.placed") = "placed"
  /\ NoRank = -1 /\ "placed" # "none"
  /\ \A t \in HANDLED_EVENT_TYPES : impliedStatusOf(t) # "absent"
<1>1. \A t \in HANDLED_EVENT_TYPES :
        /\ t = "order.placed" => rankOf(t) = 1 /\ impliedStatusOf(t) = "placed"
        /\ t = "stock.reserved" => rankOf(t) = 2 /\ impliedStatusOf(t) = "stock_reserved"
        /\ t = "credit.approved" => rankOf(t) = 3 /\ impliedStatusOf(t) = "credit_approved"
        /\ t = "order.confirmed" => rankOf(t) = 4 /\ impliedStatusOf(t) = "confirmed"
        /\ t = "order.despatched" => rankOf(t) = 5 /\ impliedStatusOf(t) = "despatched"
        /\ t = "invoice.issued" => rankOf(t) = 6 /\ impliedStatusOf(t) = "invoiced"
        /\ t = "payment.received" => rankOf(t) = 7 /\ impliedStatusOf(t) = "paid"
        /\ t = "order.completed" => rankOf(t) = 98 /\ impliedStatusOf(t) = "completed"
        /\ t = "order.cancelled" => rankOf(t) = 99 /\ impliedStatusOf(t) = "cancelled"
        /\ t \notin {"order.placed", "stock.reserved", "credit.approved", "order.confirmed",
                     "order.despatched", "invoice.issued", "payment.received", "order.completed",
                     "order.cancelled"}
             => rankOf(t) = 0 /\ impliedStatusOf(t) = "none"
  <2> TAKE t \in HANDLED_EVENT_TYPES
  <2>1. t = "order.placed" => RANK_TABLE[t] = [status |-> "placed", rank |-> 1]
    BY DEF RANK_TABLE
  <2>2. t = "stock.reserved" => RANK_TABLE[t] = [status |-> "stock_reserved", rank |-> 2]
    BY DEF RANK_TABLE
  <2>3. t = "credit.approved" => RANK_TABLE[t] = [status |-> "credit_approved", rank |-> 3]
    BY DEF RANK_TABLE
  <2>4. t = "order.confirmed" => RANK_TABLE[t] = [status |-> "confirmed", rank |-> 4]
    BY DEF RANK_TABLE
  <2>5. t = "order.despatched" => RANK_TABLE[t] = [status |-> "despatched", rank |-> 5]
    BY DEF RANK_TABLE
  <2>6. t = "invoice.issued" => RANK_TABLE[t] = [status |-> "invoiced", rank |-> 6]
    BY DEF RANK_TABLE
  <2>7. t = "payment.received" => RANK_TABLE[t] = [status |-> "paid", rank |-> 7]
    BY DEF RANK_TABLE
  <2>8. t = "order.completed" => RANK_TABLE[t] = [status |-> "completed", rank |-> 98]
    BY DEF RANK_TABLE
  <2>9. t = "order.cancelled" => RANK_TABLE[t] = [status |-> "cancelled", rank |-> 99]
    BY DEF RANK_TABLE
  <2>10. t \notin {"order.placed", "stock.reserved", "credit.approved", "order.confirmed",
                   "order.despatched", "invoice.issued", "payment.received", "order.completed",
                   "order.cancelled"} => RANK_TABLE[t] = [status |-> "none", rank |-> 0]
    BY DEF RANK_TABLE
  <2> QED
    BY <2>1, <2>2, <2>3, <2>4, <2>5, <2>6, <2>7, <2>8, <2>9, <2>10 DEF rankOf, impliedStatusOf
<1>2. "order.placed" \in HANDLED_EVENT_TYPES
  BY DEF HANDLED_EVENT_TYPES
<1> QED
  BY <1>1, <1>2, SMTT(60) DEF NoRank

LEMMA StatusRankIs ==
  ASSUME NEW t \in HANDLED_EVENT_TYPES, impliedStatusOf(t) # "none"
  PROVE  STATUS_RANK(impliedStatusOf(t)) = rankOf(t) /\ impliedStatusOf(t) \in OrderStatus
<1> DEFINE u == CHOOSE v \in HANDLED_EVENT_TYPES : RANK_TABLE[v].status = impliedStatusOf(t)
<1>1. u \in HANDLED_EVENT_TYPES /\ impliedStatusOf(u) = impliedStatusOf(t)
  BY DEF impliedStatusOf
<1>2. rankOf(u) = rankOf(t)
  BY <1>1, RanksAndStatuses
<1>3. STATUS_RANK(impliedStatusOf(t)) = rankOf(u)
  BY DEF STATUS_RANK, rankOf
<1> QED
  BY <1>2, <1>3 DEF OrderStatus, impliedStatusOf

LEMMA StatusOfRank ==
  ASSUME NEW es \in Seq(TimelineEntry), NEW status, NEW rank, rankMatches(es, status, rank)
  PROVE  /\ status \in OrderStatus /\ STATUS_RANK(status) \in Nat /\ rank \in Nat
         /\ rankMatches(es, status, STATUS_RANK(status))
         /\ status = IF ranked(es) = {} THEN "placed" ELSE impliedStatusOf(furthest(es).type)
<1>1. \A e \in ranked(es) : e.type \in HANDLED_EVENT_TYPES /\ impliedStatusOf(e.type) # "none"
  <2>1. ToSet(es) \subseteq TimelineEntry
    BY DEF ToSet
  <2> QED
    BY <2>1 DEF ranked, TimelineEntry
<1>2. CASE ranked(es) = {} /\ status = "placed" /\ rank \in {0, 1}
  <2>1. STATUS_RANK(status) = 1 /\ status \in OrderStatus
    BY <1>2, StatusRankIs, RanksAndStatuses
  <2> QED
    BY <1>2, <2>1 DEF rankMatches
<1>3. ASSUME NEW e \in ranked(es), \A g \in ranked(es) : rankOf(g.type) <= rankOf(e.type),
             status = impliedStatusOf(e.type), rank = rankOf(e.type)
      PROVE  /\ status \in OrderStatus /\ STATUS_RANK(status) = rank /\ rank \in Nat
             /\ status = impliedStatusOf(furthest(es).type)
  <2>1. status \in OrderStatus /\ STATUS_RANK(status) = rank /\ rank \in Nat
    BY <1>1, <1>3, StatusRankIs, RanksAndStatuses
  <2> DEFINE h == furthest(es)
  <2>2. h \in ranked(es) /\ \A g \in ranked(es) : rankOf(g.type) <= rankOf(h.type)
    BY <1>3, Zenon DEF furthest
  <2> HIDE DEF h
  <2>3. rankOf(h.type) <= rankOf(e.type) /\ rankOf(e.type) <= rankOf(h.type)
    BY <1>3, <2>2
  <2>4. rankOf(h.type) = rankOf(e.type)
    BY <1>1, <2>2, <2>3, RanksAndStatuses
  <2>5. impliedStatusOf(h.type) = status
    BY <1>1, <1>3, <2>2, <2>4, RanksAndStatuses
  <2> QED
    BY <2>1, <2>5 DEF h
<1> QED
  BY <1>2, <1>3 DEF rankMatches


-----------------------------------------------------------------------------
(* The document.                                                           *)

LEMMA SmallerStories ==
  ASSUME NEW E, acyclic(E), NEW F \in SUBSET E
  PROVE  acyclic(F)
BY Zenon DEF acyclic

(* The same entries in another order have the same ids and statuses.       *)
LEMMA SameEntries ==
  ASSUME NEW es, NEW fs, ToSet(es) = ToSet(fs)
  PROVE  /\ ranked(es) = ranked(fs) /\ eventIds(es) = eventIds(fs)
         /\ \A status, rank : rankMatches(es, status, rank) <=> rankMatches(fs, status, rank)
         /\ \A filled : filledBy(es, filled) <=> filledBy(fs, filled)
<1>1. ranked(es) = ranked(fs)
  BY DEF ranked
<1>2. eventIds(es) = {e.id : e \in ToSet(es)} /\ eventIds(fs) = {e.id : e \in ToSet(fs)}
  BY DEF eventIds, ToSet
<1> QED
  BY <1>1, <1>2 DEF rankMatches, filledBy

(* One entry more.                                                         *)
LEMMA OneEntryMore ==
  ASSUME NEW es \in Seq(TimelineEntry), NEW e \in TimelineEntry, oneEntryEach(es),
         e.id \notin eventIds(es)
  PROVE  /\ Append(es, e) \in Seq(TimelineEntry) /\ oneEntryEach(Append(es, e))
         /\ ToSet(Append(es, e)) = ToSet(es) \union {e}
         /\ eventIds(Append(es, e)) = eventIds(es) \union {e.id}
         /\ ranked(Append(es, e)) =
              IF impliedStatusOf(e.type) # "none" THEN ranked(es) \union {e} ELSE ranked(es)
<1> DEFINE fs == Append(es, e)
           N == Len(es)
<1>1. /\ N \in Nat /\ DOMAIN es = 1..N /\ DOMAIN fs = 1..N + 1 /\ fs \in Seq(TimelineEntry)
      /\ \A i \in 1..N : fs[i] = es[i]
      /\ fs[N + 1] = e
  OBVIOUS
<1> HIDE DEF fs, N
<1>2. \A i \in DOMAIN fs : i \in DOMAIN es \/ i = N + 1
  BY <1>1
<1>3. DOMAIN es \subseteq DOMAIN fs /\ N + 1 \in DOMAIN fs
  BY <1>1
<1>4. ToSet(fs) = ToSet(es) \union {e}
  <2>1. ToSet(fs) \subseteq ToSet(es) \union {e}
    BY <1>1, <1>2 DEF ToSet
  <2>2. ToSet(es) \union {e} \subseteq ToSet(fs)
    BY <1>1, <1>3 DEF ToSet
  <2> QED
    BY <2>1, <2>2
<1>5. eventIds(fs) = eventIds(es) \union {e.id}
  <2>1. eventIds(fs) = {g.id : g \in ToSet(fs)} /\ eventIds(es) = {g.id : g \in ToSet(es)}
    BY DEF eventIds, ToSet
  <2> QED
    BY <1>4, <2>1
<1>6. oneEntryEach(fs)
  <2> SUFFICES ASSUME NEW i \in DOMAIN fs, NEW j \in DOMAIN fs, fs[i].id = fs[j].id
               PROVE  i = j
    BY DEF oneEntryEach
  <2>1. \A k \in DOMAIN es : es[k].id # e.id
    BY DEF eventIds
  <2> QED
    BY <1>1, <1>2, <2>1 DEF oneEntryEach
<1>7. ranked(fs) = IF impliedStatusOf(e.type) # "none" THEN ranked(es) \union {e} ELSE ranked(es)
  BY <1>4 DEF ranked
<1> QED
  BY <1>1, <1>4, <1>5, <1>6, <1>7 DEF fs

LEMMA StoryGoesInNoCircle ==
  ASSUME story \in Story
  PROVE  acyclic(storyEntries(story)) /\ storyEntries(story) \subseteq TimelineEntry
BY StoryAssumption

(* A placeholder tells of no fact.                                         *)
LEMMA PlaceholderReplays ==
  ASSUME NEW when
  PROVE  replays(placeholderSkeleton(when)) /\ placeholderSkeleton(when) # NoDocument
<1> DEFINE d == placeholderSkeleton(when)
<1>1. /\ d.events = <<>> /\ d.status = "placed" /\ d.statusRank = 0 /\ d.processedEventKeys = {}
      /\ d # NoDocument
  BY DEF placeholderSkeleton, NoDocument
<1> HIDE DEF d
<1>2. /\ <<>> \in Seq(TimelineEntry) /\ ToSet(<<>>) = {} /\ ranked(<<>>) = {} /\ eventIds(<<>>) = {}
      /\ oneEntryEach(<<>>) /\ inCausalOrder(<<>>) /\ filledBy(<<>>, d.filled)
  BY DEF ToSet, ranked, eventIds, oneEntryEach, inCausalOrder, filledBy
<1> QED
  BY <1>1, <1>2 DEF replays, rankMatches, d

(* A further fact raises the rank exactly when it is further along.        *)
LEMMA RankRaised ==
  ASSUME NEW d, d.events \in Seq(TimelineEntry), rankMatches(d.events, d.status, d.statusRank),
         NEW f, entryOf(f) \in TimelineEntry, NEW fs,
         ranked(fs) = IF impliedStatusOf(f.type) # "none"
                      THEN ranked(d.events) \union {entryOf(f)} ELSE ranked(d.events)
  PROVE  LET delta == projectFact(f) IN
         rankMatches(fs, raisedStatus(d, delta), larger(orZero(d.statusRank), delta.statusRank))
<1> DEFINE delta == projectFact(f)
           r == rankOf(f.type)
           es == d.events
<1>1. /\ delta.statusRank = r /\ delta.impliedStatus = impliedStatusOf(f.type)
      /\ entryOf(f).type = f.type /\ f.type \in HANDLED_EVENT_TYPES
  BY DEF projectFact, entryOf, TimelineEntry
<1>2. d.statusRank \in Nat /\ r \in Nat /\ orZero(d.statusRank) = d.statusRank
  <2>1. d.statusRank \in Nat /\ r \in Nat
    BY <1>1, StatusOfRank, RanksAndStatuses
  <2> QED
    BY <2>1 DEF orZero, NoRank
<1>6. \A e \in ranked(es) : rankOf(e.type) \in Nat
  <2>1. ToSet(es) \subseteq TimelineEntry
    BY DEF ToSet
  <2> QED
    BY <2>1, RanksAndStatuses DEF ranked, TimelineEntry
<1> HIDE DEF delta
<1>3. CASE impliedStatusOf(f.type) = "none"
  <2>1. r = 0 /\ ranked(fs) = ranked(es)
    BY <1>1, <1>3, RanksAndStatuses
  <2>2. raisedStatus(d, delta) = d.status
    BY <1>1, <1>3 DEF raisedStatus
  <2>3. larger(orZero(d.statusRank), delta.statusRank) = d.statusRank
    BY <1>1, <1>2, <2>1 DEF larger
  <2> QED
    BY <2>1, <2>2, <2>3 DEF rankMatches, delta
<1>4. CASE impliedStatusOf(f.type) # "none" /\ r > d.statusRank
  <2>1. ranked(fs) = ranked(es) \union {entryOf(f)}
    BY <1>4
  <2>2. raisedStatus(d, delta) = impliedStatusOf(f.type)
    BY <1>1, <1>2, <1>4 DEF raisedStatus
  <2>3. larger(orZero(d.statusRank), delta.statusRank) = r
    BY <1>1, <1>2, <1>4 DEF larger
  <2>4. \A g \in ranked(es) : rankOf(g.type) <= d.statusRank
    BY DEF rankMatches
  <2>5. \A g \in ranked(fs) : rankOf(g.type) <= rankOf(entryOf(f).type)
    BY <1>1, <1>2, <1>4, <1>6, <2>1, <2>4
  <2> QED
    BY <1>1, <2>1, <2>2, <2>3, <2>5 DEF rankMatches, delta
<1>5. CASE impliedStatusOf(f.type) # "none" /\ ~(r > d.statusRank)
  <2>1. ranked(fs) = ranked(es) \union {entryOf(f)}
    BY <1>5
  <2>2. raisedStatus(d, delta) = d.status
    BY <1>1, <1>2, <1>5 DEF raisedStatus
  <2>3. larger(orZero(d.statusRank), delta.statusRank) = d.statusRank
    BY <1>1, <1>2, <1>5 DEF larger
  <2>4. CASE ranked(es) = {} /\ d.status = "placed" /\ d.statusRank \in {0, 1}
    <3>1. r = 1
      BY <1>1, <1>2, <1>5, <2>4, RanksAndStatuses
    <3>2. impliedStatusOf(f.type) = "placed" /\ d.statusRank = 1
      BY <1>1, <1>2, <1>5, <2>4, <3>1, RanksAndStatuses
    <3>3. \A g \in ranked(fs) : rankOf(g.type) <= rankOf(entryOf(f).type)
      BY <1>1, <1>2, <2>1, <2>4
    <3> QED
      BY <1>1, <2>1, <2>2, <2>3, <2>4, <3>1, <3>2, <3>3 DEF rankMatches, delta
  <2>5. ASSUME NEW e \in ranked(es), \A g \in ranked(es) : rankOf(g.type) <= rankOf(e.type),
               d.status = impliedStatusOf(e.type), d.statusRank = rankOf(e.type)
        PROVE  rankMatches(fs, d.status, d.statusRank)
    <3>1. \A g \in ranked(fs) : rankOf(g.type) <= rankOf(e.type)
      BY <1>1, <1>2, <1>5, <2>1, <2>5
    <3> QED
      BY <2>1, <2>5, <3>1 DEF rankMatches
  <2> QED
    BY <2>2, <2>3, <2>4, <2>5 DEF rankMatches, delta
<1> QED
  BY <1>3, <1>4, <1>5


(* A document that a further fact is applied to says what all of them say. *)
LEMMA AppliedReplays ==
  ASSUME story \in Story, NEW d, replays(d), NEW f, entryOf(f) \in storyEntries(story),
         f.id \notin d.processedEventKeys
  PROVE  replays(deltaToPipeline(d, projectFact(f)))
<1> DEFINE delta == projectFact(f)
           e == entryOf(f)
           es == Append(d.events, e)
           fs == causalTimelineOrder(es)
           new == deltaToPipeline(d, delta)
<1>1. /\ d.events \in Seq(TimelineEntry) /\ ToSet(d.events) \subseteq storyEntries(story)
      /\ oneEntryEach(d.events) /\ rankMatches(d.events, d.status, d.statusRank)
      /\ d.processedEventKeys = eventIds(d.events) /\ filledBy(d.events, d.filled)
  BY DEF replays
<1>2. e \in TimelineEntry /\ e.id = f.id /\ e.type = f.type /\ delta.entry = e
      /\ delta.fillIfAbsent = fills(f)
  BY StoryGoesInNoCircle DEF entryOf, projectFact
<1>3. /\ es \in Seq(TimelineEntry) /\ oneEntryEach(es) /\ ToSet(es) = ToSet(d.events) \union {e}
      /\ eventIds(es) = eventIds(d.events) \union {f.id}
      /\ ranked(es) = IF impliedStatusOf(f.type) # "none" THEN ranked(d.events) \union {e}
                      ELSE ranked(d.events)
  <2> HIDE DEF e
  <2>1. e.id \notin eventIds(d.events)
    BY <1>1, <1>2
  <2>2. /\ Append(d.events, e) \in Seq(TimelineEntry) /\ oneEntryEach(Append(d.events, e))
        /\ ToSet(Append(d.events, e)) = ToSet(d.events) \union {e}
        /\ eventIds(Append(d.events, e)) = eventIds(d.events) \union {e.id}
        /\ ranked(Append(d.events, e)) =
             IF impliedStatusOf(e.type) # "none" THEN ranked(d.events) \union {e} ELSE ranked(d.events)
    BY <1>1, <1>2, <2>1, OneEntryMore, Zenon
  <2> QED
    BY <1>2, <2>2, Zenon
<1> HIDE DEF es
<1>4. acyclic(ToSet(es)) /\ ToSet(es) \subseteq storyEntries(story)
  <2>1. ToSet(es) \subseteq storyEntries(story)
    BY <1>1, <1>3
  <2> QED
    BY <2>1, StoryGoesInNoCircle, SmallerStories
<1>5. /\ fs \in Seq(TimelineEntry) /\ ToSet(fs) = ToSet(es) /\ oneEntryEach(fs) /\ inCausalOrder(fs)
  BY <1>3, <1>4, TimelineIsInOrder
<1> HIDE DEF fs
<1>6. /\ new.status = raisedStatus(d, delta)
      /\ new.statusRank = larger(orZero(d.statusRank), delta.statusRank)
      /\ new.events = fs
      /\ DOMAIN new.filled = DOMAIN d.filled \union fills(f)
      /\ new.processedEventKeys = d.processedEventKeys \union {f.id}
  BY <1>2 DEF deltaToPipeline, es, fs
<1> HIDE DEF new
<1>7. rankMatches(fs, new.status, new.statusRank)
  <2>1. ranked(fs) = ranked(es)
    BY <1>5, SameEntries
  <2> HIDE DEF delta
  <2>2. rankMatches(fs, raisedStatus(d, delta), larger(orZero(d.statusRank), delta.statusRank))
    BY <1>1, <1>2, <1>3, <2>1, RankRaised DEF delta
  <2> QED
    BY <1>6, <2>2
<1>8. new.processedEventKeys = eventIds(fs)
  BY <1>1, <1>3, <1>5, <1>6, SameEntries
<1>9. filledBy(fs, new.filled)
  <2> SUFFICES ASSUME NEW g \in ToSet(fs)
               PROVE  fills([type |-> g.type]) \subseteq DOMAIN d.filled \union fills(f)
    BY <1>6 DEF filledBy
  <2>1. CASE g \in ToSet(d.events)
    BY <1>1, <2>1 DEF filledBy
  <2>2. CASE g = e
    <3>1. fills([type |-> f.type]) = fills(f)
      BY DEF fills
    <3> QED
      BY <1>2, <2>2, <3>1
  <2> QED
    BY <1>3, <1>5, <2>1, <2>2
<1> QED
  BY <1>4, <1>5, <1>6, <1>7, <1>8, <1>9 DEF replays, new

(* The boot's migrations make of a seeded document one that says what its  *)
(* own entries say.                                                        *)
LEMMA BootReplays ==
  ASSUME story \in Story, NEW d, seedWrites(d), ToSet(d.events) \subseteq storyEntries(story)
  PROVE  LET m == migrateTimelineOrder(backfillLegacyDocuments(d)) IN
         replays(m) /\ m # NoDocument
<1> DEFINE e == backfillLegacyDocuments(d)
           keys == {d.events[i].id : i \in DOMAIN d.events}
           m == migrateTimelineOrder(e)
<1>1. /\ {"status", "statusRank", "events", "filled", "processedEventKeys", "timelineOrderVersion"}
            \subseteq DOMAIN d
      /\ d.events \in Seq(TimelineEntry) /\ oneEntryEach(d.events) /\ filledBy(d.events, d.filled)
      /\ d.statusRank # NoRank => d.processedEventKeys = eventIds(d.events)
      /\ d.timelineOrderVersion = TIMELINE_ORDER_VERSION => inCausalOrder(d.events)
  BY DEF seedWrites
<1>2. PICK t \in HANDLED_EVENT_TYPES :
        rankMatches(d.events, d.status, rankOf(t)) /\ d.statusRank \in {NoRank, rankOf(t)}
  BY DEF seedWrites
<1>3. d.status \in OrderStatus /\ rankMatches(d.events, d.status, STATUS_RANK(d.status))
  BY <1>1, <1>2, StatusOfRank
<1>4. \A s \in OrderStatus : s # "absent"
  BY RanksAndStatuses DEF OrderStatus, impliedStatusOf
<1>5. /\ {"status", "statusRank", "events", "filled", "processedEventKeys", "timelineOrderVersion"}
           \subseteq DOMAIN e
      /\ e.status = d.status /\ e.events = d.events /\ e.filled = d.filled
      /\ e.timelineOrderVersion = d.timelineOrderVersion
      /\ rankMatches(e.events, e.status, e.statusRank) /\ e.processedEventKeys = eventIds(e.events)
  <2>1. CASE d.statusRank # NoRank
    <3>1. e = d /\ d.statusRank = rankOf(t)
      BY <1>2, <2>1 DEF backfillLegacyDocuments
    <3> HIDE DEF e
    <3> QED
      BY <1>1, <1>2, <2>1, <3>1
  <2>2. CASE d.statusRank = NoRank
    <3>1. e = [d EXCEPT !.statusRank = STATUS_RANK(d.status), !.processedEventKeys = keys]
      BY <1>3, <1>4, <2>2 DEF backfillLegacyDocuments
    <3>2. keys = eventIds(d.events)
      BY DEF eventIds
    <3> HIDE DEF e, keys
    <3>3. /\ DOMAIN e = DOMAIN d /\ e.status = d.status /\ e.processedEventKeys = keys
          /\ e.statusRank = STATUS_RANK(d.status) /\ e.events = d.events /\ e.filled = d.filled
          /\ e.timelineOrderVersion = d.timelineOrderVersion
      BY <1>1, <3>1
    <3> QED
      BY <1>1, <1>3, <3>2, <3>3
  <2> QED
    BY <2>1, <2>2
<1> HIDE DEF e
<1>6. acyclic(ToSet(e.events))
  BY <1>5, StoryGoesInNoCircle, SmallerStories
<1>7. CASE e.timelineOrderVersion = TIMELINE_ORDER_VERSION
  <2>1. m = e
    BY <1>7 DEF migrateTimelineOrder
  <2>2. e # NoDocument
    BY <1>3, <1>4, <1>5 DEF NoDocument
  <2> HIDE DEF m
  <2>3. inCausalOrder(e.events)
    BY <1>1, <1>5, <1>7
  <2> QED
    BY <1>1, <1>5, <2>1, <2>2, <2>3 DEF replays, m, e
<1>8. CASE e.timelineOrderVersion # TIMELINE_ORDER_VERSION
  <2> DEFINE fs == causalTimelineOrder(e.events)
  <2>1. m = [e EXCEPT !.events = fs, !.timelineOrderVersion = TIMELINE_ORDER_VERSION]
    BY <1>3, <1>4, <1>5, <1>8 DEF migrateTimelineOrder
  <2>2. /\ fs \in Seq(TimelineEntry) /\ ToSet(fs) = ToSet(e.events) /\ oneEntryEach(fs)
        /\ inCausalOrder(fs)
    BY <1>1, <1>5, <1>6, TimelineIsInOrder
  <2> HIDE DEF m, fs
  <2>3. /\ m.status = e.status /\ m.statusRank = e.statusRank /\ m.events = fs
        /\ m.filled = e.filled /\ m.processedEventKeys = e.processedEventKeys
    BY <1>5, <2>1
  <2>4. m # NoDocument
    BY <1>3, <1>4, <1>5, <2>3 DEF NoDocument
  <2>5. /\ rankMatches(fs, e.status, e.statusRank) /\ eventIds(fs) = eventIds(e.events)
        /\ filledBy(fs, e.filled)
    BY <1>1, <1>5, <2>2, SameEntries
  <2> QED
    BY <1>1, <1>5, <2>2, <2>3, <2>4, <2>5 DEF replays, m, e
<1> QED
  BY <1>7, <1>8


-----------------------------------------------------------------------------
(* The projector's steps.                                                  *)

(* A fact that is received is one of the story.                            *)
LEMMA FactOfStory ==
  ASSUME ProjectorInv, NEW s \in Service, position[s] < Len(records(s)), ~ignored(fact(s))
  PROVE  entryOf(fact(s)) \in storyEntries(story) /\ fact(s).id \in Nat
<1>1. position[s] \in 0..Len(records(s)) /\ story \in Story
  BY DEF ProjectorInv, ProjectorTypeOK
<1>2. records(s) \in Seq(ToSet(records(s))) /\ records(s) = Facts[story][s]
  BY <1>1, StoryAssumption DEF records
<1> DEFINE R == records(s)
           n == position[s]
<1>3. R[n + 1] \in ToSet(R)
  <2> HIDE DEF R, n
  <2>1. n + 1 \in DOMAIN R
    BY <1>1, <1>2 DEF R, n
  <2> QED
    BY <2>1 DEF ToSet
<1>4. fact(s) \in ToSet(Facts[story][s])
  BY <1>2, <1>3 DEF fact
<1>5. entryOf(fact(s)) \in {entryOf(r) : r \in {f \in ToSet(Facts[story][s]) : ~ignored(f)}}
  BY <1>1, <1>4
<1>6. entryOf(fact(s)) \in storyEntries(story)
  BY <1>5, Zenon DEF storyEntries
<1> QED
  BY <1>1, <1>6, StoryGoesInNoCircle DEF entryOf, TimelineEntry

LEMMA SeedsAreTyped ==
  ASSUME NEW d, seedWrites(d)
  PROVE  d.status \in OrderStatus /\ d.processedEventKeys \subseteq Nat
BY StatusOfRank DEF seedWrites

LEMMA BootKeepsDocument ==
  ASSUME ProjectorInv, Boot, UNCHANGED story
  PROVE  DocumentInv'
<1>1. /\ document = Seeded[story] /\ story \in Story
      /\ delivery' = [s \in Service |-> at("idle")]
      /\ document' = migrateTimelineOrder(backfillLegacyDocuments(document))
  BY DEF ProjectorInv, Boot
<1>2. \A s \in Service : delivery'[s].stage # "down"
  BY <1>1 DEF at
<1>3. CASE document = NoDocument
  <2>1. document.status = "absent"
    BY <1>3 DEF NoDocument
  <2>2. backfillLegacyDocuments(document) = document
    BY <2>1 DEF backfillLegacyDocuments
  <2>3. document' = document
    BY <1>1, <2>1, <2>2 DEF migrateTimelineOrder
  <2> QED
    BY <1>2, <1>3, <2>3 DEF DocumentInv
<1>4. CASE document # NoDocument
  <2>1. seedWrites(document)
    BY <1>1, <1>4, StoryAssumption
  <2>2. ToSet(document.events) \subseteq storyEntries(story)
    BY <1>1, <1>4 DEF storyEntries, seededEntries
  <2> DEFINE m == migrateTimelineOrder(backfillLegacyDocuments(document))
  <2>3. replays(m)
    BY <1>1, <2>1, <2>2, BootReplays
  <2> HIDE DEF m
  <2>4. document' = m /\ story' = story
    BY <1>1 DEF m
  <2>5. replays(document)'
    BY <2>3, <2>4 DEF replays
  <2> QED
    BY <1>2, <2>5 DEF DocumentInv
<1> QED
  BY <1>3, <1>4

(* The steps of one instance.                                              *)
LEMMA InstanceKeepsDocument ==
  ASSUME ProjectorInv, DocumentInv, UNCHANGED story, NEW s \in Service,
         delivery[s].stage # "down", NEW d, delivery' = [delivery EXCEPT ![s] = d], d.stage # "down",
         document' = NoDocument \/ replays(document')
  PROVE  DocumentInv'
<1>1. delivery # [t \in Service |-> at("down")]
  BY DEF at
<1>2. \A t \in Service : delivery[t].stage # "down"
  BY <1>1 DEF DocumentInv
<1>3. delivery = [t \in Service |-> delivery[t]]
  BY DEF ProjectorInv
<1>4. \A t \in Service : delivery'[t].stage # "down"
  BY <1>2, <1>3
<1>5. replays(document)' <=> replays(document')
  BY DEF replays
<1> QED
  BY <1>4, <1>5 DEF DocumentInv

LEMMA UpsertKeepsDocument ==
  ASSUME ProjectorInv, DocumentInv, UNCHANGED story, NEW s \in Service, UpsertPlaceholder(s)
  PROVE  DocumentInv'
<1>1. /\ delivery[s].stage = "received"
      /\ delivery' = [delivery EXCEPT ![s].stage = "placed"]
      /\ document' = IF document = NoDocument THEN placeholderSkeleton(fact(s).at) ELSE document
  BY DEF UpsertPlaceholder, moves
<1>2. document = NoDocument \/ replays(document)
  BY <1>1 DEF DocumentInv, at
<1>3. document' = NoDocument \/ replays(document')
  BY <1>1, <1>2, PlaceholderReplays
<1> DEFINE d == [delivery[s] EXCEPT !.stage = "placed"]
<1>4. delivery' = [delivery EXCEPT ![s] = d]
  BY <1>1
<1>5. d.stage = "placed"
  BY DEF ProjectorInv, working
<1> HIDE DEF d
<1> QED
  BY <1>1, <1>3, <1>4, <1>5, InstanceKeepsDocument

LEMMA ApplyKeepsDocument ==
  ASSUME ProjectorInv, DocumentInv, UNCHANGED story, NEW s \in Service, Apply(s)
  PROVE  DocumentInv'
<1> DEFINE new == deltaToPipeline(document, projectFact(fact(s)))
<1>1. delivery[s].stage = "placed" /\ document # NoDocument
  BY DEF Apply, ProjectorInv, working
<1>2. replays(document)
  BY <1>1 DEF DocumentInv, at
<1>3. CASE fact(s).id \in document.processedEventKeys
  <2> DEFINE d == [delivery[s] EXCEPT !.stage = "settled"]
  <2>1. delivery' = [delivery EXCEPT ![s] = d] /\ document' = document
    BY <1>3 DEF Apply
  <2>2. d.stage = "settled"
    BY DEF ProjectorInv, working
  <2> HIDE DEF d
  <2> QED
    BY <1>1, <1>2, <2>1, <2>2, InstanceKeepsDocument
<1>4. CASE fact(s).id \notin document.processedEventKeys
  <2> DEFINE d == [delivery[s] EXCEPT !.stage = "applied", !.after = new]
  <2>1. replays(new)
    <3>1. position[s] < Len(records(s)) /\ ~ignored(fact(s))
      BY <1>1 DEF ProjectorInv, working
    <3> QED
      BY <1>2, <1>4, <3>1, FactOfStory, AppliedReplays DEF ProjectorInv
  <2> HIDE DEF new
  <2>2. delivery' = [delivery EXCEPT ![s] = d] /\ document' = new
    BY <1>4 DEF Apply, new
  <2>3. d.stage = "applied"
    BY DEF ProjectorInv, working
  <2> HIDE DEF d
  <2> QED
    BY <1>1, <2>1, <2>2, <2>3, InstanceKeepsDocument
<1> QED
  BY <1>3, <1>4

(* What leaves the document alone and brings no instance down.             *)
LEMMA OtherStepsKeepDocument ==
  ASSUME ProjectorInv, DocumentInv, UNCHANGED <<story, document>>,
         \/ UNCHANGED delivery
         \/ \E s \in Service : delivery[s].stage # "down" /\
              \E d : delivery' = [delivery EXCEPT ![s] = d] /\ d.stage # "down"
  PROVE  DocumentInv'
<1>1. replays(document)' <=> replays(document)
  BY DEF replays
<1>2. CASE UNCHANGED delivery
  BY <1>1, <1>2 DEF DocumentInv
<1>3. ASSUME NEW s \in Service, delivery[s].stage # "down", NEW d,
             delivery' = [delivery EXCEPT ![s] = d], d.stage # "down"
      PROVE  DocumentInv'
  <2>1. document = NoDocument \/ replays(document)
    BY <1>3 DEF DocumentInv, at
  <2>2. document' = NoDocument \/ replays(document')
    BY <2>1
  <2> QED
    BY <1>3, <2>2, InstanceKeepsDocument
<1> QED
  BY <1>2, <1>3

(* A document that says what its entries say is what the replay asks for.  *)
LEMMA DocumentSays ==
  ASSUME DocumentInv, NothingIsDropped
  PROVE  DocumentIsReplay
<1> SUFFICES ASSUME document # NoDocument, \A s \in Service : delivery[s].stage # "down"
             PROVE  /\ oneEntryEach(document.events)
                    /\ inCausalOrder(document.events)
                    /\ document.status =
                         (IF ranked(document.events) = {} THEN "placed"
                          ELSE impliedStatusOf(furthest(document.events).type))
                    /\ document.processedEventKeys = eventIds(document.events)
                    /\ filledBy(document.events, document.filled)
  BY DEF DocumentIsReplay
<1>1. "orders" \in Service
  BY DEF Service
<1>2. replays(document)
  BY <1>1 DEF DocumentInv, at
<1> QED
  BY <1>2, StatusOfRank DEF replays

=============================================================================
