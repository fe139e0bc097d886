------------------------- MODULE FactDeliveryProofs -------------------------
(***************************************************************************)
(* For any orders, transactions, batches, relays, crashes and late sends:  *)
(* the saga's group applies each fact once and every notice is accounted   *)
(* for; with one relay per service the outbox keeps its promise to         *)
(* consumers and facts of one order take effect in order.                  *)
(***************************************************************************)
EXTENDS FactDelivery, CountingLemmas

-----------------------------------------------------------------------------
(* What a send puts on the streams.                                        *)

FactRecord == Service \X Nat

LEMMA StreamParts ==
  /\ \A s \in Stream : s[1] \in Service /\ s[2] \in Order /\ s = <<s[1], s[2]>>
  /\ \A svc \in Service, o \in Order : <<svc, o>> \in Stream
  /\ Foreign \notin FactRecord
BY DEF Stream, Service, Foreign, FactRecord

LEMMA CommittedRows ==
  ASSUME NEW s \in Stream
  PROVE  committed(s) = {<<s[1], n>> : n \in {m \in DOMAIN outbox[s[1]] :
           orderOf(s[1], m) = s[2] /\ stateOf(s[1], m) \in {"unpublished", "published"}}}
BY DEF committed, eventsOf, rowsOf, orderOf, stateOf

LEMMA ElementOf ==
  ASSUME NEW T, NEW a \in Seq(T), NEW n \in DOMAIN a
  PROVE  n \in Nat /\ a[n] \in T
OBVIOUS

LEMMA RowTyped ==
  ASSUME outbox \in [Service -> Seq([order : Order, state : RowState])],
         NEW v \in Service, NEW n \in DOMAIN outbox[v]
  PROVE  /\ n \in Nat /\ orderOf(v, n) \in Order /\ stateOf(v, n) \in RowState
         /\ outbox[v][n] = [order |-> orderOf(v, n), state |-> stateOf(v, n)]
<1>1. outbox[v] \in Seq([order : Order, state : RowState])
  OBVIOUS
<1>2. n \in Nat /\ outbox[v][n] \in [order : Order, state : RowState]
  BY <1>1, ElementOf
<1> QED
  BY <1>2 DEF orderOf, stateOf

(* The records for one partition: the rows of its order, in seq order.     *)
LEMMA RecordsInOrder ==
  ASSUME outbox \in [Service -> Seq([order : Order, state : RowState])],
         NEW svc \in Service, NEW rows \in SUBSET DOMAIN outbox[svc], NEW o \in Order
  PROVE  LET q == recordsFor(svc, rows, o) IN
         /\ q \in Seq(FactRecord)
         /\ \A k \in 1..Len(q) : \E n \in rows : orderOf(svc, n) = o /\ q[k] = <<svc, n>>
         /\ \A n \in rows : orderOf(svc, n) = o => \E k \in 1..Len(q) : q[k] = <<svc, n>>
         /\ \A j, k \in 1..Len(q) : j < k => q[j][2] < q[k][2]
<1> DEFINE R == rows \intersect rowsOf(svc, o)
           own == inOrder(R)
           q == recordsFor(svc, rows, o)
<1>1. DOMAIN outbox[svc] = 1..Len(outbox[svc]) /\ Len(outbox[svc]) \in Nat
  OBVIOUS
<1>2. R \in SUBSET Nat /\ IsFiniteSet(R)
  <2>1. IsFiniteSet(1..Len(outbox[svc]))
    BY <1>1, FS_Interval
  <2> QED
    BY <1>1, <2>1, FS_Subset
<1> HIDE DEF R
<1>3. /\ Cardinality(R) \in Nat
      /\ DOMAIN own = 1..Cardinality(R)
      /\ \A k \in 1..Cardinality(R) : own[k] \in R
      /\ \A n \in R : \E k \in 1..Cardinality(R) : own[k] = n
      /\ \A j, k \in 1..Cardinality(R) : j < k => own[j] < own[k]
  BY <1>2, InAscendingOrder
<1> HIDE DEF own
<1>4. q = [k \in 1..Cardinality(R) |-> <<svc, own[k]>>]
  BY <1>3 DEF recordsFor, R, own
<1>5. q \in Seq(FactRecord) /\ Len(q) = Cardinality(R)
  <2>1. \A k \in 1..Cardinality(R) : <<svc, own[k]>> \in FactRecord
    BY <1>2, <1>3 DEF FactRecord
  <2> HIDE DEF q
  <2> QED
    BY <1>3, <1>4, <2>1
<1> HIDE DEF q
<1>6. \A n \in R : n \in rows /\ orderOf(svc, n) = o
  BY DEF R, rowsOf, orderOf
<1>7. \A n \in rows : orderOf(svc, n) = o => n \in R
  BY DEF R, rowsOf, orderOf
<1>8. \A k \in 1..Len(q) : \E n \in rows : orderOf(svc, n) = o /\ q[k] = <<svc, n>>
  BY <1>3, <1>4, <1>5, <1>6
<1>9. \A n \in rows : orderOf(svc, n) = o => \E k \in 1..Len(q) : q[k] = <<svc, n>>
  BY <1>3, <1>4, <1>5, <1>7
<1>10. \A j, k \in 1..Len(q) : j < k => q[j][2] < q[k][2]
  BY <1>3, <1>4, <1>5
<1> QED
  BY <1>5, <1>8, <1>9, <1>10 DEF q

(* Streams only grow.                                                      *)
LogExtends == \A s \in Stream :
  /\ Len(log'[s]) >= Len(log[s])
  /\ \A i \in 1..Len(log[s]) : log'[s][i] = log[s][i]

LogTyped == log \in [Stream -> Seq(FactRecord \union {Foreign})]

LEMMA OnStreamStays ==
  ASSUME LogTyped, LogTyped', LogExtends, NEW svc \in Service, NEW n,
         orderOf(svc, n) \in Order, orderOf(svc, n)' = orderOf(svc, n), onStream(svc, n)
  PROVE  onStream(svc, n)'
<1> DEFINE s == <<svc, orderOf(svc, n)>>
<1>1. s \in Stream
  BY StreamParts
<1>2. PICK k \in DOMAIN log[s] : log[s][k] = <<svc, n>>
  BY DEF onStream
<1>3. k \in DOMAIN log'[s] /\ log'[s][k] = <<svc, n>>
  <2>1. log[s] \in Seq(FactRecord \union {Foreign}) /\ log'[s] \in Seq(FactRecord \union {Foreign})
    BY <1>1 DEF LogTyped
  <2>2. k \in 1..Len(log[s]) /\ Len(log[s]) \in Nat /\ Len(log'[s]) \in Nat
    BY <1>2, <2>1
  <2>3. Len(log'[s]) >= Len(log[s]) /\ log'[s][k] = log[s][k]
    BY <1>1, <2>2 DEF LogExtends
  <2> QED
    BY <1>2, <2>1, <2>2, <2>3
<1> QED
  BY <1>3 DEF onStream

LEMMA Concatenated ==
  ASSUME NEW T, NEW a \in Seq(T), NEW b \in Seq(T)
  PROVE  /\ a \o b \in Seq(T) /\ Len(a) \in Nat /\ Len(b) \in Nat
         /\ Len(a \o b) = Len(a) + Len(b)
         /\ \A i \in 1..Len(a) : (a \o b)[i] = a[i]
         /\ \A k \in 1..Len(b) : (a \o b)[Len(a) + k] = b[k]
OBVIOUS

(* What one stream looks like after a send.                                *)
LEMMA AppendToStream ==
  ASSUME OutboxInv, LogTyped, NEW s \in Stream, NEW rows \in SUBSET DOMAIN outbox[s[1]],
         log'[s] = log[s] \o recordsFor(s[1], rows, s[2])
  PROVE  /\ log'[s] \in Seq(FactRecord \union {Foreign})
         /\ Len(log'[s]) >= Len(log[s])
         /\ \A i \in 1..Len(log[s]) : log'[s][i] = log[s][i]
         /\ \A n \in rows : orderOf(s[1], n) = s[2] =>
              \E i \in 1..Len(log'[s]) : log'[s][i] = <<s[1], n>>
         /\ \A i \in Len(log[s]) + 1 .. Len(log'[s]) :
              \E n \in rows :
                /\ orderOf(s[1], n) = s[2] /\ log'[s][i] = <<s[1], n>>
                /\ \A m \in rows : orderOf(s[1], m) = s[2] /\ m < n =>
                     \E h \in 1..(i - 1) : log'[s][h] = <<s[1], m>>
<1> DEFINE q == recordsFor(s[1], rows, s[2])
           L == log[s]
           M == log'[s]
<1>1. /\ q \in Seq(FactRecord)
      /\ \A k \in 1..Len(q) : \E n \in rows : orderOf(s[1], n) = s[2] /\ q[k] = <<s[1], n>>
      /\ \A n \in rows : orderOf(s[1], n) = s[2] => \E k \in 1..Len(q) : q[k] = <<s[1], n>>
      /\ \A j, k \in 1..Len(q) : j < k => q[j][2] < q[k][2]
  BY RecordsInOrder, StreamParts DEF OutboxInv
<1>2. rows \subseteq Nat
  BY StreamParts DEF OutboxInv
<1>3. M = L \o q
  OBVIOUS
<1>4. L \in Seq(FactRecord \union {Foreign})
  BY DEF LogTyped
<1> HIDE DEF q, L, M
<1>5. q \in Seq(FactRecord \union {Foreign})
  BY <1>1
<1>6. /\ M \in Seq(FactRecord \union {Foreign}) /\ Len(L) \in Nat /\ Len(q) \in Nat
      /\ Len(M) = Len(L) + Len(q)
      /\ \A i \in 1..Len(L) : M[i] = L[i]
      /\ \A k \in 1..Len(q) : M[Len(L) + k] = q[k]
  BY <1>3, <1>4, <1>5, Concatenated
<1>7. ASSUME NEW n \in rows, orderOf(s[1], n) = s[2]
      PROVE  \E i \in 1..Len(M) : M[i] = <<s[1], n>>
  <2>1. PICK k \in 1..Len(q) : q[k] = <<s[1], n>>
    BY <1>1, <1>7
  <2>2. Len(L) + k \in 1..Len(M) /\ M[Len(L) + k] = <<s[1], n>>
    BY <1>6, <2>1
  <2> QED
    BY <2>2
<1>8. ASSUME NEW i \in Len(L) + 1 .. Len(M)
      PROVE  \E n \in rows :
                /\ orderOf(s[1], n) = s[2] /\ M[i] = <<s[1], n>>
                /\ \A m \in rows : orderOf(s[1], m) = s[2] /\ m < n =>
                     \E h \in 1..(i - 1) : M[h] = <<s[1], m>>
  <2> DEFINE k == i - Len(L)
  <2>1. k \in 1..Len(q) /\ i = Len(L) + k /\ k \in Nat
    BY <1>6
  <2> HIDE DEF k
  <2>2. PICK n \in rows : orderOf(s[1], n) = s[2] /\ q[k] = <<s[1], n>>
    BY <1>1, <2>1
  <2>3. M[i] = <<s[1], n>>
    BY <1>6, <2>1, <2>2
  <2>4. ASSUME NEW m \in rows, orderOf(s[1], m) = s[2], m < n
        PROVE  \E h \in 1..(i - 1) : M[h] = <<s[1], m>>
    <3>1. PICK j \in 1..Len(q) : q[j] = <<s[1], m>>
      BY <1>1, <2>4
    <3>2. ~ (k < j) /\ j # k
      <4>1. k < j => q[k][2] < q[j][2]
        BY <1>1, <2>1
      <4>2. q[k][2] = n /\ q[j][2] = m /\ m \in Nat /\ n \in Nat
        BY <1>2, <2>2, <3>1
      <4> QED
        BY <2>4, <4>1, <4>2
    <3>3. j < k /\ j \in Nat
      BY <1>6, <2>1, <3>2
    <3>4. Len(L) + j \in 1..(i - 1) /\ M[Len(L) + j] = <<s[1], m>>
      BY <1>6, <2>1, <3>1, <3>3
    <3> QED
      BY <3>4
  <2> QED
    BY <2>2, <2>3, <2>4
<1>9. Len(M) >= Len(L)
  BY <1>6
<1> QED
  BY <1>6, <1>7, <1>8, <1>9 DEF L, M

LEMMA AppendKeeps ==
  ASSUME OutboxInv, StreamsInv, NEW svc \in Service, NEW rows, sendable(svc, rows),
         NEW orders \in SUBSET Order, append(svc, rows, orders), UNCHANGED outbox
  PROVE  /\ StreamsInv' /\ LogExtends
         /\ \A n \in rows : orderOf(svc, n) \in orders => onStream(svc, n)'
<1>1. /\ outbox \in [Service -> Seq([order : Order, state : RowState])]
      /\ rows \in SUBSET DOMAIN outbox[svc]
      /\ LogTyped
  BY DEF OutboxInv, StreamsInv, sendable, LogTyped, FactRecord
<1>2. \A s \in Stream : s[1] # svc \/ s[2] \notin orders => log'[s] = log[s]
  BY DEF append
<1>3. \A s \in Stream : s[1] = svc /\ s[2] \in orders =>
         /\ log'[s] \in Seq(FactRecord \union {Foreign})
         /\ Len(log'[s]) >= Len(log[s])
         /\ \A i \in 1..Len(log[s]) : log'[s][i] = log[s][i]
         /\ \A n \in rows : orderOf(svc, n) = s[2] =>
              \E i \in 1..Len(log'[s]) : log'[s][i] = <<svc, n>>
         /\ \A i \in Len(log[s]) + 1 .. Len(log'[s]) :
              \E n \in rows :
                /\ orderOf(svc, n) = s[2] /\ log'[s][i] = <<svc, n>>
                /\ \A m \in rows : orderOf(svc, m) = s[2] /\ m < n =>
                     \E h \in 1..(i - 1) : log'[s][h] = <<svc, m>>
  <2> SUFFICES ASSUME NEW s \in Stream, s[1] = svc, s[2] \in orders
               PROVE  /\ log'[s] \in Seq(FactRecord \union {Foreign})
                      /\ Len(log'[s]) >= Len(log[s])
                      /\ \A i \in 1..Len(log[s]) : log'[s][i] = log[s][i]
                      /\ \A n \in rows : orderOf(svc, n) = s[2] =>
                           \E i \in 1..Len(log'[s]) : log'[s][i] = <<svc, n>>
                      /\ \A i \in Len(log[s]) + 1 .. Len(log'[s]) :
                           \E n \in rows :
                             /\ orderOf(svc, n) = s[2] /\ log'[s][i] = <<svc, n>>
                             /\ \A m \in rows : orderOf(svc, m) = s[2] /\ m < n =>
                                  \E h \in 1..(i - 1) : log'[s][h] = <<svc, m>>
    OBVIOUS
  <2>1. log'[s] = log[s] \o recordsFor(s[1], rows, s[2])
    BY DEF append
  <2> QED
    BY <1>1, <2>1, AppendToStream, ZenonT(60)
<1>4. LogTyped'
  <2>1. log' = [s \in Stream |-> log'[s]]
    BY DEF append
  <2>2. \A s \in Stream : log'[s] \in Seq(FactRecord \union {Foreign})
    BY <1>1, <1>2, <1>3 DEF LogTyped
  <2> QED
    BY <2>1, <2>2 DEF LogTyped
<1>5. \A s \in Stream :
        /\ Len(log[s]) \in Nat /\ DOMAIN log[s] = 1..Len(log[s])
        /\ Len(log'[s]) \in Nat /\ DOMAIN log'[s] = 1..Len(log'[s])
  BY <1>1, <1>4 DEF LogTyped
<1>6. LogExtends
  BY <1>2, <1>3, <1>5 DEF LogExtends
<1>7. \A n \in rows : orderOf(svc, n) \in orders => onStream(svc, n)'
  <2> SUFFICES ASSUME NEW n \in rows, orderOf(svc, n) \in orders
               PROVE  onStream(svc, n)'
    OBVIOUS
  <2> DEFINE s == <<svc, orderOf(svc, n)>>
  <2>1. s \in Stream /\ s[1] = svc /\ s[2] = orderOf(svc, n)
    BY StreamParts
  <2> HIDE DEF s
  <2>2. PICK i \in 1..Len(log'[s]) : log'[s][i] = <<svc, n>>
    BY <1>3, <2>1
  <2>3. orderOf(svc, n)' = orderOf(svc, n)
    BY DEF orderOf
  <2> QED
    BY <1>5, <2>1, <2>2, <2>3 DEF onStream, s
<1>8. \A v \in Service : \A n \in DOMAIN outbox[v] :
        stateOf(v, n) = "published" => onStream(v, n)'
  <2> SUFFICES ASSUME NEW v \in Service, NEW n \in DOMAIN outbox[v], stateOf(v, n) = "published"
               PROVE  onStream(v, n)'
    OBVIOUS
  <2>1. orderOf(v, n) \in Order
    BY <1>1, RowTyped
  <2>2. orderOf(v, n)' = orderOf(v, n)
    BY DEF orderOf
  <2>3. onStream(v, n)
    BY DEF StreamsInv
  <2> QED
    BY <1>1, <1>4, <1>6, <2>1, <2>2, <2>3, OnStreamStays
<1>9. \A s \in Stream : \A i \in DOMAIN log'[s] : log'[s][i] # Foreign =>
         /\ log'[s][i] \in committed(s)
         /\ SingleRelay => \A d \in committed(s) :
              d[2] < log'[s][i][2] => \E h \in 1..(i - 1) : log'[s][h] = d
  <2> SUFFICES ASSUME NEW s \in Stream, NEW i \in 1..Len(log'[s]), log'[s][i] # Foreign
               PROVE  /\ log'[s][i] \in committed(s)
                      /\ SingleRelay => \A d \in committed(s) :
                           d[2] < log'[s][i][2] => \E h \in 1..(i - 1) : log'[s][h] = d
    BY <1>5
  <2>0. /\ i \in Nat /\ Len(log[s]) \in Nat /\ DOMAIN log[s] = 1..Len(log[s])
        /\ \A h \in 1..Len(log[s]) : log'[s][h] = log[s][h]
    BY <1>5, <1>6 DEF LogExtends
  <2>1. CASE i <= Len(log[s])
    <3>1. i \in DOMAIN log[s] /\ log'[s][i] = log[s][i] /\ \A h \in 1..(i - 1) : log'[s][h] = log[s][h]
      BY <2>0, <2>1
    <3> QED
      BY <3>1, ZenonT(60) DEF StreamsInv
  <2>2. CASE i > Len(log[s])
    <3>1. s[1] = svc /\ s[2] \in orders
      BY <1>2, <2>0, <2>2
    <3>2. i \in Len(log[s]) + 1 .. Len(log'[s])
      BY <2>0, <2>2
    <3>3. PICK n \in rows :
            /\ orderOf(svc, n) = s[2] /\ log'[s][i] = <<svc, n>>
            /\ \A m \in rows : orderOf(svc, m) = s[2] /\ m < n =>
                 \E h \in 1..(i - 1) : log'[s][h] = <<svc, m>>
      BY <1>3, <3>1, <3>2
    <3>4. n \in DOMAIN outbox[svc] /\ stateOf(svc, n) \in {"unpublished", "published"}
      BY DEF sendable
    <3>5. log'[s][i] \in committed(s)
      BY <3>1, <3>3, <3>4, CommittedRows
    <3>6. ASSUME SingleRelay, NEW d \in committed(s), d[2] < n
          PROVE  \E h \in 1..(i - 1) : log'[s][h] = d
      <4>1. PICK m \in DOMAIN outbox[svc] :
              /\ d = <<svc, m>> /\ orderOf(svc, m) = s[2]
              /\ stateOf(svc, m) \in {"unpublished", "published"}
        BY <3>1, CommittedRows
      <4>2. m < n
        BY <3>6, <4>1
      <4>3. m \in rows \/ stateOf(svc, m) = "published"
        BY <3>3, <3>6, <4>1, <4>2 DEF sendable
      <4>4. CASE stateOf(svc, m) = "published"
        <5>1. onStream(svc, m)
          BY <4>1, <4>4 DEF StreamsInv
        <5>2. PICK h \in DOMAIN log[s] : log[s][h] = <<svc, m>>
          BY <3>1, <4>1, <5>1, StreamParts DEF onStream
        <5>3. h \in 1..(i - 1) /\ log'[s][h] = log[s][h]
          BY <2>0, <2>2, <5>2
        <5> QED
          BY <4>1, <5>2, <5>3
      <4>5. CASE m \in rows
        BY <3>3, <4>1, <4>2, <4>5
      <4> QED
        BY <4>3, <4>4, <4>5
    <3> QED
      BY <3>3, <3>5, <3>6
  <2> QED
    BY <2>0, <2>1, <2>2
<1>10. (\A s \in Stream : committed(s)' = committed(s)) /\ \A v, n : stateOf(v, n)' = stateOf(v, n)
  BY DEF committed, eventsOf, rowsOf, stateOf
<1> QED
  BY <1>4, <1>6, <1>7, <1>8, <1>9, <1>10 DEF StreamsInv, LogTyped, FactRecord


-----------------------------------------------------------------------------
(* What a step does to the outbox.                                         *)

OutboxTyped == outbox \in [Service -> Seq([order : Order, state : RowState])]

(* Rows keep their place and their order, new ones come last; what is      *)
(* committed stays so, what is stamped or gone stays that.                 *)
OutboxMovesOn == \A v \in Service :
  /\ DOMAIN outbox[v] \subseteq DOMAIN outbox'[v]
  /\ \A n \in DOMAIN outbox[v] :
       /\ orderOf(v, n)' = orderOf(v, n)
       /\ stateOf(v, n) \in {"unpublished", "published"} =>
            stateOf(v, n)' \in {"unpublished", "published"}
       /\ stateOf(v, n) \in {"published", "gone"} => stateOf(v, n)' = stateOf(v, n)
  /\ \A n \in DOMAIN outbox'[v] \ DOMAIN outbox[v], m \in DOMAIN outbox[v] : m < n

LEMMA SendableStays ==
  ASSUME OutboxTyped, OutboxTyped', OutboxMovesOn, NEW svc \in Service, NEW rows, sendable(svc, rows)
  PROVE  sendable(svc, rows)'
<1>1. rows \subseteq DOMAIN outbox'[svc] /\ rows \subseteq DOMAIN outbox[svc]
  BY DEF sendable, OutboxMovesOn
<1>2. \A n \in rows : stateOf(svc, n)' \in {"unpublished", "published"}
  BY <1>1 DEF sendable, OutboxMovesOn
<1>3. ASSUME SingleRelay, NEW n \in rows, NEW m \in DOMAIN outbox'[svc], m < n,
             orderOf(svc, m)' = orderOf(svc, n)'
      PROVE  m \in rows \/ stateOf(svc, m)' \in {"published", "gone"}
  <2>1. n \in DOMAIN outbox[svc] /\ n \in Nat /\ m \in Nat
    BY <1>1, ElementOf DEF OutboxTyped
  <2>2. m \in DOMAIN outbox[svc]
    <3>1. m \notin DOMAIN outbox[svc] => n < m
      BY <2>1 DEF OutboxMovesOn
    <3> QED
      BY <1>3, <2>1, <3>1
  <2>3. orderOf(svc, m) = orderOf(svc, n)
    BY <1>3, <2>1, <2>2 DEF OutboxMovesOn
  <2>4. m \in rows \/ stateOf(svc, m) \in {"published", "gone"}
    BY <1>3, <2>2, <2>3 DEF sendable
  <2> QED
    BY <2>2, <2>4 DEF OutboxMovesOn
<1> QED
  BY <1>1, <1>2, <1>3 DEF sendable

LEMMA CycleStays ==
  ASSUME OutboxInv, OutboxInv', CycleInv, OutboxMovesOn, UNCHANGED <<batch, stage, flight, log>>
  PROVE  CycleInv'
<1>1. OutboxTyped /\ OutboxTyped'
  BY DEF OutboxInv, OutboxTyped
<1>2. \A v \in Service, i \in Instance : sendable(v, batch[v][i])'
  <2> TAKE v \in Service, i \in Instance
  <2>1. sendable(v, batch[v][i])
    BY DEF CycleInv
  <2>2. batch'[v][i] = batch[v][i]
    OBVIOUS
  <2> QED
    BY <1>1, <2>1, <2>2, SendableStays DEF sendable
<1>3. \A f \in flight' : f \in Service \X SUBSET Nat /\ sendable(f[1], f[2])'
  BY <1>1, SendableStays DEF CycleInv
<1>4. \A v \in Service, i \in Instance :
        stage[v][i] = "acknowledged" => \A n \in batch[v][i] : onStream(v, n)'
  <2> SUFFICES ASSUME NEW v \in Service, NEW i \in Instance, stage[v][i] = "acknowledged",
                      NEW n \in batch[v][i]
               PROVE  onStream(v, n)'
    OBVIOUS
  <2>1. onStream(v, n) /\ n \in DOMAIN outbox[v]
    BY DEF CycleInv, sendable
  <2>2. orderOf(v, n)' = orderOf(v, n)
    BY <2>1 DEF OutboxMovesOn
  <2> QED
    BY <2>1, <2>2 DEF onStream
<1> QED
  BY <1>2, <1>3, <1>4 DEF CycleInv

LEMMA StreamsStay ==
  ASSUME OutboxInv, OutboxInv', StreamsInv, OutboxMovesOn, UNCHANGED log,
         \A v \in Service : \A n \in DOMAIN outbox'[v] :
           stateOf(v, n)' = "published" => n \in DOMAIN outbox[v] /\ onStream(v, n),
         \A s \in Stream :
           /\ committed(s) \subseteq committed(s)'
           /\ \A d \in committed(s)' \ committed(s), e \in committed(s) : e[2] < d[2],
         \A s \in Stream : \A d \in committed(s)' : d[2] \in Nat
  PROVE  StreamsInv'
<1>1. \A v \in Service : \A n \in DOMAIN outbox'[v] :
        stateOf(v, n)' = "published" => onStream(v, n)'
  <2> SUFFICES ASSUME NEW v \in Service, NEW n \in DOMAIN outbox'[v], stateOf(v, n)' = "published"
               PROVE  onStream(v, n)'
    OBVIOUS
  <2>1. onStream(v, n) /\ orderOf(v, n)' = orderOf(v, n)
    BY DEF OutboxMovesOn
  <2> QED
    BY <2>1 DEF onStream
<1>2. ASSUME NEW s \in Stream, NEW i \in DOMAIN log[s], log[s][i] # Foreign
      PROVE  /\ log[s][i] \in committed(s)'
             /\ SingleRelay => \A d \in committed(s)' :
                  d[2] < log[s][i][2] => \E h \in 1..(i - 1) : log[s][h] = d
  <2>1. /\ log[s][i] \in committed(s)
        /\ SingleRelay => \A d \in committed(s) :
             d[2] < log[s][i][2] => \E h \in 1..(i - 1) : log[s][h] = d
    BY <1>2 DEF StreamsInv
  <2>2. log[s][i] \in committed(s)'
    BY <2>1
  <2>3. ASSUME NEW d \in committed(s)', d[2] < log[s][i][2]
        PROVE  d \in committed(s)
    <3>1. d \notin committed(s) => log[s][i][2] < d[2]
      BY <2>1
    <3>2. d[2] \in Nat /\ log[s][i][2] \in Nat
      BY <2>2
    <3> QED
      BY <2>3, <3>1, <3>2
  <2> QED
    BY <2>1, <2>2, <2>3
<1> QED
  BY <1>1, <1>2 DEF StreamsInv

LEMMA CommittedTyped ==
  ASSUME OutboxTyped
  PROVE  \A s \in Stream : \A d \in committed(s) : d \in FactRecord /\ d[2] \in Nat
<1> TAKE s \in Stream
<1> TAKE d \in committed(s)
<1>1. PICK n \in DOMAIN outbox[s[1]] : d = <<s[1], n>>
  BY CommittedRows
<1>2. n \in Nat /\ s[1] \in Service
  BY StreamParts, RowTyped DEF OutboxTyped
<1> QED
  BY <1>1, <1>2 DEF FactRecord

LEMMA SeqOfElements ==
  ASSUME NEW T, NEW L \in Nat, NEW f, f = [n \in 1..L |-> f[n]], \A n \in 1..L : f[n] \in T
  PROVE  f \in Seq(T)
OBVIOUS

(* Changing the state of some rows.                                        *)
LEMMA SetRowsEffect ==
  ASSUME OutboxTyped, NEW svc \in Service, NEW rows, NEW st \in RowState, setRows(svc, rows, st)
  PROVE  /\ OutboxTyped'
         /\ \A v \in Service : DOMAIN outbox'[v] = DOMAIN outbox[v]
         /\ \A v \in Service : \A n \in DOMAIN outbox[v] :
              /\ orderOf(v, n)' = orderOf(v, n)
              /\ stateOf(v, n)' = IF v = svc /\ n \in rows THEN st ELSE stateOf(v, n)
<1> DEFINE T == [order : Order, state : RowState]
           new == [n \in DOMAIN outbox[svc] |->
                     IF n \in rows THEN [outbox[svc][n] EXCEPT !.state = st] ELSE outbox[svc][n]]
<1>1. outbox' = [outbox EXCEPT ![svc] = new]
  BY DEF setRows
<1>2. outbox \in [Service -> Seq(T)]
  BY DEF OutboxTyped
<1>3. \A n \in DOMAIN outbox[svc] : outbox[svc][n] \in T
  BY <1>2, ElementOf
<1>4. \A n \in DOMAIN outbox[svc] :
        /\ new[n] \in T /\ new[n].order = outbox[svc][n].order
        /\ new[n].state = IF n \in rows THEN st ELSE outbox[svc][n].state
  BY <1>3
<1>5. new \in Seq(T) /\ DOMAIN new = DOMAIN outbox[svc]
  <2>1. DOMAIN outbox[svc] = 1..Len(outbox[svc]) /\ Len(outbox[svc]) \in Nat
    BY <1>2
  <2>2. DOMAIN new = DOMAIN outbox[svc]
    OBVIOUS
  <2>3. new = [n \in 1..Len(outbox[svc]) |-> new[n]]
    BY <2>1, <2>2
  <2>4. \A n \in 1..Len(outbox[svc]) : new[n] \in T
    BY <1>4, <2>1
  <2> HIDE DEF new, T
  <2> QED
    BY <2>1, <2>2, <2>3, <2>4, SeqOfElements
<1> HIDE DEF new, T
<1>6. outbox'[svc] = new /\ \A v \in Service : v # svc => outbox'[v] = outbox[v]
  BY <1>1, <1>2
<1>7. outbox' \in [Service -> Seq(T)]
  BY <1>1, <1>2, <1>5
<1> QED
  BY <1>4, <1>5, <1>6, <1>7 DEF orderOf, stateOf, OutboxTyped, T

(* The rows of a transaction come last, and are open.                      *)
LEMMA RecordEffect ==
  ASSUME OutboxAssumption, OutboxTyped, NEW s \in Stream, work[s] \in Nat, Record(s)
  PROVE  LET n == Len(outbox[s[1]])
             k == Len(Emits[s][work[s] + 1])
         IN
         /\ OutboxTyped'
         /\ n \in Nat /\ k \in Nat
         /\ DOMAIN outbox[s[1]] = 1..n
         /\ DOMAIN outbox'[s[1]] = 1..(n + k)
         /\ \A v \in Service : v # s[1] => DOMAIN outbox'[v] = DOMAIN outbox[v]
         /\ \A v \in Service : \A m \in DOMAIN outbox[v] :
              orderOf(v, m)' = orderOf(v, m) /\ stateOf(v, m)' = stateOf(v, m)
         /\ \A m \in n + 1 .. n + k :
              orderOf(s[1], m)' = s[2] /\ stateOf(s[1], m)' = "open"
<1> DEFINE T == [order : Order, state : RowState]
           old == outbox[s[1]]
           n == Len(old)
           k == Len(Emits[s][work[s] + 1])
           add == newRows(s)
<1>1. s[1] \in Service /\ s[2] \in Order
  BY StreamParts
<1>2. k \in Nat
  <2>1. Emits[s] \in Seq(Seq([type : STRING, fields : SUBSET STRING]))
    BY DEF OutboxAssumption
  <2>2. work[s] + 1 \in DOMAIN Emits[s]
    BY <2>1 DEF Record
  <2>3. Emits[s][work[s] + 1] \in Seq([type : STRING, fields : SUBSET STRING])
    BY <2>1, <2>2, ElementOf
  <2> QED
    BY <2>3
<1>3. old \in Seq(T) /\ outbox \in [Service -> Seq(T)] /\ n \in Nat /\ DOMAIN old = 1..n
  <2>1. outbox \in [Service -> Seq(T)]
    BY DEF OutboxTyped
  <2> HIDE DEF T
  <2>2. old \in Seq(T)
    BY <1>1, <2>1
  <2> HIDE DEF old
  <2> QED
    BY <2>1, <2>2
<1>4. add \in Seq(T) /\ Len(add) = k /\ \A m \in 1..k : add[m] = [order |-> s[2], state |-> "open"]
  <2>1. add = [m \in 1..k |-> [order |-> s[2], state |-> "open"]]
    BY DEF newRows
  <2>2. [order |-> s[2], state |-> "open"] \in T
    BY <1>1 DEF RowState
  <2> HIDE DEF add, k, T
  <2> QED
    BY <1>2, <2>1, <2>2
<1>5. outbox' = [outbox EXCEPT ![s[1]] = old \o add]
  BY DEF Record
<1> HIDE DEF T, add
<1>6. outbox'[s[1]] = old \o add /\ \A v \in Service : v # s[1] => outbox'[v] = outbox[v]
  BY <1>1, <1>3, <1>5
<1>7. /\ old \o add \in Seq(T) /\ Len(old \o add) = n + k
      /\ \A i \in 1..n : (old \o add)[i] = old[i]
      /\ \A i \in 1..k : (old \o add)[n + i] = add[i]
  <2> HIDE DEF old, k
  <2>1. old \in Seq(T) /\ add \in Seq(T) /\ Len(add) = k
    BY <1>3, <1>4
  <2>2. /\ old \o add \in Seq(T)
        /\ Len(old \o add) = Len(old) + Len(add)
        /\ \A i \in 1..Len(old) : (old \o add)[i] = old[i]
        /\ \A i \in 1..Len(add) : (old \o add)[Len(old) + i] = add[i]
    BY ONLY <2>1
  <2> QED
    BY ONLY <2>1, <2>2
<1>8. OutboxTyped'
  <2>1. outbox' \in [Service -> Seq(T)]
    BY <1>3, <1>5, <1>7
  <2> QED
    BY <2>1 DEF OutboxTyped, T
<1>9. DOMAIN outbox'[s[1]] = 1..(n + k)
  <2> HIDE DEF n, k
  <2> QED
    BY <1>6, <1>7
<1>10. \A v \in Service : \A m \in DOMAIN outbox[v] : outbox'[v][m] = outbox[v][m]
  BY <1>3, <1>6, <1>7
<1>11. \A m \in n + 1 .. n + k : outbox'[s[1]][m] = [order |-> s[2], state |-> "open"]
  <2> HIDE DEF n, k, old
  <2> TAKE m \in n + 1 .. n + k
  <2>1. m - n \in 1..k /\ m = n + (m - n)
    BY <1>2, <1>3
  <2> QED
    BY <1>4, <1>6, <1>7, <2>1
<1>12. /\ \A v \in Service : v # s[1] => DOMAIN outbox'[v] = DOMAIN outbox[v]
       /\ \A v \in Service : \A m \in DOMAIN outbox[v] :
            orderOf(v, m)' = orderOf(v, m) /\ stateOf(v, m)' = stateOf(v, m)
  BY <1>6, <1>10 DEF orderOf, stateOf
<1>13. \A m \in n + 1 .. n + k : orderOf(s[1], m)' = s[2] /\ stateOf(s[1], m)' = "open"
  <2> HIDE DEF n, k
  <2> TAKE m \in n + 1 .. n + k
  <2>1. outbox'[s[1]][m] = [order |-> s[2], state |-> "open"]
    BY <1>11
  <2> QED
    BY <2>1 DEF orderOf, stateOf
<1> QED
  BY <1>2, <1>3, <1>8, <1>9, <1>12, <1>13

LEMMA EventsSame ==
  ASSUME NEW states,
         \A v \in Service : \A n :
           n \in DOMAIN outbox'[v] /\ stateOf(v, n)' \in states
             <=> n \in DOMAIN outbox[v] /\ stateOf(v, n) \in states,
         \A v \in Service : \A n \in DOMAIN outbox[v] : orderOf(v, n)' = orderOf(v, n)
  PROVE  \A s \in Stream : eventsOf(s, states)' = eventsOf(s, states)
BY StreamParts DEF eventsOf, rowsOf, stateOf, orderOf

-----------------------------------------------------------------------------
(* One step of a unit of work, and what the log's specification sees of it. *)

emission == [s \in Stream |-> committed(s)]
stamped == UNION {eventsOf(s, {"published"}) : s \in Stream}

LEMMA SameEvents ==
  ASSUME \A v \in Service : \A n \in DOMAIN outbox[v] : orderOf(v, n)' = orderOf(v, n),
         \A v \in Service : \A n : \A st \in {"unpublished", "published"} :
           n \in DOMAIN outbox'[v] /\ stateOf(v, n)' = st
             <=> n \in DOMAIN outbox[v] /\ stateOf(v, n) = st
  PROVE  (\A s \in Stream : committed(s)' = committed(s)) /\ UNCHANGED <<emission, stamped>>
<1>1. \A s \in Stream : eventsOf(s, {"published"})' = eventsOf(s, {"published"})
  <2>1. \A v \in Service : \A n :
          n \in DOMAIN outbox'[v] /\ stateOf(v, n)' \in {"published"}
            <=> n \in DOMAIN outbox[v] /\ stateOf(v, n) \in {"published"}
    OBVIOUS
  <2> QED
    BY ONLY <2>1, EventsSame,
      \A v \in Service : \A n \in DOMAIN outbox[v] : orderOf(v, n)' = orderOf(v, n)
<1>2. \A s \in Stream : committed(s)' = committed(s)
  <2>1. \A v \in Service : \A n :
          n \in DOMAIN outbox'[v] /\ stateOf(v, n)' \in {"unpublished", "published"}
            <=> n \in DOMAIN outbox[v] /\ stateOf(v, n) \in {"unpublished", "published"}
    OBVIOUS
  <2>2. \A s \in Stream :
          eventsOf(s, {"unpublished", "published"})' = eventsOf(s, {"unpublished", "published"})
    BY ONLY <2>1, EventsSame,
      \A v \in Service : \A n \in DOMAIN outbox[v] : orderOf(v, n)' = orderOf(v, n)
  <2> QED
    BY <2>2 DEF committed
<1> QED
  BY <1>1, <1>2 DEF emission, stamped

LEMMA RecordStep ==
  ASSUME OutboxAssumption, RelayInv, NEW s \in Stream, Record(s)
  PROVE  RelayInv' /\ UNCHANGED <<emission, log, stamped>>
<1> DEFINE n == Len(outbox[s[1]])
           k == Len(Emits[s][work[s] + 1])
<1>0. OutboxInv /\ CycleInv /\ StreamsInv
  BY DEF RelayInv
<1>1. /\ OutboxTyped /\ OutboxTyped'
      /\ n \in Nat /\ k \in Nat
      /\ DOMAIN outbox[s[1]] = 1..n
      /\ DOMAIN outbox'[s[1]] = 1..(n + k)
      /\ \A v \in Service : v # s[1] => DOMAIN outbox'[v] = DOMAIN outbox[v]
      /\ \A v \in Service : \A m \in DOMAIN outbox[v] :
           orderOf(v, m)' = orderOf(v, m) /\ stateOf(v, m)' = stateOf(v, m)
      /\ \A m \in n + 1 .. n + k :
           orderOf(s[1], m)' = s[2] /\ stateOf(s[1], m)' = "open"
  <2>1. OutboxTyped /\ work[s] \in Nat
    BY <1>0 DEF OutboxInv, OutboxTyped
  <2> QED
    BY <2>1, RecordEffect
<1>2. /\ open[s] = {} /\ work[s] < Len(Emits[s])
      /\ open' = [open EXCEPT ![s] = n + 1 .. n + k]
      /\ DOMAIN payloads' = DOMAIN payloads \union {<<s[1], q>> : q \in n + 1 .. n + k}
      /\ UNCHANGED <<log, faults, work, batch, stage, flight>>
  BY DEF Record, cycleVars
<1> HIDE DEF n, k
<1>3. s[1] \in Service /\ s[2] \in Order
  BY StreamParts
<1>4. \A m : m \in 1..(n + k) <=> m \in 1..n \/ m \in n + 1 .. n + k
  BY <1>1
<1>5. \A m \in 1..n, q \in n + 1 .. n + k : m < q
  BY <1>1
<1>6. /\ \A v \in Service : DOMAIN outbox[v] \subseteq DOMAIN outbox'[v]
      /\ \A v \in Service : \A m \in DOMAIN outbox'[v] :
           m \in DOMAIN outbox[v] \/ (v = s[1] /\ m \in n + 1 .. n + k)
  BY <1>1, <1>3, <1>4
<1>7. OutboxMovesOn
  <2>1. \A v \in Service : \A q \in DOMAIN outbox'[v] \ DOMAIN outbox[v], m \in DOMAIN outbox[v] : m < q
    BY <1>1, <1>5, <1>6
  <2> QED
    BY <1>1, <1>6, <2>1 DEF OutboxMovesOn
<1>8. \A v \in Service : \A m : \A st \in {"unpublished", "published"} :
        m \in DOMAIN outbox'[v] /\ stateOf(v, m)' = st
          <=> m \in DOMAIN outbox[v] /\ stateOf(v, m) = st
  BY <1>1, <1>6
<1>9. (\A t \in Stream : committed(t)' = committed(t)) /\ UNCHANGED <<emission, stamped>>
  BY <1>1, <1>8, SameEvents
<1>10. OutboxInv'
  <2>1. DOMAIN payloads' = UNION {{v} \X DOMAIN outbox'[v] : v \in Service}
    <3>1. DOMAIN payloads = UNION {{v} \X DOMAIN outbox[v] : v \in Service}
      BY <1>0 DEF OutboxInv
    <3>2. ASSUME NEW e \in DOMAIN payloads'
          PROVE  e \in UNION {{v} \X DOMAIN outbox'[v] : v \in Service}
      BY <1>1, <1>2, <1>3, <1>4, <1>6, <3>1
    <3>3. ASSUME NEW v \in Service, NEW m \in DOMAIN outbox'[v]
          PROVE  <<v, m>> \in DOMAIN payloads'
      <4>1. CASE m \in DOMAIN outbox[v]
        BY <1>2, <3>1, <4>1
      <4>2. CASE v = s[1] /\ m \in n + 1 .. n + k
        BY <1>2, <4>2
      <4> QED
        BY <1>6, <4>1, <4>2
    <3>4. DOMAIN payloads' \subseteq UNION {{v} \X DOMAIN outbox'[v] : v \in Service}
      BY ONLY <3>2
    <3>5. UNION {{v} \X DOMAIN outbox'[v] : v \in Service} \subseteq DOMAIN payloads'
      BY ONLY <3>3
    <3> QED
      BY ONLY <3>4, <3>5
  <2>2. open' \in [Stream -> SUBSET Nat] /\ work' \in [Stream -> Nat]
    BY <1>0, <1>1, <1>2 DEF OutboxInv
  <2>3. ASSUME NEW t \in Stream
        PROVE  /\ work'[t] <= Len(Emits[t])
               /\ open'[t] # {} => work'[t] < Len(Emits[t])
               /\ open'[t] = {m \in rowsOf(t[1], t[2])' : stateOf(t[1], m)' = "open"}
    <3>0. /\ work[t] <= Len(Emits[t])
          /\ open[t] # {} => work[t] < Len(Emits[t])
          /\ open[t] = {m \in rowsOf(t[1], t[2]) : stateOf(t[1], m) = "open"}
          /\ t[1] \in Service /\ t = <<t[1], t[2]>> /\ s = <<s[1], s[2]>>
          /\ open \in [Stream -> SUBSET Nat]
      BY <1>0, StreamParts DEF OutboxInv
    <3>1. open[t] = {m \in DOMAIN outbox[t[1]] :
                       orderOf(t[1], m) = t[2] /\ stateOf(t[1], m) = "open"}
      BY <3>0 DEF rowsOf, orderOf
    <3>2. open'[t] = {m \in DOMAIN outbox'[t[1]] :
                        orderOf(t[1], m)' = t[2] /\ stateOf(t[1], m)' = "open"}
      <4>1. CASE t = s
        <5>1. open'[t] = n + 1 .. n + k
          BY <1>2, <3>0, <4>1
        <5>2. \A m \in DOMAIN outbox[t[1]] : ~ (orderOf(t[1], m)' = t[2] /\ stateOf(t[1], m)' = "open")
          BY <1>1, <1>2, <1>3, <3>1, <4>1
        <5>3. \A m \in n + 1 .. n + k : /\ m \in DOMAIN outbox'[t[1]]
                                        /\ orderOf(t[1], m)' = t[2] /\ stateOf(t[1], m)' = "open"
          BY <1>1, <1>4, <4>1
        <5> QED
          BY <1>3, <1>6, <4>1, <5>1, <5>2, <5>3
      <4>2. CASE t # s
        <5>1. open'[t] = open[t]
          BY <1>2, <3>0, <4>2
        <5>2. \A m \in n + 1 .. n + k : t[1] = s[1] => orderOf(t[1], m)' # t[2]
          BY <1>1, <3>0, <4>2
        <5> QED
          BY <1>1, <1>6, <3>0, <3>1, <5>1, <5>2
      <4> QED
        BY <4>1, <4>2
    <3>3. open'[t] # {} => work[t] < Len(Emits[t])
      BY <1>2, <3>0
    <3>4. {m \in rowsOf(t[1], t[2])' : stateOf(t[1], m)' = "open"} =
            {m \in DOMAIN outbox'[t[1]] : orderOf(t[1], m)' = t[2] /\ stateOf(t[1], m)' = "open"}
      BY DEF rowsOf, orderOf
    <3> QED
      BY <1>2, <3>0, <3>2, <3>3, <3>4
  <2>4. ASSUME NEW v \in Service, NEW m \in DOMAIN outbox'[v], NEW q \in DOMAIN outbox'[v],
               orderOf(v, m)' = orderOf(v, q)', stateOf(v, q)' = "open", stateOf(v, m)' # "open"
        PROVE  m < q
    <3>1. m \in DOMAIN outbox[v]
      BY <1>1, <1>6, <2>4
    <3>2. CASE q \in DOMAIN outbox[v]
      BY <1>0, <1>1, <2>4, <3>1, <3>2 DEF OutboxInv
    <3>3. CASE v = s[1] /\ q \in n + 1 .. n + k
      BY <1>1, <1>5, <3>1, <3>3
    <3> QED
      BY <1>6, <3>2, <3>3
  <2> QED
    BY <1>1, <2>1, <2>2, <2>3, <2>4 DEF OutboxInv, OutboxTyped
<1>11. CycleInv'
  BY <1>0, <1>2, <1>7, <1>10, CycleStays
<1>12. StreamsInv'
  <2>1. \A v \in Service : \A m \in DOMAIN outbox'[v] :
          stateOf(v, m)' = "published" => m \in DOMAIN outbox[v] /\ onStream(v, m)
    BY <1>0, <1>8 DEF StreamsInv
  <2>2. \A t \in Stream : \A d \in committed(t)' : d[2] \in Nat
    BY <1>1, <1>9, CommittedTyped
  <2> QED
    BY <1>0, <1>2, <1>7, <1>9, <1>10, <2>1, <2>2, StreamsStay
<1> QED
  BY <1>2, <1>9, <1>10, <1>11, <1>12 DEF RelayInv

(* The end of a transaction: its rows are committed or gone.               *)
LEMMA CloseStep ==
  ASSUME RelayInv, NEW s \in Stream, NEW st \in {"unpublished", "gone"},
         setRows(s[1], open[s], st), open' = [open EXCEPT ![s] = {}],
         work' \in [Stream -> Nat], \A t \in Stream : work'[t] <= Len(Emits[t]),
         \A t \in Stream \ {s} : work'[t] = work[t],
         UNCHANGED <<log, payloads, batch, stage, flight>>, faults' \in 0..MaxFaults
  PROVE  /\ RelayInv' /\ UNCHANGED stamped
         /\ \A t \in Stream : committed(t)' =
              IF t = s /\ st = "unpublished"
              THEN committed(t) \union {<<s[1], n>> : n \in open[s]} ELSE committed(t)
         /\ \A d \in committed(s), n \in open[s] : d[2] < n
<1>0. OutboxInv /\ CycleInv /\ StreamsInv /\ OutboxTyped /\ s[1] \in Service /\ s[2] \in Order
  BY StreamParts DEF RelayInv, OutboxInv, OutboxTyped
<1>1. /\ OutboxTyped'
      /\ \A v \in Service : DOMAIN outbox'[v] = DOMAIN outbox[v]
      /\ \A v \in Service : \A n \in DOMAIN outbox[v] :
           /\ orderOf(v, n)' = orderOf(v, n)
           /\ stateOf(v, n)' = IF v = s[1] /\ n \in open[s] THEN st ELSE stateOf(v, n)
  <2>1. st \in RowState
    BY DEF RowState
  <2> QED
    BY <1>0, <2>1, SetRowsEffect
<1>2. /\ open \in [Stream -> SUBSET Nat]
      /\ \A t \in Stream : open[t] = {n \in DOMAIN outbox[t[1]] :
                                        orderOf(t[1], n) = t[2] /\ stateOf(t[1], n) = "open"}
  BY <1>0 DEF OutboxInv, rowsOf, orderOf
<1>3. \A t \in Stream : t # s /\ t[1] = s[1] => t[2] # s[2]
  BY StreamParts
<1>4. OutboxMovesOn
  <2>1. \A v \in Service : \A n \in DOMAIN outbox[v] :
          v = s[1] /\ n \in open[s] => stateOf(v, n) = "open"
    BY <1>2
  <2> QED
    BY <1>1, <2>1 DEF OutboxMovesOn
<1>5. OutboxInv'
  <2>1. DOMAIN payloads' = UNION {{v} \X DOMAIN outbox'[v] : v \in Service}
    <3>1. {{v} \X DOMAIN outbox'[v] : v \in Service} = {{v} \X DOMAIN outbox[v] : v \in Service}
      BY <1>1
    <3> QED
      BY <1>0, <3>1 DEF OutboxInv
  <2>2. open' \in [Stream -> SUBSET Nat]
    BY <1>2
  <2>3. ASSUME NEW t \in Stream
        PROVE  /\ open'[t] # {} => work'[t] < Len(Emits[t])
               /\ open'[t] = {m \in rowsOf(t[1], t[2])' : stateOf(t[1], m)' = "open"}
    <3>1. {m \in rowsOf(t[1], t[2])' : stateOf(t[1], m)' = "open"} =
            {m \in DOMAIN outbox'[t[1]] : orderOf(t[1], m)' = t[2] /\ stateOf(t[1], m)' = "open"}
      BY DEF rowsOf, orderOf
    <3>2. t[1] \in Service
      BY StreamParts
    <3>3. CASE t = s
      <4>1. open'[t] = {}
        BY <1>2, <3>3
      <4>2. ASSUME NEW m \in DOMAIN outbox'[t[1]], orderOf(t[1], m)' = t[2]
            PROVE  stateOf(t[1], m)' # "open"
        <5>1. m \in DOMAIN outbox[t[1]] /\ orderOf(t[1], m) = t[2]
          BY <1>1, <3>2, <4>2
        <5>2. m \in open[s] \/ stateOf(t[1], m) # "open"
          BY <1>2, <3>3, <5>1
        <5> QED
          BY <1>1, <3>2, <3>3, <5>1, <5>2
      <4> QED
        BY <3>1, <4>1, <4>2
    <3>4. CASE t # s
      <4>1. open'[t] = open[t] /\ work'[t] = work[t]
        BY <1>2, <3>4
      <4>2. ASSUME NEW m \in DOMAIN outbox[t[1]], orderOf(t[1], m) = t[2]
            PROVE  stateOf(t[1], m)' = stateOf(t[1], m)
        <5>1. t[1] = s[1] => m \notin open[s]
          BY <1>2, <1>3, <3>4, <4>2
        <5> QED
          BY <1>1, <3>2, <5>1
      <4>3. {m \in DOMAIN outbox'[t[1]] : orderOf(t[1], m)' = t[2] /\ stateOf(t[1], m)' = "open"} =
              {m \in DOMAIN outbox[t[1]] : orderOf(t[1], m) = t[2] /\ stateOf(t[1], m) = "open"}
        BY <1>1, <3>2, <4>2
      <4>4. open[t] # {} => work[t] < Len(Emits[t])
        BY <1>0 DEF OutboxInv
      <4> QED
        BY <1>2, <3>1, <4>1, <4>3, <4>4
    <3> QED
      BY <3>3, <3>4
  <2>4. ASSUME NEW v \in Service, NEW m \in DOMAIN outbox'[v], NEW q \in DOMAIN outbox'[v],
               orderOf(v, m)' = orderOf(v, q)', stateOf(v, q)' = "open", stateOf(v, m)' # "open"
        PROVE  m < q
    <3>1. /\ m \in DOMAIN outbox[v] /\ q \in DOMAIN outbox[v]
          /\ orderOf(v, m) = orderOf(v, q) /\ stateOf(v, q) = "open"
          /\ ~ (v = s[1] /\ q \in open[s])
      BY <1>1, <2>4
    <3>2. ~ (v = s[1] /\ m \in open[s])
      BY <1>2, <3>1
    <3>3. stateOf(v, m) # "open"
      BY <1>1, <2>4, <3>1, <3>2
    <3> QED
      BY <1>0, <3>1, <3>3 DEF OutboxInv
  <2> QED
    BY <1>1, <2>1, <2>2, <2>3, <2>4 DEF OutboxInv, OutboxTyped
<1>6. CycleInv'
  BY <1>0, <1>4, <1>5, CycleStays
<1>7. \A t \in Stream : committed(t)' =
        {<<t[1], n>> : n \in {m \in DOMAIN outbox'[t[1]] :
           orderOf(t[1], m)' = t[2] /\ stateOf(t[1], m)' \in {"unpublished", "published"}}}
  BY DEF committed, eventsOf, rowsOf, orderOf, stateOf
<1>8. \A t \in Stream : committed(t)' =
        IF t = s /\ st = "unpublished"
        THEN committed(t) \union {<<s[1], n>> : n \in open[s]} ELSE committed(t)
  <2> TAKE t \in Stream
  <2>1. t[1] \in Service
    BY StreamParts
  <2>2. CASE t = s /\ st = "unpublished"
    <3>1. \A m \in DOMAIN outbox[t[1]] : orderOf(t[1], m) = t[2] =>
            (stateOf(t[1], m)' \in {"unpublished", "published"}
               <=> m \in open[s] \/ stateOf(t[1], m) \in {"unpublished", "published"})
      BY <1>1, <2>1, <2>2
    <3>2. open[s] \subseteq DOMAIN outbox[t[1]] /\ \A m \in open[s] : orderOf(t[1], m) = t[2]
      BY <1>2, <2>2
    <3>3. {m \in DOMAIN outbox'[t[1]] :
             orderOf(t[1], m)' = t[2] /\ stateOf(t[1], m)' \in {"unpublished", "published"}} =
          {m \in DOMAIN outbox[t[1]] :
             orderOf(t[1], m) = t[2] /\ stateOf(t[1], m) \in {"unpublished", "published"}}
            \union open[s]
      BY <1>1, <2>1, <3>1, <3>2
    <3> QED
      BY <1>7, <2>2, <3>3, CommittedRows
  <2>3. CASE ~ (t = s /\ st = "unpublished")
    <3>1. ASSUME NEW m \in DOMAIN outbox[t[1]], orderOf(t[1], m) = t[2]
          PROVE  stateOf(t[1], m)' \in {"unpublished", "published"}
                   <=> stateOf(t[1], m) \in {"unpublished", "published"}
      <4>1. CASE t[1] = s[1] /\ m \in open[s]
        <5>1. stateOf(t[1], m) = "open" /\ t = s
          BY <1>2, <1>3, <3>1, <4>1
        <5>2. stateOf(t[1], m)' = "gone"
          BY <1>1, <2>1, <2>3, <4>1, <5>1
        <5> QED
          BY <5>1, <5>2
      <4>2. CASE ~ (t[1] = s[1] /\ m \in open[s])
        BY <1>1, <2>1, <4>2
      <4> QED
        BY <4>1, <4>2
    <3>2. {m \in DOMAIN outbox'[t[1]] :
             orderOf(t[1], m)' = t[2] /\ stateOf(t[1], m)' \in {"unpublished", "published"}} =
          {m \in DOMAIN outbox[t[1]] :
             orderOf(t[1], m) = t[2] /\ stateOf(t[1], m) \in {"unpublished", "published"}}
      BY <1>1, <2>1, <3>1
    <3> QED
      BY <1>7, <2>3, <3>2, CommittedRows
  <2> QED
    BY <2>2, <2>3
<1>9. \A d \in committed(s), n \in open[s] : d[2] < n
  <2> SUFFICES ASSUME NEW d \in committed(s), NEW n \in open[s] PROVE d[2] < n
    OBVIOUS
  <2>1. PICK m \in DOMAIN outbox[s[1]] : d = <<s[1], m>> /\ orderOf(s[1], m) = s[2]
                                         /\ stateOf(s[1], m) \in {"unpublished", "published"}
    BY CommittedRows
  <2>2. n \in DOMAIN outbox[s[1]] /\ orderOf(s[1], n) = s[2] /\ stateOf(s[1], n) = "open"
    BY <1>2
  <2>3. m < n
    BY <1>0, <2>1, <2>2 DEF OutboxInv
  <2> QED
    BY <2>1, <2>3
<1>10. \A v \in Service : \A n :
         n \in DOMAIN outbox'[v] /\ stateOf(v, n)' \in {"published"}
           <=> n \in DOMAIN outbox[v] /\ stateOf(v, n) \in {"published"}
  <2>1. \A n \in DOMAIN outbox[s[1]] : n \in open[s] => stateOf(s[1], n) = "open"
    BY <1>2
  <2> QED
    BY <1>1, <2>1
<1>11. \A t \in Stream : eventsOf(t, {"published"})' = eventsOf(t, {"published"})
  <2>1. \A v \in Service : \A n \in DOMAIN outbox[v] : orderOf(v, n)' = orderOf(v, n)
    BY <1>1
  <2> QED
    BY ONLY <1>10, <2>1, EventsSame
<1>12. StreamsInv'
  <2>1. \A v \in Service : \A m \in DOMAIN outbox'[v] :
          stateOf(v, m)' = "published" => m \in DOMAIN outbox[v] /\ onStream(v, m)
    BY <1>0, <1>10 DEF StreamsInv
  <2>2. \A t \in Stream : \A d \in committed(t)' : d[2] \in Nat
    <3>1. \A n \in open[s] : n \in Nat
      BY <1>2
    <3> QED
      BY <1>0, <1>8, <3>1, CommittedTyped
  <2>3. \A t \in Stream :
          /\ committed(t) \subseteq committed(t)'
          /\ \A d \in committed(t)' \ committed(t), e \in committed(t) : e[2] < d[2]
    BY <1>8, <1>9
  <2> QED
    BY <1>0, <1>4, <1>5, <2>1, <2>2, <2>3, StreamsStay
<1>13. UNCHANGED stamped
  BY <1>11 DEF stamped
<1> QED
  BY <1>5, <1>6, <1>8, <1>9, <1>12, <1>13 DEF RelayInv

LEMMA CommitStep ==
  ASSUME RelayInv, NEW s \in Stream, Commit(s)
  PROVE  RelayInv' /\ Promise!Emit
<1>0. OutboxInv /\ CycleInv /\ StreamsInv /\ faults \in 0..MaxFaults
  BY DEF RelayInv
<1>1. /\ setRows(s[1], open[s], "unpublished")
      /\ open[s] # {} /\ open' = [open EXCEPT ![s] = {}]
      /\ work' = [work EXCEPT ![s] = @ + 1]
      /\ UNCHANGED <<log, payloads, batch, stage, flight, faults>>
  BY DEF Commit, topicVars, cycleVars
<1>2. /\ work' \in [Stream -> Nat] /\ \A t \in Stream : work'[t] <= Len(Emits[t])
      /\ \A t \in Stream \ {s} : work'[t] = work[t]
  <2>1. /\ work \in [Stream -> Nat] /\ \A t \in Stream : work[t] <= Len(Emits[t])
        /\ work[s] < Len(Emits[s])
    BY <1>0, <1>1 DEF OutboxInv
  <2>2. Len(Emits[s]) \in Nat
    BY OutboxAssumption
  <2>3. work[s] \in Nat /\ work'[s] = work[s] + 1 /\ \A t \in Stream \ {s} : work'[t] = work[t]
    BY <1>1, <2>1
  <2>4. work[s] + 1 \in Nat /\ work[s] + 1 <= Len(Emits[s])
    BY <2>1, <2>2, <2>3
  <2> QED
    BY <1>1, <2>1, <2>3, <2>4
<1>3. /\ RelayInv' /\ UNCHANGED stamped
      /\ \A t \in Stream : committed(t)' =
           IF t = s /\ "unpublished" = "unpublished"
           THEN committed(t) \union {<<s[1], n>> : n \in open[s]} ELSE committed(t)
      /\ \A d \in committed(s), n \in open[s] : d[2] < n
  <2>1. faults' \in 0..MaxFaults
    BY <1>0, <1>1
  <2> QED
    BY <1>1, <1>2, <2>1, CloseStep
<1>4. /\ \A t \in Stream \ {s} : committed(t)' = committed(t)
      /\ committed(s)' = committed(s) \union {<<s[1], n>> : n \in open[s]}
  BY <1>3
<1>5. committed(s) # committed(s)'
  <2>1. PICK n \in open[s] : TRUE
    BY <1>1
  <2>2. <<s[1], n>> \notin committed(s)
    <3>1. n \in {m \in rowsOf(s[1], s[2]) : stateOf(s[1], m) = "open"}
      BY <1>0, <2>1 DEF OutboxInv
    <3> QED
      BY <3>1, CommittedRows
  <2> QED
    BY <1>4, <2>1, <2>2
<1>6. \A d \in committed(s), e \in committed(s)' \ committed(s) : d[2] < e[2]
  BY <1>3, <1>4
<1>7. UNCHANGED log /\ UNCHANGED UNION {eventsOf(t, {"published"}) : t \in Stream}
  BY <1>1, <1>3 DEF stamped
<1> QED
  BY <1>3, <1>4, <1>5, <1>6, <1>7 DEF Promise!Emit, Promise!before

LEMMA RollbackStep ==
  ASSUME OutboxAssumption, RelayInv, NEW s \in Stream, Rollback(s)
  PROVE  RelayInv' /\ UNCHANGED <<emission, log, stamped>>
<1>0. OutboxInv /\ CycleInv /\ StreamsInv /\ faults \in 0..MaxFaults
  BY DEF RelayInv
<1>1. /\ setRows(s[1], open[s], "gone") /\ open' = [open EXCEPT ![s] = {}]
      /\ UNCHANGED <<log, payloads, work, batch, stage, flight>>
      /\ faults' \in 0..MaxFaults
  BY <1>0, OutboxAssumption DEF Rollback, cycleVars, fault
<1>2. /\ work' \in [Stream -> Nat] /\ \A t \in Stream : work'[t] <= Len(Emits[t])
      /\ \A t \in Stream \ {s} : work'[t] = work[t]
  BY <1>0, <1>1 DEF OutboxInv
<1>3. /\ RelayInv' /\ UNCHANGED stamped
      /\ \A t \in Stream : committed(t)' =
           IF t = s /\ "gone" = "unpublished"
           THEN committed(t) \union {<<s[1], n>> : n \in open[s]} ELSE committed(t)
  BY <1>1, <1>2, CloseStep
<1>4. \A t \in Stream : committed(t)' = committed(t)
  BY <1>3
<1> QED
  BY <1>1, <1>3, <1>4 DEF emission

-----------------------------------------------------------------------------
(* One step of a relay.                                                    *)

(* The rows claimed are the oldest unpublished ones that no other relay    *)
(* has claimed, a batch of them.                                           *)
LEMMA ClaimableBatch ==
  ASSUME RelayInv, NEW svc \in Service, SingleRelay => locked(svc) = {}
  PROVE  sendable(svc, claimable(svc)) /\ Cardinality(claimable(svc)) <= BatchSize
<1> DEFINE U == unpublished(svc)
           C == claimable(svc)
<1>0. OutboxInv /\ OutboxTyped
  BY DEF RelayInv, OutboxInv, OutboxTyped
<1>1. /\ C = {n \in U : Cardinality({m \in U : m <= n}) <= BatchSize}
      /\ U = {n \in DOMAIN outbox[svc] :
                stateOf(svc, n) = "unpublished" /\ n \notin locked(svc)}
  BY DEF claimable, unpublished, stateOf
<1>2. U \in SUBSET Nat /\ IsFiniteSet(U) /\ C \in SUBSET U
  <2>1. DOMAIN outbox[svc] = 1..Len(outbox[svc]) /\ Len(outbox[svc]) \in Nat
    BY <1>0 DEF OutboxTyped
  <2>2. IsFiniteSet(1..Len(outbox[svc]))
    BY <2>1, FS_Interval
  <2> QED
    BY <1>1, <2>1, <2>2, FS_Subset
<1> HIDE DEF U, C
<1>3. C \in SUBSET Nat /\ IsFiniteSet(C)
  BY <1>2, FS_Subset
<1>4. ASSUME SingleRelay, NEW n \in C, NEW m \in DOMAIN outbox[svc], m < n,
             orderOf(svc, m) = orderOf(svc, n)
      PROVE  m \in C \/ stateOf(svc, m) \in {"published", "gone"}
  <2>1. n \in DOMAIN outbox[svc] /\ stateOf(svc, n) = "unpublished" /\ n \in Nat /\ m \in Nat
    BY <1>0, <1>1, <1>2, <1>4, RowTyped DEF OutboxTyped
  <2>2. stateOf(svc, m) \in RowState
    BY <1>0, <1>4, RowTyped DEF OutboxTyped
  <2>3. stateOf(svc, m) # "open"
    <3>1. stateOf(svc, m) = "open" => n < m
      BY <1>0, <1>4, <2>1 DEF OutboxInv
    <3> QED
      BY <1>4, <2>1, <3>1
  <2>4. CASE stateOf(svc, m) = "unpublished"
    <3>1. m \in U /\ n \in U
      BY <1>1, <1>2, <1>4, <2>4
    <3>2. Cardinality({k \in U : k <= m}) < Cardinality({k \in U : k <= n})
      BY <1>2, <1>4, <3>1, RankGrows
    <3>3. Cardinality({k \in U : k <= n}) <= BatchSize
      BY <1>1, <1>4
    <3>4. /\ Cardinality({k \in U : k <= m}) \in Nat
          /\ Cardinality({k \in U : k <= n}) \in Nat /\ BatchSize \in Nat
      BY <1>2, <3>1, RankBounds, FS_CardinalityType, OutboxAssumption
    <3>5. Cardinality({k \in U : k <= m}) <= BatchSize
      BY <3>2, <3>3, <3>4
    <3> QED
      BY <1>1, <3>1, <3>5
  <2> QED
    BY <2>2, <2>3, <2>4 DEF RowState
<1>5. sendable(svc, C)
  BY <1>1, <1>2, <1>4 DEF sendable
<1>6. Cardinality(C) <= BatchSize
  <2> DEFINE N == Cardinality(C)
             q == inOrder(C)
  <2>1. /\ N \in Nat
        /\ \A k \in 1..N : q[k] \in C
        /\ \A n \in C : \E k \in 1..N : q[k] = n
        /\ \A j, k \in 1..N : j < k => q[j] < q[k]
    BY <1>3, InAscendingOrder
  <2> HIDE DEF N, q
  <2>2. CASE N = 0
    BY <2>2, OutboxAssumption DEF N
  <2>3. CASE N # 0
    <3>1. N \in 1..N /\ q[N] \in C
      BY <2>1, <2>3
    <3>2. C \subseteq {m \in U : m <= q[N]}
      <4> SUFFICES ASSUME NEW n \in C PROVE n \in U /\ n <= q[N]
        OBVIOUS
      <4>1. PICK k \in 1..N : q[k] = n
        BY <2>1
      <4>2. k < N \/ k = N
        BY <2>1
      <4>3. n \in Nat /\ q[N] \in Nat
        BY <1>3, <3>1
      <4>4. n < q[N] \/ n = q[N]
        BY <2>1, <3>1, <4>1, <4>2
      <4> QED
        BY <1>2, <4>3, <4>4
    <3>3. /\ IsFiniteSet({m \in U : m <= q[N]})
          /\ Cardinality({m \in U : m <= q[N]}) <= BatchSize
      <4>1. q[N] \in U
        BY <1>2, <3>1
      <4> QED
        BY <1>1, <1>2, <3>1, <4>1, RankBounds
    <3>4. Cardinality(C) <= Cardinality({m \in U : m <= q[N]})
      BY <3>2, <3>3, FS_Subset
    <3>5. /\ Cardinality({m \in U : m <= q[N]}) \in Nat /\ Cardinality(C) \in Nat
          /\ BatchSize \in Nat
      BY <1>3, <3>3, FS_CardinalityType, OutboxAssumption
    <3> QED
      BY <3>3, <3>4, <3>5
  <2> QED
    BY <2>2, <2>3
<1> QED
  BY <1>5, <1>6 DEF C

(* What a step that leaves the outbox alone needs for the cycles: batches  *)
(* and late sends are of rows that may be sent.                            *)
LEMMA OutboxStays ==
  ASSUME RelayInv, UNCHANGED <<outbox, open, work>>, DOMAIN payloads' = DOMAIN payloads
  PROVE  /\ OutboxInv' /\ UNCHANGED <<emission, stamped>>
         /\ \A v \in Service : \A n : UNCHANGED <<stateOf(v, n), orderOf(v, n)>>
         /\ \A v \in Service : \A rows : sendable(v, rows)' = sendable(v, rows)
<1>1. OutboxInv
  BY DEF RelayInv
<1>2. \A v \in Service : \A n : UNCHANGED <<stateOf(v, n), orderOf(v, n)>>
  BY DEF stateOf, orderOf
<1>3. \A s : \A o : UNCHANGED rowsOf(s, o)
  BY DEF rowsOf
<1>4. \A s \in Stream : committed(s)' = committed(s)
                         /\ eventsOf(s, {"published"})' = eventsOf(s, {"published"})
  BY DEF committed, eventsOf, rowsOf
<1>5. OutboxInv'
  <2>1. \A s \in Stream : {n \in rowsOf(s[1], s[2]) : stateOf(s[1], n) = "open"}' =
                           {n \in rowsOf(s[1], s[2]) : stateOf(s[1], n) = "open"}
    BY DEF rowsOf, stateOf
  <2>2. \A s \in Stream :
          /\ work'[s] <= Len(Emits[s])
          /\ open'[s] # {} => work'[s] < Len(Emits[s])
          /\ open'[s] = {n \in rowsOf(s[1], s[2]) : stateOf(s[1], n) = "open"}'
    BY <1>1, <2>1 DEF OutboxInv
  <2>3. \A v \in Service : \A m, n \in DOMAIN outbox'[v] :
          /\ orderOf(v, m)' = orderOf(v, n)'
          /\ stateOf(v, n)' = "open" /\ stateOf(v, m)' # "open"
          => m < n
    BY <1>1, <1>2 DEF OutboxInv
  <2>4. /\ outbox' \in [Service -> Seq([order : Order, state : RowState])]
        /\ DOMAIN payloads' = UNION {{v} \X DOMAIN outbox'[v] : v \in Service}
        /\ open' \in [Stream -> SUBSET Nat]
        /\ work' \in [Stream -> Nat]
    <3>1. {{v} \X DOMAIN outbox'[v] : v \in Service} = {{v} \X DOMAIN outbox[v] : v \in Service}
      OBVIOUS
    <3> QED
      BY <1>1, <3>1 DEF OutboxInv
  <2> QED
    BY <2>2, <2>3, <2>4 DEF OutboxInv
<1>6. UNCHANGED <<emission, stamped>>
  BY <1>4 DEF emission, stamped
<1> QED
  BY <1>2, <1>5, <1>6 DEF sendable

(* Nothing is sent.                                                        *)
LEMMA CycleMoves ==
  ASSUME RelayInv, UNCHANGED <<outbox, open, work, payloads, log>>, faults' \in 0..MaxFaults, CycleInv'
  PROVE  RelayInv' /\ UNCHANGED <<emission, log, stamped>>
<1>1. OutboxInv' /\ UNCHANGED <<emission, stamped>>
  BY OutboxStays
<1>2. StreamsInv'
  <2>1. \A v \in Service : \A n : stateOf(v, n)' = stateOf(v, n) /\ onStream(v, n)' = onStream(v, n)
    BY DEF stateOf, orderOf, onStream
  <2>2. \A s \in Stream : committed(s)' = committed(s)
    BY DEF committed, eventsOf, rowsOf
  <2> QED
    BY <2>1, <2>2 DEF RelayInv, StreamsInv
<1> QED
  BY <1>1, <1>2 DEF RelayInv

LEMMA FaultCounted ==
  ASSUME OutboxAssumption, RelayInv, fault
  PROVE  faults' \in 0..MaxFaults
BY DEF OutboxAssumption, RelayInv, fault

LEMMA ClaimStep ==
  ASSUME RelayInv, NEW svc \in Service, NEW i \in Instance, Claim(svc, i)
  PROVE  RelayInv' /\ UNCHANGED <<emission, log, stamped>>
<1>0. CycleInv /\ faults \in 0..MaxFaults
  BY DEF RelayInv
<1>1. /\ stage[svc][i] = "idle" /\ claimable(svc) # {}
      /\ batch' = [batch EXCEPT ![svc] = [@ EXCEPT ![i] = claimable(svc)]]
      /\ stage' = [stage EXCEPT ![svc] = [@ EXCEPT ![i] = "claimed"]]
      /\ UNCHANGED <<log, payloads, faults, outbox, open, work, flight>>
  BY DEF Claim, topicVars, outboxVars
<1>2. ASSUME SingleRelay PROVE locked(svc) = {}
  <2>1. \A j \in Instance : batch[svc][j] = {}
    BY <1>0, <1>1, <1>2 DEF CycleInv, SingleRelay
  <2> QED
    BY <2>1 DEF locked
<1>3. sendable(svc, claimable(svc)) /\ Cardinality(claimable(svc)) <= BatchSize
  BY <1>2, ClaimableBatch
<1>4. claimable(svc) \subseteq Nat
  <2>1. outbox[svc] \in Seq([order : Order, state : RowState])
    BY DEF RelayInv, OutboxInv
  <2>2. \A n \in claimable(svc) : n \in DOMAIN outbox[svc]
    BY <1>3 DEF sendable
  <2> QED
    BY <2>1, <2>2, ElementOf
<1>5. \A v \in Service : \A rows : sendable(v, rows)' = sendable(v, rows)
  BY <1>1, OutboxStays
<1>6. CycleInv'
  <2>1. /\ batch' \in [Service -> [Instance -> SUBSET Nat]]
        /\ stage' \in [Service -> [Instance -> {"idle", "claimed", "acknowledged"}]]
    BY <1>0, <1>1, <1>4 DEF CycleInv
  <2>2. ASSUME NEW v \in Service, NEW j \in Instance
        PROVE  \/ v = svc /\ j = i /\ batch'[v][j] = claimable(svc) /\ stage'[v][j] = "claimed"
               \/ batch'[v][j] = batch[v][j] /\ stage'[v][j] = stage[v][j]
    BY <1>0, <1>1 DEF CycleInv
  <2>3. ASSUME NEW v \in Service, NEW j \in Instance
        PROVE  /\ stage'[v][j] = "idle" <=> batch'[v][j] = {}
               /\ sendable(v, batch'[v][j])
               /\ Cardinality(batch'[v][j]) <= BatchSize
               /\ stage'[v][j] = "acknowledged" => \A n \in batch'[v][j] : onStream(v, n)
    BY <1>0, <1>1, <1>3, <2>2 DEF CycleInv
  <2>4. \A v \in Service : \A n : onStream(v, n)' = onStream(v, n)
    BY <1>1 DEF onStream, orderOf
  <2>5. \A v \in Service, j \in Instance : sendable(v, batch[v][j])'
    <3> TAKE v \in Service, j \in Instance
    <3>1. sendable(v, batch'[v][j])
      BY <2>3
    <3> QED
      BY <1>1, <3>1 DEF sendable, stateOf, orderOf
  <2>6. \A f \in flight' : f \in Service \X SUBSET Nat /\ sendable(f[1], f[2])'
    BY <1>0, <1>1, <1>5 DEF CycleInv
  <2> QED
    BY <2>1, <2>3, <2>4, <2>5, <2>6 DEF CycleInv
<1> QED
  BY <1>0, <1>1, <1>6, CycleMoves

(* The cycle ends without a stamp: its rows are for the next, the send it  *)
(* had begun may still come.                                               *)
LEMMA CycleSettles ==
  ASSUME RelayInv, NEW svc \in Service, NEW i \in Instance, settle(svc, i),
         UNCHANGED <<outbox, open, work>>, DOMAIN payloads' = DOMAIN payloads,
         flight' \subseteq flight \union {<<svc, batch[svc][i]>>},
         \A v \in Service : \A n \in DOMAIN outbox[v] : onStream(v, n) => onStream(v, n)'
  PROVE  CycleInv'
<1>0. CycleInv
  BY DEF RelayInv
<1>1. /\ batch' = [batch EXCEPT ![svc] = [@ EXCEPT ![i] = {}]]
      /\ stage' = [stage EXCEPT ![svc] = [@ EXCEPT ![i] = "idle"]]
  BY DEF settle
<1>2. /\ batch' \in [Service -> [Instance -> SUBSET Nat]]
      /\ stage' \in [Service -> [Instance -> {"idle", "claimed", "acknowledged"}]]
  BY <1>0, <1>1 DEF CycleInv
<1>3. ASSUME NEW v \in Service, NEW j \in Instance
      PROVE  \/ batch'[v][j] = {} /\ stage'[v][j] = "idle"
             \/ batch'[v][j] = batch[v][j] /\ stage'[v][j] = stage[v][j]
  BY <1>0, <1>1 DEF CycleInv
<1>4. \A v \in Service : sendable(v, {}) /\ Cardinality({}) <= BatchSize
  BY FS_EmptySet, OutboxAssumption DEF sendable
<1>5. ASSUME NEW v \in Service, NEW j \in Instance
      PROVE  /\ stage'[v][j] = "idle" <=> batch'[v][j] = {}
             /\ sendable(v, batch'[v][j])
             /\ Cardinality(batch'[v][j]) <= BatchSize
             /\ stage'[v][j] = "acknowledged" => \A n \in batch'[v][j] : onStream(v, n)'
  <2>1. /\ sendable(v, batch[v][j]) /\ Cardinality(batch[v][j]) <= BatchSize
        /\ stage[v][j] = "idle" <=> batch[v][j] = {}
        /\ stage[v][j] = "acknowledged" => \A n \in batch[v][j] : onStream(v, n)
    BY <1>0 DEF CycleInv
  <2>2. \A n \in batch[v][j] : n \in DOMAIN outbox[v]
    BY <2>1 DEF sendable
  <2>3. stage[v][j] = "acknowledged" => \A n \in batch[v][j] : onStream(v, n)'
    BY <2>1, <2>2
  <2>4. CASE batch'[v][j] = {} /\ stage'[v][j] = "idle"
    BY <1>4, <2>4
  <2>5. CASE batch'[v][j] = batch[v][j] /\ stage'[v][j] = stage[v][j]
    BY <2>1, <2>3, <2>5
  <2> QED
    BY <1>3, <2>4, <2>5
<1>6. \A v \in Service, j \in Instance : sendable(v, batch[v][j])'
  <2> TAKE v \in Service, j \in Instance
  <2>1. sendable(v, batch'[v][j])
    BY <1>5
  <2> QED
    BY <2>1 DEF sendable, stateOf, orderOf
<1>7. \A f \in flight' : f \in Service \X SUBSET Nat /\ sendable(f[1], f[2])
  <2>1. sendable(svc, batch[svc][i]) /\ batch[svc][i] \in SUBSET Nat
    BY <1>0 DEF CycleInv
  <2> QED
    BY <1>0, <2>1 DEF CycleInv
<1>8. \A f \in flight' : f \in Service \X SUBSET Nat /\ sendable(f[1], f[2])'
  <2> TAKE f \in flight'
  <2>1. f \in Service \X SUBSET Nat /\ sendable(f[1], f[2])
    BY <1>7
  <2>2. f[1] \in Service
    BY <2>1
  <2> QED
    BY <2>1, <2>2, OutboxStays
<1> QED
  BY <1>2, <1>5, <1>6, <1>8 DEF CycleInv

LEMMA SettleStep ==
  ASSUME RelayInv, NEW svc \in Service, NEW i \in Instance,
         PublishTimesOut(svc, i) \/ RelayCrash(svc, i)
  PROVE  RelayInv' /\ UNCHANGED <<emission, log, stamped>>
<1>1. /\ settle(svc, i) /\ fault
      /\ flight' \subseteq flight \union {<<svc, batch[svc][i]>>}
      /\ UNCHANGED <<log, payloads, outbox, open, work>>
  BY DEF PublishTimesOut, RelayCrash, outboxVars
<1>2. \A v \in Service : \A n \in DOMAIN outbox[v] : onStream(v, n) => onStream(v, n)'
  BY <1>1 DEF onStream, orderOf
<1>3. CycleInv'
  BY <1>1, <1>2, CycleSettles
<1>4. faults' \in 0..MaxFaults
  BY <1>1, FaultCounted, OutboxAssumption
<1> QED
  BY <1>1, <1>3, <1>4, CycleMoves

(* Whatever was put on the streams, they are in order: it was carried.     *)
(* The streams grow, and as FactLog wants it where one relay sends.         *)
Carried == LogExtends /\ (SingleRelay => log' = log \/ Promise!Carry)

LEMMA CarryStep ==
  ASSUME RelayInv, StreamsInv', LogExtends, UNCHANGED <<outbox, open, work>>,
         DOMAIN payloads' = DOMAIN payloads
  PROVE  /\ Carried
         /\ \A v \in Service : \A n \in DOMAIN outbox[v] : onStream(v, n) => onStream(v, n)'
<1>1. UNCHANGED <<emission, stamped>>
  BY OutboxStays
<1>2. \A s \in Stream : committed(s)' = committed(s)
  BY <1>1 DEF emission, committed, eventsOf, rowsOf
<1>3. LogTyped /\ LogTyped' /\ OutboxTyped
  BY DEF RelayInv, StreamsInv, OutboxInv, LogTyped, OutboxTyped, FactRecord
<1>4. ASSUME SingleRelay, NEW s \in Stream, NEW i \in Len(log[s]) + 1 .. Len(log'[s]),
             log'[s][i] # Foreign
      PROVE  /\ log'[s][i] \in committed(s)
             /\ \A d \in committed(s) : d[2] < log'[s][i][2] => \E h \in 1..(i - 1) : log'[s][h] = d
  <2>1. log[s] \in Seq(FactRecord \union {Foreign}) /\ log'[s] \in Seq(FactRecord \union {Foreign})
    BY <1>3 DEF LogTyped
  <2>2. i \in DOMAIN log'[s]
    BY <2>1
  <2> QED
    BY <1>2, <1>4, <2>2 DEF StreamsInv
<1>5. \A v \in Service : \A n \in DOMAIN outbox[v] : onStream(v, n) => onStream(v, n)'
  <2> SUFFICES ASSUME NEW v \in Service, NEW n \in DOMAIN outbox[v], onStream(v, n)
               PROVE  onStream(v, n)'
    OBVIOUS
  <2>1. orderOf(v, n) \in Order
    BY <1>3, RowTyped DEF OutboxTyped
  <2>2. orderOf(v, n)' = orderOf(v, n)
    BY DEF orderOf
  <2> QED
    BY <1>3, <2>1, <2>2, OnStreamStays
<1>6. SingleRelay /\ log' # log => Promise!Carry
  <2>1. UNCHANGED [s \in Stream |-> committed(s)] /\ UNCHANGED UNION {eventsOf(s, {"published"}) : s \in Stream}
    BY <1>1 DEF emission, stamped
  <2> QED
    BY <1>4, <2>1 DEF Promise!Carry, Promise!before, LogExtends
<1> QED
  BY <1>5, <1>6 DEF Carried

LEMMA SendStep ==
  ASSUME RelayInv, NEW svc \in Service, NEW rows, sendable(svc, rows),
         NEW orders \in SUBSET Order, append(svc, rows, orders),
         UNCHANGED <<outbox, open, work>>, DOMAIN payloads' = DOMAIN payloads
  PROVE  /\ OutboxInv' /\ StreamsInv'
         /\ Carried
         /\ \A v \in Service : \A n \in DOMAIN outbox[v] : onStream(v, n) => onStream(v, n)'
         /\ \A n \in rows : orderOf(svc, n) \in orders => onStream(svc, n)'
<1>1. OutboxInv /\ StreamsInv
  BY DEF RelayInv
<1>2. /\ StreamsInv' /\ LogExtends
      /\ \A n \in rows : orderOf(svc, n) \in orders => onStream(svc, n)'
  BY <1>1, AppendKeeps
<1> QED
  BY <1>2, CarryStep, OutboxStays

LEMMA PublishStep ==
  ASSUME RelayInv, NEW svc \in Service, NEW i \in Instance, Publish(svc, i)
  PROVE  RelayInv' /\ Carried
<1>0. OutboxInv /\ CycleInv /\ faults \in 0..MaxFaults
  BY DEF RelayInv
<1>1. /\ stage[svc][i] = "claimed" /\ append(svc, batch[svc][i], Order)
      /\ stage' = [stage EXCEPT ![svc] = [@ EXCEPT ![i] = "acknowledged"]]
      /\ UNCHANGED <<payloads, faults, outbox, open, work, batch, flight>>
  BY DEF Publish, publish, outboxVars
<1>2. sendable(svc, batch[svc][i])
  BY <1>0 DEF CycleInv
<1>3. /\ OutboxInv' /\ StreamsInv'
      /\ Carried
      /\ \A v \in Service : \A n \in DOMAIN outbox[v] : onStream(v, n) => onStream(v, n)'
      /\ \A n \in batch[svc][i] : orderOf(svc, n) \in Order => onStream(svc, n)'
  BY <1>1, <1>2, SendStep
<1>4. \A n \in batch[svc][i] : onStream(svc, n)'
  <2> TAKE n \in batch[svc][i]
  <2>1. n \in DOMAIN outbox[svc]
    BY <1>2 DEF sendable
  <2>2. orderOf(svc, n) \in Order
    BY <1>0, <2>1, RowTyped DEF OutboxInv
  <2> QED
    BY <1>3, <2>2
<1>5. ASSUME NEW v \in Service, NEW j \in Instance
      PROVE  /\ stage'[v][j] = "idle" <=> batch[v][j] = {}
             /\ sendable(v, batch[v][j])' /\ Cardinality(batch[v][j]) <= BatchSize
             /\ stage'[v][j] = "acknowledged" => \A n \in batch[v][j] : onStream(v, n)'
  <2>1. /\ sendable(v, batch[v][j]) /\ Cardinality(batch[v][j]) <= BatchSize
        /\ stage[v][j] = "idle" <=> batch[v][j] = {}
        /\ stage[v][j] = "acknowledged" => \A n \in batch[v][j] : onStream(v, n)
    BY <1>0 DEF CycleInv
  <2>2. sendable(v, batch[v][j])' /\ batch[v][j] \subseteq DOMAIN outbox[v]
    BY <1>1, <2>1 DEF sendable, stateOf, orderOf
  <2>3. stage[v][j] = "acknowledged" => \A n \in batch[v][j] : onStream(v, n)'
    BY <1>3, <2>1, <2>2
  <2>4. CASE v = svc /\ j = i
    <3>1. stage'[v][j] = "acknowledged"
      BY <1>0, <1>1, <2>4 DEF CycleInv
    <3> QED
      BY <1>1, <1>4, <2>1, <2>2, <2>4, <3>1
  <2>5. CASE ~ (v = svc /\ j = i)
    <3>1. stage'[v][j] = stage[v][j]
      BY <1>0, <1>1, <2>5 DEF CycleInv
    <3> QED
      BY <2>1, <2>2, <2>3, <3>1
  <2> QED
    BY <2>4, <2>5
<1>6. \A f \in flight' : f \in Service \X SUBSET Nat /\ sendable(f[1], f[2])'
  <2> TAKE f \in flight'
  <2>1. f \in Service \X SUBSET Nat /\ sendable(f[1], f[2])
    BY <1>0, <1>1 DEF CycleInv
  <2> QED
    BY <1>1, <2>1, OutboxStays
<1>7. CycleInv'
  <2>1. /\ batch' \in [Service -> [Instance -> SUBSET Nat]]
        /\ stage' \in [Service -> [Instance -> {"idle", "claimed", "acknowledged"}]]
    BY <1>0, <1>1 DEF CycleInv
  <2> QED
    BY <1>1, <1>5, <1>6, <2>1 DEF CycleInv
<1> QED
  BY <1>0, <1>1, <1>3, <1>7 DEF RelayInv

LEMMA PublishFailsStep ==
  ASSUME OutboxAssumption, RelayInv, NEW svc \in Service, NEW i \in Instance, PublishFails(svc, i)
  PROVE  RelayInv' /\ Carried
<1>1. PICK orders \in SUBSET Order : append(svc, batch[svc][i], orders)
  BY DEF PublishFails
<1>2. /\ settle(svc, i) /\ fault
      /\ UNCHANGED <<payloads, outbox, open, work, flight>>
  BY DEF PublishFails, outboxVars
<1>3. sendable(svc, batch[svc][i])
  BY DEF RelayInv, CycleInv
<1>4. /\ OutboxInv' /\ StreamsInv'
      /\ Carried
      /\ \A v \in Service : \A n \in DOMAIN outbox[v] : onStream(v, n) => onStream(v, n)'
  BY <1>1, <1>2, <1>3, SendStep
<1>5. CycleInv'
  BY <1>2, <1>4, CycleSettles
<1> QED
  BY <1>2, <1>4, <1>5, FaultCounted DEF RelayInv

(* Batches stay what they are while something else is put on the streams.  *)
LEMMA BatchesStay ==
  ASSUME RelayInv, UNCHANGED <<outbox, open, work, batch, stage>>, flight' \subseteq flight,
         DOMAIN payloads' = DOMAIN payloads,
         \A v \in Service : \A n \in DOMAIN outbox[v] : onStream(v, n) => onStream(v, n)'
  PROVE  CycleInv'
<1>0. CycleInv
  BY DEF RelayInv
<1>1. ASSUME NEW v \in Service, NEW j \in Instance
      PROVE  /\ stage[v][j] = "idle" <=> batch[v][j] = {}
             /\ sendable(v, batch[v][j])' /\ Cardinality(batch[v][j]) <= BatchSize
             /\ stage[v][j] = "acknowledged" => \A n \in batch[v][j] : onStream(v, n)'
  <2>1. sendable(v, batch[v][j])
    BY <1>0 DEF CycleInv
  <2>2. sendable(v, batch[v][j])' /\ batch[v][j] \subseteq DOMAIN outbox[v]
    BY <2>1 DEF sendable, stateOf, orderOf
  <2> QED
    BY <1>0, <2>2 DEF CycleInv
<1>2. \A f \in flight' : f \in Service \X SUBSET Nat /\ sendable(f[1], f[2])'
  <2> TAKE f \in flight'
  <2>1. f \in Service \X SUBSET Nat /\ sendable(f[1], f[2])
    BY <1>0 DEF CycleInv
  <2> QED
    BY <2>1, OutboxStays
<1> QED
  BY <1>0, <1>1, <1>2 DEF CycleInv

LEMMA LateSendStep ==
  ASSUME RelayInv, LateSend
  PROVE  RelayInv' /\ Carried
<1>1. PICK f \in flight : append(f[1], f[2], Order) /\ flight' = flight \ {f}
  BY DEF LateSend, publish
<1>2. UNCHANGED <<payloads, faults, outbox, open, work, batch, stage>>
  BY DEF LateSend, outboxVars
<1>3. f[1] \in Service /\ sendable(f[1], f[2])
  BY DEF RelayInv, CycleInv
<1>4. /\ OutboxInv' /\ StreamsInv'
      /\ Carried
      /\ \A v \in Service : \A n \in DOMAIN outbox[v] : onStream(v, n) => onStream(v, n)'
  BY <1>1, <1>2, <1>3, SendStep
<1>5. CycleInv'
  BY <1>1, <1>2, <1>4, BatchesStay
<1> QED
  BY <1>2, <1>4, <1>5 DEF RelayInv

LEMMA ForeignStep ==
  ASSUME OutboxAssumption, RelayInv, NEW svc \in Service, ForeignRecord(svc), UNCHANGED relayVars
  PROVE  RelayInv' /\ Carried
<1>1. PICK o \in Order : log' = [log EXCEPT ![<<svc, o>>] = Append(@, Foreign)]
  BY DEF ForeignRecord
<1>2. UNCHANGED <<payloads, outbox, open, work, batch, stage, flight>> /\ fault
  BY DEF ForeignRecord, relayVars, outboxVars, cycleVars
<1> DEFINE T == FactRecord \union {Foreign}
           t == <<svc, o>>
<1>3. LogTyped /\ StreamsInv /\ t \in Stream
  BY StreamParts DEF RelayInv, StreamsInv, LogTyped, FactRecord
<1>4. log \in [Stream -> Seq(T)] /\ Foreign \in T
  BY <1>3 DEF LogTyped
<1> HIDE DEF T, t
<1>5. /\ log[t] \in Seq(T) /\ Append(log[t], Foreign) \in Seq(T)
      /\ Len(log[t]) \in Nat /\ Len(Append(log[t], Foreign)) = Len(log[t]) + 1
      /\ \A i \in 1..Len(log[t]) : Append(log[t], Foreign)[i] = log[t][i]
      /\ Append(log[t], Foreign)[Len(log[t]) + 1] = Foreign
  <2>1. log[t] \in Seq(T)
    BY <1>3, <1>4
  <2> QED
    BY <1>4, <2>1
<1>6. log' = [log EXCEPT ![t] = Append(log[t], Foreign)]
  BY <1>1 DEF t
<1>7. log' \in [Stream -> Seq(T)]
  BY <1>4, <1>5, <1>6
<1>8. log'[t] = Append(log[t], Foreign) /\ \A s \in Stream \ {t} : log'[s] = log[s]
  BY <1>3, <1>4, <1>6
<1>9. \A s \in Stream : /\ Len(log[s]) \in Nat /\ DOMAIN log[s] = 1..Len(log[s])
                        /\ DOMAIN log'[s] = 1..Len(log'[s])
  <2> TAKE s \in Stream
  <2>1. log[s] \in Seq(T) /\ log'[s] \in Seq(T)
    BY <1>4, <1>7
  <2> QED
    BY <2>1
<1>10. \A s \in Stream :
         /\ Len(log'[s]) >= Len(log[s])
         /\ \A i \in 1..Len(log[s]) : log'[s][i] = log[s][i]
         /\ \A i \in 1..Len(log'[s]) : i \in 1..Len(log[s]) \/ log'[s][i] = Foreign
  <2> TAKE s \in Stream
  <2>1. CASE s = t
    <3>1. /\ Len(log'[s]) = Len(log[s]) + 1
          /\ \A i \in 1..Len(log[s]) : log'[s][i] = log[s][i]
          /\ log'[s][Len(log[s]) + 1] = Foreign /\ Len(log[s]) \in Nat
      BY <1>5, <1>8, <2>1
    <3>2. \A i \in 1..Len(log'[s]) : i \in 1..Len(log[s]) \/ i = Len(log[s]) + 1
      BY <3>1
    <3> QED
      BY <3>1, <3>2
  <2>2. CASE s # t
    BY <1>8, <1>9, <2>2
  <2> QED
    BY <2>1, <2>2
<1>11. LogExtends
  BY <1>10 DEF LogExtends
<1>12. LogTyped' /\ OutboxTyped
  BY <1>7 DEF LogTyped, T, RelayInv, OutboxInv, OutboxTyped
<1>13. \A s \in Stream : committed(s)' = committed(s)
  BY <1>2 DEF committed, eventsOf, rowsOf
<1>14. StreamsInv'
  <2>1. \A s \in Stream : \A i \in DOMAIN log'[s] : log'[s][i] # Foreign =>
          /\ log'[s][i] \in committed(s)
          /\ SingleRelay => \A d \in committed(s) :
               d[2] < log'[s][i][2] => \E h \in 1..(i - 1) : log'[s][h] = d
    <3> SUFFICES ASSUME NEW s \in Stream, NEW i \in DOMAIN log'[s], log'[s][i] # Foreign
                 PROVE  /\ log'[s][i] \in committed(s)
                        /\ SingleRelay => \A d \in committed(s) :
                             d[2] < log'[s][i][2] => \E h \in 1..(i - 1) : log'[s][h] = d
      OBVIOUS
    <3>1. i \in 1..Len(log[s]) /\ log'[s][i] = log[s][i]
      BY <1>9, <1>10
    <3>2. \A h \in 1..(i - 1) : h \in 1..Len(log[s])
      BY <1>9, <3>1
    <3>3. \A h \in 1..(i - 1) : log'[s][h] = log[s][h]
      BY <1>10, <3>2
    <3>4. i \in DOMAIN log[s] /\ log[s][i] # Foreign
      BY <1>9, <3>1
    <3>5. /\ log[s][i] \in committed(s)
          /\ SingleRelay => \A d \in committed(s) :
               d[2] < log[s][i][2] => \E h \in 1..(i - 1) : log[s][h] = d
      BY <1>3, <3>4 DEF StreamsInv
    <3> QED
      BY <3>1, <3>3, <3>5
  <2>2. \A v \in Service : \A n \in DOMAIN outbox'[v] : stateOf(v, n)' = "published" => onStream(v, n)'
    <3> SUFFICES ASSUME NEW v \in Service, NEW n \in DOMAIN outbox'[v], stateOf(v, n)' = "published"
                 PROVE  onStream(v, n)'
      OBVIOUS
    <3>1. n \in DOMAIN outbox[v] /\ stateOf(v, n) = "published" /\ orderOf(v, n)' = orderOf(v, n)
      BY <1>2 DEF stateOf, orderOf
    <3>2. onStream(v, n) /\ orderOf(v, n) \in Order
      BY <1>3, <1>12, <3>1, RowTyped DEF StreamsInv, OutboxTyped
    <3> QED
      BY <1>3, <1>11, <1>12, <3>1, <3>2, OnStreamStays
  <2> QED
    BY <1>12, <1>13, <2>1, <2>2 DEF StreamsInv, LogTyped, FactRecord
<1>15. /\ Carried
       /\ \A v \in Service : \A n \in DOMAIN outbox[v] : onStream(v, n) => onStream(v, n)'
  BY <1>2, <1>11, <1>14, CarryStep
<1>16. CycleInv' /\ OutboxInv'
  BY <1>2, <1>15, BatchesStay, OutboxStays
<1> QED
  BY <1>2, <1>11, <1>14, <1>15, <1>16, FaultCounted DEF RelayInv

LEMMA StampStep ==
  ASSUME RelayInv, NEW svc \in Service, NEW i \in Instance, Stamp(svc, i)
  PROVE  RelayInv' /\ (Promise!Settle \/ UNCHANGED <<emission, log, stamped>>)
<1> DEFINE rows == batch[svc][i]
<1>0. OutboxInv /\ CycleInv /\ StreamsInv /\ OutboxTyped
  BY DEF RelayInv, OutboxInv, OutboxTyped
<1>1. /\ setRows(svc, rows, "published") /\ settle(svc, i) /\ stage[svc][i] = "acknowledged"
      /\ UNCHANGED <<log, payloads, faults, open, work, flight>>
  BY DEF Stamp, topicVars
<1>2. /\ sendable(svc, rows) /\ \A n \in rows : onStream(svc, n)
      /\ \A n \in rows : n \in DOMAIN outbox[svc] /\ stateOf(svc, n) \in {"unpublished", "published"}
  BY <1>0, <1>1 DEF CycleInv, sendable
<1>3. /\ OutboxTyped'
      /\ \A v \in Service : DOMAIN outbox'[v] = DOMAIN outbox[v]
      /\ \A v \in Service : \A n \in DOMAIN outbox[v] :
           /\ orderOf(v, n)' = orderOf(v, n)
           /\ stateOf(v, n)' = IF v = svc /\ n \in rows THEN "published" ELSE stateOf(v, n)
  BY <1>0, <1>1, SetRowsEffect DEF RowState
<1> HIDE DEF rows
<1>4. OutboxMovesOn
  BY <1>2, <1>3 DEF OutboxMovesOn
<1>5. \A v \in Service : \A n \in DOMAIN outbox[v] :
        /\ stateOf(v, n)' = "open" <=> stateOf(v, n) = "open"
        /\ stateOf(v, n)' \in {"unpublished", "published"}
             <=> stateOf(v, n) \in {"unpublished", "published"}
  BY <1>2, <1>3
<1>6. \A v \in Service : \A n \in DOMAIN outbox[v] : orderOf(v, n)' = orderOf(v, n)
  BY <1>3
<1>7. OutboxInv'
  <2>1. DOMAIN payloads' = UNION {{v} \X DOMAIN outbox'[v] : v \in Service}
    <3>1. {{v} \X DOMAIN outbox'[v] : v \in Service} = {{v} \X DOMAIN outbox[v] : v \in Service}
      BY <1>3
    <3> QED
      BY <1>0, <1>1, <3>1 DEF OutboxInv
  <2>2. \A s \in Stream :
          /\ work'[s] <= Len(Emits[s])
          /\ open'[s] # {} => work'[s] < Len(Emits[s])
          /\ open'[s] = {n \in rowsOf(s[1], s[2]) : stateOf(s[1], n) = "open"}
    BY <1>0, <1>1 DEF OutboxInv
  <2>3. ASSUME NEW s \in Stream
        PROVE  {n \in rowsOf(s[1], s[2])' : stateOf(s[1], n)' = "open"} =
                 {n \in rowsOf(s[1], s[2]) : stateOf(s[1], n) = "open"}
    <3>1. s[1] \in Service
      BY StreamParts
    <3>2. rowsOf(s[1], s[2])' = rowsOf(s[1], s[2])
      BY <1>3, <1>6, <3>1 DEF rowsOf, orderOf
    <3>3. \A n \in rowsOf(s[1], s[2]) : stateOf(s[1], n)' = "open" <=> stateOf(s[1], n) = "open"
      BY <1>5, <3>1 DEF rowsOf
    <3> QED
      BY <3>2, <3>3
  <2>4. \A v \in Service : \A m, n \in DOMAIN outbox'[v] :
          /\ orderOf(v, m)' = orderOf(v, n)'
          /\ stateOf(v, n)' = "open" /\ stateOf(v, m)' # "open"
          => m < n
    BY <1>0, <1>3, <1>5 DEF OutboxInv
  <2>5. open' \in [Stream -> SUBSET Nat] /\ work' \in [Stream -> Nat]
    BY <1>0, <1>1 DEF OutboxInv
  <2>6. \A s \in Stream :
          open'[s] = {n \in rowsOf(s[1], s[2])' : stateOf(s[1], n)' = "open"}
    BY <2>2, <2>3
  <2> QED
    BY <1>3, <2>1, <2>2, <2>4, <2>5, <2>6 DEF OutboxInv, OutboxTyped
<1>8. \A s \in Stream :
        eventsOf(s, {"unpublished", "published"})' = eventsOf(s, {"unpublished", "published"})
  <2>1. \A v \in Service : \A n :
          n \in DOMAIN outbox'[v] /\ stateOf(v, n)' \in {"unpublished", "published"}
            <=> n \in DOMAIN outbox[v] /\ stateOf(v, n) \in {"unpublished", "published"}
    BY <1>3, <1>5
  <2> QED
    BY ONLY <1>6, <2>1, EventsSame
<1>9. \A s \in Stream : committed(s)' = committed(s)
  BY <1>8 DEF committed
<1>10. CycleInv'
  <2>1. /\ batch' = [batch EXCEPT ![svc] = [@ EXCEPT ![i] = {}]]
        /\ stage' = [stage EXCEPT ![svc] = [@ EXCEPT ![i] = "idle"]]
    BY <1>1 DEF settle
  <2>2. /\ batch' \in [Service -> [Instance -> SUBSET Nat]]
        /\ stage' \in [Service -> [Instance -> {"idle", "claimed", "acknowledged"}]]
    BY <1>0, <2>1 DEF CycleInv
  <2>3. ASSUME NEW v \in Service, NEW j \in Instance
        PROVE  \/ batch'[v][j] = {} /\ stage'[v][j] = "idle"
               \/ batch'[v][j] = batch[v][j] /\ stage'[v][j] = stage[v][j]
    BY <1>0, <2>1 DEF CycleInv
  <2>4. ASSUME NEW v \in Service, NEW j \in Instance
        PROVE  /\ stage'[v][j] = "idle" <=> batch'[v][j] = {}
               /\ sendable(v, batch[v][j])' /\ Cardinality(batch'[v][j]) <= BatchSize
               /\ stage'[v][j] = "acknowledged" => \A n \in batch'[v][j] : onStream(v, n)'
    <3>1. /\ sendable(v, batch[v][j]) /\ Cardinality(batch[v][j]) <= BatchSize
          /\ stage[v][j] = "idle" <=> batch[v][j] = {}
          /\ stage[v][j] = "acknowledged" => \A n \in batch[v][j] : onStream(v, n)
      BY <1>0 DEF CycleInv
    <3>2. \A n \in batch[v][j] : onStream(v, n) => onStream(v, n)'
      BY <1>1, <1>6, <3>1 DEF onStream, sendable
    <3>3. CASE batch'[v][j] = {} /\ stage'[v][j] = "idle"
      <4>1. sendable(v, batch[v][j])'
        BY <3>3 DEF sendable
      <4> QED
        BY <3>3, <4>1, FS_EmptySet, OutboxAssumption
    <3>4. CASE batch'[v][j] = batch[v][j] /\ stage'[v][j] = stage[v][j]
      <4>1. sendable(v, batch[v][j])'
        BY <1>0, <1>3, <1>4, <3>1, <3>4, SendableStays DEF sendable
      <4> QED
        BY <3>1, <3>2, <3>4, <4>1
    <3> QED
      BY <2>3, <3>3, <3>4
  <2>5. \A f \in flight' : f \in Service \X SUBSET Nat /\ sendable(f[1], f[2])'
    BY <1>0, <1>1, <1>3, <1>4, SendableStays DEF CycleInv
  <2> QED
    BY <2>2, <2>4, <2>5 DEF CycleInv
<1>11. StreamsInv'
  <2>1. \A v \in Service : \A n \in DOMAIN outbox'[v] :
          stateOf(v, n)' = "published" => n \in DOMAIN outbox[v] /\ onStream(v, n)
    BY <1>0, <1>2, <1>3 DEF StreamsInv
  <2>2. \A s \in Stream : \A d \in committed(s)' : d[2] \in Nat
    BY <1>0, <1>9, CommittedTyped
  <2> QED
    BY <1>0, <1>1, <1>4, <1>7, <1>9, <2>1, <2>2, StreamsStay
<1>12. RelayInv'
  BY <1>1, <1>7, <1>10, <1>11 DEF RelayInv
<1>13. UNCHANGED <<emission, log>>
  BY <1>1, <1>9 DEF emission
<1>14. \A e : e \in stamped <=> \E v \in Service : \E n \in DOMAIN outbox[v] :
         e = <<v, n>> /\ stateOf(v, n) = "published"
  <2>1. \A v \in Service : \A n \in DOMAIN outbox[v] : orderOf(v, n) \in Order
    <3> TAKE v \in Service
    <3> TAKE n \in DOMAIN outbox[v]
    <3> QED
      BY ONLY <1>0, RowTyped, v \in Service, n \in DOMAIN outbox[v] DEF OutboxTyped
  <2>2. \A e : \A s \in Stream : e \in eventsOf(s, {"published"}) <=>
          \E n \in DOMAIN outbox[s[1]] :
            e = <<s[1], n>> /\ orderOf(s[1], n) = s[2] /\ stateOf(s[1], n) = "published"
    BY DEF eventsOf, rowsOf, orderOf, stateOf
  <2>3. \A e : e \in stamped <=> \E s \in Stream : e \in eventsOf(s, {"published"})
    BY DEF stamped
  <2>4. ASSUME NEW e, NEW v \in Service, NEW n \in DOMAIN outbox[v],
               e = <<v, n>>, stateOf(v, n) = "published"
        PROVE  e \in stamped
    <3> DEFINE s == <<v, orderOf(v, n)>>
    <3>1. s \in Stream /\ s[1] = v /\ s[2] = orderOf(v, n)
      BY <2>1, StreamParts
    <3> HIDE DEF s
    <3>2. e \in eventsOf(s, {"published"})
      BY <2>2, <2>4, <3>1
    <3> QED
      BY <2>3, <3>1, <3>2
  <2>5. ASSUME NEW e \in stamped
        PROVE  \E v \in Service : \E n \in DOMAIN outbox[v] :
                 e = <<v, n>> /\ stateOf(v, n) = "published"
    <3>1. PICK s \in Stream : e \in eventsOf(s, {"published"})
      BY <2>3
    <3> QED
      BY <2>2, <3>1, StreamParts
  <2> QED
    BY <2>4, <2>5
<1>15. \A e : e \in stamped' <=> \E v \in Service : \E n \in DOMAIN outbox'[v] :
         e = <<v, n>> /\ stateOf(v, n)' = "published"
  <2>1. \A v \in Service : \A n \in DOMAIN outbox'[v] : orderOf(v, n)' \in Order
    <3> TAKE v \in Service
    <3> TAKE n \in DOMAIN outbox'[v]
    <3>1. n \in DOMAIN outbox[v] /\ orderOf(v, n)' = orderOf(v, n)
      BY <1>3
    <3> QED
      BY ONLY <1>0, <3>1, RowTyped, v \in Service DEF OutboxTyped
  <2>2. \A e : \A s \in Stream : e \in eventsOf(s, {"published"})' <=>
          \E n \in DOMAIN outbox'[s[1]] :
            e = <<s[1], n>> /\ orderOf(s[1], n)' = s[2] /\ stateOf(s[1], n)' = "published"
    BY DEF eventsOf, rowsOf, orderOf, stateOf
  <2>3. \A e : e \in stamped' <=> \E s \in Stream : e \in eventsOf(s, {"published"})'
    BY DEF stamped
  <2>4. ASSUME NEW e, NEW v \in Service, NEW n \in DOMAIN outbox'[v],
               e = <<v, n>>, stateOf(v, n)' = "published"
        PROVE  e \in stamped'
    <3>1. PICK s \in Stream : s[1] = v /\ s[2] = orderOf(v, n)'
      <4>1. <<v, orderOf(v, n)'>> \in Stream
        BY <2>1, StreamParts
      <4> QED
        BY <4>1
    <3>2. e \in eventsOf(s, {"published"})'
      BY <2>2, <2>4, <3>1
    <3> QED
      BY <2>3, <3>1, <3>2
  <2>5. ASSUME NEW e \in stamped'
        PROVE  \E v \in Service : \E n \in DOMAIN outbox'[v] :
                 e = <<v, n>> /\ stateOf(v, n)' = "published"
    <3>1. PICK s \in Stream : e \in eventsOf(s, {"published"})'
      BY <2>3
    <3> QED
      BY <2>2, <3>1, StreamParts
  <2> QED
    BY <2>4, <2>5
<1>16. stamped \subseteq stamped'
  BY <1>3, <1>14, <1>15
<1>17. ASSUME NEW e \in stamped' \ stamped
       PROVE  \E s \in Stream : e \in Promise!appeared(s) /\ e \in committed(s)
  <2>0. PICK v \in Service :
          \E n \in DOMAIN outbox[v] : e = <<v, n>> /\ stateOf(v, n)' = "published"
    BY <1>3, <1>15, <1>17
  <2>1. PICK n \in DOMAIN outbox[v] : e = <<v, n>> /\ stateOf(v, n)' = "published"
    BY <2>0
  <2>2. v = svc /\ n \in rows
    BY <1>3, <1>14, <1>17, <2>1
  <2> DEFINE s == <<svc, orderOf(svc, n)>>
  <2>3. s \in Stream /\ s[1] = svc /\ s[2] = orderOf(svc, n)
    BY <1>0, <2>1, <2>2, RowTyped, StreamParts DEF OutboxTyped
  <2>4. e \in committed(s)
    BY <1>2, <2>1, <2>2, <2>3, CommittedRows
  <2>5. PICK k \in DOMAIN log[s] : log[s][k] = e
    BY <1>2, <2>1, <2>2 DEF onStream
  <2>6. log[s] \in Seq(FactRecord \union {Foreign})
    BY <1>0, <2>3 DEF StreamsInv, FactRecord
  <2>7. e \in Promise!appeared(s)
    BY <2>5, <2>6 DEF Promise!appeared
  <2> QED
    BY <2>3, <2>4, <2>7
<1>18. stamped' # stamped => Promise!Settle
  BY <1>13, <1>16, <1>17 DEF Promise!Settle, Promise!appeared, stamped, emission
<1> QED
  BY <1>12, <1>13, <1>18

-----------------------------------------------------------------------------
(* The outbox keeps its promise.                                           *)

LEMMA RelayHolds ==
  ASSUME OutboxAssumption, Init
  PROVE  RelayInv /\ Promise!LogInit
<1>1. /\ log = [s \in Stream |-> <<>>] /\ payloads = <<>> /\ faults = 0
      /\ outbox = [svc \in Service |-> <<>>]
      /\ open = [s \in Stream |-> {}] /\ work = [s \in Stream |-> 0]
      /\ batch = [svc \in Service |-> [i \in Instance |-> {}]]
      /\ stage = [svc \in Service |-> [i \in Instance |-> "idle"]]
      /\ flight = {}
  BY DEF Init, TopicsInit, RelayInit
<1>2. \A v \in Service : outbox[v] = <<>> /\ DOMAIN outbox[v] = {}
  BY <1>1
<1>3. \A s \in Stream : s[1] \in Service /\ log[s] = <<>> /\ DOMAIN log[s] = {}
  BY <1>1, StreamParts
<1>4. \A s \in Stream : \A states : eventsOf(s, states) = {}
  BY <1>2, <1>3 DEF eventsOf, rowsOf
<1>5. OutboxInv
  <2>1. outbox \in [Service -> Seq([order : Order, state : RowState])]
    BY <1>1
  <2>2. DOMAIN payloads = UNION {{svc} \X DOMAIN outbox[svc] : svc \in Service}
    <3>1. DOMAIN payloads = {}
      BY <1>1
    <3>2. \A e : e \notin UNION {{svc} \X DOMAIN outbox[svc] : svc \in Service}
      BY <1>2
    <3> QED
      BY <3>1, <3>2
  <2>3. \A s \in Stream : Len(Emits[s]) \in Nat
    BY OutboxAssumption
  <2>4. \A s \in Stream : rowsOf(s[1], s[2]) = {}
    BY <1>2, <1>3 DEF rowsOf
  <2>5. \A s \in Stream :
          /\ work[s] <= Len(Emits[s])
          /\ open[s] # {} => work[s] < Len(Emits[s])
          /\ open[s] = {n \in rowsOf(s[1], s[2]) : stateOf(s[1], n) = "open"}
    <3> TAKE s \in Stream
    <3>1. open[s] = {} /\ work[s] = 0 /\ 0 <= Len(Emits[s])
      BY <1>1, <2>3
    <3>2. {n \in rowsOf(s[1], s[2]) : stateOf(s[1], n) = "open"} = {}
      BY <2>4
    <3> QED
      BY <3>1, <3>2
  <2>6. open \in [Stream -> SUBSET Nat] /\ work \in [Stream -> Nat]
    BY <1>1
  <2> QED
    BY <1>2, <2>1, <2>2, <2>5, <2>6 DEF OutboxInv
<1>6. CycleInv
  <2>1. \A v \in Service : sendable(v, {}) /\ Cardinality({}) <= BatchSize
    BY FS_EmptySet, OutboxAssumption DEF sendable
  <2> QED
    BY <1>1, <2>1 DEF CycleInv
<1>7. StreamsInv
  BY <1>1, <1>2, <1>3 DEF StreamsInv
<1>8. RelayInv
  BY <1>1, <1>5, <1>6, <1>7, OutboxAssumption DEF RelayInv
<1>9. /\ [s \in Stream |-> committed(s)] = [s \in Stream |-> {}]
      /\ UNION {eventsOf(s, {"published"}) : s \in Stream} = {}
  BY <1>4 DEF committed
<1> QED
  BY <1>1, <1>8, <1>9 DEF Promise!LogInit

(* Facts written keep what they say.                                       *)
PayloadsKept == \A e \in DOMAIN payloads : e \in DOMAIN payloads' /\ payloads'[e] = payloads[e]

(* What FactLog allows, where one relay sends.                             *)
Promised == SingleRelay => Promise!LogNext \/ UNCHANGED <<emission, log, stamped>>

LEMMA UnitStep ==
  ASSUME OutboxAssumption, RelayInv, NEW svc \in Service, unitOfWork(svc)
  PROVE  /\ RelayInv' /\ UNCHANGED log /\ PayloadsKept
         /\ Promise!Emit \/ UNCHANGED <<emission, log, stamped>>
<1>1. PICK o \in Order : Record(<<svc, o>>) \/ Commit(<<svc, o>>) \/ Rollback(<<svc, o>>)
  BY DEF unitOfWork
<1>2. <<svc, o>> \in Stream
  BY StreamParts
<1>3. CASE Record(<<svc, o>>)
  <2>1. RelayInv' /\ UNCHANGED <<emission, log, stamped>>
    BY <1>2, <1>3, RecordStep
  <2>2. PayloadsKept
    BY <1>3 DEF Record, PayloadsKept
  <2> QED
    BY <2>1, <2>2
<1>4. CASE Commit(<<svc, o>>)
  BY <1>2, <1>4, CommitStep DEF Commit, topicVars, PayloadsKept
<1>5. CASE Rollback(<<svc, o>>)
  <2>1. RelayInv' /\ UNCHANGED <<emission, log, stamped>>
    BY <1>2, <1>5, RollbackStep
  <2>2. PayloadsKept
    BY <1>5 DEF Rollback, PayloadsKept
  <2> QED
    BY <2>1, <2>2
<1> QED
  BY <1>1, <1>3, <1>4, <1>5

LEMMA CycleStep ==
  ASSUME OutboxAssumption, RelayInv, NEW svc \in Service,
         runCycle(svc) \/ relayFails(svc)
  PROVE  /\ RelayInv' /\ LogExtends /\ PayloadsKept
         /\ Promised
<1>0. StreamsInv /\ StreamsInv /\ \A s \in Stream : Len(log[s]) \in Nat
  BY DEF RelayInv, StreamsInv
<1>1. PICK i \in Instance : \/ Claim(svc, i) \/ Publish(svc, i) \/ Stamp(svc, i)
                            \/ PublishFails(svc, i) \/ PublishTimesOut(svc, i) \/ RelayCrash(svc, i)
  BY DEF runCycle, relayFails
<1>2. UNCHANGED payloads
  BY <1>1 DEF Claim, Publish, Stamp, PublishFails, PublishTimesOut, RelayCrash, topicVars
<1>3. PayloadsKept
  BY <1>2 DEF PayloadsKept
<1>4. CASE Claim(svc, i)
  <2>1. RelayInv' /\ UNCHANGED <<emission, log, stamped>>
    BY <1>4, ClaimStep
  <2> QED
    BY <1>0, <1>3, <2>1 DEF LogExtends, Promised
<1>5. CASE Publish(svc, i) \/ PublishFails(svc, i)
  <2>1. RelayInv' /\ Carried
    BY <1>5, PublishStep, PublishFailsStep
  <2>2. UNCHANGED <<outbox, open, work>>
    BY <1>5 DEF Publish, PublishFails, outboxVars
  <2>3. UNCHANGED <<emission, stamped>>
    BY <1>2, <2>2, OutboxStays
  <2> QED
    BY <1>3, <2>1, <2>3 DEF Carried, Promised, Promise!LogNext
<1>6. CASE Stamp(svc, i)
  <2>1. RelayInv' /\ (Promise!Settle \/ UNCHANGED <<emission, log, stamped>>)
    BY <1>6, StampStep
  <2>2. UNCHANGED log
    BY <1>6 DEF Stamp, topicVars
  <2> QED
    BY <1>0, <1>3, <2>1, <2>2 DEF LogExtends, Promised, Promise!LogNext
<1>7. CASE PublishTimesOut(svc, i) \/ RelayCrash(svc, i)
  <2>1. RelayInv' /\ UNCHANGED <<emission, log, stamped>>
    BY <1>7, SettleStep
  <2> QED
    BY <1>0, <1>3, <2>1 DEF LogExtends, Promised
<1> QED
  BY <1>1, <1>4, <1>5, <1>6, <1>7

LEMMA OutboxStepKeeps ==
  ASSUME OutboxAssumption, RelayInv, producer \in Service,
         \/ OrdersOutbox \/ FulfillmentOutbox \/ BillingOutbox \/ LateSend
         \/ ForeignRecord(producer) /\ UNCHANGED relayVars
  PROVE  /\ RelayInv' /\ LogExtends /\ PayloadsKept
         /\ Promised
<1>0. StreamsInv /\ \A s \in Stream : Len(log[s]) \in Nat
  BY DEF RelayInv, StreamsInv
<1>1. CASE OrdersOutbox \/ FulfillmentOutbox \/ BillingOutbox
  <2>1. PICK svc \in Service : unitOfWork(svc) \/ runCycle(svc) \/ relayFails(svc)
    BY <1>1 DEF OrdersOutbox, FulfillmentOutbox, BillingOutbox, Service
  <2>2. CASE unitOfWork(svc)
    <3>1. /\ RelayInv' /\ UNCHANGED log /\ PayloadsKept
          /\ Promise!Emit \/ UNCHANGED <<emission, log, stamped>>
      BY <2>2, UnitStep
    <3> QED
      BY <1>0, <3>1 DEF LogExtends, Promised, Promise!LogNext
  <2>3. CASE runCycle(svc) \/ relayFails(svc)
    BY <2>3, CycleStep
  <2> QED
    BY <2>1, <2>2, <2>3
<1>2. CASE LateSend \/ (ForeignRecord(producer) /\ UNCHANGED relayVars)
  <2>1. RelayInv' /\ Carried
    BY <1>2, LateSendStep, ForeignStep
  <2>3. UNCHANGED <<outbox, open, work, payloads>>
    BY <1>2 DEF LateSend, ForeignRecord, relayVars, outboxVars
  <2>4. PayloadsKept
    BY <2>3 DEF PayloadsKept
  <2>5. UNCHANGED <<emission, stamped>>
    BY <2>3, OutboxStays
  <2> QED
    BY <2>1, <2>4, <2>5 DEF Carried, Promised, Promise!LogNext
<1> QED
  BY <1>1, <1>2

(* The groups leave the outbox and the streams alone, but count faults.    *)
LEMMA GroupStepKeeps ==
  ASSUME OutboxAssumption, RelayInv, UNCHANGED relayVars, UNCHANGED <<log, payloads>>,
         UNCHANGED faults \/ fault
  PROVE  RelayInv' /\ UNCHANGED <<emission, log, stamped>>
<1>1. UNCHANGED <<outbox, open, work, batch, stage, flight>>
  BY DEF relayVars, outboxVars, cycleVars
<1>2. faults' \in 0..MaxFaults
  BY FaultCounted DEF RelayInv
<1>3. \A v \in Service : \A n \in DOMAIN outbox[v] : onStream(v, n) => onStream(v, n)'
  BY <1>1 DEF onStream, orderOf
<1>4. CycleInv'
  BY <1>1, <1>3, BatchesStay
<1> QED
  BY <1>1, <1>2, <1>4, CycleMoves

LEMMA GroupFrame ==
  /\ ConsumerNext => UNCHANGED <<log, payloads>> /\ (UNCHANGED faults \/ fault)
  /\ NotifierNext => UNCHANGED <<log, payloads>> /\ (UNCHANGED faults \/ fault)
<1>1. ConsumerNext => UNCHANGED <<log, payloads>> /\ (UNCHANGED faults \/ fault)
  BY DEF ConsumerNext, consume, Fetch, RunOnce, DeadLetter, CommitOffset, AttemptFails,
         runOnce, DeliveryLost, topicVars
<1>2. NotifierNext => UNCHANGED <<log, payloads>> /\ (UNCHANGED faults \/ fault)
  BY DEF NotifierNext, notify, Receive, RecordInLedger, RecordFails, Send, Unbuildable, Compensate,
         PublishDeadMail, Acknowledge, SendFails, CompensateFails, WorkerStops, Rebalance, topicVars
<1> QED
  BY <1>1, <1>2

LEMMA StepKeeps ==
  ASSUME OutboxAssumption, RelayInv, producer \in Service, [Next]_vars
  PROVE  /\ RelayInv' /\ LogExtends /\ PayloadsKept /\ UNCHANGED producer
         /\ Promised
<1>0. \A s \in Stream : Len(log[s]) \in Nat
  BY DEF RelayInv, StreamsInv
<1>1. CASE \/ OrdersOutbox \/ FulfillmentOutbox \/ BillingOutbox \/ LateSend
           \/ ForeignRecord(producer) /\ UNCHANGED relayVars
  <2>1. UNCHANGED producer
    BY <1>1 DEF Next, vars, outboxStep, sagaStep, notifierStep
  <2> QED
    BY <1>1, <2>1, OutboxStepKeeps
<1>2. CASE \/ ConsumerNext /\ UNCHANGED <<relayVars, producer>>
           \/ NotifierNext /\ UNCHANGED <<relayVars, producer>>
  <2>1. UNCHANGED <<log, payloads>> /\ (UNCHANGED faults \/ fault) /\ UNCHANGED relayVars
        /\ UNCHANGED producer
    BY <1>2, GroupFrame
  <2> QED
    BY <1>0, <2>1, GroupStepKeeps DEF LogExtends, PayloadsKept, Promised
<1>3. CASE UNCHANGED vars
  <2>1. UNCHANGED <<log, payloads, faults, producer>> /\ UNCHANGED relayVars
    BY <1>3 DEF vars, topicVars
  <2> QED
    BY <1>0, <2>1, GroupStepKeeps DEF LogExtends, PayloadsKept, Promised
<1> QED
  BY <1>1, <1>2, <1>3 DEF Next, outboxStep, sagaStep, notifierStep

(* Stamps are never early, whatever relays a service has, and with one     *)
(* first appearances on a stream are in the order of emission.             *)
THEOREM RelayInvariant == Spec => [](RelayInv /\ producer \in Service)
<1>1. Init => RelayInv /\ producer \in Service
  BY RelayHolds, OutboxAssumption DEF Init
<1>2. RelayInv /\ producer \in Service /\ [Next]_vars => (RelayInv /\ producer \in Service)'
  BY StepKeeps, OutboxAssumption
<1> QED
  BY <1>1, <1>2, PTL DEF Spec

(* R14 and R15 for any orders, transactions and faults: what the relay     *)
(* does, crashes and late sends included, is what FactLog promises.        *)
THEOREM OutboxKeepsPromise ==
  ASSUME SingleRelay
  PROVE  Spec => ImplementsFactLog
<1>1. Init => Promise!LogInit
  BY RelayHolds, OutboxAssumption
<1>2. RelayInv /\ producer \in Service /\ [Next]_vars =>
        [Promise!LogNext]_<<[s \in Stream |-> committed(s)], log,
                            UNION {eventsOf(s, {"published"}) : s \in Stream}>>
  BY StepKeeps, OutboxAssumption DEF Promised, emission, stamped
<1> QED
  BY <1>1, <1>2, RelayInvariant, PTL DEF Spec, ImplementsFactLog, Promise!LogSpec

-----------------------------------------------------------------------------
(* Each fact takes effect once and in order.                               *)

(* A fact on a stream was written and is on no other stream; with one      *)
(* relay, those emitted before it came before it.                          *)
LEMMA FactsOnStreams ==
  ASSUME RelayInv, NEW s \in Stream, NEW i \in DOMAIN log[s], log[s][i] # Foreign
  PROVE  /\ log[s][i] \in DOMAIN payloads /\ log[s][i] \in FactRecord
         /\ SingleRelay => \A h \in DOMAIN log[s] :
              log[s][h] # Foreign /\ log[s][h][2] < log[s][i][2] =>
                \E k \in 1..(i - 1) : log[s][k] = log[s][h]
         /\ \A t \in Stream : \A j \in DOMAIN log[t] : log[t][j] = log[s][i] => t = s
<1>0. OutboxInv /\ StreamsInv /\ OutboxTyped
  BY DEF RelayInv, OutboxInv, OutboxTyped
<1>1. /\ log[s][i] \in committed(s)
      /\ SingleRelay => \A d \in committed(s) :
           d[2] < log[s][i][2] => \E h \in 1..(i - 1) : log[s][h] = d
      /\ \A h \in DOMAIN log[s] : log[s][h] # Foreign => log[s][h] \in committed(s)
  BY <1>0 DEF StreamsInv
<1>2. PICK n \in DOMAIN outbox[s[1]] : log[s][i] = <<s[1], n>> /\ orderOf(s[1], n) = s[2]
  BY <1>1, CommittedRows
<1>3. log[s][i] \in DOMAIN payloads
  <2>1. <<s[1], n>> \in {s[1]} \X DOMAIN outbox[s[1]] /\ s[1] \in Service
    BY StreamParts
  <2> QED
    BY <1>0, <1>2, <2>1 DEF OutboxInv
<1>4. ASSUME NEW t \in Stream, NEW j \in DOMAIN log[t], log[t][j] = log[s][i]
      PROVE  t = s
  <2>1. log[t][j] \in committed(t)
    BY <1>0, <1>4 DEF StreamsInv
  <2>2. PICK m \in DOMAIN outbox[t[1]] : log[t][j] = <<t[1], m>> /\ orderOf(t[1], m) = t[2]
    BY <2>1, CommittedRows
  <2>3. t[1] = s[1] /\ m = n
    BY <1>2, <1>4, <2>2
  <2> QED
    BY <1>2, <2>2, <2>3, StreamParts
<1>5. log[s][i] \in FactRecord
  BY <1>0, <1>1, CommittedTyped
<1> QED
  BY <1>1, <1>3, <1>4, <1>5

(* What is on the streams stays there and goes on saying what it said.     *)
LEMMA RecordsKept ==
  ASSUME RelayInv, RelayInv', LogExtends, PayloadsKept
  PROVE  /\ DOMAIN payloads \subseteq DOMAIN payloads'
         /\ \A e : e \in DOMAIN payloads \/ e = Foreign =>
              handled(e)' = handled(e) /\ noteworthy(e)' = noteworthy(e)
         /\ \A s \in Stream :
              /\ Len(log[s]) \in Nat /\ Len(log'[s]) \in Nat /\ Len(log[s]) <= Len(log'[s])
              /\ DOMAIN log[s] = 1..Len(log[s]) /\ DOMAIN log'[s] = 1..Len(log'[s])
              /\ \A i \in 1..Len(log[s]) :
                   /\ log'[s][i] = log[s][i]
                   /\ handled(log[s][i])' = handled(log[s][i])
                   /\ noteworthy(log[s][i])' = noteworthy(log[s][i])
<1>1. /\ DOMAIN payloads \subseteq DOMAIN payloads'
      /\ \A e : e \in DOMAIN payloads \/ e = Foreign =>
           handled(e)' = handled(e) /\ noteworthy(e)' = noteworthy(e)
  BY DEF PayloadsKept, handled, noteworthy, parses, factType, notified
<1>2. \A s \in Stream :
        /\ Len(log[s]) \in Nat /\ Len(log'[s]) \in Nat /\ Len(log[s]) <= Len(log'[s])
        /\ DOMAIN log[s] = 1..Len(log[s]) /\ DOMAIN log'[s] = 1..Len(log'[s])
        /\ \A i \in 1..Len(log[s]) : log'[s][i] = log[s][i]
  BY DEF RelayInv, StreamsInv, LogExtends
<1>3. ASSUME NEW s \in Stream, NEW i \in 1..Len(log[s])
      PROVE  handled(log[s][i])' = handled(log[s][i]) /\ noteworthy(log[s][i])' = noteworthy(log[s][i])
  <2>1. PICK e : e = log[s][i]
    OBVIOUS
  <2>2. e \in DOMAIN payloads \/ e = Foreign
    BY <1>2, <2>1, FactsOnStreams
  <2>3. handled(e)' = handled(e) /\ noteworthy(e)' = noteworthy(e)
    BY <1>1, <2>2
  <2>4. log'[s][i] = e
    BY <1>2, <2>1
  <2> QED
    BY <2>1, <2>3, <2>4 DEF handled, noteworthy, parses, factType, notified
<1> QED
  BY <1>1, <1>2, <1>3

(* The order needs one relay per service, the rest does not.               *)
EffectsKept == EffectsOnce /\ (SingleRelay => EffectsInOrder)

GroupInv == ConsumerInv /\ EffectsKept

(* A step of somebody else.                                                *)
LEMMA ConsumerStands ==
  ASSUME RelayInv, RelayInv', LogExtends, PayloadsKept, GroupInv, UNCHANGED consumerVars
  PROVE  GroupInv'
<1>1. /\ DOMAIN payloads \subseteq DOMAIN payloads'
      /\ \A s \in Stream :
           /\ Len(log[s]) \in Nat /\ Len(log'[s]) \in Nat /\ Len(log[s]) <= Len(log'[s])
           /\ DOMAIN log[s] = 1..Len(log[s]) /\ DOMAIN log'[s] = 1..Len(log'[s])
           /\ \A i \in 1..Len(log[s]) :
                log'[s][i] = log[s][i] /\ handled(log[s][i])' = handled(log[s][i])
  BY RecordsKept
<1>2. UNCHANGED <<position, delivery, processed, effects, deadLetters>>
  BY DEF consumerVars
<1>3. \A s \in Stream : position[s] \in Nat /\ position[s] <= Len(log'[s])
  BY <1>1 DEF GroupInv, ConsumerInv, EffectsKept
<1>4. delivery # Idle =>
       /\ delivery \in [stage : {"processing", "exhausted", "settled"}, stream : Stream,
                        attempt : 1..MaxAttempts]
       /\ position[delivery.stream] < Len(log'[delivery.stream])
       /\ delivery.stage # "settled" => handled(delivered)'
       /\ delivery.stage = "settled" /\ handled(delivered)' =>
            delivered' \in Range(effects[delivery.stream]) \union deadLetters
  <2> SUFFICES ASSUME delivery # Idle
               PROVE  /\ delivery \in [stage : {"processing", "exhausted", "settled"},
                                       stream : Stream, attempt : 1..MaxAttempts]
                      /\ position[delivery.stream] < Len(log'[delivery.stream])
                      /\ delivery.stage # "settled" => handled(delivered)'
                      /\ delivery.stage = "settled" /\ handled(delivered)' =>
                           delivered' \in Range(effects[delivery.stream]) \union deadLetters
    OBVIOUS
  <2>1. PICK s \in Stream, k \in Nat : s = delivery.stream /\ k = position[s] + 1
    BY DEF GroupInv, ConsumerInv, EffectsKept
  <2>2. k \in 1..Len(log[s]) /\ position[s] < Len(log'[s])
    BY <1>1, <2>1 DEF GroupInv, ConsumerInv, EffectsKept
  <2>3. delivered = log[s][k] /\ delivered' = log'[s][k]
    BY <1>2, <2>1 DEF delivered
  <2>4. delivered' = delivered /\ handled(delivered)' = handled(delivered)
    <3>1. handled(log[s][k])' = handled(log[s][k])
      BY <1>1, <2>2
    <3> QED
      BY <1>1, <2>2, <2>3, <3>1 DEF handled, parses, factType
  <2> QED
    BY <2>1, <2>2, <2>4 DEF GroupInv, ConsumerInv, EffectsKept
<1>5. \A s \in Stream : \A i \in DOMAIN effects[s] :
        \E k \in DOMAIN log'[s] : k <= position[s] + 1 /\ log'[s][k] = effects[s][i]
  <2> TAKE s \in Stream
  <2> TAKE i \in DOMAIN effects[s]
  <2>1. PICK k \in DOMAIN log[s] : k <= position[s] + 1 /\ log[s][k] = effects[s][i]
    BY DEF GroupInv, ConsumerInv, EffectsKept
  <2>2. k \in DOMAIN log'[s] /\ log'[s][k] = log[s][k]
    BY <1>1, <2>1
  <2> QED
    BY <2>1, <2>2
<1>6. ASSUME NEW s \in Stream, NEW k \in 1..position[s],
             parses(log'[s][k]), payloads'[log'[s][k]].type \in Consumed
      PROVE  log'[s][k] \in Range(effects[s]) \union deadLetters
  <2>1. k \in 1..Len(log[s])
    BY <1>1 DEF GroupInv, ConsumerInv, EffectsKept
  <2>2. log'[s][k] = log[s][k] /\ handled(log[s][k])' = handled(log[s][k])
    BY <1>1, <2>1
  <2>3. handled(log[s][k])
    BY <1>6, <2>2 DEF handled, factType, parses
  <2> QED
    BY <2>2, <2>3 DEF GroupInv, ConsumerInv, EffectsKept, EffectsOnce, EffectsInOrder, handled
<1>7. EffectsKept'
  <2>1. \A s \in Stream : \A k \in 1..position[s] :
          parses(log'[s][k]) /\ factType(log[s][k])' \in Consumed =>
            log'[s][k] \in Range(effects[s]) \union deadLetters
    BY <1>6 DEF factType
  <2> QED
    BY <1>2, <2>1 DEF GroupInv, ConsumerInv, EffectsKept, EffectsOnce, EffectsInOrder, parses
<1> QED
  BY <1>1, <1>2, <1>3, <1>4, <1>5, <1>7 DEF GroupInv, ConsumerInv, EffectsKept

(* One step of the saga's group.                                           *)
LEMMA DeliveryAt ==
  ASSUME RelayInv, GroupInv, delivery # Idle
  PROVE  LET s == delivery.stream
             p == position[s] + 1
         IN
         /\ s \in Stream /\ p \in Nat /\ p \in DOMAIN log[s] /\ delivered = log[s][p]
         /\ DOMAIN log[s] = 1..Len(log[s]) /\ Len(log[s]) \in Nat
         /\ handled(delivered) => delivered # Foreign /\ delivered \in DOMAIN payloads /\ delivered \in FactRecord
<1> DEFINE s == delivery.stream
           p == position[s] + 1
<1>1. s \in Stream /\ position[s] \in Nat /\ position[s] < Len(log[s])
  BY DEF GroupInv, ConsumerInv, EffectsKept
<1>2. Len(log[s]) \in Nat /\ DOMAIN log[s] = 1..Len(log[s])
  BY <1>1 DEF RelayInv, StreamsInv
<1>3. p \in Nat /\ p \in DOMAIN log[s] /\ delivered = log[s][p]
  BY <1>1, <1>2 DEF delivered
<1>4. handled(delivered) => delivered # Foreign
  BY DEF handled, parses
<1> QED
  BY <1>1, <1>2, <1>3, <1>4, FactsOnStreams

LEMMA EffectsStand ==
  ASSUME EffectsKept, UNCHANGED <<log, payloads, position, effects>>,
         deadLetters \subseteq deadLetters'
  PROVE  EffectsKept'
<1>1. EffectsOnce'
  <2> SUFFICES ASSUME NEW s \in Stream
               PROVE  /\ \A i, j \in DOMAIN effects[s] : i < j => effects[s][i] # effects[s][j]
                      /\ \A k \in 1..position[s] :
                           parses(log[s][k]) /\ payloads[log[s][k]].type \in Consumed =>
                             log[s][k] \in Range(effects[s]) \union deadLetters'
    BY DEF EffectsOnce, parses, factType
  <2> QED
    BY DEF EffectsKept, EffectsOnce, factType
<1>2. SingleRelay => EffectsInOrder'
  BY DEF EffectsKept, EffectsInOrder
<1> QED
  BY <1>1, <1>2 DEF EffectsKept

LEMMA ConsumerParts ==
  ASSUME position' \in [Stream -> Nat], effects' \in [Stream -> Seq(Service \X Nat)],
         \A s \in Stream : position'[s] <= Len(log'[s]),
         delivery' # Idle =>
           /\ delivery' \in [stage : {"processing", "exhausted", "settled"}, stream : Stream,
                             attempt : 1..MaxAttempts]
           /\ position'[delivery'.stream] < Len(log'[delivery'.stream])
           /\ delivery'.stage # "settled" => handled(delivered)'
           /\ delivery'.stage = "settled" /\ handled(delivered)' =>
                delivered' \in Range(effects'[delivery'.stream]) \union deadLetters',
         deadLetters' \subseteq DOMAIN payloads',
         processed' = UNION {Range(effects'[s]) : s \in Stream},
         \A s \in Stream : \A i \in DOMAIN effects'[s] :
           \E k \in DOMAIN log'[s] : k <= position'[s] + 1 /\ log'[s][k] = effects'[s][i],
         EffectsKept'
  PROVE  GroupInv'
BY DEF GroupInv, ConsumerInv, EffectsKept, Idle

LEMMA FetchStep ==
  ASSUME ConsumerAssumption, RelayInv, GroupInv, NEW s \in Stream, Fetch(s)
  PROVE  GroupInv'
<1>1. /\ position[s] < Len(log[s]) /\ position \in [Stream -> Nat]
      /\ delivery' = [stage |-> IF handled(log[s][position[s] + 1]) THEN "processing" ELSE "settled",
                      stream |-> s, attempt |-> 1]
      /\ UNCHANGED <<log, payloads, position, processed, effects, deadLetters>>
  BY DEF Fetch, topicVars, GroupInv, ConsumerInv, EffectsKept, handled
<1>2. /\ delivery' \in [stage : {"processing", "exhausted", "settled"}, stream : Stream,
                        attempt : 1..MaxAttempts]
      /\ delivery'.stream = s
      /\ delivery'.stage = IF handled(log[s][position[s] + 1]) THEN "processing" ELSE "settled"
  BY <1>1, ConsumerAssumption
<1>3. delivered' = log[s][position[s] + 1]
  BY <1>1, <1>2 DEF delivered
<1>4. handled(delivered)' <=> handled(log[s][position[s] + 1])
  BY <1>1, <1>3 DEF handled, parses, factType
<1>5. /\ delivery'.stage # "settled" => handled(delivered)'
      /\ ~ (delivery'.stage = "settled" /\ handled(delivered)')
  BY <1>2, <1>4
<1>6. EffectsKept'
  BY <1>1 DEF GroupInv, ConsumerInv, EffectsKept, EffectsOnce, EffectsInOrder, parses, factType
<1> QED
  BY <1>1, <1>2, <1>5, <1>6 DEF GroupInv, ConsumerInv, EffectsKept

(* The fact is applied, or was before.                                     *)
(* What the transaction of an attempt commits.                             *)
LEMMA RunOnceEffects ==
  ASSUME RelayInv, GroupInv, delivery # Idle, delivery.stage = "processing", runOnce,
         UNCHANGED <<log, payloads, position, deadLetters>>
  PROVE  /\ EffectsKept'
         /\ effects' \in [Stream -> Seq(Service \X Nat)]
         /\ processed' = UNION {Range(effects'[t]) : t \in Stream}
         /\ \A t \in Stream : \A i \in DOMAIN effects'[t] :
              \E k \in DOMAIN log[t] : k <= position[t] + 1 /\ log[t][k] = effects'[t][i]
         /\ delivered \in Range(effects'[delivery.stream]) \union deadLetters
<1> DEFINE s == delivery.stream
           p == position[s] + 1
           e == delivered
<1>1. /\ delivery.stage = "processing" /\ delivery # Idle
      /\ UNCHANGED <<log, payloads, position, deadLetters>>
  OBVIOUS
<1>2. /\ s \in Stream /\ p \in Nat /\ p \in DOMAIN log[s] /\ e = log[s][p]
      /\ DOMAIN log[s] = 1..Len(log[s]) /\ Len(log[s]) \in Nat
      /\ handled(e) /\ e # Foreign /\ e \in DOMAIN payloads /\ e \in FactRecord
  BY <1>1, DeliveryAt DEF GroupInv, ConsumerInv, EffectsKept
<1>3. s = delivery.stream /\ e = delivered
  OBVIOUS
<1> HIDE DEF e, p, s
<1>4. CASE isDuplicate
  <2>1. UNCHANGED <<processed, effects>> /\ e \in processed
    BY <1>4 DEF runOnce, isDuplicate, e
  <2>2. PICK t \in Stream : e \in Range(effects[t])
    BY <2>1 DEF GroupInv, ConsumerInv, EffectsKept
  <2>3. PICK i \in DOMAIN effects[t] : effects[t][i] = e
    BY <2>2 DEF Range
  <2>4. PICK k \in DOMAIN log[t] : log[t][k] = e
    BY <2>3 DEF GroupInv, ConsumerInv, EffectsKept
  <2>5. t = s
    BY <1>2, <2>4, FactsOnStreams
  <2>6. EffectsKept'
    <3>1. EffectsKept
      BY DEF GroupInv, ConsumerInv, EffectsKept
    <3> QED
      BY <1>1, <2>1, <3>1, EffectsStand
  <2>7. e \in Range(effects'[s])
    BY <2>1, <2>2, <2>5
  <2>8. /\ effects \in [Stream -> Seq(Service \X Nat)]
        /\ processed = UNION {Range(effects[z]) : z \in Stream}
        /\ \A z \in Stream : \A h \in DOMAIN effects[z] :
             \E m \in DOMAIN log[z] : m <= position[z] + 1 /\ log[z][m] = effects[z][h]
    BY DEF GroupInv, ConsumerInv, EffectsKept
  <2>9. \A z \in Stream : \A h \in DOMAIN effects'[z] :
          \E m \in DOMAIN log[z] : m <= position[z] + 1 /\ log[z][m] = effects'[z][h]
    BY <2>1, <2>8
  <2>10. effects' \in [Stream -> Seq(Service \X Nat)]
         /\ processed' = UNION {Range(effects'[z]) : z \in Stream}
    BY <2>1, <2>8
  <2> QED
    BY ONLY <1>3, <2>6, <2>7, <2>9, <2>10
<1>5. CASE ~ isDuplicate
  <2>1. /\ processed' = processed \union {e} /\ e \notin processed
        /\ effects' = [effects EXCEPT ![s] = Append(@, e)]
    BY <1>5 DEF runOnce, isDuplicate, e, s
  <2>2. /\ effects \in [Stream -> Seq(FactRecord)]
        /\ effects[s] \in Seq(FactRecord)
    BY <1>2 DEF GroupInv, ConsumerInv, EffectsKept, FactRecord
  <2>3. /\ effects' \in [Stream -> Seq(FactRecord)]
        /\ effects'[s] = Append(effects[s], e)
        /\ \A t \in Stream \ {s} : effects'[t] = effects[t]
    <3>1. Append(effects[s], e) \in Seq(FactRecord)
      BY <1>2, <2>2
    <3> QED
      BY <1>2, <2>1, <2>2, <3>1
  <2> DEFINE L == Len(effects[s])
  <2>4. /\ L \in Nat /\ DOMAIN effects[s] = 1..L /\ DOMAIN effects'[s] = 1..(L + 1)
        /\ \A i \in 1..L : effects'[s][i] = effects[s][i]
        /\ effects'[s][L + 1] = e
    <3>1. Len(effects[s]) \in Nat /\ Len(Append(effects[s], e)) = Len(effects[s]) + 1
          /\ Append(effects[s], e) \in Seq(FactRecord)
      BY <1>2, <2>2
    <3>2. DOMAIN Append(effects[s], e) = 1..(Len(effects[s]) + 1)
      BY <3>1
    <3> QED
      BY <1>2, <2>2, <2>3, <3>1, <3>2
  <2> HIDE DEF L
  <2>5. \A i \in 1..(L + 1) : i \in 1..L \/ i = L + 1
    BY <2>4
  <2>6. Range(effects'[s]) = Range(effects[s]) \union {e}
    <3>1. L + 1 \in 1..(L + 1) /\ \A i \in 1..L : i \in 1..(L + 1)
      BY <2>4
    <3> QED
      BY <2>4, <2>5, <3>1 DEF Range
  <2>7. processed' = UNION {Range(effects'[t]) : t \in Stream}
    <3>1. processed = UNION {Range(effects[t]) : t \in Stream}
      BY DEF GroupInv, ConsumerInv, EffectsKept
    <3>2. \A x : x \in processed' <=> \E t \in Stream : x \in Range(effects'[t])
      BY <1>2, <2>1, <2>3, <2>6, <3>1, SMTT(60)
    <3> QED
      BY <3>2
  <2>8. \A i \in 1..L : \E k \in DOMAIN log[s] : k <= p /\ log[s][k] = effects[s][i]
    BY <1>2, <2>4 DEF GroupInv, ConsumerInv, EffectsKept, p
  <2>9. \A t \in Stream : \A i \in DOMAIN effects'[t] :
          \E k \in DOMAIN log[t] : k <= position[t] + 1 /\ log[t][k] = effects'[t][i]
    <3> TAKE t \in Stream
    <3> TAKE i \in DOMAIN effects'[t]
    <3>1. CASE t # s
      <4>1. i \in DOMAIN effects[t] /\ effects'[t][i] = effects[t][i]
        BY <2>3, <3>1
      <4> QED
        BY <4>1 DEF GroupInv, ConsumerInv, EffectsKept
    <3>2. CASE t = s
      <4>1. p <= position[t] + 1
        BY <1>2, <3>2 DEF p
      <4>2. CASE i \in 1..L
        <5>1. PICK k \in DOMAIN log[s] : k <= p /\ log[s][k] = effects[s][i]
          BY <2>8, <4>2
        <5> QED
          BY <2>4, <3>2, <4>2, <5>1 DEF p
      <4>3. CASE i = L + 1
        BY <1>2, <2>4, <3>2, <4>1, <4>3
      <4> QED
        BY <2>4, <2>5, <3>2, <4>2, <4>3
    <3> QED
      BY <3>1, <3>2
  <2>10. \A i \in 1..L : effects[s][i] # e
    <3>1. \A i \in DOMAIN effects[s] : effects[s][i] \in processed
      BY <1>2 DEF GroupInv, ConsumerInv, EffectsKept, Range
    <3> QED
      BY <2>1, <2>4, <3>1
  <2>11. ASSUME SingleRelay, NEW i \in 1..L, effects[s][i][2] > e[2]
         PROVE  e \in deadLetters
    <3>1. PICK k \in DOMAIN log[s] : k <= p /\ log[s][k] = effects[s][i]
      BY <2>8
    <3>2. k # p /\ k \in Nat
      BY <1>2, <2>10, <3>1
    <3>3. log[s][k] # Foreign
      <4>1. effects[s][i] \in FactRecord
        BY <2>2, <2>4
      <4> QED
        BY <3>1, <4>1, StreamParts
    <3>4. e[2] < log[s][k][2]
      <4>1. effects[s][i] \in FactRecord
        BY <2>2, <2>4
      <4>2. effects[s][i][2] \in Nat /\ e[2] \in Nat
        BY <1>2, <4>1 DEF FactRecord
      <4> QED
        BY <2>11, <3>1, <4>2
    <3>5. PICK h \in 1..(k - 1) : log[s][h] = e
      BY <1>2, <2>11, <3>1, <3>3, <3>4, FactsOnStreams, SMTT(60)
    <3>6. h \in 1..position[s]
      <4>1. position[s] \in Nat /\ p = position[s] + 1
        BY <1>2 DEF GroupInv, ConsumerInv, EffectsKept, p
      <4> QED
        BY <1>2, <3>1, <3>2, <3>5, <4>1
    <3>7. e \in Range(effects[s]) \union deadLetters
      <4>1. EffectsKept
        BY DEF GroupInv, ConsumerInv, EffectsKept
      <4> QED
        BY <1>2, <3>5, <3>6, <4>1 DEF EffectsKept, EffectsOnce, EffectsInOrder, handled
    <3> QED
      BY <2>4, <2>10, <3>7 DEF Range
  <2>12. EffectsKept'
    <3>0. /\ \A t \in Stream :
               /\ \A i, j \in DOMAIN effects[t] : i < j => effects[t][i] # effects[t][j]
               /\ \A k \in 1..position[t] :
                    parses(log[t][k]) /\ payloads[log[t][k]].type \in Consumed =>
                      log[t][k] \in Range(effects[t]) \union deadLetters
          /\ SingleRelay => \A t \in Stream : \A i, j \in DOMAIN effects[t] :
               i < j /\ effects[t][i][2] > effects[t][j][2] => effects[t][j] \in deadLetters
      BY DEF GroupInv, EffectsKept, EffectsOnce, EffectsInOrder, factType
    <3>1. EffectsOnce'
      <4> SUFFICES ASSUME NEW t \in Stream
                   PROVE  /\ \A i, j \in DOMAIN effects'[t] : i < j => effects'[t][i] # effects'[t][j]
                          /\ \A k \in 1..position[t] :
                               parses(log[t][k]) /\ payloads[log[t][k]].type \in Consumed =>
                                 log[t][k] \in Range(effects'[t]) \union deadLetters
        BY <1>1 DEF EffectsOnce, parses, factType
      <4>1. CASE t # s
        BY <2>3, <3>0, <4>1
      <4>2. CASE t = s
        <5>1. ASSUME NEW i \in DOMAIN effects'[s], NEW j \in DOMAIN effects'[s], i < j
              PROVE  effects'[s][i] # effects'[s][j]
          <6>1. i \in 1..L /\ (j \in 1..L \/ j = L + 1)
            BY <2>4, <2>5, <5>1
          <6> QED
            BY <2>4, <2>10, <3>0, <4>2, <5>1, <6>1
        <5> QED
          BY <2>6, <3>0, <4>2, <5>1
      <4> QED
        BY <4>1, <4>2
    <3>2. ASSUME SingleRelay
          PROVE  EffectsInOrder'
      <4> SUFFICES ASSUME NEW t \in Stream, NEW i \in DOMAIN effects'[t], NEW j \in DOMAIN effects'[t],
                          i < j, effects'[t][i][2] > effects'[t][j][2]
                   PROVE  effects'[t][j] \in deadLetters
        BY <1>1 DEF EffectsInOrder
      <4>1. CASE t # s
        BY <2>3, <3>0, <3>2, <4>1
      <4>2. CASE t = s
        <5>1. i \in 1..L /\ (j \in 1..L \/ j = L + 1)
          BY <2>4, <2>5, <4>2
        <5>2. CASE j \in 1..L
          BY <2>4, <3>0, <3>2, <4>2, <5>1, <5>2
        <5>3. CASE j = L + 1
          BY <2>4, <2>11, <3>2, <4>2, <5>1, <5>3
        <5> QED
          BY <5>1, <5>2, <5>3
      <4> QED
        BY <4>1, <4>2
    <3> QED
      BY <3>1, <3>2 DEF EffectsKept
  <2>13. e \in Range(effects'[s]) \union deadLetters
    BY <2>6
  <2>14. effects' \in [Stream -> Seq(Service \X Nat)]
    BY <2>3 DEF FactRecord
  <2> QED
    BY <1>3, <2>7, <2>9, <2>12, <2>13, <2>14
<1> QED
  BY <1>4, <1>5

LEMMA RunOnceStep ==
  ASSUME RelayInv, GroupInv, RunOnce
  PROVE  GroupInv'
<1>1. /\ delivery.stage = "processing" /\ delivery # Idle /\ runOnce
      /\ delivery' = [delivery EXCEPT !.stage = "settled"]
      /\ UNCHANGED <<log, payloads, position, deadLetters>>
  BY DEF RunOnce, topicVars, Idle
<1>2. /\ delivery' \in [stage : {"processing", "exhausted", "settled"}, stream : Stream,
                        attempt : 1..MaxAttempts]
      /\ delivery'.stream = delivery.stream /\ delivery'.stage = "settled"
      /\ position[delivery.stream] < Len(log[delivery.stream])
  BY <1>1 DEF GroupInv, ConsumerInv, EffectsKept
<1>3. delivered' = delivered
  BY <1>1, <1>2 DEF delivered
<1>4. /\ position \in [Stream -> Nat] /\ \A t \in Stream : position[t] <= Len(log[t])
      /\ deadLetters \subseteq DOMAIN payloads
  BY DEF GroupInv, ConsumerInv, EffectsKept
<1>5. /\ EffectsKept' /\ effects' \in [Stream -> Seq(Service \X Nat)]
      /\ processed' = UNION {Range(effects'[t]) : t \in Stream}
      /\ \A t \in Stream : \A i \in DOMAIN effects'[t] :
           \E k \in DOMAIN log'[t] : k <= position'[t] + 1 /\ log'[t][k] = effects'[t][i]
      /\ delivered \in Range(effects'[delivery.stream]) \union deadLetters
  BY <1>1, RunOnceEffects
<1>6. /\ position' \in [Stream -> Nat] /\ deadLetters' \subseteq DOMAIN payloads'
      /\ \A t \in Stream : position'[t] <= Len(log'[t])
      /\ position'[delivery'.stream] < Len(log'[delivery'.stream])
      /\ delivered' \in Range(effects'[delivery'.stream]) \union deadLetters'
  BY <1>1, <1>2, <1>3, <1>4, <1>5
<1> QED
  BY <1>2, <1>5, <1>6, ConsumerParts

LEMMA DeadLetterStep ==
  ASSUME RelayInv, GroupInv, DeadLetter
  PROVE  GroupInv'
<1>1. /\ delivery.stage = "exhausted" /\ delivery # Idle
      /\ deadLetters' = deadLetters \union {delivered}
      /\ delivery' = [delivery EXCEPT !.stage = "settled"]
      /\ UNCHANGED <<log, payloads, position, processed, effects>>
  BY DEF DeadLetter, topicVars, Idle
<1>2. delivered \in DOMAIN payloads
  BY <1>1, DeliveryAt DEF GroupInv, ConsumerInv, EffectsKept
<1>3. /\ delivery' \in [stage : {"processing", "exhausted", "settled"}, stream : Stream,
                        attempt : 1..MaxAttempts]
      /\ delivery'.stream = delivery.stream /\ delivery'.stage = "settled"
      /\ position[delivery.stream] < Len(log[delivery.stream])
  BY <1>1 DEF GroupInv, ConsumerInv, EffectsKept
<1>4. delivered' = delivered
  BY <1>1, <1>3 DEF delivered
<1>5. EffectsKept'
  BY <1>1, EffectsStand DEF GroupInv, ConsumerInv, EffectsKept
<1>6. /\ position' \in [Stream -> Nat] /\ effects' \in [Stream -> Seq(Service \X Nat)]
      /\ \A t \in Stream : position'[t] <= Len(log'[t])
      /\ deadLetters' \subseteq DOMAIN payloads'
      /\ processed' = UNION {Range(effects'[t]) : t \in Stream}
      /\ \A t \in Stream : \A i \in DOMAIN effects'[t] :
           \E k \in DOMAIN log'[t] : k <= position'[t] + 1 /\ log'[t][k] = effects'[t][i]
  BY <1>1, <1>2 DEF GroupInv, ConsumerInv, EffectsKept
<1> QED
  BY <1>1, <1>3, <1>4, <1>5, <1>6, ConsumerParts

LEMMA AttemptFailsStep ==
  ASSUME ConsumerAssumption, RelayInv, GroupInv, AttemptFails
  PROVE  GroupInv'
<1>1. /\ delivery.stage = "processing" /\ delivery # Idle
      /\ delivery' = IF delivery.attempt < MaxAttempts
                     THEN [delivery EXCEPT !.attempt = @ + 1]
                     ELSE [delivery EXCEPT !.stage = "exhausted"]
      /\ UNCHANGED <<log, payloads, position, deadLetters>>
      /\ runOnce \/ UNCHANGED <<processed, effects>>
  BY DEF AttemptFails, Idle
<1>2. /\ delivery \in [stage : {"processing", "exhausted", "settled"}, stream : Stream,
                       attempt : 1..MaxAttempts]
      /\ position[delivery.stream] < Len(log[delivery.stream])
      /\ handled(delivered)
  BY <1>1 DEF GroupInv, ConsumerInv, EffectsKept
<1>3. /\ delivery' \in [stage : {"processing", "exhausted", "settled"}, stream : Stream,
                        attempt : 1..MaxAttempts]
      /\ delivery'.stream = delivery.stream /\ delivery'.stage # "settled"
  <2>1. delivery.attempt \in Nat /\ MaxAttempts \in Nat /\ delivery.attempt + 1 \in Nat
    BY <1>2, ConsumerAssumption
  <2>2. delivery.attempt < MaxAttempts => delivery.attempt + 1 \in 1..MaxAttempts
    BY <1>2, <2>1
  <2> QED
    BY <1>1, <1>2, <2>2
<1>4. delivered' = delivered /\ (handled(delivered)' <=> handled(delivered))
  BY <1>1, <1>3 DEF delivered, handled, parses, factType
<1>5. /\ EffectsKept' /\ effects' \in [Stream -> Seq(Service \X Nat)]
      /\ processed' = UNION {Range(effects'[t]) : t \in Stream}
      /\ \A t \in Stream : \A i \in DOMAIN effects'[t] :
           \E k \in DOMAIN log'[t] : k <= position'[t] + 1 /\ log'[t][k] = effects'[t][i]
  <2>1. CASE runOnce
    BY <1>1, <2>1, RunOnceEffects
  <2>2. CASE UNCHANGED <<processed, effects>>
    <3>1. EffectsKept'
      BY <1>1, <2>2, EffectsStand DEF GroupInv, ConsumerInv, EffectsKept
    <3> QED
      BY <1>1, <2>2, <3>1 DEF GroupInv, ConsumerInv, EffectsKept
  <2> QED
    BY <1>1, <2>1, <2>2
<1>6. /\ position' \in [Stream -> Nat] /\ \A t \in Stream : position'[t] <= Len(log'[t])
      /\ deadLetters' \subseteq DOMAIN payloads'
  BY <1>1 DEF GroupInv, ConsumerInv, EffectsKept
<1> QED
  BY <1>1, <1>2, <1>3, <1>4, <1>5, <1>6, ConsumerParts

LEMMA DeliveryLostStep ==
  ASSUME GroupInv, DeliveryLost
  PROVE  GroupInv'
<1>1. delivery' = Idle /\ UNCHANGED <<log, payloads, position, processed, effects, deadLetters>>
  BY DEF DeliveryLost
<1>2. EffectsKept'
  BY <1>1, EffectsStand DEF GroupInv, ConsumerInv, EffectsKept
<1>3. /\ position' \in [Stream -> Nat] /\ effects' \in [Stream -> Seq(Service \X Nat)]
      /\ \A t \in Stream : position'[t] <= Len(log'[t])
      /\ deadLetters' \subseteq DOMAIN payloads'
      /\ processed' = UNION {Range(effects'[t]) : t \in Stream}
      /\ \A t \in Stream : \A i \in DOMAIN effects'[t] :
           \E k \in DOMAIN log'[t] : k <= position'[t] + 1 /\ log'[t][k] = effects'[t][i]
  BY <1>1 DEF GroupInv, ConsumerInv, EffectsKept
<1> QED
  BY <1>1, <1>2, <1>3, ConsumerParts

(* What is acknowledged was applied or dead-lettered.                      *)
LEMMA CommitOffsetStep ==
  ASSUME RelayInv, GroupInv, CommitOffset
  PROVE  GroupInv'
<1> DEFINE s == delivery.stream
           p == position[s] + 1
<1>1. /\ delivery.stage = "settled" /\ delivery # Idle /\ delivery' = Idle
      /\ position' = [position EXCEPT ![s] = position[s] + 1]
      /\ UNCHANGED <<log, payloads, processed, effects, deadLetters>>
  BY DEF CommitOffset, topicVars, Idle
<1>2. /\ s \in Stream /\ p \in Nat /\ p \in DOMAIN log[s] /\ delivered = log[s][p]
      /\ DOMAIN log[s] = 1..Len(log[s]) /\ Len(log[s]) \in Nat
      /\ handled(delivered) => delivered \in Range(effects[s]) \union deadLetters
  BY <1>1, DeliveryAt DEF GroupInv, ConsumerInv, EffectsKept
<1>3. position \in [Stream -> Nat]
  BY DEF GroupInv, ConsumerInv, EffectsKept
<1> HIDE DEF s
<1>4. /\ position' \in [Stream -> Nat] /\ position'[s] = p
      /\ \A t \in Stream \ {s} : position'[t] = position[t]
      /\ \A t \in Stream : position[t] <= position'[t]
  BY <1>1, <1>2, <1>3
<1>5. \A t \in Stream : position'[t] <= Len(log[t])
  <2>1. p <= Len(log[s])
    BY <1>2
  <2> QED
    BY <1>4, <2>1 DEF GroupInv, ConsumerInv, EffectsKept
<1>6. \A t \in Stream : \A i \in DOMAIN effects[t] :
        \E k \in DOMAIN log[t] : k <= position'[t] + 1 /\ log[t][k] = effects[t][i]
  <2> TAKE t \in Stream
  <2> TAKE i \in DOMAIN effects[t]
  <2>1. PICK k \in DOMAIN log[t] : k <= position[t] + 1 /\ log[t][k] = effects[t][i]
    BY DEF GroupInv, ConsumerInv, EffectsKept
  <2>2. k \in Nat /\ position[t] \in Nat /\ position'[t] \in Nat /\ position[t] <= position'[t]
    <3>1. log[t] \in Seq((Service \X Nat) \union {Foreign})
      BY DEF RelayInv, StreamsInv
    <3> QED
      BY <1>3, <1>4, <3>1
  <2>3. k <= position'[t] + 1
    BY <2>1, <2>2
  <2> QED
    BY <2>1, <2>3
<1>7. EffectsKept'
  <2>0. EffectsKept
    BY DEF GroupInv, ConsumerInv, EffectsKept
  <2>1. ASSUME NEW t \in Stream, NEW k \in 1..position'[t], handled(log[t][k])
        PROVE  log[t][k] \in Range(effects[t]) \union deadLetters
    <3>1. CASE k \in 1..position[t]
      BY <2>0, <2>1, <3>1 DEF EffectsKept, EffectsOnce, EffectsInOrder, handled
    <3>2. CASE k \notin 1..position[t]
      <4>1. t = s /\ k = p
        BY <1>3, <1>4, <3>2
      <4> QED
        BY <1>2, <2>1, <4>1
    <3> QED
      BY <3>1, <3>2
  <2>2. \A t \in Stream : \A k \in 1..position'[t] :
          parses(log[t][k]) /\ payloads[log[t][k]].type \in Consumed =>
            log[t][k] \in Range(effects[t]) \union deadLetters
    BY <2>1 DEF handled, factType
  <2> QED
    BY <1>1, <2>0, <2>2 DEF EffectsKept, EffectsOnce, EffectsInOrder, parses, factType
<1>8. /\ effects' \in [Stream -> Seq(Service \X Nat)]
      /\ deadLetters' \subseteq DOMAIN payloads'
      /\ processed' = UNION {Range(effects'[t]) : t \in Stream}
  BY <1>1 DEF GroupInv, ConsumerInv, EffectsKept
<1>9. /\ \A t \in Stream : position'[t] <= Len(log'[t])
      /\ \A t \in Stream : \A i \in DOMAIN effects'[t] :
           \E k \in DOMAIN log'[t] : k <= position'[t] + 1 /\ log'[t][k] = effects'[t][i]
  BY <1>1, <1>5, <1>6
<1> QED
  BY <1>1, <1>4, <1>7, <1>8, <1>9, ConsumerParts

LEMMA ConsumerHolds ==
  ASSUME Init
  PROVE  GroupInv
<1>1. /\ log = [s \in Stream |-> <<>>] /\ position = [s \in Stream |-> 0] /\ delivery = Idle
      /\ processed = {} /\ effects = [s \in Stream |-> <<>>] /\ deadLetters = {}
  BY DEF Init, TopicsInit, ConsumerInit
<1>2. \A s \in Stream : effects[s] = <<>> /\ Range(effects[s]) = {} /\ DOMAIN effects[s] = {}
                        /\ position[s] = 0 /\ Len(log[s]) = 0 /\ 1..position[s] = {}
  BY <1>1 DEF Range
<1>3. EffectsKept
  BY <1>2 DEF EffectsKept, EffectsOnce, EffectsInOrder
<1>4. processed = UNION {Range(effects[s]) : s \in Stream}
  <2>1. \A x : x \notin UNION {Range(effects[s]) : s \in Stream}
    BY <1>2
  <2> QED
    BY <1>1, <2>1
<1>5. position \in [Stream -> Nat] /\ effects \in [Stream -> Seq(Service \X Nat)]
  BY <1>1
<1> QED
  BY <1>1, <1>2, <1>3, <1>4, <1>5 DEF GroupInv, ConsumerInv, EffectsKept

LEMMA ConsumerStep ==
  ASSUME OutboxAssumption, ConsumerAssumption, RelayInv, producer \in Service,
         GroupInv, [Next]_vars
  PROVE  GroupInv'
<1>1. CASE ConsumerNext
  BY <1>1, FetchStep, RunOnceStep, DeadLetterStep, CommitOffsetStep, AttemptFailsStep,
     DeliveryLostStep DEF ConsumerNext, consume
<1>2. CASE UNCHANGED consumerVars
  BY <1>2, StepKeeps, ConsumerStands
<1> QED
  BY <1>1, <1>2 DEF Next, vars, outboxStep, sagaStep, notifierStep

(* R17 for any number of relays, attempts and faults: a fact takes effect  *)
(* at most once, and none that was acknowledged is missing.                *)
THEOREM FactsTakeEffectOnce == Spec => []EffectsOnce
<1>1. Init => GroupInv
  BY ConsumerHolds
<1>2. RelayInv /\ producer \in Service /\ GroupInv /\ [Next]_vars => GroupInv'
  BY ConsumerStep, OutboxAssumption, ConsumerAssumption
<1>3. GroupInv => EffectsOnce
  BY DEF GroupInv, ConsumerInv
<1> QED
  BY <1>1, <1>2, <1>3, RelayInvariant, PTL DEF Spec

(* R17 and R18 for any number of attempts and faults, with one relay per   *)
(* service as deployed: facts of one order take effect in emission order,  *)
(* each at most once.                                                      *)
THEOREM FactsTakeEffectInOrder ==
  ASSUME SingleRelay
  PROVE  Spec => []EffectsOnceInOrder
<1>1. Init => GroupInv
  BY ConsumerHolds
<1>2. RelayInv /\ producer \in Service /\ GroupInv /\ [Next]_vars => GroupInv'
  BY ConsumerStep, OutboxAssumption, ConsumerAssumption
<1>3. GroupInv => EffectsOnceInOrder
  BY DEF GroupInv, EffectsKept, EffectsOnceInOrder
<1> QED
  BY <1>1, <1>2, <1>3, RelayInvariant, PTL DEF Spec

-----------------------------------------------------------------------------
(* Every notice is accounted for.                                          *)

JobRecord == [stage : JobStage, stream : Stream, offset : Nat \ {0}, attempt : 1..MaxSendAttempts]

holds(j) == j.stage \in {"sending", "failing"}

(* All the notifications need of the outboxes: what is on a stream was     *)
(* written, stays there, and goes on saying what it said.                  *)
LogKnown ==
  /\ LogTyped
  /\ \A s \in Stream : \A i \in DOMAIN log[s] : log[s][i] # Foreign => log[s][i] \in DOMAIN payloads

LEMMA JobShapes ==
  /\ NoJob \notin JobRecord /\ ~ holds(NoJob) /\ NoJob.stage = "idle"
  /\ \A j \in JobRecord : j # NoJob /\ j.stage \in JobStage
  /\ "idle" \notin JobStage
BY DEF JobRecord, NoJob, JobStage, holds

LEMMA JobTyped ==
  ASSUME LogKnown, NoticeInv, NEW w \in Worker
  PROVE  /\ job[w] = NoJob \/ job[w] \in JobRecord
         /\ \A st \in JobStage : at(w, st) <=> job[w].stage = st
         /\ \A e : heldBy(w, e) <=> holds(job[w]) /\ event(w) = e
         /\ job[w] # NoJob =>
              /\ job[w].stream \in Stream /\ job[w].offset \in DOMAIN log[job[w].stream]
              /\ noteworthy(event(w)) => event(w) \in DOMAIN payloads
              /\ job[w].stage # "settled" => noteworthy(event(w))
<1>1. job[w] = NoJob \/ job[w] \in JobRecord
  BY DEF NoticeInv, JobRecord
<1>2. \A st \in JobStage : at(w, st) <=> job[w].stage = st
  BY JobShapes DEF at
<1>3. \A e : heldBy(w, e) <=> holds(job[w]) /\ event(w) = e
  BY <1>2 DEF heldBy, holds, JobStage
<1>4. ASSUME job[w] # NoJob
      PROVE  /\ job[w].stream \in Stream /\ job[w].offset \in DOMAIN log[job[w].stream]
             /\ noteworthy(event(w)) => event(w) \in DOMAIN payloads
             /\ job[w].stage # "settled" => noteworthy(event(w))
  <2>1. job[w].stream \in Stream /\ job[w].offset \in Nat \ {0}
    BY <1>1, <1>4 DEF JobRecord
  <2>2. job[w].offset <= Len(log[job[w].stream]) /\ (job[w].stage # "settled" => noteworthy(event(w)))
    BY <1>4 DEF NoticeInv
  <2>3. log[job[w].stream] \in Seq(FactRecord \union {Foreign})
    BY <2>1 DEF LogKnown, LogTyped
  <2>4. job[w].offset \in DOMAIN log[job[w].stream]
    BY <2>1, <2>2, <2>3
  <2>5. noteworthy(event(w)) => event(w) \in DOMAIN payloads
    BY <2>1, <2>4 DEF LogKnown, noteworthy, parses, event
  <2> QED
    BY <2>1, <2>2, <2>4, <2>5
<1> QED
  BY <1>1, <1>2, <1>3, <1>4

(* A worker moves on with its job, or drops it.                            *)
LEMMA JobMoves ==
  ASSUME LogKnown, NoticeInv, NEW w \in Worker, job[w] # NoJob, NEW j,
         job' = [job EXCEPT ![w] = j],
         \/ j = NoJob
         \/ j \in JobRecord /\ j.stream = job[w].stream /\ j.offset = job[w].offset,
         UNCHANGED <<log, payloads>>
  PROVE  /\ job' \in [Worker -> {NoJob} \union JobRecord] /\ job'[w] = j
         /\ \A v \in Worker : v # w => job'[v] = job[v] /\ event(v)' = event(v)
         /\ \A v \in Worker : v # w => \A e : heldBy(v, e)' <=> heldBy(v, e)
         /\ j # NoJob => event(w)' = event(w)
         /\ \A e : heldBy(w, e)' <=> holds(j) /\ event(w) = e
         /\ \A e : noteworthy(e)' = noteworthy(e)
<1>1. /\ job' \in [Worker -> {NoJob} \union JobRecord] /\ job'[w] = j
      /\ \A v \in Worker : v # w => job'[v] = job[v]
  BY DEF NoticeInv, JobRecord
<1>2. \A v \in Worker : v # w => event(v)' = event(v) /\ \A e : heldBy(v, e)' <=> heldBy(v, e)
  BY <1>1 DEF event, heldBy, at
<1>3. j # NoJob => event(w)' = event(w)
  BY <1>1 DEF event
<1>4. \A e : heldBy(w, e)' <=> holds(j) /\ event(w) = e
  <2>1. CASE j = NoJob
    BY <1>1, <2>1, JobShapes DEF heldBy, at
  <2>2. CASE j # NoJob
    BY <1>1, <1>3, <2>2 DEF heldBy, at, holds
  <2> QED
    BY <2>1, <2>2
<1>5. \A e : noteworthy(e)' = noteworthy(e)
  BY DEF noteworthy, parses, factType, notified
<1> QED
  BY <1>1, <1>2, <1>3, <1>4, <1>5

(* What a step may do to the ledger row of its job's event, and to the     *)
(* mailbox.                                                                *)
ledgerMove(w, j, e) ==
  \/ /\ ledger' = ledger
     /\ holds(j) => heldBy(w, e)
     /\ heldBy(w, e) => holds(j) \/ e \in answered'
  \/ /\ e \notin ledger /\ ledger' = ledger \union {e} /\ e \in DOMAIN payloads
     /\ holds(j) \/ e \in answered'
  \/ heldBy(w, e) /\ ledger' = ledger \ {e} /\ ~ holds(j)

mailMove(w, j, e) ==
  \/ mailbox' = mailbox
  \/ /\ mailbox' = Append(mailbox, e) /\ heldBy(w, e) /\ e \in DOMAIN payloads
     /\ ledger' = ledger /\ (e \notin unsure' => ~ holds(j))

(* What a worker's step must do for the invariant, whatever it is.         *)
LEMMA WorkerStep ==
  ASSUME LogKnown, NoticeInv, NEW w \in Worker, job[w] # NoJob, NEW j, NEW e, e = event(w),
         job' = [job EXCEPT ![w] = j],
         \/ j = NoJob
         \/ j \in JobRecord /\ j.stream = job[w].stream /\ j.offset = job[w].offset,
         UNCHANGED <<log, payloads, owner>>,
         (* No offset is committed but the job's own.                      *)
         acked' \in [Stream -> Nat],
         \A s \in Stream : acked'[s] <= Len(log[s]),
         \A s \in Stream : \A k \in 1..acked'[s] : k \in 1..acked[s] \/ log[s][k] = e,
         (* No ledger row comes or goes but the job's own.                 *)
         ledgerMove(w, j, e),
         (* No answer is taken back.                                       *)
         answered \subseteq answered', unsure \subseteq unsure',
         degraded' \union deadMail' \union unsure' \union abandoned' \subseteq DOMAIN payloads,
         mailMove(w, j, e),
         (* The job is not forgotten.                                      *)
         j # NoJob /\ j.stage # "settled" => noteworthy(e),
         noteworthy(e) => \/ e \in answered'
                          \/ j # NoJob /\ j.stage # "settled"
                          \/ job[w].stage = "settled"
                          \/ e \in ledger /\ ~ heldBy(w, e)
  PROVE  NoticeInv'
<1> USE DEF ledgerMove, mailMove
<1>1. /\ job' \in [Worker -> {NoJob} \union JobRecord] /\ job'[w] = j
      /\ \A v \in Worker : v # w => job'[v] = job[v] /\ event(v)' = event(v)
      /\ \A v \in Worker : v # w => \A x : heldBy(v, x)' <=> heldBy(v, x)
      /\ j # NoJob => event(w)' = e
      /\ \A x : heldBy(w, x)' <=> holds(j) /\ x = e
      /\ \A x : noteworthy(x)' = noteworthy(x)
  BY JobMoves
<1>2. \A v \in Worker :
        /\ \A x : heldBy(v, x) <=> holds(job[v]) /\ event(v) = x
        /\ \A x : heldBy(v, x) => event(v) = x /\ event(v) \in ledger /\ job[v] # NoJob /\ job[v].stage # "settled"
  <2> TAKE v \in Worker
  <2>1. \A x : heldBy(v, x) <=> holds(job[v]) /\ event(v) = x
    BY JobTyped
  <2>2. holds(job[v]) => job[v] # NoJob /\ job[v].stage # "settled" /\ event(v) \in ledger
    BY JobShapes DEF NoticeInv, holds
  <2> QED
    BY <2>1, <2>2
<1>3. /\ \A v, u \in Worker : \A x \in ledger : heldBy(v, x) /\ heldBy(u, x) => v = u
      /\ \A x \in ledger : x \in answered \/ \E v \in Worker : heldBy(v, x)
      /\ \A i \in DOMAIN mailbox : mailbox[i] \notin unsure =>
           /\ mailbox[i] \in ledger
           /\ \A v \in Worker : ~ heldBy(v, mailbox[i])
           /\ \A h \in DOMAIN mailbox : mailbox[h] = mailbox[i] => h = i
      /\ \A s \in Stream : \A k \in 1..acked[s] : noteworthy(log[s][k]) => accounted(log[s][k])
      /\ \A v \in Worker : job[v] # NoJob =>
           /\ job[v].offset <= Len(log[job[v].stream])
           /\ job[v].stage # "settled" => noteworthy(event(v))
           /\ job[v].stage = "settled" /\ noteworthy(event(v)) => accounted(event(v))
      /\ ledger \subseteq DOMAIN payloads /\ mailbox \in Seq(DOMAIN payloads) /\ owner \in Worker
  BY DEF NoticeInv
<1>4. \A v \in Worker : heldBy(v, e) => v = w \/ ~ heldBy(w, e)
  BY <1>2, <1>3
(* Whoever was accounted for still is.                                     *)
<1>5. \A x : x \in answered' => accounted(x)'
  BY DEF accounted
<1>6. ASSUME NEW v \in Worker, v # w, job[v] # NoJob, job[v].stage # "settled"
      PROVE  accounted(event(v))'
  <2>1. PICK x : x = event(v)
    OBVIOUS
  <2>2. job'[v] # NoJob /\ job'[v].stage # "settled" /\ event(v)' = x
    BY <1>1, <1>6, <2>1
  <2>3. accounted(x)'
    BY <2>2 DEF accounted
  <2>4. event(v)' = event(v)
    BY <1>1, <1>6
  <2> QED
    BY <2>1, <2>2, <2>3 DEF accounted
<1>7. j # NoJob /\ j.stage # "settled" => accounted(e)'
  BY <1>1 DEF accounted
<1>8. ASSUME NEW x, x # e, accounted(x)
      PROVE  accounted(x)'
  <2>1. CASE x \in answered
    BY <1>5, <2>1
  <2>2. CASE x \notin answered
    <3>1. PICK v \in Worker : job[v] # NoJob /\ job[v].stage # "settled" /\ event(v) = x
      BY <1>8, <2>2 DEF accounted
    <3>2. v # w
      BY <1>8, <3>1
    <3>3. job'[v] # NoJob /\ job'[v].stage # "settled" /\ event(v)' = x
      BY <1>1, <3>1, <3>2
    <3> QED
      BY <3>3 DEF accounted
  <2> QED
    BY <2>1, <2>2
<1>9. noteworthy(e) => accounted(e)'
  <2> SUFFICES ASSUME noteworthy(e), e \notin answered' PROVE accounted(e)'
    BY <1>5
  <2>0. e \notin answered
    OBVIOUS
  <2>1. CASE j # NoJob /\ j.stage # "settled"
    BY <1>7, <2>1
  <2>2. CASE job[w].stage = "settled"
    <3>1. accounted(e)
      BY <1>3, <2>2
    <3>2. PICK v \in Worker : job[v] # NoJob /\ job[v].stage # "settled" /\ event(v) = e
      BY <2>0, <3>1 DEF accounted
    <3>3. job'[v] # NoJob /\ job'[v].stage # "settled" /\ event(v)' = e
      BY <1>1, <2>2, <3>2
    <3> QED
      BY <3>3 DEF accounted
  <2>3. CASE e \in ledger /\ ~ heldBy(w, e)
    <3>1. PICK v \in Worker : heldBy(v, e)
      BY <1>3, <2>0, <2>3
    <3>2. job[v] # NoJob /\ job[v].stage # "settled" /\ event(v) = e /\ v # w
      BY <1>2, <2>3, <3>1
    <3>3. job'[v] # NoJob /\ job'[v].stage # "settled" /\ event(v)' = e
      BY <1>1, <3>2
    <3> QED
      BY <3>3 DEF accounted
  <2> QED
    BY <2>1, <2>2, <2>3
<1>10. \A x : accounted(x) /\ noteworthy(x) => accounted(x)'
  BY <1>8, <1>9
<1>11. \A s \in Stream : \A k \in 1..acked'[s] :
         noteworthy(log[s][k])' => accounted(log[s][k])'
  <2> TAKE s \in Stream
  <2> TAKE k \in 1..acked'[s]
  <2>1. PICK x : x = log[s][k]
    OBVIOUS
  <2>2. noteworthy(x) => accounted(x)'
    BY <1>3, <1>9, <1>10, <2>1
  <2>3. noteworthy(log[s][k])' <=> noteworthy(x)
    BY <2>1 DEF noteworthy, parses, factType, notified
  <2>4. accounted(log[s][k])' <=> accounted(x)'
    BY <2>1 DEF accounted
  <2> QED
    BY <2>2, <2>3, <2>4

(* The ledger and its holders.                                             *)
<1>12. ledger' \subseteq DOMAIN payloads
  BY <1>3
<1>13. \A v \in Worker : \A x : heldBy(v, x)' => x \in ledger'
  <2> SUFFICES ASSUME NEW v \in Worker, NEW x, heldBy(v, x)' PROVE x \in ledger'
    OBVIOUS
  <2>1. CASE v = w
    BY <1>1, <1>2, <2>1
  <2>2. CASE v # w
    <3>1. heldBy(v, x) /\ x \in ledger
      BY <1>1, <1>2, <2>2
    <3>2. x = e => ~ heldBy(w, e)
      BY <1>3, <2>2, <3>1
    <3> QED
      BY <3>1, <3>2
  <2> QED
    BY <2>1, <2>2
<1>14. \A v, u \in Worker : \A x \in ledger' : heldBy(v, x)' /\ heldBy(u, x)' => v = u
  <2>1. ASSUME NEW v \in Worker, v # w, heldBy(v, e)', heldBy(w, e)'
        PROVE  FALSE
    <3>1. heldBy(v, e) /\ e \in ledger /\ holds(j)
      BY <1>1, <1>2, <2>1
    <3>2. heldBy(w, e)
      BY <3>1
    <3> QED
      BY <1>3, <2>1, <3>1, <3>2
  <2>2. ASSUME NEW v \in Worker, NEW u \in Worker, NEW x, heldBy(v, x)', heldBy(u, x)'
        PROVE  v = u
    <3>1. CASE v = w /\ u # w
      BY <1>1, <2>1, <2>2, <3>1
    <3>2. CASE u = w /\ v # w
      BY <1>1, <2>1, <2>2, <3>2
    <3>3. CASE v # w /\ u # w
      BY <1>1, <1>2, <1>3, <2>2, <3>3
    <3> QED
      BY <3>1, <3>2, <3>3
  <2> QED
    BY <2>2
<1>15. \A x \in ledger' : x \in answered' \/ \E v \in Worker : heldBy(v, x)'
  <2> SUFFICES ASSUME NEW x \in ledger', x \notin answered' PROVE \E v \in Worker : heldBy(v, x)'
    OBVIOUS
  <2>0. x \notin answered
    OBVIOUS
  <2>1. CASE x # e
    <3>1. PICK v \in Worker : heldBy(v, x)
      BY <1>3, <2>0, <2>1
    <3>2. v # w
      BY <1>2, <2>1, <3>1
    <3> QED
      BY <1>1, <3>1, <3>2
  <2>2. CASE x = e
    <3>1. CASE holds(j)
      BY <1>1, <2>2, <3>1
    <3>2. CASE ~ holds(j)
      <4>1. ledger' = ledger /\ ~ heldBy(w, e)
        BY <2>2, <3>2
      <4>2. PICK v \in Worker : heldBy(v, e)
        BY <1>3, <2>0, <2>2, <4>1
      <4> QED
        BY <1>1, <2>2, <4>1, <4>2
    <3> QED
      BY <3>1, <3>2
  <2> QED
    BY <2>1, <2>2
(* The mailbox.                                                            *)
<1>16. ASSUME NEW i \in DOMAIN mailbox, NEW x, x = mailbox[i], x \notin unsure'
       PROVE  /\ x \in ledger' /\ \A v \in Worker : ~ heldBy(v, x)'
              /\ \A h \in DOMAIN mailbox : mailbox[h] = x => h = i
              /\ heldBy(w, e) => x # e
  <2>1. /\ x \in ledger
        /\ \A v \in Worker : ~ heldBy(v, x)
        /\ \A h \in DOMAIN mailbox : mailbox[h] = x => h = i
    BY <1>3, <1>16
  <2>2. heldBy(w, e) => x # e
    BY <2>1
  <2>3. \A v \in Worker : ~ heldBy(v, x)'
    <3> TAKE v \in Worker
    <3>1. CASE v = w
      BY <1>1, <2>1, <2>2, <3>1
    <3>2. CASE v # w
      BY <1>1, <2>1, <3>2
    <3> QED
      BY <3>1, <3>2
  <2>4. x \in ledger'
    BY <2>1, <2>2
  <2> QED
    BY <2>1, <2>2, <2>3, <2>4
<1>17. ASSUME NEW i \in DOMAIN mailbox', NEW x, x = mailbox'[i], x \notin unsure'
       PROVE  /\ x \in ledger' /\ \A v \in Worker : ~ heldBy(v, x)'
              /\ \A h \in DOMAIN mailbox' : mailbox'[h] = x => h = i
  <2>1. CASE mailbox' = mailbox
    BY <1>16, <1>17, <2>1
  <2>2. CASE mailbox' = Append(mailbox, e) /\ heldBy(w, e)
    <3> DEFINE L == Len(mailbox)
    <3>1. /\ L \in Nat /\ DOMAIN mailbox = 1..L /\ DOMAIN mailbox' = 1..(L + 1)
          /\ \A h \in 1..L : mailbox'[h] = mailbox[h]
          /\ mailbox'[L + 1] = e
      BY <1>3, <2>2
    <3> HIDE DEF L
    <3>2. \A h \in 1..(L + 1) : h \in 1..L \/ h = L + 1
      BY <3>1
    <3>3. CASE i \in 1..L
      <4>1. x = mailbox[i] /\ x # e
        BY <1>16, <1>17, <2>2, <3>1, <3>3
      <4> QED
        BY <1>16, <1>17, <3>1, <3>2, <3>3, <4>1
    <3>4. CASE i = L + 1
      <4>1. x = e /\ e \notin unsure' /\ e \in ledger /\ ledger' = ledger /\ ~ holds(j)
        <5>1. x = e /\ e \in ledger
          BY <1>2, <1>17, <2>2, <3>1, <3>4
        <5>2. ~ holds(j) /\ ledger' = ledger
          <6>1. Len(Append(mailbox, e)) = Len(mailbox) + 1
            BY <1>3, <2>2
          <6>2. mailbox' # mailbox
            BY <1>3, <2>2, <6>1
          <6> QED
            BY <1>17, <5>1, <6>2
        <5> QED
          BY <1>17, <5>1, <5>2
      <4>2. \A v \in Worker : ~ heldBy(v, e)'
        BY <1>1, <1>4, <2>2, <4>1
      <4>3. ASSUME NEW h \in 1..L, mailbox[h] = e
            PROVE  FALSE
        BY <1>16, <2>2, <3>1, <4>1, <4>3
      <4> QED
        BY <3>1, <3>2, <3>4, <4>1, <4>2, <4>3
    <3> QED
      BY <1>17, <3>1, <3>2, <3>3, <3>4
  <2> QED
    BY <2>1, <2>2
<1>18. \A i \in DOMAIN mailbox' : mailbox'[i] \notin unsure' =>
         /\ mailbox'[i] \in ledger'
         /\ \A v \in Worker : ~ heldBy(v, mailbox[i])'
         /\ \A h \in DOMAIN mailbox' : mailbox'[h] = mailbox'[i] => h = i
  <2> SUFFICES ASSUME NEW i \in DOMAIN mailbox', mailbox'[i] \notin unsure'
               PROVE  /\ mailbox'[i] \in ledger'
                      /\ \A v \in Worker : ~ heldBy(v, mailbox[i])'
                      /\ \A h \in DOMAIN mailbox' : mailbox'[h] = mailbox'[i] => h = i
    OBVIOUS
  <2>1. PICK x : x = mailbox'[i]
    OBVIOUS
  <2>2. /\ x \in ledger' /\ \A v \in Worker : ~ heldBy(v, x)'
        /\ \A h \in DOMAIN mailbox' : mailbox'[h] = x => h = i
    BY <1>17, <2>1
  <2> QED
    BY <2>1, <2>2 DEF heldBy
<1>19. mailbox' \in Seq(DOMAIN payloads')
  <2>1. CASE mailbox' = mailbox
    BY <1>3, <2>1
  <2>2. CASE mailbox' = Append(mailbox, e) /\ e \in DOMAIN payloads
    <3>1. mailbox \in Seq(DOMAIN payloads) /\ payloads' = payloads
      BY <1>3
    <3> QED
      BY ONLY <2>2, <3>1
  <2> QED
    BY <2>1, <2>2
(* The jobs.                                                               *)
<1>20. ASSUME NEW v \in Worker, job'[v] # NoJob
       PROVE  /\ job'[v].offset <= Len(log'[job'[v].stream])
              /\ job'[v].stage # "settled" => noteworthy(event(v))'
              /\ job'[v].stage = "settled" /\ noteworthy(event(v))' => accounted(event(v))'
              /\ job'[v].stage \in {"sending", "failing"} => event(v)' \in ledger'
  <2>1. PICK x : x = event(v)'
    OBVIOUS
  <2>2. x = event(v) /\ job[v] # NoJob
    BY <1>1, <1>20, <2>1
  <2>3. noteworthy(event(v))' <=> noteworthy(x)
    BY <1>1, <2>1 DEF noteworthy, parses, factType, notified
  <2>4. accounted(event(v))' <=> accounted(x)'
    BY <2>1 DEF accounted
  <2>5. job'[v].stage \in {"sending", "failing"} => x \in ledger'
    <3>1. holds(job'[v]) => heldBy(v, x)'
      <4>1. CASE v = w
        BY <1>1, <2>2, <4>1
      <4>2. CASE v # w
        BY <1>1, <1>2, <2>2, <4>2
      <4> QED
        BY <4>1, <4>2
    <3> QED
      BY <1>13, <3>1 DEF holds
  <2>6. job'[v].stage # "settled" => noteworthy(x)
    <3>1. CASE v = w
      BY <1>1, <1>20, <2>2, <3>1
    <3>2. CASE v # w
      BY <1>1, <1>3, <2>2, <3>2
    <3> QED
      BY <3>1, <3>2
  <2>7. job'[v].stage = "settled" /\ noteworthy(x) => accounted(x)'
    <3>1. CASE v = w
      BY <1>1, <1>9, <2>2, <3>1
    <3>2. CASE v # w
      BY <1>1, <1>3, <1>10, <2>2, <3>2
    <3> QED
      BY <3>1, <3>2
  <2>8. job'[v].offset <= Len(log'[job'[v].stream])
    <3>1. CASE v = w
      BY <1>1, <1>3, <1>20, <3>1
    <3>2. CASE v # w
      BY <1>1, <1>3, <2>2, <3>2
    <3> QED
      BY <3>1, <3>2
  <2> QED
    BY <2>1, <2>3, <2>4, <2>5, <2>6, <2>7, <2>8
<1>21. /\ owner' \in Worker /\ acked' \in [Stream -> Nat]
       /\ \A s \in Stream : acked'[s] <= Len(log'[s])
       /\ job' \in [Worker -> {NoJob} \union [stage : JobStage, stream : Stream,
                                              offset : Nat \ {0}, attempt : 1..MaxSendAttempts]]
       /\ ledger' \union degraded' \union deadMail' \union unsure' \union abandoned'
            \subseteq DOMAIN payloads'
  BY <1>1, <1>3, <1>12 DEF JobRecord
<1> QED
  BY <1>11, <1>14, <1>15, <1>18, <1>19, <1>20, <1>21 DEF NoticeInv

LEMMA Moved ==
  ASSUME NoticeInv, NEW w \in Worker, job[w] \in JobRecord, NEW st \in JobStage, move(w, st)
  PROVE  \E j \in JobRecord : /\ job' = [job EXCEPT ![w] = j] /\ j.stage = st
                              /\ j.stream = job[w].stream /\ j.offset = job[w].offset
<1> DEFINE j == [job[w] EXCEPT !.stage = st]
<1>1. /\ j \in JobRecord /\ j.stage = st
      /\ j.stream = job[w].stream /\ j.offset = job[w].offset
  BY DEF JobRecord
<1>2. job' = [job EXCEPT ![w] = j]
  BY DEF move
<1> QED
  BY <1>1, <1>2

LEMMA Retried ==
  ASSUME NotifierAssumption, NoticeInv, NEW w \in Worker, job[w] \in JobRecord, nextAttempt(w)
  PROVE  \E j \in JobRecord : /\ job' = [job EXCEPT ![w] = j] /\ j.stage \in {"recording", "exhausted"}
                              /\ j.stream = job[w].stream /\ j.offset = job[w].offset
<1> DEFINE j == IF job[w].attempt < MaxSendAttempts
                THEN [job[w] EXCEPT !.stage = "recording", !.attempt = @ + 1]
                ELSE [job[w] EXCEPT !.stage = "exhausted"]
<1>1. job' = [job EXCEPT ![w] = j]
  BY DEF nextAttempt, move
<1>2. job[w].attempt \in 1..MaxSendAttempts /\ MaxSendAttempts \in Nat
  BY NotifierAssumption DEF JobRecord
<1>3. job[w].attempt < MaxSendAttempts => job[w].attempt + 1 \in 1..MaxSendAttempts
  BY <1>2
<1>4. /\ j \in JobRecord /\ j.stage \in {"recording", "exhausted"}
      /\ j.stream = job[w].stream /\ j.offset = job[w].offset
  BY <1>3 DEF JobRecord, JobStage
<1> QED
  BY <1>1, <1>4

LEMMA AppendRange ==
  ASSUME NEW T, NEW q \in Seq(T), NEW x \in T
  PROVE  Range(Append(q, x)) = Range(q) \union {x}
<1>1. /\ Len(q) \in Nat /\ DOMAIN q = 1..Len(q) /\ DOMAIN Append(q, x) = 1..(Len(q) + 1)
      /\ \A i \in 1..Len(q) : Append(q, x)[i] = q[i]
      /\ Append(q, x)[Len(q) + 1] = x
  OBVIOUS
<1>2. \A i \in 1..(Len(q) + 1) : i \in 1..Len(q) \/ i = Len(q) + 1
  BY <1>1
<1>3. Len(q) + 1 \in 1..(Len(q) + 1) /\ \A i \in 1..Len(q) : i \in 1..(Len(q) + 1)
  BY <1>1
<1> QED
  BY <1>1, <1>2, <1>3 DEF Range

(* The parts of a worker's state a step may leave alone.                   *)
LEMMA NoticesTyped ==
  ASSUME NoticeInv
  PROVE  /\ acked \in [Stream -> Nat] /\ \A s \in Stream : acked[s] <= Len(log[s])
         /\ degraded \union deadMail \union unsure \union abandoned \subseteq DOMAIN payloads
BY DEF NoticeInv

LEMMA RecordInLedgerStep ==
  ASSUME LogKnown, NoticeInv, NEW w \in Worker, RecordInLedger(w)
  PROVE  NoticeInv'
<1>1. /\ job[w] # NoJob /\ job[w].stage = "recording" /\ job[w] \in JobRecord
      /\ noteworthy(event(w)) /\ event(w) \in DOMAIN payloads
      /\ \A e : ~ heldBy(w, e)
  BY JobTyped DEF RecordInLedger, at, holds
<1>2. PICK e : e = event(w)
  OBVIOUS
<1>3. UNCHANGED <<log, payloads, owner, acked, mailbox, degraded, deadMail, unsure, abandoned>>
  BY DEF RecordInLedger, topicVars
<1>4. answered \subseteq answered'
  BY <1>3 DEF answered
<1>5. CASE inLedger(w)
  <2>1. move(w, "settled") /\ ledger' = ledger /\ e \in ledger
    BY <1>2, <1>5 DEF RecordInLedger, inLedger
  <2>2. PICK j \in JobRecord : /\ job' = [job EXCEPT ![w] = j] /\ j.stage = "settled"
                               /\ j.stream = job[w].stream /\ j.offset = job[w].offset
    BY <1>1, <2>1, Moved DEF JobStage
  <2>3. ~ holds(j)
    BY <2>2 DEF holds
  <2> QED
    BY <1>1, <1>2, <1>3, <1>4, <2>1, <2>2, <2>3, NoticesTyped, WorkerStep DEF ledgerMove, mailMove
<1>6. CASE ~ inLedger(w)
  <2>1. move(w, "sending") /\ ledger' = ledger \union {e} /\ e \notin ledger
    BY <1>2, <1>6 DEF RecordInLedger, inLedger
  <2>2. PICK j \in JobRecord : /\ job' = [job EXCEPT ![w] = j] /\ j.stage = "sending"
                               /\ j.stream = job[w].stream /\ j.offset = job[w].offset
    BY <1>1, <2>1, Moved DEF JobStage
  <2>3. holds(j) /\ j # NoJob
    BY <2>2, JobShapes DEF holds
  <2> QED
    BY <1>1, <1>2, <1>3, <1>4, <2>1, <2>2, <2>3, NoticesTyped, WorkerStep DEF ledgerMove, mailMove
<1> QED
  BY <1>5, <1>6

LEMMA RecordFailsStep ==
  ASSUME NotifierAssumption, LogKnown, NoticeInv, NEW w \in Worker, RecordFails(w)
  PROVE  NoticeInv'
<1>1. /\ job[w] # NoJob /\ job[w].stage = "recording" /\ job[w] \in JobRecord
      /\ noteworthy(event(w)) /\ event(w) \in DOMAIN payloads
      /\ \A e : ~ heldBy(w, e)
  BY JobTyped DEF RecordFails, at, holds
<1>2. PICK e : e = event(w)
  OBVIOUS
<1>3. /\ UNCHANGED <<log, payloads, owner, acked, mailbox, degraded, deadMail, unsure>>
      /\ nextAttempt(w)
      /\ \/ UNCHANGED <<ledger, abandoned>>
         \/ e \notin ledger /\ ledger' = ledger \union {e} /\ abandoned' = abandoned \union {e}
  BY <1>2 DEF RecordFails, inLedger
<1>4. PICK j \in JobRecord : /\ job' = [job EXCEPT ![w] = j] /\ j.stage \in {"recording", "exhausted"}
                             /\ j.stream = job[w].stream /\ j.offset = job[w].offset
  BY <1>1, <1>3, Retried
<1>5. ~ holds(j) /\ j # NoJob /\ j.stage # "settled"
  BY <1>4, JobShapes DEF holds
<1>6. answered \subseteq answered' /\ (e \in answered' \/ ledger' = ledger)
  BY <1>3 DEF answered
<1>7. ledgerMove(w, j, e) /\ mailMove(w, j, e)
  BY <1>1, <1>2, <1>3, <1>5, <1>6 DEF ledgerMove, mailMove
<1>8. /\ degraded' \union deadMail' \union unsure' \union abandoned' \subseteq DOMAIN payloads
      /\ unsure \subseteq unsure'
  BY <1>1, <1>2, <1>3, NoticesTyped
<1> QED
  BY <1>1, <1>2, <1>3, <1>4, <1>5, <1>6, <1>7, <1>8, NoticesTyped, WorkerStep

LEMMA SendStepKeeps ==
  ASSUME LogKnown, NoticeInv, NEW w \in Worker, Send(w)
  PROVE  NoticeInv'
<1>1. /\ job[w] # NoJob /\ job[w].stage = "sending" /\ job[w] \in JobRecord
      /\ noteworthy(event(w)) /\ event(w) \in DOMAIN payloads
      /\ heldBy(w, event(w))
  BY JobTyped DEF Send, at, holds
<1>2. PICK e : e = event(w)
  OBVIOUS
<1>3. /\ UNCHANGED <<log, payloads, owner, acked, ledger, degraded, deadMail, unsure, abandoned>>
      /\ mailbox' = Append(mailbox, e) /\ move(w, "settled")
  BY <1>2 DEF Send, topicVars
<1>4. PICK j \in JobRecord : /\ job' = [job EXCEPT ![w] = j] /\ j.stage = "settled"
                             /\ j.stream = job[w].stream /\ j.offset = job[w].offset
  BY <1>1, <1>3, Moved DEF JobStage
<1>5. ~ holds(j)
  BY <1>4 DEF holds
<1>6. answered \subseteq answered' /\ e \in answered'
  <2>1. mailbox \in Seq(DOMAIN payloads) /\ e \in DOMAIN payloads
    BY <1>1, <1>2 DEF NoticeInv
  <2>2. Range(mailbox') = Range(mailbox) \union {e}
    BY <1>3, <2>1, AppendRange
  <2> QED
    BY <1>3, <2>2 DEF answered
<1>7. /\ acked' \in [Stream -> Nat] /\ \A s \in Stream : acked'[s] <= Len(log[s])
      /\ \A s \in Stream : \A k \in 1..acked'[s] : k \in 1..acked[s]
      /\ degraded' \union deadMail' \union unsure' \union abandoned' \subseteq DOMAIN payloads
      /\ unsure \subseteq unsure'
  BY <1>3, NoticesTyped
<1>8. /\ job[w] # NoJob /\ UNCHANGED <<log, payloads, owner>>
      /\ j \in JobRecord /\ j.stream = job[w].stream /\ j.offset = job[w].offset
      /\ job' = [job EXCEPT ![w] = j]
      /\ answered \subseteq answered' /\ e \in answered'
      /\ ~ (j.stage # "settled")
  BY <1>1, <1>3, <1>4, <1>6
<1>9. ledgerMove(w, j, e) /\ mailMove(w, j, e)
  BY <1>1, <1>2, <1>3, <1>5, <1>6 DEF ledgerMove, mailMove
<1> QED
  BY ONLY LogKnown, NoticeInv, w \in Worker, <1>2, <1>7, <1>8, <1>9, WorkerStep

LEMMA UnbuildableStep ==
  ASSUME LogKnown, NoticeInv, NEW w \in Worker, Unbuildable(w)
  PROVE  NoticeInv'
<1>1. /\ job[w] # NoJob /\ job[w].stage = "sending" /\ job[w] \in JobRecord
      /\ noteworthy(event(w)) /\ event(w) \in DOMAIN payloads
      /\ heldBy(w, event(w))
  BY JobTyped DEF Unbuildable, at, holds
<1>2. PICK e : e = event(w)
  OBVIOUS
<1>3. /\ UNCHANGED <<log, payloads, owner, acked, ledger, mailbox, degraded, deadMail, unsure, abandoned>>
      /\ move(w, "failing")
  BY DEF Unbuildable, topicVars
<1>4. PICK j \in JobRecord : /\ job' = [job EXCEPT ![w] = j] /\ j.stage = "failing"
                             /\ j.stream = job[w].stream /\ j.offset = job[w].offset
  BY <1>1, <1>3, Moved DEF JobStage
<1>5. holds(j) /\ j # NoJob /\ j.stage # "settled"
  BY <1>4, JobShapes DEF holds
<1>6. answered \subseteq answered'
  BY <1>3 DEF answered
<1> QED
  BY <1>1, <1>2, <1>3, <1>4, <1>5, <1>6, NoticesTyped, WorkerStep DEF ledgerMove, mailMove

LEMMA SendFailsStep ==
  ASSUME LogKnown, NoticeInv, NEW w \in Worker, SendFails(w)
  PROVE  NoticeInv'
<1>1. /\ job[w] # NoJob /\ job[w].stage = "sending" /\ job[w] \in JobRecord
      /\ noteworthy(event(w)) /\ event(w) \in DOMAIN payloads
      /\ heldBy(w, event(w))
  BY JobTyped DEF SendFails, at, holds
<1>2. PICK e : e = event(w)
  OBVIOUS
<1>3. UNCHANGED <<log, payloads, owner, acked, ledger, deadMail, abandoned>>
  BY DEF SendFails
<1>4. /\ acked' \in [Stream -> Nat] /\ \A s \in Stream : acked'[s] <= Len(log[s])
      /\ \A s \in Stream : \A k \in 1..acked'[s] : k \in 1..acked[s]
      /\ degraded \union deadMail' \union unsure \union abandoned' \subseteq DOMAIN payloads
  BY <1>3, NoticesTyped
<1>5. heldBy(w, e) /\ e \in DOMAIN payloads /\ noteworthy(e)
  BY <1>1, <1>2
<1>6. CASE /\ degraded' = degraded \union {e} /\ UNCHANGED <<mailbox, unsure>>
           /\ move(w, "settled")
  <2>1. PICK j \in JobRecord : /\ job' = [job EXCEPT ![w] = j] /\ j.stage = "settled"
                               /\ j.stream = job[w].stream /\ j.offset = job[w].offset
    BY <1>1, <1>6, Moved DEF JobStage
  <2>2. ~ holds(j)
    BY <2>1 DEF holds
  <2>3. answered \subseteq answered' /\ e \in answered'
    BY <1>3, <1>6 DEF answered
  <2>4. ledgerMove(w, j, e) /\ mailMove(w, j, e)
    BY <1>3, <1>5, <1>6, <2>2, <2>3 DEF ledgerMove, mailMove
  <2>5. /\ degraded' \union deadMail' \union unsure' \union abandoned' \subseteq DOMAIN payloads
        /\ unsure \subseteq unsure'
    BY <1>4, <1>5, <1>6
  <2> QED
    BY <1>1, <1>2, <1>3, <1>4, <1>5, <2>1, <2>3, <2>4, <2>5, WorkerStep
<1>7. CASE /\ UNCHANGED <<mailbox, unsure, degraded>>
           /\ move(w, "failing")
  <2>1. PICK j \in JobRecord : /\ job' = [job EXCEPT ![w] = j] /\ j.stage = "failing"
                               /\ j.stream = job[w].stream /\ j.offset = job[w].offset
    BY <1>1, <1>7, Moved DEF JobStage
  <2>2. holds(j) /\ j # NoJob /\ j.stage # "settled"
    BY <2>1, JobShapes DEF holds
  <2>3. answered \subseteq answered'
    BY <1>3, <1>7 DEF answered
  <2>4. ledgerMove(w, j, e) /\ mailMove(w, j, e)
    BY <1>3, <1>5, <1>7, <2>2 DEF ledgerMove, mailMove
  <2>5. /\ degraded' \union deadMail' \union unsure' \union abandoned' \subseteq DOMAIN payloads
        /\ unsure \subseteq unsure'
    BY <1>4, <1>7
  <2> QED
    BY <1>1, <1>2, <1>3, <1>4, <1>5, <2>1, <2>2, <2>3, <2>4, <2>5, WorkerStep
<1>8. CASE /\ mailbox' = Append(mailbox, e) /\ unsure' = unsure \union {e}
           /\ UNCHANGED degraded /\ move(w, "failing")
  <2>1. PICK j \in JobRecord : /\ job' = [job EXCEPT ![w] = j] /\ j.stage = "failing"
                               /\ j.stream = job[w].stream /\ j.offset = job[w].offset
    BY <1>1, <1>8, Moved DEF JobStage
  <2>2. holds(j) /\ j # NoJob /\ j.stage # "settled"
    BY <2>1, JobShapes DEF holds
  <2>3. answered \subseteq answered'
    <3>1. mailbox \in Seq(DOMAIN payloads)
      BY DEF NoticeInv
    <3>2. Range(mailbox') = Range(mailbox) \union {e}
      BY <1>5, <1>8, <3>1, AppendRange
    <3> QED
      BY <1>3, <1>8, <3>2 DEF answered
  <2>4. ledgerMove(w, j, e) /\ mailMove(w, j, e)
    <3>1. ledger' = ledger /\ e \in unsure'
      BY <1>3, <1>8
    <3> QED
      BY <1>5, <1>8, <2>2, <3>1 DEF ledgerMove, mailMove
  <2>5. /\ degraded' \union deadMail' \union unsure' \union abandoned' \subseteq DOMAIN payloads
        /\ unsure \subseteq unsure'
    BY <1>4, <1>5, <1>8
  <2>6. job[w] # NoJob /\ UNCHANGED <<log, payloads, owner>>
    BY <1>1, <1>3
  <2> QED
    BY ONLY LogKnown, NoticeInv, w \in Worker, <1>2, <1>4, <1>5, <2>1, <2>2, <2>3, <2>4, <2>5,
            <2>6, WorkerStep
<1> QED
  BY <1>2, <1>6, <1>7, <1>8 DEF SendFails

LEMMA CompensateStep ==
  ASSUME NotifierAssumption, LogKnown, NoticeInv, NEW w \in Worker, Compensate(w)
  PROVE  NoticeInv'
<1>1. /\ job[w] # NoJob /\ job[w].stage = "failing" /\ job[w] \in JobRecord
      /\ noteworthy(event(w)) /\ event(w) \in DOMAIN payloads
      /\ heldBy(w, event(w))
  BY JobTyped DEF Compensate, at, holds
<1>2. PICK e : e = event(w)
  OBVIOUS
<1>3. /\ UNCHANGED <<log, payloads, owner, acked, mailbox, degraded, deadMail, unsure, abandoned>>
      /\ ledger' = ledger \ {e} /\ nextAttempt(w)
  BY <1>2 DEF Compensate, topicVars
<1>4. PICK j \in JobRecord : /\ job' = [job EXCEPT ![w] = j] /\ j.stage \in {"recording", "exhausted"}
                             /\ j.stream = job[w].stream /\ j.offset = job[w].offset
  BY <1>1, <1>3, Retried
<1>5. ~ holds(j) /\ j # NoJob /\ j.stage # "settled"
  BY <1>4, JobShapes DEF holds
<1>6. answered \subseteq answered'
  BY <1>3 DEF answered
<1>7. ledgerMove(w, j, e) /\ mailMove(w, j, e)
  BY <1>1, <1>2, <1>3, <1>5 DEF ledgerMove, mailMove
<1> QED
  BY <1>1, <1>2, <1>3, <1>4, <1>5, <1>6, <1>7, NoticesTyped, WorkerStep

LEMMA CompensateFailsStep ==
  ASSUME NotifierAssumption, LogKnown, NoticeInv, NEW w \in Worker, CompensateFails(w)
  PROVE  NoticeInv'
<1>1. /\ job[w] # NoJob /\ job[w].stage = "failing" /\ job[w] \in JobRecord
      /\ noteworthy(event(w)) /\ event(w) \in DOMAIN payloads
  BY JobTyped DEF CompensateFails, at
<1>2. PICK e : e = event(w)
  OBVIOUS
<1>3. /\ UNCHANGED <<log, payloads, owner, acked, ledger, mailbox, degraded, deadMail, unsure>>
      /\ abandoned' = abandoned \union {e} /\ nextAttempt(w)
  BY <1>2 DEF CompensateFails
<1>4. PICK j \in JobRecord : /\ job' = [job EXCEPT ![w] = j] /\ j.stage \in {"recording", "exhausted"}
                             /\ j.stream = job[w].stream /\ j.offset = job[w].offset
  BY <1>1, <1>3, Retried
<1>5. ~ holds(j) /\ j # NoJob /\ j.stage # "settled"
  BY <1>4, JobShapes DEF holds
<1>6. answered \subseteq answered' /\ e \in answered'
  BY <1>3 DEF answered
<1>7. ledgerMove(w, j, e) /\ mailMove(w, j, e)
  BY <1>3, <1>5, <1>6 DEF ledgerMove, mailMove
<1>8. /\ degraded' \union deadMail' \union unsure' \union abandoned' \subseteq DOMAIN payloads
      /\ unsure \subseteq unsure'
  BY <1>1, <1>2, <1>3, NoticesTyped
<1> QED
  BY <1>1, <1>2, <1>3, <1>4, <1>5, <1>6, <1>7, <1>8, NoticesTyped, WorkerStep

LEMMA PublishDeadMailStep ==
  ASSUME LogKnown, NoticeInv, NEW w \in Worker, PublishDeadMail(w)
  PROVE  NoticeInv'
<1>1. /\ job[w] # NoJob /\ job[w].stage = "exhausted" /\ job[w] \in JobRecord
      /\ noteworthy(event(w)) /\ event(w) \in DOMAIN payloads
      /\ \A x : ~ heldBy(w, x)
  BY JobTyped DEF PublishDeadMail, at, holds
<1>2. PICK e : e = event(w)
  OBVIOUS
<1>3. /\ UNCHANGED <<log, payloads, owner, acked, ledger, mailbox, degraded, unsure, abandoned>>
      /\ deadMail' = deadMail \union {e} /\ move(w, "settled")
  BY <1>2 DEF PublishDeadMail, topicVars
<1>4. PICK j \in JobRecord : /\ job' = [job EXCEPT ![w] = j] /\ j.stage = "settled"
                             /\ j.stream = job[w].stream /\ j.offset = job[w].offset
  BY <1>1, <1>3, Moved DEF JobStage
<1>5. ~ holds(j)
  BY <1>4 DEF holds
<1>6. answered \subseteq answered' /\ e \in answered'
  BY <1>3 DEF answered
<1>7. ledgerMove(w, j, e) /\ mailMove(w, j, e)
  BY <1>3, <1>5, <1>6 DEF ledgerMove, mailMove
<1>8. /\ degraded' \union deadMail' \union unsure' \union abandoned' \subseteq DOMAIN payloads
      /\ unsure \subseteq unsure'
  BY <1>1, <1>2, <1>3, NoticesTyped
<1> QED
  BY <1>1, <1>2, <1>3, <1>4, <1>6, <1>7, <1>8, NoticesTyped, WorkerStep

LEMMA AcknowledgeStep ==
  ASSUME LogKnown, NoticeInv, NEW w \in Worker, Acknowledge(w)
  PROVE  NoticeInv'
<1>1. /\ job[w] # NoJob /\ job[w].stage = "settled" /\ job[w] \in JobRecord
      /\ job[w].stream \in Stream /\ job[w].offset \in DOMAIN log[job[w].stream]
      /\ \A x : ~ heldBy(w, x)
  BY JobTyped DEF Acknowledge, at, holds
<1>2. PICK e : e = event(w)
  OBVIOUS
<1>3. /\ UNCHANGED <<log, payloads, owner, ledger, mailbox, degraded, deadMail, unsure, abandoned>>
      /\ job' = [job EXCEPT ![w] = NoJob]
  BY DEF Acknowledge, topicVars, drop
<1>4. /\ acked' \in [Stream -> Nat] /\ \A s \in Stream : acked'[s] <= Len(log[s])
      /\ \A s \in Stream : \A k \in 1..acked'[s] : k \in 1..acked[s] \/ log[s][k] = e
  <2>1. acked \in [Stream -> Nat] /\ \A s \in Stream : acked[s] <= Len(log[s])
    BY NoticesTyped
  <2>2. CASE acked' = acked
    BY <2>1, <2>2
  <2>3. CASE /\ acked' = [acked EXCEPT ![job[w].stream] = job[w].offset]
             /\ acked[job[w].stream] = job[w].offset - 1
    <3> DEFINE t == job[w].stream
               n == job[w].offset
    <3>1. t \in Stream /\ n \in Nat \ {0} /\ e = log[t][n]
      BY <1>1, <1>2 DEF JobRecord, event
    <3>2. n <= Len(log[t])
      BY <1>1 DEF NoticeInv
    <3>3. acked' = [acked EXCEPT ![t] = n] /\ acked[t] = n - 1
      BY <2>3
    <3> HIDE DEF t, n
    <3>4. acked' \in [Stream -> Nat] /\ acked'[t] = n
          /\ \A s \in Stream : s # t => acked'[s] = acked[s]
      BY <2>1, <3>1, <3>3
    <3>5. \A s \in Stream : acked'[s] <= Len(log[s])
      BY <2>1, <3>2, <3>4
    <3>6. \A k \in 1..acked'[t] : k \in 1..acked[t] \/ log[t][k] = e
      <4>1. \A k \in 1..n : k \in 1..(n - 1) \/ k = n
        BY <3>1
      <4> QED
        BY <3>1, <3>3, <3>4, <4>1
    <3> QED
      BY <3>4, <3>5, <3>6
  <2> QED
    BY <2>2, <2>3 DEF Acknowledge
<1>5. PICK j : j = NoJob
  OBVIOUS
<1>6. ~ holds(j)
  BY <1>5, JobShapes
<1>7. answered \subseteq answered'
  BY <1>3 DEF answered
<1>8. ledgerMove(w, j, e) /\ mailMove(w, j, e)
  BY <1>1, <1>2, <1>3, <1>6 DEF ledgerMove, mailMove
<1>9. /\ degraded' \union deadMail' \union unsure' \union abandoned' \subseteq DOMAIN payloads
      /\ unsure \subseteq unsure'
  BY <1>3, NoticesTyped
<1> QED
  BY <1>1, <1>2, <1>3, <1>4, <1>5, <1>7, <1>8, <1>9, WorkerStep

LEMMA WorkerStopsStep ==
  ASSUME LogKnown, NoticeInv, NEW w \in Worker, WorkerStops(w)
  PROVE  NoticeInv'
<1>1. /\ job[w] # NoJob /\ job[w] \in JobRecord
      /\ job[w].stage # "settled" => event(w) \in DOMAIN payloads
      /\ \A x : heldBy(w, x) => job[w].stage # "settled"
      /\ at(w, "settled") <=> job[w].stage = "settled"
  BY JobTyped DEF WorkerStops, holds, JobStage
<1>2. PICK e : e = event(w)
  OBVIOUS
<1>3. /\ UNCHANGED <<log, payloads, owner, acked, ledger, mailbox, degraded, deadMail, unsure>>
      /\ job' = [job EXCEPT ![w] = NoJob]
      /\ abandoned' = IF at(w, "settled") THEN abandoned ELSE abandoned \union {e}
  BY <1>2 DEF WorkerStops, drop
<1>4. PICK j : j = NoJob
  OBVIOUS
<1>5. ~ holds(j)
  BY <1>4, JobShapes
<1>6. answered \subseteq answered' /\ (job[w].stage # "settled" => e \in answered')
  BY <1>1, <1>3 DEF answered
<1>7. ledgerMove(w, j, e) /\ mailMove(w, j, e)
  BY <1>1, <1>2, <1>3, <1>5, <1>6 DEF ledgerMove, mailMove
<1>8. /\ degraded' \union deadMail' \union unsure' \union abandoned' \subseteq DOMAIN payloads
      /\ unsure \subseteq unsure'
  BY <1>1, <1>2, <1>3, NoticesTyped
<1>9. /\ acked' \in [Stream -> Nat] /\ \A s \in Stream : acked'[s] <= Len(log[s])
      /\ \A s \in Stream : \A k \in 1..acked'[s] : k \in 1..acked[s]
  BY <1>3, NoticesTyped
<1> QED
  BY <1>1, <1>2, <1>3, <1>4, <1>6, <1>7, <1>8, <1>9, WorkerStep

(* A worker takes up the next record, or the partitions change hands.      *)
LEMMA JobsTaken ==
  ASSUME LogKnown, NoticeInv, owner' \in Worker, job' \in [Worker -> {NoJob} \union JobRecord],
         \A v \in Worker : \/ job'[v] = job[v]
                           \/ /\ job[v] = NoJob /\ job'[v] \in JobRecord
                              /\ job'[v].offset <= Len(log[job'[v].stream])
                              /\ job'[v].stage \in {"recording", "settled"}
                              /\ job'[v].stage = "recording" <=>
                                   noteworthy(log[job'[v].stream][job'[v].offset]),
         UNCHANGED <<log, payloads, acked, ledger, mailbox, degraded, deadMail, unsure, abandoned>>
  PROVE  NoticeInv'
<1>1. \A x : noteworthy(x)' = noteworthy(x)
  BY DEF noteworthy, parses, factType, notified
<1>2. \A v \in Worker : job[v] # NoJob => job'[v] = job[v] /\ event(v)' = event(v)
  BY DEF event
<1>3. ASSUME NEW v \in Worker, NEW x
      PROVE  heldBy(v, x)' <=> heldBy(v, x)
  <2>1. CASE job'[v] = job[v]
    BY <2>1 DEF heldBy, at, event
  <2>2. CASE job[v] = NoJob /\ job'[v].stage \in {"recording", "settled"}
    BY <2>2 DEF heldBy, at
  <2> QED
    BY <2>1, <2>2
<1>4. answered' = answered
  BY DEF answered
<1>5. ASSUME NEW x, accounted(x)
      PROVE  accounted(x)'
  <2>1. CASE x \in answered
    BY <1>4, <2>1 DEF accounted
  <2>2. CASE x \notin answered
    <3>1. PICK v \in Worker : job[v] # NoJob /\ job[v].stage # "settled" /\ event(v) = x
      BY <1>5, <2>2 DEF accounted
    <3>2. job'[v] # NoJob /\ job'[v].stage # "settled" /\ event(v)' = x
      BY <1>2, <3>1
    <3> QED
      BY <3>2 DEF accounted
  <2> QED
    BY <2>1, <2>2
<1>6. ASSUME NEW v \in Worker, job'[v] # NoJob
      PROVE  /\ job'[v].offset <= Len(log'[job'[v].stream])
             /\ job'[v].stage # "settled" => noteworthy(event(v))'
             /\ job'[v].stage = "settled" /\ noteworthy(event(v))' => accounted(event(v))'
             /\ job'[v].stage \in {"sending", "failing"} => event(v)' \in ledger'
  <2>1. PICK x : x = event(v)'
    OBVIOUS
  <2>2. noteworthy(event(v))' <=> noteworthy(x)
    BY <2>1 DEF noteworthy, parses, factType, notified
  <2>3. accounted(event(v))' <=> accounted(x)'
    BY <2>1 DEF accounted
  <2>4. CASE job'[v] = job[v]
    <3>1. x = event(v) /\ job[v] # NoJob
      BY <1>6, <2>1, <2>4 DEF event
    <3>2. /\ job[v].offset <= Len(log[job[v].stream])
          /\ job[v].stage # "settled" => noteworthy(x)
          /\ job[v].stage = "settled" /\ noteworthy(x) => accounted(x)
          /\ job[v].stage \in {"sending", "failing"} => x \in ledger
      BY <3>1 DEF NoticeInv
    <3> QED
      BY <1>5, <2>1, <2>2, <2>3, <2>4, <3>2
  <2>5. CASE /\ job'[v].offset <= Len(log[job'[v].stream])
             /\ job'[v].stage \in {"recording", "settled"}
             /\ job'[v].stage = "recording" <=> noteworthy(log[job'[v].stream][job'[v].offset])
    <3>1. x = log[job'[v].stream][job'[v].offset]
      BY <2>1 DEF event
    <3> QED
      BY <2>1, <2>2, <2>3, <2>5, <3>1
  <2> QED
    BY <2>4, <2>5
<1>7. \A s \in Stream : \A k \in 1..acked'[s] : noteworthy(log[s][k])' => accounted(log[s][k])'
  <2> TAKE s \in Stream
  <2> TAKE k \in 1..acked'[s]
  <2>1. PICK x : x = log[s][k]
    OBVIOUS
  <2>2. noteworthy(x) => accounted(x)'
    BY <1>5, <2>1 DEF NoticeInv
  <2>3. noteworthy(log[s][k])' <=> noteworthy(x)
    BY <2>1 DEF noteworthy, parses, factType, notified
  <2>4. accounted(log[s][k])' <=> accounted(x)'
    BY <2>1 DEF accounted
  <2> QED
    BY <2>2, <2>3, <2>4
<1>8. /\ acked' \in [Stream -> Nat] /\ mailbox' \in Seq(DOMAIN payloads')
      /\ ledger' \union degraded' \union deadMail' \union unsure' \union abandoned'
           \subseteq DOMAIN payloads'
      /\ \A s \in Stream : acked'[s] <= Len(log'[s])
  BY DEF NoticeInv
<1>9. job' \in [Worker -> {NoJob} \union [stage : JobStage, stream : Stream, offset : Nat \ {0},
                                          attempt : 1..MaxSendAttempts]]
  BY DEF JobRecord
<1>10. /\ \A v, u \in Worker : \A x \in ledger' : heldBy(v, x)' /\ heldBy(u, x)' => v = u
       /\ \A x \in ledger' : x \in answered' \/ \E v \in Worker : heldBy(v, x)'
  BY <1>3, <1>4 DEF NoticeInv
<1>11. \A i \in DOMAIN mailbox' : mailbox'[i] \notin unsure' =>
         /\ mailbox'[i] \in ledger'
         /\ \A v \in Worker : ~ heldBy(v, mailbox[i])'
         /\ \A h \in DOMAIN mailbox' : mailbox'[h] = mailbox'[i] => h = i
  <2> SUFFICES ASSUME NEW i \in DOMAIN mailbox, mailbox[i] \notin unsure
               PROVE  /\ mailbox[i] \in ledger
                      /\ \A v \in Worker : ~ heldBy(v, mailbox[i])'
                      /\ \A h \in DOMAIN mailbox : mailbox[h] = mailbox[i] => h = i
    OBVIOUS
  <2>1. PICK x : x = mailbox[i]
    OBVIOUS
  <2>2. \A v \in Worker : ~ heldBy(v, x)'
    BY <1>3, <2>1 DEF NoticeInv
  <2>3. \A v \in Worker : heldBy(v, mailbox[i])' <=> heldBy(v, x)'
    BY <2>1 DEF heldBy
  <2> QED
    BY <2>2, <2>3 DEF NoticeInv
<1> QED
  BY <1>6, <1>7, <1>8, <1>9, <1>10, <1>11 DEF NoticeInv

LEMMA ReceiveStep ==
  ASSUME NotifierAssumption, LogKnown, NoticeInv, NEW w \in Worker, NEW s \in Stream, Receive(w, s)
  PROVE  NoticeInv'
<1> DEFINE n == acked[s] + 1
           j == [stage |-> IF noteworthy(log[s][n]) THEN "recording" ELSE "settled",
                 stream |-> s, offset |-> n, attempt |-> 1]
<1>1. /\ job[w] = NoJob /\ acked[s] < Len(log[s]) /\ job' = [job EXCEPT ![w] = j]
      /\ UNCHANGED <<log, payloads, owner, acked, ledger, mailbox, degraded, deadMail, unsure, abandoned>>
  BY DEF Receive, noteworthy, topicVars
<1>2. acked[s] \in Nat /\ Len(log[s]) \in Nat /\ job \in [Worker -> {NoJob} \union JobRecord]
      /\ owner \in Worker
  BY DEF NoticeInv, JobRecord, LogKnown, LogTyped
<1>3. n \in Nat \ {0} /\ n <= Len(log[s])
  BY <1>1, <1>2
<1>4. j \in JobRecord
  BY <1>3, NotifierAssumption DEF JobRecord, JobStage
<1>5. /\ j.offset = n /\ j.stream = s /\ j.stage \in {"recording", "settled"}
      /\ j.stage = "recording" <=> noteworthy(log[s][n])
  OBVIOUS
<1> HIDE DEF n, j
<1>6. job' \in [Worker -> {NoJob} \union JobRecord]
      /\ \A v \in Worker : job'[v] = IF v = w THEN j ELSE job[v]
  BY <1>1, <1>2, <1>4
<1> QED
  BY <1>1, <1>2, <1>3, <1>4, <1>5, <1>6, JobsTaken

LEMMA RebalanceStep ==
  ASSUME LogKnown, NoticeInv, Rebalance
  PROVE  NoticeInv'
<1>1. /\ owner' \in Worker
      /\ UNCHANGED <<log, payloads, acked, job, ledger, mailbox, degraded, deadMail, unsure, abandoned>>
  BY DEF Rebalance
<1>2. job' \in [Worker -> {NoJob} \union JobRecord]
  BY <1>1 DEF NoticeInv, JobRecord
<1> QED
  BY <1>1, <1>2, JobsTaken

LEMMA LogIsKnown ==
  ASSUME RelayInv
  PROVE  LogKnown
BY FactsOnStreams DEF RelayInv, StreamsInv, LogKnown, LogTyped, FactRecord

(* A step of somebody else.                                                *)
LEMMA NotifierStands ==
  ASSUME RelayInv, RelayInv', LogExtends, PayloadsKept, NoticeInv, UNCHANGED notifierVars
  PROVE  NoticeInv'
<1>1. /\ DOMAIN payloads \subseteq DOMAIN payloads'
      /\ \A s \in Stream :
           /\ Len(log[s]) \in Nat /\ Len(log'[s]) \in Nat /\ Len(log[s]) <= Len(log'[s])
           /\ DOMAIN log[s] = 1..Len(log[s]) /\ DOMAIN log'[s] = 1..Len(log'[s])
           /\ \A i \in 1..Len(log[s]) :
                log'[s][i] = log[s][i] /\ noteworthy(log[s][i])' = noteworthy(log[s][i])
  BY RecordsKept
<1>2. UNCHANGED <<owner, acked, job, ledger, mailbox, degraded, deadMail, unsure, abandoned>>
  BY DEF notifierVars
<1>3. ASSUME NEW v \in Worker, job[v] # NoJob
      PROVE  event(v)' = event(v) /\ noteworthy(event(v))' = noteworthy(event(v))
  <2>1. PICK s \in Stream, i \in Nat : s = job[v].stream /\ i = job[v].offset /\ i \in 1..Len(log[s])
    <3>1. job[v].stream \in Stream /\ job[v].offset \in DOMAIN log[job[v].stream]
      BY <1>3, JobTyped, LogIsKnown
    <3>2. job[v].offset \in 1..Len(log[job[v].stream]) /\ job[v].offset \in Nat
      BY <1>1, <3>1
    <3> QED
      BY <3>1, <3>2
  <2>2. event(v) = log[s][i] /\ event(v)' = log'[s][i]
    BY <1>2, <2>1 DEF event
  <2>3. log'[s][i] = log[s][i] /\ noteworthy(log[s][i])' = noteworthy(log[s][i])
    BY <1>1, <2>1
  <2> QED
    BY <2>2, <2>3 DEF noteworthy, parses, factType, notified
<1>4. ASSUME NEW v \in Worker, NEW x
      PROVE  heldBy(v, x)' <=> heldBy(v, x)
  BY <1>2, <1>3 DEF heldBy, at
<1>5. answered' = answered
  BY <1>2 DEF answered
<1>6. ASSUME NEW x, accounted(x)
      PROVE  accounted(x)'
  <2>1. CASE x \in answered
    BY <1>5, <2>1 DEF accounted
  <2>2. CASE x \notin answered
    <3>1. PICK v \in Worker : job[v] # NoJob /\ job[v].stage # "settled" /\ event(v) = x
      BY <1>6, <2>2 DEF accounted
    <3>2. job'[v] # NoJob /\ job'[v].stage # "settled" /\ event(v)' = x
      BY <1>2, <1>3, <3>1
    <3> QED
      BY <3>2 DEF accounted
  <2> QED
    BY <2>1, <2>2
<1>7. ASSUME NEW v \in Worker, job'[v] # NoJob
      PROVE  /\ job'[v].offset <= Len(log'[job'[v].stream])
             /\ job'[v].stage # "settled" => noteworthy(event(v))'
             /\ job'[v].stage = "settled" /\ noteworthy(event(v))' => accounted(event(v))'
             /\ job'[v].stage \in {"sending", "failing"} => event(v)' \in ledger'
  <2>1. PICK x : x = event(v)
    OBVIOUS
  <2>2. /\ event(v)' = x /\ job[v] # NoJob
        /\ noteworthy(event(v))' <=> noteworthy(x)
    BY <1>2, <1>3, <1>7, <2>1
  <2>3. accounted(event(v))' <=> accounted(x)'
    BY <2>2 DEF accounted
  <2>4. /\ job[v].stage # "settled" => noteworthy(x)
        /\ job[v].stage = "settled" /\ noteworthy(x) => accounted(x)
        /\ job[v].stage \in {"sending", "failing"} => x \in ledger
    BY <2>1, <2>2 DEF NoticeInv
  <2>5. job[v].stream \in Stream /\ job[v].offset \in 1..Len(log[job[v].stream])
    BY <1>1, <2>2, JobTyped, LogIsKnown
  <2>6. job[v].offset <= Len(log'[job[v].stream])
    BY <1>1, <2>5
  <2> QED
    BY <1>2, <1>6, <2>2, <2>3, <2>4, <2>6
<1>8. \A s \in Stream : acked[s] \in Nat /\ acked[s] <= Len(log[s]) /\ acked'[s] <= Len(log'[s])
  BY <1>1, <1>2 DEF NoticeInv
<1>9. \A s \in Stream : \A k \in 1..acked'[s] : noteworthy(log[s][k])' => accounted(log[s][k])'
  <2> TAKE s \in Stream
  <2> TAKE k \in 1..acked'[s]
  <2>1. PICK x : x = log[s][k]
    OBVIOUS
  <2>2. k \in 1..Len(log[s]) /\ k \in 1..acked[s]
    BY <1>1, <1>2, <1>8
  <2>3. log'[s][k] = x /\ (noteworthy(log[s][k])' <=> noteworthy(x))
    BY <1>1, <2>1, <2>2
  <2>4. noteworthy(x) => accounted(x)'
    BY <1>6, <2>1, <2>2 DEF NoticeInv
  <2>5. accounted(log[s][k])' <=> accounted(x)'
    BY <2>3 DEF accounted
  <2> QED
    BY <2>3, <2>4, <2>5
<1>10. /\ acked' \in [Stream -> Nat] /\ owner' \in Worker
       /\ job' \in [Worker -> {NoJob} \union [stage : JobStage, stream : Stream, offset : Nat \ {0},
                                              attempt : 1..MaxSendAttempts]]
       /\ ledger' \union degraded' \union deadMail' \union unsure' \union abandoned'
            \subseteq DOMAIN payloads'
  BY <1>1, <1>2 DEF NoticeInv
<1>11. mailbox' \in Seq(DOMAIN payloads')
  <2>1. PICK D, E : D = DOMAIN payloads /\ E = DOMAIN payloads'
    OBVIOUS
  <2>2. mailbox \in Seq(D) /\ D \subseteq E /\ mailbox' = mailbox
    BY <1>1, <1>2, <2>1 DEF NoticeInv
  <2>3. mailbox' \in Seq(E)
    BY ONLY <2>2
  <2> QED
    BY <2>1, <2>3
<1>12. /\ \A v, u \in Worker : \A x \in ledger' : heldBy(v, x)' /\ heldBy(u, x)' => v = u
       /\ \A x \in ledger' : x \in answered' \/ \E v \in Worker : heldBy(v, x)'
  BY <1>2, <1>4, <1>5 DEF NoticeInv
<1>13. \A i \in DOMAIN mailbox' : mailbox'[i] \notin unsure' =>
         /\ mailbox'[i] \in ledger'
         /\ \A v \in Worker : ~ heldBy(v, mailbox[i])'
         /\ \A h \in DOMAIN mailbox' : mailbox'[h] = mailbox'[i] => h = i
  <2> SUFFICES ASSUME NEW i \in DOMAIN mailbox, mailbox[i] \notin unsure
               PROVE  /\ mailbox[i] \in ledger
                      /\ \A v \in Worker : ~ heldBy(v, mailbox[i])'
                      /\ \A h \in DOMAIN mailbox : mailbox[h] = mailbox[i] => h = i
    BY <1>2
  <2>1. PICK x : x = mailbox[i]
    OBVIOUS
  <2>2. \A v \in Worker : ~ heldBy(v, x)'
    BY <1>4, <2>1 DEF NoticeInv
  <2>3. \A v \in Worker : heldBy(v, mailbox[i])' <=> heldBy(v, x)'
    BY <1>2, <2>1 DEF heldBy
  <2> QED
    BY <2>2, <2>3 DEF NoticeInv
<1> QED
  BY <1>7, <1>8, <1>9, <1>10, <1>11, <1>12, <1>13 DEF NoticeInv

LEMMA NotifierHolds ==
  ASSUME NotifierAssumption, Init
  PROVE  NoticeInv
<1>1. /\ log = [s \in Stream |-> <<>>] /\ acked = [s \in Stream |-> 0]
      /\ job = [w \in Worker |-> NoJob] /\ ledger = {} /\ mailbox = <<>>
      /\ degraded = {} /\ deadMail = {} /\ unsure = {} /\ abandoned = {}
      /\ owner \in Worker
  BY NotifierAssumption DEF Init, TopicsInit, NotifierInit
<1>2. \A s \in Stream : acked[s] = 0 /\ Len(log[s]) = 0 /\ 1..acked[s] = {}
  BY <1>1
<1>3. \A w \in Worker : job[w] = NoJob
  BY <1>1
<1> QED
  BY <1>1, <1>2, <1>3 DEF NoticeInv

LEMMA NotifierStep ==
  ASSUME OutboxAssumption, NotifierAssumption, RelayInv, producer \in Service,
         NoticeInv, [Next]_vars
  PROVE  NoticeInv'
<1>1. CASE NotifierNext
  BY <1>1, LogIsKnown, ReceiveStep, RecordInLedgerStep, RecordFailsStep, SendStepKeeps,
     UnbuildableStep, CompensateStep, PublishDeadMailStep, AcknowledgeStep, SendFailsStep, CompensateFailsStep,
     WorkerStopsStep, RebalanceStep DEF NotifierNext, notify
<1>2. CASE UNCHANGED notifierVars
  BY <1>2, StepKeeps, NotifierStands
<1> QED
  BY <1>1, <1>2 DEF Next, vars, outboxStep, sagaStep, notifierStep

LEMMA NoticesFollow ==
  ASSUME RelayInv, NoticeInv
  PROVE  NoticesAccounted
<1>1. ASSUME NEW s \in Stream, NEW k \in 1..acked[s], parses(log[s][k]), notified(factType(log[s][k]))
      PROVE  \/ log[s][k] \in Range(mailbox) \union degraded \union deadMail \union abandoned
             \/ \E w \in Worker : job[w] # NoJob /\ event(w) = log[s][k]
  <2>1. accounted(log[s][k])
    BY <1>1 DEF NoticeInv, noteworthy
  <2> QED
    BY <2>1 DEF accounted, answered
<1>2. ASSUME NEW e, times(e) > 1, e \notin unsure
      PROVE  FALSE
  <2> DEFINE I == {i \in DOMAIN mailbox : mailbox[i] = e}
  <2>1. \A i, h \in I : h = i
    BY <1>2 DEF NoticeInv
  <2>2. CASE I = {}
    BY <1>2, <2>2, FS_EmptySet DEF times
  <2>3. CASE I # {}
    <3>1. PICK i \in I : TRUE
      BY <2>3
    <3>2. I = {i}
      BY <2>1, <3>1
    <3>3. Cardinality(I) = 1
      BY <3>2, FS_Singleton
    <3> QED
      BY <1>2, <3>3 DEF times
  <2> QED
    BY <2>2, <2>3
<1> QED
  BY <1>1, <1>2 DEF NoticesAccounted

(* N6 and N13 for any number of workers, rebalances, attempts and faults:  *)
(* a fact whose offset was committed was emailed, shown on the console or  *)
(* dead-lettered, or is still in hand, unless a crash, a compensation that *)
(* failed or a lost dead letter cut it short; and no fact is emailed twice *)
(* unless the mail server took a message it then failed.                   *)
THEOREM NoticesAccountedFor == Spec => []NoticesAccounted
<1>1. Init => NoticeInv
  BY NotifierHolds, NotifierAssumption
<1>2. RelayInv /\ producer \in Service /\ NoticeInv /\ [Next]_vars => NoticeInv'
  BY NotifierStep, OutboxAssumption, NotifierAssumption
<1>3. RelayInv /\ NoticeInv => NoticesAccounted
  BY NoticesFollow
<1> QED
  BY <1>1, <1>2, <1>3, RelayInvariant, PTL DEF Spec

-----------------------------------------------------------------------------
(* Outbox rows, relay cycles, offsets, deliveries and jobs keep their      *)
(* types; offsets stay on their partitions and attempts within the policy. *)
THEOREM DeliveryTypeCorrect == Spec => []TypeOK
<1>1. Init => GroupInv /\ NoticeInv
  BY ConsumerHolds, NotifierHolds, NotifierAssumption
<1>2. RelayInv /\ producer \in Service /\ GroupInv /\ [Next]_vars => GroupInv'
  BY ConsumerStep, OutboxAssumption, ConsumerAssumption
<1>3. RelayInv /\ producer \in Service /\ NoticeInv /\ [Next]_vars => NoticeInv'
  BY NotifierStep, OutboxAssumption, NotifierAssumption
<1>4. RelayInv => RelayTypeOK
  <2> SUFFICES ASSUME RelayInv PROVE RelayTypeOK
    OBVIOUS
  <2>1. OutboxInv /\ CycleInv /\ faults \in 0..MaxFaults
    BY DEF RelayInv
  <2>2. ASSUME NEW svc \in Service, NEW n \in DOMAIN outbox[svc]
        PROVE  outbox[svc][n].order \in Order /\ outbox[svc][n].state \in RowState
    <3>1. outbox \in [Service -> Seq([order : Order, state : RowState])]
      BY <2>1 DEF OutboxInv
    <3> QED
      BY <3>1, RowTyped DEF orderOf, stateOf
  <2>3. ASSUME NEW s \in Stream
        PROVE  work[s] \in 0..Len(Emits[s])
    <3>1. work[s] \in Nat /\ work[s] <= Len(Emits[s])
      BY <2>1 DEF OutboxInv
    <3>2. Len(Emits[s]) \in Nat
      BY OutboxAssumption DEF OutboxAssumption
    <3> QED
      BY <3>1, <3>2
  <2>4. ASSUME NEW svc \in Service, NEW i \in Instance
        PROVE  /\ stage[svc][i] \in {"idle", "claimed", "acknowledged"}
               /\ Cardinality(batch[svc][i]) <= BatchSize
               /\ stage[svc][i] = "idle" <=> batch[svc][i] = {}
    BY <2>1 DEF CycleInv
  <2> QED
    BY <2>1, <2>2, <2>3, <2>4 DEF RelayTypeOK
<1>5. RelayInv /\ GroupInv => ConsumerTypeOK
  <2> SUFFICES ASSUME RelayInv, GroupInv PROVE ConsumerTypeOK
    OBVIOUS
  <2>1. \A s \in Stream : Len(log[s]) \in Nat
    BY DEF RelayInv, StreamsInv
  <2>2. \A s \in Stream : position[s] \in 0..Len(log[s])
    BY <2>1 DEF GroupInv, ConsumerInv
  <2>3. processed \subseteq DOMAIN payloads
    <3> SUFFICES ASSUME NEW x \in processed PROVE x \in DOMAIN payloads
      OBVIOUS
    <3>1. PICK s \in Stream : x \in Range(effects[s])
      BY DEF GroupInv, ConsumerInv
    <3>2. PICK i \in DOMAIN effects[s] : effects[s][i] = x
      BY <3>1 DEF Range
    <3>3. PICK k \in DOMAIN log[s] : log[s][k] = x
      BY <3>2 DEF GroupInv, ConsumerInv
    <3>4. x \in FactRecord
      BY <3>2 DEF GroupInv, ConsumerInv, FactRecord
    <3>5. x # Foreign
      BY <3>4 DEF FactRecord, Foreign, Service
    <3> QED
      BY <3>3, <3>5, FactsOnStreams
  <2>4. deadLetters \subseteq DOMAIN payloads
    BY DEF GroupInv, ConsumerInv
  <2>5. delivery # Idle =>
          /\ delivery.stream \in Stream
          /\ delivery.attempt \in 1..MaxAttempts
          /\ delivery.stage \in {"processing", "exhausted", "settled"}
    BY DEF GroupInv, ConsumerInv
  <2> QED
    BY <2>2, <2>3, <2>4, <2>5 DEF ConsumerTypeOK
<1>6. RelayInv /\ NoticeInv => NotifierTypeOK
  <2> SUFFICES ASSUME RelayInv, NoticeInv PROVE NotifierTypeOK
    OBVIOUS
  <2>1. \A s \in Stream : Len(log[s]) \in Nat /\ DOMAIN log[s] = 1..Len(log[s])
    BY DEF RelayInv, StreamsInv
  <2>2. \A s \in Stream : acked[s] \in 0..Len(log[s])
    BY <2>1 DEF NoticeInv
  <2>3. ASSUME NEW w \in Worker, job[w] # NoJob
        PROVE  /\ job[w].stage \in JobStage
               /\ job[w].stream \in Stream /\ job[w].offset \in 1..Len(log[job[w].stream])
               /\ job[w].attempt \in 1..MaxSendAttempts
    <3>1. job[w] \in JobRecord
      BY <2>3, JobTyped, LogIsKnown
    <3>2. job[w].stream \in Stream /\ job[w].offset \in DOMAIN log[job[w].stream]
      BY <2>3, JobTyped, LogIsKnown
    <3> QED
      BY <2>1, <3>1, <3>2 DEF JobRecord
  <2> QED
    BY <2>2, <2>3 DEF NotifierTypeOK, NoticeInv
<1> QED
  BY <1>1, <1>2, <1>3, <1>4, <1>5, <1>6, RelayInvariant, PTL DEF Spec, TypeOK

=============================================================================
