--------------------------- MODULE ReadSideProofs ---------------------------
(***************************************************************************)
(* For any stories, facts, buffer sizes and faults: resuming a stream      *)
(* neither skips a frame nor sends one again, a document says what the     *)
(* facts it has say (with TimelineProofs), and everything between the      *)
(* topics and the screen keeps its type.                                   *)
(***************************************************************************)
EXTENDS ReadSide, TimelineProofs

-----------------------------------------------------------------------------
(* Sequences of frames.                                                    *)

LEMMA OwnRange ==
  ASSUME NEW S, NEW s \in Seq(S)
  PROVE  s \in Seq(ToSet(s)) /\ DOMAIN s = 1..Len(s) /\ Len(s) \in Nat
<1>1. DOMAIN s = 1..Len(s) /\ Len(s) \in Nat
  OBVIOUS
<1>2. \A i \in 1..Len(s) : s[i] \in ToSet(s)
  BY <1>1 DEF ToSet
<1>3. s = [i \in 1..Len(s) |-> s[i]]
  OBVIOUS
<1> QED
  BY <1>1, <1>2, <1>3

LEMMA OneMore ==
  ASSUME NEW s, s \in Seq(ToSet(s)), NEW x
  PROVE  /\ Append(s, x) \in Seq(ToSet(Append(s, x)))
         /\ Len(Append(s, x)) = Len(s) + 1 /\ Len(s) \in Nat
         /\ DOMAIN s = 1..Len(s) /\ DOMAIN Append(s, x) = 1..Len(s) + 1
         /\ \A i \in 1..Len(s) : Append(s, x)[i] = s[i]
         /\ Append(s, x)[Len(s) + 1] = x
<1> DEFINE S == ToSet(s) \union {x}
<1>1. s \in Seq(S)
  BY OwnRange
<1> HIDE DEF S
<1>2. x \in S
  BY DEF S
<1>3. Append(s, x) \in Seq(S)
  BY <1>1, <1>2
<1>4. Append(s, x) \in Seq(ToSet(Append(s, x)))
  BY <1>3, OwnRange
<1> QED
  BY <1>1, <1>2, <1>3, <1>4

LEMMA OneLess ==
  ASSUME NEW s, s \in Seq(ToSet(s)), s # <<>>
  PROVE  /\ Tail(s) \in Seq(ToSet(Tail(s)))
         /\ Len(s) \in Nat \ {0} /\ Len(Tail(s)) = Len(s) - 1
         /\ DOMAIN s = 1..Len(s) /\ DOMAIN Tail(s) = 1..Len(s) - 1
         /\ \A i \in 1..Len(s) - 1 : Tail(s)[i] = s[i + 1]
         /\ Head(s) = s[1]
<1> DEFINE S == ToSet(s)
<1>1. s \in Seq(S)
  OBVIOUS
<1> HIDE DEF S
<1>2. Tail(s) \in Seq(S) /\ Len(s) \in Nat \ {0} /\ Len(Tail(s)) = Len(s) - 1
  BY <1>1
<1>3. Tail(s) \in Seq(ToSet(Tail(s)))
  BY <1>2, OwnRange
<1> QED
  BY <1>1, <1>2, <1>3

LEMMA AppendTwo ==
  ASSUME NEW s, s \in Seq(ToSet(s)), NEW x, NEW y
  PROVE  s \o <<x, y>> = Append(Append(s, x), y)
<1> DEFINE S == ToSet(s) \union {x, y}
<1>1. s \in Seq(S) /\ x \in S /\ y \in S
  BY OwnRange
<1> HIDE DEF S
<1> QED
  BY <1>1

LEMMA InRange ==
  ASSUME NEW s, s \in Seq(ToSet(s))
  PROVE  /\ \A f \in ToSet(s) : \E i \in DOMAIN s : s[i] = f
         /\ \A i \in DOMAIN s : s[i] \in ToSet(s)
BY DEF ToSet

(* A minted frame goes to the end of the buffer, the oldest gives way.     *)
LEMMA PushKeeps ==
  ASSUME NEW b, NEW c \in Nat, lastMinted(b, c), NEW f, isFrame(f), f.cursor = c + 1
  PROVE  lastMinted(push(b, f), c + 1) /\ ToSet(push(b, f)) \subseteq ToSet(b) \union {f}
<1> DEFINE longer == Append(b, f)
<1>1. b \in Seq(ToSet(b)) /\ Len(b) <= c
      /\ \A i \in DOMAIN b : isFrame(b[i]) /\ b[i].cursor = c - Len(b) + i
  BY DEF lastMinted
<1>2. /\ longer \in Seq(ToSet(longer))
      /\ Len(longer) = Len(b) + 1 /\ Len(b) \in Nat
      /\ DOMAIN b = 1..Len(b) /\ DOMAIN longer = 1..Len(b) + 1
      /\ \A i \in 1..Len(b) : longer[i] = b[i]
      /\ longer[Len(b) + 1] = f
  BY <1>1, OneMore
<1> HIDE DEF longer
<1>3. \A i \in DOMAIN longer : isFrame(longer[i]) /\ longer[i].cursor = c - Len(b) + i
  <2> TAKE i \in DOMAIN longer
  <2>1. CASE i \in 1..Len(b)
    <3>1. longer[i] = b[i] /\ i \in DOMAIN b
      BY <1>2, <2>1
    <3> QED
      BY <1>1, <3>1
  <2>2. CASE i = Len(b) + 1
    <3>1. longer[i] = f /\ c + 1 = c - Len(b) + i
      BY <1>2, <2>2
    <3> QED
      BY <3>1
  <2> QED
    BY <1>2, <2>1, <2>2
<1>4. ToSet(longer) \subseteq ToSet(b) \union {f}
  <2> SUFFICES ASSUME NEW i \in DOMAIN longer PROVE longer[i] \in ToSet(b) \union {f}
    BY DEF ToSet
  <2>1. i \in DOMAIN b \/ i = Len(b) + 1
    BY <1>2
  <2> QED
    BY <1>1, <1>2, <2>1, InRange
<1>5. CASE ~ (Len(longer) > Capacity)
  <2>1. push(b, f) = longer
    BY <1>5 DEF push, longer
  <2>2. Len(longer) <= c + 1 /\ \A i \in DOMAIN longer : longer[i].cursor = c + 1 - Len(longer) + i
    BY <1>1, <1>2, <1>3
  <2> QED
    BY <1>2, <1>3, <1>4, <2>1, <2>2 DEF lastMinted
<1>6. CASE Len(longer) > Capacity
  <2> DEFINE q == Tail(longer)
  <2>1. push(b, f) = q
    BY <1>6 DEF push, longer
  <2>2. longer # <<>>
    BY <1>2
  <2>3. /\ q \in Seq(ToSet(q)) /\ Len(q) = Len(longer) - 1
        /\ DOMAIN q = 1..Len(longer) - 1
        /\ \A i \in 1..Len(longer) - 1 : q[i] = longer[i + 1]
    BY <1>2, <2>2, OneLess
  <2> HIDE DEF q
  <2>4. Len(q) <= c + 1
    BY <1>1, <1>2, <2>3
  <2>5. \A i \in DOMAIN q : isFrame(q[i]) /\ q[i].cursor = c + 1 - Len(q) + i
    <3> TAKE i \in DOMAIN q
    <3>1. i \in Nat /\ i + 1 \in DOMAIN longer /\ q[i] = longer[i + 1]
      BY <1>2, <2>3
    <3>2. isFrame(q[i]) /\ q[i].cursor = c - Len(b) + (i + 1)
      BY <1>3, <3>1
    <3>3. c + 1 - Len(q) + i = c - Len(b) + (i + 1)
      BY <1>2, <2>3, <3>1
    <3> QED
      BY <3>2, <3>3
  <2>6. ToSet(q) \subseteq ToSet(longer)
    <3> SUFFICES ASSUME NEW i \in DOMAIN q PROVE q[i] \in ToSet(longer)
      BY DEF ToSet
    <3>1. i + 1 \in DOMAIN longer /\ q[i] = longer[i + 1]
      BY <1>2, <2>3
    <3> QED
      BY <1>2, <3>1, InRange
  <2> QED
    BY <1>4, <2>1, <2>3, <2>4, <2>5, <2>6 DEF lastMinted
<1> QED
  BY <1>5, <1>6

(* A frame of ours is written behind what is written already.              *)
LEMMA WriteKeeps ==
  ASSUME NEW b, NEW p, NEW c \in Nat, NEW from \in 0..c, writable(p, c), carried(b, p, from),
         NEW f, isFrame(f), f.ours, f.cursor = c + 1,
         NEW longer, ToSet(longer) \subseteq ToSet(b) \union {f}
  PROVE  writable(Append(p, f), c + 1) /\ carried(longer, Append(p, f), from)
<1> DEFINE q == Append(p, f)
           content == {i \in DOMAIN p : p[i].event # "stream.ready"}
           more == {i \in DOMAIN q : q[i].event # "stream.ready"}
<1>1. /\ p \in Seq(ToSet(p))
      /\ \A i \in DOMAIN p :
           \/ i = 1 /\ p[i].event = "stream.ready"
           \/ isFrame(p[i]) /\ p[i].ours /\ p[i].cursor <= c
  BY DEF writable
<1>2. /\ q \in Seq(ToSet(q)) /\ Len(p) \in Nat
      /\ DOMAIN p = 1..Len(p) /\ DOMAIN q = 1..Len(p) + 1
      /\ \A i \in 1..Len(p) : q[i] = p[i]
      /\ q[Len(p) + 1] = f
  BY <1>1, OneMore
<1>3. /\ \A i \in content : p[i].cursor > from
      /\ \A i, j \in content : i < j => p[i].cursor < p[j].cursor
      /\ \A g \in ToSet(b) : g.ours /\ g.cursor > from => \E i \in content : p[i] = g
  BY DEF carried
<1> HIDE DEF q
<1>4. f.event # "stream.ready"
  BY DEF isFrame
<1>5. more = content \union {Len(p) + 1}
  BY <1>2, <1>4
<1>6. \A i \in content : i \in 1..Len(p) /\ q[i] = p[i] /\ p[i].cursor \in Nat /\ p[i].cursor <= c
  BY <1>1, <1>2 DEF isFrame
<1> HIDE DEF content, more
<1>7. \A i \in more : q[i].cursor > from
  BY <1>2, <1>3, <1>5, <1>6
<1>8. \A i, j \in more : i < j => q[i].cursor < q[j].cursor
  <2> TAKE i, j \in more
  <2> HAVE i < j
  <2>1. i \in content
    BY <1>2, <1>5, <1>6
  <2>2. CASE j \in content
    BY <1>3, <1>6, <2>1, <2>2
  <2>3. CASE j = Len(p) + 1
    BY <1>2, <1>6, <2>1, <2>3
  <2> QED
    BY <1>5, <2>2, <2>3
<1>9. \A g \in ToSet(longer) : g.ours /\ g.cursor > from => \E i \in more : q[i] = g
  <2> TAKE g \in ToSet(longer)
  <2> HAVE g.ours /\ g.cursor > from
  <2>1. CASE g = f
    BY <1>2, <1>5, <2>1
  <2>2. CASE g \in ToSet(b)
    BY <1>3, <1>5, <1>6, <2>2
  <2> QED
    BY <2>1, <2>2
<1>10. \A i \in DOMAIN q :
         \/ i = 1 /\ q[i].event = "stream.ready"
         \/ isFrame(q[i]) /\ q[i].ours /\ q[i].cursor <= c + 1
  <2> TAKE i \in DOMAIN q
  <2>1. CASE i \in 1..Len(p)
    <3>1. q[i] = p[i] /\ i \in DOMAIN p
      BY <1>2, <2>1
    <3>2. isFrame(p[i]) => p[i].cursor \in Nat
      BY DEF isFrame
    <3> QED
      BY <1>1, <3>1, <3>2
  <2>2. CASE i = Len(p) + 1
    BY <1>2, <2>2
  <2> QED
    BY <1>2, <2>1, <2>2
<1> QED
  BY <1>2, <1>7, <1>8, <1>9, <1>10 DEF writable, carried, q, more

(* A frame of another order is not written.                                *)
LEMMA SkipKeeps ==
  ASSUME NEW b, NEW p, NEW c \in Nat, writable(p, c), NEW f, ~f.ours,
         NEW longer, ToSet(longer) \subseteq ToSet(b) \union {f}
  PROVE  /\ writable(p, c + 1)
         /\ \A from : carried(b, p, from) => carried(longer, p, from)
<1>1. \A i \in DOMAIN p : isFrame(p[i]) /\ p[i].cursor <= c => p[i].cursor <= c + 1
  BY DEF isFrame
<1>2. writable(p, c + 1)
  BY <1>1 DEF writable
<1>3. ASSUME NEW from, carried(b, p, from) PROVE carried(longer, p, from)
  BY <1>3 DEF carried
<1> QED
  BY <1>2, <1>3

-----------------------------------------------------------------------------
(* The hub.                                                                *)

LEMMA FramesMinted ==
  ASSUME NEW c \in Nat \ {0}, NEW ours \in BOOLEAN, NEW data,
         data.event \in {"order.updated", "timeline.appended"},
         ours /\ data.event = "order.updated" => data.status \in OrderStatus
  PROVE  LET f == frameAt(c, ours, data) IN isFrame(f) /\ f.cursor = c /\ f.ours = ours
BY DEF isFrame, frameAt

LEMMA PublishKeeps ==
  ASSUME HubInv, StreamGapless, client.last \in 0..cursor, client' = client,
         NEW ours \in BOOLEAN, NEW data, hubPublish(ours, data),
         data.event \in {"order.updated", "timeline.appended"},
         ours /\ data.event = "order.updated" => data.status \in OrderStatus
  PROVE  HubInv' /\ StreamGapless' /\ cursor <= cursor' /\ open' = open
<1> DEFINE f == frameAt(cursor + 1, ours, data)
           from == larger(since, client.last)
<1>1. /\ cursor \in Nat /\ since \in 0..cursor /\ open \in BOOLEAN
      /\ lastMinted(buffer, cursor) /\ writable(pipe, cursor) /\ (~open => pipe = <<>>)
  BY DEF HubInv
<1>2. isFrame(f) /\ f.cursor = cursor + 1 /\ f.ours = ours
  BY <1>1, FramesMinted
<1>3. /\ cursor' = cursor + 1 /\ buffer' = push(buffer, f)
      /\ pipe' = IF open /\ f.ours THEN Append(pipe, f) ELSE pipe
      /\ open' = open /\ since' = since
  BY DEF hubPublish, matchesFilter
<1> HIDE DEF f
<1>4. lastMinted(buffer', cursor') /\ ToSet(buffer') \subseteq ToSet(buffer) \union {f}
  BY <1>1, <1>2, <1>3, PushKeeps
<1>5. from \in 0..cursor /\ from' = from
  BY <1>1, <1>3 DEF larger
<1> HIDE DEF from
<1>6. open => carried(buffer, pipe, from)
  BY DEF StreamGapless, from
<1>7. CASE open /\ f.ours
  <2>1. writable(pipe', cursor') /\ carried(buffer', pipe', from)
    BY <1>1, <1>2, <1>3, <1>4, <1>5, <1>6, <1>7, WriteKeeps
  <2>2. HubInv'
    BY <1>1, <1>3, <1>4, <1>7, <2>1 DEF HubInv
  <2>3. StreamGapless'
    BY <1>5, <2>1 DEF StreamGapless, from
  <2> QED
    BY <1>1, <1>3, <2>2, <2>3
<1>8. CASE open /\ ~f.ours
  <2>1. writable(pipe', cursor') /\ carried(buffer', pipe', from)
    BY <1>1, <1>2, <1>3, <1>4, <1>5, <1>6, <1>8, SkipKeeps
  <2>2. HubInv'
    BY <1>1, <1>3, <1>4, <1>8, <2>1 DEF HubInv
  <2>3. StreamGapless'
    BY <1>5, <2>1 DEF StreamGapless, from
  <2> QED
    BY <1>1, <1>3, <2>2, <2>3
<1>9. CASE ~open
  <2>1. pipe' = <<>> /\ pipe' = pipe
    BY <1>1, <1>3, <1>9
  <2>2. writable(pipe', cursor')
    BY <2>1 DEF writable, ToSet
  <2>3. HubInv'
    BY <1>1, <1>3, <1>4, <1>9, <2>1, <2>2 DEF HubInv
  <2>4. StreamGapless'
    BY <1>3, <1>9 DEF StreamGapless
  <2> QED
    BY <1>1, <1>3, <2>3, <2>4
<1> QED
  BY <1>7, <1>8, <1>9

LEMMA PublishBothKeeps ==
  ASSUME HubInv, StreamGapless, client.last \in 0..cursor, client' = client,
         NEW first, NEW second, hubPublishBoth(first, second),
         first.event \in {"order.updated", "timeline.appended"},
         first.event = "order.updated" => first.status \in OrderStatus,
         second.event \in {"order.updated", "timeline.appended"},
         second.event = "order.updated" => second.status \in OrderStatus
  PROVE  HubInv' /\ StreamGapless' /\ cursor <= cursor' /\ open' = open
<1> DEFINE one == frameAt(cursor + 1, TRUE, first)
           two == frameAt(cursor + 2, TRUE, second)
           from == larger(since, client.last)
           b == push(buffer, one)
           p == Append(pipe, one)
<1>1. /\ cursor \in Nat /\ since \in 0..cursor /\ open \in BOOLEAN
      /\ lastMinted(buffer, cursor) /\ writable(pipe, cursor) /\ (~open => pipe = <<>>)
  BY DEF HubInv
<1>2. isFrame(one) /\ one.cursor = cursor + 1 /\ one.ours
  <2>1. cursor + 1 \in Nat \ {0}
    BY <1>1
  <2> QED
    BY <2>1 DEF isFrame, frameAt
<1>3. isFrame(two) /\ two.cursor = cursor + 1 + 1 /\ two.ours
  <2>1. cursor + 2 \in Nat \ {0} /\ cursor + 2 = cursor + 1 + 1
    BY <1>1
  <2> QED
    BY <2>1 DEF isFrame, frameAt
<1>4. /\ cursor' = cursor + 1 + 1 /\ buffer' = push(b, two)
      /\ pipe' = IF open THEN pipe \o <<one, two>> ELSE pipe
      /\ open' = open /\ since' = since
  <2>1. cursor + 2 = cursor + 1 + 1
    BY <1>1
  <2> QED
    BY <2>1 DEF hubPublishBoth
<1>5. pipe \o <<one, two>> = Append(p, two)
  <2> HIDE DEF one, two
  <2> QED
    BY <1>1, AppendTwo DEF writable
<1> HIDE DEF one, two
<1>6. lastMinted(b, cursor + 1) /\ ToSet(b) \subseteq ToSet(buffer) \union {one}
  BY <1>1, <1>2, PushKeeps
<1> HIDE DEF b
<1>7. lastMinted(buffer', cursor') /\ ToSet(buffer') \subseteq ToSet(b) \union {two}
  BY <1>1, <1>3, <1>4, <1>6, PushKeeps
<1>8. from \in 0..cursor /\ from' = from
  BY <1>1, <1>4 DEF larger
<1> HIDE DEF from
<1>9. CASE open
  <2>1. carried(buffer, pipe, from)
    BY <1>9 DEF StreamGapless, from
  <2>2. writable(p, cursor + 1) /\ carried(b, p, from)
    BY <1>1, <1>2, <1>6, <1>8, <2>1, WriteKeeps
  <2> HIDE DEF p
  <2>3. from \in 0..cursor + 1 /\ cursor + 1 \in Nat
    BY <1>1, <1>8
  <2>4. writable(pipe', cursor') /\ carried(buffer', pipe', from)
    <3> DEFINE c == cursor + 1
    <3>1. pipe' = Append(p, two) /\ cursor' = c + 1 /\ two.cursor = c + 1
      BY <1>3, <1>4, <1>5, <1>9
    <3>2. c \in Nat /\ from \in 0..c /\ writable(p, c)
      BY <2>2, <2>3
    <3> HIDE DEF c
    <3> QED
      BY <1>3, <1>7, <2>2, <3>1, <3>2, WriteKeeps
  <2>5. HubInv'
    BY <1>1, <1>4, <1>7, <1>9, <2>4 DEF HubInv
  <2>6. StreamGapless'
    BY <1>8, <2>4 DEF StreamGapless, from
  <2> QED
    BY <1>1, <1>4, <2>5, <2>6
<1>10. CASE ~open
  <2>1. pipe' = <<>> /\ pipe' = pipe
    BY <1>1, <1>4, <1>10
  <2>2. writable(pipe', cursor')
    BY <2>1 DEF writable, ToSet
  <2>3. HubInv'
    BY <1>1, <1>4, <1>7, <1>10, <2>1, <2>2 DEF HubInv
  <2>4. StreamGapless'
    BY <1>4, <1>10 DEF StreamGapless
  <2> QED
    BY <1>1, <1>4, <2>3, <2>4
<1> QED
  BY <1>9, <1>10

(* What comes after a known cursor is the buffer's newer part.             *)
LEMMA ReplayIsNewer ==
  ASSUME NEW c \in Nat, lastMinted(buffer, c), NEW last \in 0..c, replayAfter(last).resumed
  PROVE  LET missed == replayAfter(last).missed IN
         /\ missed \in Seq(ToSet(buffer))
         /\ \A i \in DOMAIN missed : missed[i].cursor = last + i
         /\ \A f \in ToSet(buffer) : f.cursor > last => \E i \in DOMAIN missed : missed[i] = f
<1> DEFINE known == {i \in DOMAIN buffer : buffer[i].cursor = last}
           k == CHOOSE i \in known : TRUE
           missed == replayAfter(last).missed
           n == Len(buffer)
<1>1. /\ buffer \in Seq(ToSet(buffer)) /\ n \in Nat /\ DOMAIN buffer = 1..n /\ n <= c
      /\ \A i \in 1..n : isFrame(buffer[i]) /\ buffer[i].cursor = c - n + i
  BY DEF lastMinted
<1>2. known # {}
  BY DEF replayAfter
<1>3. k \in 1..n /\ last = c - n + k
  <2>1. k \in known
    BY <1>2
  <2>2. k \in 1..n /\ buffer[k].cursor = last
    BY <1>1, <2>1
  <2> QED
    BY <1>1, <2>2
<1>4. missed = SubSeq(buffer, 1 + k, n)
  BY <1>2 DEF replayAfter
<1> HIDE DEF missed, known, k
<1>5. /\ missed \in Seq(ToSet(buffer)) /\ DOMAIN missed = 1..(n - k)
      /\ \A i \in 1..(n - k) : missed[i] = buffer[k + i]
  <2>1. \A i \in 1..n : buffer[i] \in ToSet(buffer)
    BY <1>1, InRange
  <2> DEFINE S == ToSet(buffer)
  <2>2. buffer \in Seq(S) /\ \A i \in 1..n : buffer[i] \in S
    BY <1>1, <2>1
  <2>3. missed = [i \in 1..(n - k) |-> buffer[k + i]]
    BY <1>1, <1>3, <1>4
  <2>4. n - k \in Nat /\ \A i \in 1..(n - k) : k + i \in 1..n
    BY <1>1, <1>3
  <2> HIDE DEF S, n
  <2>5. missed \in [1..(n - k) -> S]
    BY <2>2, <2>3, <2>4
  <2>6. missed \in Seq(S)
    BY <2>4, <2>5
  <2> QED
    BY <2>3, <2>6 DEF S
<1>6. \A i \in DOMAIN missed : missed[i].cursor = last + i
  <2> TAKE i \in DOMAIN missed
  <2>1. i \in 1..(n - k) /\ k + i \in 1..n
    BY <1>1, <1>3, <1>5
  <2>2. missed[i].cursor = c - n + (k + i)
    BY <1>1, <1>5, <2>1
  <2>3. c - n + (k + i) = last + i
    BY <1>1, <1>3, <2>1
  <2> QED
    BY <2>2, <2>3
<1>7. \A f \in ToSet(buffer) : f.cursor > last => \E i \in DOMAIN missed : missed[i] = f
  <2> TAKE f \in ToSet(buffer)
  <2> HAVE f.cursor > last
  <2>1. PICK h \in 1..n : buffer[h] = f
    BY <1>1, InRange
  <2>2. c - n + h > last
    BY <1>1, <2>1
  <2>3. h - k \in 1..(n - k) /\ k + (h - k) = h
    BY <1>1, <1>3, <2>1, <2>2
  <2> QED
    BY <1>5, <2>1, <2>3
<1> QED
  BY <1>5, <1>6, <1>7 DEF missed

(* A connection opened after the last cursor handled carries all of ours   *)
(* that is newer, or, when that cursor is not known any more, says so.     *)
LEMMA StreamKeeps ==
  ASSUME HubInv, ~open, client.last \in 0..cursor, client' = client, stream(client.last)
  PROVE  HubInv' /\ StreamGapless'
<1> DEFINE last == client.last
           missed == replayAfter(last).missed
           mine == {i \in DOMAIN missed : matchesFilter(missed[i])}
           ready == [event |-> "stream.ready", resumed |-> replayAfter(last).resumed]
           q == kept(missed, mine)
           from == larger(since', last)
<1>1. /\ cursor \in Nat /\ since \in 0..cursor /\ lastMinted(buffer, cursor)
  BY DEF HubInv
<1>2. /\ open' = TRUE /\ pipe' = <<ready>> \o q /\ buffer' = buffer /\ cursor' = cursor
      /\ since' = IF replayAfter(last).resumed THEN last ELSE cursor
  BY DEF stream
<1> DEFINE S == ToSet(buffer)
<1>3. /\ missed \in Seq(S) /\ from \in 0..cursor /\ since' \in 0..cursor
      /\ \A i \in DOMAIN missed : missed[i].cursor = from + i
      /\ \A f \in ToSet(buffer) : f.cursor > from => \E i \in DOMAIN missed : missed[i] = f
  <2>1. CASE replayAfter(last).resumed
    <3>1. from = last
      BY <1>2, <2>1 DEF larger
    <3>2. since' \in 0..cursor
      BY <1>2, <2>1
    <3> QED
      BY <1>1, <2>1, <3>1, <3>2, ReplayIsNewer
  <2>2. CASE ~ replayAfter(last).resumed
    <3>1. from = cursor /\ since' \in 0..cursor
      BY <1>1, <1>2, <2>2 DEF larger
    <3>2. missed = <<>>
      BY <2>2 DEF replayAfter
    <3>3. \A f \in ToSet(buffer) : ~ (f.cursor > cursor)
      <4> TAKE f \in ToSet(buffer)
      <4>1. /\ buffer \in Seq(ToSet(buffer)) /\ Len(buffer) \in Nat /\ DOMAIN buffer = 1..Len(buffer)
            /\ Len(buffer) <= cursor
            /\ \A i \in DOMAIN buffer : buffer[i].cursor = cursor - Len(buffer) + i
        BY <1>1 DEF lastMinted
      <4>2. PICK i \in DOMAIN buffer : buffer[i] = f
        BY <4>1, InRange
      <4>3. f.cursor = cursor - Len(buffer) + i /\ i \in 1..Len(buffer)
        BY <4>1, <4>2
      <4> QED
        BY <1>1, <4>1, <4>3
    <3> QED
      BY <1>1, <3>1, <3>2, <3>3
  <2> QED
    BY <2>1, <2>2
<1>4. \A f \in S : isFrame(f) /\ f.cursor <= cursor
  <2> TAKE f \in S
  <2>1. /\ buffer \in Seq(ToSet(buffer)) /\ Len(buffer) \in Nat /\ DOMAIN buffer = 1..Len(buffer)
        /\ Len(buffer) <= cursor
        /\ \A i \in DOMAIN buffer :
             isFrame(buffer[i]) /\ buffer[i].cursor = cursor - Len(buffer) + i
    BY <1>1 DEF lastMinted
  <2>2. PICK i \in DOMAIN buffer : buffer[i] = f
    BY <2>1, InRange
  <2>3. f.cursor = cursor - Len(buffer) + i /\ i \in 1..Len(buffer)
    BY <2>1, <2>2
  <2> QED
    BY <1>1, <2>1, <2>2, <2>3
<1> HIDE DEF S, missed, from
<1>5. /\ q \in Seq(S)
      /\ \A k \in DOMAIN q : \E i \in mine : q[k] = missed[i]
      /\ \A i \in mine : \E k \in DOMAIN q : q[k] = missed[i]
      /\ \A j, k \in DOMAIN q : j < k =>
           \E h, i \in mine : h < i /\ q[j] = missed[h] /\ q[k] = missed[i]
  <2>1. mine \in SUBSET DOMAIN missed
    OBVIOUS
  <2> HIDE DEF mine
  <2> QED
    BY <1>3, <2>1, KeptInOrder
<1> HIDE DEF q
<1> DEFINE N == Len(q)
<1>6. N \in Nat /\ DOMAIN q = 1..N /\ \A k \in 1..N : q[k] \in S
  BY <1>5
<1>7. DOMAIN missed \subseteq Nat
  BY <1>3
<1>8. \A k \in 1..N : q[k].ours /\ q[k].cursor > from
  <2> TAKE k \in 1..N
  <2>1. PICK i \in mine : q[k] = missed[i]
    BY <1>5, <1>6
  <2>2. i \in DOMAIN missed /\ i \in Nat /\ missed[i].ours
    BY <1>7, <2>1 DEF matchesFilter
  <2>3. DOMAIN missed = 1..Len(missed) /\ Len(missed) \in Nat
    BY <1>3
  <2> QED
    BY <1>3, <2>1, <2>2, <2>3
<1>9. \A j, k \in 1..N : j < k => q[j].cursor < q[k].cursor
  <2> SUFFICES ASSUME NEW j \in 1..N, NEW k \in 1..N, j < k PROVE q[j].cursor < q[k].cursor
    OBVIOUS
  <2>1. PICK h \in mine, i \in mine : h < i /\ q[j] = missed[h] /\ q[k] = missed[i]
    <3>1. j \in DOMAIN q /\ k \in DOMAIN q
      BY <1>6
    <3> HIDE DEF mine, N
    <3> QED
      BY <1>5, <3>1
  <2>2. h \in DOMAIN missed /\ i \in DOMAIN missed /\ h \in Nat /\ i \in Nat
    BY <1>7, <2>1
  <2> QED
    BY <1>3, <2>1, <2>2
<1>10. \A f \in S : f.ours /\ f.cursor > from => \E k \in 1..N : q[k] = f
  <2> TAKE f \in S
  <2> HAVE f.ours /\ f.cursor > from
  <2>1. PICK i \in DOMAIN missed : missed[i] = f
    BY <1>3 DEF S
  <2>2. i \in mine
    BY <2>1 DEF matchesFilter
  <2> QED
    BY <1>5, <1>6, <2>1, <2>2
<1>11. /\ pipe' \in Seq(ToSet(pipe')) /\ DOMAIN pipe' = 1..N + 1
       /\ pipe'[1] = ready
       /\ \A k \in 1..N : pipe'[k + 1] = q[k]
  <2> DEFINE T == S \union {ready}
  <2>1. q \in Seq(T) /\ <<ready>> \in Seq(T)
    BY <1>5
  <2> HIDE DEF T, ready, N
  <2>2. pipe' \in Seq(T)
    BY <1>2, <2>1
  <2>3. pipe' \in Seq(ToSet(pipe'))
    BY <2>2, OwnRange
  <2>4. DOMAIN pipe' = 1..N + 1 /\ pipe'[1] = ready /\ \A k \in 1..N : pipe'[k + 1] = q[k]
    BY <1>2, <1>6, <2>1 DEF N
  <2> QED
    BY <2>3, <2>4
<1> HIDE DEF mine, N
<1>12. \A i \in DOMAIN pipe' : i = 1 \/ \E k \in 1..N : i = k + 1 /\ pipe'[i] = q[k]
  <2> TAKE i \in DOMAIN pipe'
  <2>1. i \in 1..N + 1
    BY <1>11
  <2>2. i = 1 \/ (i - 1 \in 1..N /\ i = i - 1 + 1)
    BY <1>6, <2>1
  <2> QED
    BY <1>11, <2>2
<1>13. writable(pipe', cursor')
  <2>1. \A i \in DOMAIN pipe' :
          \/ i = 1 /\ pipe'[i].event = "stream.ready"
          \/ isFrame(pipe'[i]) /\ pipe'[i].ours /\ pipe'[i].cursor <= cursor
    <3> TAKE i \in DOMAIN pipe'
    <3>1. CASE i = 1
      BY <1>11, <3>1
    <3>2. CASE \E k \in 1..N : i = k + 1 /\ pipe'[i] = q[k]
      BY <1>4, <1>6, <1>8, <3>2
    <3> QED
      BY <1>12, <3>1, <3>2
  <2> QED
    BY <1>2, <1>11, <2>1 DEF writable
<1>14. \A i \in DOMAIN pipe' : pipe'[i].event # "stream.ready" <=> i # 1
  <2> TAKE i \in DOMAIN pipe'
  <2>1. \A k \in 1..N : q[k].event # "stream.ready"
    BY <1>4, <1>6 DEF isFrame
  <2>2. i \in 1..N + 1
    BY <1>11
  <2>3. \A k \in 1..N : k + 1 # 1
    BY <1>6
  <2> QED
    BY <1>11, <1>12, <2>1, <2>3
<1>15. carried(buffer', pipe', from)
  <2> DEFINE content == {i \in DOMAIN pipe' : pipe'[i].event # "stream.ready"}
  <2>1. \A i \in content : \E k \in 1..N : i = k + 1 /\ pipe'[i] = q[k]
    BY <1>12, <1>14
  <2>2. \A k \in 1..N : k + 1 \in content /\ pipe'[k + 1] = q[k]
    <3> TAKE k \in 1..N
    <3>1. k + 1 \in 1..N + 1 /\ k + 1 # 1
      BY <1>6
    <3> QED
      BY <1>11, <1>14, <3>1
  <2> HIDE DEF content
  <2>3. \A i \in content : pipe'[i].cursor > from
    BY <1>8, <2>1
  <2>4. \A i, j \in content : i < j => pipe'[i].cursor < pipe'[j].cursor
    <3> TAKE i, j \in content
    <3> HAVE i < j
    <3>1. PICK k \in 1..N : i = k + 1 /\ pipe'[i] = q[k]
      BY <2>1
    <3>2. PICK l \in 1..N : j = l + 1 /\ pipe'[j] = q[l]
      BY <2>1
    <3>3. k < l
      BY <1>6, <3>1, <3>2
    <3> QED
      BY <1>9, <3>1, <3>2, <3>3
  <2>5. \A f \in ToSet(buffer) : f.ours /\ f.cursor > from => \E i \in content : pipe'[i] = f
    BY <1>10, <2>2 DEF S
  <2> QED
    BY <1>2, <2>3, <2>4, <2>5 DEF carried, content
<1>16. HubInv'
  BY <1>1, <1>2, <1>3, <1>13 DEF HubInv
<1>17. StreamGapless'
  BY <1>15 DEF StreamGapless, from
<1> QED
  BY <1>16, <1>17

(* The browser handles the first thing written to it.                      *)
LEMMA PopKeeps ==
  ASSUME HubInv, StreamGapless, client.last \in 0..cursor, pipe # <<>>, pipe' = Tail(pipe),
         UNCHANGED <<buffer, cursor, open, since>>,
         client'.last = IF Head(pipe).event = "stream.ready" THEN client.last ELSE Head(pipe).cursor
  PROVE  HubInv' /\ StreamGapless' /\ open /\ client'.last \in 0..cursor
<1> DEFINE from == larger(since, client.last)
           next == larger(since, client'.last)
           content == {i \in DOMAIN pipe : pipe[i].event # "stream.ready"}
           rest == {i \in DOMAIN pipe' : pipe'[i].event # "stream.ready"}
<1>1. /\ cursor \in Nat /\ since \in 0..cursor /\ open /\ lastMinted(buffer, cursor)
      /\ writable(pipe, cursor)
  BY DEF HubInv
<1>2. /\ pipe' \in Seq(ToSet(pipe')) /\ Len(pipe) \in Nat \ {0}
      /\ DOMAIN pipe = 1..Len(pipe) /\ DOMAIN pipe' = 1..Len(pipe) - 1
      /\ \A i \in 1..Len(pipe) - 1 : pipe'[i] = pipe[i + 1]
      /\ Head(pipe) = pipe[1]
  <2>1. pipe \in Seq(ToSet(pipe))
    BY <1>1 DEF writable
  <2> QED
    BY <2>1, OneLess
<1>3. \A i \in DOMAIN pipe :
        \/ i = 1 /\ pipe[i].event = "stream.ready"
        \/ i \in content /\ isFrame(pipe[i]) /\ pipe[i].ours /\ pipe[i].cursor \in 1..cursor
  BY <1>1 DEF writable, isFrame
<1>4. /\ from \in 0..cursor
      /\ \A i \in content : pipe[i].cursor > from
      /\ \A i, j \in content : i < j => pipe[i].cursor < pipe[j].cursor
      /\ \A f \in ToSet(buffer) : f.ours /\ f.cursor > from => \E i \in content : pipe[i] = f
  BY <1>1 DEF StreamGapless, carried, larger
<1>5. \A i \in DOMAIN pipe' : /\ i + 1 \in DOMAIN pipe /\ pipe'[i] = pipe[i + 1]
                             /\ i + 1 # 1 /\ i \in Nat
  BY <1>2
<1>6. \A i \in content : i = 1 \/ (i - 1 \in DOMAIN pipe' /\ pipe'[i - 1] = pipe[i])
  <2> TAKE i \in content
  <2>1. i \in 1..Len(pipe)
    BY <1>2
  <2>2. i = 1 \/ (i - 1 \in 1..Len(pipe) - 1 /\ i - 1 + 1 = i)
    BY <1>2, <2>1
  <2> QED
    BY <1>2, <2>2
<1>7. \A i \in DOMAIN pipe' : i \in rest /\ i + 1 \in content
  <2> TAKE i \in DOMAIN pipe'
  <2>1. i + 1 \in content
    BY <1>3, <1>5
  <2> QED
    BY <1>5, <2>1
<1>8. writable(pipe', cursor')
  <2>1. \A i \in DOMAIN pipe' : isFrame(pipe'[i]) /\ pipe'[i].ours /\ pipe'[i].cursor <= cursor
    <3> TAKE i \in DOMAIN pipe'
    <3>1. isFrame(pipe[i + 1]) /\ pipe[i + 1].ours /\ pipe[i + 1].cursor \in 1..cursor
      BY <1>3, <1>5
    <3> QED
      BY <1>1, <1>5, <3>1
  <2> QED
    BY <1>2, <2>1 DEF writable
<1>9. HubInv'
  BY <1>1, <1>8 DEF HubInv
<1> HIDE DEF content
<1>10. rest = DOMAIN pipe'
  BY <1>7
<1> HIDE DEF rest
<1>11. \A i, j \in rest : i < j => pipe'[i].cursor < pipe'[j].cursor
  <2> TAKE i, j \in rest
  <2> HAVE i < j
  <2>1. i + 1 \in content /\ j + 1 \in content /\ i + 1 < j + 1
    BY <1>5, <1>7, <1>10
  <2> QED
    BY <1>4, <1>5, <1>10, <2>1
<1>12. CASE Head(pipe).event = "stream.ready"
  <2>1. next = from /\ client'.last = client.last
    BY <1>12 DEF larger
  <2> HIDE DEF from, next
  <2>2. 1 \notin content
    BY <1>2, <1>12 DEF content
  <2>3. \A i \in rest : pipe'[i].cursor > from
    BY <1>4, <1>5, <1>7, <1>10
  <2>4. \A f \in ToSet(buffer) : f.ours /\ f.cursor > from => \E i \in rest : pipe'[i] = f
    <3> TAKE f \in ToSet(buffer)
    <3> HAVE f.ours /\ f.cursor > from
    <3>1. PICK i \in content : pipe[i] = f
      BY <1>4
    <3>2. i - 1 \in DOMAIN pipe' /\ pipe'[i - 1] = f
      BY <1>6, <2>2, <3>1
    <3> QED
      BY <1>10, <3>2
  <2>5. carried(buffer', pipe', next)
    BY <1>11, <2>1, <2>3, <2>4 DEF carried, rest
  <2> QED
    BY <1>1, <1>9, <2>1, <2>5 DEF StreamGapless, next
<1>13. CASE Head(pipe).event # "stream.ready"
  <2>1. 1 \in content /\ pipe[1].cursor \in 1..cursor /\ client'.last = pipe[1].cursor
    BY <1>2, <1>3, <1>13
  <2>2. pipe[1].cursor > from
    BY <1>4, <2>1
  <2>3. next = pipe[1].cursor
    <3>1. from >= since
      BY <1>1 DEF larger
    <3> DEFINE n == pipe[1].cursor
    <3>2. n > from /\ n \in Nat /\ from \in Nat /\ since \in Nat
      BY <1>1, <1>4, <2>1, <2>2
    <3> HIDE DEF from, n
    <3>3. ~ (since > n)
      BY <3>1, <3>2
    <3> QED
      BY <2>1, <3>3 DEF larger, n
  <2> HIDE DEF from, next
  <2>4. \A i \in rest : pipe'[i].cursor > next
    <3> TAKE i \in rest
    <3>1. i + 1 \in content /\ 1 < i + 1 /\ pipe'[i] = pipe[i + 1]
      BY <1>2, <1>5, <1>7, <1>10
    <3>2. pipe[1].cursor < pipe[i + 1].cursor /\ pipe[i + 1].cursor \in 1..cursor
      BY <1>3, <1>4, <1>5, <1>10, <2>1, <3>1
    <3> QED
      BY <2>1, <2>3, <3>1, <3>2
  <2>5. \A f \in ToSet(buffer) : f.ours /\ f.cursor > next => \E i \in rest : pipe'[i] = f
    <3> TAKE f \in ToSet(buffer)
    <3> HAVE f.ours /\ f.cursor > next
    <3>1. f.cursor \in Nat
      <4>1. \A i \in DOMAIN buffer : isFrame(buffer[i])
        BY <1>1 DEF lastMinted
      <4> QED
        BY <4>1 DEF ToSet, isFrame
    <3>2. f.cursor > from
      BY <1>4, <2>1, <2>2, <2>3, <3>1
    <3>3. PICK i \in content : pipe[i] = f
      BY <1>4, <3>2
    <3>4. i # 1
      BY <2>1, <2>3, <3>1, <3>3
    <3>5. i - 1 \in DOMAIN pipe' /\ pipe'[i - 1] = f
      BY <1>6, <3>3, <3>4
    <3> QED
      BY <1>10, <3>5
  <2>6. carried(buffer', pipe', next)
    BY <1>11, <2>4, <2>5 DEF carried, rest
  <2> QED
    BY <1>1, <1>9, <2>1, <2>6 DEF StreamGapless, next
<1> QED
  BY <1>12, <1>13

LEMMA ClosedKeeps ==
  ASSUME HubInv, open' = FALSE, pipe' = <<>>, buffer' = buffer \/ buffer' = <<>>,
         UNCHANGED <<cursor, since>>
  PROVE  HubInv' /\ StreamGapless'
<1>1. writable(pipe', cursor')
  BY DEF writable, ToSet
<1>2. lastMinted(buffer', cursor')
  <2>1. cursor \in Nat /\ lastMinted(buffer, cursor)
    BY DEF HubInv
  <2>2. CASE buffer' = <<>>
    BY <2>1, <2>2 DEF lastMinted, ToSet
  <2> QED
    BY <2>1, <2>2
<1> QED
  BY <1>1, <1>2 DEF HubInv, StreamGapless

LEMMA SameStream ==
  ASSUME HubInv, StreamGapless, UNCHANGED hubVars, open => client'.last = client.last
  PROVE  HubInv' /\ StreamGapless' /\ cursor' = cursor /\ open' = open
<1>1. buffer' = buffer /\ cursor' = cursor /\ open' = open /\ pipe' = pipe /\ since' = since
  BY DEF hubVars
<1>2. HubInv'
  BY <1>1 DEF HubInv
<1>3. StreamGapless'
  BY <1>1 DEF StreamGapless
<1> QED
  BY <1>1, <1>2, <1>3

(* The gateway hears of an update of the order, in whole, in part or not,  *)
(* or of one of another order.                                             *)
LEMMA SignalKeeps ==
  ASSUME HubInv, StreamGapless, client.last \in 0..cursor, client' = client,
         NEW d, d.status \in OrderStatus,
         \/ SignalArrives(<<orderUpdated(d), timelineAppended(d)>>)
         \/ SignalLost(<<orderUpdated(d), timelineAppended(d)>>)
  PROVE  HubInv' /\ StreamGapless' /\ cursor <= cursor' /\ open' = open
<1> DEFINE u == orderUpdated(d)
           t == timelineAppended(d)
<1>1. u.event = "order.updated" /\ u.status \in OrderStatus
  BY DEF orderUpdated
<1>2. t.event = "timeline.appended" /\ ~ (t.event = "order.updated")
  BY DEF timelineAppended
<1>3. \/ hubPublishBoth(u, t) \/ hubPublishBoth(t, u)
      \/ hubPublish(TRUE, u) \/ hubPublish(TRUE, t) \/ UNCHANGED hubVars
  <2>1. <<u, t>>[1] = u /\ <<u, t>>[2] = t
    OBVIOUS
  <2> HIDE DEF u, t
  <2>2. SignalArrives(<<u, t>>) \/ SignalLost(<<u, t>>)
    BY DEF u, t
  <2> QED
    BY <2>1, <2>2 DEF SignalArrives, SignalLost
<1> HIDE DEF u, t
<1>4. CASE hubPublishBoth(u, t)
  BY <1>1, <1>2, <1>4, PublishBothKeeps
<1>5. CASE hubPublishBoth(t, u)
  BY <1>1, <1>2, <1>5, PublishBothKeeps
<1>6. CASE hubPublish(TRUE, u)
  BY <1>1, <1>6, PublishKeeps
<1>7. CASE hubPublish(TRUE, t)
  BY <1>2, <1>7, PublishKeeps
<1>8. CASE UNCHANGED hubVars
  <2>1. cursor \in Nat
    BY DEF HubInv
  <2> QED
    BY <1>8, <2>1, SameStream
<1> QED
  BY <1>3, <1>4, <1>5, <1>6, <1>7, <1>8

LEMMA OtherOrderKeeps ==
  ASSUME HubInv, StreamGapless, client.last \in 0..cursor, client' = client, OtherOrderArrives
  PROVE  HubInv' /\ StreamGapless' /\ cursor <= cursor' /\ open' = open
<1> DEFINE data == [event |-> "order.updated"]
<1>1. hubPublish(FALSE, data) /\ data.event = "order.updated"
  BY DEF OtherOrderArrives
<1> HIDE DEF data
<1> QED
  BY <1>1, PublishKeeps

-----------------------------------------------------------------------------
(* The page.                                                               *)

LEMMA AnswerIsShown ==
  ASSUME ProjectorTypeOK
  PROVE  shown(getOrder)
BY DEF ProjectorTypeOK, shown, getOrder, Pending, Failed

LEMMA ShownKinds ==
  ASSUME NEW c, shown(c)
  PROVE  /\ c.kind \in {"none", "pending", "ready", "failed"}
         /\ c.kind = "ready" =>
              /\ c.status \in OrderStatus
              /\ c = [kind |-> "ready", status |-> c.status, events |-> c.events]
         /\ c # Nothing => c.kind # "none"
BY DEF shown, Nothing, Pending, Failed

(* A step that leaves the hub and the stream client alone.                 *)
LEMMA CacheStep ==
  ASSUME ReadSideInv, UNCHANGED <<client, hubVars>>, shown(cache'), shown(response')
  PROVE  HubInv' /\ PageInv' /\ StreamGapless'
<1>1. HubInv' /\ StreamGapless' /\ cursor' = cursor /\ open' = open
  BY SameStream DEF ReadSideInv
<1>2. PageTypeOK'
  BY <1>1, ShownKinds DEF ReadSideInv, PageInv, PageTypeOK
<1> QED
  BY <1>1, <1>2 DEF ReadSideInv, PageInv

(* A step that leaves the hub and what is on screen alone, and changes the *)
(* stream client: a new one only while no connection is open.              *)
LEMMA ClientStep ==
  ASSUME ReadSideInv, UNCHANGED <<cache, response, hubVars>>,
         NEW c, client' = c,
         c = [state |-> c.state, seenUpdates |-> c.seenUpdates, seenEntries |-> c.seenEntries,
              last |-> c.last, errors |-> c.errors],
         c.state \in ClientState, c.last \in 0..cursor,
         open => c.state \in {"connecting", "connected", "reconnecting"} /\ c.last = client.last
  PROVE  HubInv' /\ PageInv' /\ StreamGapless'
<1>1. HubInv' /\ StreamGapless' /\ cursor' = cursor /\ open' = open
  BY SameStream DEF ReadSideInv
<1>2. PageTypeOK'
  BY <1>1 DEF ReadSideInv, PageInv, PageTypeOK
<1> QED
  BY <1>1, <1>2 DEF ReadSideInv, PageInv

LEMMA ClientFields ==
  ASSUME PageInv
  PROVE  /\ alive(client) =
              [state |-> "connected", seenUpdates |-> client.seenUpdates,
               seenEntries |-> client.seenEntries, last |-> client.last, errors |-> 0]
         /\ \A c \in {streamError(client)} :
              /\ c.state \in {"gave-up", "reconnecting"} /\ c.last = client.last
              /\ c = [state |-> c.state, seenUpdates |-> c.seenUpdates,
                      seenEntries |-> c.seenEntries, last |-> c.last, errors |-> c.errors]
<1> DEFINE u == client.seenUpdates
           e == client.seenEntries
           l == client.last
           n == client.errors
           s == client.state
<1>1. client = [state |-> s, seenUpdates |-> u, seenEntries |-> e, last |-> l, errors |-> n]
  BY DEF PageInv
<1> HIDE DEF u, e, l, n, s
<1>2. \A x : [client EXCEPT !.state = x] =
              [state |-> x, seenUpdates |-> u, seenEntries |-> e, last |-> l, errors |-> n]
  BY <1>1
<1>3. \A x, y : [[client EXCEPT !.state = x] EXCEPT !.errors = y] =
                 [state |-> x, seenUpdates |-> u, seenEntries |-> e, last |-> l, errors |-> y]
  <2> TAKE x, y
  <2> DEFINE r == [client EXCEPT !.state = x]
  <2>1. r = [state |-> x, seenUpdates |-> u, seenEntries |-> e, last |-> l, errors |-> n]
    BY <1>2
  <2> HIDE DEF r
  <2>2. [r EXCEPT !.errors = y] =
          [state |-> x, seenUpdates |-> u, seenEntries |-> e, last |-> l, errors |-> y]
    BY <2>1
  <2> QED
    BY <2>2 DEF r
<1>4. alive(client) =
        [state |-> "connected", seenUpdates |-> u, seenEntries |-> e, last |-> l, errors |-> 0]
  BY <1>3 DEF alive
<1>5. \E x \in {"gave-up", "reconnecting"} : \E y :
        streamError(client) =
          [state |-> x, seenUpdates |-> u, seenEntries |-> e, last |-> l, errors |-> y]
  <2> DEFINE y == client.errors + 1
  <2>1. streamError(client) =
          IF y >= GiveUpAfter THEN [[client EXCEPT !.state = "gave-up"] EXCEPT !.errors = y]
          ELSE [[client EXCEPT !.state = "reconnecting"] EXCEPT !.errors = y]
    BY DEF streamError
  <2> HIDE DEF y
  <2> QED
    BY <1>3, <2>1
<1> QED
  BY <1>4, <1>5 DEF u, e, l

LEMMA RespondKeeps ==
  ASSUME ReadSideInv, Respond
  PROVE  HubInv' /\ PageInv' /\ StreamGapless'
<1> DEFINE new == IF response = Failed /\ cache.kind \in {"pending", "ready"} THEN cache ELSE response
<1>1. /\ response' = Nothing /\ cache' = new
      /\ client' = IF new.kind = "ready" /\ client.state = "off" THEN connect(idsOf(new)) ELSE client
      /\ UNCHANGED hubVars
  BY DEF Respond
<1>2. shown(new) /\ shown(Nothing)
  BY DEF ReadSideInv, PageInv, shown
<1> HIDE DEF new
<1>3. /\ client.last \in 0..cursor /\ cursor \in Nat
      /\ open => client.state \in {"connecting", "connected", "reconnecting"}
  BY DEF ReadSideInv, PageInv, PageTypeOK, HubInv
<1>4. CASE client' = client
  BY <1>1, <1>2, <1>4, CacheStep
<1>5. CASE client.state = "off" /\ client' = connect(idsOf(new))
  <2>1. ~open
    BY <1>3, <1>5
  <2>2. HubInv' /\ StreamGapless' /\ cursor' = cursor /\ open' = open
    BY <1>1, <2>1, SameStream DEF ReadSideInv
  <2>3. /\ client' = [state |-> client'.state, seenUpdates |-> client'.seenUpdates,
               seenEntries |-> client'.seenEntries, last |-> client'.last, errors |-> client'.errors]
        /\ client'.state = "connecting" /\ client'.last = 0
    BY <1>5 DEF connect
  <2>4. PageTypeOK'
    <3>1. cache'.kind \in {"none", "pending", "ready", "failed"}
          /\ (cache'.kind = "ready" => cache'.status \in OrderStatus)
      BY <1>1, <1>2, ShownKinds
    <3>2. client'.state \in ClientState
      BY <2>3 DEF ClientState
    <3>3. client'.last \in 0..cursor'
      BY <1>3, <2>2, <2>3
    <3> QED
      BY <2>1, <2>2, <3>1, <3>2, <3>3 DEF PageTypeOK
  <2> QED
    BY <1>1, <1>2, <2>2, <2>3, <2>4 DEF PageInv
<1> QED
  BY <1>1, <1>4, <1>5

LEMMA HandleReadyKeeps ==
  ASSUME ReadSideInv, HandleReady
  PROVE  HubInv' /\ PageInv' /\ StreamGapless'
<1>1. /\ pipe # <<>> /\ Head(pipe).event = "stream.ready" /\ pipe' = Tail(pipe)
      /\ client' = alive(client)
      /\ response' = response \/ response' = getOrder
      /\ UNCHANGED <<cache, buffer, cursor, open, since>>
  BY DEF HandleReady
<1>2. /\ client' = [state |-> "connected", seenUpdates |-> client.seenUpdates,
                    seenEntries |-> client.seenEntries, last |-> client.last, errors |-> 0]
  BY <1>1, ClientFields DEF ReadSideInv
<1>3. client'.last = client.last /\ client'.state = "connected"
  BY <1>2
<1>4. HubInv' /\ StreamGapless' /\ client'.last \in 0..cursor
  BY <1>1, <1>3, PopKeeps DEF ReadSideInv, PageInv, PageTypeOK
<1>5. PageTypeOK'
  BY <1>1, <1>3, <1>4 DEF ReadSideInv, PageInv, PageTypeOK, ClientState
<1>6. shown(response')
  BY <1>1, AnswerIsShown DEF ReadSideInv, PageInv, ProjectorInv
<1> QED
  BY <1>1, <1>2, <1>4, <1>5, <1>6 DEF ReadSideInv, PageInv

(* A frame patches what is on screen with what it carries.                 *)
LEMMA PatchIsShown ==
  ASSUME shown(cache), NEW data
  PROVE  /\ data.status \in OrderStatus => shown(applyOrderStreamUpdate(cache, data))
         /\ shown(applyTimelineAppended(cache, data))
<1>1. CASE cache \in {Nothing, Pending, Failed}
  <2>1. cache.kind # "ready"
    BY <1>1 DEF Nothing, Pending, Failed
  <2> QED
    BY <2>1 DEF applyOrderStreamUpdate, applyTimelineAppended
<1>2. CASE cache \notin {Nothing, Pending, Failed}
  <2>1. /\ cache = [kind |-> "ready", status |-> cache.status, events |-> cache.events]
        /\ cache.status \in OrderStatus
    BY <1>2 DEF shown
  <2>2. \A x : [cache EXCEPT !.status = x] = [kind |-> "ready", status |-> x, events |-> cache.events]
    BY <2>1
  <2>3. \A x : [cache EXCEPT !.events = x] = [kind |-> "ready", status |-> cache.status, events |-> x]
    BY <2>1
  <2>4. \A x, y : x \in OrderStatus => shown([kind |-> "ready", status |-> x, events |-> y])
    BY DEF shown
  <2>5. data.status \in OrderStatus => shown(applyOrderStreamUpdate(cache, data))
    <3> HAVE data.status \in OrderStatus
    <3>1. applyOrderStreamUpdate(cache, data) \in {cache, [cache EXCEPT !.status = data.status]}
      BY DEF applyOrderStreamUpdate
    <3> DEFINE st == data.status
    <3> HIDE DEF st
    <3>2. [cache EXCEPT !.status = st] = [kind |-> "ready", status |-> st, events |-> cache.events]
      BY <2>1
    <3>3. shown([kind |-> "ready", status |-> st, events |-> cache.events])
      BY <2>4 DEF st
    <3> QED
      BY <3>1, <3>2, <3>3 DEF st
  <2>6. \E x : applyTimelineAppended(cache, data) \in {cache, [cache EXCEPT !.events = x]}
    BY DEF applyTimelineAppended
  <2> QED
    BY <2>1, <2>3, <2>4, <2>5, <2>6
<1> QED
  BY <1>1, <1>2

LEMMA HandleFrameKeeps ==
  ASSUME ReadSideInv, HandleFrame
  PROVE  HubInv' /\ PageInv' /\ StreamGapless'
<1> DEFINE frame == Head(pipe)
           isUpdate == frame.event = "order.updated"
           id == frame.data.eventId
           patched == IF isUpdate THEN applyOrderStreamUpdate(cache, frame.data)
                      ELSE applyTimelineAppended(cache, frame.data.entry)
           heard == [alive(client) EXCEPT !.last = frame.cursor]
<1>1. /\ pipe # <<>> /\ frame.event # "stream.ready" /\ pipe' = Tail(pipe)
      /\ client' = IF isUpdate THEN [heard EXCEPT !.seenUpdates = @ \union {id}]
                   ELSE [heard EXCEPT !.seenEntries = @ \union {id}]
      /\ cache' = cache \/ cache' = patched
      /\ UNCHANGED <<response, buffer, cursor, open, since>>
  BY DEF HandleFrame
<1>2. isFrame(frame) /\ frame.ours
  <2>1. writable(pipe, cursor)
    BY DEF ReadSideInv, HubInv
  <2>2. frame = pipe[1] /\ 1 \in DOMAIN pipe
    BY <1>1, <2>1, OneLess DEF writable
  <2> HIDE DEF frame
  <2> QED
    BY <1>1, <2>1, <2>2 DEF writable
<1>3. shown(cache')
  <2>1. isUpdate => frame.data.status \in OrderStatus
    BY <1>2 DEF isFrame
  <2>2. shown(cache)
    BY DEF ReadSideInv, PageInv
  <2>3. /\ frame.data.status \in OrderStatus => shown(applyOrderStreamUpdate(cache, frame.data))
        /\ shown(applyTimelineAppended(cache, frame.data.entry))
    BY <2>2, PatchIsShown
  <2> QED
    BY <1>1, <2>1, <2>2, <2>3
<1> HIDE DEF patched, frame
<1>4. /\ client'.last = frame.cursor /\ client'.state = "connected"
      /\ client' = [state |-> client'.state, seenUpdates |-> client'.seenUpdates,
                    seenEntries |-> client'.seenEntries, last |-> client'.last,
                    errors |-> client'.errors]
  <2> DEFINE u == client.seenUpdates
             e == client.seenEntries
             a == alive(client)
  <2>1. a = [state |-> "connected", seenUpdates |-> u, seenEntries |-> e,
             last |-> client.last, errors |-> 0]
    BY ClientFields DEF ReadSideInv
  <2> HIDE DEF u, e, a, id, isUpdate
  <2>2. heard = [state |-> "connected", seenUpdates |-> u, seenEntries |-> e,
                 last |-> frame.cursor, errors |-> 0]
    BY <2>1 DEF a
  <2> HIDE DEF heard
  <2>3. \E x, y : client' = [state |-> "connected", seenUpdates |-> x, seenEntries |-> y,
                             last |-> frame.cursor, errors |-> 0]
    <3> DEFINE x == heard.seenUpdates \union {id}
               y == heard.seenEntries \union {id}
    <3>1. client' = IF isUpdate THEN [heard EXCEPT !.seenUpdates = x]
                    ELSE [heard EXCEPT !.seenEntries = y]
      BY <1>1
    <3> HIDE DEF x, y
    <3>2. [heard EXCEPT !.seenUpdates = x] =
            [state |-> "connected", seenUpdates |-> x, seenEntries |-> e,
             last |-> frame.cursor, errors |-> 0]
      BY <2>2
    <3>3. [heard EXCEPT !.seenEntries = y] =
            [state |-> "connected", seenUpdates |-> u, seenEntries |-> y,
             last |-> frame.cursor, errors |-> 0]
      BY <2>2
    <3> QED
      BY <3>1, <3>2, <3>3
  <2> QED
    BY <2>3
<1>5. HubInv' /\ StreamGapless' /\ client'.last \in 0..cursor
  BY <1>1, <1>4, PopKeeps DEF ReadSideInv, PageInv, PageTypeOK, frame
<1>6. PageTypeOK'
  BY <1>1, <1>3, <1>4, <1>5, ShownKinds DEF PageTypeOK, ClientState
<1> QED
  BY <1>1, <1>3, <1>4, <1>5, <1>6 DEF ReadSideInv, PageInv

LEMMA StreamBreaksKeeps ==
  ASSUME ReadSideInv, StreamBreaks
  PROVE  HubInv' /\ PageInv' /\ StreamGapless'
<1>1. /\ client' = streamError(client) /\ UNCHANGED <<cache, response>>
      /\ open' = FALSE /\ pipe' = <<>> /\ (buffer' = buffer \/ buffer' = <<>>)
      /\ UNCHANGED <<cursor, since>>
  BY DEF StreamBreaks, close, GatewayRestarts
<1>2. HubInv' /\ StreamGapless'
  BY <1>1, ClosedKeeps DEF ReadSideInv
<1>3. /\ client'.state \in {"gave-up", "reconnecting"} /\ client'.last = client.last
      /\ client' = [state |-> client'.state, seenUpdates |-> client'.seenUpdates,
                    seenEntries |-> client'.seenEntries, last |-> client'.last,
                    errors |-> client'.errors]
  BY <1>1, ClientFields DEF ReadSideInv
<1>4. PageTypeOK'
  BY <1>1, <1>3 DEF ReadSideInv, PageInv, PageTypeOK, ClientState
<1> QED
  BY <1>1, <1>2, <1>3, <1>4 DEF ReadSideInv, PageInv

LEMMA OpenStreamKeeps ==
  ASSUME ReadSideInv, OpenStream
  PROVE  HubInv' /\ PageInv' /\ StreamGapless'
<1>1. /\ ~open /\ client.state \in {"connecting", "reconnecting"} /\ stream(client.last)
      /\ UNCHANGED <<cache, response, client>> /\ cursor' = cursor
  BY DEF OpenStream, pageVars, stream
<1>2. HubInv' /\ StreamGapless'
  BY <1>1, StreamKeeps DEF ReadSideInv, PageInv, PageTypeOK
<1>3. PageTypeOK'
  BY <1>1 DEF ReadSideInv, PageInv, PageTypeOK
<1> QED
  BY <1>1, <1>2, <1>3 DEF ReadSideInv, PageInv

LEMMA ProjectorStays ==
  ASSUME ProjectorInv, UNCHANGED <<story, projectorVars>>, UNCHANGED faults \/ fault
  PROVE  ProjectorInv'
<1>1. /\ story' = story /\ document' = document /\ position' = position /\ delivery' = delivery
      /\ deadLetters' = deadLetters
  BY DEF projectorVars
<1>2. faults' \in 0..MaxFaults
  BY StoryAssumption DEF ProjectorInv, ProjectorTypeOK, fault
<1>3. ProjectorTypeOK'
  BY <1>1, <1>2 DEF ProjectorInv, ProjectorTypeOK, records
<1>4. \A s \in Service : records(s)' = records(s) /\ fact(s)' = fact(s)
  BY <1>1 DEF records, fact
<1>5. /\ \A s \in Service : accountedFor(fact(s))' = accountedFor(fact(s))
      /\ NothingIsDropped'
  BY <1>1, <1>4 DEF ProjectorInv, NothingIsDropped, accountedFor
<1>6. \A s \in Service : working(s)'
  BY <1>1, <1>4, <1>5 DEF ProjectorInv, working
<1> QED
  BY <1>1, <1>3, <1>5, <1>6 DEF ProjectorInv

LEMMA PageStepKeeps ==
  ASSUME ReadSideInv,
         \/ pageStep(Load \/ Reload \/ Poll \/ Respond \/ OpenStream \/ HandleReady \/ HandleFrame
                       \/ HandlePing \/ RetryConnection)
         \/ pageFault(StreamBreaks \/ StreamRefused \/ WindowForgets)
  PROVE  ReadSideInv'
<1>1. ProjectorInv'
  BY ProjectorStays DEF ReadSideInv, pageStep, pageFault
<1>2. HubInv' /\ PageInv' /\ StreamGapless'
  <2> USE DEF pageStep, pageFault
  <2>1. CASE Load
    BY <2>1, AnswerIsShown, CacheStep DEF Load, ReadSideInv, PageInv, ProjectorInv
  <2>2. CASE Reload
    BY <2>2, AnswerIsShown, CacheStep DEF Reload, ReadSideInv, PageInv, ProjectorInv
  <2>3. CASE Poll
    BY <2>3, AnswerIsShown, CacheStep DEF Poll, ReadSideInv, PageInv, ProjectorInv
  <2>4. CASE Respond
    BY <2>4, RespondKeeps
  <2>5. CASE OpenStream
    BY <2>5, OpenStreamKeeps
  <2>6. CASE HandleReady
    BY <2>6, HandleReadyKeeps
  <2>7. CASE HandleFrame
    BY <2>7, HandleFrameKeeps
  <2>8. CASE HandlePing
    <3>1. client' = alive(client) /\ UNCHANGED <<cache, response, hubVars>>
      BY <2>8 DEF HandlePing
    <3>2. /\ alive(client).state = "connected" /\ alive(client).last = client.last
          /\ alive(client) = [state |-> alive(client).state,
               seenUpdates |-> alive(client).seenUpdates, seenEntries |-> alive(client).seenEntries,
               last |-> alive(client).last, errors |-> alive(client).errors]
      BY ClientFields DEF ReadSideInv
    <3>3. client.last \in 0..cursor
      BY DEF ReadSideInv, PageInv, PageTypeOK
    <3> DEFINE c == alive(client)
    <3> HIDE DEF c
    <3> QED
      BY <3>1, <3>2, <3>3, ClientStep DEF ClientState, c
  <2>9. CASE RetryConnection
    <3> DEFINE c == connect(IF cache.kind = "ready" THEN idsOf(cache) ELSE {})
    <3>1. client' = c /\ UNCHANGED <<cache, response, hubVars>> /\ ~open /\ cursor \in Nat
      BY <2>9 DEF RetryConnection, ReadSideInv, PageInv, PageTypeOK, HubInv
    <3>2. /\ c.state = "connecting" /\ c.last = 0
          /\ c = [state |-> c.state, seenUpdates |-> c.seenUpdates, seenEntries |-> c.seenEntries,
                  last |-> c.last, errors |-> c.errors]
      BY DEF connect
    <3> HIDE DEF c
    <3>3. c.last \in 0..cursor
      BY <3>1, <3>2
    <3> QED
      BY <3>1, <3>2, <3>3, ClientStep DEF ClientState
  <2>10. CASE StreamBreaks
    BY <2>10, StreamBreaksKeeps
  <2>11. CASE StreamRefused
    <3> DEFINE c == [client EXCEPT !.state = "gave-up"]
    <3>1. client' = c /\ UNCHANGED <<cache, response, hubVars>> /\ ~open /\ client.last \in 0..cursor
      BY <2>11 DEF StreamRefused, ReadSideInv, PageInv, PageTypeOK
    <3>2. /\ c.state = "gave-up" /\ c.last = client.last
          /\ c = [state |-> c.state, seenUpdates |-> c.seenUpdates, seenEntries |-> c.seenEntries,
                  last |-> c.last, errors |-> c.errors]
      BY DEF ReadSideInv, PageInv
    <3> HIDE DEF c
    <3> QED
      BY <3>1, <3>2, ClientStep DEF ClientState
  <2>12. CASE WindowForgets
    BY <2>12, CacheStep DEF WindowForgets, ReadSideInv, PageInv
  <2> QED
    BY <2>1, <2>2, <2>3, <2>4, <2>5, <2>6, <2>7, <2>8, <2>9, <2>10, <2>11, <2>12
<1> QED
  BY <1>1, <1>2 DEF ReadSideInv

-----------------------------------------------------------------------------
(* The projector.                                                          *)

writesWell(d) == d.status \in OrderStatus /\ d.processedEventKeys \subseteq Nat
keeps(d, e) == d.processedEventKeys \subseteq e.processedEventKeys
settledBy(f, d, letters) ==
  ignored(f) \/ f.id \in letters \/ (d # NoDocument /\ f.id \in d.processedEventKeys)

(* What an instance holds after a step of its own.                         *)
LEMMA DeliveryStep ==
  ASSUME ProjectorInv, UNCHANGED story, NEW s \in Service, NEW d,
         delivery' = [delivery EXCEPT ![s] = d],
         d = [stage |-> d.stage, attempt |-> d.attempt, after |-> d.after],
         d.stage \in Stage \ {"down"},
         \/ position' = position
         \/ /\ d.stage = "idle" /\ delivery[s].stage = "settled"
            /\ position' = [position EXCEPT ![s] = @ + 1],
         d.stage # "idle" => position[s] < Len(records(s)),
         d.stage \in {"received", "placed", "applied"} => ~ignored(fact(s)),
         d.stage = "placed" => document' # NoDocument,
         d.stage = "applied" => d.after.status \in OrderStatus,
         d.stage \in {"applied", "settled"} => settledBy(fact(s), document', deadLetters'),
         document # NoDocument => document' # NoDocument /\ keeps(document, document'),
         document' # NoDocument => writesWell(document'),
         deadLetters \subseteq deadLetters', deadLetters' \subseteq Nat, faults' \in 0..MaxFaults
  PROVE  ProjectorInv'
<1>1. /\ ProjectorTypeOK /\ story \in Story
      /\ position = [t \in Service |-> position[t]] /\ delivery = [t \in Service |-> delivery[t]]
      /\ \A t \in Service : working(t)
  BY DEF ProjectorInv
<1>2. delivery'[s] = d /\ \A t \in Service \ {s} : delivery'[t] = delivery[t]
  BY <1>1
<1>3. delivery' = [t \in Service |-> delivery'[t]]
  BY <1>1
<1>4. position' = [t \in Service |-> position'[t]]
  BY <1>1
<1>5. \A t \in Service : records(t)' = records(t) /\ Len(records(t)) \in Nat
  BY <1>1, StoryAssumption DEF records
<1>6. \A t \in Service : position'[t] \in 0..Len(records(t)) /\ (t # s => position'[t] = position[t])
  BY <1>1, <1>5 DEF ProjectorTypeOK, working
<1>7. \A t \in Service : delivery'[t].stage \in Stage
  BY <1>1, <1>2 DEF ProjectorTypeOK
<1>8. ProjectorTypeOK'
  BY <1>5, <1>6, <1>7 DEF ProjectorTypeOK, writesWell
<1>9. \A f, g : g = f /\ accountedFor(f) => settledBy(g, document', deadLetters')
  BY Zenon DEF accountedFor, settledBy, keeps
<1>10. ASSUME NEW t \in Service PROVE working(t)'
  <2>1. CASE t = s
    <3>1. d.stage # "idle" => position'[s] = position[s] /\ fact(s)' = fact(s)
      BY <1>5 DEF fact
    <3> QED
      BY <1>2, <1>5, <2>1, <3>1 DEF working, settledBy, accountedFor
  <2>2. CASE t # s
    <3>1. position'[t] = position[t] /\ fact(t)' = fact(t) /\ delivery'[t] = delivery[t]
      BY <1>2, <1>5, <1>6, <2>2 DEF fact
    <3>2. accountedFor(fact(t)) => accountedFor(fact(t))'
      BY <1>9, <3>1 DEF accountedFor, settledBy
    <3> QED
      BY <1>1, <1>5, <3>1, <3>2 DEF working
  <2> QED
    BY <2>1, <2>2
<1>11. NothingIsDropped'
  <2> SUFFICES ASSUME NEW t \in Service, NEW k \in 1..position'[t]
               PROVE  settledBy(records(t)[k], document', deadLetters')
    BY <1>5 DEF NothingIsDropped, accountedFor, settledBy
  <2>1. position[t] \in 0..Len(records(t)) /\ position'[t] \in 0..Len(records(t))
    BY <1>1, <1>6 DEF ProjectorTypeOK
  <2>2. accountedFor(records(t)[k])
    <3>1. CASE k \in 1..position[t]
      BY <3>1 DEF ProjectorInv, NothingIsDropped
    <3>2. CASE k \notin 1..position[t]
      <4>1. t = s /\ delivery[s].stage = "settled" /\ k = position[s] + 1
        BY <1>1, <1>6, <2>1, <3>2
      <4> QED
        BY <1>1, <4>1 DEF working, fact
    <3> QED
      BY <3>1, <3>2
  <2> QED
    BY <1>9, <2>2
<1>12. delivery' # [t \in Service |-> at("down")]
  <2>1. d # at("down")
    BY DEF at
  <2> QED
    BY <1>2, <2>1
<1> QED
  BY <1>1, <1>3, <1>4, <1>8, <1>10, <1>11, <1>12 DEF ProjectorInv

(* The boot's migrations rewrite the rank, the keys and the order of the   *)
(* entries of a document, and leave its status.                            *)
LEMMA BootWrites ==
  ASSUME NEW d, seedWrites(d)
  PROVE  writesWell(migrateTimelineOrder(backfillLegacyDocuments(d)))
<1> DEFINE e == backfillLegacyDocuments(d)
           keys == {d.events[i].id : i \in DOMAIN d.events}
<1>1. /\ {"status", "statusRank", "events", "processedEventKeys", "timelineOrderVersion"} \subseteq DOMAIN d
      /\ d.status \in OrderStatus /\ d.processedEventKeys \subseteq Nat /\ keys \subseteq Nat
  <2>1. \A i \in DOMAIN d.events : d.events[i].id \in Nat
    <3>1. \A i \in DOMAIN d.events : d.events[i] \in TimelineEntry
      BY DEF seedWrites
    <3> QED
      BY <3>1 DEF TimelineEntry
  <2> QED
    BY <2>1, SeedsAreTyped DEF seedWrites
<1>2. writesWell(e) /\ {"status", "events", "processedEventKeys", "timelineOrderVersion"} \subseteq DOMAIN e
  <2>1. CASE e = d
    BY <1>1, <2>1 DEF writesWell
  <2>2. CASE e # d
    <3>1. e = [d EXCEPT !.statusRank = STATUS_RANK(d.status), !.processedEventKeys = keys]
      BY <2>2 DEF backfillLegacyDocuments
    <3> HIDE DEF e, keys
    <3>2. DOMAIN e = DOMAIN d /\ e.status = d.status /\ e.processedEventKeys = keys
      BY <1>1, <3>1
    <3> QED
      BY <1>1, <3>2 DEF writesWell
  <2> QED
    BY <2>1, <2>2
<1> HIDE DEF e
<1> DEFINE m == migrateTimelineOrder(e)
<1>3. writesWell(m)
  <2>1. CASE m = e
    BY <1>2, <2>1
  <2>2. CASE m # e
    <3>1. m = [e EXCEPT !.events = causalTimelineOrder(e.events),
                        !.timelineOrderVersion = TIMELINE_ORDER_VERSION]
      BY <2>2 DEF migrateTimelineOrder
    <3> HIDE DEF m
    <3>2. m.status = e.status /\ m.processedEventKeys = e.processedEventKeys
      BY <1>2, <3>1
    <3> QED
      BY <1>2, <3>2 DEF writesWell
  <2> QED
    BY <2>1, <2>2
<1> QED
  BY <1>3 DEF e

LEMMA PlacedIsAStatus == "placed" \in OrderStatus
<1>1. "order.placed" \in HANDLED_EVENT_TYPES
  BY DEF HANDLED_EVENT_TYPES
<1>2. RANK_TABLE["order.placed"].status = "placed"
  BY <1>1 DEF RANK_TABLE
<1> QED
  BY <1>1, <1>2 DEF OrderStatus

(* What an applied fact leaves: its status or the one that was there.      *)
LEMMA DeltaWrites ==
  ASSUME NEW d, writesWell(d), NEW f, ~ignored(f), f.id \in Nat
  PROVE  LET new == deltaToPipeline(d, projectFact(f)) IN
         /\ new # NoDocument /\ writesWell(new)
         /\ f.id \in new.processedEventKeys /\ keeps(d, new)
<1> DEFINE delta == projectFact(f)
           new == deltaToPipeline(d, delta)
<1>1. /\ delta.impliedStatus = RANK_TABLE[f.type].status /\ delta.entry = entryOf(f)
      /\ f.type \in HANDLED_EVENT_TYPES
  BY DEF projectFact, impliedStatusOf, ignored
<1>2. delta.entry.id = f.id
  <2>1. entryOf(f).id = f.id
    BY DEF entryOf
  <2> QED
    BY <1>1, <2>1
<1> HIDE DEF delta
<1>3. raisedStatus(d, delta) \in OrderStatus
  <2>1. CASE raisedStatus(d, delta) = d.status
    BY <2>1 DEF writesWell
  <2>2. CASE raisedStatus(d, delta) # d.status
    <3>1. raisedStatus(d, delta) = delta.impliedStatus /\ delta.impliedStatus # "none"
      BY <2>2 DEF raisedStatus
    <3> QED
      BY <1>1, <3>1 DEF OrderStatus
  <2> QED
    BY <2>1, <2>2
<1>4. /\ new.status = raisedStatus(d, delta)
      /\ new.processedEventKeys = d.processedEventKeys \union {delta.entry.id}
      /\ "statusRank" \in DOMAIN new
  BY DEF deltaToPipeline
<1> HIDE DEF new
<1>5. new # NoDocument
  BY <1>4 DEF NoDocument
<1> QED
  BY <1>2, <1>3, <1>4, <1>5 DEF writesWell, keeps, new, delta

LEMMA PlaceholderWrites ==
  \A t : placeholderSkeleton(t) # NoDocument /\ writesWell(placeholderSkeleton(t))
<1> TAKE t
<1>1. /\ placeholderSkeleton(t).status = "placed"
      /\ placeholderSkeleton(t).processedEventKeys = {}
      /\ "statusRank" \in DOMAIN placeholderSkeleton(t)
  BY DEF placeholderSkeleton
<1> QED
  BY <1>1, PlacedIsAStatus DEF writesWell, NoDocument

LEMMA BootKeeps ==
  ASSUME ProjectorInv, UNCHANGED story, Boot
  PROVE  ProjectorInv'
<1>1. /\ document = Seeded[story] /\ story \in Story
      /\ delivery' = [s \in Service |-> at("idle")]
      /\ document' = migrateTimelineOrder(backfillLegacyDocuments(document))
      /\ UNCHANGED <<position, deadLetters, faults>>
  BY DEF Boot, ProjectorInv
<1>2. document' # NoDocument => writesWell(document')
  <2>1. CASE document = NoDocument
    BY <1>1, <2>1 DEF migrateTimelineOrder, backfillLegacyDocuments, NoDocument
  <2>2. CASE document # NoDocument
    BY <1>1, <2>2, StoryAssumption, BootWrites
  <2> QED
    BY <2>1, <2>2
<1>3. /\ delivery'["orders"].stage = "idle" /\ at("down").stage = "down"
      /\ \A s \in Service : /\ delivery'[s].stage = "idle"
                            /\ delivery'[s] = [stage |-> delivery'[s].stage,
                                 attempt |-> delivery'[s].attempt, after |-> delivery'[s].after]
  BY <1>1 DEF at, Service
<1>4. delivery' # [s \in Service |-> at("down")] /\ delivery' = [s \in Service |-> delivery'[s]]
  BY <1>1, <1>3 DEF Service
<1>5. ProjectorTypeOK'
  BY <1>1, <1>2, <1>3 DEF ProjectorInv, ProjectorTypeOK, records, writesWell, Stage
<1>6. \A s \in Service : working(s)'
  BY <1>1, <1>3 DEF working
<1>7. NothingIsDropped'
  <2>1. \A s \in Service : position'[s] = 0
    <3>1. \A s \in Service : delivery[s].stage = "down"
      BY DEF Boot, at
    <3> QED
      BY <1>1, <3>1 DEF ProjectorInv, working
  <2> QED
    BY <2>1 DEF NothingIsDropped
<1> QED
  BY <1>1, <1>4, <1>5, <1>6, <1>7 DEF ProjectorInv

LEMMA DeliveryFields ==
  ASSUME ProjectorInv, NEW s \in Service, NEW x, NEW y
  PROVE  /\ [delivery EXCEPT ![s].stage = x] =
              [delivery EXCEPT ![s] =
                 [stage |-> x, attempt |-> delivery[s].attempt, after |-> delivery[s].after]]
         /\ [delivery EXCEPT ![s].stage = x, ![s].after = y] =
              [delivery EXCEPT ![s] =
                 [stage |-> x, attempt |-> delivery[s].attempt, after |-> y]]
         /\ [delivery EXCEPT ![s].stage = x, ![s].attempt = y] =
              [delivery EXCEPT ![s] =
                 [stage |-> x, attempt |-> y, after |-> delivery[s].after]]
<1> DEFINE g == delivery[s].stage
           a == delivery[s].attempt
           z == delivery[s].after
           d == [stage |-> g, attempt |-> a, after |-> z]
           e == [stage |-> x, attempt |-> a, after |-> z]
           p == [delivery EXCEPT ![s].stage = x]
<1>1. delivery[s] = d /\ delivery = [t \in Service |-> delivery[t]]
  BY DEF ProjectorInv, working
<1>2. [d EXCEPT !.stage = x] = e
  OBVIOUS
<1>3. [e EXCEPT !.after = y] = [stage |-> x, attempt |-> a, after |-> y]
  OBVIOUS
<1>4. [e EXCEPT !.attempt = y] = [stage |-> x, attempt |-> y, after |-> z]
  OBVIOUS
<1> HIDE DEF d, e, g, a, z
<1>5. p = [delivery EXCEPT ![s] = e]
  BY <1>1, <1>2
<1> HIDE DEF p
<1>6. p[s] = e /\ p = [t \in Service |-> p[t]] /\ \A t \in Service \ {s} : p[t] = delivery[t]
  BY <1>1, <1>5
<1>7. \A w : [p EXCEPT ![s] = w] = [delivery EXCEPT ![s] = w]
  BY <1>1, <1>5
<1>8. [p EXCEPT ![s].after = y] = [p EXCEPT ![s] = [stage |-> x, attempt |-> a, after |-> y]]
  BY <1>3, <1>6
<1>9. [p EXCEPT ![s].attempt = y] = [p EXCEPT ![s] = [stage |-> x, attempt |-> y, after |-> z]]
  BY <1>4, <1>6
<1> DEFINE after == [stage |-> x, attempt |-> a, after |-> y]
           attempt == [stage |-> x, attempt |-> y, after |-> z]
<1> HIDE DEF after, attempt
<1>10. [p EXCEPT ![s].after = y] = [delivery EXCEPT ![s] = after]
  BY <1>7, <1>8 DEF after
<1>11. [p EXCEPT ![s].attempt = y] = [delivery EXCEPT ![s] = attempt]
  BY <1>7, <1>9 DEF attempt
<1> QED
  BY <1>5, <1>10, <1>11, Zenon DEF p, e, a, z, after, attempt

(* What is known of the delivery an instance works on.                     *)
LEMMA InHand ==
  ASSUME ProjectorInv, NEW s \in Service
  PROVE  /\ delivery[s].stage \notin {"down", "idle"} => position[s] < Len(records(s))
         /\ delivery[s].stage \in {"received", "placed", "applied"} =>
              ~ignored(fact(s)) /\ fact(s).id \in Nat
         /\ delivery[s].stage = "placed" => document # NoDocument
         /\ delivery[s].stage = "applied" =>
              /\ delivery[s].after.status \in OrderStatus
              /\ settledBy(fact(s), document, deadLetters)
         /\ document # NoDocument => writesWell(document) /\ keeps(document, document)
         /\ deadLetters \subseteq Nat /\ faults \in 0..MaxFaults
         /\ fault => faults' \in 0..MaxFaults
<1>1. working(s) /\ ProjectorTypeOK
  BY DEF ProjectorInv
<1>2. fault => faults' \in 0..MaxFaults
  BY <1>1, StoryAssumption DEF ProjectorTypeOK, fault
<1> QED
  BY <1>1, <1>2, FactOfStory
     DEF working, ProjectorTypeOK, writesWell, accountedFor, settledBy, keeps

LEMMA ReceiveKeeps ==
  ASSUME ProjectorInv, UNCHANGED story, NEW s \in Service, Receive(s)
  PROVE  ProjectorInv'
<1> DEFINE x == IF ignored(fact(s)) THEN "settled" ELSE "received"
           d == [stage |-> x, attempt |-> 1, after |-> NoDocument]
<1>1. /\ position[s] < Len(records(s)) /\ delivery' = [delivery EXCEPT ![s] = d]
      /\ UNCHANGED <<document, position, deadLetters, faults>>
  BY DEF Receive
<1>2. /\ d = [stage |-> d.stage, attempt |-> d.attempt, after |-> d.after]
      /\ d.stage \in {"settled", "received"} /\ (d.stage = "received" => ~ignored(fact(s)))
      /\ d.stage = "settled" => settledBy(fact(s), document', deadLetters')
  BY DEF settledBy
<1> HIDE DEF d
<1> QED
  BY <1>1, <1>2, InHand, DeliveryStep DEF Stage

LEMMA UpsertKeeps ==
  ASSUME ProjectorInv, UNCHANGED story, NEW s \in Service, UpsertPlaceholder(s)
  PROVE  ProjectorInv'
<1> DEFINE d == [stage |-> "placed", attempt |-> delivery[s].attempt, after |-> delivery[s].after]
<1>1. /\ delivery[s].stage = "received" /\ delivery' = [delivery EXCEPT ![s] = d]
      /\ document' = IF document = NoDocument THEN placeholderSkeleton(fact(s).at) ELSE document
      /\ UNCHANGED <<position, deadLetters, faults>>
  BY DeliveryFields DEF UpsertPlaceholder, moves
<1>2. d = [stage |-> d.stage, attempt |-> d.attempt, after |-> d.after] /\ d.stage = "placed"
  OBVIOUS
<1> HIDE DEF d
<1>3. /\ document' # NoDocument /\ writesWell(document')
      /\ document # NoDocument => keeps(document, document')
  BY <1>1, InHand, PlaceholderWrites
<1> QED
  BY <1>1, <1>2, <1>3, InHand, DeliveryStep DEF Stage

LEMMA ApplyKeeps ==
  ASSUME ProjectorInv, UNCHANGED story, NEW s \in Service, Apply(s)
  PROVE  ProjectorInv'
<1> DEFINE new == deltaToPipeline(document, projectFact(fact(s)))
<1>1. /\ delivery[s].stage = "placed"
      /\ \/ /\ fact(s).id \in document.processedEventKeys
            /\ delivery' = [delivery EXCEPT ![s].stage = "settled"] /\ document' = document
         \/ /\ delivery' = [delivery EXCEPT ![s].stage = "applied", ![s].after = new]
            /\ document' = new
      /\ UNCHANGED <<position, deadLetters, faults>>
  BY DEF Apply
<1>2. /\ new # NoDocument /\ writesWell(new)
      /\ fact(s).id \in new.processedEventKeys /\ keeps(document, new)
  BY <1>1, InHand, DeltaWrites
<1> HIDE DEF new
<1>3. CASE /\ fact(s).id \in document.processedEventKeys
           /\ delivery' = [delivery EXCEPT ![s].stage = "settled"] /\ document' = document
  <2> DEFINE d == [stage |-> "settled", attempt |-> delivery[s].attempt, after |-> delivery[s].after]
  <2>1. delivery' = [delivery EXCEPT ![s] = d]
    BY <1>3, DeliveryFields, ZenonT(60)
  <2>2. d = [stage |-> d.stage, attempt |-> d.attempt, after |-> d.after] /\ d.stage = "settled"
    OBVIOUS
  <2> HIDE DEF d
  <2>3. settledBy(fact(s), document', deadLetters')
    BY <1>1, <1>3, InHand DEF settledBy
  <2> QED
    BY <1>1, <1>3, <2>1, <2>2, <2>3, InHand, DeliveryStep DEF Stage
<1>4. CASE /\ delivery' = [delivery EXCEPT ![s].stage = "applied", ![s].after = new]
           /\ document' = new
  <2> DEFINE d == [stage |-> "applied", attempt |-> delivery[s].attempt, after |-> new]
  <2>1. delivery' = [delivery EXCEPT ![s] = d]
    <3>1. [delivery EXCEPT ![s].stage = "applied", ![s].after = new] = [delivery EXCEPT ![s] = d]
      BY DeliveryFields, ZenonT(60)
    <3> QED
      BY <1>4, <3>1, Zenon
  <2>2. /\ d = [stage |-> d.stage, attempt |-> d.attempt, after |-> d.after]
        /\ d.stage = "applied" /\ d.after = new
    OBVIOUS
  <2> HIDE DEF d
  <2>3. d.after.status \in OrderStatus
    BY <1>2, <2>2 DEF writesWell
  <2>4. settledBy(fact(s), document', deadLetters')
    BY <1>2, <1>4 DEF settledBy
  <2> QED
    BY <1>1, <1>2, <1>4, <2>1, <2>2, <2>3, <2>4, InHand, DeliveryStep DEF Stage
<1> QED
  BY <1>1, <1>3, <1>4

LEMMA AttemptFailsKeeps ==
  ASSUME ProjectorInv, UNCHANGED story, NEW s \in Service, AttemptFails(s)
  PROVE  ProjectorInv'
<1> DEFINE x == IF delivery[s].attempt < MaxAttempts THEN "received" ELSE "settled"
           y == IF delivery[s].attempt < MaxAttempts THEN delivery[s].attempt + 1
                ELSE delivery[s].attempt
           d == [stage |-> x, attempt |-> y, after |-> delivery[s].after]
<1>1. /\ delivery[s].stage \in {"received", "placed"}
      /\ UNCHANGED faults \/ fault
      /\ deadLetters \subseteq deadLetters' /\ deadLetters' \subseteq deadLetters \union {fact(s).id}
      /\ UNCHANGED <<document, position>>
  BY DEF AttemptFails
<1>2. delivery' = [delivery EXCEPT ![s] = d]
  <2>1. CASE delivery[s].attempt < MaxAttempts
    <3> DEFINE n == delivery[s].attempt + 1
               e == [stage |-> "received", attempt |-> n, after |-> delivery[s].after]
    <3>1. [delivery EXCEPT ![s].stage = "received", ![s].attempt = delivery[s].attempt + 1] =
            [delivery EXCEPT ![s] = d]
      <4>1. d = e
        BY <2>1
      <4> HIDE DEF n
      <4>2. [delivery EXCEPT ![s].stage = "received", ![s].attempt = n] = [delivery EXCEPT ![s] = e]
        BY DeliveryFields, ZenonT(60)
      <4> QED
        BY <4>1, <4>2 DEF n
    <3>2. delivery' = [delivery EXCEPT ![s].stage = "received", ![s].attempt = @ + 1]
      BY <2>1 DEF AttemptFails
    <3>3. [delivery EXCEPT ![s].stage = "received"][s].attempt = delivery[s].attempt
      BY DEF ProjectorInv, working
    <3> QED
      BY <3>1, <3>2, <3>3, Zenon
  <2>2. CASE ~ (delivery[s].attempt < MaxAttempts)
    <3>1. delivery' = [delivery EXCEPT ![s].stage = "settled"]
      BY <2>2 DEF AttemptFails
    <3> QED
      BY <2>2, <3>1, DeliveryFields, ZenonT(60)
  <2> QED
    BY <2>1, <2>2
<1>3. /\ d = [stage |-> d.stage, attempt |-> d.attempt, after |-> d.after]
      /\ d.stage \in {"received", "settled"}
      /\ d.stage = "settled" => settledBy(fact(s), document', deadLetters')
  BY DEF settledBy, AttemptFails
<1> HIDE DEF d
<1>4. deadLetters' \subseteq Nat /\ faults' \in 0..MaxFaults
  BY <1>1, InHand
<1> QED
  BY <1>1, <1>2, <1>3, <1>4, InHand, DeliveryStep DEF Stage

(* CommitOffset, and Restart: the instance turns to the next delivery, or  *)
(* to the same one again.                                                  *)
LEMMA IdleKeeps ==
  ASSUME ProjectorInv, UNCHANGED story, NEW s \in Service, CommitOffset(s) \/ Restart(s)
  PROVE  ProjectorInv'
<1> DEFINE d == at("idle")
<1>1. /\ delivery' = [delivery EXCEPT ![s] = d] /\ UNCHANGED <<document, deadLetters>>
      /\ UNCHANGED faults \/ fault
      /\ \/ position' = position
         \/ delivery[s].stage = "settled" /\ position' = [position EXCEPT ![s] = @ + 1]
  BY DEF CommitOffset, Restart
<1>2. d = [stage |-> d.stage, attempt |-> d.attempt, after |-> d.after] /\ d.stage = "idle"
  BY DEF at
<1> HIDE DEF d
<1> QED
  BY <1>1, <1>2, InHand, DeliveryStep DEF Stage

LEMMA PublishSignalKeeps ==
  ASSUME ProjectorInv, UNCHANGED story, NEW s \in Service, PublishSignal(s),
         UNCHANGED faults \/ fault
  PROVE  ProjectorInv'
<1> DEFINE d == [stage |-> "settled", attempt |-> delivery[s].attempt, after |-> NoDocument]
<1>1. /\ delivery[s].stage = "applied" /\ UNCHANGED <<document, position, deadLetters>>
      /\ delivery' = [delivery EXCEPT ![s].stage = "settled", ![s].after = NoDocument]
  BY DEF PublishSignal
<1>2. delivery' = [delivery EXCEPT ![s] = d]
  <2> DEFINE y == NoDocument
  <2> HIDE DEF y
  <2>1. [delivery EXCEPT ![s].stage = "settled", ![s].after = y] =
          [delivery EXCEPT ![s] =
             [stage |-> "settled", attempt |-> delivery[s].attempt, after |-> y]]
    BY DeliveryFields, ZenonT(60)
  <2> QED
    BY <1>1, <2>1 DEF y
<1>3. d = [stage |-> d.stage, attempt |-> d.attempt, after |-> d.after] /\ d.stage = "settled"
  OBVIOUS
<1> HIDE DEF d
<1> QED
  BY <1>1, <1>2, <1>3, InHand, DeliveryStep DEF Stage

LEMMA ProjectorKeeps ==
  ASSUME ProjectorInv, UNCHANGED story, ProjectorNext
  PROVE  ProjectorInv'
BY BootKeeps, ReceiveKeeps, UpsertKeeps, ApplyKeeps, AttemptFailsKeeps, IdleKeeps DEF ProjectorNext

(* Nothing of the hub and of the page moves, or the hub alone.             *)
LEMMA PageStays ==
  ASSUME PageInv, UNCHANGED pageVars, open' = open, cursor <= cursor',
         cursor \in Nat, cursor' \in Nat
  PROVE  PageInv'
<1>1. /\ cache' = cache /\ response' = response /\ client' = client
  BY DEF pageVars
<1>2. PageTypeOK'
  BY <1>1 DEF PageInv, PageTypeOK
<1> QED
  BY <1>1, <1>2 DEF PageInv

LEMMA AnnounceKeeps ==
  ASSUME ReadSideInv, NEW s \in Service, Announce(s) \/ AnnounceFails(s)
  PROVE  ReadSideInv'
<1>1. /\ PublishSignal(s) /\ UNCHANGED <<story, pageVars>> /\ (UNCHANGED faults \/ fault)
      /\ SignalArrives(announced(s)) \/ SignalLost(announced(s)) \/ UNCHANGED hubVars
  BY DEF Announce, AnnounceFails
<1>2. ProjectorInv'
  BY <1>1, PublishSignalKeeps DEF ReadSideInv
<1>3. delivery[s].after.status \in OrderStatus
  BY <1>1, InHand DEF ReadSideInv, PublishSignal
<1>4. client' = client /\ client.last \in 0..cursor /\ cursor \in Nat
  BY <1>1 DEF pageVars, ReadSideInv, PageInv, PageTypeOK, HubInv
<1>5. HubInv' /\ StreamGapless' /\ cursor <= cursor' /\ open' = open
  <2>1. CASE UNCHANGED hubVars
    BY <1>4, <2>1, SameStream DEF ReadSideInv
  <2>2. CASE SignalArrives(announced(s)) \/ SignalLost(announced(s))
    <3> DEFINE d == delivery[s].after
    <3> HIDE DEF d
    <3>1. \/ SignalArrives(<<orderUpdated(d), timelineAppended(d)>>)
          \/ SignalLost(<<orderUpdated(d), timelineAppended(d)>>)
      BY <2>2 DEF announced, d
    <3>2. d.status \in OrderStatus
      BY <1>3 DEF d
    <3> QED
      BY <1>4, <3>1, <3>2, SignalKeeps DEF ReadSideInv
  <2> QED
    BY <1>1, <2>1, <2>2
<1>6. PageInv'
  BY <1>1, <1>4, <1>5, PageStays DEF ReadSideInv, HubInv
<1> QED
  BY <1>2, <1>5, <1>6 DEF ReadSideInv

-----------------------------------------------------------------------------
(* The whole.                                                              *)

LEMMA InitInv == Init => ReadSideInv
<1> SUFFICES ASSUME Init PROVE ReadSideInv
  OBVIOUS
<1> USE DEF Init
<1>1. ProjectorInv
  <2>1. \A s \in Service : delivery[s] = at("down") /\ position[s] = 0
    BY DEF ProjectorInit
  <2>2. \A s \in Service : /\ delivery[s].stage = "down"
                           /\ delivery[s] = [stage |-> delivery[s].stage,
                                attempt |-> delivery[s].attempt, after |-> delivery[s].after]
    BY <2>1 DEF at
  <2>3. ProjectorTypeOK
    <3>1. document # NoDocument => document.status \in OrderStatus /\ document.processedEventKeys \subseteq Nat
      BY StoryAssumption, SeedsAreTyped DEF ProjectorInit
    <3>2. \A s \in Service : Len(records(s)) \in Nat
      BY StoryAssumption DEF ProjectorInit, records
    <3> QED
      BY <2>1, <2>2, <3>1, <3>2, StoryAssumption DEF ProjectorInit, ProjectorTypeOK, Stage
  <2>4. \A s \in Service : working(s)
    BY <2>1, <2>2 DEF working
  <2>5. NothingIsDropped
    BY <2>1 DEF NothingIsDropped
  <2> QED
    BY <2>1, <2>3, <2>4, <2>5 DEF ProjectorInit, ProjectorInv
<1>2. HubInv /\ StreamGapless
  <2>1. lastMinted(buffer, cursor) /\ writable(pipe, cursor)
    BY DEF HubInit, lastMinted, writable, ToSet
  <2>2. StreamGapless
    BY DEF HubInit, StreamGapless
  <2>3. cursor \in Nat /\ since \in 0..cursor /\ pipe = <<>>
    BY DEF HubInit
  <2>4. open \in BOOLEAN
    BY DEF HubInit
  <2> QED
    BY <2>1, <2>2, <2>3, <2>4 DEF HubInv
<1>3. PageInv
  BY DEF PageInit, HubInit, PageInv, PageTypeOK, ClientState, shown, Nothing, Offline
<1> QED
  BY <1>1, <1>2, <1>3 DEF ReadSideInv

LEMMA NextKeeps == ReadSideInv /\ [Next]_vars => ReadSideInv'
<1> SUFFICES ASSUME ReadSideInv, [Next]_vars PROVE ReadSideInv'
  OBVIOUS
<1>1. cursor \in Nat /\ client.last \in 0..cursor
  BY DEF ReadSideInv, HubInv, PageInv, PageTypeOK
<1>2. CASE projectorStep(ProjectorNext)
  <2>1. ProjectorInv'
    BY <1>2, ProjectorKeeps DEF projectorStep, ReadSideInv
  <2>2. UNCHANGED hubVars /\ UNCHANGED pageVars /\ client' = client
    BY <1>2 DEF projectorStep, pageVars
  <2>3. HubInv' /\ StreamGapless' /\ cursor' = cursor /\ open' = open
    BY <2>2, SameStream DEF ReadSideInv
  <2>4. PageInv'
    BY <1>1, <2>2, <2>3, PageStays DEF ReadSideInv
  <2> QED
    BY <2>1, <2>3, <2>4 DEF ReadSideInv
<1>3. CASE \E s \in Service : Announce(s) \/ AnnounceFails(s)
  BY <1>3, AnnounceKeeps
<1>4. CASE \/ pageStep(Load \/ Reload \/ Poll \/ Respond \/ OpenStream \/ HandleReady
                         \/ HandleFrame \/ HandlePing \/ RetryConnection)
           \/ pageFault(StreamBreaks \/ StreamRefused \/ WindowForgets)
  BY <1>4, PageStepKeeps
<1>5. CASE pageFault(story \in Watched /\ OtherOrderArrives /\ UNCHANGED pageVars)
  <2>1. ProjectorInv'
    BY <1>5, ProjectorStays DEF ReadSideInv, pageFault
  <2>2. OtherOrderArrives /\ UNCHANGED pageVars /\ client' = client
    BY <1>5 DEF pageFault, pageVars
  <2>3. HubInv' /\ StreamGapless' /\ cursor <= cursor' /\ open' = open
    BY <1>1, <2>2, OtherOrderKeeps DEF ReadSideInv
  <2>4. PageInv'
    BY <1>1, <2>2, <2>3, PageStays DEF ReadSideInv, HubInv
  <2> QED
    BY <2>1, <2>3, <2>4 DEF ReadSideInv
<1>6. CASE UNCHANGED vars
  <2>1. /\ UNCHANGED <<story, projectorVars>> /\ UNCHANGED faults /\ UNCHANGED hubVars
        /\ UNCHANGED pageVars /\ client' = client
    BY <1>6 DEF vars, pageVars
  <2>2. HubInv' /\ StreamGapless' /\ cursor' = cursor /\ open' = open
    BY <2>1, SameStream DEF ReadSideInv
  <2>3. PageInv'
    BY <1>1, <2>1, <2>2, PageStays DEF ReadSideInv
  <2> QED
    BY <2>1, <2>2, <2>3, ProjectorStays DEF ReadSideInv
<1> QED
  BY <1>2, <1>3, <1>4, <1>5, <1>6 DEF Next

(* What an instance does to its delivery never brings it down.             *)
LEMMA NoInstanceGoesDown ==
  ASSUME ProjectorInv, NEW s \in Service,
         \/ Receive(s) \/ AttemptFails(s) \/ CommitOffset(s) \/ Restart(s) \/ PublishSignal(s)
  PROVE  /\ document' = document /\ delivery[s].stage # "down"
         /\ \E d : delivery' = [delivery EXCEPT ![s] = d] /\ d.stage # "down"
<1> DEFINE e == delivery[s]
<1>1. e = [stage |-> e.stage, attempt |-> e.attempt, after |-> e.after]
  BY DEF ProjectorInv, working
<1>2. CASE Receive(s) \/ CommitOffset(s) \/ Restart(s)
  BY <1>2 DEF Receive, CommitOffset, Restart, at
<1>3. CASE AttemptFails(s)
  <2>1. document' = document /\ e.stage \in {"received", "placed"}
    BY <1>3 DEF AttemptFails
  <2>2. CASE e.attempt < MaxAttempts
    <3> DEFINE d == [e EXCEPT !.stage = "received", !.attempt = @ + 1]
    <3>1. delivery' = [delivery EXCEPT ![s] = d]
      BY <1>3, <2>2, Zenon DEF AttemptFails
    <3>2. d.stage = "received"
      BY <1>1
    <3> HIDE DEF d
    <3> QED
      BY <2>1, <3>1, <3>2
  <2>3. CASE ~(e.attempt < MaxAttempts)
    <3> DEFINE d == [e EXCEPT !.stage = "settled"]
    <3>1. delivery' = [delivery EXCEPT ![s] = d]
      BY <1>3, <2>3, Zenon DEF AttemptFails
    <3>2. d.stage = "settled"
      BY <1>1
    <3> HIDE DEF d
    <3> QED
      BY <2>1, <3>1, <3>2
  <2> QED
    BY <2>2, <2>3
<1>4. CASE PublishSignal(s)
  <2> DEFINE d == [e EXCEPT !.stage = "settled", !.after = NoDocument]
  <2>1. delivery' = [delivery EXCEPT ![s] = d]
    BY <1>4, Zenon DEF PublishSignal
  <2>2. d.stage = "settled" /\ document' = document /\ e.stage = "applied"
    BY <1>1, <1>4 DEF PublishSignal
  <2> HIDE DEF d
  <2> QED
    BY <2>1, <2>2
<1> QED
  BY <1>2, <1>3, <1>4

LEMMA NextKeepsDocument == ReadSideInv /\ DocumentInv /\ [Next]_vars => DocumentInv'
<1> SUFFICES ASSUME ReadSideInv, DocumentInv, [Next]_vars PROVE DocumentInv'
  OBVIOUS
<1>1. ProjectorInv
  BY DEF ReadSideInv
<1>2. CASE projectorStep(ProjectorNext)
  <2>1. UNCHANGED story /\ ProjectorNext
    BY <1>2 DEF projectorStep
  <2>2. CASE Boot
    BY <1>1, <2>1, <2>2, BootKeepsDocument
  <2>3. ASSUME NEW s \in Service, UpsertPlaceholder(s) \/ Apply(s)
        PROVE  DocumentInv'
    BY <1>1, <2>1, <2>3, UpsertKeepsDocument, ApplyKeepsDocument
  <2>4. ASSUME NEW s \in Service, Receive(s) \/ AttemptFails(s) \/ CommitOffset(s) \/ Restart(s)
        PROVE  DocumentInv'
    BY <1>1, <2>1, <2>4, NoInstanceGoesDown, OtherStepsKeepDocument
  <2> QED
    BY <2>1, <2>2, <2>3, <2>4 DEF ProjectorNext
<1>3. ASSUME NEW s \in Service, Announce(s) \/ AnnounceFails(s)
      PROVE  DocumentInv'
  <2>1. PublishSignal(s) /\ UNCHANGED story
    BY <1>3 DEF Announce, AnnounceFails
  <2> QED
    BY <1>1, <2>1, NoInstanceGoesDown, OtherStepsKeepDocument
<1>4. CASE UNCHANGED <<story, projectorVars>>
  BY <1>1, <1>4, OtherStepsKeepDocument DEF projectorVars
<1>5. \/ projectorStep(ProjectorNext) \/ UNCHANGED <<story, projectorVars>>
      \/ \E s \in Service : Announce(s) \/ AnnounceFails(s)
  BY DEF Next, vars, pageStep, pageFault
<1> QED
  BY <1>2, <1>3, <1>4, <1>5

(* Between the topics and the screen: the document, what the instances     *)
(* work on, the buffer, the connection and the page stay in step.          *)
THEOREM ReadSideInvariant == Spec => []ReadSideInv
BY InitInv, NextKeeps, PTL DEF Spec

(* projector, gateway and page: what their variables hold.                 *)
THEOREM ReadSideTypeCorrect == Spec => []TypeOK
<1>1. ReadSideInv => TypeOK
  BY DEF ReadSideInv, ProjectorInv, PageInv, TypeOK
<1> QED
  BY <1>1, ReadSideInvariant, PTL

(* R55, ReplayBuffer.replayAfter and StreamController.stream: a connection *)
(* that resumes from Last-Event-ID carries every frame of the order that   *)
(* came after it, once and in order; one that cannot says so.              *)
THEOREM ResumingSkipsNothing == Spec => []StreamGapless
<1>1. ReadSideInv => StreamGapless
  BY DEF ReadSideInv
<1> QED
  BY <1>1, ReadSideInvariant, PTL

(* PR10, the projector's at-least-once consumers: a fact is acknowledged   *)
(* only after it took effect or went to the dead letters, whatever crashed *)
(* or was delivered again in between.                                      *)
THEOREM AcknowledgedFactsAreAccountedFor == Spec => []NothingIsDropped
<1>1. ReadSideInv => NothingIsDropped
  BY DEF ReadSideInv, ProjectorInv
<1> QED
  BY <1>1, ReadSideInvariant, PTL

(* PR10, PR15, R51, R52, DeltaToPipeline: in whatever order, how often and *)
(* by whichever instance a story's facts are applied, once the migrations  *)
(* have run the document says what the facts applied so far say.           *)
THEOREM DocumentsReplayTheirFacts == Spec => []DocumentIsReplay
<1>1. Init => DocumentInv
  BY DEF Init, ProjectorInit, DocumentInv
<1>2. ReadSideInv /\ DocumentInv => DocumentIsReplay
  BY DocumentSays DEF ReadSideInv, ProjectorInv
<1> QED
  BY <1>1, <1>2, ReadSideInvariant, NextKeepsDocument, PTL DEF Spec

=============================================================================
