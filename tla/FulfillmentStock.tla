-------------------------- MODULE FulfillmentStock --------------------------
(***************************************************************************)
(* Fulfillment: stock rows, reservations and despatches under concurrent   *)
(* requests.  A request handler pre-reads without locks where the code     *)
(* does, locks the stock rows it needs one by one in index order, loads    *)
(* them, and commits what it computed from that snapshot; a crash rolls    *)
(* the transaction back.                                                   *)
(*                                                                         *)
(* One company is modelled.  An order's lines for the same product are     *)
(* checked and moved together by the code, so a reservation row stands for *)
(* an order's total on a product.                                          *)
(***************************************************************************)
EXTENDS Integers, Sequences, FiniteSetsExt, Functions

CONSTANTS
  Product,      \* product codes a request may name
  Known,        \* those with a stock row
  Rank,         \* position of a stock row in (company_code, product_code) order
  Order,        \* orders asking for stock
  Delivery,     \* replenishment requests
  Demand,       \* units per product: of an order, or of a replenishment
  InitialUnits, \* units on hand at the start
  Call,         \* requests that reach the service, repeats included
  Operation,    \* what each request asks for
  Target,       \* the order or delivery it is about
  MaxStarted    \* bound: requests that reach the service in one behaviour

Op == {"reserve", "release", "despatch", "replenish"}

ASSUME StockAssumption ==
  /\ Known \subseteq Product
  /\ Rank \in [Product -> Nat]
  /\ \A p, q \in Product : Rank[p] = Rank[q] => p = q
  /\ Demand \in [Order \union Delivery -> [Product -> Nat]]
  /\ InitialUnits \in [Known -> Nat]
  /\ Operation \in [Call -> Op]
  /\ Target \in [Call -> Order \union Delivery]
  /\ MaxStarted \in Nat
  /\ \A c \in Call : Operation[c] = "replenish" <=> Target[c] \in Delivery
  /\ \A c \in Call : Operation[c] # "replenish" <=> Target[c] \in Order

VARIABLES
  units,          \* stock.units
  reservedUnits,  \* stock.reserved_units
  status,         \* reservations.status per order and product, "none" without row
  despatches,     \* orders with a despatch row
  facts,          \* outbox facts per order, in commit order
  stage,          \* where each request's handler is
  needed,         \* stock rows the handler's transaction locks
  held,           \* row locks it has
  snapshot,       \* what it loaded once it had them all
  reply           \* what it answered

stockVars == <<units, reservedUnits, status, despatches, facts>>
callVars == <<stage, needed, held, snapshot, reply>>
vars == <<stockVars, callVars>>

RowStatus == {"none", "reserved", "released", "consumed"}
Stage == {"idle", "prereading", "locking", "loaded", "done"}
Reply == {"none", "accepted", "already", "rejected", "error", "crashed"}
FactType == {"stock.reserved", "stock.rejected", "stock.released", "order.despatched"}

TypeOK ==
  /\ units \in [Known -> Nat]
  /\ reservedUnits \in [Known -> Nat]
  /\ status \in [Order -> [Product -> RowStatus]]
  /\ despatches \subseteq Order
  /\ facts \in [Order -> Seq(FactType)]
  /\ stage \in [Call -> Stage]
  /\ needed \in [Call -> SUBSET Known]
  /\ held \in [Call -> SUBSET Known]
  /\ reply \in [Call -> Reply]

Lines(x) == {p \in Product : Demand[x][p] > 0}

NoSnapshot == [units |-> <<>>, reservedUnits |-> <<>>, status |-> <<>>]

Init ==
  /\ units = InitialUnits
  /\ reservedUnits = [p \in Known |-> 0]
  /\ status = [o \in Order |-> [p \in Product |-> "none"]]
  /\ despatches = {}
  /\ facts = [o \in Order |-> <<>>]
  /\ stage = [c \in Call |-> "idle"]
  /\ needed = [c \in Call |-> {}]
  /\ held = [c \in Call |-> {}]
  /\ snapshot = [c \in Call |-> NoSnapshot]
  /\ reply = [c \in Call |-> "none"]

-----------------------------------------------------------------------------
(* The way into a transaction.                                             *)

go(c, from, to) == stage[c] = from /\ stage' = [stage EXCEPT ![c] = to]

answer(c, r) == reply' = [reply EXCEPT ![c] = r]

(* Answered before any transaction is opened.                              *)
refuseEarly(c, from, r) ==
  /\ go(c, from, "done")
  /\ answer(c, r)
  /\ UNCHANGED <<stockVars, needed, held, snapshot>>

beginLocking(c, from, rows) ==
  /\ go(c, from, "locking")
  /\ needed' = [needed EXCEPT ![c] = rows]
  /\ UNCHANGED <<stockVars, held, snapshot, reply>>

(* Reserve and replenish name the rows in the request; a reservation of    *)
(* known products only leaves the unknown ones out, a replenishment naming *)
(* one is refused, as is a reservation naming nothing else.                *)
Start(c) ==
  \/ /\ Operation[c] = "reserve"
     /\ IF Lines(Target[c]) \intersect Known = {}
        THEN refuseEarly(c, "idle", "error")
        ELSE beginLocking(c, "idle", Lines(Target[c]) \intersect Known)
  \/ /\ Operation[c] = "replenish"
     /\ IF Lines(Target[c]) \subseteq Known
        THEN beginLocking(c, "idle", Lines(Target[c]))
        ELSE refuseEarly(c, "idle", "error")
  \/ /\ Operation[c] = "release"
     /\ go(c, "idle", "prereading")
     /\ UNCHANGED <<stockVars, needed, held, snapshot, reply>>
  \/ /\ Operation[c] = "despatch"
     /\ IF Target[c] \in despatches
        THEN refuseEarly(c, "idle", "already")
        ELSE /\ go(c, "idle", "prereading")
             /\ UNCHANGED <<stockVars, needed, held, snapshot, reply>>

(* The order's stock ids, read without a lock.                             *)
stockIdsOfOrder(o) == {p \in Product : status[o][p] # "none"}

PreRead(c) ==
  /\ stage[c] = "prereading"
  /\ IF stockIdsOfOrder(Target[c]) = {}
     THEN refuseEarly(c, "prereading", IF Operation[c] = "release" THEN "already" ELSE "error")
     ELSE beginLocking(c, "prereading", stockIdsOfOrder(Target[c]))

(* Mutant: rows are read without FOR UPDATE.                               *)
freeUnlocked(p) == TRUE

free(p) == \A d \in Call : p \notin held[d]

(* Mutant: rows are locked in whatever order the request names them.       *)
LockNextUnordered(c) ==
  /\ stage[c] = "locking"
  /\ \E p \in needed[c] \ held[c] : free(p) /\ held' = [held EXCEPT ![c] = @ \union {p}]
  /\ UNCHANGED <<stockVars, stage, needed, snapshot, reply>>

(* SELECT ... ORDER BY company_code, product_code FOR UPDATE.              *)
LockNext(c) ==
  /\ stage[c] = "locking"
  /\ \E p \in needed[c] \ held[c] :
       /\ \A q \in needed[c] \ held[c] : Rank[p] <= Rank[q]
       /\ free(p)
       /\ held' = [held EXCEPT ![c] = @ \union {p}]
  /\ UNCHANGED <<stockVars, stage, needed, snapshot, reply>>

(* Mutant: the handler loads before it has all of its locks.               *)
LoadEarly(c) ==
  /\ go(c, "locking", "loaded")
  /\ snapshot' = [snapshot EXCEPT ![c] =
       [units |-> units, reservedUnits |-> reservedUnits,
        status |-> IF Target[c] \in Order THEN status[Target[c]] ELSE <<>>]]
  /\ UNCHANGED <<stockVars, needed, held, reply>>

Load(c) ==
  /\ held[c] = needed[c]
  /\ go(c, "locking", "loaded")
  /\ snapshot' = [snapshot EXCEPT ![c] =
       [units |-> units, reservedUnits |-> reservedUnits,
        status |-> IF Target[c] \in Order THEN status[Target[c]] ELSE <<>>]]
  /\ UNCHANGED <<stockVars, needed, held, reply>>

-----------------------------------------------------------------------------
(* The commit: what the handler computed from its snapshot is written, the *)
(* fact is appended, the locks are given up.                               *)

finish(c, r) ==
  /\ stage' = [stage EXCEPT ![c] = "done"]
  /\ answer(c, r)
  /\ held' = [held EXCEPT ![c] = {}]
  /\ needed' = [needed EXCEPT ![c] = {}]
  /\ snapshot' = [snapshot EXCEPT ![c] = NoSnapshot]

rollBack(c, r) == finish(c, r) /\ UNCHANGED stockVars

publish(o, type) == facts' = [facts EXCEPT ![o] = Append(@, type)]

(* The order's rows on the locked stock rows that are in status `from'.    *)
rowsIn(c, from) == {p \in needed[c] : snapshot[c].status[p] = from}

(* Mutants: one line of the order is written and not the others; the       *)
(* release, or the despatch, leaves the reservation rows as they are.      *)
setFirstStatus(c, rows, to) ==
  status' = [status EXCEPT ![Target[c]] =
               [@ EXCEPT ![CHOOSE p \in rows : \A q \in rows : Rank[p] <= Rank[q]] = to]]

setStatusUnlessReleased(c, rows, to) ==
  status' = [status EXCEPT ![Target[c]] =
               [p \in Product |-> IF p \in rows /\ to # "released" THEN to ELSE @[p]]]

setStatusUnlessConsumed(c, rows, to) ==
  status' = [status EXCEPT ![Target[c]] =
               [p \in Product |-> IF p \in rows /\ to # "consumed" THEN to ELSE @[p]]]

setStatus(c, rows, to) ==
  status' = [status EXCEPT ![Target[c]] =
               [p \in Product |-> IF p \in rows THEN to ELSE @[p]]]

(* Mutant: saveAll writes reserved_units and forgets units.                *)
saveUnitsForgotten(c, new) == UNCHANGED units

(* saveAll: every locked row is written from the snapshot.                 *)
saveUnits(c, new) ==
  units' = [p \in Known |-> IF p \in needed[c] THEN new[p] ELSE units[p]]
saveReserved(c, new) ==
  reservedUnits' = [p \in Known |-> IF p \in needed[c] THEN new[p] ELSE reservedUnits[p]]

demand(c, p) == Demand[Target[c]][p]

Reserve(c) ==
  LET s == snapshot[c]
      short == (Lines(Target[c]) \ Known)
                 \union {p \in needed[c] : s.reservedUnits[p] + demand(c, p) > s.units[p]}
  IN
  /\ stage[c] = "loaded" /\ Operation[c] = "reserve"
  /\ \/ /\ \E p \in needed[c] : s.status[p] # "none"
        /\ rollBack(c, "already")
     \/ /\ \A p \in needed[c] : s.status[p] = "none"
        /\ short # {}
        /\ finish(c, "rejected")
        /\ publish(Target[c], "stock.rejected")
        /\ UNCHANGED <<units, reservedUnits, status, despatches>>
     \/ /\ \A p \in needed[c] : s.status[p] = "none"
        /\ short = {}
        /\ finish(c, "accepted")
        /\ setStatus(c, needed[c], "reserved")
        /\ saveReserved(c, [p \in needed[c] |-> s.reservedUnits[p] + demand(c, p)])
        /\ publish(Target[c], "stock.reserved")
        /\ UNCHANGED <<units, despatches>>

Release(c) ==
  LET rows == rowsIn(c, "reserved")
      s == snapshot[c]
  IN
  /\ stage[c] = "loaded" /\ Operation[c] = "release"
  /\ \/ /\ rowsIn(c, "consumed") # {}
        /\ rollBack(c, "error")
     \/ /\ rowsIn(c, "consumed") = {} /\ rows = {}
        /\ rollBack(c, "already")
     \/ /\ rowsIn(c, "consumed") = {} /\ rows # {}
        /\ finish(c, "accepted")
        /\ setStatus(c, rows, "released")
        /\ saveReserved(c, [p \in needed[c] |->
             s.reservedUnits[p] - (IF p \in rows THEN demand(c, p) ELSE 0)])
        /\ publish(Target[c], "stock.released")
        /\ UNCHANGED <<units, despatches>>

Despatch(c) ==
  LET rows == rowsIn(c, "reserved")
      s == snapshot[c]
  IN
  /\ stage[c] = "loaded" /\ Operation[c] = "despatch"
  /\ \/ /\ rows = {} /\ rowsIn(c, "consumed") # {} /\ Target[c] \in despatches
        /\ rollBack(c, "already")
     \/ /\ ~(rows = {} /\ rowsIn(c, "consumed") # {} /\ Target[c] \in despatches)
        /\ ~(rows # {} /\ rowsIn(c, "released") = {})
        /\ rollBack(c, "error")
     \/ /\ rows # {} /\ rowsIn(c, "released") = {}
        /\ finish(c, "accepted")
        /\ setStatus(c, rows, "consumed")
        /\ saveUnits(c, [p \in needed[c] |->
             s.units[p] - (IF p \in rows THEN demand(c, p) ELSE 0)])
        /\ saveReserved(c, [p \in needed[c] |->
             s.reservedUnits[p] - (IF p \in rows THEN demand(c, p) ELSE 0)])
        /\ despatches' = despatches \union {Target[c]}
        /\ publish(Target[c], "order.despatched")

Replenish(c) ==
  /\ stage[c] = "loaded" /\ Operation[c] = "replenish"
  /\ finish(c, "accepted")
  /\ saveUnits(c, [p \in needed[c] |-> snapshot[c].units[p] + demand(c, p)])
  /\ UNCHANGED <<reservedUnits, status, despatches, facts>>

(* The process dies, or the database picks the transaction as a victim.    *)
Crash(c) ==
  /\ stage[c] \in {"prereading", "locking", "loaded"}
  /\ stage' = [stage EXCEPT ![c] = "done"]
  /\ answer(c, "crashed")
  /\ held' = [held EXCEPT ![c] = {}]
  /\ needed' = [needed EXCEPT ![c] = {}]
  /\ snapshot' = [snapshot EXCEPT ![c] = NoSnapshot]
  /\ UNCHANGED stockVars

Step(c) ==
  PreRead(c) \/ LockNext(c) \/ Load(c) \/ Reserve(c) \/ Release(c) \/ Despatch(c) \/ Replenish(c)

mayStart == Cardinality({c \in Call : stage[c] # "idle"}) < MaxStarted

Next == \E c \in Call :
  \/ (mayStart /\ Start(c)) \/ Crash(c)
  \/ PreRead(c) \/ LockNext(c) \/ Load(c)
  \/ Reserve(c) \/ Release(c) \/ Despatch(c) \/ Replenish(c)

Spec == Init /\ [][Next]_vars

(* A handler that has started keeps running until it answers or dies.      *)
FairSpec == Spec /\ \A c \in Call : WF_vars(Step(c))

-----------------------------------------------------------------------------
(* Properties.                                                             *)

(* A product's units: per order or delivery, the orders that hold some,    *)
(* and the deliveries that were carried out.                               *)
demandFor(p) == [x \in Order \union Delivery |-> Demand[x][p]]
holding(p) == {o \in Order : status[o][p] = "reserved"}
delivered(p) == [c \in Call |-> Demand[Target[c]][p]]
carriedOut == {c \in Call : Operation[c] = "replenish" /\ reply[c] = "accepted"}

(* F1 and F2: a stock row's reserved_units is exactly what the orders      *)
(* holding it have reserved, never more than the units on hand, however    *)
(* reservations, releases, despatches and deliveries interleave.           *)
CountersMatch == \A p \in Known :
  reservedUnits[p] = SumFunctionOnSet(demandFor(p), holding(p))

NeverOversold == \A p \in Known : reservedUnits[p] <= units[p]

(* Units only come from deliveries and only leave with despatches.         *)
UnitsConserved == \A p \in Known :
  units[p] + SumFunctionOnSet(demandFor(p), despatches)
    = InitialUnits[p] + SumFunctionOnSet(delivered(p), carriedOut)

(* R31: an order's lines are reserved, released or consumed together.      *)
AllOrNothing == \A o \in Order :
  /\ stockIdsOfOrder(o) \in {{}, Lines(o)}
  /\ \A p, q \in Lines(o) : status[o][p] = status[o][q]

(* F8: an order has a despatch exactly when its stock was consumed.        *)
DespatchedIsConsumed == \A o \in Order :
  o \in despatches <=> \E p \in Product : status[o][p] = "consumed"

(* What the whole order's stock amounts to.                                *)
reservationOf(o) ==
  IF stockIdsOfOrder(o) = {} THEN "none" ELSE status[o][CHOOSE p \in stockIdsOfOrder(o) : TRUE]

Contract == INSTANCE ReservationContract
  WITH reservation <- [o \in Order |-> reservationOf(o)]

(* Whatever repeats, races and crashes happen, each order sees one         *)
(* decision, one way out and one fact for each: the saga's contract.       *)
ImplementsContract == Contract!ContractSpec

(* Locks are always given up and never waited for in a circle: a request   *)
(* that has begun comes to an answer.                                      *)
EveryRequestEnds == \A c \in Call : stage[c] # "idle" ~> stage[c] = "done"

unanswered(c) == stage[c] \notin {"idle", "done"}

(* The next row a handler has to lock is another's.                        *)
waitsFor(c, d) ==
  /\ stage[c] = "locking"
  /\ \E p \in (needed[c] \ held[c]) \intersect held[d] :
       \A q \in needed[c] \ held[c] : Rank[p] <= Rank[q]

(* Why: among any unanswered requests one waits for none of the others.    *)
NoLockCycle ==
  /\ \A c, d \in Call : waitsFor(c, d) => unanswered(d)
  /\ \A S \in SUBSET {c \in Call : unanswered(c)} :
       S # {} /\ IsFiniteSet(S) => \E c \in S : \A d \in S : ~waitsFor(c, d)

-----------------------------------------------------------------------------
(* Why the locks suffice: the inductive invariant behind AllOrNothing,     *)
(* NeverOversold and ImplementsContract.                                   *)

(* No stock row has two owners, and a handler computes only on rows it has *)
(* locked.                                                                 *)
LocksExclude ==
  /\ \A c, d \in Call : c # d => held[c] \intersect held[d] = {}
  /\ \A c \in Call : held[c] \subseteq needed[c]
  /\ \A c \in Call : stage[c] = "loaded" => held[c] = needed[c]
  /\ \A c \in Call : stage[c] \notin {"locking", "loaded"} => held[c] = {}

(* Whatever rows a handler still has to lock come after those it has.      *)
LocksInOrder == \A c \in Call :
  \A p \in held[c], q \in needed[c] \ held[c] : Rank[p] < Rank[q]

(* A snapshot is as good as the rows until its owner commits.              *)
SnapshotIsFresh == \A c \in Call : stage[c] = "loaded" =>
  /\ \A p \in needed[c] :
       snapshot[c].units[p] = units[p] /\ snapshot[c].reservedUnits[p] = reservedUnits[p]
  /\ Target[c] \in Order => \A p \in needed[c] : snapshot[c].status[p] = status[Target[c]][p]

(* Handlers of one order contend for the same rows: all of its lines that  *)
(* have one.                                                               *)
NeedsWholeOrder == \A c \in Call :
  /\ stage[c] = "prereading" => Operation[c] \in {"release", "despatch"}
  /\ stage[c] \in {"locking", "loaded"} =>
       /\ needed[c] = Lines(Target[c]) \intersect Known
       /\ Operation[c] # "replenish" => needed[c] # {}
       /\ Operation[c] \in {"release", "despatch"} => stockIdsOfOrder(Target[c]) # {}

LockingInv ==
  /\ units \in [Known -> Int] /\ reservedUnits \in [Known -> Int]
  /\ status \in [Order -> [Product -> RowStatus]]
  /\ stage \in [Call -> Stage]
  /\ needed \in [Call -> SUBSET Known]
  /\ held \in [Call -> SUBSET Known]
  /\ DOMAIN snapshot = Call
  /\ LocksExclude
  /\ LocksInOrder
  /\ SnapshotIsFresh
  /\ NeedsWholeOrder
  /\ \A o \in Order : stockIdsOfOrder(o) \subseteq Known
  /\ AllOrNothing
  /\ NeverOversold

(* The books: what the counters add up to, with the facts that let a       *)
(* commit be entered in them.  A request is answered once, at its end, so  *)
(* a delivery is counted once; sums are over finitely many entries.        *)
BooksInv ==
  /\ facts \in [Order -> Seq(FactType)]
  /\ reply \in [Call -> Reply]
  /\ \A c \in Call : stage[c] # "done" => reply[c] = "none"
  /\ despatches \subseteq Order
  /\ IsFiniteSet(despatches) /\ IsFiniteSet(carriedOut)
  /\ \A p \in Known : IsFiniteSet(holding(p))
  /\ CountersMatch
  /\ UnitsConserved
  /\ DespatchedIsConsumed

=============================================================================
