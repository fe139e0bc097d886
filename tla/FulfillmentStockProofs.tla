----------------------- MODULE FulfillmentStockProofs -----------------------
(***************************************************************************)
(* For any products, orders and requests: the row locks keep an order's    *)
(* lines together and stock from being oversold, and the service with all  *)
(* its concurrent requests implements ReservationContract.                 *)
(*                                                                         *)
(* The argument: two handlers that have loaded hold disjoint rows; two     *)
(* handlers of one order need the same, nonempty set of rows; so the       *)
(* handler that commits is the only one loaded for its order, and what it  *)
(* loaded is still what is stored.  What it adds to a counter or takes     *)
(* away is then exactly its order's or delivery's share of the sum.        *)
(***************************************************************************)
EXTENDS FulfillmentStock, CountingLemmas

(* Only a replenishment is about something other than an order.            *)
LEMMA TargetIsOrder ==
  ASSUME NEW c \in Call
  PROVE  /\ Operation[c] # "replenish" => Target[c] \in Order
         /\ Target[c] \in Order => Operation[c] # "replenish"
         /\ Target[c] \in Order \union Delivery
         /\ \A p \in Product : Demand[Target[c]][p] \in Nat
BY StockAssumption

(* The order in which rows are locked is total.                            *)
LEMMA RanksDiffer ==
  ASSUME NEW p \in Product, NEW q \in Product, Rank[p] <= Rank[q]
  PROVE  p = q \/ Rank[p] < Rank[q]
<1>1. /\ Rank \in [Product -> Nat]
      /\ \A x, y \in Product : Rank[x] = Rank[y] => x = y
  BY StockAssumption
<1> QED
  BY <1>1

(* Under AllOrNothing any line's status speaks for the whole order.        *)
LEMMA LineSpeaksForOrder ==
  ASSUME AllOrNothing, NEW o \in Order, NEW p \in Lines(o)
  PROVE  /\ reservationOf(o) = status[o][p]
         /\ status[o][p] # "none" => stockIdsOfOrder(o) = Lines(o)
BY DEF AllOrNothing, reservationOf, stockIdsOfOrder, Lines

LEMMA LineSpeaksForOrderNext ==
  ASSUME AllOrNothing', NEW o \in Order, NEW p \in Lines(o)
  PROVE  reservationOf(o)' = status'[o][p]
BY DEF AllOrNothing, reservationOf, stockIdsOfOrder, Lines

(* The invariant holds of an untouched warehouse.                          *)
LEMMA InitLocking == Init => LockingInv
<1> SUFFICES ASSUME Init PROVE LockingInv
  OBVIOUS
<1>1. units \in [Known -> Int] /\ reservedUnits \in [Known -> Int] /\ NeverOversold
  BY StockAssumption DEF Init, NeverOversold
<1>2. /\ status \in [Order -> [Product -> RowStatus]]
      /\ stage \in [Call -> Stage]
      /\ needed \in [Call -> SUBSET Known]
      /\ held \in [Call -> SUBSET Known]
      /\ DOMAIN snapshot = Call
  BY DEF Init, RowStatus, Stage
<1>3. LocksExclude /\ LocksInOrder /\ SnapshotIsFresh /\ NeedsWholeOrder
  BY DEF Init, LocksExclude, LocksInOrder, SnapshotIsFresh, NeedsWholeOrder
<1>4. \A o \in Order : stockIdsOfOrder(o) = {}
  BY DEF Init, stockIdsOfOrder
<1>5. AllOrNothing
  BY <1>4 DEF AllOrNothing, Init, Lines
<1> QED
  BY <1>1, <1>2, <1>3, <1>4, <1>5 DEF LockingInv

-----------------------------------------------------------------------------
(* Steps that leave the stock as it is.                                    *)

(* A handler answers before it opens a transaction.                        *)
LEMMA RefuseEarlyKeeps ==
  ASSUME LockingInv, NEW c \in Call, NEW from \in {"idle", "prereading"}, NEW r,
         refuseEarly(c, from, r)
  PROVE  LockingInv'
BY SMTT(30) DEF LockingInv, refuseEarly, go, answer, stockVars, Stage, LocksExclude, LocksInOrder,
       SnapshotIsFresh, NeedsWholeOrder, stockIdsOfOrder, AllOrNothing, NeverOversold

(* A handler goes on to read the order's rows.                             *)
LEMMA PrereadingKeeps ==
  ASSUME LockingInv, NEW c \in Call, Operation[c] \in {"release", "despatch"}, go(c, "idle", "prereading"),
         UNCHANGED <<stockVars, needed, held, snapshot, reply>>
  PROVE  LockingInv'
BY DEF LockingInv, go, stockVars, Stage, LocksExclude, LocksInOrder, SnapshotIsFresh,
       SnapshotIsFresh, NeedsWholeOrder, stockIdsOfOrder, AllOrNothing, NeverOversold

(* A handler knows which rows it is going to lock.                         *)
LEMMA BeginLockingKeeps ==
  ASSUME LockingInv, NEW c \in Call, NEW from \in {"idle", "prereading"}, NEW rows,
         rows = Lines(Target[c]) \intersect Known,
         Operation[c] # "replenish" => rows # {},
         Operation[c] \in {"release", "despatch"} => stockIdsOfOrder(Target[c]) # {},
         beginLocking(c, from, rows)
  PROVE  LockingInv'
<1> USE DEF LockingInv
<1>1. /\ stage' \in [Call -> Stage] /\ needed' \in [Call -> SUBSET Known]
      /\ UNCHANGED <<units, reservedUnits, status, held, snapshot>>
      /\ stage' = [stage EXCEPT ![c] = "locking"]
      /\ needed' = [needed EXCEPT ![c] = rows]
      /\ held[c] = {}
  BY DEF beginLocking, go, stockVars, Stage, LocksExclude
<1>2. LocksExclude' /\ LocksInOrder'
  BY <1>1 DEF LocksExclude, LocksInOrder
<1>3. SnapshotIsFresh'
  BY <1>1 DEF SnapshotIsFresh
<1>4. NeedsWholeOrder'
  BY <1>1 DEF NeedsWholeOrder, stockIdsOfOrder
<1>5. AllOrNothing' /\ NeverOversold' /\ (\A o \in Order : stockIdsOfOrder(o) \subseteq Known)'
  BY <1>1 DEF AllOrNothing, NeverOversold, stockIdsOfOrder
<1> QED
  BY <1>1, <1>2, <1>3, <1>4, <1>5

LEMMA StartKeeps ==
  ASSUME LockingInv, NEW c \in Call, Start(c)
  PROVE  LockingInv'
<1>1. CASE Operation[c] = "reserve"
  <2>1. \/ refuseEarly(c, "idle", "error")
        \/ /\ Lines(Target[c]) \intersect Known # {}
           /\ beginLocking(c, "idle", Lines(Target[c]) \intersect Known)
    BY <1>1 DEF Start
  <2> QED
    BY <1>1, <2>1, RefuseEarlyKeeps, BeginLockingKeeps
<1>2. CASE Operation[c] = "replenish"
  <2>1. \/ refuseEarly(c, "idle", "error")
        \/ /\ Lines(Target[c]) \subseteq Known
           /\ beginLocking(c, "idle", Lines(Target[c]))
    BY <1>2 DEF Start
  <2> QED
    BY <1>2, <2>1, RefuseEarlyKeeps, BeginLockingKeeps
<1>3. CASE Operation[c] \in {"release", "despatch"}
  <2>1. \/ refuseEarly(c, "idle", "already")
        \/ go(c, "idle", "prereading") /\ UNCHANGED <<stockVars, needed, held, snapshot, reply>>
    BY <1>3 DEF Start
  <2> QED
    BY <1>3, <2>1, RefuseEarlyKeeps, PrereadingKeeps
<1> QED
  BY <1>1, <1>2, <1>3, StockAssumption DEF Op

LEMMA PreReadKeeps ==
  ASSUME LockingInv, NEW c \in Call, PreRead(c)
  PROVE  LockingInv'
<1>1. Operation[c] \in {"release", "despatch"} /\ Target[c] \in Order
  BY TargetIsOrder DEF PreRead, LockingInv, NeedsWholeOrder
<1>2. CASE stockIdsOfOrder(Target[c]) = {}
  BY <1>2, RefuseEarlyKeeps DEF PreRead
<1>3. CASE stockIdsOfOrder(Target[c]) # {}
  <2>1. stockIdsOfOrder(Target[c]) = Lines(Target[c]) \intersect Known
    BY <1>1, <1>3 DEF LockingInv, AllOrNothing
  <2>2. beginLocking(c, "prereading", stockIdsOfOrder(Target[c]))
    BY <1>3 DEF PreRead
  <2> QED
    BY <1>3, <2>1, <2>2, BeginLockingKeeps
<1> QED
  BY <1>2, <1>3

(* A row is only taken when nobody has it.                                 *)
LEMMA LockNextKeeps ==
  ASSUME LockingInv, NEW c \in Call, LockNext(c)
  PROVE  LockingInv'
<1> USE DEF LockingInv
<1>1. PICK p \in needed[c] \ held[c] :
        /\ free(p) /\ \A q \in needed[c] \ held[c] : Rank[p] <= Rank[q]
        /\ held' = [held EXCEPT ![c] = @ \union {p}]
  BY DEF LockNext
<1>2. stage[c] = "locking" /\ UNCHANGED <<units, reservedUnits, status, stage, needed, snapshot>>
  BY DEF LockNext, stockVars
<1>3. held' \in [Call -> SUBSET Known]
  BY <1>1
<1>4. LocksExclude'
  BY <1>1, <1>2 DEF LocksExclude, free
<1>6. LocksInOrder'
  <2> SUFFICES ASSUME NEW d \in Call, NEW q \in held'[d], NEW r \in needed'[d] \ held'[d]
               PROVE  Rank[q] < Rank[r]
    BY DEF LocksInOrder
  <2>1. r \in needed[d] \ held[d]
    BY <1>1, <1>2
  <2>2. CASE q \in held[d]
    BY <2>1, <2>2 DEF LocksInOrder
  <2>3. CASE q \notin held[d]
    <3>1. d = c /\ q = p /\ r # p
      BY <1>1, <2>3
    <3>2. p \in Product /\ r \in Product
      BY <2>1, StockAssumption
    <3> QED
      BY <1>1, <2>1, <3>1, <3>2, RanksDiffer
  <2> QED
    BY <2>2, <2>3
<1>5. SnapshotIsFresh' /\ NeedsWholeOrder' /\ AllOrNothing' /\ NeverOversold'
  BY <1>2 DEF SnapshotIsFresh, NeedsWholeOrder, AllOrNothing, NeverOversold, stockIdsOfOrder
<1> QED
  BY <1>2, <1>3, <1>4, <1>5, <1>6 DEF stockIdsOfOrder

LEMMA LoadKeeps ==
  ASSUME LockingInv, NEW c \in Call, Load(c)
  PROVE  LockingInv'
<1> USE DEF LockingInv
<1>1. /\ held[c] = needed[c] /\ stage[c] = "locking"
      /\ stage' = [stage EXCEPT ![c] = "loaded"]
      /\ UNCHANGED <<units, reservedUnits, status, needed, held>>
  BY DEF Load, go, stockVars
<1>2. stage' \in [Call -> Stage] /\ DOMAIN snapshot' = Call
  BY <1>1 DEF Stage, Load
<1>3. LocksExclude' /\ LocksInOrder' /\ NeedsWholeOrder' /\ AllOrNothing' /\ NeverOversold'
  BY <1>1 DEF LocksExclude, LocksInOrder, NeedsWholeOrder, AllOrNothing, NeverOversold, stockIdsOfOrder
<1>4. SnapshotIsFresh'
  <2> SUFFICES ASSUME NEW d \in Call, stage'[d] = "loaded"
               PROVE  /\ \A p \in needed[d] : /\ snapshot'[d].units[p] = units[p]
                                              /\ snapshot'[d].reservedUnits[p] = reservedUnits[p]
                      /\ Target[d] \in Order =>
                           \A p \in needed[d] : snapshot'[d].status[p] = status[Target[d]][p]
    BY <1>1 DEF SnapshotIsFresh
  <2>1. CASE d # c
    <3>1. snapshot'[d] = snapshot[d] /\ stage[d] = "loaded"
      BY <1>1, <2>1 DEF Load
    <3> QED
      BY <3>1 DEF SnapshotIsFresh
  <2>2. CASE d = c
    <3>1. snapshot'[c] = [units |-> units, reservedUnits |-> reservedUnits,
                          status |-> IF Target[c] \in Order THEN status[Target[c]] ELSE <<>>]
      BY DEF Load
    <3> QED
      BY <3>1, <2>2
  <2> QED
    BY <2>1, <2>2
<1> QED
  BY <1>1, <1>2, <1>3, <1>4 DEF stockIdsOfOrder

-----------------------------------------------------------------------------
(* The end of a handler.                                                   *)

(* No other handler that has loaded can disagree with one that commits:    *)
(* its rows are different ones, and so is its order.                       *)
LEMMA LoadedAlone ==
  ASSUME LockingInv, NEW c \in Call, NEW d \in Call, c # d,
         stage[c] = "loaded", stage[d] = "loaded"
  PROVE  /\ needed[c] \intersect needed[d] = {}
         /\ Target[c] \in Order => Target[c] # Target[d]
<1>1. needed[c] \intersect needed[d] = {}
  BY DEF LockingInv, LocksExclude
<1>2. ASSUME Target[c] \in Order, Target[c] = Target[d] PROVE FALSE
  <2>1. Operation[c] # "replenish"
    BY <1>2, TargetIsOrder
  <2>2. needed[c] # {} /\ needed[c] = needed[d]
    BY <1>2, <2>1 DEF LockingInv, NeedsWholeOrder
  <2> QED
    BY <1>1, <2>2
<1> QED
  BY <1>1, <1>2

(* A handler that ends leaves the rest of the invariant to what it wrote:  *)
(* only its own stock rows, and its own order as a whole.                  *)
LEMMA FinishKeeps ==
  ASSUME LockingInv, NEW c \in Call, NEW r, finish(c, r),
         units' \in [Known -> Int], reservedUnits' \in [Known -> Int],
         status' \in [Order -> [Product -> RowStatus]],
         \A p \in Known \ needed[c] : units'[p] = units[p] /\ reservedUnits'[p] = reservedUnits[p],
         UNCHANGED <<units, reservedUnits, status>> \/ stage[c] = "loaded",
         \A o \in Order : o # Target[c] => status'[o] = status[o],
         \A o \in Order : \A p \in Product : status[o][p] # "none" => status'[o][p] # "none",
         (\A o \in Order : stockIdsOfOrder(o) \subseteq Known)',
         AllOrNothing', NeverOversold'
  PROVE  LockingInv'
<1> USE DEF LockingInv
<1>1. /\ stage' = [stage EXCEPT ![c] = "done"]
      /\ held' = [held EXCEPT ![c] = {}]
      /\ needed' = [needed EXCEPT ![c] = {}]
      /\ snapshot' = [snapshot EXCEPT ![c] = NoSnapshot]
  BY DEF finish
<1>2. /\ stage' \in [Call -> Stage] /\ needed' \in [Call -> SUBSET Known]
      /\ held' \in [Call -> SUBSET Known] /\ DOMAIN snapshot' = Call
  BY <1>1 DEF Stage
<1>3. LocksExclude' /\ LocksInOrder'
  BY <1>1 DEF LocksExclude, LocksInOrder
<1>4. NeedsWholeOrder'
  <2> SUFFICES ASSUME NEW d \in Call, d # c
               PROVE /\ stage[d] = "prereading" => Operation[d] \in {"release", "despatch"}
                     /\ stage[d] \in {"locking", "loaded"} =>
                          /\ needed[d] = Lines(Target[d]) \intersect Known
                          /\ Operation[d] # "replenish" => needed[d] # {}
                          /\ Operation[d] \in {"release", "despatch"} =>
                               (stockIdsOfOrder(Target[d]) # {})'
    BY <1>1 DEF NeedsWholeOrder, Stage
  <2> QED
    BY TargetIsOrder DEF NeedsWholeOrder, stockIdsOfOrder
<1>5. SnapshotIsFresh'
  <2> SUFFICES ASSUME NEW d \in Call, d # c, stage[d] = "loaded"
               PROVE  /\ \A p \in needed[d] : /\ snapshot[d].units[p] = units'[p]
                                              /\ snapshot[d].reservedUnits[p] = reservedUnits'[p]
                      /\ Target[d] \in Order =>
                           \A p \in needed[d] : snapshot[d].status[p] = status'[Target[d]][p]
    BY <1>1 DEF SnapshotIsFresh, Stage
  <2>1. CASE UNCHANGED <<units, reservedUnits, status>>
    BY <2>1 DEF SnapshotIsFresh
  <2>2. CASE stage[c] = "loaded"
    <3>1. needed[c] \intersect needed[d] = {} /\ (Target[d] \in Order => Target[d] # Target[c])
      BY <2>2, LoadedAlone
    <3> QED
      BY <3>1 DEF SnapshotIsFresh
  <2> QED
    BY <2>1, <2>2
<1> QED
  BY <1>2, <1>3, <1>4, <1>5

(* ... in particular when it wrote nothing.                                *)
LEMMA EndKeeps ==
  ASSUME LockingInv, NEW c \in Call, NEW r, finish(c, r),
         UNCHANGED <<units, reservedUnits, status>>
  PROVE  LockingInv'
<1>1. /\ AllOrNothing' /\ NeverOversold'
      /\ (\A o \in Order : stockIdsOfOrder(o) \subseteq Known)'
  BY DEF LockingInv, AllOrNothing, NeverOversold, stockIdsOfOrder
<1> QED
  BY <1>1, FinishKeeps DEF LockingInv

-----------------------------------------------------------------------------
(* The commits.                                                            *)

(* Writing one status to all of the order's lines keeps them together.     *)
LEMMA WholeOrderWritten ==
  ASSUME LockingInv, NEW c \in Call, NEW to \in RowStatus \ {"none"},
         Target[c] \in Order, needed[c] = Lines(Target[c]),
         setStatus(c, needed[c], to)
  PROVE  /\ status' \in [Order -> [Product -> RowStatus]]
         /\ \A o \in Order : o # Target[c] => status'[o] = status[o]
         /\ \A o \in Order : \A p \in Product : status[o][p] # "none" => status'[o][p] # "none"
         /\ (\A o \in Order : stockIdsOfOrder(o) \subseteq Known)'
         /\ AllOrNothing'
         /\ \A p \in needed[c] : status'[Target[c]][p] = to
<1> DEFINE t == Target[c]
<1> USE DEF LockingInv
<1>1. /\ status' = [status EXCEPT ![t] = [p \in Product |-> IF p \in needed[c] THEN to
                                                            ELSE status[t][p]]]
      /\ needed[c] \subseteq Known /\ Known \subseteq Product
  BY StockAssumption DEF setStatus
<1>2. /\ status' \in [Order -> [Product -> RowStatus]]
      /\ \A o \in Order : o # t => status'[o] = status[o]
      /\ \A p \in needed[c] : status'[t][p] = to
      /\ \A p \in Product \ needed[c] : status'[t][p] = status[t][p]
  BY <1>1
<1>3. \A p \in Product \ needed[c] : status[t][p] = "none"
  BY DEF AllOrNothing, stockIdsOfOrder
<1>4. stockIdsOfOrder(t)' = Lines(t)
  BY <1>1, <1>2, <1>3 DEF stockIdsOfOrder
<1>5. \A o \in Order : o # t => stockIdsOfOrder(o)' = stockIdsOfOrder(o)
  BY <1>2 DEF stockIdsOfOrder
<1>6. AllOrNothing'
  <2> SUFFICES ASSUME NEW o \in Order
               PROVE  /\ stockIdsOfOrder(o)' \in {{}, Lines(o)}
                      /\ \A p, q \in Lines(o) : status'[o][p] = status'[o][q]
    BY DEF AllOrNothing
  <2>1. CASE o = t
    BY <2>1, <1>2, <1>4
  <2>2. CASE o # t
    BY <2>2, <1>2, <1>5 DEF AllOrNothing
  <2> QED
    BY <2>1, <2>2
<1>7. (\A o \in Order : stockIdsOfOrder(o) \subseteq Known)'
  BY <1>1, <1>4, <1>5
<1> HIDE DEF LockingInv
<1> QED
  BY <1>2, <1>3, <1>6, <1>7

(* A loaded handler that finds one line in some state has found them all.  *)
LEMMA FoundInOneFoundInAll ==
  ASSUME LockingInv, NEW c \in Call, stage[c] = "loaded", Target[c] \in Order,
         NEW from \in RowStatus \ {"none"}, rowsIn(c, from) # {}
  PROVE  /\ needed[c] = Lines(Target[c])
         /\ rowsIn(c, from) = needed[c]
         /\ \A p \in needed[c] : status[Target[c]][p] = from
<1>1. PICK p \in needed[c] : snapshot[c].status[p] = from
  BY DEF rowsIn
<1>2. /\ needed[c] = Lines(Target[c]) \intersect Known
      /\ \A q \in needed[c] : snapshot[c].status[q] = status[Target[c]][q]
  BY DEF LockingInv, NeedsWholeOrder, SnapshotIsFresh
<1>3. stockIdsOfOrder(Target[c]) = Lines(Target[c]) /\ Lines(Target[c]) \subseteq Known
  BY <1>1, <1>2, LineSpeaksForOrder DEF LockingInv
<1>4. \A q \in Lines(Target[c]) : status[Target[c]][q] = status[Target[c]][p]
  BY <1>1, <1>2 DEF LockingInv, AllOrNothing
<1> QED
  BY <1>1, <1>2, <1>3, <1>4 DEF rowsIn

-----------------------------------------------------------------------------
(* What a step means for ReservationContract.                              *)

ContractStep == [Contract!ContractNext]_(Contract!contractVars)

LEMMA UnseenByContract ==
  ASSUME UNCHANGED <<status, facts>>
  PROVE  ContractStep
BY DEF ContractStep, Contract!contractVars, reservationOf, stockIdsOfOrder

LEMMA WholeOrderMoves ==
  ASSUME AllOrNothing, AllOrNothing', NEW o \in Order, Lines(o) # {},
         NEW from, NEW to, NEW type,
         \A p \in Lines(o) : status[o][p] = from /\ status'[o][p] = to,
         \A q \in Order : q # o => status'[q] = status[q],
         publish(o, type)
  PROVE  Contract!move(o, from, to, type)
<1>1. PICK p : p \in Lines(o)
  OBVIOUS
<1>2. reservationOf(o) = from
  BY <1>1, LineSpeaksForOrder
<1>3. reservationOf(o)' = to
  BY <1>1, LineSpeaksForOrderNext
<1>4. ASSUME NEW q \in Order, q # o PROVE reservationOf(q)' = reservationOf(q)
  <2>1. stockIdsOfOrder(q)' = stockIdsOfOrder(q) /\ status'[q] = status[q]
    BY <1>4 DEF stockIdsOfOrder
  <2> QED
    BY <2>1 DEF reservationOf
<1>5. [q \in Order |-> reservationOf(q)]' = [[q \in Order |-> reservationOf(q)] EXCEPT ![o] = to]
  BY <1>3, <1>4
<1>6. Contract!publish(o, type)
  BY DEF publish, Contract!publish
<1> QED
  BY <1>2, <1>5, <1>6 DEF Contract!move

LEMMA Refused ==
  ASSUME NEW o \in Order, stockIdsOfOrder(o) = {}, UNCHANGED status, publish(o, "stock.rejected")
  PROVE  ContractStep
<1>1. reservationOf(o) = "none"
  BY DEF reservationOf
<1>2. UNCHANGED [q \in Order |-> reservationOf(q)]
  BY DEF reservationOf, stockIdsOfOrder
<1>3. Contract!publish(o, "stock.rejected")
  BY DEF publish, Contract!publish
<1>4. Contract!Refuse(o)
  BY <1>1, <1>2, <1>3 DEF Contract!Refuse
<1> QED
  BY <1>4 DEF ContractStep, Contract!ContractNext

-----------------------------------------------------------------------------
(* The handlers.                                                           *)

LEMMA RollBackKeeps ==
  ASSUME LockingInv, NEW c \in Call, NEW r, rollBack(c, r)
  PROVE  LockingInv' /\ ContractStep
BY EndKeeps, UnseenByContract DEF rollBack, stockVars

LEMMA ReserveKeeps ==
  ASSUME LockingInv, NEW c \in Call, Reserve(c)
  PROVE  LockingInv' /\ ContractStep
<1> DEFINE s == snapshot[c]
           short == (Lines(Target[c]) \ Known)
                      \union {p \in needed[c] : s.reservedUnits[p] + demand(c, p) > s.units[p]}
           noRow == \A p \in needed[c] : s.status[p] = "none"
<1>1. /\ stage[c] = "loaded" /\ Target[c] \in Order
      /\ needed[c] # {} /\ needed[c] = Lines(Target[c]) \intersect Known
      /\ \A p \in needed[c] : /\ s.units[p] = units[p] /\ s.reservedUnits[p] = reservedUnits[p]
                              /\ s.status[p] = status[Target[c]][p]
  BY TargetIsOrder DEF Reserve, LockingInv, NeedsWholeOrder, SnapshotIsFresh
<1>2. CASE rollBack(c, "already")
  BY <1>2, RollBackKeeps
<1>3. CASE noRow /\ finish(c, "rejected") /\ publish(Target[c], "stock.rejected")
           /\ UNCHANGED <<units, reservedUnits, status, despatches>>
  <2>1. stockIdsOfOrder(Target[c]) = {}
    BY <1>1, <1>3 DEF LockingInv, AllOrNothing, stockIdsOfOrder
  <2> QED
    BY <1>1, <1>3, <2>1, EndKeeps, Refused
<1>4. CASE noRow /\ short = {} /\ finish(c, "accepted")
           /\ setStatus(c, needed[c], "reserved")
           /\ saveReserved(c, [p \in needed[c] |-> s.reservedUnits[p] + demand(c, p)])
           /\ publish(Target[c], "stock.reserved")
           /\ UNCHANGED <<units, despatches>>
  <2>1. needed[c] = Lines(Target[c])
    BY <1>1, <1>4
  <2>2. \A p \in Known : reservedUnits'[p] = IF p \in needed[c] THEN reservedUnits[p] + demand(c, p)
                                             ELSE reservedUnits[p]
    BY <1>1, <1>4 DEF saveReserved
  <2>3. \A p \in Known : demand(c, p) \in Nat
    BY TargetIsOrder, StockAssumption DEF demand
  <2>4. reservedUnits' \in [Known -> Int]
    BY <1>1, <1>4, <2>3 DEF saveReserved, LockingInv
  <2>5. ASSUME NEW p \in needed[c] PROVE reservedUnits[p] + demand(c, p) <= units[p]
    <3>1. ~(reservedUnits[p] + demand(c, p) > units[p])
      BY <1>1, <1>4
    <3>2. units[p] \in Int /\ reservedUnits[p] \in Int /\ demand(c, p) \in Nat
      BY <2>3 DEF LockingInv
    <3> QED
      BY <3>1, <3>2
  <2>6. ASSUME NEW p \in Known PROVE reservedUnits'[p] <= units'[p]
    BY <1>4, <2>2, <2>5 DEF NeverOversold, LockingInv
  <2>7. /\ status' \in [Order -> [Product -> RowStatus]]
        /\ \A o \in Order : o # Target[c] => status'[o] = status[o]
        /\ \A o \in Order : \A p \in Product : status[o][p] # "none" => status'[o][p] # "none"
        /\ (\A o \in Order : stockIdsOfOrder(o) \subseteq Known)'
        /\ AllOrNothing'
        /\ \A p \in needed[c] : status'[Target[c]][p] = "reserved"
    BY <1>1, <1>4, <2>1, WholeOrderWritten DEF RowStatus
  <2>8. LockingInv'
    <3>1. NeverOversold'
      BY <2>6 DEF NeverOversold
    <3>2. \A p \in Known \ needed[c] : units'[p] = units[p] /\ reservedUnits'[p] = reservedUnits[p]
      BY <1>4, <2>2
    <3>3. units' \in [Known -> Int] /\ finish(c, "accepted") /\ stage[c] = "loaded"
      BY <1>1, <1>4 DEF LockingInv
    <3> QED
      BY <2>4, <2>7, <3>1, <3>2, <3>3, FinishKeeps
  <2>9. Contract!move(Target[c], "none", "reserved", "stock.reserved")
    <3>1. \A p \in Lines(Target[c]) : status[Target[c]][p] = "none"
      BY <1>1, <1>4, <2>1
    <3> QED
      BY <1>1, <1>4, <2>1, <2>7, <3>1, WholeOrderMoves DEF LockingInv
  <2> QED
    BY <1>1, <2>8, <2>9 DEF ContractStep, Contract!ContractNext
<1> QED
  BY <1>2, <1>3, <1>4 DEF Reserve

LEMMA ReleaseKeeps ==
  ASSUME LockingInv, NEW c \in Call, Release(c)
  PROVE  LockingInv' /\ ContractStep
<1> DEFINE s == snapshot[c]
           rows == rowsIn(c, "reserved")
<1>1. /\ stage[c] = "loaded" /\ Target[c] \in Order
      /\ \A p \in needed[c] : s.reservedUnits[p] = reservedUnits[p]
  BY TargetIsOrder DEF Release, LockingInv, SnapshotIsFresh
<1>2. CASE \E r : rollBack(c, r)
  BY <1>2, RollBackKeeps
<1>3. CASE rows # {} /\ finish(c, "accepted")
           /\ setStatus(c, rows, "released")
           /\ saveReserved(c, [p \in needed[c] |->
                s.reservedUnits[p] - (IF p \in rows THEN demand(c, p) ELSE 0)])
           /\ publish(Target[c], "stock.released")
           /\ UNCHANGED <<units, despatches>>
  <2>1. /\ needed[c] = Lines(Target[c]) /\ rows = needed[c]
        /\ \A p \in needed[c] : status[Target[c]][p] = "reserved"
    BY <1>1, <1>3, FoundInOneFoundInAll DEF RowStatus
  <2>2. \A p \in Known : reservedUnits'[p] = IF p \in needed[c] THEN reservedUnits[p] - demand(c, p)
                                             ELSE reservedUnits[p]
    BY <1>1, <1>3, <2>1 DEF saveReserved
  <2>3. \A p \in Known : demand(c, p) \in Nat
    BY TargetIsOrder, StockAssumption DEF demand
  <2>4. reservedUnits' \in [Known -> Int]
    BY <1>1, <1>3, <2>1, <2>3 DEF saveReserved, LockingInv
  <2>5. ASSUME NEW p \in Known PROVE reservedUnits'[p] <= units'[p]
    <3>1. units[p] \in Int /\ reservedUnits[p] \in Int /\ demand(c, p) \in Nat
          /\ reservedUnits[p] <= units[p] /\ units'[p] = units[p]
      BY <1>3, <2>3 DEF LockingInv, NeverOversold
    <3> QED
      BY <2>2, <3>1
  <2>6. setStatus(c, needed[c], "released")
    BY <1>3, <2>1
  <2>7. /\ status' \in [Order -> [Product -> RowStatus]]
        /\ \A o \in Order : o # Target[c] => status'[o] = status[o]
        /\ \A o \in Order : \A p \in Product : status[o][p] # "none" => status'[o][p] # "none"
        /\ (\A o \in Order : stockIdsOfOrder(o) \subseteq Known)'
        /\ AllOrNothing'
        /\ \A p \in needed[c] : status'[Target[c]][p] = "released"
    BY <1>1, <2>1, <2>6, WholeOrderWritten DEF RowStatus
  <2>8. LockingInv'
    <3>1. NeverOversold'
      BY <2>5 DEF NeverOversold
    <3> QED
      BY <1>1, <1>3, <2>2, <2>4, <2>7, <3>1, FinishKeeps DEF LockingInv
  <2>9. Contract!move(Target[c], "reserved", "released", "stock.released")
    BY <1>1, <1>3, <2>1, <2>7, WholeOrderMoves DEF LockingInv
  <2> QED
    BY <1>1, <2>8, <2>9 DEF ContractStep, Contract!ContractNext
<1> QED
  BY <1>2, <1>3 DEF Release

LEMMA DespatchKeeps ==
  ASSUME LockingInv, NEW c \in Call, Despatch(c)
  PROVE  LockingInv' /\ ContractStep
<1> DEFINE s == snapshot[c]
           rows == rowsIn(c, "reserved")
<1>1. /\ stage[c] = "loaded" /\ Target[c] \in Order
      /\ \A p \in needed[c] : s.units[p] = units[p] /\ s.reservedUnits[p] = reservedUnits[p]
  BY TargetIsOrder DEF Despatch, LockingInv, SnapshotIsFresh
<1>2. CASE \E r : rollBack(c, r)
  BY <1>2, RollBackKeeps
<1>3. CASE rows # {} /\ finish(c, "accepted")
           /\ setStatus(c, rows, "consumed")
           /\ saveUnits(c, [p \in needed[c] |->
                s.units[p] - (IF p \in rows THEN demand(c, p) ELSE 0)])
           /\ saveReserved(c, [p \in needed[c] |->
                s.reservedUnits[p] - (IF p \in rows THEN demand(c, p) ELSE 0)])
           /\ publish(Target[c], "order.despatched")
  <2>1. /\ needed[c] = Lines(Target[c]) /\ rows = needed[c]
        /\ \A p \in needed[c] : status[Target[c]][p] = "reserved"
    BY <1>1, <1>3, FoundInOneFoundInAll DEF RowStatus
  <2>2. \A p \in Known :
          /\ reservedUnits'[p] = IF p \in needed[c] THEN reservedUnits[p] - demand(c, p)
                                 ELSE reservedUnits[p]
          /\ units'[p] = IF p \in needed[c] THEN units[p] - demand(c, p) ELSE units[p]
    BY <1>1, <1>3, <2>1 DEF saveReserved, saveUnits
  <2>3. \A p \in Known : demand(c, p) \in Nat
    BY TargetIsOrder, StockAssumption DEF demand
  <2>4. reservedUnits' \in [Known -> Int] /\ units' \in [Known -> Int]
    BY <1>1, <1>3, <2>1, <2>3 DEF saveReserved, saveUnits, LockingInv
  <2>5. ASSUME NEW p \in Known PROVE reservedUnits'[p] <= units'[p]
    <3>1. units[p] \in Int /\ reservedUnits[p] \in Int /\ demand(c, p) \in Nat
          /\ reservedUnits[p] <= units[p]
      BY <2>3 DEF LockingInv, NeverOversold
    <3> QED
      BY <2>2, <3>1
  <2>6. setStatus(c, needed[c], "consumed")
    BY <1>3, <2>1
  <2>7. /\ status' \in [Order -> [Product -> RowStatus]]
        /\ \A o \in Order : o # Target[c] => status'[o] = status[o]
        /\ \A o \in Order : \A p \in Product : status[o][p] # "none" => status'[o][p] # "none"
        /\ (\A o \in Order : stockIdsOfOrder(o) \subseteq Known)'
        /\ AllOrNothing'
        /\ \A p \in needed[c] : status'[Target[c]][p] = "consumed"
    BY <1>1, <2>1, <2>6, WholeOrderWritten DEF RowStatus
  <2>8. LockingInv'
    <3>1. NeverOversold'
      BY <2>5 DEF NeverOversold
    <3> QED
      BY <1>1, <1>3, <2>2, <2>4, <2>7, <3>1, FinishKeeps, SMTT(30) DEF LockingInv
  <2>9. Contract!move(Target[c], "reserved", "consumed", "order.despatched")
    BY <1>1, <1>3, <2>1, <2>7, WholeOrderMoves DEF LockingInv
  <2> QED
    BY <1>1, <2>8, <2>9 DEF ContractStep, Contract!ContractNext
<1> QED
  BY <1>2, <1>3 DEF Despatch

LEMMA ReplenishKeeps ==
  ASSUME LockingInv, NEW c \in Call, Replenish(c)
  PROVE  LockingInv' /\ ContractStep
<1>1. /\ stage[c] = "loaded" /\ \A p \in needed[c] : snapshot[c].units[p] = units[p]
      /\ finish(c, "accepted") /\ UNCHANGED <<reservedUnits, status, facts>>
  BY DEF Replenish, LockingInv, SnapshotIsFresh
<1>2. \A p \in Known : units'[p] = IF p \in needed[c] THEN units[p] + demand(c, p) ELSE units[p]
  BY <1>1 DEF Replenish, saveUnits
<1>3. \A p \in Known : demand(c, p) \in Nat
  BY TargetIsOrder, StockAssumption DEF demand
<1>4. units' \in [Known -> Int]
  BY <1>1, <1>3 DEF Replenish, saveUnits, LockingInv
<1>5. ASSUME NEW p \in Known PROVE reservedUnits'[p] <= units'[p]
  <2>1. units[p] \in Int /\ reservedUnits[p] \in Int /\ demand(c, p) \in Nat
        /\ reservedUnits[p] <= units[p] /\ reservedUnits'[p] = reservedUnits[p]
    BY <1>1, <1>3 DEF LockingInv, NeverOversold
  <2> QED
    BY <1>2, <2>1
<1>6. AllOrNothing' /\ (\A o \in Order : stockIdsOfOrder(o) \subseteq Known)'
  BY <1>1 DEF LockingInv, AllOrNothing, stockIdsOfOrder
<1>7. LockingInv'
  <2>1. NeverOversold'
    BY <1>5 DEF NeverOversold
  <2> QED
    BY <1>1, <1>2, <1>4, <1>6, <2>1, FinishKeeps DEF LockingInv
<1> QED
  BY <1>1, <1>7, UnseenByContract

LEMMA CrashKeeps ==
  ASSUME LockingInv, NEW c \in Call, Crash(c)
  PROVE  LockingInv' /\ ContractStep
<1>1. rollBack(c, "crashed")
  BY DEF Crash, rollBack, finish
<1> QED
  BY <1>1, RollBackKeeps

-----------------------------------------------------------------------------
(* The books.                                                              *)

(* What may not be in the sums: units of nothing and unknown amounts.      *)
LEMMA SharesAreNat ==
  ASSUME NEW p \in Known
  PROVE  /\ p \in Product
         /\ \A x \in Order \union Delivery : demandFor(p)[x] = Demand[x][p] /\ Demand[x][p] \in Nat
         /\ \A c \in Call : delivered(p)[c] = Demand[Target[c]][p] /\ Demand[Target[c]][p] \in Nat
         /\ InitialUnits[p] \in Nat
BY StockAssumption DEF demandFor, delivered

LEMMA InitBooks == Init => BooksInv
<1> SUFFICES ASSUME Init PROVE BooksInv
  OBVIOUS
<1>1. /\ facts \in [Order -> Seq(FactType)] /\ reply \in [Call -> Reply]
      /\ \A c \in Call : stage[c] # "done" => reply[c] = "none"
      /\ despatches \subseteq Order
  BY DEF Init, Reply
<1>2. despatches = {} /\ carriedOut = {} /\ \A p \in Known : holding(p) = {}
  BY StockAssumption DEF Init, carriedOut, holding
<1>3. DespatchedIsConsumed
  BY DEF Init, DespatchedIsConsumed
<1>4. CountersMatch
  BY <1>2, SumOfNone DEF Init, CountersMatch
<1>5. UnitsConserved
  BY <1>2, SumOfNone DEF Init, UnitsConserved
<1>6. IsFiniteSet({})
  BY FS_EmptySet
<1> QED
  BY <1>1, <1>2, <1>3, <1>4, <1>5, <1>6 DEF BooksInv

(* A step that moves no stock and carries out no delivery.                 *)
LEMMA BooksUntouched ==
  ASSUME BooksInv, UNCHANGED <<units, reservedUnits, status, despatches>>,
         facts' \in [Order -> Seq(FactType)], reply' \in [Call -> Reply],
         \A c \in Call : stage'[c] # "done" => reply'[c] = "none",
         \A c \in Call : Operation[c] = "replenish" =>
           (reply'[c] = "accepted" <=> reply[c] = "accepted")
  PROVE  BooksInv'
<1>1. carriedOut' = carriedOut /\ \A p \in Known : holding(p)' = holding(p)
  BY DEF carriedOut, holding
<1>2. CountersMatch' /\ UnitsConserved' /\ DespatchedIsConsumed'
  BY <1>1 DEF BooksInv, CountersMatch, UnitsConserved, DespatchedIsConsumed, demandFor, delivered
<1> QED
  BY <1>1, <1>2 DEF BooksInv

(* The end of a handler, for the request itself.                           *)
LEMMA AnsweredOnce ==
  ASSUME BooksInv, LockingInv, NEW c \in Call, NEW r \in Reply \ {"none"}, finish(c, r),
         stage[c] # "done"
  PROVE  /\ reply' \in [Call -> Reply] /\ reply[c] = "none"
         /\ \A d \in Call : stage'[d] # "done" => reply'[d] = "none"
         /\ Operation[c] = "replenish" /\ r = "accepted" => carriedOut' = carriedOut \union {c}
         /\ c \notin carriedOut
         /\ Operation[c] # "replenish" \/ r # "accepted" => carriedOut' = carriedOut
BY DEF BooksInv, LockingInv, finish, answer, carriedOut

LEMMA PublishedTyped ==
  ASSUME facts \in [Order -> Seq(FactType)], NEW o \in Order, NEW type \in FactType,
         publish(o, type)
  PROVE  facts' \in [Order -> Seq(FactType)]
BY DEF publish

(* An order's lines move together: it enters or leaves every sum it has a  *)
(* share in.                                                               *)
LEMMA HoldingMoves ==
  ASSUME LockingInv, NEW t \in Order, NEW to \in RowStatus,
         \A q \in Lines(t) : status'[t][q] = to,
         \A q \in Product \ Lines(t) : status'[t][q] = status[t][q],
         \A o \in Order : o # t => status'[o] = status[o],
         NEW p \in Known
  PROVE  /\ p \notin Lines(t) => holding(p)' = holding(p)
         /\ p \in Lines(t) /\ to = "reserved" => holding(p)' = holding(p) \union {t}
         /\ p \in Lines(t) /\ to # "reserved" => holding(p)' = holding(p) \ {t}
<1>1. p \in Product
  BY StockAssumption
<1>2. \A o \in Order : o # t => status'[o][p] = status[o][p]
  OBVIOUS
<1>3. status'[t][p] = IF p \in Lines(t) THEN to ELSE status[t][p]
  BY <1>1
<1> QED
  BY <1>2, <1>3 DEF holding

LEMMA NoShareNoUnits ==
  ASSUME NEW t \in Order \union Delivery, NEW p \in Known \ Lines(t)
  PROVE  Demand[t][p] = 0
BY StockAssumption DEF Lines

(* ... and the sum of what is held moves by that share.                    *)
LEMMA HeldSumMoves ==
  ASSUME BooksInv, LockingInv, NEW t \in Order, NEW from \in RowStatus, NEW to \in RowStatus,
         \A q \in Lines(t) : status[t][q] = from /\ status'[t][q] = to,
         \A q \in Product \ Lines(t) : status'[t][q] = status[t][q],
         \A o \in Order : o # t => status'[o] = status[o],
         (from = "reserved") # (to = "reserved"),
         NEW p \in Known,
         reservedUnits'[p] = IF p \notin Lines(t) THEN reservedUnits[p]
                             ELSE IF to = "reserved" THEN reservedUnits[p] + Demand[t][p]
                             ELSE reservedUnits[p] - Demand[t][p]
  PROVE  /\ IsFiniteSet(holding(p)')
         /\ reservedUnits'[p] = SumFunctionOnSet(demandFor(p), holding(p)')
<1>1. IsFiniteSet(holding(p)) /\ reservedUnits[p] = SumFunctionOnSet(demandFor(p), holding(p))
  BY DEF BooksInv, CountersMatch
<1>2. \A o \in holding(p) \union {t} : demandFor(p)[o] \in Nat /\ demandFor(p)[t] = Demand[t][p]
  BY SharesAreNat DEF holding
<1>3. CASE p \notin Lines(t)
  BY <1>1, <1>3, HoldingMoves
<1>4. CASE p \in Lines(t) /\ to = "reserved"
  <2>1. t \notin holding(p) /\ holding(p)' = holding(p) \union {t}
    BY <1>4, HoldingMoves DEF holding
  <2>2. /\ IsFiniteSet(holding(p) \union {t})
        /\ SumFunctionOnSet(demandFor(p), holding(p) \union {t})
             = SumFunctionOnSet(demandFor(p), holding(p)) + demandFor(p)[t]
    <3>1. \A o \in holding(p) \union {t} : demandFor(p)[o] \in Nat
      BY <1>2
    <3> QED
      BY ONLY <1>1, <2>1, <3>1, SumWith
  <2> QED
    BY <1>1, <1>2, <1>4, <2>1, <2>2
<1>5. CASE p \in Lines(t) /\ to # "reserved"
  <2>1. t \in holding(p) /\ holding(p)' = holding(p) \ {t}
    BY <1>5, HoldingMoves DEF holding
  <2> QED
    BY <1>1, <1>2, <1>5, <2>1, SumWithout
<1> QED
  BY <1>3, <1>4, <1>5

(* A handler rolls back, or refuses the order.                             *)
LEMMA EndBooks ==
  ASSUME BooksInv, LockingInv, NEW c \in Call, NEW r \in Reply \ {"none", "accepted"},
         finish(c, r), stage[c] # "done",
         UNCHANGED <<units, reservedUnits, status, despatches>>,
         facts' \in [Order -> Seq(FactType)]
  PROVE  BooksInv'
<1>1. /\ reply' \in [Call -> Reply]
      /\ \A d \in Call : stage'[d] # "done" => reply'[d] = "none"
      /\ \A d \in Call : reply'[d] = "accepted" <=> reply[d] = "accepted"
  BY AnsweredOnce DEF finish, answer, BooksInv
<1> QED
  BY <1>1, BooksUntouched

LEMMA RollBackBooks ==
  ASSUME BooksInv, LockingInv, NEW c \in Call, NEW r \in Reply \ {"none", "accepted"},
         rollBack(c, r), stage[c] # "done"
  PROVE  BooksInv'
<1>1. /\ finish(c, r) /\ UNCHANGED <<units, reservedUnits, status, despatches>>
      /\ facts' \in [Order -> Seq(FactType)]
  BY DEF rollBack, stockVars, BooksInv
<1> QED
  BY <1>1, EndBooks

(* What the three commits about an order have in common.                   *)
LEMMA OrderMovesBooks ==
  ASSUME BooksInv, LockingInv, LockingInv', NEW c \in Call, NEW type \in FactType,
         stage[c] = "loaded", Target[c] \in Order,
         needed[c] = Lines(Target[c]), needed[c] # {},
         NEW from \in RowStatus, NEW to \in RowStatus,
         (from = "reserved") # (to = "reserved"),
         to = "reserved" => from # "consumed",
         finish(c, "accepted"), publish(Target[c], type), setStatus(c, needed[c], to),
         \A p \in needed[c] : status[Target[c]][p] = from,
         \A p \in Known : reservedUnits'[p] =
           IF p \notin needed[c] THEN reservedUnits[p]
           ELSE IF to = "reserved" THEN reservedUnits[p] + Demand[Target[c]][p]
           ELSE reservedUnits[p] - Demand[Target[c]][p],
         IF to # "consumed" THEN UNCHANGED <<units, despatches>>
         ELSE /\ \A p \in Known : units'[p] = IF p \notin needed[c] THEN units[p]
                                              ELSE units[p] - Demand[Target[c]][p]
              /\ despatches' = despatches \union {Target[c]}
  PROVE  BooksInv'
<1> DEFINE t == Target[c]
<1>1. /\ Operation[c] # "replenish" /\ Lines(t) \subseteq Known
      /\ status \in [Order -> [Product -> RowStatus]]
      /\ Lines(t) \subseteq Product /\ Lines(t) # {}
  BY TargetIsOrder DEF LockingInv, Lines
<1>2. /\ \A q \in Lines(t) : status[t][q] = from /\ status'[t][q] = to
      /\ \A q \in Product \ Lines(t) : status'[t][q] = status[t][q] /\ status[t][q] # "consumed"
      /\ \A o \in Order : o # t => status'[o] = status[o]
  <2>1. \A q \in Product \ Lines(t) : status[t][q] = "none"
    BY DEF LockingInv, AllOrNothing, stockIdsOfOrder
  <2> QED
    BY <1>1, <2>1 DEF setStatus
<1>3. /\ facts' \in [Order -> Seq(FactType)] /\ reply' \in [Call -> Reply]
      /\ \A d \in Call : stage'[d] # "done" => reply'[d] = "none"
      /\ carriedOut' = carriedOut
  BY <1>1, AnsweredOnce, PublishedTyped DEF BooksInv, Reply
<1>4. /\ \A p \in Known : IsFiniteSet(holding(p))'
      /\ CountersMatch'
  <2> SUFFICES ASSUME NEW p \in Known
               PROVE  /\ IsFiniteSet(holding(p)')
                      /\ reservedUnits'[p] = SumFunctionOnSet(demandFor(p), holding(p)')
    BY DEF CountersMatch, demandFor
  <2> HIDE DEF t
  <2>1. t \in Order /\ needed[c] = Lines(t) /\ Demand[Target[c]][p] = Demand[t][p]
    BY DEF t
  <2>2. reservedUnits'[p] = IF p \notin Lines(t) THEN reservedUnits[p]
                            ELSE IF to = "reserved" THEN reservedUnits[p] + Demand[t][p]
                            ELSE reservedUnits[p] - Demand[t][p]
    BY <2>1
  <2> QED
    BY <1>2, <2>1, <2>2, HeldSumMoves
<1>5. DespatchedIsConsumed'
  <2> SUFFICES ASSUME NEW o \in Order
               PROVE  o \in despatches' <=> \E p \in Product : status'[o][p] = "consumed"
    BY DEF DespatchedIsConsumed
  <2>1. o \in despatches <=> \E p \in Product : status[o][p] = "consumed"
    BY DEF BooksInv, DespatchedIsConsumed
  <2>2. CASE o # t
    BY <1>2, <2>1, <2>2
  <2>3. CASE o = t
    BY <1>1, <1>2, <2>1, <2>3
  <2> QED
    BY <2>2, <2>3
<1>6. /\ despatches' \subseteq Order /\ IsFiniteSet(despatches')
      /\ UnitsConserved'
  <2>1. CASE to # "consumed"
    BY <1>3, <2>1, ZenonT(60) DEF BooksInv, UnitsConserved, demandFor, delivered
  <2>2. CASE to = "consumed"
    <3>1. t \notin despatches /\ despatches' = despatches \union {t}
      BY <1>1, <1>2, <2>2 DEF BooksInv, DespatchedIsConsumed
    <3>2. IsFiniteSet(despatches) /\ despatches \subseteq Order
      BY DEF BooksInv
    <3>3. IsFiniteSet(despatches')
      BY <3>1, <3>2, FS_AddElement
    <3> SUFFICES ASSUME NEW p \in Known
                 PROVE  units'[p] + SumFunctionOnSet(demandFor(p), despatches')
                          = InitialUnits[p] + SumFunctionOnSet(delivered(p), carriedOut)
      BY <1>3, <3>1, <3>2, <3>3 DEF UnitsConserved, demandFor, delivered
    <3>4. \A o \in despatches \union {t} : demandFor(p)[o] \in Nat
      BY <3>2, SharesAreNat
    <3>5. SumFunctionOnSet(demandFor(p), despatches \union {t})
            = SumFunctionOnSet(demandFor(p), despatches) + demandFor(p)[t]
      <4> HIDE DEF t
      <4> QED
        BY ONLY <3>1, <3>2, <3>4, SumWith
    <3>6. SumFunctionOnSet(demandFor(p), despatches) \in Nat
      BY ONLY <3>2, <3>4, SumIsNat
    <3>7. /\ demandFor(p)[t] = Demand[t][p] /\ Demand[t][p] \in Nat
          /\ p \notin Lines(t) => Demand[t][p] = 0
      BY SharesAreNat, NoShareNoUnits
    <3>8. units'[p] = units[p] - Demand[t][p] /\ units[p] \in Int
      BY <2>2, <3>7 DEF LockingInv
    <3>9. units[p] + SumFunctionOnSet(demandFor(p), despatches)
            = InitialUnits[p] + SumFunctionOnSet(delivered(p), carriedOut)
      BY DEF BooksInv, UnitsConserved
    <3> QED
      BY <3>1, <3>5, <3>6, <3>7, <3>8, <3>9
  <2> QED
    BY <2>1, <2>2
<1> QED
  BY <1>3, <1>4, <1>5, <1>6 DEF BooksInv

LEMMA ReserveBooks ==
  ASSUME BooksInv, LockingInv, LockingInv', NEW c \in Call, Reserve(c)
  PROVE  BooksInv'
<1> DEFINE s == snapshot[c]
           short == (Lines(Target[c]) \ Known)
                      \union {p \in needed[c] : s.reservedUnits[p] + demand(c, p) > s.units[p]}
<1>1. /\ stage[c] = "loaded" /\ Target[c] \in Order
      /\ needed[c] # {} /\ needed[c] = Lines(Target[c]) \intersect Known
      /\ \A p \in needed[c] : /\ s.reservedUnits[p] = reservedUnits[p]
                              /\ s.status[p] = status[Target[c]][p]
  BY TargetIsOrder DEF Reserve, LockingInv, NeedsWholeOrder, SnapshotIsFresh
<1>2. CASE rollBack(c, "already")
  BY <1>1, <1>2, RollBackBooks DEF Reply
<1>3. CASE finish(c, "rejected") /\ publish(Target[c], "stock.rejected")
           /\ UNCHANGED <<units, reservedUnits, status, despatches>>
  BY <1>1, <1>3, EndBooks, PublishedTyped DEF Reply, FactType, BooksInv
<1>4. CASE (\A p \in needed[c] : s.status[p] = "none") /\ short = {} /\ finish(c, "accepted")
           /\ setStatus(c, needed[c], "reserved")
           /\ saveReserved(c, [p \in needed[c] |-> s.reservedUnits[p] + demand(c, p)])
           /\ publish(Target[c], "stock.reserved")
           /\ UNCHANGED <<units, despatches>>
  <2>1. needed[c] = Lines(Target[c])
    BY <1>1, <1>4
  <2>2. \A p \in Known : reservedUnits'[p] = IF p \notin needed[c] THEN reservedUnits[p]
                                             ELSE reservedUnits[p] + Demand[Target[c]][p]
    BY <1>1, <1>4 DEF saveReserved, demand
  <2> HIDE DEF short
  <2> QED
    BY <1>1, <1>4, <2>1, <2>2, OrderMovesBooks, SMTT(60) DEF RowStatus, FactType
<1> QED
  BY <1>2, <1>3, <1>4 DEF Reserve

LEMMA ReleaseBooks ==
  ASSUME BooksInv, LockingInv, LockingInv', NEW c \in Call, Release(c)
  PROVE  BooksInv'
<1> DEFINE s == snapshot[c]
           rows == rowsIn(c, "reserved")
<1>1. /\ stage[c] = "loaded" /\ Target[c] \in Order
      /\ \A p \in needed[c] : s.reservedUnits[p] = reservedUnits[p]
  BY TargetIsOrder DEF Release, LockingInv, SnapshotIsFresh
<1>2. CASE \E r \in Reply \ {"none", "accepted"} : rollBack(c, r)
  BY <1>1, <1>2, RollBackBooks
<1>3. CASE rows # {} /\ finish(c, "accepted")
           /\ setStatus(c, rows, "released")
           /\ saveReserved(c, [p \in needed[c] |->
                s.reservedUnits[p] - (IF p \in rows THEN demand(c, p) ELSE 0)])
           /\ publish(Target[c], "stock.released")
           /\ UNCHANGED <<units, despatches>>
  <2>1. /\ needed[c] = Lines(Target[c]) /\ rows = needed[c] /\ needed[c] # {}
        /\ \A p \in needed[c] : status[Target[c]][p] = "reserved"
    BY <1>1, <1>3, FoundInOneFoundInAll DEF RowStatus
  <2>2. \A p \in Known : reservedUnits'[p] = IF p \notin needed[c] THEN reservedUnits[p]
                                             ELSE reservedUnits[p] - Demand[Target[c]][p]
    BY <1>1, <1>3, <2>1 DEF saveReserved, demand
  <2> QED
    BY <1>1, <1>3, <2>1, <2>2, OrderMovesBooks DEF RowStatus, FactType
<1> QED
  BY <1>2, <1>3 DEF Release, Reply

LEMMA DespatchBooks ==
  ASSUME BooksInv, LockingInv, LockingInv', NEW c \in Call, Despatch(c)
  PROVE  BooksInv'
<1> DEFINE s == snapshot[c]
           rows == rowsIn(c, "reserved")
<1>1. /\ stage[c] = "loaded" /\ Target[c] \in Order
      /\ \A p \in needed[c] : s.units[p] = units[p] /\ s.reservedUnits[p] = reservedUnits[p]
  BY TargetIsOrder DEF Despatch, LockingInv, SnapshotIsFresh
<1>2. CASE \E r \in Reply \ {"none", "accepted"} : rollBack(c, r)
  BY <1>1, <1>2, RollBackBooks
<1>3. CASE rows # {} /\ finish(c, "accepted")
           /\ setStatus(c, rows, "consumed")
           /\ saveUnits(c, [p \in needed[c] |->
                s.units[p] - (IF p \in rows THEN demand(c, p) ELSE 0)])
           /\ saveReserved(c, [p \in needed[c] |->
                s.reservedUnits[p] - (IF p \in rows THEN demand(c, p) ELSE 0)])
           /\ despatches' = despatches \union {Target[c]}
           /\ publish(Target[c], "order.despatched")
  <2>1. /\ needed[c] = Lines(Target[c]) /\ rows = needed[c] /\ needed[c] # {}
        /\ \A p \in needed[c] : status[Target[c]][p] = "reserved"
    BY <1>1, <1>3, FoundInOneFoundInAll DEF RowStatus
  <2>2. \A p \in Known :
          /\ reservedUnits'[p] = IF p \notin needed[c] THEN reservedUnits[p]
                                 ELSE reservedUnits[p] - Demand[Target[c]][p]
          /\ units'[p] = IF p \notin needed[c] THEN units[p] ELSE units[p] - Demand[Target[c]][p]
    BY <1>1, <1>3, <2>1 DEF saveReserved, saveUnits, demand
  <2> QED
    BY <1>1, <1>3, <2>1, <2>2, OrderMovesBooks DEF RowStatus, FactType
<1> QED
  BY <1>2, <1>3 DEF Despatch, Reply

(* A delivery is entered once, for what it brought of each product.        *)
LEMMA ReplenishBooks ==
  ASSUME BooksInv, LockingInv, NEW c \in Call, Replenish(c)
  PROVE  BooksInv'
<1>1. /\ stage[c] = "loaded" /\ Operation[c] = "replenish" /\ finish(c, "accepted")
      /\ needed[c] = Lines(Target[c]) \intersect Known
      /\ \A p \in needed[c] : snapshot[c].units[p] = units[p]
      /\ UNCHANGED <<reservedUnits, status, despatches, facts>>
  BY DEF Replenish, LockingInv, SnapshotIsFresh, NeedsWholeOrder
<1>2. /\ reply' \in [Call -> Reply] /\ c \notin carriedOut
      /\ \A d \in Call : stage'[d] # "done" => reply'[d] = "none"
      /\ carriedOut' = carriedOut \union {c}
  BY <1>1, AnsweredOnce DEF Reply
<1>3. IsFiniteSet(carriedOut) /\ IsFiniteSet(carriedOut') /\ carriedOut \subseteq Call
  <2>1. carriedOut \subseteq Call
    BY DEF carriedOut
  <2> QED
    BY <1>2, <2>1, FS_AddElement DEF BooksInv
<1>4. UnitsConserved'
  <2> SUFFICES ASSUME NEW p \in Known
               PROVE  units'[p] + SumFunctionOnSet(demandFor(p), despatches)
                        = InitialUnits[p] + SumFunctionOnSet(delivered(p), carriedOut')
    BY <1>1 DEF UnitsConserved, demandFor, delivered
  <2>1. \A d \in carriedOut \union {c} : delivered(p)[d] \in Nat
    BY <1>3, SharesAreNat
  <2>2. SumFunctionOnSet(delivered(p), carriedOut \union {c})
          = SumFunctionOnSet(delivered(p), carriedOut) + delivered(p)[c]
    BY ONLY <1>2, <1>3, <2>1, SumWith
  <2>3. SumFunctionOnSet(delivered(p), carriedOut) \in Nat
    BY ONLY <1>3, <2>1, SumIsNat
  <2>4. SumFunctionOnSet(demandFor(p), despatches) \in Nat
    <3>1. IsFiniteSet(despatches) /\ \A o \in despatches : demandFor(p)[o] \in Nat
      BY SharesAreNat DEF BooksInv
    <3> QED
      BY ONLY <3>1, SumIsNat
  <2>5. /\ delivered(p)[c] = Demand[Target[c]][p] /\ Demand[Target[c]][p] \in Nat
        /\ p \notin Lines(Target[c]) => Demand[Target[c]][p] = 0
        /\ InitialUnits[p] \in Nat
    BY SharesAreNat, NoShareNoUnits, TargetIsOrder
  <2>6. units'[p] = units[p] + Demand[Target[c]][p] /\ units[p] \in Int
    <3>1. units[p] \in Int
      BY DEF LockingInv
    <3>2. units'[p] = IF p \in needed[c] THEN units[p] + Demand[Target[c]][p] ELSE units[p]
      BY <1>1 DEF Replenish, saveUnits, demand
    <3> QED
      BY <1>1, <2>5, <3>1, <3>2
  <2>7. units[p] + SumFunctionOnSet(demandFor(p), despatches)
          = InitialUnits[p] + SumFunctionOnSet(delivered(p), carriedOut)
    BY DEF BooksInv, UnitsConserved
  <2> QED
    BY <1>2, <2>2, <2>3, <2>4, <2>5, <2>6, <2>7
<1>5. CountersMatch' /\ DespatchedIsConsumed' /\ \A p \in Known : IsFiniteSet(holding(p))'
  <2>1. \A p \in Known : holding(p)' = holding(p)
    BY <1>1 DEF holding
  <2> QED
    BY <1>1, <2>1 DEF BooksInv, CountersMatch, DespatchedIsConsumed, demandFor
<1> QED
  BY <1>1, <1>2, <1>3, <1>4, <1>5 DEF BooksInv

LEMMA NextBooks ==
  ASSUME BooksInv, LockingInv, LockingInv', [Next]_vars
  PROVE  BooksInv'
<1>1. CASE UNCHANGED vars
  BY <1>1, BooksUntouched DEF vars, stockVars, callVars, BooksInv
<1>2. ASSUME NEW c \in Call, Start(c) \/ PreRead(c) \/ LockNext(c) \/ Load(c)
      PROVE  BooksInv'
  <2>1. UNCHANGED stockVars
    BY <1>2 DEF Start, PreRead, LockNext, Load, refuseEarly, beginLocking
  <2>2. CASE \E r \in {"error", "already"}, from \in Stage \ {"done"} : refuseEarly(c, from, r)
    <3>1. /\ reply' \in [Call -> Reply] /\ reply[c] = "none"
          /\ \A d \in Call : stage'[d] # "done" => reply'[d] = "none"
          /\ \A d \in Call : reply'[d] = "accepted" <=> reply[d] = "accepted"
      BY <2>2 DEF refuseEarly, go, answer, BooksInv, LockingInv, Reply
    <3> QED
      BY <2>1, <3>1, BooksUntouched DEF stockVars, BooksInv
  <2>3. CASE UNCHANGED reply
    <3>1. \A d \in Call : stage'[d] # "done" => reply'[d] = "none"
      BY <1>2, <2>3 DEF Start, PreRead, LockNext, Load, refuseEarly, beginLocking, go,
                        BooksInv, LockingInv
    <3> QED
      BY <2>1, <2>3, <3>1, BooksUntouched DEF stockVars, BooksInv
  <2> QED
    BY <1>2, <2>2, <2>3 DEF Start, PreRead, LockNext, Load, beginLocking, Stage
<1>3. ASSUME NEW c \in Call, Crash(c)
      PROVE  BooksInv'
  <2>1. rollBack(c, "crashed") /\ stage[c] # "done"
    BY <1>3 DEF Crash, rollBack, finish
  <2> QED
    BY <2>1, RollBackBooks DEF Reply
<1>4. ASSUME NEW c \in Call, Reserve(c) \/ Release(c) \/ Despatch(c) \/ Replenish(c)
      PROVE  BooksInv'
  BY <1>4, ReserveBooks, ReleaseBooks, DespatchBooks, ReplenishBooks
<1> QED
  BY <1>1, <1>2, <1>3, <1>4 DEF Next

-----------------------------------------------------------------------------
(* The theorems.                                                           *)

LEMMA NextLocking ==
  ASSUME LockingInv, [Next]_vars
  PROVE  LockingInv' /\ ContractStep
<1>1. CASE UNCHANGED vars
  <2>1. LockingInv'
    BY <1>1 DEF vars, stockVars, callVars, LockingInv, LocksExclude, LocksInOrder, SnapshotIsFresh,
                NeedsWholeOrder, AllOrNothing, NeverOversold, stockIdsOfOrder
  <2> QED
    BY <1>1, <2>1, UnseenByContract DEF vars, stockVars
<1>2. ASSUME NEW c \in Call, Start(c) \/ PreRead(c) \/ LockNext(c) \/ Load(c)
      PROVE  LockingInv' /\ ContractStep
  <2>1. LockingInv'
    BY <1>2, StartKeeps, PreReadKeeps, LockNextKeeps, LoadKeeps
  <2>2. UNCHANGED <<status, facts>>
    BY <1>2 DEF Start, PreRead, LockNext, Load, refuseEarly, beginLocking, stockVars
  <2> QED
    BY <2>1, <2>2, UnseenByContract
<1>3. ASSUME NEW c \in Call, Crash(c) \/ Reserve(c) \/ Release(c) \/ Despatch(c) \/ Replenish(c)
      PROVE  LockingInv' /\ ContractStep
  BY <1>3, CrashKeeps, ReserveKeeps, ReleaseKeeps, DespatchKeeps, ReplenishKeeps
<1> QED
  BY <1>1, <1>2, <1>3 DEF Next

(* The row locks do their job: snapshots stay fresh, handlers of one order *)
(* exclude each other (stock-item.repository.ts, lockForOrder).            *)
THEOREM LockingInvariant == Spec => []LockingInv
<1>1. Init => LockingInv
  BY InitLocking
<1>2. LockingInv /\ [Next]_vars => LockingInv'
  BY NextLocking
<1> QED
  BY <1>1, <1>2, PTL DEF Spec

(* An order's lines are reserved, released and consumed together, for any  *)
(* set of concurrent requests (order-stock-reservation.ts).                *)
THEOREM LinesStayTogether == Spec => []AllOrNothing
<1>1. LockingInv => AllOrNothing
  BY DEF LockingInv
<1> QED
  BY <1>1, LockingInvariant, PTL

(* Stock is never promised beyond the units on hand (stock-item.ts F1).    *)
THEOREM StockNeverOversold == Spec => []NeverOversold
<1>1. LockingInv => NeverOversold
  BY DEF LockingInv
<1> QED
  BY <1>1, LockingInvariant, PTL

(* Who waits for another of a finite set of requests lacks a row of lower  *)
(* rank than the other lacks, so one of them, the one whose next row ranks *)
(* highest, waits for none.                                                *)
LEMMA WaitsHaveAnOrder ==
  ASSUME LockingInv, NEW S \in SUBSET Call, S # {}, IsFiniteSet(S)
  PROVE  \E c \in S : \A d \in S : ~waitsFor(c, d)
<1> DEFINE lacks(c) == needed[c] \ held[c]
           next(c) == CHOOSE p \in lacks(c) : \A q \in lacks(c) : Rank[p] <= Rank[q]
           waiting == {c \in S : \E d \in S : waitsFor(c, d)}
           measure == [c \in S |-> IF c \in waiting THEN Rank[next(c)] ELSE 0]
<1>1. \A c \in S : lacks(c) \subseteq Product
  BY StockAssumption DEF LockingInv
<1>2. \A c \in S : \A p \in lacks(c) :
        (\A q \in lacks(c) : Rank[p] <= Rank[q]) => p = next(c)
  <2> SUFFICES ASSUME NEW c \in S, NEW p \in lacks(c), \A q \in lacks(c) : Rank[p] <= Rank[q]
               PROVE  p = next(c)
    OBVIOUS
  <2>1. next(c) \in lacks(c) /\ \A q \in lacks(c) : Rank[next(c)] <= Rank[q]
    OBVIOUS
  <2>2. Rank[next(c)] <= Rank[p] /\ Rank[p] <= Rank[next(c)]
    BY <2>1
  <2> HIDE DEF next, lacks
  <2>3. p \in Product /\ next(c) \in Product
    BY <1>1, <2>1
  <2> QED
    BY <2>2, <2>3, RanksDiffer, StockAssumption
<1>3. \A c \in waiting : next(c) \in lacks(c) /\ \A q \in lacks(c) : Rank[next(c)] <= Rank[q]
  BY DEF waitsFor
<1>4. \A c, d \in S : waitsFor(c, d) => next(c) \in held[d]
  BY <1>2 DEF waitsFor
<1> HIDE DEF next
<1>5. measure \in [S -> Nat]
  <2>1. \A c \in waiting : Rank[next(c)] \in Nat
    BY <1>1, <1>3, StockAssumption
  <2> QED
    BY <2>1
<1>6. PICK c \in S : \A d \in S : measure[d] <= measure[c]
  BY <1>5, LargestMeasure
<1>7. ASSUME NEW d \in S, waitsFor(c, d), d \in waiting
      PROVE  FALSE
  <2>1. next(c) \in held[d] /\ next(d) \in lacks(d)
    BY <1>3, <1>4, <1>7
  <2>2. Rank[next(c)] < Rank[next(d)]
    BY <2>1 DEF LockingInv, LocksInOrder
  <2>3. c \in waiting /\ measure[c] = Rank[next(c)] /\ measure[d] = Rank[next(d)]
    BY <1>7
  <2>4. measure[d] <= measure[c] /\ measure[c] \in Nat /\ measure[d] \in Nat
    BY <1>5, <1>6
  <2> QED
    BY <2>2, <2>3, <2>4
<1>8. CASE \A d \in S : ~waitsFor(c, d)
  BY <1>8
<1>9. ASSUME NEW d \in S, waitsFor(c, d)
      PROVE  \A e \in S : ~waitsFor(d, e)
  BY <1>7, <1>9
<1> QED
  BY <1>8, <1>9

(* No circle of waits for any stock rows, because every handler locks its  *)
(* rows in the same order, and no wait for a request that was answered     *)
(* (stock-item.repository.ts, lockForOrder: ORDER BY ... FOR UPDATE).      *)
THEOREM StockLocksAreNotCircular == Spec => []NoLockCycle
<1>1. LockingInv => NoLockCycle
  <2> SUFFICES ASSUME LockingInv
               PROVE  NoLockCycle
    OBVIOUS
  <2>1. \A c, d \in Call : waitsFor(c, d) => unanswered(d)
    BY DEF waitsFor, unanswered, LockingInv, LocksExclude
  <2>2. \A S \in SUBSET {c \in Call : unanswered(c)} :
          S # {} /\ IsFiniteSet(S) => \E c \in S : \A d \in S : ~waitsFor(c, d)
    BY WaitsHaveAnOrder
  <2> QED
    BY <2>1, <2>2 DEF NoLockCycle
<1> QED
  BY <1>1, LockingInvariant, PTL

(* The service implements the contract the saga relies on.                 *)
THEOREM StockImplementsContract == Spec => ImplementsContract
<1>1. Init => Contract!ContractInit
  <2>1. ASSUME Init, NEW o \in Order PROVE reservationOf(o) = "none"
    BY <2>1 DEF Init, reservationOf, stockIdsOfOrder
  <2> QED
    BY <2>1 DEF Init, Contract!ContractInit
<1>2. LockingInv /\ [Next]_vars => ContractStep
  BY NextLocking
<1> QED
  BY <1>1, <1>2, LockingInvariant, PTL
     DEF Spec, ImplementsContract, Contract!ContractSpec, ContractStep

(* The books are right, for any requests: the inductive invariant of the   *)
(* counters (stock-item.repository.ts, saveAll).                           *)
THEOREM BooksInvariant == Spec => []BooksInv
<1>1. Init => BooksInv
  BY InitBooks
<1>2. BooksInv /\ LockingInv /\ LockingInv' /\ [Next]_vars => BooksInv'
  BY NextBooks
<1> QED
  BY <1>1, <1>2, LockingInvariant, PTL DEF Spec

(* A stock row's reserved_units is the sum of what the orders holding it   *)
(* have reserved (stock-item.ts, reserve, release, consume).               *)
THEOREM CountersAddUp == Spec => []CountersMatch
<1>1. BooksInv => CountersMatch
  BY DEF BooksInv
<1> QED
  BY <1>1, BooksInvariant, PTL

(* Units come from deliveries, each counted once, and leave with           *)
(* despatches, each counted once (stock-item.ts, consume, replenish).      *)
THEOREM UnitsAreConserved == Spec => []UnitsConserved
<1>1. BooksInv => UnitsConserved
  BY DEF BooksInv
<1> QED
  BY <1>1, BooksInvariant, PTL

(* An order has a despatch exactly when its stock was consumed             *)
(* (order-despatch.ts, createDespatchForOrder).                            *)
THEOREM DespatchMeansConsumed == Spec => []DespatchedIsConsumed
<1>1. BooksInv => DespatchedIsConsumed
  BY DEF BooksInv
<1> QED
  BY <1>1, BooksInvariant, PTL

(* The counters never go below zero: reserved_units is a sum of demands,   *)
(* and there are at least as many units (the unsigned columns of           *)
(* stock.schema.ts).                                                       *)
THEOREM StockTypeCorrect == Spec => []TypeOK
<1>1. LockingInv /\ BooksInv => TypeOK
  <2> SUFFICES ASSUME LockingInv, BooksInv PROVE TypeOK
    OBVIOUS
  <2>1. ASSUME NEW p \in Known PROVE reservedUnits[p] \in Nat /\ units[p] \in Nat
    <3>1. IsFiniteSet(holding(p)) /\ \A o \in holding(p) : demandFor(p)[o] \in Nat
      BY SharesAreNat DEF BooksInv, holding
    <3>2. SumFunctionOnSet(demandFor(p), holding(p)) \in Nat
      BY ONLY <3>1, SumIsNat
    <3>3. reservedUnits[p] \in Nat
      BY <3>2 DEF BooksInv, CountersMatch
    <3> QED
      BY <3>3 DEF LockingInv, NeverOversold
  <2>2. units \in [Known -> Nat] /\ reservedUnits \in [Known -> Nat]
    BY <2>1 DEF LockingInv
  <2> QED
    BY <2>2 DEF LockingInv, BooksInv, TypeOK
<1> QED
  BY <1>1, LockingInvariant, BooksInvariant, PTL

=============================================================================
