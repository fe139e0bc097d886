--------------------------- MODULE OrderPlacement ---------------------------
(***************************************************************************)
(* Orders' responder to orders.create: an order is placed once for each    *)
(* request id, under a number of its own.                                  *)
(*                                                                         *)
(* A placement's transaction takes its snapshot at its first read, before  *)
(* it waits for the counter row's lock, and holds the lock to its end; no  *)
(* other transaction writes orders meanwhile, so what it writes is shown   *)
(* at the commit.  An order's row, its items and its order.placed fact are *)
(* one commit and one element of orders.                                   *)
(***************************************************************************)
EXTENDS GatewayCommands, SharedKernel

CONSTANTS
  Retailer,        \* retailers: code -> GLN
  Company,         \* companies: code -> GLN
  Product,         \* products: code -> catalogue price
  SeededOrders,    \* orders the database already has, numbered from 1
  MAX_ATTEMPTS     \* of a unit of work that meets lock contention

VARIABLES
  orders,      \* committed orders
  nextValue,   \* order_number_sequences: the next number, 0 without the row
  lockedBy,    \* the placement that holds the counter row
  placing,     \* per request: its placement at Orders
  burnt,       \* numbers allocated and committed without an order
  excused      \* requests that met exhausted contention or a lost commit

ordersVars == <<orders, nextValue, lockedBy, placing, burnt, excused>>

Nobody == "nobody"
NotPlacing == [step |-> "none"]
NoRequestId == "noRequestId"

(* No request is called one of the other names, and a product's price in   *)
(* the catalogue is a Money.                                               *)
ASSUME PlacementAssumption ==
  /\ SeededOrders \in Nat
  /\ Product \in [DOMAIN Product -> Money]
  /\ {Nobody, NoRequestId, "seeded"} \intersect Call = {}

OrdersInit ==
  /\ orders = {[id |-> "seeded", reference |-> n, requestId |-> NoRequestId,
                total |-> InvalidMoney] : n \in 1..SeededOrders}
  /\ nextValue = 0
  /\ lockedBy = Nobody
  /\ placing = [c \in Call |-> NotPlacing]
  /\ burnt = {}
  /\ excused = {}

asked(c, kind) == stageIs(c, "asked") /\ call[c].command.kind = kind

placement(c) == call[c].command

-----------------------------------------------------------------------------
(* The aggregate.                                                          *)

(* The request DTO; an order discount has no place in the aggregate.       *)
wellFormed(command) ==
  /\ command.lines # <<>>
  /\ \A i \in DOMAIN command.lines : isQuantity(command.lines[i].quantity)
  /\ command.orderDiscount = 0

resolves(command) ==
  /\ command.retailer \in DOMAIN Retailer => isGln(Retailer[command.retailer])
  /\ command.company \in DOMAIN Company => isGln(Company[command.company])

isComplete(command) ==
  /\ command.retailer \in DOMAIN Retailer
  /\ command.company \in DOMAIN Company
  /\ command.currency \in Currency
  /\ \A i \in DOMAIN command.lines : command.lines[i].product \in DOMAIN Product

(* Mutant: a product in the catalogue goes at the catalogue's price.       *)
toLineInputAtList(line, currency) ==
  [quantity |-> line.quantity,
   unitPrice |-> Product[line.product],
   lineDiscount |-> money(IF line.lineDiscount # NotTyped THEN line.lineDiscount ELSE 0, currency)]

(* A line at the price asked for, or else at the catalogue's, in the       *)
(* catalogue's currency.                                                   *)
toLineInput(line, currency) ==
  [quantity |-> line.quantity,
   unitPrice |-> IF line.unitPrice # NotTyped THEN money(line.unitPrice, currency)
                 ELSE Product[line.product],
   lineDiscount |-> money(IF line.lineDiscount # NotTyped THEN line.lineDiscount ELSE 0, currency)]

initialAmount(currency, lines) ==
  FoldLeft(LAMBDA sum, l : add(sum, multiply(l.unitPrice, l.quantity)), zero(currency), lines)

initialDiscount(currency, lines) ==
  FoldLeft(LAMBDA sum, l : add(sum, l.lineDiscount), zero(currency), lines)

computeOrderTotals(currency, lines) ==
  subtract(initialAmount(currency, lines), initialDiscount(currency, lines))

(* Order.place: invalid when a line's currency is not the order's, or the  *)
(* total is negative or no longer safe.                                    *)
placedTotal(command) ==
  LET lines == [i \in DOMAIN command.lines |-> toLineInput(command.lines[i], command.currency)]
      total == computeOrderTotals(command.currency, lines)
  IN IF isNegative(total) THEN InvalidMoney ELSE total

-----------------------------------------------------------------------------
(* The handler.                                                            *)

withRequestId(id) == {o \in orders : id # NoRequestId /\ o.requestId = id}

replyTo(c, reply) ==
  /\ call' = withReply(c, reply)
  /\ placing' = [placing EXCEPT ![c] = NotPlacing]

(* RI2: an order that is already there is the answer, without a lookup of  *)
(* reference data and without a stock check.                               *)
ReceivePlacement(c) ==
  LET command == placement(c)
      existing == withRequestId(command.requestId)
  IN
  /\ asked(c, "place") /\ placing[c] = NotPlacing
  /\ CASE ~wellFormed(command) -> replyTo(c, RpcError("VALIDATION_FAILED"))
       [] wellFormed(command) /\ existing # {} ->
            replyTo(c, Done(CHOOSE o \in existing : TRUE))
       [] wellFormed(command) /\ existing = {} /\ ~resolves(command) ->
            replyTo(c, RpcError("VALIDATION_FAILED"))
       [] wellFormed(command) /\ existing = {} /\ resolves(command) /\ ~isComplete(command) ->
            replyTo(c, RpcError("NOT_FOUND"))
       [] OTHER -> placing' = [placing EXCEPT ![c] = [step |-> "stock"]] /\ UNCHANGED call
  /\ UNCHANGED <<faults, orders, nextValue, lockedBy, burnt, excused>>

maxSequence == Max({o.reference : o \in orders} \union {0})

(* Mutant: the counter follows the highest order, not only its first time. *)
ensuredFromMax(c) == placing[c].max + 1

(* INSERT ... ON DUPLICATE KEY UPDATE next_value = next_value: the row     *)
(* starts past what the snapshot had; once there it is left as it is.      *)
ensured(c) == IF nextValue = 0 THEN placing[c].max + 1 ELSE nextValue

begin(c, attempt) ==
  placing' = [placing EXCEPT ![c] = [step |-> "begun", attempt |-> attempt, max |-> maxSequence]]

(* The stock check, before anything is persisted; then the transaction's   *)
(* first read.                                                             *)
CheckStock(c) ==
  /\ placing[c].step = "stock"
  /\ \/ begin(c, 1) /\ UNCHANGED call
     \/ \E code \in {"STOCK_UNAVAILABLE", "TIMEOUT", "UNAVAILABLE"} : replyTo(c, RpcError(code))
  /\ UNCHANGED <<faults, orders, nextValue, lockedBy, burnt, excused>>

(* OrderNumberAllocator.next: waits for the counter row, and holds it from *)
(* here to the end of the transaction.                                     *)
NextNumber(c) ==
  /\ placing[c].step = "begun" /\ lockedBy = Nobody
  /\ lockedBy' = c
  /\ nextValue' = ensured(c) + 1
  /\ placing' = [placing EXCEPT ![c] =
       [step |-> "numbered", attempt |-> @.attempt, max |-> @.max, number |-> ensured(c),
        before |-> nextValue]]
  /\ UNCHANGED <<gatewayVars, orders, burnt, excused>>

giveBack(c) ==
  IF lockedBy = c THEN lockedBy' = Nobody /\ nextValue' = placing[c].before
  ELSE UNCHANGED <<lockedBy, nextValue>>

rollBack(c, code) == giveBack(c) /\ replyTo(c, RpcError(code)) /\ UNCHANGED <<orders, burnt>>

(* Mutant: the loser reads its snapshot again, which the winner is not in. *)
winnerInSnapshot(c) ==
  {o \in withRequestId(placement(c).requestId) : o.reference <= placing[c].max}

(* RI3: the order that has the request id, read with a lock: what is       *)
(* committed now, not what the snapshot had.                               *)
winner(c) == withRequestId(placement(c).requestId)

write(c, order, new) ==
  /\ placing' = [placing EXCEPT ![c] =
       [step |-> "written", attempt |-> @.attempt, number |-> @.number, before |-> @.before,
        order |-> order, new |-> new]]
  /\ UNCHANGED <<call, lockedBy, nextValue, orders, burnt>>

(* Order.place and the repository's save.                                  *)
PlaceAndSave(c) ==
  LET number == placing[c].number
      requestId == placement(c).requestId
      total == placedTotal(placement(c))
      taken == withRequestId(requestId) # {}
      placed == [id |-> c, reference |-> number, requestId |-> requestId, total |-> total]
  IN
  /\ placing[c].step = "numbered"
  /\ \/ /\ ~fitsReference(number) \/ total = InvalidMoney
        /\ rollBack(c, "VALIDATION_FAILED")
     \/ /\ fitsReference(number) /\ total # InvalidMoney
        /\ \/ taken /\ winner(c) # {} /\ write(c, CHOOSE o \in winner(c) : TRUE, FALSE)
           \/ taken /\ winner(c) = {} /\ rollBack(c, "INTERNAL_ERROR")
           \/ ~taken /\ (\E o \in orders : o.reference = number) /\ rollBack(c, "INTERNAL_ERROR")
           \/ ~taken /\ (\A o \in orders : o.reference # number) /\ write(c, placed, TRUE)
  /\ UNCHANGED <<faults, excused>>

(* The commit, with or without its acknowledgement; a placement that lost  *)
(* the race for its request id commits too, and its number with it.        *)
commit(c) ==
  /\ placing[c].step = "written"
  /\ orders' = IF placing[c].new THEN orders \union {placing[c].order} ELSE orders
  /\ burnt' = IF placing[c].new THEN burnt ELSE burnt \union {placing[c].number}
  /\ lockedBy' = Nobody
  /\ UNCHANGED nextValue

Commit(c) ==
  /\ commit(c)
  /\ replyTo(c, Done(placing[c].order))
  /\ UNCHANGED <<faults, excused>>

CommitUnacknowledged(c) ==
  /\ commit(c)
  /\ replyTo(c, RpcError("INTERNAL_ERROR"))
  /\ excused' = excused \union {c}
  /\ fault

(* A deadlock or a lock wait that timed out: the unit of work runs again   *)
(* from its start, a bounded number of times.                              *)
LockContention(c) ==
  /\ placing[c].step \in {"begun", "numbered"}
  /\ fault
  /\ IF placing[c].attempt < MAX_ATTEMPTS
     THEN giveBack(c) /\ begin(c, placing[c].attempt + 1) /\ UNCHANGED <<call, orders, burnt, excused>>
     ELSE rollBack(c, "INTERNAL_ERROR") /\ excused' = excused \union {c}

(* The process stops: what it was working on is never answered.            *)
RestartOrders ==
  LET running == {c \in Call : placing[c] # NotPlacing}
  IN
  /\ running # {}
  /\ fault
  /\ placing' = [c \in Call |-> NotPlacing]
  /\ call' = [c \in Call |-> IF c \in running THEN [call[c] EXCEPT !.stage = "over"] ELSE call[c]]
  /\ IF lockedBy = Nobody THEN UNCHANGED <<lockedBy, nextValue>> ELSE giveBack(lockedBy)
  /\ UNCHANGED <<orders, burnt, excused>>

PlacementNext ==
  \/ \E c \in Call :
       \/ ReceivePlacement(c) \/ CheckStock(c) \/ NextNumber(c) \/ PlaceAndSave(c)
       \/ Commit(c) \/ CommitUnacknowledged(c) \/ LockContention(c)
  \/ RestartOrders

=============================================================================
