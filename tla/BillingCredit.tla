--------------------------- MODULE BillingCredit ---------------------------
(***************************************************************************)
(* Billing: credit lines, their ledger, invoices and payments under        *)
(* concurrent requests.  A handler reads without locks where the code does *)
(* (its fast paths), locks the credit line before anything else, loads the *)
(* line's exposure, the order's entries and its invoice, for an invoice    *)
(* locks the number sequence last, and commits what it decided on that     *)
(* snapshot.  The ledger is append-only.  A transaction the database picks *)
(* as a deadlock victim is run again from its start, a few times.          *)
(*                                                                         *)
(* The row of an existing invoice is locked between the line and the       *)
(* sequence by code that holds the line of the same order, so the line's   *)
(* lock stands for both.  Ranges without a row are locked too, and across  *)
(* lines: see crowdedBy.  Amounts are minor units; an order's invoice is   *)
(* for the amount that was held, both being the order's total.             *)
(***************************************************************************)
EXTENDS Integers, Sequences, FiniteSets

CONSTANTS
  Line,         \* credit lines, one per retailer and company
  Known,        \* those with a row in credits
  Limit,        \* credit limit of a line
  Order,        \* orders
  LineOf,       \* the line an order draws on
  Amount,       \* the order's total
  Reference,    \* payment references
  Call,         \* requests that reach the service, repeats included
  Operation,    \* what each request asks for
  Target,       \* the order (or the order's invoice) it is about
  ReferenceOf,  \* the payment reference a remittance carries
  PaidAmount,   \* the amount it pays
  Mixes,        \* bound: sets of requests that may meet in a behaviour
  Unlucky,      \* bound: requests whose transactions may fail
  Near,         \* orders whose rows share a gap of an index
  Foreign,      \* requests quoting a currency other than the line's
  Draws,        \* outcomes random() < failureRate may have
  MaxAttempts,  \* transactions tried per request (MAX_ATTEMPTS)
  NoOrder, Sequence

Op == {"hold", "release", "issue", "pay"}

ASSUME CreditAssumption ==
  /\ Known \subseteq Line /\ Sequence \notin Line
  /\ Reference \intersect (Line \union {Sequence}) = {}
  /\ Near \subseteq Order \X Order
  /\ Limit \in [Known -> Nat]
  /\ NoOrder \notin Order
  /\ LineOf \in [Order -> Line]
  /\ Amount \in [Order -> Nat]
  /\ Operation \in [Call -> Op]
  /\ Target \in [Call -> Order]
  /\ ReferenceOf \in [Call -> Reference]
  /\ PaidAmount \in [Call -> Nat]
  /\ Foreign \subseteq Call /\ Unlucky \subseteq Call
  /\ Mixes \subseteq SUBSET Call
  /\ Draws \subseteq BOOLEAN
  /\ MaxAttempts \in Nat \ {0}

VARIABLES
  ledger,      \* per order, what its credit_items add up to by type, and
               \* how many of them are holds
  invoice,     \* invoices.status per order, "none" without row
  number,      \* the invoice's number, 0 without row
  nextNumber,  \* invoice_number_sequences.next_value
  payment,     \* payments: the order whose invoice a reference paid
  facts,       \* outbox facts per order, in commit order
  stage,       \* where each request's handler is
  locks,       \* rows and keys its transaction has locked
  snapshot,    \* what it loaded under the line's lock
  attempts,    \* transactions it has begun
  reply        \* what it answered

billingVars == <<ledger, invoice, number, nextNumber, payment, facts>>
callVars == <<stage, locks, snapshot, attempts, reply>>
vars == <<billingVars, callVars>>

Entries == [hold : Nat, consume : Nat, release : Nat, holds : Nat]
InvoiceStatus == {"none", "issued", "paid"}
Fact == [type : {"credit.approved", "credit.rejected", "credit.released",
                 "invoice.issued", "payment.received"},
         reason : {"none", "order_cancelled", "invoice_paid"}]
Snapshot == [committed : Nat, entries : Entries, invoice : InvoiceStatus, paidBy : SUBSET Reference]
Stage == {"idle", "resolving", "locking", "loaded", "numbered", "recorded", "done"}
Reply == {"none", "approved", "rejected", "already_held", "released", "not_held",
          "created", "existing", "accepted", "duplicate", "conflict", "error"}

TypeOK ==
  /\ ledger \in [Order -> Entries]
  /\ invoice \in [Order -> InvoiceStatus]
  /\ number \in [Order -> Nat]
  /\ nextNumber \in Nat \ {0}
  /\ payment \in [Reference -> Order \union {NoOrder}]
  /\ facts \in [Order -> Seq(Fact)]
  /\ stage \in [Call -> Stage]
  /\ locks \in [Call -> SUBSET (Line \union {Sequence} \union Reference)]
  /\ snapshot \in [Call -> Snapshot]
  /\ attempts \in [Call -> 0 .. MaxAttempts]
  /\ reply \in [Call -> Reply]

NoEntries == [hold |-> 0, consume |-> 0, release |-> 0, holds |-> 0]
NoSnapshot == [committed |-> 0, entries |-> NoEntries, invoice |-> "none", paidBy |-> {}]

Init ==
  /\ ledger = [o \in Order |-> NoEntries]
  /\ invoice = [o \in Order |-> "none"]
  /\ number = [o \in Order |-> 0]
  /\ nextNumber = 1
  /\ payment = [r \in Reference |-> NoOrder]
  /\ facts = [o \in Order |-> <<>>]
  /\ stage = [c \in Call |-> "idle"]
  /\ locks = [c \in Call |-> {}]
  /\ snapshot = [c \in Call |-> NoSnapshot]
  /\ attempts = [c \in Call |-> 0]
  /\ reply = [c \in Call |-> "none"]

-----------------------------------------------------------------------------
(* The ledger's arithmetic (summariseLedger).  A consume entry moves       *)
(* exposure from held to open and is neutral to the line.                  *)

exposure(e) == e.hold - e.release

(* Mutant: only what is not yet invoiced is given back.                    *)
outstandingHeldOnly(e) == IF e.consume < exposure(e) THEN exposure(e) - e.consume ELSE 0

outstanding(e) == exposure(e)

activeHold(e) == IF e.consume < exposure(e) THEN exposure(e) - e.consume ELSE 0

(* Mutant: a hold that was given back is no hold.                          *)
alreadyHeldOutstanding(e) == exposure(e) > 0

(* Any hold entry, whatever happened to it since.                          *)
alreadyHeld(e) == e.holds > 0

(* Every minor unit an order of the line ties up; the SQL sum over the     *)
(* line's credit_items is their number, no exposure being negative.        *)
tiedUp(l) == UNION {{o} \X (1 .. exposure(ledger[o])) : o \in {p \in Order : LineOf[p] = l}}

committedExposure(l) == Cardinality(tiedUp(l))

(* The decision behind the credit port: amounts ending in .99 are refused, *)
(* others at the configured failure rate.                                  *)
decide(amount, draw) == IF amount % 100 = 99 \/ draw THEN "refuse" ELSE "approve"

-----------------------------------------------------------------------------
(* The way into a transaction.                                             *)

line(c) == LineOf[Target[c]]

go(c, from, to) == stage[c] = from /\ stage' = [stage EXCEPT ![c] = to]

(* Mutant: a refused request leaves its transaction open.                  *)
finishUncommitted(c, r) ==
  /\ stage' = [stage EXCEPT ![c] = "done"]
  /\ reply' = [reply EXCEPT ![c] = r]
  /\ locks' = IF r = "error" THEN locks ELSE [locks EXCEPT ![c] = {}]
  /\ snapshot' = [snapshot EXCEPT ![c] = NoSnapshot]
  /\ UNCHANGED attempts

(* The handler has answered; whatever it had locked is free.               *)
finish(c, r) ==
  /\ stage' = [stage EXCEPT ![c] = "done"]
  /\ reply' = [reply EXCEPT ![c] = r]
  /\ locks' = [locks EXCEPT ![c] = {}]
  /\ snapshot' = [snapshot EXCEPT ![c] = NoSnapshot]
  /\ UNCHANGED attempts

rollBack(c, r) == finish(c, r) /\ UNCHANGED billingVars

beginTransaction(c, from) ==
  /\ go(c, from, "locking")
  /\ attempts' = [attempts EXCEPT ![c] = @ + 1]
  /\ UNCHANGED <<billingVars, locks, snapshot, reply>>

(* The reference is on record: a redelivery if it names the same invoice,  *)
(* a conflict otherwise.                                                   *)
paidBefore(c) == IF payment[ReferenceOf[c]] = Target[c] THEN "duplicate" ELSE "conflict"

(* Hold and release open their transaction at once; an invoice, or a       *)
(* payment's reference, that is already there answers without one.         *)
Start(c) ==
  /\ stage[c] = "idle"
  /\ \E mix \in Mixes : {d \in Call : stage[d] # "idle"} \union {c} \subseteq mix
  /\ CASE Operation[c] \in {"hold", "release"} -> beginTransaction(c, "idle")
       [] Operation[c] = "issue" ->
            IF invoice[Target[c]] # "none" THEN rollBack(c, "existing")
            ELSE beginTransaction(c, "idle")
       [] Operation[c] = "pay" ->
            IF payment[ReferenceOf[c]] # NoOrder THEN rollBack(c, paidBefore(c))
            ELSE /\ go(c, "idle", "resolving")
                 /\ UNCHANGED <<billingVars, locks, snapshot, attempts, reply>>

Resolve(c) ==
  /\ stage[c] = "resolving"
  /\ IF invoice[Target[c]] = "none" THEN rollBack(c, "error")
     ELSE beginTransaction(c, "resolving")

(* Mutant: rows are read without FOR UPDATE.                               *)
freeUnlocked(x) == TRUE

free(x) == \A d \in Call : x \notin locks[d]

(* Under the line's lock: its exposure, the order's entries, its invoice   *)
(* and that invoice's payment.                                             *)
readUnderLock(c) ==
  [committed |-> committedExposure(line(c)), entries |-> ledger[Target[c]],
   invoice |-> invoice[Target[c]], paidBy |-> {r \in Reference : payment[r] = Target[c]}]

(* lockForOrder: the credit line is always the first lock.                 *)
LockLine(c) ==
  /\ line(c) \in Known
  /\ free(line(c))
  /\ go(c, "locking", "loaded")
  /\ locks' = [locks EXCEPT ![c] = {line(c)}]
  /\ snapshot' = [snapshot EXCEPT ![c] = readUnderLock(c)]
  /\ UNCHANGED <<billingVars, attempts, reply>>

NoLine(c) ==
  /\ stage[c] = "locking"
  /\ line(c) \notin Known
  /\ rollBack(c, "error")

working(c) == stage[c] \in {"loaded", "numbered", "recorded"}

(* FOR UPDATE over an order's entries, and over an invoice that is not     *)
(* there yet, locks the gaps where rows of a neighbour on another line     *)
(* would go.  Two transactions may lock one gap; inserting into it then    *)
(* waits for the other to end.                                             *)
crowdedBy(c, d) == working(d) /\ line(c) # line(d) /\ <<Target[c], Target[d]>> \in Near

roomToInsert(c) == \A d \in Call : ~crowdedBy(c, d)

-----------------------------------------------------------------------------
(* The commit: entries, invoice and payment rows and the facts, together.  *)

fact(type) == [type |-> type, reason |-> "none"]
releaseFact(reason) == [type |-> "credit.released", reason |-> reason]

publish(c, news) == facts' = [facts EXCEPT ![Target[c]] = @ \o news]

appendHold(c, amount) ==
  ledger' = [ledger EXCEPT ![Target[c]] = [hold |-> @.hold + amount, consume |-> @.consume,
                                           release |-> @.release, holds |-> @.holds + 1]]
appendConsume(c, amount) == ledger' = [ledger EXCEPT ![Target[c]].consume = @ + amount]
appendRelease(c, amount) == ledger' = [ledger EXCEPT ![Target[c]].release = @ + amount]

fitsLine(c) == Amount[Target[c]] <= Limit[line(c)] - snapshot[c].committed

draws(c, answer) == \E draw \in Draws : decide(Amount[Target[c]], draw) = answer

holdable(c) ==
  /\ ~alreadyHeld(snapshot[c].entries) /\ c \notin Foreign
  /\ fitsLine(c) /\ draws(c, "approve")

Hold(c) ==
  /\ stage[c] = "loaded" /\ Operation[c] = "hold"
  /\ UNCHANGED <<invoice, number, nextNumber, payment>>
  /\ \/ /\ alreadyHeld(snapshot[c].entries)
        /\ finish(c, "already_held")
        /\ UNCHANGED <<ledger, facts>>
     \/ /\ ~alreadyHeld(snapshot[c].entries) /\ c \in Foreign
        /\ finish(c, "error")
        /\ UNCHANGED <<ledger, facts>>
     \/ /\ ~alreadyHeld(snapshot[c].entries) /\ c \notin Foreign
        /\ ~fitsLine(c) \/ draws(c, "refuse")
        /\ finish(c, "rejected")
        /\ publish(c, <<fact("credit.rejected")>>)
        /\ UNCHANGED ledger
     \/ /\ holdable(c)
        /\ roomToInsert(c)
        /\ finish(c, "approved")
        /\ appendHold(c, Amount[Target[c]])
        /\ publish(c, <<fact("credit.approved")>>)

(* Whatever the order still ties up goes back, invoiced or not.            *)
Release(c) ==
  LET due == outstanding(snapshot[c].entries) IN
  /\ stage[c] = "loaded" /\ Operation[c] = "release"
  /\ UNCHANGED <<invoice, number, nextNumber, payment>>
  /\ \/ /\ due = 0
        /\ finish(c, "not_held")
        /\ UNCHANGED <<ledger, facts>>
     \/ /\ due > 0
        /\ roomToInsert(c)
        /\ finish(c, "released")
        /\ appendRelease(c, due)
        /\ publish(c, <<releaseFact("order_cancelled")>>)

issuable(c) ==
  /\ snapshot[c].invoice = "none"
  /\ c \notin Foreign
  /\ activeHold(snapshot[c].entries) > 0

RefuseIssue(c) ==
  /\ stage[c] = "loaded" /\ Operation[c] = "issue"
  /\ ~issuable(c)
  /\ rollBack(c, IF snapshot[c].invoice # "none" THEN "existing" ELSE "error")

(* Mutant: the number is taken in a transaction of its own.                *)
LockSequenceAndCommit(c) ==
  /\ Operation[c] = "issue" /\ issuable(c)
  /\ free(Sequence)
  /\ go(c, "loaded", "numbered")
  /\ locks' = [locks EXCEPT ![c] = @ \union {Sequence}]
  /\ nextNumber' = nextNumber + 1
  /\ UNCHANGED <<ledger, invoice, number, payment, facts, snapshot, attempts, reply>>

(* The number sequence is always the last lock, kept until the commit.     *)
LockSequence(c) ==
  /\ Operation[c] = "issue" /\ issuable(c)
  /\ free(Sequence)
  /\ go(c, "loaded", "numbered")
  /\ locks' = [locks EXCEPT ![c] = @ \union {Sequence}]
  /\ UNCHANGED <<billingVars, snapshot, attempts, reply>>

Issue(c) ==
  /\ stage[c] = "numbered"
  /\ roomToInsert(c)
  /\ finish(c, "created")
  /\ invoice' = [invoice EXCEPT ![Target[c]] = "issued"]
  /\ number' = [number EXCEPT ![Target[c]] = nextNumber]
  /\ nextNumber' = nextNumber + 1
  /\ appendConsume(c, activeHold(snapshot[c].entries))
  /\ publish(c, <<fact("invoice.issued")>>)
  /\ UNCHANGED payment

(* Mutant: payment_reference has no UNIQUE key.                            *)
referenceTakenNever(c) == FALSE

(* The UNIQUE key: another payment has used the reference since the fast   *)
(* path looked.                                                            *)
referenceTaken(c) == payment[ReferenceOf[c]] # NoOrder

fits(c) == c \notin Foreign /\ PaidAmount[c] = Amount[Target[c]]

payable(c) == snapshot[c].invoice # "paid" /\ fits(c)

(* Mutant: whoever finds the invoice paid is told that he paid it.         *)
RefusePayByInvoice(c) ==
  /\ stage[c] = "loaded" /\ Operation[c] = "pay"
  /\ ~payable(c)
  /\ rollBack(c, IF snapshot[c].invoice = "paid" THEN "duplicate" ELSE "error")

(* Under the locks the remittance is judged again: a redelivery, a second  *)
(* payment, or the wrong money.                                            *)
RefusePay(c) ==
  /\ stage[c] = "loaded" /\ Operation[c] = "pay"
  /\ ~payable(c)
  /\ rollBack(c, IF snapshot[c].invoice = "paid" /\ ReferenceOf[c] \in snapshot[c].paidBy
                 THEN "duplicate" ELSE "error")

(* The payment is inserted.  A row with its reference that is not yet      *)
(* committed makes the insert wait for what becomes of it.                 *)
RecordPayment(c) ==
  /\ stage[c] = "loaded" /\ Operation[c] = "pay" /\ payable(c)
  /\ free(ReferenceOf[c])
  /\ \/ referenceTaken(c) /\ rollBack(c, "conflict")
     \/ /\ ~referenceTaken(c)
        /\ go(c, "loaded", "recorded")
        /\ locks' = [locks EXCEPT ![c] = @ \union {ReferenceOf[c]}]
        /\ UNCHANGED <<billingVars, snapshot, attempts, reply>>

(* The invoice is paid and what the order still ties up goes back, the     *)
(* payment's fact first.                                                   *)
Pay(c) ==
  LET due == outstanding(snapshot[c].entries) IN
  /\ stage[c] = "recorded"
  /\ finish(c, "accepted")
  /\ invoice' = [invoice EXCEPT ![Target[c]] = "paid"]
  /\ payment' = [payment EXCEPT ![ReferenceOf[c]] = Target[c]]
  /\ \/ due > 0 /\ roomToInsert(c) /\ appendRelease(c, due)
        /\ publish(c, <<fact("payment.received"), releaseFact("invoice_paid")>>)
     \/ due = 0 /\ UNCHANGED ledger
        /\ publish(c, <<fact("payment.received")>>)
  /\ UNCHANGED <<number, nextNumber>>

-----------------------------------------------------------------------------
(* Who waits for whom, and who gives way.                                  *)

wanted(c) ==
  (IF stage[c] = "locking" THEN {line(c)} ELSE {})
    \union (IF stage[c] = "loaded" /\ Operation[c] = "issue" /\ issuable(c) THEN {Sequence} ELSE {})
    \union (IF stage[c] = "loaded" /\ Operation[c] = "pay" /\ payable(c) THEN {ReferenceOf[c]} ELSE {})

inserting(c) ==
  \/ stage[c] = "loaded" /\ Operation[c] = "hold" /\ holdable(c)
  \/ stage[c] = "loaded" /\ Operation[c] = "release" /\ outstanding(snapshot[c].entries) > 0
  \/ stage[c] = "numbered"
  \/ stage[c] = "recorded" /\ outstanding(snapshot[c].entries) > 0

waitsFor(c, d) ==
  \/ wanted(c) \intersect locks[d] # {}
  \/ inserting(c) /\ crowdedBy(c, d)

(* Transactions that wait for each other in a circle: the database breaks  *)
(* it by rolling one of them back.                                         *)
inCircle(c) ==
  \E S \in SUBSET {d \in Call : locks[d] # {}} :
    c \in S /\ \A d \in S : (\E e \in S : waitsFor(d, e)) /\ (\E e \in S : waitsFor(e, d))

InTransaction == {"locking", "loaded", "numbered", "recorded"}

(* Mutant: one transaction too many.                                       *)
RetryOnceMore(c) ==
  /\ stage[c] \in InTransaction
  /\ c \in Unlucky \/ inCircle(c)
  /\ attempts[c] <= MaxAttempts
  /\ stage' = [stage EXCEPT ![c] = "locking"]
  /\ locks' = [locks EXCEPT ![c] = {}]
  /\ snapshot' = [snapshot EXCEPT ![c] = NoSnapshot]
  /\ attempts' = [attempts EXCEPT ![c] = @ + 1]
  /\ UNCHANGED <<billingVars, reply>>

(* A deadlock victim, or a lock waited for too long: the whole unit of     *)
(* work is rolled back and run again.                                      *)
Retry(c) ==
  /\ stage[c] \in InTransaction
  /\ c \in Unlucky \/ inCircle(c)
  /\ attempts[c] < MaxAttempts
  /\ stage' = [stage EXCEPT ![c] = "locking"]
  /\ locks' = [locks EXCEPT ![c] = {}]
  /\ snapshot' = [snapshot EXCEPT ![c] = NoSnapshot]
  /\ attempts' = [attempts EXCEPT ![c] = @ + 1]
  /\ UNCHANGED <<billingVars, reply>>

(* The last attempt failed, or the process died.                           *)
Fail(c) ==
  /\ stage[c] \in {"resolving"} \union InTransaction
  /\ c \in Unlucky \/ (attempts[c] = MaxAttempts /\ inCircle(c))
  /\ rollBack(c, "error")

(* A handler's own progress.                                               *)
Step(c) ==
  \/ Resolve(c) \/ LockLine(c) \/ NoLine(c)
  \/ Hold(c) \/ Release(c) \/ RefuseIssue(c) \/ LockSequence(c) \/ Issue(c)
  \/ RefusePay(c) \/ RecordPayment(c) \/ Pay(c)

GiveWay(c) == inCircle(c) /\ (Retry(c) \/ Fail(c))

Next == \E c \in Call :
  \/ Start(c) \/ Resolve(c) \/ LockLine(c) \/ NoLine(c)
  \/ Hold(c) \/ Release(c) \/ RefuseIssue(c) \/ LockSequence(c) \/ Issue(c)
  \/ RefusePay(c) \/ RecordPayment(c) \/ Pay(c)
  \/ Retry(c) \/ Fail(c)

Spec == Init /\ [][Next]_vars

(* A running handler takes its next step unless it waits for a lock, and   *)
(* the database finds every circle.                                        *)
FairSpec == Spec /\ \A c \in Call : WF_vars(Step(c)) /\ WF_vars(GiveWay(c))

-----------------------------------------------------------------------------
(* Properties.                                                             *)

(* B1: however holds race, are retried and repeated, a line's committed    *)
(* exposure never exceeds its limit.                                       *)
WithinLimit == \A l \in Known : committedExposure(l) <= Limit[l]

(* B5 and R47: an order never gives back more than it held, and a paid     *)
(* order ties up nothing.                                                  *)
CreditReturnsOnce == \A o \in Order :
  /\ exposure(ledger[o]) >= 0
  /\ invoice[o] = "paid" => exposure(ledger[o]) = 0

(* R48: payments and paid invoices correspond one to one.                  *)
OnePaymentEach ==
  /\ \A r \in Reference : payment[r] # NoOrder => invoice[payment[r]] = "paid"
  /\ \A o \in Order : invoice[o] = "paid" =>
       \E r \in Reference : payment[r] = o /\ \A q \in Reference : payment[q] = o => q = r

(* N11: a remittance whose reference is on record is a redelivery exactly  *)
(* when it names the invoice that reference paid, whichever of the two     *)
(* paths (before the transaction, or at the UNIQUE key) finds out.         *)
RemittanceAnswers == \A c \in Call :
  /\ reply[c] \in {"accepted", "duplicate"} => payment[ReferenceOf[c]] = Target[c]
  /\ reply[c] = "conflict" => payment[ReferenceOf[c]] \notin {NoOrder, Target[c]}

Invoiced == {o \in Order : invoice[o] # "none"}

(* Invoice numbers are given in order, once each and without a gap,        *)
(* whatever transactions are rolled back after taking one.                 *)
NumbersGapFree ==
  /\ {number[o] : o \in Invoiced} = 1 .. (nextNumber - 1)
  /\ \A o, p \in Invoiced : number[o] = number[p] => o = p

-----------------------------------------------------------------------------
(* Why they hold: the inductive invariant.                                 *)

(* A handler has the locks its progress calls for, and nobody else has.    *)
LocksExclude ==
  /\ \A c \in Call :
       /\ stage[c] = "loaded" => locks[c] = {line(c)}
       /\ stage[c] = "numbered" => locks[c] = {line(c), Sequence}
       /\ stage[c] = "recorded" => locks[c] = {line(c), ReferenceOf[c]}
       /\ ~working(c) => locks[c] = {}
  /\ \A c, d \in Call : c # d => locks[c] \intersect locks[d] = {}

(* So what it read is still true when it commits.                          *)
SnapshotIsFresh == \A c \in Call :
  working(c) => line(c) \in Known /\ snapshot[c] = readUnderLock(c)

RequestInv == \A c \in Call :
  /\ stage[c] \in {"idle", "resolving"} => attempts[c] = 0
  /\ stage[c] = "resolving" => Operation[c] = "pay"
  /\ stage[c] = "numbered" => Operation[c] = "issue" /\ issuable(c)
  /\ stage[c] = "recorded" => Operation[c] = "pay" /\ payable(c) /\ ~referenceTaken(c)
  /\ Operation[c] = "pay" /\ stage[c] \in InTransaction => invoice[Target[c]] # "none"

(* An order has at most one entry of each type, each for the whole amount. *)
LedgerInv == \A o \in Order :
  /\ ledger[o].holds \in {0, 1}
  /\ ledger[o].hold = IF ledger[o].holds = 1 THEN Amount[o] ELSE 0
  /\ ledger[o].release \in {0, ledger[o].hold}
  /\ ledger[o].consume \in {0, ledger[o].hold}
  /\ invoice[o] # "none" <=> ledger[o].consume > 0
  /\ invoice[o] = "paid" => ledger[o].release = ledger[o].hold

FiniteExposure == \A l \in Line : IsFiniteSet(tiedUp(l))

BooksInv ==
  /\ LedgerInv /\ FiniteExposure /\ WithinLimit /\ OnePaymentEach /\ NumbersGapFree

HandlersInv == LocksExclude /\ SnapshotIsFresh /\ RequestInv /\ RemittanceAnswers

CreditInv == TypeOK /\ BooksInv /\ HandlersInv

-----------------------------------------------------------------------------
(* What an order's entries amount to.                                      *)
holdOf(e) ==
  IF e.holds = 0 THEN "none"
  ELSE IF e.release > 0 THEN "released"
  ELSE IF e.consume > 0 THEN "open" ELSE "held"

Contract == INSTANCE CreditContract WITH hold <- [o \in Order |-> holdOf(ledger[o])]

(* Whatever repeats, races, retries and crashes happen, each order sees    *)
(* one hold, one return of it, one invoice, one payment and one fact for   *)
(* each: the saga's contract.                                              *)
ImplementsContract == Contract!ContractSpec

(* BI8 orders the row locks, yet gaps can close a circle of waits: however *)
(* requests wait for each other, and whichever the database rolls back,    *)
(* every request that has begun ends.                                      *)
EveryRequestEnds == <>[](\A c \in Call : stage[c] \in {"idle", "done"})

=============================================================================
