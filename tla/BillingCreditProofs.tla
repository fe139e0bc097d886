------------------------ MODULE BillingCreditProofs ------------------------
(***************************************************************************)
(* For any lines, limits, orders and requests: the line's lock keeps the   *)
(* committed exposure within the limit, invoices are numbered without gaps *)
(* and paid once, and the service with all its concurrent requests         *)
(* implements CreditContract.                                              *)
(*                                                                         *)
(* The argument: a handler that is past its lock is the only one on its    *)
(* line, so what it read is still what is stored when it commits; and an   *)
(* order has at most one entry of each type, each for its whole amount.    *)
(***************************************************************************)
EXTENDS BillingCredit, FiniteSetTheorems, TLAPS

ContractStep == [Contract!ContractNext]_(Contract!contractVars)

LEMMA TargetType ==
  ASSUME NEW c \in Call
  PROVE  /\ Target[c] \in Order /\ line(c) \in Line /\ line(c) # Sequence
         /\ ReferenceOf[c] \in Reference /\ Amount[Target[c]] \in Nat
         /\ Target[c] # NoOrder /\ Operation[c] \in Op
BY CreditAssumption DEF line

LEMMA NoSnapshotType == NoSnapshot \in Snapshot /\ NoEntries \in Entries
BY DEF Snapshot, NoSnapshot, NoEntries, Entries, InvoiceStatus

(* The exposure of a line is a natural number.                             *)
LEMMA CommittedType ==
  ASSUME FiniteExposure, NEW l \in Line
  PROVE  committedExposure(l) \in Nat
BY FS_CardinalityType DEF FiniteExposure, committedExposure

(* ... and depends on the entries of its own orders only.                  *)
LEMMA OtherLines ==
  ASSUME NEW l, \A o \in Order : LineOf[o] = l => ledger'[o] = ledger[o]
  PROVE  tiedUp(l)' = tiedUp(l) /\ committedExposure(l)' = committedExposure(l)
<1>1. tiedUp(l)' = tiedUp(l)
  BY DEF tiedUp, exposure
<1> QED
  BY <1>1 DEF committedExposure

-----------------------------------------------------------------------------
(* The handlers' part of the invariant.                                    *)

(* Two handlers past their locks are on different lines.                   *)
LEMMA WorkingAlone ==
  ASSUME LocksExclude, NEW c \in Call, NEW d \in Call, c # d, working(c), working(d)
  PROVE  line(c) # line(d) /\ Target[c] # Target[d]
<1>1. line(c) \in locks[c] /\ line(d) \in locks[d]
  BY DEF LocksExclude, working
<1>2. line(c) # line(d)
  BY <1>1 DEF LocksExclude
<1> QED
  BY <1>2 DEF line

(* What a handler on one line writes leaves the others' snapshots fresh    *)
(* and their answers right.                                                *)
LEMMA FinishKeeps ==
  ASSUME CreditInv, NEW c \in Call, NEW r \in Reply, finish(c, r),
         UNCHANGED billingVars \/ working(c),
         \A o \in Order : o # Target[c] => ledger'[o] = ledger[o] /\ invoice'[o] = invoice[o],
         \A o \in Order : invoice[o] # "none" => invoice'[o] # "none",
         \A q \in Reference : payment[q] # NoOrder => payment'[q] = payment[q],
         \A q \in Reference : \/ payment'[q] = payment[q]
                              \/ payment'[q] = Target[c] /\ q \in locks[c],
         r \in {"accepted", "duplicate"} => payment'[ReferenceOf[c]] = Target[c],
         r = "conflict" => payment'[ReferenceOf[c]] \notin {NoOrder, Target[c]}
  PROVE  HandlersInv'
<1> USE DEF CreditInv
<1>1. /\ stage' = [stage EXCEPT ![c] = "done"]
      /\ reply' = [reply EXCEPT ![c] = r]
      /\ locks' = [locks EXCEPT ![c] = {}]
      /\ snapshot' = [snapshot EXCEPT ![c] = NoSnapshot]
      /\ UNCHANGED attempts
  BY DEF finish
<1>2. /\ stage \in [Call -> Stage] /\ reply \in [Call -> Reply]
      /\ locks \in [Call -> SUBSET (Line \union {Sequence} \union Reference)]
      /\ snapshot \in [Call -> Snapshot]
  BY DEF TypeOK
<1>3. ~working(c)' /\ \A d \in Call : d # c => /\ working(d)' = working(d)
                                               /\ stage'[d] = stage[d] /\ locks'[d] = locks[d]
                                               /\ snapshot'[d] = snapshot[d]
  BY <1>1, <1>2 DEF working
<1>4. LocksExclude'
  <2>1. locks'[c] = {} /\ stage'[c] = "done"
    BY <1>1, <1>2
  <2>2. \A d \in Call : /\ stage'[d] = "loaded" => locks'[d] = {line(d)}
                        /\ stage'[d] = "numbered" => locks'[d] = {line(d), Sequence}
                        /\ stage'[d] = "recorded" => locks'[d] = {line(d), ReferenceOf[d]}
                        /\ ~working(d)' => locks'[d] = {}
    BY <1>3, <2>1 DEF LocksExclude, HandlersInv
  <2>3. \A d, e \in Call : d # e => locks'[d] \intersect locks'[e] = {}
    BY <1>3, <2>1 DEF LocksExclude, HandlersInv
  <2> QED
    BY <2>2, <2>3 DEF LocksExclude, line
<1>5. SnapshotIsFresh'
  <2> SUFFICES ASSUME NEW d \in Call, d # c, working(d)
               PROVE  line(d) \in Known /\ snapshot[d] = readUnderLock(d)'
    BY <1>3 DEF SnapshotIsFresh, line
  <2>1. line(d) \in Known /\ snapshot[d] = readUnderLock(d)
    BY DEF SnapshotIsFresh, HandlersInv
  <2>2. CASE UNCHANGED billingVars
    BY <2>1, <2>2 DEF billingVars, readUnderLock, committedExposure, tiedUp, exposure, line
  <2>3. CASE working(c)
    <3>1. line(c) # line(d) /\ Target[c] # Target[d]
      BY <2>3, WorkingAlone DEF HandlersInv
    <3>2. committedExposure(line(d))' = committedExposure(line(d))
      <4>1. \A o \in Order : LineOf[o] = line(d) => ledger'[o] = ledger[o]
        BY <3>1 DEF line
      <4>2. line(d)' = line(d)
        BY DEF line
      <4> QED
        BY <4>1, <4>2, OtherLines DEF committedExposure, tiedUp, exposure
    <3>3. {q \in Reference : payment'[q] = Target[d]} = {q \in Reference : payment[q] = Target[d]}
      BY <3>1, TargetType
    <3>4. ledger'[Target[d]] = ledger[Target[d]] /\ invoice'[Target[d]] = invoice[Target[d]]
      BY <3>1, TargetType
    <3> QED
      BY <2>1, <3>2, <3>3, <3>4 DEF readUnderLock
  <2> QED
    BY <2>2, <2>3
<1>6. RequestInv'
  <2>1. ASSUME NEW d \in Call, d # c, stage[d] = "recorded"
        PROVE  ~referenceTaken(d)'
    <3>1. ReferenceOf[d] \in locks[d] /\ locks[c] \intersect locks[d] = {}
      BY <2>1 DEF HandlersInv, LocksExclude
    <3>2. payment'[ReferenceOf[d]] = payment[ReferenceOf[d]]
      BY <3>1, TargetType
    <3> QED
      BY <2>1, <3>2 DEF HandlersInv, RequestInv, referenceTaken
  <2>2. stage'[c] = "done"
    BY <1>1, <1>2
  <2> QED
    BY <1>1, <1>3, <2>1, <2>2, TargetType
       DEF RequestInv, HandlersInv, issuable, payable, fits, InTransaction
<1>7. RemittanceAnswers'
  <2> SUFFICES ASSUME NEW d \in Call
               PROVE  /\ reply'[d] \in {"accepted", "duplicate"} => payment'[ReferenceOf[d]] = Target[d]
                      /\ reply'[d] = "conflict" => payment'[ReferenceOf[d]] \notin {NoOrder, Target[d]}
    BY DEF RemittanceAnswers
  <2>1. CASE d = c
    BY <1>1, <1>2, <2>1
  <2>2. CASE d # c
    <3>1. reply'[d] = reply[d]
      BY <1>1, <1>2, <2>2
    <3> QED
      BY <3>1, TargetType DEF RemittanceAnswers, HandlersInv
  <2> QED
    BY <2>1, <2>2
<1> QED
  BY <1>4, <1>5, <1>6, <1>7 DEF HandlersInv

-----------------------------------------------------------------------------
(* Steps that write nothing.                                               *)

LEMMA BooksUnchanged ==
  ASSUME BooksInv, UNCHANGED billingVars
  PROVE  BooksInv' /\ ContractStep
<1>1. \A l : tiedUp(l)' = tiedUp(l) /\ committedExposure(l)' = committedExposure(l)
  BY OtherLines DEF billingVars
<1>2. LedgerInv' /\ OnePaymentEach' /\ NumbersGapFree'
  BY DEF BooksInv, billingVars, LedgerInv, OnePaymentEach, NumbersGapFree, Invoiced
<1>3. FiniteExposure' /\ WithinLimit'
  BY <1>1 DEF BooksInv, FiniteExposure, WithinLimit
<1>4. ContractStep
  BY DEF ContractStep, Contract!contractVars, billingVars, holdOf
<1> QED
  BY <1>2, <1>3, <1>4 DEF BooksInv

LEMMA FinishType ==
  ASSUME TypeOK, NEW c \in Call, NEW r \in Reply, finish(c, r)
  PROVE  /\ stage' \in [Call -> Stage]
         /\ locks' \in [Call -> SUBSET (Line \union {Sequence} \union Reference)]
         /\ snapshot' \in [Call -> Snapshot]
         /\ attempts' \in [Call -> 0 .. MaxAttempts]
         /\ reply' \in [Call -> Reply]
BY NoSnapshotType DEF TypeOK, finish, Stage

(* A handler that answers without having written anything.                 *)
LEMMA RollBackKeeps ==
  ASSUME CreditInv, NEW c \in Call, NEW r \in Reply, finish(c, r), UNCHANGED billingVars,
         r \in {"accepted", "duplicate"} => payment[ReferenceOf[c]] = Target[c],
         r = "conflict" => payment[ReferenceOf[c]] \notin {NoOrder, Target[c]}
  PROVE  CreditInv' /\ ContractStep
<1>1. BooksInv' /\ ContractStep
  BY BooksUnchanged DEF CreditInv
<1>2. HandlersInv'
  BY FinishKeeps DEF billingVars
<1>3. TypeOK'
  BY FinishType DEF CreditInv, TypeOK, billingVars
<1> QED
  BY <1>1, <1>2, <1>3 DEF CreditInv

(* A handler that goes on without having anything locked.                  *)
LEMMA WaitKeeps ==
  ASSUME CreditInv, NEW c \in Call, NEW to \in {"resolving", "locking"}, NEW n \in 0 .. MaxAttempts,
         stage' = [stage EXCEPT ![c] = to], UNCHANGED <<billingVars, reply>>,
         locks' = [locks EXCEPT ![c] = {}], attempts' = [attempts EXCEPT ![c] = n],
         snapshot' = [snapshot EXCEPT ![c] = NoSnapshot] \/ UNCHANGED snapshot,
         to = "resolving" => Operation[c] = "pay" /\ n = 0,
         to = "locking" /\ Operation[c] = "pay" => invoice[Target[c]] # "none"
  PROVE  CreditInv' /\ ContractStep
<1> USE DEF CreditInv
<1>1. BooksInv' /\ ContractStep
  BY BooksUnchanged
<1>2. TypeOK'
  BY NoSnapshotType DEF TypeOK, billingVars, Stage
<1>3. ~working(c)' /\ \A d \in Call : d # c => /\ working(d)' = working(d)
                                               /\ stage'[d] = stage[d] /\ locks'[d] = locks[d]
                                               /\ snapshot'[d] = snapshot[d]
                                               /\ attempts'[d] = attempts[d]
  BY DEF TypeOK, working
<1>4. stage'[c] = to /\ locks'[c] = {} /\ attempts'[c] = n
  BY DEF TypeOK
<1>5. LocksExclude'
  BY <1>3, <1>4 DEF LocksExclude, HandlersInv, line
<1>6. SnapshotIsFresh'
  BY <1>3 DEF SnapshotIsFresh, HandlersInv, readUnderLock, committedExposure, tiedUp, exposure,
              billingVars, line
<1>7. RequestInv'
  BY <1>3, <1>4
     DEF RequestInv, HandlersInv, issuable, payable, fits, referenceTaken, InTransaction, billingVars
<1>8. RemittanceAnswers'
  BY DEF RemittanceAnswers, HandlersInv, billingVars
<1> QED
  BY <1>1, <1>2, <1>5, <1>6, <1>7, <1>8 DEF HandlersInv

LEMMA BeginKeeps ==
  ASSUME CreditInv, NEW c \in Call, NEW from \in {"idle", "resolving"}, beginTransaction(c, from),
         Operation[c] = "pay" => invoice[Target[c]] # "none"
  PROVE  CreditInv' /\ ContractStep
<1>1. locks' = [locks EXCEPT ![c] = {}]
  <2>1. locks[c] = {}
    BY DEF beginTransaction, go, CreditInv, HandlersInv, LocksExclude, working
  <2> QED
    BY <2>1 DEF beginTransaction, CreditInv, TypeOK
<1>2. attempts[c] + 1 \in 0 .. MaxAttempts
  <2>1. attempts[c] = 0
    BY DEF beginTransaction, go, CreditInv, HandlersInv, RequestInv
  <2> QED
    BY <2>1, CreditAssumption
<1>3. stage' = [stage EXCEPT ![c] = "locking"] /\ attempts' = [attempts EXCEPT ![c] = attempts[c] + 1]
  BY DEF beginTransaction, go
<1> QED
  BY <1>1, <1>2, <1>3, WaitKeeps DEF beginTransaction

(* A recorded reference is answered according to the invoice it paid.      *)
LEMMA PaidBeforeAnswers ==
  ASSUME NEW c \in Call, payment[ReferenceOf[c]] # NoOrder
  PROVE  /\ paidBefore(c) \in Reply
         /\ paidBefore(c) \in {"accepted", "duplicate"} => payment[ReferenceOf[c]] = Target[c]
         /\ paidBefore(c) = "conflict" => payment[ReferenceOf[c]] \notin {NoOrder, Target[c]}
BY DEF paidBefore, Reply

LEMMA StartKeeps ==
  ASSUME CreditInv, NEW c \in Call, Start(c)
  PROVE  CreditInv' /\ ContractStep
<1>1. CASE Operation[c] \in {"hold", "release"}
  <2>1. beginTransaction(c, "idle")
    BY <1>1 DEF Start
  <2> QED
    BY <1>1, <2>1, BeginKeeps
<1>2. CASE Operation[c] = "issue"
  <2>1. rollBack(c, "existing") \/ beginTransaction(c, "idle")
    BY <1>2 DEF Start
  <2> QED
    BY <1>2, <2>1, BeginKeeps, RollBackKeeps DEF rollBack, Reply
<1>3. CASE Operation[c] = "pay"
  <2>1. \/ payment[ReferenceOf[c]] # NoOrder /\ rollBack(c, paidBefore(c))
        \/ go(c, "idle", "resolving") /\ UNCHANGED <<billingVars, locks, snapshot, attempts, reply>>
    BY <1>3 DEF Start
  <2>2. CASE payment[ReferenceOf[c]] # NoOrder /\ rollBack(c, paidBefore(c))
    BY <2>2, PaidBeforeAnswers, RollBackKeeps DEF rollBack
  <2>3. CASE go(c, "idle", "resolving") /\ UNCHANGED <<billingVars, locks, snapshot, attempts, reply>>
    <3>1. locks[c] = {} /\ attempts[c] = 0 /\ stage' = [stage EXCEPT ![c] = "resolving"]
      BY <2>3 DEF go, CreditInv, HandlersInv, LocksExclude, RequestInv, working
    <3>2. locks' = [locks EXCEPT ![c] = {}] /\ attempts' = [attempts EXCEPT ![c] = 0]
      BY <2>3, <3>1 DEF CreditInv, TypeOK
    <3>3. 0 \in 0 .. MaxAttempts
      BY CreditAssumption
    <3> QED
      BY <1>3, <2>3, <3>1, <3>2, <3>3, WaitKeeps
  <2> QED
    BY <2>1, <2>2, <2>3
<1> QED
  BY <1>1, <1>2, <1>3, TargetType DEF Op

LEMMA ResolveKeeps ==
  ASSUME CreditInv, NEW c \in Call, Resolve(c)
  PROVE  CreditInv' /\ ContractStep
<1>1. CASE invoice[Target[c]] = "none"
  BY <1>1, RollBackKeeps DEF Resolve, rollBack, Reply
<1>2. CASE invoice[Target[c]] # "none"
  BY <1>2, BeginKeeps DEF Resolve
<1> QED
  BY <1>1, <1>2

LEMMA RefusalsKeep ==
  ASSUME CreditInv, NEW c \in Call, NoLine(c) \/ RefuseIssue(c) \/ Fail(c)
  PROVE  CreditInv' /\ ContractStep
<1>1. PICK r \in {"error", "existing"} : rollBack(c, r)
  BY DEF NoLine, RefuseIssue, Fail
<1> QED
  BY <1>1, RollBackKeeps DEF rollBack, Reply

LEMMA RetryKeeps ==
  ASSUME CreditInv, NEW c \in Call, Retry(c)
  PROVE  CreditInv' /\ ContractStep
<1>1. attempts[c] + 1 \in 0 .. MaxAttempts
  BY CreditAssumption DEF Retry, CreditInv, TypeOK
<1>2. Operation[c] = "pay" => invoice[Target[c]] # "none"
  BY DEF Retry, CreditInv, HandlersInv, RequestInv
<1>3. /\ stage' = [stage EXCEPT ![c] = "locking"] /\ locks' = [locks EXCEPT ![c] = {}]
      /\ snapshot' = [snapshot EXCEPT ![c] = NoSnapshot]
      /\ attempts' = [attempts EXCEPT ![c] = attempts[c] + 1]
      /\ UNCHANGED <<billingVars, reply>>
  BY DEF Retry
<1> QED
  BY <1>1, <1>2, <1>3, WaitKeeps

(* The line's lock is only taken when nobody has it, and what is read      *)
(* under it is what is stored.                                             *)
LEMMA LockLineKeeps ==
  ASSUME CreditInv, NEW c \in Call, LockLine(c)
  PROVE  CreditInv' /\ ContractStep
<1> USE DEF CreditInv
<1>1. /\ line(c) \in Known /\ free(line(c)) /\ stage[c] = "locking"
      /\ stage' = [stage EXCEPT ![c] = "loaded"]
      /\ locks' = [locks EXCEPT ![c] = {line(c)}]
      /\ snapshot' = [snapshot EXCEPT ![c] = readUnderLock(c)]
      /\ UNCHANGED <<billingVars, attempts, reply>>
  BY DEF LockLine, go
<1>2. BooksInv' /\ ContractStep
  BY <1>1, BooksUnchanged
<1>3. readUnderLock(c) \in Snapshot
  <2>1. committedExposure(line(c)) \in Nat
    BY CommittedType, TargetType DEF BooksInv
  <2> QED
    BY <2>1, TargetType DEF readUnderLock, Snapshot, TypeOK
<1>4. TypeOK'
  BY <1>1, <1>3, TargetType DEF TypeOK, billingVars, Stage
<1>5. \A d \in Call : d # c => /\ working(d)' = working(d)
                               /\ stage'[d] = stage[d] /\ locks'[d] = locks[d]
                               /\ snapshot'[d] = snapshot[d]
  BY <1>1 DEF TypeOK, working
<1>6. stage'[c] = "loaded" /\ locks'[c] = {line(c)} /\ snapshot'[c] = readUnderLock(c)
  BY <1>1 DEF TypeOK
<1>7. LocksExclude'
  <2>1. \A d \in Call : /\ stage'[d] = "loaded" => locks'[d] = {line(d)}
                        /\ stage'[d] = "numbered" => locks'[d] = {line(d), Sequence}
                        /\ stage'[d] = "recorded" => locks'[d] = {line(d), ReferenceOf[d]}
                        /\ ~working(d)' => locks'[d] = {}
    BY <1>5, <1>6 DEF LocksExclude, HandlersInv, working
  <2>2. \A d \in Call : line(c) \notin locks[d]
    BY <1>1 DEF free
  <2>3. \A d, e \in Call : d # e => locks'[d] \intersect locks'[e] = {}
    BY <1>5, <1>6, <2>2 DEF LocksExclude, HandlersInv
  <2> QED
    BY <2>1, <2>3 DEF LocksExclude, line
<1>8. SnapshotIsFresh'
  <2>1. \A d \in Call : readUnderLock(d)' = readUnderLock(d)
    BY <1>1 DEF readUnderLock, committedExposure, tiedUp, exposure, billingVars, line
  <2>2. \A d \in Call : d # c /\ working(d)' => line(d) \in Known /\ snapshot'[d] = readUnderLock(d)
    BY <1>5 DEF SnapshotIsFresh, HandlersInv
  <2> QED
    BY <1>1, <1>6, <2>1, <2>2 DEF SnapshotIsFresh, line
<1>9. RequestInv'
  BY <1>1, <1>5, <1>6
     DEF RequestInv, HandlersInv, issuable, payable, fits, referenceTaken, InTransaction, billingVars
<1>10. RemittanceAnswers'
  BY <1>1 DEF RemittanceAnswers, HandlersInv, billingVars
<1> QED
  BY <1>2, <1>4, <1>7, <1>8, <1>9, <1>10 DEF HandlersInv

LEMMA LockSequenceKeeps ==
  ASSUME CreditInv, NEW c \in Call, LockSequence(c)
  PROVE  CreditInv' /\ ContractStep
<1> USE DEF CreditInv
<1>1. /\ Operation[c] = "issue" /\ issuable(c) /\ free(Sequence) /\ stage[c] = "loaded"
      /\ stage' = [stage EXCEPT ![c] = "numbered"]
      /\ locks' = [locks EXCEPT ![c] = locks[c] \union {Sequence}]
      /\ UNCHANGED <<billingVars, snapshot, attempts, reply>>
  BY DEF LockSequence, go
<1>2. BooksInv' /\ ContractStep
  BY <1>1, BooksUnchanged
<1>3. TypeOK'
  BY <1>1 DEF TypeOK, billingVars, Stage
<1>4. \A d \in Call : d # c => stage'[d] = stage[d] /\ locks'[d] = locks[d]
  BY <1>1 DEF TypeOK
<1>5. stage'[c] = "numbered" /\ locks[c] = {line(c)} /\ locks'[c] = {line(c), Sequence}
  <2>1. locks[c] = {line(c)}
    BY <1>1 DEF HandlersInv, LocksExclude
  <2> QED
    BY <1>1, <2>1 DEF TypeOK
<1>6. LocksExclude'
  <2>1. \A d \in Call : /\ stage'[d] = "loaded" => locks'[d] = {line(d)}
                        /\ stage'[d] = "numbered" => locks'[d] = {line(d), Sequence}
                        /\ stage'[d] = "recorded" => locks'[d] = {line(d), ReferenceOf[d]}
                        /\ ~working(d)' => locks'[d] = {}
    BY <1>4, <1>5 DEF LocksExclude, HandlersInv, working
  <2>2. \A d \in Call : Sequence \notin locks[d]
    BY <1>1 DEF free
  <2>3. \A d, e \in Call : d # e => locks'[d] \intersect locks'[e] = {}
    BY <1>4, <1>5, <2>2 DEF LocksExclude, HandlersInv
  <2> QED
    BY <2>1, <2>3 DEF LocksExclude, line
<1>7. SnapshotIsFresh'
  <2>1. \A d \in Call : readUnderLock(d)' = readUnderLock(d)
    BY <1>1 DEF readUnderLock, committedExposure, tiedUp, exposure, billingVars, line
  <2>2. \A d \in Call : working(d)' => working(d)
    BY <1>1, <1>4 DEF working
  <2> QED
    BY <1>1, <2>1, <2>2 DEF SnapshotIsFresh, HandlersInv, line
<1>8. RequestInv'
  BY <1>1, <1>4, <1>5
     DEF RequestInv, HandlersInv, issuable, payable, fits, referenceTaken, InTransaction, billingVars
<1>9. RemittanceAnswers'
  BY <1>1 DEF RemittanceAnswers, HandlersInv, billingVars
<1> QED
  BY <1>2, <1>3, <1>6, <1>7, <1>8, <1>9 DEF HandlersInv

(* A payment's row inserted under its reference's key.                     *)
LOCAL InsertPayment(c) ==
  /\ stage[c] = "loaded" /\ Operation[c] = "pay" /\ payable(c)
  /\ free(ReferenceOf[c])
  /\ ~referenceTaken(c)
  /\ go(c, "loaded", "recorded")
  /\ locks' = [locks EXCEPT ![c] = @ \union {ReferenceOf[c]}]
  /\ UNCHANGED <<billingVars, snapshot, attempts, reply>>

LEMMA RecordPaymentKeeps ==
  ASSUME CreditInv, NEW c \in Call, InsertPayment(c)
  PROVE  CreditInv' /\ ContractStep
<1> USE DEF CreditInv
<1>1. /\ Operation[c] = "pay" /\ payable(c) /\ free(ReferenceOf[c]) /\ stage[c] = "loaded"
      /\ ~referenceTaken(c)
      /\ stage' = [stage EXCEPT ![c] = "recorded"]
      /\ locks' = [locks EXCEPT ![c] = locks[c] \union {ReferenceOf[c]}]
      /\ UNCHANGED <<billingVars, snapshot, attempts, reply>>
  BY DEF InsertPayment, go
<1>2. BooksInv' /\ ContractStep
  BY <1>1, BooksUnchanged
<1>3. TypeOK'
  BY <1>1, TargetType DEF TypeOK, billingVars, Stage
<1>4. \A d \in Call : d # c => stage'[d] = stage[d] /\ locks'[d] = locks[d]
  BY <1>1 DEF TypeOK
<1>5. stage'[c] = "recorded" /\ locks[c] = {line(c)} /\ locks'[c] = {line(c), ReferenceOf[c]}
  <2>1. locks[c] = {line(c)}
    BY <1>1 DEF HandlersInv, LocksExclude
  <2> QED
    BY <1>1, <2>1 DEF TypeOK
<1>6. LocksExclude'
  <2>1. \A d \in Call : /\ stage'[d] = "loaded" => locks'[d] = {line(d)}
                        /\ stage'[d] = "numbered" => locks'[d] = {line(d), Sequence}
                        /\ stage'[d] = "recorded" => locks'[d] = {line(d), ReferenceOf[d]}
                        /\ ~working(d)' => locks'[d] = {}
    BY <1>4, <1>5 DEF LocksExclude, HandlersInv, working
  <2>2. \A d \in Call : ReferenceOf[c] \notin locks[d]
    BY <1>1 DEF free
  <2>3. \A d, e \in Call : d # e => locks'[d] \intersect locks'[e] = {}
    BY <1>4, <1>5, <2>2 DEF LocksExclude, HandlersInv
  <2> QED
    BY <2>1, <2>3 DEF LocksExclude, line
<1>7. SnapshotIsFresh'
  <2>1. \A d \in Call : readUnderLock(d)' = readUnderLock(d)
    BY <1>1 DEF readUnderLock, committedExposure, tiedUp, exposure, billingVars, line
  <2>2. \A d \in Call : working(d)' => working(d)
    BY <1>1, <1>4 DEF working
  <2> QED
    BY <1>1, <2>1, <2>2 DEF SnapshotIsFresh, HandlersInv, line
<1>8. RequestInv'
  BY <1>1, <1>4, <1>5
     DEF RequestInv, HandlersInv, issuable, payable, fits, referenceTaken, InTransaction, billingVars
<1>9. RemittanceAnswers'
  BY <1>1 DEF RemittanceAnswers, HandlersInv, billingVars
<1> QED
  BY <1>2, <1>3, <1>6, <1>7, <1>8, <1>9 DEF HandlersInv

-----------------------------------------------------------------------------
(* What a new entry does to the line's exposure.                           *)

LEMMA TiedUpMember ==
  ASSUME NEW l, NEW x
  PROVE  x \in tiedUp(l) <=> \E o \in Order : LineOf[o] = l /\ x \in {o} \X (1 .. exposure(ledger[o]))
BY DEF tiedUp

LEMMA TiedUpMemberNext ==
  ASSUME NEW l, NEW x
  PROVE  x \in tiedUp(l)' <=> \E o \in Order : LineOf[o] = l /\ x \in {o} \X (1 .. exposure(ledger[o])')
BY DEF tiedUp

(* A first hold adds its amount ...                                        *)
LEMMA ExposureGrows ==
  ASSUME NEW t \in Order, NEW amount \in Nat, IsFiniteSet(tiedUp(LineOf[t])),
         exposure(ledger[t]) = 0, exposure(ledger[t])' = amount,
         \A o \in Order : o # t => ledger'[o] = ledger[o]
  PROVE  /\ IsFiniteSet(tiedUp(LineOf[t])')
         /\ committedExposure(LineOf[t])' = committedExposure(LineOf[t]) + amount
<1> DEFINE l == LineOf[t]
           new == {t} \X (1 .. amount)
<1>1. tiedUp(l)' = tiedUp(l) \union new
  <2>1. \A o \in Order : o # t => exposure(ledger[o])' = exposure(ledger[o])
    BY DEF exposure
  <2>2. ASSUME NEW x PROVE x \in tiedUp(l)' <=> x \in tiedUp(l) \/ x \in new
    <3>1. {t} \X (1 .. exposure(ledger[t])) = {}
      OBVIOUS
    <3> QED
      BY <2>1, <3>1, TiedUpMember, TiedUpMemberNext
  <2> QED
    BY <2>2
<1>2. tiedUp(l) \intersect new = {}
  <2> SUFFICES ASSUME NEW x \in tiedUp(l), x \in new PROVE FALSE
    OBVIOUS
  <2>1. PICK o \in Order : x \in {o} \X (1 .. exposure(ledger[o]))
    BY TiedUpMember
  <2>2. o = t
    BY <2>1
  <2> QED
    BY <2>1, <2>2
<1>3. IsFiniteSet(new) /\ Cardinality(new) = amount
  <2>1. IsFiniteSet({t}) /\ Cardinality({t}) = 1
    BY FS_Singleton
  <2>2. IsFiniteSet(1 .. amount) /\ Cardinality(1 .. amount) = amount
    BY FS_Interval
  <2>3. IsFiniteSet(new) /\ Cardinality(new) = Cardinality({t}) * Cardinality(1 .. amount)
    BY <2>1, <2>2, FS_Product, Zenon
  <2> QED
    BY <2>1, <2>2, <2>3
<1>4. IsFiniteSet(tiedUp(l) \union new)
      /\ Cardinality(tiedUp(l) \union new) =
           Cardinality(tiedUp(l)) + Cardinality(new) - Cardinality(tiedUp(l) \intersect new)
  BY <1>3, FS_Union
<1>5. Cardinality(tiedUp(l)) \in Nat /\ Cardinality(tiedUp(l) \intersect new) = 0
  BY <1>2, FS_CardinalityType, FS_EmptySet
<1> QED
  BY <1>1, <1>3, <1>4, <1>5 DEF committedExposure

(* ... and no other entry adds anything.                                   *)
LEMMA ExposureShrinks ==
  ASSUME NEW t \in Order, NEW l, IsFiniteSet(tiedUp(l)),
         exposure(ledger[t])' \in {0, exposure(ledger[t])},
         \A o \in Order : o # t => ledger'[o] = ledger[o]
  PROVE  IsFiniteSet(tiedUp(l)') /\ committedExposure(l)' <= committedExposure(l)
<1>1. tiedUp(l)' \subseteq tiedUp(l)
  <2> SUFFICES ASSUME NEW x \in tiedUp(l)' PROVE x \in tiedUp(l)
    OBVIOUS
  <2>1. PICK o \in Order : LineOf[o] = l /\ x \in {o} \X (1 .. exposure(ledger[o])')
    BY TiedUpMemberNext
  <2>2. exposure(ledger[o])' = exposure(ledger[o])
    <3>1. CASE o = t
      BY <2>1, <3>1
    <3>2. CASE o # t
      BY <3>2 DEF exposure
    <3> QED
      BY <3>1, <3>2
  <2> QED
    BY <2>1, <2>2, TiedUpMember
<1> QED
  BY <1>1, FS_Subset DEF committedExposure

-----------------------------------------------------------------------------
(* The commits.                                                            *)

(* What an order's entries amount to, when the invariant holds of them.    *)
LEMMA EntriesMean ==
  ASSUME TypeOK, LedgerInv, NEW o \in Order
  PROVE  /\ ledger[o] \in Entries /\ Amount[o] \in Nat
         /\ exposure(ledger[o]) \in {0, ledger[o].hold}
         /\ ledger[o].holds = 0 => exposure(ledger[o]) = 0 /\ holdOf(ledger[o]) = "none"
         /\ exposure(ledger[o]) > 0 => ledger[o].release = 0 /\ ledger[o].holds = 1
                                       /\ holdOf(ledger[o]) = IF ledger[o].consume > 0 THEN "open" ELSE "held"
         /\ ledger[o].consume > 0 /\ exposure(ledger[o]) = 0 => holdOf(ledger[o]) = "released"
         /\ invoice[o] = "issued" => ledger[o].consume > 0
<1>1. ledger[o] \in Entries /\ Amount[o] \in Nat
  BY CreditAssumption DEF TypeOK
<1>2. ledger[o].hold \in Nat /\ ledger[o].release \in Nat /\ ledger[o].consume \in Nat
  BY <1>1 DEF Entries
<1>3. /\ ledger[o].holds \in {0, 1}
      /\ ledger[o].hold = IF ledger[o].holds = 1 THEN Amount[o] ELSE 0
      /\ ledger[o].release \in {0, ledger[o].hold}
      /\ ledger[o].consume \in {0, ledger[o].hold}
      /\ invoice[o] # "none" <=> ledger[o].consume > 0
  BY DEF LedgerInv
<1> QED
  BY <1>1, <1>2, <1>3 DEF exposure, holdOf

(* How a change of one order's entries looks to the contract.              *)
LEMMA HoldMoves ==
  ASSUME NEW t \in Order, NEW to, holdOf(ledger'[t]) = to,
         \A o \in Order : o # t => ledger'[o] = ledger[o]
  PROVE  Contract!moveHold(t, to)
BY DEF Contract!moveHold, holdOf

LEMMA HoldStays ==
  ASSUME \A o \in Order : holdOf(ledger'[o]) = holdOf(ledger[o])
  PROVE  UNCHANGED [o \in Order |-> holdOf(ledger[o])]
OBVIOUS

LEMMA PublishType ==
  ASSUME TypeOK, NEW c \in Call, NEW news \in Seq(Fact), publish(c, news)
  PROVE  facts' \in [Order -> Seq(Fact)] /\ Contract!publish(Target[c], news)
<1>1. facts[Target[c]] \o news \in Seq(Fact)
  BY TargetType DEF TypeOK
<1> QED
  BY <1>1 DEF publish, Contract!publish, TypeOK

LEMMA FactTypes ==
  /\ \A type \in {"credit.approved", "credit.rejected", "invoice.issued", "payment.received"} :
       fact(type) \in Fact /\ Contract!fact(type) = fact(type)
  /\ \A reason \in {"order_cancelled", "invoice_paid"} :
       releaseFact(reason) \in Fact /\ Contract!releaseFact(reason) = releaseFact(reason)
BY DEF fact, releaseFact, Fact, Contract!fact, Contract!releaseFact

LEMMA NewsType ==
  /\ \A type \in {"credit.approved", "credit.rejected", "invoice.issued", "payment.received"} :
       <<fact(type)>> \in Seq(Fact)
  /\ <<releaseFact("order_cancelled")>> \in Seq(Fact)
  /\ <<fact("payment.received"), releaseFact("invoice_paid")>> \in Seq(Fact)
BY FactTypes

(* What a handler past the line's lock knows.                              *)
LEMMA WorkingKnows ==
  ASSUME CreditInv, NEW c \in Call, working(c)
  PROVE  /\ Target[c] \in Order /\ Target[c] # NoOrder
         /\ line(c) = LineOf[Target[c]] /\ line(c) \in Line /\ line(c) \in Known
         /\ Amount[Target[c]] \in Nat
         /\ snapshot[c].entries = ledger[Target[c]]
         /\ snapshot[c].committed = committedExposure(line(c))
         /\ snapshot[c].invoice = invoice[Target[c]]
         /\ snapshot[c].paidBy = {r \in Reference : payment[r] = Target[c]}
<1>1. line(c) \in Known /\ snapshot[c] = readUnderLock(c)
  BY DEF CreditInv, HandlersInv, SnapshotIsFresh
<1>2. line(c) = LineOf[Target[c]]
  BY DEF line
<1> QED
  BY <1>1, <1>2, TargetType DEF readUnderLock

(* One more entry of a type changes that type's sum only.                  *)
LEMMA HoldAppended ==
  ASSUME TypeOK, NEW c \in Call, NEW n \in Nat, appendHold(c, n)
  PROVE  /\ ledger' \in [Order -> Entries]
         /\ ledger'[Target[c]].hold = ledger[Target[c]].hold + n
         /\ ledger'[Target[c]].holds = ledger[Target[c]].holds + 1
         /\ ledger'[Target[c]].consume = ledger[Target[c]].consume
         /\ ledger'[Target[c]].release = ledger[Target[c]].release
         /\ \A o \in Order : o # Target[c] => ledger'[o] = ledger[o]
BY TargetType, SMTT(60) DEF TypeOK, appendHold, Entries

LEMMA ConsumeAppended ==
  ASSUME TypeOK, NEW c \in Call, NEW n \in Nat, appendConsume(c, n)
  PROVE  /\ ledger' \in [Order -> Entries]
         /\ ledger'[Target[c]].hold = ledger[Target[c]].hold
         /\ ledger'[Target[c]].holds = ledger[Target[c]].holds
         /\ ledger'[Target[c]].consume = ledger[Target[c]].consume + n
         /\ ledger'[Target[c]].release = ledger[Target[c]].release
         /\ \A o \in Order : o # Target[c] => ledger'[o] = ledger[o]
<1> DEFINE t == Target[c]
<1>1. t \in Order /\ ledger \in [Order -> Entries]
  BY TargetType DEF TypeOK
<1>2. ledger' = [ledger EXCEPT ![t].consume = @ + n]
  BY DEF appendConsume
<1> HIDE DEF t
<1>3. /\ ledger' \in [Order -> Entries]
      /\ \A o \in Order : o # t => ledger'[o] = ledger[o]
  BY <1>1, <1>2 DEF Entries
<1>4. /\ ledger'[t].consume = ledger[t].consume + n
      /\ \A f \in {"hold", "holds", "consume", "release"} \ {"consume"} : ledger'[t][f] = ledger[t][f]
  BY <1>1, <1>2 DEF Entries
<1> QED
  BY <1>3, <1>4 DEF t

LEMMA ReleaseAppended ==
  ASSUME TypeOK, NEW c \in Call, NEW n \in Nat, appendRelease(c, n)
  PROVE  /\ ledger' \in [Order -> Entries]
         /\ ledger'[Target[c]].hold = ledger[Target[c]].hold
         /\ ledger'[Target[c]].holds = ledger[Target[c]].holds
         /\ ledger'[Target[c]].consume = ledger[Target[c]].consume
         /\ ledger'[Target[c]].release = ledger[Target[c]].release + n
         /\ \A o \in Order : o # Target[c] => ledger'[o] = ledger[o]
<1> DEFINE t == Target[c]
<1>1. t \in Order /\ ledger \in [Order -> Entries]
  BY TargetType DEF TypeOK
<1>2. ledger' = [ledger EXCEPT ![t].release = @ + n]
  BY DEF appendRelease
<1> HIDE DEF t
<1>3. /\ ledger' \in [Order -> Entries]
      /\ \A o \in Order : o # t => ledger'[o] = ledger[o]
  BY <1>1, <1>2 DEF Entries
<1>4. /\ ledger'[t].release = ledger[t].release + n
      /\ \A f \in {"hold", "holds", "consume", "release"} \ {"release"} : ledger'[t][f] = ledger[t][f]
  BY <1>1, <1>2 DEF Entries
<1> QED
  BY <1>3, <1>4 DEF t

LEMMA HoldKeeps ==
  ASSUME CreditInv, NEW c \in Call, Hold(c)
  PROVE  CreditInv' /\ ContractStep
<1> DEFINE t == Target[c]
           amount == Amount[Target[c]]
<1> USE DEF CreditInv
<1>0. working(c) /\ UNCHANGED <<invoice, number, nextNumber, payment>>
  BY DEF Hold, working
<1>1. /\ t \in Order /\ t # NoOrder /\ line(c) = LineOf[t] /\ line(c) \in Line /\ line(c) \in Known
      /\ amount \in Nat /\ working(c)
      /\ snapshot[c].entries = ledger[t] /\ snapshot[c].committed = committedExposure(line(c))
      /\ UNCHANGED <<invoice, number, nextNumber, payment>>
  BY <1>0, WorkingKnows
<1>6. ~(ledger[t].holds > 0) => ledger[t].holds = 0
  BY <1>1 DEF BooksInv, LedgerInv
<1>2. CASE finish(c, "already_held") /\ UNCHANGED <<ledger, facts>>
  BY <1>1, <1>2, RollBackKeeps DEF Reply, billingVars
<1>3. CASE finish(c, "error") /\ UNCHANGED <<ledger, facts>>
  BY <1>1, <1>3, RollBackKeeps DEF Reply, billingVars
<1>4. CASE /\ ledger[t].holds = 0 /\ finish(c, "rejected") /\ UNCHANGED ledger
           /\ publish(c, <<fact("credit.rejected")>>)
  <2>1. facts' \in [Order -> Seq(Fact)] /\ Contract!publish(t, <<fact("credit.rejected")>>)
    BY <1>4, PublishType, NewsType
  <2>2. HandlersInv'
    BY <1>1, <1>4, FinishKeeps DEF Reply
  <2>3. BooksInv'
    <3>1. \A l : tiedUp(l)' = tiedUp(l) /\ committedExposure(l)' = committedExposure(l)
      BY <1>4, OtherLines
    <3> QED
      BY <1>1, <1>4, <3>1 DEF BooksInv, LedgerInv, FiniteExposure, WithinLimit, OnePaymentEach,
                              NumbersGapFree, Invoiced
  <2>4. TypeOK'
    <3>1. "rejected" \in Reply
      BY DEF Reply
    <3> QED
      BY <1>1, <1>4, <2>1, <3>1, FinishType DEF TypeOK
  <2>5. Contract!Refuse(t)
    <3>1. holdOf(ledger[t]) = "none"
      BY <1>1, <1>4, EntriesMean DEF BooksInv
    <3>2. UNCHANGED [o \in Order |-> holdOf(ledger[o])]
      BY <1>4, HoldStays
    <3> QED
      BY <1>1, <2>1, <3>1, <3>2, FactTypes DEF Contract!Refuse
  <2> QED
    BY <1>1, <2>2, <2>3, <2>4, <2>5 DEF ContractStep, Contract!ContractNext
<1>5. CASE /\ ledger[t].holds = 0 /\ amount <= Limit[line(c)] - committedExposure(line(c))
           /\ finish(c, "approved") /\ appendHold(c, amount)
           /\ publish(c, <<fact("credit.approved")>>)
  <2>1. facts' \in [Order -> Seq(Fact)] /\ Contract!publish(t, <<fact("credit.approved")>>)
    BY <1>5, PublishType, NewsType
  <2>2. /\ ledger[t] \in Entries /\ ledger[t].hold = 0 /\ ledger[t].release = 0 /\ ledger[t].consume = 0
        /\ exposure(ledger[t]) = 0 /\ holdOf(ledger[t]) = "none" /\ invoice[t] = "none"
    <3>1. ledger[t] \in Entries /\ exposure(ledger[t]) = 0 /\ holdOf(ledger[t]) = "none"
      BY <1>1, <1>5, EntriesMean DEF BooksInv
    <3>2. ledger[t].hold = 0 /\ ledger[t].release = 0 /\ ledger[t].consume = 0
      BY <1>1, <1>5 DEF BooksInv, LedgerInv
    <3> QED
      BY <1>1, <3>1, <3>2 DEF BooksInv, LedgerInv
  <2>3. /\ ledger' \in [Order -> Entries]
        /\ ledger'[t].hold = amount /\ ledger'[t].holds = 1
        /\ ledger'[t].release = 0 /\ ledger'[t].consume = 0
        /\ \A o \in Order : o # t => ledger'[o] = ledger[o]
    <3> HIDE DEF amount
    <3> QED
      BY <1>1, <1>5, <2>2, HoldAppended
  <2>4. exposure(ledger[t])' = amount /\ holdOf(ledger'[t]) = "held"
    BY <1>1, <2>3 DEF exposure, holdOf
  <2>5. HandlersInv'
    BY <1>1, <1>5, <2>3, FinishKeeps DEF Reply
  <2>6. TypeOK'
    <3>1. "approved" \in Reply
      BY DEF Reply
    <3> QED
      BY <1>1, <1>5, <2>1, <2>3, <3>1, FinishType DEF TypeOK
  <2>7. LedgerInv'
    BY <1>1, <2>2, <2>3 DEF BooksInv, LedgerInv
  <2>8. FiniteExposure' /\ WithinLimit'
    <3>1. /\ IsFiniteSet(tiedUp(line(c))')
          /\ committedExposure(line(c))' = committedExposure(line(c)) + amount
      BY <1>1, <2>2, <2>3, <2>4, ExposureGrows DEF BooksInv, FiniteExposure
    <3>2. \A l \in Line : l # line(c) =>
            tiedUp(l)' = tiedUp(l) /\ committedExposure(l)' = committedExposure(l)
      BY <1>1, <2>3, OtherLines
    <3>3. committedExposure(line(c)) \in Nat /\ Limit[line(c)] \in Nat /\ Known \subseteq Line
      BY <1>1, CommittedType, CreditAssumption DEF BooksInv
    <3>4. committedExposure(line(c))' <= Limit[line(c)]
      BY <1>1, <1>5, <3>1, <3>3
    <3> QED
      BY <1>1, <3>1, <3>2, <3>3, <3>4 DEF BooksInv, FiniteExposure, WithinLimit, line
  <2>9. OnePaymentEach' /\ NumbersGapFree'
    BY <1>1 DEF BooksInv, OnePaymentEach, NumbersGapFree, Invoiced
  <2>10. Contract!Approve(t)
    BY <1>1, <2>1, <2>2, <2>3, <2>4, HoldMoves, FactTypes DEF Contract!Approve
  <2> QED
    BY <1>1, <2>5, <2>6, <2>7, <2>8, <2>9, <2>10 DEF BooksInv, ContractStep, Contract!ContractNext
<1> QED
  BY <1>1, <1>2, <1>3, <1>4, <1>5, <1>6 DEF Hold, alreadyHeld, holdable, fitsLine

(* Giving back what an order ties up empties it and frees its line.        *)
LEMMA GivenBack ==
  ASSUME CreditInv, NEW c \in Call, exposure(ledger[Target[c]]) > 0,
         appendRelease(c, exposure(ledger[Target[c]]))
  PROVE  /\ ledger' \in [Order -> Entries]
         /\ \A o \in Order : o # Target[c] => ledger'[o] = ledger[o]
         /\ ledger'[Target[c]].release = ledger'[Target[c]].hold
         /\ ledger'[Target[c]].hold = ledger[Target[c]].hold
         /\ ledger'[Target[c]].holds = ledger[Target[c]].holds
         /\ ledger'[Target[c]].consume = ledger[Target[c]].consume
         /\ holdOf(ledger'[Target[c]]) = "released"
         /\ FiniteExposure' /\ WithinLimit'
<1> DEFINE t == Target[c]
           due == exposure(ledger[t])
<1>1. /\ t \in Order /\ ledger[t] \in Entries /\ due \in {0, ledger[t].hold}
      /\ ledger[t].release = 0 /\ ledger[t].holds = 1
  BY TargetType, EntriesMean DEF CreditInv, BooksInv
<1>2. ledger[t].hold \in Nat /\ due = ledger[t].hold /\ due \in Nat /\ due > 0
  BY <1>1 DEF Entries
<1>3. /\ ledger' \in [Order -> Entries]
      /\ ledger'[t].hold = ledger[t].hold /\ ledger'[t].holds = ledger[t].holds
      /\ ledger'[t].consume = ledger[t].consume
      /\ ledger'[t].release = ledger[t].release + due
      /\ \A o \in Order : o # t => ledger'[o] = ledger[o]
  <2> HIDE DEF due
  <2> QED
    BY <1>2, ReleaseAppended DEF CreditInv, due
<1>4. ledger'[t].release = ledger'[t].hold
  BY <1>1, <1>2, <1>3
<1>5. exposure(ledger[t])' = 0 /\ holdOf(ledger'[t]) = "released"
  <2>1. ledger'[t].hold - ledger'[t].release = 0 /\ ledger'[t].release > 0 /\ ledger'[t].holds # 0
    BY <1>1, <1>2, <1>3, <1>4
  <2> QED
    BY <2>1 DEF exposure, holdOf
<1>6. \A l \in Line : IsFiniteSet(tiedUp(l)') /\ committedExposure(l)' <= committedExposure(l)
                      /\ committedExposure(l) \in Nat /\ committedExposure(l)' \in Nat
  <2> SUFFICES ASSUME NEW l \in Line
               PROVE  /\ IsFiniteSet(tiedUp(l)') /\ committedExposure(l)' <= committedExposure(l)
                      /\ committedExposure(l) \in Nat /\ committedExposure(l)' \in Nat
    OBVIOUS
  <2>1. IsFiniteSet(tiedUp(l)) /\ committedExposure(l) \in Nat
    BY CommittedType DEF CreditInv, BooksInv, FiniteExposure
  <2>2. IsFiniteSet(tiedUp(l)') /\ committedExposure(l)' <= committedExposure(l)
    BY <1>1, <1>3, <1>5, <2>1, ExposureShrinks
  <2> QED
    BY <2>1, <2>2, FS_CardinalityType DEF committedExposure
<1>7. FiniteExposure' /\ WithinLimit'
  BY <1>6, CreditAssumption DEF FiniteExposure, WithinLimit, CreditInv, BooksInv
<1> QED
  BY <1>3, <1>4, <1>5, <1>7

LEMMA ReleaseKeeps ==
  ASSUME CreditInv, NEW c \in Call, Release(c)
  PROVE  CreditInv' /\ ContractStep
<1> DEFINE t == Target[c]
           due == exposure(ledger[t])
<1> USE DEF CreditInv
<1>1. working(c) /\ UNCHANGED <<invoice, number, nextNumber, payment>>
  BY DEF Release, working
<1>2. t \in Order /\ snapshot[c].entries = ledger[t]
  BY <1>1, WorkingKnows
<1>3. CASE finish(c, "not_held") /\ UNCHANGED <<ledger, facts>>
  BY <1>1, <1>3, RollBackKeeps DEF Reply, billingVars
<1>4. CASE /\ due > 0 /\ finish(c, "released") /\ appendRelease(c, due)
           /\ publish(c, <<releaseFact("order_cancelled")>>)
  <2>1. facts' \in [Order -> Seq(Fact)] /\ Contract!publish(t, <<releaseFact("order_cancelled")>>)
    BY <1>4, PublishType, NewsType
  <2>2. /\ ledger' \in [Order -> Entries]
        /\ \A o \in Order : o # t => ledger'[o] = ledger[o]
        /\ ledger'[t].release = ledger'[t].hold /\ ledger'[t].hold = ledger[t].hold
        /\ ledger'[t].holds = ledger[t].holds /\ ledger'[t].consume = ledger[t].consume
        /\ holdOf(ledger'[t]) = "released"
        /\ FiniteExposure' /\ WithinLimit'
    BY <1>4, GivenBack
  <2>3. HandlersInv'
    BY <1>1, <1>4, <2>2, FinishKeeps DEF Reply
  <2>4. TypeOK'
    <3>1. "released" \in Reply
      BY DEF Reply
    <3> QED
      BY <1>1, <1>4, <2>1, <2>2, <3>1, FinishType DEF TypeOK
  <2>5. LedgerInv'
    BY <1>1, <1>2, <2>2 DEF BooksInv, LedgerInv
  <2>6. OnePaymentEach' /\ NumbersGapFree'
    BY <1>1 DEF BooksInv, OnePaymentEach, NumbersGapFree, Invoiced
  <2>7. Contract!GiveBack(t)
    <3>1. holdOf(ledger[t]) \in {"held", "open"}
      BY <1>2, <1>4, EntriesMean DEF BooksInv
    <3> QED
      BY <1>1, <1>2, <2>1, <2>2, <3>1, HoldMoves, FactTypes DEF Contract!GiveBack
  <2> QED
    BY <1>2, <2>2, <2>3, <2>4, <2>5, <2>6, <2>7 DEF BooksInv, ContractStep, Contract!ContractNext
<1> QED
  BY <1>2, <1>3, <1>4 DEF Release, outstanding

LEMMA IssueKeeps ==
  ASSUME CreditInv, NEW c \in Call, Issue(c)
  PROVE  CreditInv' /\ ContractStep
<1> DEFINE t == Target[c]
           due == activeHold(ledger[t])
<1> USE DEF CreditInv
<1>1. working(c) /\ issuable(c)
  BY DEF Issue, working, HandlersInv, RequestInv
<1>2. /\ t \in Order /\ snapshot[c].entries = ledger[t] /\ snapshot[c].invoice = invoice[t]
      /\ line(c) \in Known
  BY <1>1, WorkingKnows
<1>3. /\ finish(c, "created") /\ appendConsume(c, due) /\ publish(c, <<fact("invoice.issued")>>)
      /\ invoice' = [invoice EXCEPT ![t] = "issued"]
      /\ number' = [number EXCEPT ![t] = nextNumber] /\ nextNumber' = nextNumber + 1
      /\ UNCHANGED payment
  BY <1>2 DEF Issue
<1>4. /\ invoice[t] = "none" /\ due > 0 /\ ledger[t].consume = 0 /\ exposure(ledger[t]) > 0
      /\ due = ledger[t].hold /\ due \in Nat /\ ledger[t].release = 0 /\ ledger[t].holds = 1
      /\ holdOf(ledger[t]) = "held"
  <2>1. invoice[t] = "none" /\ due > 0
    BY <1>1, <1>2 DEF issuable
  <2>2. /\ ledger[t] \in Entries /\ exposure(ledger[t]) \in {0, ledger[t].hold}
        /\ exposure(ledger[t]) > 0 => ledger[t].release = 0 /\ ledger[t].holds = 1
                                      /\ holdOf(ledger[t]) = IF ledger[t].consume > 0 THEN "open" ELSE "held"
    BY <1>2, EntriesMean DEF BooksInv
  <2>3. ledger[t].consume = 0 /\ ledger[t].hold \in Nat
    BY <1>2, <2>1, <2>2 DEF BooksInv, LedgerInv, Entries
  <2>4. due = exposure(ledger[t])
    BY <2>1, <2>2, <2>3 DEF activeHold
  <2> QED
    BY <2>1, <2>2, <2>3, <2>4
<1>5. /\ ledger' \in [Order -> Entries]
      /\ ledger'[t].hold = ledger[t].hold /\ ledger'[t].holds = ledger[t].holds
      /\ ledger'[t].consume = ledger[t].hold
      /\ ledger'[t].release = 0
      /\ \A o \in Order : o # t => ledger'[o] = ledger[o]
  <2> HIDE DEF due
  <2>1. ledger'[t].consume = ledger[t].consume + due
    BY <1>3, <1>4, ConsumeAppended
  <2> QED
    BY <1>3, <1>4, <2>1, ConsumeAppended
<1>6. exposure(ledger[t])' = exposure(ledger[t]) /\ holdOf(ledger'[t]) = "open"
  BY <1>4, <1>5 DEF exposure, holdOf
<1>7. facts' \in [Order -> Seq(Fact)] /\ Contract!publish(t, <<fact("invoice.issued")>>)
  BY <1>3, PublishType, NewsType
<1>8. /\ invoice' \in [Order -> InvoiceStatus] /\ number' \in [Order -> Nat]
      /\ nextNumber' \in Nat \ {0} /\ invoice'[t] = "issued" /\ number'[t] = nextNumber
      /\ \A o \in Order : o # t => invoice'[o] = invoice[o] /\ number'[o] = number[o]
  BY <1>2, <1>3 DEF TypeOK, InvoiceStatus
<1>9. HandlersInv'
  BY <1>1, <1>3, <1>5, <1>8, FinishKeeps DEF Reply
<1>10. TypeOK'
  <2>1. "created" \in Reply
    BY DEF Reply
  <2> QED
    BY <1>3, <1>5, <1>7, <1>8, <2>1, FinishType DEF TypeOK
<1>11. LedgerInv'
  BY <1>2, <1>4, <1>5, <1>8 DEF BooksInv, LedgerInv
<1>12. FiniteExposure' /\ WithinLimit'
  <2>1. \A l \in Line : IsFiniteSet(tiedUp(l)') /\ committedExposure(l)' <= committedExposure(l)
                        /\ committedExposure(l) \in Nat /\ committedExposure(l)' \in Nat
    <3> SUFFICES ASSUME NEW l \in Line
                 PROVE  /\ IsFiniteSet(tiedUp(l)') /\ committedExposure(l)' <= committedExposure(l)
                        /\ committedExposure(l) \in Nat /\ committedExposure(l)' \in Nat
      OBVIOUS
    <3>1. IsFiniteSet(tiedUp(l)) /\ committedExposure(l) \in Nat
      BY CommittedType DEF BooksInv, FiniteExposure
    <3>2. IsFiniteSet(tiedUp(l)') /\ committedExposure(l)' <= committedExposure(l)
      BY <1>2, <1>5, <1>6, <3>1, ExposureShrinks
    <3> QED
      BY <3>1, <3>2, FS_CardinalityType DEF committedExposure
  <2> QED
    BY <2>1, CreditAssumption DEF FiniteExposure, WithinLimit, BooksInv
<1>13. OnePaymentEach'
  BY <1>2, <1>3, <1>4, <1>8 DEF BooksInv, OnePaymentEach, TypeOK
<1>14. NumbersGapFree'
  <2>1. Invoiced' = Invoiced \union {t} /\ t \notin Invoiced
    BY <1>2, <1>4, <1>8 DEF Invoiced
  <2>2. {number'[o] : o \in Invoiced'} = {number[o] : o \in Invoiced} \union {nextNumber}
    BY <1>2, <1>8, <2>1 DEF Invoiced
  <2>3. {number[o] : o \in Invoiced} = 1 .. (nextNumber - 1) /\ nextNumber \in Nat \ {0}
    BY DEF BooksInv, NumbersGapFree, TypeOK
  <2>4. {number'[o] : o \in Invoiced'} = 1 .. (nextNumber' - 1)
    <3>1. 1 .. (nextNumber' - 1) = (1 .. (nextNumber - 1)) \union {nextNumber}
      BY <1>3, <2>3
    <3> QED
      BY <2>2, <2>3, <3>1, Zenon
  <2>5. \A o \in Invoiced : number[o] # nextNumber /\ number'[o] = number[o]
    BY <1>8, <2>1, <2>3 DEF Invoiced
  <2>6. \A o, p \in Invoiced' : number'[o] = number'[p] => o = p
    BY <1>8, <2>1, <2>5 DEF BooksInv, NumbersGapFree
  <2> QED
    BY <2>4, <2>6 DEF NumbersGapFree
<1>15. Contract!IssueInvoice(t)
  <2>1. Contract!moveHold(t, "open") /\ Contract!moveInvoice(t, "issued")
    BY <1>2, <1>3, <1>5, <1>6, HoldMoves DEF Contract!moveInvoice
  <2> QED
    BY <1>2, <1>4, <1>7, <2>1, FactTypes DEF Contract!IssueInvoice
<1> QED
  BY <1>2, <1>9, <1>10, <1>11, <1>12, <1>13, <1>14, <1>15
     DEF BooksInv, ContractStep, Contract!ContractNext

(* A payment accepted under the locks: the invoice was open and the        *)
(* reference unused, and both stay what they become.                       *)
LEMMA AcceptKeeps ==
  ASSUME CreditInv, NEW c \in Call, working(c), ReferenceOf[c] \in locks[c], finish(c, "accepted"),
         invoice[Target[c]] = "issued", payment[ReferenceOf[c]] = NoOrder,
         invoice' = [invoice EXCEPT ![Target[c]] = "paid"],
         payment' = [payment EXCEPT ![ReferenceOf[c]] = Target[c]],
         UNCHANGED <<number, nextNumber>>,
         \/ /\ exposure(ledger[Target[c]]) > 0 /\ appendRelease(c, exposure(ledger[Target[c]]))
            /\ publish(c, <<fact("payment.received"), releaseFact("invoice_paid")>>)
         \/ /\ exposure(ledger[Target[c]]) = 0 /\ UNCHANGED ledger
            /\ publish(c, <<fact("payment.received")>>)
  PROVE  CreditInv' /\ ContractStep
<1> DEFINE t == Target[c]
           ref == ReferenceOf[c]
           due == exposure(ledger[t])
<1> USE DEF CreditInv
<1>1. t \in Order /\ t # NoOrder /\ ref \in Reference /\ ledger[t].consume > 0
  BY TargetType, EntriesMean DEF BooksInv
<1>2. /\ invoice' \in [Order -> InvoiceStatus] /\ invoice'[t] = "paid"
      /\ \A o \in Order : o # t => invoice'[o] = invoice[o]
      /\ payment' \in [Reference -> Order \union {NoOrder}] /\ payment'[ref] = t
      /\ \A q \in Reference : q # ref => payment'[q] = payment[q]
  BY <1>1 DEF TypeOK, InvoiceStatus
<1>3. /\ ledger' \in [Order -> Entries]
      /\ \A o \in Order : o # t => ledger'[o] = ledger[o]
      /\ ledger'[t].release = ledger'[t].hold /\ ledger'[t].hold = ledger[t].hold
      /\ ledger'[t].holds = ledger[t].holds /\ ledger'[t].consume = ledger[t].consume
      /\ FiniteExposure' /\ WithinLimit'
  <2>1. CASE due > 0 /\ appendRelease(c, due)
    BY <2>1, GivenBack
  <2>2. CASE due = 0 /\ UNCHANGED ledger
    <3>1. ledger[t].release = ledger[t].hold
      <4>1. ledger[t].hold \in Nat /\ ledger[t].release \in Nat
        BY <1>1 DEF TypeOK, Entries
      <4> QED
        BY <2>2, <4>1 DEF exposure
    <3>2. \A l : tiedUp(l)' = tiedUp(l) /\ committedExposure(l)' = committedExposure(l)
      BY <2>2, OtherLines
    <3>3. FiniteExposure' /\ WithinLimit'
      BY <3>2 DEF BooksInv, FiniteExposure, WithinLimit
    <3> QED
      BY <2>2, <3>1, <3>3 DEF TypeOK
  <2> QED
    BY <2>1, <2>2
<1>4. HandlersInv'
  BY <1>1, <1>2, <1>3, FinishKeeps DEF Reply
<1>5. facts' \in [Order -> Seq(Fact)]
  BY PublishType, NewsType
<1>6. TypeOK'
  <2>1. "accepted" \in Reply
    BY DEF Reply
  <2> QED
    BY <1>2, <1>3, <1>5, <2>1, FinishType DEF TypeOK
<1>7. LedgerInv'
  BY <1>1, <1>2, <1>3 DEF BooksInv, LedgerInv
<1>8. OnePaymentEach'
  <2>1. \A q \in Reference : payment[q] # t
    BY <1>1 DEF BooksInv, OnePaymentEach
  <2>2. \A q \in Reference : payment'[q] # NoOrder => invoice'[payment'[q]] = "paid"
    BY <1>1, <1>2 DEF BooksInv, OnePaymentEach, TypeOK
  <2>3. ASSUME NEW o \in Order, invoice'[o] = "paid"
        PROVE  \E r \in Reference : payment'[r] = o /\ \A q \in Reference : payment'[q] = o => q = r
    <3>1. CASE o = t
      BY <1>1, <1>2, <2>1, <3>1
    <3>2. CASE o # t
      <4>1. PICK r \in Reference : payment[r] = o /\ \A q \in Reference : payment[q] = o => q = r
        BY <1>2, <2>3, <3>2 DEF BooksInv, OnePaymentEach
      <4>2. r # ref
        BY <4>1, CreditAssumption
      <4> QED
        BY <1>2, <3>2, <4>1, <4>2
    <3> QED
      BY <3>1, <3>2
  <2> QED
    BY <2>2, <2>3 DEF OnePaymentEach
<1>9. NumbersGapFree'
  <2>1. Invoiced' = Invoiced
    BY <1>1, <1>2 DEF Invoiced
  <2> QED
    BY <2>1 DEF BooksInv, NumbersGapFree
<1>10. Contract!ReceivePayment(t)
  <2>1. Contract!moveInvoice(t, "paid")
    BY DEF Contract!moveInvoice
  <2>2. CASE /\ due > 0 /\ appendRelease(c, due)
             /\ publish(c, <<fact("payment.received"), releaseFact("invoice_paid")>>)
    <3>1. holdOf(ledger[t]) = "open"
      BY <1>1, <2>2, EntriesMean DEF BooksInv
    <3>2. holdOf(ledger'[t]) = "released"
      BY <2>2, GivenBack
    <3>3. Contract!moveHold(t, "released")
      BY <1>1, <1>3, <3>2, HoldMoves
    <3>4. Contract!publish(t, <<fact("payment.received"), releaseFact("invoice_paid")>>)
      BY <2>2, PublishType, NewsType
    <3> QED
      BY <1>1, <2>1, <3>1, <3>3, <3>4, FactTypes DEF Contract!ReceivePayment
  <2>3. CASE due = 0 /\ UNCHANGED ledger /\ publish(c, <<fact("payment.received")>>)
    <3>1. holdOf(ledger[t]) = "released"
      BY <1>1, <2>3, EntriesMean DEF BooksInv
    <3>2. UNCHANGED [o \in Order |-> holdOf(ledger[o])]
      BY <2>3, HoldStays
    <3>3. Contract!publish(t, <<fact("payment.received")>>)
      BY <2>3, PublishType, NewsType
    <3> QED
      BY <1>1, <2>1, <3>1, <3>2, <3>3, FactTypes DEF Contract!ReceivePayment
  <2> QED
    BY <2>2, <2>3
<1> QED
  BY <1>1, <1>3, <1>4, <1>6, <1>7, <1>8, <1>9, <1>10 DEF BooksInv, ContractStep, Contract!ContractNext

LEMMA RefusePayKeeps ==
  ASSUME CreditInv, NEW c \in Call, RefusePay(c)
  PROVE  CreditInv' /\ ContractStep
<1> DEFINE known == snapshot[c].invoice = "paid" /\ ReferenceOf[c] \in snapshot[c].paidBy
<1>1. working(c) /\ rollBack(c, IF known THEN "duplicate" ELSE "error")
  BY DEF RefusePay, working
<1>2. known => payment[ReferenceOf[c]] = Target[c]
  BY <1>1, WorkingKnows
<1> HIDE DEF known
<1>3. CASE known
  BY <1>1, <1>2, <1>3, RollBackKeeps DEF rollBack, Reply
<1>4. CASE ~known
  BY <1>1, <1>4, RollBackKeeps DEF rollBack, Reply
<1> QED
  BY <1>3, <1>4

(* The UNIQUE key lets one payment in; who finds it taken has another      *)
(* invoice's reference, its own being unpaid.                              *)
LEMMA RecordPaymentStep ==
  ASSUME CreditInv, NEW c \in Call, RecordPayment(c)
  PROVE  CreditInv' /\ ContractStep
<1>1. CASE referenceTaken(c) /\ rollBack(c, "conflict")
  <2>1. working(c) /\ payable(c)
    BY DEF RecordPayment, working
  <2>2. invoice[Target[c]] # "paid"
    BY <2>1, WorkingKnows DEF payable
  <2>3. payment[ReferenceOf[c]] \notin {NoOrder, Target[c]}
    BY <1>1, <2>2, TargetType DEF referenceTaken, CreditInv, BooksInv, OnePaymentEach
  <2> QED
    BY <1>1, <2>3, RollBackKeeps DEF rollBack, Reply
<1>2. CASE InsertPayment(c)
  BY <1>2, RecordPaymentKeeps
<1> QED
  BY <1>1, <1>2 DEF RecordPayment, InsertPayment

LEMMA PayKeeps ==
  ASSUME CreditInv, NEW c \in Call, Pay(c)
  PROVE  CreditInv' /\ ContractStep
<1> DEFINE t == Target[c]
           ref == ReferenceOf[c]
<1>1. /\ working(c) /\ ref \in locks[c] /\ payable(c) /\ ~referenceTaken(c)
      /\ Operation[c] = "pay" /\ stage[c] \in InTransaction
  BY DEF Pay, working, InTransaction, CreditInv, HandlersInv, LocksExclude, RequestInv
<1>2. /\ t \in Order /\ ref \in Reference
      /\ snapshot[c].entries = ledger[t] /\ snapshot[c].invoice = invoice[t]
  BY <1>1, WorkingKnows, TargetType
<1>3. invoice[t] = "issued" /\ payment[ref] = NoOrder
  BY <1>1, <1>2 DEF payable, referenceTaken, CreditInv, HandlersInv, RequestInv, TypeOK, InvoiceStatus
<1>4. /\ finish(c, "accepted")
      /\ invoice' = [invoice EXCEPT ![t] = "paid"]
      /\ payment' = [payment EXCEPT ![ref] = t]
      /\ UNCHANGED <<number, nextNumber>>
      /\ \/ /\ exposure(ledger[t]) > 0 /\ appendRelease(c, exposure(ledger[t]))
            /\ publish(c, <<fact("payment.received"), releaseFact("invoice_paid")>>)
         \/ /\ exposure(ledger[t]) = 0 /\ UNCHANGED ledger
            /\ publish(c, <<fact("payment.received")>>)
  BY <1>2 DEF Pay, outstanding
<1> QED
  BY <1>1, <1>3, <1>4, AcceptKeeps

-----------------------------------------------------------------------------
(* The theorems.                                                           *)

(* The invariant holds of empty books.                                     *)
LEMMA InitCredit == Init => CreditInv
<1> SUFFICES ASSUME Init PROVE CreditInv
  OBVIOUS
<1>1. TypeOK
  BY NoSnapshotType, CreditAssumption DEF Init, TypeOK, InvoiceStatus, Stage, Reply
<1>2. \A o \in Order : exposure(ledger[o]) = 0
  BY DEF Init, NoEntries, exposure
<1>3. \A l : tiedUp(l) = {}
  <2> SUFFICES ASSUME NEW l, NEW x \in tiedUp(l) PROVE FALSE
    OBVIOUS
  <2>1. PICK o \in Order : x \in {o} \X (1 .. exposure(ledger[o]))
    BY TiedUpMember
  <2> QED
    BY <1>2, <2>1
<1>4. FiniteExposure /\ WithinLimit
  <2>1. IsFiniteSet({}) /\ Cardinality({}) = 0
    BY FS_EmptySet
  <2>2. \A l : IsFiniteSet(tiedUp(l)) /\ committedExposure(l) = 0
    BY <1>3, <2>1, Zenon DEF committedExposure
  <2>3. \A l \in Known : 0 <= Limit[l]
    BY CreditAssumption
  <2> QED
    BY <2>2, <2>3 DEF FiniteExposure, WithinLimit
<1>5. LedgerInv /\ OnePaymentEach
  BY DEF Init, LedgerInv, NoEntries, OnePaymentEach
<1>6. NumbersGapFree
  <2>1. Invoiced = {}
    BY DEF Init, Invoiced
  <2> QED
    BY <2>1 DEF Init, NumbersGapFree
<1>7. HandlersInv
  BY DEF Init, HandlersInv, LocksExclude, working, SnapshotIsFresh, RequestInv, RemittanceAnswers,
         InTransaction
<1> QED
  BY <1>1, <1>4, <1>5, <1>6, <1>7 DEF CreditInv, BooksInv

LEMMA NextCredit ==
  ASSUME CreditInv, [Next]_vars
  PROVE  CreditInv' /\ ContractStep
<1>1. CASE UNCHANGED vars
  <2>1. BooksInv' /\ ContractStep
    BY <1>1, BooksUnchanged DEF vars, CreditInv
  <2>2. TypeOK' /\ LocksExclude' /\ RequestInv' /\ RemittanceAnswers'
    BY <1>1 DEF vars, billingVars, callVars, CreditInv, HandlersInv, TypeOK, LocksExclude, working, line,
                RequestInv, issuable, payable, fits, referenceTaken, RemittanceAnswers
  <2>3. SnapshotIsFresh'
    BY <1>1 DEF vars, billingVars, callVars, CreditInv, HandlersInv, SnapshotIsFresh, working, line,
                readUnderLock, committedExposure, tiedUp, exposure
  <2> QED
    BY <2>1, <2>2, <2>3 DEF CreditInv, HandlersInv
<1>2. ASSUME NEW c \in Call,
             \/ Start(c) \/ Resolve(c) \/ LockLine(c) \/ NoLine(c)
             \/ Hold(c) \/ Release(c) \/ RefuseIssue(c) \/ LockSequence(c) \/ Issue(c)
             \/ RefusePay(c) \/ RecordPayment(c) \/ Pay(c) \/ Retry(c) \/ Fail(c)
      PROVE  CreditInv' /\ ContractStep
  BY <1>2, StartKeeps, ResolveKeeps, LockLineKeeps, RefusalsKeep, HoldKeeps, ReleaseKeeps,
     LockSequenceKeeps, IssueKeeps, RefusePayKeeps, RecordPaymentStep, PayKeeps, RetryKeeps
<1> QED
  BY <1>1, <1>2 DEF Next

(* The line's lock does its job: handlers on one line exclude each other   *)
(* and commit on fresh reads (buyer-credit.repository.ts, lockForOrder).   *)
THEOREM CreditInvariant == Spec => []CreditInv
<1>1. Init => CreditInv
  BY InitCredit
<1>2. CreditInv /\ [Next]_vars => CreditInv'
  BY NextCredit
<1> QED
  BY <1>1, <1>2, PTL DEF Spec

(* B1: no interleaving of holds, releases, invoices and payments takes a   *)
(* credit line over its limit (buyer-credit.ts, evaluateHold).             *)
THEOREM ExposureWithinLimit == Spec => []WithinLimit
<1>1. CreditInv => WithinLimit
  BY DEF CreditInv, BooksInv
<1> QED
  BY <1>1, CreditInvariant, PTL

(* B5 and R47: credit goes back once and in full                           *)
(* (buyer-credit.ts, releaseHold).                                         *)
THEOREM CreditIsReturnedOnce == Spec => []CreditReturnsOnce
<1>1. CreditInv => CreditReturnsOnce
  <2> SUFFICES ASSUME CreditInv, NEW o \in Order
               PROVE  /\ exposure(ledger[o]) >= 0
                      /\ invoice[o] = "paid" => exposure(ledger[o]) = 0
    BY DEF CreditReturnsOnce
  <2>1. ledger[o].hold \in Nat /\ ledger[o].release \in Nat
    BY DEF CreditInv, TypeOK, Entries
  <2>2. /\ ledger[o].release \in {0, ledger[o].hold}
        /\ invoice[o] = "paid" => ledger[o].release = ledger[o].hold
    BY DEF CreditInv, BooksInv, LedgerInv
  <2> QED
    BY <2>1, <2>2 DEF exposure
<1> QED
  BY <1>1, CreditInvariant, PTL

(* R48: payments and paid invoices correspond one to one                   *)
(* (invoice.repository.ts, markPaid).                                      *)
THEOREM PaymentsMatchInvoices == Spec => []OnePaymentEach
<1>1. CreditInv => OnePaymentEach
  BY DEF CreditInv, BooksInv
<1> QED
  BY <1>1, CreditInvariant, PTL

(* N11: every remittance is told what its reference really paid            *)
(* (payment-register.handler.ts, register).                                *)
THEOREM RemittancesAreAnswered == Spec => []RemittanceAnswers
<1>1. CreditInv => RemittanceAnswers
  BY DEF CreditInv, HandlersInv
<1> QED
  BY <1>1, CreditInvariant, PTL

(* Invoice numbers have neither gaps nor repeats                           *)
(* (invoice-number-allocator.ts, next).                                    *)
THEOREM NumbersHaveNoGaps == Spec => []NumbersGapFree
<1>1. CreditInv => NumbersGapFree
  BY DEF CreditInv, BooksInv
<1> QED
  BY <1>1, CreditInvariant, PTL

(* Ledger entries, invoices, the number counter, handler progress and the  *)
(* remittances keep their types through every race, retry and crash.       *)
THEOREM BillingTypeCorrect == Spec => []TypeOK
<1>1. CreditInv => TypeOK
  BY DEF CreditInv
<1> QED
  BY <1>1, CreditInvariant, PTL

(* The service implements the contract the saga relies on.                 *)
THEOREM BillingImplementsContract == Spec => ImplementsContract
<1>1. Init => Contract!ContractInit
  BY DEF Init, Contract!ContractInit, holdOf, NoEntries
<1>2. CreditInv /\ [Next]_vars => ContractStep
  BY NextCredit
<1> QED
  BY <1>1, <1>2, CreditInvariant, PTL
     DEF Spec, ImplementsContract, Contract!ContractSpec, ContractStep

=============================================================================
