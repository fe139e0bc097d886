--------------------------- MODULE FrontDoorProofs ---------------------------
(***************************************************************************)
(* Proofs about commands from the pages to the services: an order is       *)
(* placed once, an answer tells the truth, and a draft of the place page   *)
(* is charged what the page showed.                                        *)
(***************************************************************************)
EXTENDS FrontDoor, CountingLemmas

(* What an answer's status says of the reply.                              *)
LEMMA AnswerCodes ==
  /\ \A code : classifyRpcError(code).status \in {400, 404, 409, 422, 500, 503}
  /\ \A code : classifyRpcError(code) # NoAnswer
  /\ \A code : classifyRpcError(code).code = "NOT_FOUND" => code = "NOT_FOUND"
  /\ \A code \in {"none", "INTERNAL_ERROR"} : classifyRpcError(code).status = 500
  /\ \A code \in {"TIMEOUT", "UNAVAILABLE", "SCAN_BUDGET_EXCEEDED"} :
       classifyRpcError(code).status = 503
  /\ classifyRpcError("NOT_FOUND").status = 404
<1>1. \A code : classifyRpcError(code).status \in {400, 404, 409, 422, 500, 503}
  BY DEF classifyRpcError
<1>2. \A code : classifyRpcError(code) # NoAnswer
  BY <1>1 DEF NoAnswer
<1>3. \A code : classifyRpcError(code).code = "NOT_FOUND" => code = "NOT_FOUND"
  BY DEF classifyRpcError
<1>4. /\ \A code \in {"none", "INTERNAL_ERROR"} : classifyRpcError(code).status = 500
      /\ \A code \in {"TIMEOUT", "UNAVAILABLE", "SCAN_BUDGET_EXCEEDED"} :
           classifyRpcError(code).status = 503
      /\ classifyRpcError("NOT_FOUND").status = 404
  BY DEF classifyRpcError
<1> QED
  BY <1>1, <1>2, <1>3, <1>4

LEMMA ReplyAnswers ==
  ASSUME NEW reply
  PROVE  /\ answerTo(reply) # NoAnswer
         /\ answerTo(reply).status \in {200, 400, 404, 409, 422, 500, 503}
         /\ answerTo(reply).status = 200 => reply.code = "DONE" /\ answerTo(reply).body = reply.body
         /\ reply.code \in {"none", "DONE", "INTERNAL_ERROR"} => answerTo(reply).status \in {200, 500}
         /\ answerTo(reply).code = "NOT_FOUND" => reply.code = "NOT_FOUND"
<1>1. CASE reply.code = "DONE"
  BY <1>1 DEF answerTo, NoAnswer
<1>2. CASE reply.code # "DONE"
  BY <1>2, AnswerCodes DEF answerTo
<1> QED
  BY <1>1, <1>2

LEMMA UnusedCalls ==
  ASSUME NEW r, validCall(r)
  PROVE  r # Unused /\ r.stage # "unused"
BY DEF validCall, Unused

-----------------------------------------------------------------------------
(* What a step may do to a call.                                           *)

keeps(d) ==
  used(d) =>
    /\ call'[d] # Unused
    /\ call'[d].from = call[d].from /\ call'[d].command = call[d].command
    /\ answered(d) => call'[d].answer = call[d].answer

(* What it may say of an order: that it is there, or no more than before.  *)
replies(d) ==
  \/ call'[d].reply = call[d].reply
  \/ /\ call[d].stage \notin {"replied", "over"}
     /\ about = "placing" /\ call'[d].reply.code = "INTERNAL_ERROR" => d \in excused'
     /\ about = "placing" /\ call'[d].reply.code = "DONE" =>
          /\ call'[d].reply.body \in orders'
          /\ call'[d].reply.body.requestId = call[d].command.requestId

settles(d) ==
  /\ used(d) => replies(d)
  /\ used(d) /\ call[d].stage \in {"replied", "over"} =>
       /\ call'[d].stage \in {"replied", "over"}
       /\ call'[d].answer.status \in 400..499 =>
            rejected(d) \/ call[d].reply.code \notin {"none", "DONE", "INTERNAL_ERROR"}
  /\ ~used(d) /\ call'[d] # Unused => call'[d].reply = NoReply

LEMMA CallsKeep ==
  ASSUME CallsInv, NEW c \in Call, NEW r, validCall(r),
         call' = [call EXCEPT ![c] = r], about' = about
  PROVE  CallsInv'
<1>1. call' = [d \in Call |-> call'[d]]
  BY DEF CallsInv
<1>2. ASSUME NEW d \in Call, used(d)'
      PROVE  validCall(call[d])'
  <2>1. PICK s : s = call'[d]
    OBVIOUS
  <2>2. validCall(s)
    BY <1>2, <2>1 DEF CallsInv, used
  <2> QED
    BY <2>1, <2>2 DEF validCall, explained
<1> QED
  BY <1>1, <1>2 DEF CallsInv

LEMMA CallAfter ==
  ASSUME CallsInv, NEW c \in Call, NEW r, call' = [call EXCEPT ![c] = r]
  PROVE  \A d \in Call : call'[d] = IF d = c THEN r ELSE call[d]
BY DEF CallsInv

LEMMA OrdersStand ==
  ASSUME OrdersInv, UNCHANGED <<orders, burnt, about>>, committedNext' = committedNext,
         excused \subseteq excused',
         \A d \in Call : keeps(d) /\ settles(d)
  PROVE  OrdersInv'
<1>1. lastNumber' = lastNumber /\ numbers' = numbers
  BY DEF lastNumber, numbers
<1>2. ASSUME NEW o \in orders, askedFor(o)
      PROVE  askedFor(o)'
  <2>1. keeps(o.id) /\ settles(o.id) /\ used(o.id)
    BY <1>2 DEF askedFor
  <2>2. call'[o.id].command = call[o.id].command /\ call'[o.id] # Unused
    BY <2>1 DEF keeps
  <2>3. replies(o.id) /\ call[o.id].stage \in {"replied", "over"}
    BY <1>2, <2>1 DEF settles, askedFor
  <2>4. call'[o.id].reply = call[o.id].reply /\ call'[o.id].stage \in {"replied", "over"}
    BY <2>1, <2>3, SMTT(30) DEF replies, settles
  <2>5. ~rejected(o.id)'
    BY <1>2, <2>1, <2>3 DEF settles, askedFor, rejected
  <2>6. placedTotal(placement(o.id))' = placedTotal(placement(o.id))
    BY <2>2 DEF placement
  <2> QED
    BY <1>2, <2>2, <2>4, <2>5, <2>6 DEF askedFor, used, placement
<1>3. \A o \in orders' : seeded(o)' \/ askedFor(o)'
  BY <1>2 DEF OrdersInv, seeded
<1>4. burnt' # {} =>
        \E c, d \in Call : c # d /\ used(c)' /\ used(d)'
                           /\ call'[c].command.requestId = call'[d].command.requestId
  <2>1. \A d \in Call : used(d) => used(d)' /\ call'[d].command = call[d].command
    BY DEF keeps, used
  <2> QED
    BY <2>1 DEF OrdersInv
<1>5. ASSUME NEW c \in Call, used(c)', about' = "placing"
      PROVE  /\ call'[c].reply.code = "INTERNAL_ERROR" => c \in excused'
             /\ call'[c].reply.code = "DONE" =>
                  call'[c].reply.body \in orders'
                  /\ call'[c].reply.body.requestId = call'[c].command.requestId
  <2>1. CASE ~used(c)
    BY <1>5, <2>1 DEF settles, used, NoReply
  <2>2. CASE used(c)
    <3>1. replies(c) /\ call'[c].command = call[c].command
      BY <2>2 DEF settles, keeps
    <3> QED
      BY <1>5, <2>2, <3>1 DEF replies, OrdersInv, placement
  <2> QED
    BY <2>1, <2>2
<1> QED
  BY <1>1, <1>3, <1>4, <1>5 DEF OrdersInv, placement

-----------------------------------------------------------------------------
(* What a step leaves as it was.                                           *)

(* A request that has come is none of the place page's, and asks under no  *)
(* key of the page's.                                                      *)
elsewhere(d) ==
  ~used(d) /\ call'[d] # Unused =>
    /\ call'[d].from.client # "placePage"
    /\ about = "placing" => call'[d].command.requestId \notin Call
    /\ call'[d].answer.status # 200

LEMMA DraftsStand ==
  ASSUME DraftsInv, UNCHANGED <<draft, about>>,
         \A d \in Call : keeps(d) /\ elsewhere(d),
         \A d \in Call : used(d) /\ ~answered(d) => call'[d].answer.status # 200
  PROVE  DraftsInv'
<1>1. ASSUME NEW d \in Call, onPage(d)'
      PROVE  /\ onPage(d) /\ call'[d].from = call[d].from /\ call'[d].command = call[d].command
             /\ told(d)' => told(d)
  <2>1. used(d)
    BY <1>1 DEF elsewhere, onPage, used
  <2> QED
    BY <1>1, <2>1 DEF keeps, onPage, used, answered, told
<1>2. ASSUME NEW d \in Call, onPage(d)', rejected(d) \/ failed(d)
      PROVE  rejected(d)' \/ failed(d)'
  <2>1. used(d)
    BY <1>1, <1>2 DEF onPage
  <2>2. answered(d)
    BY <1>2, <2>1 DEF answered, rejected, failed, NoAnswer
  <2> QED
    BY <1>2, <2>1, <2>2 DEF keeps, answered, used, rejected, failed
<1>3. ASSUME NEW d \in Call, onPage(d)'
      PROVE  /\ about' = "placing" /\ call'[d].command.requestId = d
             /\ call'[d].from = fromDraft(call'[d].from.draft) /\ call'[d].from.draft \in 0..draft'.number
             /\ told(d)' /\ call'[d].from.draft = draft'.number => draft'.form.lines = <<>>
  BY <1>1, <1>3 DEF DraftsInv, placement
<1>4. ASSUME NEW d \in Call, used(d)', about' = "placing", ~onPage(d)'
      PROVE  call'[d].command.requestId \notin Call
  <2>1. CASE ~used(d)
    BY <1>4, <2>1 DEF elsewhere, used
  <2>2. CASE used(d)
    <3>1. ~onPage(d) /\ call'[d].command = call[d].command
      BY <1>4, <2>2 DEF keeps, onPage, used
    <3> QED
      BY <1>4, <2>2, <3>1 DEF DraftsInv, placement
  <2> QED
    BY <2>1, <2>2
<1>5. ASSUME NEW c \in Call, NEW d \in Call, onPage(c)', onPage(d)', c # d,
             call'[c].from = call'[d].from
      PROVE  rejected(c)' \/ rejected(d)' \/ failed(c)' \/ failed(d)'
  <2>1. onPage(c) /\ onPage(d) /\ call[c].from = call[d].from
    BY <1>1, <1>5
  <2>2. rejected(c) \/ rejected(d) \/ failed(c) \/ failed(d)
    BY <1>5, <2>1 DEF DraftsInv
  <2> QED
    BY <1>2, <1>5, <2>2
<1>6. /\ draft' = [number |-> draft'.number, form |-> draft'.form,
                   submitAttempted |-> draft'.submitAttempted]
      /\ draft'.number \in Nat /\ "lines" \in DOMAIN draft'.form
  BY DEF DraftsInv
<1> QED
  BY <1>3, <1>4, <1>5, <1>6 DEF DraftsInv, placement

LEMMA PlacementsStand ==
  ASSUME PlacementsInv, UNCHANGED <<orders, nextValue, lockedBy, placing, about>>,
         \A d \in Call : keeps(d),
         \A d \in Call : placing[d] # NotPlacing => call'[d].stage = "asked"
  PROVE  PlacementsInv'
<1>1. committedNext' = committedNext /\ lastNumber' = lastNumber
  BY DEF committedNext, lastNumber
<1>2. ASSUME NEW c \in Call, placing[c] # NotPlacing
      PROVE  /\ used(c)' /\ stageIs(c, "asked")' /\ about' = "placing"
             /\ call'[c].command = call[c].command
  BY <1>2 DEF PlacementsInv, onItsWay, keeps, used, stageIs
<1>3. ASSUME NEW c \in Call, written(c), placing[c] # NotPlacing
      PROVE  written(c)'
  <2>1. placement(c)' = placement(c)
    BY <1>2, <1>3 DEF placement
  <2>2. placedTotal(placement(c))' = placedTotal(placement(c))
    BY <2>1
  <2> QED
    BY <1>3, <2>1, <2>2 DEF written, withRequestId
<1>4. ASSUME NEW c \in Call
      PROVE  onItsWay(c)'
  BY <1>1, <1>2, <1>3 DEF PlacementsInv, onItsWay, NotPlacing
<1>5. /\ placing' = [c \in Call |-> placing'[c]]
      /\ lockedBy' \in Call \union {Nobody}
      /\ nextValue' \in Nat /\ committedNext' \in Nat
      /\ lockedBy' # Nobody => nextValue' = lastNumber' + 2
  BY <1>1 DEF PlacementsInv
<1> QED
  BY <1>4, <1>5 DEF PlacementsInv

(* What payments are told, and what they ask for, goes on being true.      *)
paysOn(d) ==
  /\ used(d) =>
       /\ call'[d].reply = call[d].reply
       /\ call'[d].stage = "resolving" => call[d].stage = "resolving"
       /\ call'[d].answer = call[d].answer \/ call'[d].answer = NoAnswer
            \/ call'[d].answer.code # "NOT_FOUND"
  /\ ~used(d) => call'[d] = Unused

LEMMA PaymentsStand ==
  ASSUME PaymentsInv, UNCHANGED <<scan, payments, about>>,
         issued' \in Nat, issued' >= issued,
         \A d \in Call : keeps(d) /\ (about = "paying" => paysOn(d))
  PROVE  PaymentsInv'
<1>1. ASSUME NEW c \in Call, ~used(c)'
      PROVE  scan'[c] = 1
  BY <1>1 DEF keeps, used, PaymentsInv
<1>2. ASSUME NEW c \in Call, used(c)', about' = "paying"
      PROVE  /\ call'[c].command.invoice \in Nat /\ call'[c].command.reference \in Reference
             /\ call'[c].command.existed => call'[c].command.invoice \in 1..issued'
             /\ call'[c].command.existed /\ call'[c].stage = "resolving" =>
                  (scan'[c] - 1) * INVOICE_SCAN_PAGE_SIZE < issued' + 1 - call'[c].command.invoice
             /\ call'[c].reply.code # "NOT_FOUND"
             /\ call'[c].reply.code = "DONE" =>
                  [invoice |-> call'[c].command.invoice, reference |-> call'[c].command.reference]
                    \in payments'
             /\ call'[c].answer # NoAnswer /\ call'[c].answer.code = "NOT_FOUND" =>
                  ~call'[c].command.existed
  <2>1. used(c) /\ paysOn(c) /\ call'[c].command = call[c].command
    BY <1>2 DEF keeps, paysOn, used
  <2>2. /\ call'[c].reply = call[c].reply
        /\ call'[c].stage = "resolving" => call[c].stage = "resolving"
        /\ call'[c].answer = call[c].answer \/ call'[c].answer = NoAnswer
             \/ call'[c].answer.code # "NOT_FOUND"
    BY <2>1 DEF paysOn
  <2>3. /\ call[c].command.invoice \in Nat /\ call[c].command.reference \in Reference
        /\ call[c].command.existed => call[c].command.invoice \in 1..issued
        /\ call[c].command.existed /\ call[c].stage = "resolving" =>
             (scan[c] - 1) * INVOICE_SCAN_PAGE_SIZE < issued + 1 - call[c].command.invoice
        /\ call[c].reply.code # "NOT_FOUND"
        /\ call[c].reply.code = "DONE" =>
             [invoice |-> call[c].command.invoice, reference |-> call[c].command.reference]
               \in payments
        /\ call[c].answer # NoAnswer /\ call[c].answer.code = "NOT_FOUND" =>
             ~call[c].command.existed
    BY <1>2, <2>1 DEF PaymentsInv
  <2>4. issued \in Nat /\ (scan[c] - 1) * INVOICE_SCAN_PAGE_SIZE \in Int
    BY ScanAssumption DEF PaymentsInv
  <2> QED
    BY <2>1, <2>2, <2>3, <2>4
<1> QED
  BY <1>1, <1>2 DEF PaymentsInv

LEMMA ReplenishStand ==
  ASSUME ReplenishInv, UNCHANGED <<added, about>>,
         \A d \in Call : keeps(d) /\ settles(d),
         \A d \in Call : used(d) /\ about = "replenishing" => call'[d].reply = call[d].reply
  PROVE  ReplenishInv'
<1>1. ASSUME NEW c \in Call
      PROVE  /\ c \in added' => /\ used(c)' /\ call'[c].stage \in {"replied", "over"}
                                /\ ~rejected(c)' /\ about' = "replenishing"
             /\ used(c)' /\ about' = "replenishing" =>
                  /\ call'[c].reply.code \in {"none", "DONE", "INTERNAL_ERROR"}
                  /\ call'[c].reply.code = "DONE" => c \in added'
  <2>1. CASE used(c)
    BY <2>1 DEF ReplenishInv, keeps, settles, used, rejected
  <2>2. CASE ~used(c)
    BY <2>2 DEF ReplenishInv, settles, used, NoReply
  <2> QED
    BY <2>1, <2>2
<1> QED
  BY <1>1 DEF ReplenishInv

-----------------------------------------------------------------------------
(* Between the gateway and a service.                                      *)

(* A call that loses its way: no service runs, and no answer it may get    *)
(* promises anything.                                                      *)
astray(c, r) ==
  /\ r.from = call[c].from /\ r.command = call[c].command /\ r.reply = call[c].reply
  /\ answered(c) => r.answer = call[c].answer
  /\ placing[c] # NotPlacing => r.stage = "asked"
  /\ call[c].stage \in {"replied", "over"} => r.stage \in {"replied", "over"}
  /\ r.stage # "resolving"
  /\ r.answer = call[c].answer
     \/ \E code \in {"TIMEOUT", "UNAVAILABLE", "SCAN_BUDGET_EXCEEDED"} : r.answer = classifyRpcError(code)

LEMMA Astray ==
  ASSUME FrontDoorInv, NEW c \in Call, used(c), NEW r, validCall(r), astray(c, r),
         call' = [call EXCEPT ![c] = r], UNCHANGED <<ordersVars, paymentVars, pageVars, about>>
  PROVE  FrontDoorInv'
<1>1. CallsInv /\ PlacementsInv /\ OrdersInv /\ DraftsInv /\ PaymentsInv /\ ReplenishInv
  BY DEF FrontDoorInv
<1>2. \A d \in Call : call'[d] = IF d = c THEN r ELSE call[d]
  BY <1>1, CallAfter
<1>3. r.answer = call[c].answer \/ (r.answer.status = 503 /\ r.answer.code # "NOT_FOUND")
  BY AnswerCodes DEF astray
<1>4. r # Unused
  BY UnusedCalls
<1>5. \A d \in Call : keeps(d)
  <2>1. keeps(c)
    BY <1>2, <1>4 DEF keeps, astray
  <2>2. ASSUME NEW d \in Call, d # c
        PROVE  keeps(d)
    BY <1>2, <2>2 DEF keeps, used
  <2> QED
    BY <2>1, <2>2
<1>6. \A d \in Call : settles(d)
  <2>1. settles(c)
    BY <1>2, <1>3 DEF settles, replies, astray, rejected
  <2>2. ASSUME NEW d \in Call, d # c
        PROVE  settles(d)
    BY <1>2, <2>2 DEF settles, replies, rejected, used
  <2> QED
    BY <2>1, <2>2
<1>7. \A d \in Call : elsewhere(d)
  <2>1. \A d \in Call : ~used(d) => call'[d] = call[d]
    BY <1>2
  <2> QED
    BY <2>1 DEF elsewhere, used
<1>8. ASSUME NEW d \in Call, used(d), ~answered(d)
      PROVE  call'[d].answer.status # 200
  BY <1>2, <1>3, <1>8 DEF answered, NoAnswer
<1>9. \A d \in Call : placing[d] # NotPlacing => call'[d].stage = "asked"
  BY <1>1, <1>2 DEF astray, PlacementsInv, onItsWay, stageIs
<1>10. \A d \in Call : paysOn(d)
  BY <1>2, <1>3 DEF paysOn, astray, used
<1>11. \A d \in Call : used(d) /\ about = "replenishing" => call'[d].reply = call[d].reply
  BY <1>2 DEF astray
<1>12. committedNext' = committedNext
  BY DEF committedNext, ordersVars
<1>13. CallsInv'
  BY <1>1, CallsKeep
<1>14. OrdersInv'
  BY <1>1, <1>5, <1>6, <1>12, OrdersStand DEF ordersVars
<1>15. PlacementsInv'
  BY <1>1, <1>5, <1>9, PlacementsStand DEF ordersVars
<1>16. DraftsInv'
  BY <1>1, <1>5, <1>7, <1>8, DraftsStand DEF pageVars
<1>17. PaymentsInv'
  <2>1. issued' \in Nat /\ issued' >= issued
    BY <1>1 DEF PaymentsInv, paymentVars
  <2> QED
    BY <1>1, <1>5, <1>10, <2>1, PaymentsStand DEF paymentVars
<1>18. ReplenishInv'
  BY <1>1, <1>5, <1>6, <1>11, ReplenishStand DEF pageVars
<1> QED
  BY <1>13, <1>14, <1>15, <1>16, <1>17, <1>18 DEF FrontDoorInv

(* A call as a record of its fields.                                       *)
LEMMA CallFields ==
  ASSUME CallsInv, NEW c \in Call, used(c)
  PROVE  /\ validCall(call[c])
         /\ call[c] = [stage |-> call[c].stage, from |-> call[c].from, command |-> call[c].command,
                       reply |-> call[c].reply, answer |-> call[c].answer]
BY DEF CallsInv, validCall

LEMMA TransportKeeps ==
  ASSUME FrontDoorInv, NEW c \in Call, Transport(c),
         UNCHANGED <<ordersVars, paymentVars, pageVars, about>>
  PROVE  FrontDoorInv'
<1>1. CallsInv
  BY DEF FrontDoorInv
<1>2. CASE RpcTimeout(c)
  <2>1. used(c) /\ call[c].answer = NoAnswer
    BY <1>2 DEF RpcTimeout, open
  <2>2. PICK r : r = [call[c] EXCEPT !.stage = IF @ = "resolving" THEN "over" ELSE @,
                                     !.answer = classifyRpcError("TIMEOUT")]
    OBVIOUS
  <2>3. call' = [call EXCEPT ![c] = r]
    BY <1>1, <1>2, <2>2 DEF RpcTimeout, CallsInv
  <2>4. validCall(call[c])
    BY <1>1, <2>1, CallFields
  <2>5. /\ r.stage = IF call[c].stage = "resolving" THEN "over" ELSE call[c].stage
        /\ r.from = call[c].from /\ r.command = call[c].command /\ r.reply = call[c].reply
        /\ r.answer = classifyRpcError("TIMEOUT")
        /\ r = [stage |-> r.stage, from |-> r.from, command |-> r.command, reply |-> r.reply,
                answer |-> r.answer]
    BY <2>2, <2>4 DEF validCall
  <2>6. validCall(r)
    BY <2>4, <2>5, AnswerCodes DEF validCall, explained
  <2>7. astray(c, r)
    <3>1. placing[c] # NotPlacing => call[c].stage = "asked"
      BY DEF FrontDoorInv, PlacementsInv, onItsWay, stageIs
    <3> QED
      BY <2>1, <2>5, <3>1 DEF astray, answered
  <2> QED
    BY <2>1, <2>3, <2>6, <2>7, Astray
<1>3. CASE placing[c] = NotPlacing /\ NoResponders(c)
  <2>1. used(c) /\ call[c].answer = NoAnswer /\ call[c].stage = "asked"
    BY <1>3 DEF NoResponders, open, stageIs
  <2>2. PICK r : r = [call[c] EXCEPT !.stage = "over", !.answer = classifyRpcError("UNAVAILABLE")]
    OBVIOUS
  <2>3. call' = [call EXCEPT ![c] = r]
    BY <1>1, <1>3, <2>2 DEF NoResponders, CallsInv
  <2>4. validCall(call[c])
    BY <1>1, <2>1, CallFields
  <2>5. /\ r.stage = "over"
        /\ r.from = call[c].from /\ r.command = call[c].command /\ r.reply = call[c].reply
        /\ r.answer = classifyRpcError("UNAVAILABLE")
        /\ r = [stage |-> r.stage, from |-> r.from, command |-> r.command, reply |-> r.reply,
                answer |-> r.answer]
    BY <2>2, <2>4 DEF validCall
  <2>6. validCall(r)
    BY <2>1, <2>4, <2>5, AnswerCodes DEF validCall, explained
  <2>7. astray(c, r)
    BY <1>3, <2>1, <2>5 DEF astray, answered
  <2> QED
    BY <2>1, <2>3, <2>6, <2>7, Astray
<1>4. CASE placing[c] = NotPlacing /\ RequestLost(c)
  <2>1. used(c) /\ call[c].stage \in {"asked", "replied"} /\ (call[c].stage = "replied" => open(c))
    BY <1>4 DEF RequestLost, open, used, stageIs, Unused
  <2>2. PICK r : r = [call[c] EXCEPT !.stage = "over"]
    OBVIOUS
  <2>3. call' = [call EXCEPT ![c] = r]
    BY <1>1, <1>4, <2>2 DEF RequestLost, withStage, CallsInv
  <2>4. validCall(call[c])
    BY <1>1, <2>1, CallFields
  <2>5. /\ r.stage = "over"
        /\ r.from = call[c].from /\ r.command = call[c].command /\ r.reply = call[c].reply
        /\ r.answer = call[c].answer
        /\ r = [stage |-> r.stage, from |-> r.from, command |-> r.command, reply |-> r.reply,
                answer |-> r.answer]
    BY <2>2, <2>4 DEF validCall
  <2>6. validCall(r)
    BY <2>1, <2>4, <2>5, AnswerCodes DEF validCall, explained, open
  <2>7. astray(c, r)
    BY <1>4, <2>1, <2>5 DEF astray
  <2> QED
    BY <2>1, <2>3, <2>6, <2>7, Astray
<1> QED
  BY <1>2, <1>3, <1>4 DEF Transport

LEMMA AnswerKeeps ==
  ASSUME FrontDoorInv, NEW c \in Call, Answer(c)
  PROVE  FrontDoorInv'
<1>1. CallsInv /\ PlacementsInv /\ OrdersInv /\ DraftsInv /\ PaymentsInv /\ ReplenishInv
  BY DEF FrontDoorInv
<1>2. used(c) /\ ~answered(c) /\ call[c].answer = NoAnswer /\ call[c].stage = "replied"
  BY DEF Answer, AnswerCall, open, answered, stageIs
<1>3. UNCHANGED <<orders, nextValue, lockedBy, placing, burnt, excused>>
      /\ UNCHANGED <<issued, projected, payments, scan>> /\ UNCHANGED <<added, about>>
  BY DEF Answer, ordersVars, paymentVars
<1>4. PICK r : r = [call[c] EXCEPT !.answer = answerTo(call[c].reply)]
  OBVIOUS
<1>5. call' = [call EXCEPT ![c] = r]
  BY <1>1, <1>4 DEF Answer, AnswerCall, withAnswer, CallsInv
<1>6. validCall(call[c])
  BY <1>1, <1>2, CallFields
<1>7. /\ r.stage = "replied"
      /\ r.from = call[c].from /\ r.command = call[c].command /\ r.reply = call[c].reply
      /\ r.answer = answerTo(call[c].reply)
      /\ r = [stage |-> r.stage, from |-> r.from, command |-> r.command, reply |-> r.reply,
              answer |-> r.answer]
  BY <1>2, <1>4, <1>6 DEF validCall
<1>8. validCall(r)
  BY <1>2, <1>6, <1>7 DEF validCall, explained
<1>9. \A d \in Call : call'[d] = IF d = c THEN r ELSE call[d]
  BY <1>1, <1>5, CallAfter
<1>10. r # Unused
  BY <1>8, UnusedCalls
<1>11. /\ r.answer.status \in {200, 400, 404, 409, 422, 500, 503}
       /\ r.reply.code \in {"none", "DONE", "INTERNAL_ERROR"} => r.answer.status \in {200, 500}
       /\ r.answer.code = "NOT_FOUND" => r.reply.code = "NOT_FOUND"
  BY <1>7, ReplyAnswers
<1>12. \A d \in Call : keeps(d)
  <2>1. keeps(c)
    BY <1>2, <1>7, <1>9, <1>10 DEF keeps
  <2>2. ASSUME NEW d \in Call, d # c
        PROVE  keeps(d)
    BY <1>9, <2>2 DEF keeps, used
  <2> QED
    BY <2>1, <2>2
<1>13. \A d \in Call : settles(d)
  <2>1. settles(c)
    BY <1>2, <1>7, <1>9, <1>11 DEF settles, replies, rejected
  <2>2. ASSUME NEW d \in Call, d # c
        PROVE  settles(d)
    BY <1>9, <2>2 DEF settles, replies, rejected, used
  <2> QED
    BY <2>1, <2>2
<1>14. CallsInv'
  BY <1>1, <1>3, <1>5, <1>8, CallsKeep
<1>15. OrdersInv'
  <2>1. committedNext' = committedNext
    BY <1>3 DEF committedNext
  <2> QED
    BY <1>1, <1>3, <1>12, <1>13, <2>1, OrdersStand
<1>16. PlacementsInv'
  <2>1. \A d \in Call : placing[d] # NotPlacing => call'[d].stage = "asked"
    BY <1>1, <1>2, <1>9 DEF PlacementsInv, onItsWay, stageIs
  <2> QED
    BY <1>1, <1>3, <1>12, <2>1, PlacementsStand
<1>17. PaymentsInv'
  <2>1. ASSUME about = "paying", NEW d \in Call
        PROVE  paysOn(d)
    <3>1. call[c].reply.code # "NOT_FOUND"
      BY <1>1, <1>2, <2>1 DEF PaymentsInv
    <3>2. paysOn(c)
      BY <1>2, <1>7, <1>9, <1>11, <3>1 DEF paysOn
    <3>3. ASSUME d # c
          PROVE  paysOn(d)
      BY <1>9, <3>3 DEF paysOn, used
    <3> QED
      BY <3>2, <3>3
  <2>2. issued' \in Nat /\ issued' >= issued
    BY <1>1, <1>3 DEF PaymentsInv
  <2> QED
    BY <1>1, <1>3, <1>12, <2>1, <2>2, PaymentsStand
<1>18. ReplenishInv'
  <2>1. \A d \in Call : used(d) /\ about = "replenishing" => call'[d].reply = call[d].reply
    BY <1>7, <1>9
  <2> QED
    BY <1>1, <1>3, <1>12, <1>13, <2>1, ReplenishStand
<1>19. DraftsInv'
  <2>1. draft' = IF r.answer.status = 200 /\ call[c].from = fromDraft(draft.number)
                 THEN [draft EXCEPT !.form.lines = <<>>, !.submitAttempted = FALSE]
                 ELSE draft
    BY <1>9 DEF Answer, draftAfter
  <2>2. /\ draft' = [number |-> draft'.number, form |-> draft'.form,
                     submitAttempted |-> draft'.submitAttempted]
        /\ draft'.number = draft.number /\ "lines" \in DOMAIN draft'.form
        /\ draft'.form.lines = draft.form.lines \/ draft'.form.lines = <<>>
        /\ r.answer.status = 200 /\ call[c].from = fromDraft(draft.number) => draft'.form.lines = <<>>
    BY <1>1, <2>1 DEF DraftsInv
  <2>3. ASSUME NEW d \in Call
        PROVE  /\ used(d)' <=> used(d)
               /\ onPage(d)' <=> onPage(d)
               /\ call'[d].from = call[d].from /\ call'[d].command = call[d].command
               /\ d # c => (told(d)' <=> told(d)) /\ (rejected(d)' <=> rejected(d))
                          /\ (failed(d)' <=> failed(d))
    <3>1. CASE d = c
      BY <1>2, <1>7, <1>9, <1>10, <3>1 DEF used, onPage
    <3>2. CASE d # c
      <4>1. call'[d] = call[d]
        BY <1>9, <3>2
      <4> QED
        BY <3>2, <4>1 DEF used, onPage, told, answered, rejected, failed
    <3> QED
      BY <3>1, <3>2
  <2>4. ASSUME NEW d \in Call, onPage(d)
        PROVE  /\ about' = "placing" /\ call'[d].command.requestId = d
               /\ call'[d].from = fromDraft(call'[d].from.draft) /\ call'[d].from.draft \in 0..draft'.number
               /\ told(d)' /\ call'[d].from.draft = draft'.number => draft'.form.lines = <<>>
    <3>1. CASE d = c
      <4>1. told(c)' => r.answer.status = 200
        BY <1>9 DEF told
      <4> QED
        BY <1>1, <1>3, <2>2, <2>3, <2>4, <3>1, <4>1 DEF DraftsInv, placement
    <3>2. CASE d # c
      BY <1>1, <1>3, <2>2, <2>3, <2>4, <3>2 DEF DraftsInv, placement
    <3> QED
      BY <3>1, <3>2
  <2>5. ASSUME NEW d \in Call, used(d)', about' = "placing", ~onPage(d)'
        PROVE  call'[d].command.requestId \notin Call
    BY <1>1, <1>3, <2>3, <2>5 DEF DraftsInv, placement
  <2>6. ASSUME NEW d \in Call, NEW e \in Call, onPage(d)', onPage(e)', d # e,
               call'[d].from = call'[e].from
        PROVE  rejected(d)' \/ rejected(e)' \/ failed(d)' \/ failed(e)'
    <3>1. rejected(d) \/ rejected(e) \/ failed(d) \/ failed(e)
      BY <1>1, <2>3, <2>6 DEF DraftsInv
    <3>2. ~rejected(c) /\ ~failed(c)
      BY <1>2 DEF rejected, failed, answered, NoAnswer
    <3> QED
      BY <2>3, <3>1, <3>2
  <2> QED
    BY <1>1, <2>2, <2>3, <2>4, <2>5, <2>6 DEF DraftsInv, placement
<1> QED
  BY <1>14, <1>15, <1>16, <1>17, <1>18, <1>19 DEF FrontDoorInv

-----------------------------------------------------------------------------
(* A request arrives.                                                      *)

(* What becomes of a request at the gateway: put to its service, or        *)
(* refused for good.                                                       *)
arrives(c, r, from, command, stage) ==
  /\ call[c] = Unused /\ call' = [call EXCEPT ![c] = r]
  /\ r = [stage |-> r.stage, from |-> from, command |-> command, reply |-> NoReply,
          answer |-> r.answer]
  /\ \/ r.stage = stage /\ r.answer = NoAnswer
     \/ r.stage = "over" /\ r.answer.status \in {400, 401} /\ r.answer.code # "NOT_FOUND"

posted(c, from, command, stage) ==
  unauthorized(c, from, command) \/ Refuse(c, from, command, 400, "VALIDATION_FAILED")
    \/ Accept(c, from, command, stage)

LEMMA Posted ==
  ASSUME NEW c, NEW from, NEW command, NEW stage, posted(c, from, command, stage)
  PROVE  \E r : arrives(c, r, from, command, stage)
<1>1. CASE unauthorized(c, from, command)
  <2>1. PICK r : r = [stage |-> "over", from |-> from, command |-> command, reply |-> NoReply,
                      answer |-> [status |-> 401, code |-> "UNAUTHORIZED"]]
    OBVIOUS
  <2>2. call[c] = Unused /\ call' = [call EXCEPT ![c] = r]
    BY <1>1, <2>1 DEF unauthorized, Refuse
  <2>3. arrives(c, r, from, command, stage)
    BY <2>1, <2>2 DEF arrives
  <2> QED
    BY <2>3
<1>2. CASE Refuse(c, from, command, 400, "VALIDATION_FAILED")
  <2>1. PICK r : r = [stage |-> "over", from |-> from, command |-> command, reply |-> NoReply,
                      answer |-> [status |-> 400, code |-> "VALIDATION_FAILED"]]
    OBVIOUS
  <2>2. call[c] = Unused /\ call' = [call EXCEPT ![c] = r]
    BY <1>2, <2>1 DEF Refuse
  <2>3. arrives(c, r, from, command, stage)
    BY <2>1, <2>2 DEF arrives
  <2> QED
    BY <2>3
<1>3. CASE Accept(c, from, command, stage)
  <2>1. PICK r : r = [stage |-> stage, from |-> from, command |-> command, reply |-> NoReply,
                      answer |-> NoAnswer]
    OBVIOUS
  <2>2. call[c] = Unused /\ call' = [call EXCEPT ![c] = r]
    BY <1>3, <2>1 DEF Accept
  <2>3. arrives(c, r, from, command, stage)
    BY <2>1, <2>2 DEF arrives
  <2> QED
    BY <2>3
<1> QED
  BY <1>1, <1>2, <1>3 DEF posted

LEMMA Arrives ==
  ASSUME FrontDoorInv, NEW c \in Call,
         NEW r, NEW from, NEW command, NEW stage, arrives(c, r, from, command, stage),
         stage \in {"resolving", "asked"}, command.kind = kindOf[about],
         UNCHANGED ordersVars, added' = added, about' = about
  PROVE  /\ call[c] = Unused /\ validCall(r) /\ r # Unused
         /\ r.from = from /\ r.command = command /\ r.answer.status \in {0, 400, 401}
         /\ \A d \in Call : call'[d] = IF d = c THEN r ELSE call[d]
         /\ \A d \in Call : keeps(d) /\ settles(d)
         /\ CallsInv' /\ OrdersInv' /\ PlacementsInv' /\ ReplenishInv'
<1>1. CallsInv /\ PlacementsInv /\ OrdersInv /\ DraftsInv /\ PaymentsInv /\ ReplenishInv
  BY DEF FrontDoorInv
<1>2. \A d \in Call : call'[d] = IF d = c THEN r ELSE call[d]
  <2>1. call' = [call EXCEPT ![c] = r]
    BY DEF arrives
  <2> QED
    BY <1>1, <2>1, CallAfter
<1>3. /\ r = [stage |-> r.stage, from |-> r.from, command |-> r.command, reply |-> r.reply,
              answer |-> r.answer]
      /\ r.from = from /\ r.command = command /\ r.reply = NoReply
      /\ \/ r.stage = stage /\ r.answer = NoAnswer
         \/ r.stage = "over" /\ r.answer.status \in {400, 401}
  BY DEF arrives
<1>4. validCall(r)
  BY <1>3 DEF validCall, explained
<1>5. r # Unused
  BY <1>4, UnusedCalls
<1>6. call[c] = Unused /\ ~used(c)
  BY DEF arrives, used
<1>7. \A d \in Call : keeps(d) /\ settles(d)
  <2>1. keeps(c) /\ settles(c)
    BY <1>2, <1>3, <1>6 DEF keeps, settles
  <2>2. ASSUME NEW d \in Call, d # c
        PROVE  keeps(d) /\ settles(d)
    BY <1>2, <2>2 DEF keeps, settles, replies, rejected, used
  <2> QED
    BY <2>1, <2>2
<1>8. CallsInv'
  <2>1. call' = [call EXCEPT ![c] = r]
    BY DEF arrives
  <2> QED
    BY <1>1, <1>4, <2>1, CallsKeep, ZenonT(60)
<1>9. OrdersInv'
  <2>1. committedNext' = committedNext
    BY DEF committedNext, ordersVars
  <2> QED
    BY <1>1, <1>7, <2>1, OrdersStand DEF ordersVars
<1>10. PlacementsInv'
  <2>1. \A d \in Call : placing[d] # NotPlacing => call'[d].stage = "asked"
    BY <1>1, <1>2, <1>6 DEF PlacementsInv, onItsWay, stageIs
  <2> QED
    BY <1>1, <1>7, <2>1, PlacementsStand DEF ordersVars
<1>11. ReplenishInv'
  <2>1. \A d \in Call : used(d) /\ about = "replenishing" => call'[d].reply = call[d].reply
    BY <1>2, <1>6
  <2> QED
    BY <1>1, <1>7, <2>1, ReplenishStand
<1>12. r.answer.status \in {0, 400, 401}
  BY <1>3 DEF NoAnswer
<1> QED
  BY <1>2, <1>3, <1>4, <1>5, <1>6, <1>7, <1>8, <1>9, <1>10, <1>11, <1>12

LEMMA UnaskedPayments ==
  ASSUME PaymentsInv, about # "paying", UNCHANGED <<paymentVars, about>>,
         \A d \in Call : keeps(d)
  PROVE  PaymentsInv'
<1>1. issued' \in Nat /\ issued' >= issued
  BY DEF PaymentsInv, paymentVars
<1> QED
  BY <1>1, PaymentsStand DEF paymentVars

LEMMA SubmitByKeyKeeps ==
  ASSUME FrontDoorInv, NEW c \in Call, NEW key \in ApiKey, about = "placing",
         SubmitByKey(c, key), UNCHANGED <<ordersVars, paymentVars, about>>
  PROVE  FrontDoorInv'
<1>0. PICK from, command, stage :
        from = fromApi(key) /\ command = ApiCommand[key] /\ stage = "asked"
  OBVIOUS
<1>1. PICK r : arrives(c, r, from, command, stage)
  <2>1. posted(c, from, command, stage)
    BY <1>0 DEF SubmitByKey, post, posted
  <2> QED
    BY <2>1, Posted
<1>2. ApiCommand[key].kind = kindOf[about] /\ ApiCommand[key].requestId \notin Call
  BY OperatorAssumption DEF kindOf
<1>3. draft' = draft /\ added' = added /\ ordersVars' = ordersVars /\ about' = about
  BY DEF SubmitByKey, pageVars
<1>4. /\ call[c] = Unused /\ r.from = fromApi(key) /\ r.command = ApiCommand[key] /\ r.answer.status \in {0, 400, 401}
      /\ \A d \in Call : call'[d] = IF d = c THEN r ELSE call[d]
      /\ \A d \in Call : keeps(d)
      /\ CallsInv' /\ OrdersInv' /\ PlacementsInv' /\ ReplenishInv'
  BY <1>0, <1>1, <1>2, <1>3, Arrives
<1>5. DraftsInv'
  <2>1. \A d \in Call : elsewhere(d)
    <3>1. elsewhere(c)
      BY <1>2, <1>4 DEF elsewhere, fromApi
    <3>2. \A d \in Call : d # c => elsewhere(d)
      BY <1>4 DEF elsewhere, used
    <3> QED
      BY <3>1, <3>2
  <2>2. ASSUME NEW d \in Call, used(d), ~answered(d)
        PROVE  call'[d].answer.status # 200
    BY <1>4, <2>2 DEF used, answered, NoAnswer
  <2> QED
    BY <1>3, <1>4, <2>1, <2>2, DraftsStand DEF FrontDoorInv
<1>6. PaymentsInv'
  BY <1>4, UnaskedPayments DEF FrontDoorInv
<1> QED
  BY <1>4, <1>5, <1>6 DEF FrontDoorInv

LEMMA SubmitReplenishKeeps ==
  ASSUME FrontDoorInv, NEW c \in Call, about = "replenishing",
         SubmitReplenish(c), UNCHANGED <<ordersVars, paymentVars, about>>
  PROVE  FrontDoorInv'
<1>1. PICK text \in Units : post(c, fromStock, [kind |-> "replenish", units |-> text.whole], TRUE, "asked")
  BY DEF SubmitReplenish
<1>2. PICK from, command, stage :
        from = fromStock /\ command = [kind |-> "replenish", units |-> text.whole] /\ stage = "asked"
  OBVIOUS
<1>3. PICK r : arrives(c, r, from, command, stage)
  <2>1. posted(c, from, command, stage)
    BY <1>1, <1>2 DEF post, posted
  <2> QED
    BY <2>1, Posted
<1>4. command.kind = kindOf[about]
  BY <1>2 DEF kindOf
<1>5. draft' = draft /\ added' = added /\ ordersVars' = ordersVars /\ about' = about
  BY DEF SubmitReplenish, pageVars
<1>6. /\ call[c] = Unused /\ r.from = fromStock /\ r.answer.status \in {0, 400, 401}
      /\ \A d \in Call : call'[d] = IF d = c THEN r ELSE call[d]
      /\ \A d \in Call : keeps(d)
      /\ CallsInv' /\ OrdersInv' /\ PlacementsInv' /\ ReplenishInv'
  BY <1>2, <1>3, <1>4, <1>5, Arrives
<1>7. DraftsInv'
  <2>1. \A d \in Call : elsewhere(d)
    <3>1. elsewhere(c)
      BY <1>6 DEF elsewhere, fromStock
    <3>2. \A d \in Call : d # c => elsewhere(d)
      BY <1>6 DEF elsewhere, used
    <3> QED
      BY <3>1, <3>2
  <2>2. ASSUME NEW d \in Call, used(d), ~answered(d)
        PROVE  call'[d].answer.status # 200
    BY <1>6, <2>2 DEF used, answered, NoAnswer
  <2> QED
    BY <1>5, <1>6, <2>1, <2>2, DraftsStand DEF FrontDoorInv
<1>8. PaymentsInv'
  BY <1>6, UnaskedPayments DEF FrontDoorInv
<1> QED
  BY <1>6, <1>7, <1>8 DEF FrontDoorInv

LEMMA SubmitPaymentKeeps ==
  ASSUME FrontDoorInv, NEW c \in Call, about = "paying",
         SubmitPayment(c), UNCHANGED <<ordersVars, paymentVars, about>>
  PROVE  FrontDoorInv'
<1>1. PICK n \in Wanted, reference \in Reference, amount \in {InvoiceTotal, InvoiceTotal - 1} :
        post(c, fromPayments,
             [kind |-> "pay", invoice |-> n, reference |-> reference, amount |-> amount,
              existed |-> n <= issued],
             TRUE, "resolving")
  BY DEF SubmitPayment
<1>2. PICK from, command, stage :
        /\ from = fromPayments /\ stage = "resolving"
        /\ command = [kind |-> "pay", invoice |-> n, reference |-> reference, amount |-> amount,
                      existed |-> n <= issued]
  OBVIOUS
<1>3. PICK r : arrives(c, r, from, command, stage)
  <2>1. posted(c, from, command, stage)
    BY <1>1, <1>2 DEF post, posted
  <2> QED
    BY <2>1, Posted
<1>4. command.kind = kindOf[about]
  BY <1>2 DEF kindOf
<1>5. draft' = draft /\ added' = added /\ ordersVars' = ordersVars /\ about' = about
  BY DEF SubmitPayment, pageVars
<1>6. /\ call[c] = Unused /\ r.from = fromPayments /\ r.command = command
      /\ r.answer.status \in {0, 400, 401}
      /\ \A d \in Call : call'[d] = IF d = c THEN r ELSE call[d]
      /\ \A d \in Call : keeps(d)
      /\ CallsInv' /\ OrdersInv' /\ PlacementsInv' /\ ReplenishInv'
  BY <1>2, <1>3, <1>4, <1>5, Arrives
<1>7. DraftsInv'
  <2>1. \A d \in Call : elsewhere(d)
    <3>1. elsewhere(c)
      BY <1>6 DEF elsewhere, fromPayments
    <3>2. \A d \in Call : d # c => elsewhere(d)
      BY <1>6 DEF elsewhere, used
    <3> QED
      BY <3>1, <3>2
  <2>2. ASSUME NEW d \in Call, used(d), ~answered(d)
        PROVE  call'[d].answer.status # 200
    BY <1>6, <2>2 DEF used, answered, NoAnswer
  <2> QED
    BY <1>5, <1>6, <2>1, <2>2, DraftsStand DEF FrontDoorInv
<1>8. PaymentsInv'
  <2>1. PaymentsInv
    BY DEF FrontDoorInv
  <2>2. /\ r.reply = NoReply
        /\ r.answer # NoAnswer => r.answer.code # "NOT_FOUND"
    BY <1>3 DEF arrives
  <2>3. issued' = issued /\ payments' = payments /\ scan' = scan
    BY DEF paymentVars
  <2>4. ASSUME NEW d \in Call, ~used(d)'
        PROVE  scan'[d] = 1
    BY <1>6, <2>1, <2>3, <2>4 DEF keeps, used, PaymentsInv
  <2>5. ASSUME NEW d \in Call, used(d)', about' = "paying"
        PROVE  /\ call'[d].command.invoice \in Nat /\ call'[d].command.reference \in Reference
               /\ call'[d].command.existed => call'[d].command.invoice \in 1..issued'
               /\ call'[d].command.existed /\ call'[d].stage = "resolving" =>
                    (scan'[d] - 1) * INVOICE_SCAN_PAGE_SIZE < issued' + 1 - call'[d].command.invoice
               /\ call'[d].reply.code # "NOT_FOUND"
               /\ call'[d].reply.code = "DONE" =>
                    [invoice |-> call'[d].command.invoice, reference |-> call'[d].command.reference]
                      \in payments'
               /\ call'[d].answer # NoAnswer /\ call'[d].answer.code = "NOT_FOUND" =>
                    ~call'[d].command.existed
    <3>1. CASE d = c
      <4>1. call'[d] = r /\ scan'[d] = 1
        BY <1>6, <2>1, <2>3, <3>1 DEF used, PaymentsInv
      <4>2. /\ command.invoice \in Nat \ {0} /\ command.reference \in Reference
            /\ command.existed => command.invoice <= issued
        BY <1>2, OperatorAssumption
      <4>3. command.existed =>
              command.invoice \in 1..issued
              /\ (1 - 1) * INVOICE_SCAN_PAGE_SIZE < issued + 1 - command.invoice
        <5>1. issued \in Nat
          BY <2>1 DEF PaymentsInv
        <5>2. (1 - 1) * INVOICE_SCAN_PAGE_SIZE = 0
          BY ScanAssumption
        <5> QED
          BY <4>2, <5>1, <5>2
      <4> QED
        BY <1>6, <2>2, <2>3, <4>1, <4>2, <4>3 DEF NoReply
    <3>2. CASE d # c
      <4>1. call'[d] = call[d] /\ used(d)
        BY <1>6, <2>5, <3>2 DEF used
      <4> QED
        BY <1>5, <2>1, <2>3, <2>5, <4>1 DEF PaymentsInv
    <3> QED
      BY <3>1, <3>2
  <2> QED
    BY <2>1, <2>3, <2>4, <2>5 DEF PaymentsInv
<1> QED
  BY <1>6, <1>7, <1>8 DEF FrontDoorInv

(* A draft that was placed is empty, and an empty draft cannot be sent.    *)
LEMMA EmptyDraft ==
  ASSUME NEW form, form.lines = <<>>, NEW key
  PROVE  ~acceptable(payload(form, key))
<1>1. chosen(form) = <<>>
  <2>1. DOMAIN form.lines = {}
    OBVIOUS
  <2> QED
    BY <2>1, FS_EmptySet DEF chosen, kept
<1>2. payload(form, key).lines = <<>>
  BY <1>1 DEF payload
<1> QED
  BY <1>2 DEF acceptable

LEMMA AnswerStatus ==
  ASSUME NEW r, validCall(r), r.answer # NoAnswer
  PROVE  r.answer.status \in {200, 500, 503} \/ r.answer.status \in 400..499
<1>1. \/ r.answer = classifyRpcError("TIMEOUT")
      \/ r.answer.status \in {400, 401, 404, 503}
      \/ r.answer = answerTo(r.reply)
  BY DEF validCall, explained
<1>2. answerTo(r.reply).status \in {200, 400, 404, 409, 422, 500, 503}
  BY ReplyAnswers
<1> QED
  BY <1>1, <1>2, AnswerCodes

(* The page changed its mind about what it shows, not about what it sent.  *)
LEMMA DraftShown ==
  ASSUME DraftsInv, UNCHANGED <<call, about>>,
         draft' = [draft EXCEPT !.submitAttempted = TRUE]
  PROVE  DraftsInv'
<1>1. /\ draft' = [number |-> draft'.number, form |-> draft'.form,
                   submitAttempted |-> draft'.submitAttempted]
      /\ draft'.number = draft.number /\ draft'.form = draft.form
  BY DEF DraftsInv
<1>2. /\ draft'.number \in Nat /\ "lines" \in DOMAIN draft'.form
      /\ \A c \in Call : onPage(c)' =>
           /\ about' = "placing" /\ placement(c)'.requestId = c
           /\ call'[c].from = fromDraft(call'[c].from.draft) /\ call'[c].from.draft \in 0..draft'.number
           /\ told(c)' /\ call'[c].from.draft = draft'.number => draft'.form.lines = <<>>
      /\ \A c \in Call : used(c)' /\ about' = "placing" /\ ~onPage(c)' => placement(c)'.requestId \notin Call
  BY <1>1 DEF DraftsInv, onPage, used, told, answered, placement
<1>3. \A c, d \in Call :
        onPage(c)' /\ onPage(d)' /\ c # d /\ call'[c].from = call'[d].from =>
          rejected(c)' \/ rejected(d)' \/ failed(c)' \/ failed(d)'
  <2>1. \A c \in Call : /\ (onPage(c)' <=> onPage(c))
                         /\ (rejected(c)' <=> rejected(c)) /\ (failed(c)' <=> failed(c))
    BY DEF onPage, used, rejected, failed, answered
  <2> QED
    BY <2>1 DEF DraftsInv
<1> QED
  BY <1>1, <1>2, <1>3 DEF DraftsInv

LEMMA SubmitDraftKeeps ==
  ASSUME FrontDoorInv, NEW c \in Call, about = "placing",
         SubmitDraft(c), UNCHANGED <<ordersVars, paymentVars, about>>
  PROVE  FrontDoorInv'
<1>1. CallsInv /\ PlacementsInv /\ OrdersInv /\ DraftsInv /\ PaymentsInv /\ ReplenishInv
  BY DEF FrontDoorInv
<1>2. /\ draft' = [draft EXCEPT !.submitAttempted = TRUE] /\ added' = added
      /\ ordersVars' = ordersVars /\ about' = about /\ faults' = faults
  BY DEF SubmitDraft
<1>3. CASE UNCHANGED call
  <2>1. DraftsInv'
    BY <1>1, <1>2, <1>3, DraftShown
  <2>2. \A d \in Call : keeps(d) /\ settles(d)
    BY <1>3 DEF keeps, settles, replies, rejected, used
  <2>3. CallsInv'
    BY <1>1, <1>2, <1>3 DEF CallsInv, used, validCall, explained
  <2>4. OrdersInv'
    <3>1. committedNext' = committedNext
      BY <1>2 DEF committedNext, ordersVars
    <3> QED
      BY <1>1, <1>2, <2>2, <3>1, OrdersStand DEF ordersVars
  <2>5. PlacementsInv'
    <3>1. \A d \in Call : placing[d] # NotPlacing => call'[d].stage = "asked"
      BY <1>1, <1>3 DEF PlacementsInv, onItsWay, stageIs
    <3> QED
      BY <1>1, <1>2, <2>2, <3>1, PlacementsStand DEF ordersVars
  <2>6. PaymentsInv'
    BY <1>1, <1>2, <2>2, UnaskedPayments
  <2>7. ReplenishInv'
    BY <1>1, <1>2, <1>3, <2>2, ReplenishStand
  <2> QED
    BY <2>1, <2>3, <2>4, <2>5, <2>6, <2>7 DEF FrontDoorInv
<1>4. CASE post(c, fromDraft(draft.number), payload(draft.form, freshKey(c)),
                acceptable(payload(draft.form, freshKey(c))), "asked")
  <2>1. PICK from, command, stage :
          from = fromDraft(draft.number) /\ command = payload(draft.form, c) /\ stage = "asked"
    OBVIOUS
  <2>2. PICK r : arrives(c, r, from, command, stage)
    <3>1. posted(c, from, command, stage)
      BY <1>4, <2>1 DEF post, posted, freshKey
    <3> QED
      BY <3>1, Posted
  <2>3. command.kind = kindOf[about] /\ command.requestId = c
    BY <2>1 DEF kindOf, payload
  <2>4. /\ call[c] = Unused /\ r # Unused /\ r.from = fromDraft(draft.number) /\ r.command = command
        /\ r.answer.status \in {0, 400, 401}
        /\ \A d \in Call : call'[d] = IF d = c THEN r ELSE call[d]
        /\ \A d \in Call : keeps(d)
        /\ CallsInv' /\ OrdersInv' /\ PlacementsInv' /\ ReplenishInv'
    BY <1>2, <2>1, <2>2, <2>3, Arrives
  <2>5. PaymentsInv'
    BY <1>1, <2>4, UnaskedPayments
  <2>6. /\ draft' = [number |-> draft'.number, form |-> draft'.form,
                     submitAttempted |-> draft'.submitAttempted]
        /\ draft'.number = draft.number /\ draft'.form = draft.form
        /\ draft.number \in Nat /\ "lines" \in DOMAIN draft.form
    BY <1>1, <1>2 DEF DraftsInv
  <2>7. ~told(c)' /\ onPage(c)'
    BY <2>4 DEF told, onPage, used, fromDraft
  <2>8. ASSUME NEW d \in Call, d # c
        PROVE  call'[d] = call[d]
    BY <2>4, <2>8
  <2>9. ASSUME NEW d \in Call, onPage(d)'
        PROVE  /\ about' = "placing" /\ call'[d].command.requestId = d
               /\ call'[d].from = fromDraft(call'[d].from.draft) /\ call'[d].from.draft \in 0..draft'.number
               /\ told(d)' /\ call'[d].from.draft = draft'.number => draft'.form.lines = <<>>
    <3>1. CASE d = c
      BY <1>2, <2>3, <2>4, <2>6, <2>7, <3>1 DEF fromDraft
    <3>2. CASE d # c
      <4>1. call'[d] = call[d]
        BY <2>8, <3>2
      <4>2. onPage(d) /\ (told(d)' <=> told(d))
        BY <2>9, <4>1 DEF onPage, used, told, answered
      <4> QED
        BY <1>1, <1>2, <2>6, <4>1, <4>2 DEF DraftsInv, placement
    <3> QED
      BY <3>1, <3>2
  <2>10. ASSUME NEW d \in Call, used(d)', ~onPage(d)'
         PROVE  call'[d].command.requestId \notin Call
    <3>1. d # c
      BY <2>7, <2>10
    <3>2. call'[d] = call[d]
      BY <2>8, <3>1
    <3>3. used(d) /\ ~onPage(d)
      BY <2>10, <3>2 DEF onPage, used
    <3> QED
      BY <1>1, <3>2, <3>3 DEF DraftsInv, placement
  <2>11. ASSUME NEW d \in Call, onPage(d)', d # c, call'[c].from = call'[d].from
         PROVE  rejected(c)' \/ rejected(d)' \/ failed(d)'
    <3>1. call'[d] = call[d]
      BY <2>8, <2>11
    <3>2. onPage(d) /\ call[d].from = fromDraft(draft.number)
      BY <2>4, <2>11, <3>1 DEF onPage, used
    <3>3. answered(d)
      <4>1. ~open(d)
        BY <3>2 DEF SubmitDraft, isPending
      <4> QED
        BY <3>2, <4>1 DEF open, answered, onPage
    <3>4. CASE told(d)
      <4>1. draft.form.lines = <<>>
        BY <1>1, <3>2, <3>4 DEF DraftsInv, fromDraft
      <4>2. ~acceptable(command)
        BY <2>1, <4>1, EmptyDraft
      <4>3. call'[c].answer.status \in {400, 401}
        <5>1. unauthorized(c, from, command) \/ Refuse(c, from, command, 400, "VALIDATION_FAILED")
          BY <1>4, <2>1, <4>2 DEF post, freshKey
        <5> QED
          BY <1>1, <5>1 DEF unauthorized, Refuse, CallsInv
      <4> QED
        BY <4>3 DEF rejected
    <3>5. CASE ~told(d)
      <4>1. validCall(call[d]) /\ call[d].answer # NoAnswer
        BY <1>1, <3>2, <3>3 DEF CallsInv, onPage, answered
      <4>2. call[d].answer.status \in {500, 503} \/ call[d].answer.status \in 400..499
        BY <3>3, <3>5, <4>1, AnswerStatus DEF told
      <4>3. answered(d)'
        BY <3>1, <3>3 DEF answered, used
      <4> QED
        BY <3>1, <4>2, <4>3 DEF rejected, failed
    <3> QED
      BY <3>4, <3>5
  <2>12. ASSUME NEW d \in Call, NEW e \in Call, onPage(d)', onPage(e)', d # e,
                call'[d].from = call'[e].from
         PROVE  rejected(d)' \/ rejected(e)' \/ failed(d)' \/ failed(e)'
    <3>1. CASE d = c
      BY <2>11, <2>12, <3>1
    <3>2. CASE e = c
      BY <2>11, <2>12, <3>2
    <3>3. CASE d # c /\ e # c
      <4>1. call'[d] = call[d] /\ call'[e] = call[e]
        BY <2>8, <3>3
      <4>2. onPage(d) /\ onPage(e) /\ call[d].from = call[e].from
        BY <2>12, <4>1 DEF onPage, used
      <4>3. rejected(d) \/ rejected(e) \/ failed(d) \/ failed(e)
        BY <1>1, <2>12, <4>2 DEF DraftsInv
      <4> QED
        BY <4>1, <4>3, SMTT(60) DEF rejected, failed, answered, used
    <3> QED
      BY <3>1, <3>2, <3>3
  <2>13. DraftsInv'
    BY <2>6, <2>9, <2>10, <2>12 DEF DraftsInv, placement
  <2> QED
    BY <2>4, <2>5, <2>13 DEF FrontDoorInv
<1> QED
  BY <1>3, <1>4 DEF SubmitDraft

LEMMA EditDraftKeeps ==
  ASSUME FrontDoorInv, EditDraft, UNCHANGED <<ordersVars, paymentVars, about>>
  PROVE  FrontDoorInv'
<1>1. CallsInv /\ PlacementsInv /\ OrdersInv /\ DraftsInv /\ PaymentsInv /\ ReplenishInv
  BY DEF FrontDoorInv
<1>2. PICK form \in Draft :
        draft' = [number |-> draft.number + 1, form |-> form, submitAttempted |-> FALSE]
  BY DEF EditDraft
<1>3. call' = call /\ added' = added /\ about' = about /\ ordersVars' = ordersVars
  BY DEF EditDraft, gatewayVars
<1>4. \A d \in Call : keeps(d) /\ settles(d)
  BY <1>3 DEF keeps, settles, replies, rejected, used
<1>5. CallsInv'
  BY <1>1, <1>3 DEF CallsInv, used, validCall, explained
<1>6. OrdersInv'
  <2>1. committedNext' = committedNext
    BY <1>3 DEF committedNext, ordersVars
  <2> QED
    BY <1>1, <1>3, <1>4, <2>1, OrdersStand DEF ordersVars
<1>7. PlacementsInv'
  <2>1. \A d \in Call : placing[d] # NotPlacing => call'[d].stage = "asked"
    BY <1>1, <1>3 DEF PlacementsInv, onItsWay, stageIs
  <2> QED
    BY <1>1, <1>3, <1>4, <2>1, PlacementsStand DEF ordersVars
<1>8. PaymentsInv'
  <2>1. issued' \in Nat /\ issued' >= issued
    BY <1>1 DEF PaymentsInv, paymentVars
  <2>2. \A d \in Call : paysOn(d)
    BY <1>3 DEF paysOn, used
  <2> QED
    BY <1>1, <1>3, <1>4, <2>1, <2>2, PaymentsStand DEF paymentVars
<1>9. ReplenishInv'
  BY <1>1, <1>3, <1>4, ReplenishStand
<1>10. DraftsInv'
  <2>1. /\ draft' = [number |-> draft'.number, form |-> draft'.form,
                     submitAttempted |-> draft'.submitAttempted]
        /\ draft'.number = draft.number + 1 /\ draft.number \in Nat /\ "lines" \in DOMAIN draft'.form
    BY <1>1, <1>2, OperatorAssumption DEF DraftsInv
  <2>2. \A c \in Call :
          /\ (onPage(c)' <=> onPage(c)) /\ (used(c)' <=> used(c)) /\ (told(c)' <=> told(c))
          /\ (rejected(c)' <=> rejected(c)) /\ (failed(c)' <=> failed(c))
    BY <1>3 DEF onPage, used, told, rejected, failed, answered
  <2>3. ASSUME NEW c \in Call, onPage(c)
        PROVE  /\ about' = "placing" /\ call'[c].command.requestId = c
               /\ call'[c].from = fromDraft(call'[c].from.draft) /\ call'[c].from.draft \in 0..draft'.number
               /\ call'[c].from.draft # draft'.number
    BY <1>1, <1>3, <2>1, <2>3 DEF DraftsInv, placement
  <2>4. \A c \in Call : used(c)' /\ about' = "placing" /\ ~onPage(c)' =>
          call'[c].command.requestId \notin Call
    BY <1>1, <1>3, <2>2 DEF DraftsInv, placement
  <2>5. \A c, d \in Call :
          onPage(c)' /\ onPage(d)' /\ c # d /\ call'[c].from = call'[d].from =>
            rejected(c)' \/ rejected(d)' \/ failed(c)' \/ failed(d)'
    BY <1>1, <1>3, <2>2 DEF DraftsInv
  <2> QED
    BY <2>1, <2>2, <2>3, <2>4, <2>5 DEF DraftsInv, placement
<1> QED
  BY <1>5, <1>6, <1>7, <1>8, <1>9, <1>10 DEF FrontDoorInv

-----------------------------------------------------------------------------
(* A service replies.                                                      *)

(* A reply to a request that asked: the call as it is then.                *)
replied(c, r, reply) ==
  r = [stage |-> "replied", from |-> call[c].from, command |-> call[c].command, reply |-> reply,
       answer |-> call[c].answer]

LEMMA Replied ==
  ASSUME CallsInv, NEW c \in Call, stageIs(c, "asked"), NEW reply, reply # NoReply,
         call' = withReply(c, reply)
  PROVE  /\ used(c) /\ validCall(call[c])
         /\ \E r : /\ replied(c, r, reply) /\ validCall(r) /\ r # Unused
                   /\ call' = [call EXCEPT ![c] = r]
                   /\ \A d \in Call : call'[d] = IF d = c THEN r ELSE call[d]
<1>1. used(c)
  BY DEF stageIs, used, Unused
<1>2. validCall(call[c])
  BY <1>1, CallFields
<1>3. PICK r : r = [call[c] EXCEPT !.stage = "replied", !.reply = reply]
  OBVIOUS
<1>4. replied(c, r, reply)
  BY <1>2, <1>3 DEF validCall, replied
<1>5. validCall(r)
  BY <1>2, <1>4 DEF replied, validCall, explained, stageIs
<1>6. call' = [call EXCEPT ![c] = r]
  BY <1>3 DEF withReply, CallsInv
<1>7. \A d \in Call : call'[d] = IF d = c THEN r ELSE call[d]
  BY <1>6, CallAfter
<1>8. r # Unused
  BY <1>5, UnusedCalls
<1> QED
  BY <1>1, <1>2, <1>4, <1>5, <1>6, <1>7, <1>8

LEMMA ReplenishKeeps ==
  ASSUME FrontDoorInv, NEW c \in Call, ReplenishStock(c),
         UNCHANGED <<ordersVars, paymentVars, about>>
  PROVE  FrontDoorInv'
<1>1. CallsInv /\ PlacementsInv /\ OrdersInv /\ DraftsInv /\ PaymentsInv /\ ReplenishInv
  BY DEF FrontDoorInv
<1>2. /\ stageIs(c, "asked") /\ call[c].command.kind = "replenish"
      /\ added' = added \union {c} /\ draft' = draft /\ ordersVars' = ordersVars /\ about' = about
  BY DEF ReplenishStock, asked
<1>3. PICK reply : /\ call' = withReply(c, reply)
                   /\ reply.code \in {"DONE", "INTERNAL_ERROR"}
  BY DEF ReplenishStock, Done, RpcError
<1>4. reply # NoReply
  BY <1>3 DEF NoReply
<1>5. used(c) /\ validCall(call[c])
  BY <1>1, <1>2, <1>3, <1>4, Replied
<1>6. PICK r : /\ replied(c, r, reply) /\ validCall(r) /\ r # Unused
               /\ call' = [call EXCEPT ![c] = r]
               /\ \A d \in Call : call'[d] = IF d = c THEN r ELSE call[d]
  BY <1>1, <1>2, <1>3, <1>4, Replied
<1>7. about = "replenishing"
  BY <1>1, <1>2, <1>5 DEF validCall, kindOf, CallsInv
<1>8. /\ r.stage = "replied" /\ r.from = call[c].from /\ r.command = call[c].command
      /\ r.reply = reply /\ r.answer = call[c].answer /\ call[c].stage = "asked"
  BY <1>2, <1>6 DEF replied, stageIs
<1>9. \A d \in Call : d # c => call'[d] = call[d]
  BY <1>6
<1>10. \A d \in Call : keeps(d) /\ settles(d)
  <2>1. keeps(c)
    BY <1>6, <1>8 DEF keeps
  <2>2. settles(c)
    BY <1>5, <1>6, <1>7, <1>8 DEF settles, replies
  <2>3. \A d \in Call : d # c => keeps(d) /\ settles(d)
    BY <1>9 DEF keeps, settles, replies, rejected, used
  <2> QED
    BY <2>1, <2>2, <2>3
<1>11. CallsInv'
  BY <1>1, <1>2, <1>6, CallsKeep
<1>12. OrdersInv'
  <2>1. committedNext' = committedNext
    BY <1>2 DEF committedNext, ordersVars
  <2> QED
    BY <1>1, <1>2, <1>10, <2>1, OrdersStand DEF ordersVars
<1>13. PlacementsInv'
  <2>1. \A d \in Call : placing[d] # NotPlacing => call'[d].stage = "asked"
    BY <1>1, <1>7 DEF PlacementsInv, onItsWay
  <2> QED
    BY <1>1, <1>2, <1>10, <2>1, PlacementsStand DEF ordersVars
<1>14. DraftsInv'
  <2>1. \A d \in Call : elsewhere(d)
    BY <1>5, <1>9 DEF elsewhere, used
  <2>2. ASSUME NEW d \in Call, used(d), ~answered(d)
        PROVE  call'[d].answer.status # 200
    <3>1. call'[d].answer = call[d].answer
      BY <1>6, <1>8
    <3> QED
      BY <2>2, <3>1 DEF answered, NoAnswer
  <2> QED
    BY <1>1, <1>2, <1>10, <2>1, <2>2, DraftsStand
<1>15. PaymentsInv'
  BY <1>1, <1>7, <1>10, UnaskedPayments
<1>16. ReplenishInv'
  <2>1. ASSUME NEW d \in Call
        PROVE  /\ d \in added' => /\ used(d)' /\ call'[d].stage \in {"replied", "over"}
                                  /\ ~rejected(d)' /\ about' = "replenishing"
               /\ used(d)' /\ about' = "replenishing" =>
                    /\ call'[d].reply.code \in {"none", "DONE", "INTERNAL_ERROR"}
                    /\ call'[d].reply.code = "DONE" => d \in added'
    <3>1. CASE d = c
      <4>1. call[c].answer.status \notin 400..499
        <5>1. explained(call[c]) /\ call[c].stage = "asked"
          BY <1>5, <1>8 DEF validCall
        <5> QED
          BY <5>1, AnswerCodes DEF explained, NoAnswer
      <4> QED
        BY <1>2, <1>3, <1>6, <1>7, <1>8, <3>1, <4>1 DEF rejected, used
    <3>2. CASE d # c
      BY <1>1, <1>2, <1>9, <3>2 DEF ReplenishInv, rejected, used
    <3> QED
      BY <3>1, <3>2
  <2> QED
    BY <2>1 DEF ReplenishInv
<1> QED
  BY <1>11, <1>12, <1>13, <1>14, <1>15, <1>16 DEF FrontDoorInv

-----------------------------------------------------------------------------
(* Paying.                                                                 *)

(* A payment's call goes on; the other parts only see that.                *)
LEMMA PaymentCall ==
  ASSUME FrontDoorInv, about = "paying", NEW c \in Call, used(c),
         call[c].stage \in {"resolving", "asked"}, NEW r, validCall(r),
         r.from = call[c].from, r.command = call[c].command,
         answered(c) => r.answer = call[c].answer,
         r.answer = call[c].answer \/ r.answer.status # 200,
         call' = [call EXCEPT ![c] = r], UNCHANGED <<ordersVars, pageVars, about>>,
         PaymentsInv'
  PROVE  FrontDoorInv'
<1>1. CallsInv /\ PlacementsInv /\ OrdersInv /\ DraftsInv /\ ReplenishInv
  BY DEF FrontDoorInv
<1>2. \A d \in Call : call'[d] = IF d = c THEN r ELSE call[d]
  BY <1>1, CallAfter, ZenonT(60)
<1>3. r # Unused
  BY UnusedCalls
<1>4. \A d \in Call : d # c => call'[d] = call[d]
  BY <1>2
<1>5. \A d \in Call : keeps(d) /\ settles(d)
  <2>1. keeps(c) /\ settles(c)
    BY <1>2, <1>3 DEF keeps, settles, replies
  <2>2. \A d \in Call : d # c => keeps(d) /\ settles(d)
    BY <1>4 DEF keeps, settles, replies, rejected, used
  <2> QED
    BY <2>1, <2>2
<1>6. CallsInv'
  BY <1>1, CallsKeep
<1>7. OrdersInv'
  <2>1. committedNext' = committedNext
    BY DEF committedNext, ordersVars
  <2> QED
    BY <1>1, <1>5, <2>1, OrdersStand DEF ordersVars
<1>8. PlacementsInv'
  <2>1. \A d \in Call : placing[d] # NotPlacing => call'[d].stage = "asked"
    BY <1>1 DEF PlacementsInv, onItsWay
  <2> QED
    BY <1>1, <1>5, <2>1, PlacementsStand DEF ordersVars
<1>9. DraftsInv'
  <2>1. \A d \in Call : elsewhere(d)
    BY <1>4 DEF elsewhere, used
  <2>2. ASSUME NEW d \in Call, used(d), ~answered(d)
        PROVE  call'[d].answer.status # 200
    BY <1>2, <2>2 DEF answered, NoAnswer
  <2> QED
    BY <1>1, <1>5, <2>1, <2>2, DraftsStand DEF pageVars
<1>10. ReplenishInv'
  BY <1>1, <1>5, ReplenishStand DEF pageVars
<1> QED
  BY <1>6, <1>7, <1>8, <1>9, <1>10 DEF FrontDoorInv

LEMMA InvoicesKeep ==
  ASSUME FrontDoorInv, about = "paying", IssueInvoice \/ ProjectOrder,
         UNCHANGED <<ordersVars, pageVars, about>>
  PROVE  FrontDoorInv'
<1>1. CallsInv /\ PlacementsInv /\ OrdersInv /\ DraftsInv /\ PaymentsInv /\ ReplenishInv
  BY DEF FrontDoorInv
<1>2. /\ call' = call /\ payments' = payments /\ scan' = scan
      /\ issued' \in Nat /\ issued' >= issued
  BY <1>1 DEF IssueInvoice, ProjectOrder, gatewayVars, PaymentsInv
<1>3. \A d \in Call : keeps(d) /\ settles(d) /\ paysOn(d) /\ elsewhere(d)
  BY <1>2 DEF keeps, settles, replies, rejected, used, paysOn, elsewhere
<1>4. CallsInv'
  BY <1>1, <1>2 DEF CallsInv, used, validCall, explained
<1>5. OrdersInv'
  <2>1. committedNext' = committedNext
    BY DEF committedNext, ordersVars
  <2> QED
    BY <1>1, <1>3, <2>1, OrdersStand DEF ordersVars
<1>6. PlacementsInv'
  <2>1. \A d \in Call : placing[d] # NotPlacing => call'[d].stage = "asked"
    BY <1>1 DEF PlacementsInv, onItsWay
  <2> QED
    BY <1>1, <1>3, <2>1, PlacementsStand DEF ordersVars
<1>7. DraftsInv'
  <2>1. ASSUME NEW d \in Call, used(d), ~answered(d)
        PROVE  call'[d].answer.status # 200
    BY <1>2, <2>1 DEF answered, NoAnswer
  <2> QED
    BY <1>1, <1>3, <2>1, DraftsStand DEF pageVars
<1>8. PaymentsInv'
  BY <1>1, <1>2, <1>3, PaymentsStand
<1>9. ReplenishInv'
  BY <1>1, <1>2, <1>3, ReplenishStand DEF pageVars
<1> QED
  BY <1>4, <1>5, <1>6, <1>7, <1>8, <1>9 DEF FrontDoorInv

(* An invoice that is not on a page it could be on is past it, and the     *)
(* page is full.                                                           *)
LEMMA PastThePage ==
  ASSUME issued \in Nat, NEW page \in Nat \ {0}, NEW n \in 1..issued,
         (page - 1) * INVOICE_SCAN_PAGE_SIZE < issued + 1 - n,
         ~Contains(invoicePage(page), n)
  PROVE  /\ page * INVOICE_SCAN_PAGE_SIZE < issued + 1 - n
         /\ ~(Len(invoicePage(page)) < INVOICE_SCAN_PAGE_SIZE)
<1> DEFINE P == INVOICE_SCAN_PAGE_SIZE
           start == (page - 1) * P
           last == IF start + P < issued THEN start + P ELSE issued
           newestFirst == [i \in 1..issued |-> issued + 1 - i]
           items == [k \in 1..last - start |-> newestFirst[k + start]]
<1>1. P \in Nat \ {0} /\ start \in Nat /\ page * P = start + P
  BY ScanAssumption
<1>2. start < issued
  BY <1>1
<1>3. last \in Nat /\ last > start /\ last <= issued
  BY <1>1, <1>2
<1>4. invoicePage(page) = items
  <2>1. invoicePage(page) = SubSeq(newestFirst, start + 1, last)
    BY DEF invoicePage
  <2>2. newestFirst \in Seq(Int)
    OBVIOUS
  <2> HIDE DEF newestFirst, start, last, P
  <2>3. SubSeq(newestFirst, start + 1, last) = [k \in 1..last - start |-> newestFirst[k + start]]
    BY <1>1, <1>3, <2>2 DEF SubSeq
  <2> QED
    BY <2>1, <2>3
<1>5. /\ Len(invoicePage(page)) = last - start
      /\ \A k \in 1..last - start : invoicePage(page)[k] = issued + 1 - (k + start)
  <2>1. Len(items) = last - start
    BY <1>1, <1>3
  <2>2. \A k \in 1..last - start : items[k] = issued + 1 - (k + start)
    BY <1>1, <1>3
  <2> QED
    BY <1>4, <2>1, <2>2
<1>6. \A k \in 1..last - start : issued + 1 - (k + start) # n
  BY <1>5 DEF Contains
<1> HIDE DEF start, last, P
<1>7. ~(issued + 1 - n \in start + 1..last)
  <2>1. SUFFICES ASSUME issued + 1 - n \in start + 1..last
                 PROVE  FALSE
    OBVIOUS
  <2>2. issued + 1 - n - start \in 1..last - start
    BY <1>1, <1>3, <2>1
  <2>3. issued + 1 - ((issued + 1 - n - start) + start) = n
    BY <1>1
  <2> QED
    BY <1>6, <2>2, <2>3
<1>8. issued + 1 - n > last
  BY <1>1, <1>3, <1>7 DEF start, P
<1>9. last = start + P
  BY <1>1, <1>3, <1>8 DEF last
<1> QED
  BY <1>1, <1>5, <1>8, <1>9 DEF P

(* What PaymentsInv says of one call.                                      *)
pays(r, page) ==
  /\ r.command.invoice \in Nat /\ r.command.reference \in Reference
  /\ r.command.existed => r.command.invoice \in 1..issued
  /\ r.command.existed /\ r.stage = "resolving" =>
       (page - 1) * INVOICE_SCAN_PAGE_SIZE < issued + 1 - r.command.invoice
  /\ r.reply.code # "NOT_FOUND"
  /\ r.reply.code = "DONE" =>
       [invoice |-> r.command.invoice, reference |-> r.command.reference] \in payments
  /\ r.answer # NoAnswer /\ r.answer.code = "NOT_FOUND" => ~r.command.existed

LEMMA CallPays ==
  ASSUME PaymentsInv, about = "paying", NEW c \in Call, used(c)
  PROVE  pays(call[c], scan[c])
BY DEF PaymentsInv, pays

LEMMA PaymentsKeep ==
  ASSUME PaymentsInv, NEW c \in Call, used(c), NEW r,
         \A d \in Call : call'[d] = IF d = c THEN r ELSE call[d],
         NEW page \in Nat \ {0}, scan' = [scan EXCEPT ![c] = page],
         payments' = payments, issued' = issued, about' = about,
         about = "paying", pays(r, page), r # Unused
  PROVE  PaymentsInv'
<1>1. scan' \in [Call -> Nat \ {0}] /\ scan'[c] = page /\ \A d \in Call : d # c => scan'[d] = scan[d]
  BY DEF PaymentsInv
<1>2. \A d \in Call : d # c => call'[d] = call[d]
  OBVIOUS
<1>3. ASSUME NEW d \in Call, ~used(d)'
      PROVE  scan'[d] = 1
  <2>1. d # c
    BY <1>3 DEF used
  <2> QED
    BY <1>1, <1>2, <1>3, <2>1 DEF used, PaymentsInv
<1>4. ASSUME NEW d \in Call, used(d)'
      PROVE  /\ call'[d].command.invoice \in Nat /\ call'[d].command.reference \in Reference
             /\ call'[d].command.existed => call'[d].command.invoice \in 1..issued'
             /\ call'[d].command.existed /\ call'[d].stage = "resolving" =>
                  (scan'[d] - 1) * INVOICE_SCAN_PAGE_SIZE < issued' + 1 - call'[d].command.invoice
             /\ call'[d].reply.code # "NOT_FOUND"
             /\ call'[d].reply.code = "DONE" =>
                  [invoice |-> call'[d].command.invoice, reference |-> call'[d].command.reference]
                    \in payments'
             /\ call'[d].answer # NoAnswer /\ call'[d].answer.code = "NOT_FOUND" =>
                  ~call'[d].command.existed
  <2>1. PICK s, k : s = call'[d] /\ k = scan'[d]
    OBVIOUS
  <2>2. pays(s, k)
    <3>1. CASE d = c
      BY <1>1, <2>1, <3>1
    <3>2. CASE d # c
      <4>1. s = call[d] /\ k = scan[d] /\ used(d)
        BY <1>1, <1>2, <1>4, <2>1, <3>2 DEF used
      <4> QED
        BY <4>1, CallPays
    <3> QED
      BY <3>1, <3>2
  <2> QED
    BY <2>1, <2>2 DEF pays
<1> QED
  BY <1>1, <1>3, <1>4 DEF PaymentsInv

LEMMA ResolveKeeps ==
  ASSUME FrontDoorInv, about = "paying", NEW c \in Call, resolveOrderReference(c),
         UNCHANGED <<ordersVars, pageVars, about>>
  PROVE  FrontDoorInv'
<1>1. CallsInv /\ PlacementsInv /\ OrdersInv /\ DraftsInv /\ PaymentsInv /\ ReplenishInv
  BY DEF FrontDoorInv
<1>2. used(c) /\ call[c].answer = NoAnswer /\ call[c].stage = "resolving"
  BY DEF resolveOrderReference, resolving, open, stageIs
<1>3. validCall(call[c]) /\ call[c].reply = NoReply
  BY <1>1, <1>2, CallFields DEF validCall
<1>4. pays(call[c], scan[c])
  BY <1>1, <1>2, CallPays
<1>5. issued' = issued /\ projected' = projected /\ payments' = payments
      /\ issued \in Nat /\ scan \in [Call -> Nat \ {0}]
  BY <1>1 DEF resolveOrderReference, PaymentsInv
<1> DEFINE items == invoicePage(scan[c])
           n == call[c].command.invoice
<1>6. CASE Contains(items, n) /\ call' = withStage(c, "asked") /\ UNCHANGED scan
  <2>1. PICK r : r = [call[c] EXCEPT !.stage = "asked"]
    OBVIOUS
  <2>2. call' = [call EXCEPT ![c] = r]
    BY <1>1, <1>6, <2>1 DEF withStage, CallsInv
  <2>3. /\ r = [stage |-> r.stage, from |-> r.from, command |-> r.command, reply |-> r.reply,
                answer |-> r.answer]
        /\ r.stage = "asked" /\ r.from = call[c].from /\ r.command = call[c].command
        /\ r.reply = NoReply /\ r.answer = NoAnswer
    BY <1>2, <1>3, <2>1 DEF validCall
  <2>4. validCall(r)
    BY <1>3, <2>3 DEF validCall, explained
  <2>5. pays(r, scan[c])
    BY <1>4, <2>3 DEF pays, NoReply
  <2>6. scan' = [scan EXCEPT ![c] = scan[c]] /\ scan[c] \in Nat \ {0}
    BY <1>5, <1>6
  <2>7. PaymentsInv'
    <3>1. \A d \in Call : call'[d] = IF d = c THEN r ELSE call[d]
      BY <1>1, <2>2, CallAfter
    <3>2. r # Unused
      BY <2>4, UnusedCalls
    <3>3. PICK page \in Nat \ {0} : page = scan[c]
      BY <2>6
    <3> QED
      BY <1>1, <1>2, <1>5, <2>5, <2>6, <3>1, <3>2, <3>3, PaymentsKeep
  <2> QED
    BY <1>2, <2>2, <2>3, <2>4, <2>7, PaymentCall
<1>7. CASE ~Contains(items, n) /\ miss(c, items) = "nextPage"
           /\ scan' = [scan EXCEPT ![c] = @ + 1] /\ UNCHANGED call
  <2>1. PICK page \in Nat \ {0} : page = scan[c]
    BY <1>5
  <2>2. PICK r : r = call[c]
    OBVIOUS
  <2>3. call' = [call EXCEPT ![c] = r] /\ \A d \in Call : call'[d] = IF d = c THEN r ELSE call[d]
    BY <1>1, <1>7, <2>2 DEF CallsInv
  <2>4. pays(r, page + 1)
    <3>1. call[c].command.existed =>
            page * INVOICE_SCAN_PAGE_SIZE < issued + 1 - call[c].command.invoice
      BY <1>2, <1>4, <1>5, <1>7, <2>1, PastThePage DEF pays
    <3>2. (page + 1) - 1 = page
      BY <2>1
    <3> QED
      BY <1>4, <2>2, <3>1, <3>2 DEF pays
  <2>5. PaymentsInv'
    <3>1. scan' = [scan EXCEPT ![c] = page + 1] /\ page + 1 \in Nat \ {0}
      BY <1>7, <2>1
    <3>2. r # Unused
      BY <1>2, <2>2 DEF used
    <3>3. PICK next \in Nat \ {0} : next = page + 1
      BY <3>1
    <3> QED
      BY <1>1, <1>2, <1>5, <2>3, <2>4, <3>1, <3>2, <3>3, PaymentsKeep
  <2> QED
    BY <1>2, <1>3, <2>2, <2>3, <2>5, PaymentCall
<1>8. ASSUME NEW code, over(c, code), UNCHANGED scan,
             code \in {"UNAVAILABLE", "SCAN_BUDGET_EXCEEDED", "NOT_FOUND"},
             code = "NOT_FOUND" => ~call[c].command.existed
      PROVE  FrontDoorInv'
  <2>1. PICK r : r = [call[c] EXCEPT !.stage = "over", !.answer = classifyRpcError(code)]
    OBVIOUS
  <2>2. call' = [call EXCEPT ![c] = r]
    BY <1>1, <1>8, <2>1 DEF over, CallsInv
  <2>3. /\ r = [stage |-> r.stage, from |-> r.from, command |-> r.command, reply |-> r.reply,
                answer |-> r.answer]
        /\ r.stage = "over" /\ r.from = call[c].from /\ r.command = call[c].command
        /\ r.reply = NoReply /\ r.answer = classifyRpcError(code)
    BY <1>2, <1>3, <2>1 DEF validCall
  <2>4. r.answer.status \in {404, 503} /\ (r.answer.code = "NOT_FOUND" => code = "NOT_FOUND")
    BY <1>8, <2>3, AnswerCodes
  <2>5. validCall(r)
    BY <1>3, <2>3, <2>4 DEF validCall, explained
  <2>6. pays(r, scan[c])
    BY <1>4, <1>8, <2>3, <2>4 DEF pays, NoReply
  <2>7. scan' = [scan EXCEPT ![c] = scan[c]] /\ scan[c] \in Nat \ {0}
    BY <1>5, <1>8
  <2>8. PaymentsInv'
    <3>1. \A d \in Call : call'[d] = IF d = c THEN r ELSE call[d]
      BY <1>1, <2>2, CallAfter
    <3>2. r # Unused
      BY <2>5, UnusedCalls
    <3>3. PICK page \in Nat \ {0} : page = scan[c]
      BY <2>7
    <3> QED
      BY <1>1, <1>2, <1>5, <2>6, <2>7, <3>1, <3>2, <3>3, PaymentsKeep
  <2>9. ~answered(c) /\ r.answer.status # 200
    BY <1>2, <2>4 DEF answered
  <2> QED
    BY <1>2, <2>2, <2>3, <2>5, <2>8, <2>9, PaymentCall
<1>9. CASE over(c, "UNAVAILABLE") /\ UNCHANGED scan
  BY <1>8, <1>9
<1>10. CASE ~Contains(items, n) /\ miss(c, items) # "nextPage" /\ over(c, miss(c, items))
            /\ UNCHANGED scan
  <2>1. PICK code : code = miss(c, items)
    OBVIOUS
  <2>2. code \in {"SCAN_BUDGET_EXCEEDED", "NOT_FOUND"}
        /\ (code = "NOT_FOUND" => Len(items) < INVOICE_SCAN_PAGE_SIZE)
    BY <1>10, <2>1 DEF miss
  <2>3. code = "NOT_FOUND" => ~call[c].command.existed
    <3>1. PICK page \in Nat \ {0} : page = scan[c]
      BY <1>5
    <3> QED
      BY <1>2, <1>4, <1>5, <1>10, <2>2, <3>1, PastThePage DEF pays
  <2> QED
    BY <1>8, <1>10, <2>1, <2>2, <2>3
<1> QED
  BY <1>6, <1>7, <1>9, <1>10 DEF resolveOrderReference

(* A payment is added only when neither its reference nor its invoice has  *)
(* one.                                                                    *)
LEMMA PaymentOutcome ==
  ASSUME PaymentsInv, NEW command, command.invoice \in Nat, command.reference \in Reference,
         NEW outcome, outcome = paymentOutcome(command)
  PROVE  /\ outcome \in {"duplicate", "PAYMENT_REFERENCE_CONFLICT", "INVOICE_ALREADY_PAID",
                         "INVOICE_PAYMENT_AMOUNT_MISMATCH", "accepted"}
         /\ outcome = "duplicate" =>
              [invoice |-> command.invoice, reference |-> command.reference] \in payments
         /\ outcome = "accepted" =>
              \A p \in payments : p.invoice # command.invoice /\ p.reference # command.reference
<1>1. CASE \E p \in paidWith(command.reference) : p.invoice = command.invoice
  <2>1. PICK p \in payments : p.reference = command.reference /\ p.invoice = command.invoice
    BY <1>1 DEF paidWith
  <2>2. p = [invoice |-> command.invoice, reference |-> command.reference]
    BY <2>1 DEF PaymentsInv
  <2>3. outcome = "duplicate"
    <3>1. paidWith(command.reference) # {}
          /\ ~\E q \in paidWith(command.reference) : q.invoice # command.invoice
      BY <2>1 DEF paidWith, PaymentsInv
    <3> QED
      BY <1>1, <3>1 DEF paymentOutcome
  <2> QED
    BY <2>1, <2>2, <2>3
<1>2. CASE ~\E p \in paidWith(command.reference) : p.invoice = command.invoice
  <2>1. CASE \E p \in paidWith(command.reference) : p.invoice # command.invoice
    <3>1. outcome = "PAYMENT_REFERENCE_CONFLICT"
      BY <1>2, <2>1 DEF paymentOutcome
    <3> QED
      BY <3>1
  <2>2. CASE ~\E p \in paidWith(command.reference) : p.invoice # command.invoice
    <3>1. paidWith(command.reference) = {}
      BY <1>2, <2>2
    <3>2. outcome = IF paidInvoice(command.invoice) # {} THEN "INVOICE_ALREADY_PAID"
                    ELSE IF command.amount # InvoiceTotal THEN "INVOICE_PAYMENT_AMOUNT_MISMATCH"
                    ELSE "accepted"
      BY <3>1 DEF paymentOutcome
    <3>3. outcome = "accepted" => paidInvoice(command.invoice) = {}
      BY <3>2
    <3> QED
      BY <3>1, <3>2, <3>3 DEF paidWith, paidInvoice
  <2> QED
    BY <2>1, <2>2
<1> QED
  BY <1>1, <1>2

LEMMA RegisterKeeps ==
  ASSUME FrontDoorInv, about = "paying", NEW c \in Call, RegisterPayment(c),
         UNCHANGED <<ordersVars, pageVars, about>>
  PROVE  FrontDoorInv'
<1>1. CallsInv /\ PlacementsInv /\ OrdersInv /\ DraftsInv /\ PaymentsInv /\ ReplenishInv
  BY DEF FrontDoorInv
<1>2. stageIs(c, "asked") /\ call[c].stage = "asked"
  BY DEF RegisterPayment, paying, stageIs
<1>3. used(c)
  BY <1>2 DEF used, Unused
<1>4. pays(call[c], scan[c])
  BY <1>1, <1>3, CallPays
<1>5. PICK command, outcome : command = call[c].command /\ outcome = paymentOutcome(command)
  OBVIOUS
<1>6. PICK entry : entry = [invoice |-> command.invoice, reference |-> command.reference]
  OBVIOUS
<1>7. /\ command.invoice \in Nat /\ command.reference \in Reference
      /\ entry \in [invoice : Nat, reference : Reference]
      /\ entry.invoice = command.invoice /\ entry.reference = command.reference
  BY <1>4, <1>5, <1>6 DEF pays
<1>8. /\ outcome \in {"duplicate", "PAYMENT_REFERENCE_CONFLICT", "INVOICE_ALREADY_PAID",
                      "INVOICE_PAYMENT_AMOUNT_MISMATCH", "accepted"}
      /\ outcome = "duplicate" => entry \in payments
      /\ outcome = "accepted" =>
           \A p \in payments : p.invoice # command.invoice /\ p.reference # command.reference
  BY <1>1, <1>5, <1>6, <1>7, PaymentOutcome
<1>9. /\ payments' = IF outcome = "accepted" THEN payments \union {entry} ELSE payments
      /\ issued' = issued /\ scan' = scan /\ about' = about
  BY <1>5, <1>6 DEF RegisterPayment
<1>10. PICK reply : /\ call' = withReply(c, reply)
                    /\ reply.code \in {"DONE", "INTERNAL_ERROR", "PAYMENT_REFERENCE_CONFLICT",
                                       "INVOICE_ALREADY_PAID", "INVOICE_PAYMENT_AMOUNT_MISMATCH"}
                    /\ reply.code = "DONE" => outcome \in {"accepted", "duplicate"}
  <2>1. CASE call' = withReply(c, IF outcome \in {"accepted", "duplicate"}
                                  THEN Done(outcome) ELSE RpcError(outcome))
    BY <1>8, <2>1 DEF Done, RpcError
  <2>2. CASE call' = withReply(c, RpcError("INTERNAL_ERROR"))
    BY <2>2 DEF RpcError
  <2> QED
    BY <1>5, <2>1, <2>2 DEF RegisterPayment
<1>11. reply # NoReply
  BY <1>10 DEF NoReply
<1>12. PICK r : /\ replied(c, r, reply) /\ validCall(r) /\ r # Unused
                /\ call' = [call EXCEPT ![c] = r]
                /\ \A d \in Call : call'[d] = IF d = c THEN r ELSE call[d]
  BY <1>1, <1>2, <1>10, <1>11, Replied
<1>13. /\ r.stage = "replied" /\ r.from = call[c].from /\ r.command = call[c].command
       /\ r.reply = reply /\ r.answer = call[c].answer
  BY <1>12 DEF replied
<1>14. payments \subseteq payments' /\ (outcome \in {"accepted", "duplicate"} => entry \in payments')
  BY <1>8, <1>9
<1>15. /\ payments' \subseteq [invoice : Nat, reference : Reference]
       /\ \A p, q \in payments' : p.invoice = q.invoice \/ p.reference = q.reference => p = q
  <2>1. CASE outcome = "accepted"
    BY <1>1, <1>7, <1>8, <1>9, <2>1 DEF PaymentsInv
  <2>2. CASE outcome # "accepted"
    BY <1>1, <1>9, <2>2 DEF PaymentsInv
  <2> QED
    BY <2>1, <2>2
<1>16. PaymentsInv'
  <2>1. \A d \in Call : d # c => call'[d] = call[d]
    BY <1>12
  <2>2. ASSUME NEW d \in Call, ~used(d)'
        PROVE  scan'[d] = 1
    <3>1. d # c
      BY <1>12, <2>2 DEF used
    <3> QED
      BY <1>1, <1>9, <2>1, <2>2, <3>1 DEF used, PaymentsInv
  <2>3. ASSUME NEW d \in Call, used(d)'
        PROVE  /\ call'[d].command.invoice \in Nat /\ call'[d].command.reference \in Reference
               /\ call'[d].command.existed => call'[d].command.invoice \in 1..issued'
               /\ call'[d].command.existed /\ call'[d].stage = "resolving" =>
                    (scan'[d] - 1) * INVOICE_SCAN_PAGE_SIZE < issued' + 1 - call'[d].command.invoice
               /\ call'[d].reply.code # "NOT_FOUND"
               /\ call'[d].reply.code = "DONE" =>
                    [invoice |-> call'[d].command.invoice, reference |-> call'[d].command.reference]
                      \in payments'
               /\ call'[d].answer # NoAnswer /\ call'[d].answer.code = "NOT_FOUND" =>
                    ~call'[d].command.existed
    <3>1. CASE d = c
      <4>1. call'[d] = r
        BY <1>12, <3>1
      <4>2. r.reply.code = "DONE" => entry \in payments'
        BY <1>10, <1>13, <1>14
      <4> QED
        BY <1>4, <1>5, <1>6, <1>9, <1>10, <1>13, <4>1, <4>2 DEF pays
    <3>2. CASE d # c
      <4>1. call'[d] = call[d] /\ used(d)
        BY <2>1, <2>3, <3>2 DEF used
      <4>2. pays(call[d], scan[d])
        BY <1>1, <4>1, CallPays
      <4> QED
        BY <1>9, <1>14, <4>1, <4>2 DEF pays
    <3> QED
      BY <3>1, <3>2
  <2>4. issued' \in Nat /\ scan' \in [Call -> Nat \ {0}]
    BY <1>1, <1>9 DEF PaymentsInv
  <2> QED
    BY <1>15, <2>2, <2>3, <2>4 DEF PaymentsInv
<1> QED
  BY <1>2, <1>3, <1>12, <1>13, <1>16, PaymentCall

-----------------------------------------------------------------------------
(* Placing.                                                                *)

(* While a request is with its service the only answer it may have is that *)
(* the deadline passed.                                                    *)
LEMMA AskedAnswer ==
  ASSUME CallsInv, NEW c \in Call, stageIs(c, "asked")
  PROVE  /\ used(c) /\ validCall(call[c]) /\ call[c].stage = "asked" /\ call[c].reply = NoReply
         /\ call[c].answer = NoAnswer \/ call[c].answer = classifyRpcError("TIMEOUT")
         /\ call[c].answer.status \in {0, 503} /\ ~rejected(c)
<1>1. used(c) /\ call[c].stage = "asked"
  BY DEF stageIs, used, Unused
<1>2. validCall(call[c])
  BY <1>1, CallFields
<1>3. call[c].reply = NoReply /\ explained(call[c])
  BY <1>1, <1>2 DEF validCall
<1>4. call[c].answer = NoAnswer \/ call[c].answer = classifyRpcError("TIMEOUT")
  BY <1>1, <1>3 DEF explained
<1>5. call[c].answer.status \in {0, 503}
  BY <1>4, AnswerCodes DEF NoAnswer
<1> QED
  BY <1>1, <1>2, <1>3, <1>4, <1>5 DEF rejected

(* What a placement does to calls: nothing, or a reply, or their end.      *)
placesOn(d) ==
  /\ keeps(d) /\ settles(d)
  /\ used(d) => call'[d].answer = call[d].answer
  /\ ~used(d) => call'[d] = Unused

LEMMA PlacingStep ==
  ASSUME FrontDoorInv, about = "placing", \A d \in Call : placesOn(d),
         UNCHANGED <<paymentVars, pageVars, about>>, CallsInv', OrdersInv', PlacementsInv'
  PROVE  FrontDoorInv'
<1>1. DraftsInv /\ PaymentsInv /\ ReplenishInv
  BY DEF FrontDoorInv
<1>2. \A d \in Call : keeps(d) /\ settles(d)
  BY DEF placesOn
<1>3. DraftsInv'
  <2>1. \A d \in Call : elsewhere(d)
    BY DEF placesOn, elsewhere
  <2>2. ASSUME NEW d \in Call, used(d), ~answered(d)
        PROVE  call'[d].answer.status # 200
    BY <2>2 DEF placesOn, answered, NoAnswer
  <2> QED
    BY <1>1, <1>2, <2>1, <2>2, DraftsStand DEF pageVars
<1>4. PaymentsInv'
  BY <1>1, <1>2, UnaskedPayments
<1>5. ReplenishInv'
  BY <1>1, <1>2, ReplenishStand DEF pageVars
<1> QED
  BY <1>3, <1>4, <1>5 DEF FrontDoorInv

LEMMA UntouchedCalls ==
  ASSUME CallsInv, UNCHANGED <<call, about>>
  PROVE  CallsInv' /\ \A d \in Call : placesOn(d)
<1>1. \A d \in Call : placesOn(d)
  BY DEF placesOn, keeps, settles, replies, rejected, used
<1>2. CallsInv'
  BY DEF CallsInv, used, validCall, explained
<1> QED
  BY <1>1, <1>2

LEMMA PlacementReply ==
  ASSUME CallsInv, NEW c \in Call, stageIs(c, "asked"), NEW reply, reply # NoReply,
         call' = withReply(c, reply), about' = about,
         reply.code = "INTERNAL_ERROR" => c \in excused',
         reply.code = "DONE" =>
           reply.body \in orders' /\ reply.body.requestId = placement(c).requestId
  PROVE  /\ CallsInv' /\ \A d \in Call : placesOn(d)
         /\ call'[c].reply = reply /\ call'[c].stage = "replied"
         /\ call'[c].command = call[c].command /\ used(c)' /\ ~rejected(c)'
         /\ \A d \in Call : d # c => call'[d] = call[d]
<1>1. PICK r : /\ replied(c, r, reply) /\ validCall(r) /\ r # Unused
               /\ call' = [call EXCEPT ![c] = r]
               /\ \A d \in Call : call'[d] = IF d = c THEN r ELSE call[d]
  BY Replied
<1>2. /\ r.stage = "replied" /\ r.from = call[c].from /\ r.command = call[c].command
      /\ r.reply = reply /\ r.answer = call[c].answer
  BY <1>1 DEF replied
<1>3. \A d \in Call : d # c => call'[d] = call[d]
  BY <1>1
<1>4. used(c) /\ call[c].stage = "asked" /\ ~rejected(c)
  BY AskedAnswer
<1>5. placesOn(c)
  BY <1>1, <1>2, <1>4 DEF placesOn, keeps, settles, replies, placement
<1>6. \A d \in Call : d # c => placesOn(d)
  BY <1>3 DEF placesOn, keeps, settles, replies, rejected, used
<1>7. CallsInv'
  BY <1>1, CallsKeep
<1> QED
  BY <1>1, <1>2, <1>3, <1>4, <1>5, <1>6, <1>7 DEF rejected, used

(* The counter stands where it stood when its holder lets go.              *)
LEMMA GiveBack ==
  ASSUME PlacementsInv, NEW c \in Call, giveBack(c)
  PROVE  /\ lockedBy' = IF lockedBy = c THEN Nobody ELSE lockedBy
         /\ nextValue' = IF lockedBy = c THEN committedNext ELSE nextValue
BY PlacementAssumption DEF giveBack, committedNext, PlacementsInv

(* The orders of a database that never had a counter end at the last one   *)
(* seeded.                                                                 *)
LEMMA SeededMax ==
  ASSUME OrdersInv, committedNext = 0
  PROVE  maxSequence = SeededOrders
<1>1. {o.reference : o \in orders} = 1..SeededOrders
  BY DEF OrdersInv, numbers, lastNumber
<1>2. {o.reference : o \in orders} \union {0} = 0..SeededOrders
  BY <1>1, PlacementAssumption
<1>3. maxSequence = CHOOSE x \in 0..SeededOrders : \A y \in 0..SeededOrders : x >= y
  BY <1>2 DEF maxSequence, Max
<1>4. /\ SeededOrders \in 0..SeededOrders
      /\ \A y \in 0..SeededOrders : SeededOrders >= y
  BY PlacementAssumption
<1>5. PICK m : m = maxSequence
  OBVIOUS
<1>6. m \in 0..SeededOrders /\ \A y \in 0..SeededOrders : m >= y
  BY <1>3, <1>4, <1>5
<1> QED
  BY <1>4, <1>5, <1>6, PlacementAssumption

(* One placement takes a step, and the counter's committed value stays.    *)
LEMMA OnePlacement ==
  ASSUME PlacementsInv, NEW c \in Call, NEW q, placing' = [placing EXCEPT ![c] = q],
         orders' = orders, about' = about, \A d \in Call : d # c => call'[d] = call[d],
         lockedBy' \in Call \union {Nobody}, nextValue' \in Nat, committedNext' = committedNext,
         lockedBy' # Nobody => nextValue' = lastNumber + 2,
         \A d \in Call : d # c => (lockedBy' = d <=> lockedBy = d),
         onItsWay(c)'
  PROVE  PlacementsInv'
<1>1. lastNumber' = lastNumber
  BY DEF lastNumber
<1>2. placing' = [d \in Call |-> placing'[d]] /\ \A d \in Call : d # c => placing'[d] = placing[d]
  BY DEF PlacementsInv
<1>3. ASSUME NEW d \in Call, d # c
      PROVE  onItsWay(d)'
  <2>1. placing'[d] = placing[d] /\ call'[d] = call[d] /\ (lockedBy' = d <=> lockedBy = d)
    BY <1>2, <1>3
  <2>2. written(d) => written(d)'
    BY <2>1 DEF written, withRequestId, placement
  <2> QED
    BY <1>1, <2>1, <2>2 DEF PlacementsInv, onItsWay, used, stageIs
<1> QED
  BY <1>1, <1>2, <1>3 DEF PlacementsInv

LEMMA NobodyIsNoCall ==
  ASSUME NEW c \in Call
  PROVE  c # Nobody /\ c # "seeded" /\ c # NoRequestId
BY PlacementAssumption

(* A placement ends without an order: its reply is an error.               *)
LEMMA RollBack ==
  ASSUME FrontDoorInv, NEW c \in Call, placing[c] # NotPlacing, NEW code,
         code # "DONE", code # "none", giveBack(c), replyTo(c, RpcError(code)),
         UNCHANGED <<orders, burnt>>, UNCHANGED <<paymentVars, pageVars, about>>,
         excused \subseteq excused', code = "INTERNAL_ERROR" => c \in excused'
  PROVE  FrontDoorInv'
<1>1. CallsInv /\ PlacementsInv /\ OrdersInv
  BY DEF FrontDoorInv
<1>2. stageIs(c, "asked") /\ about = "placing"
  BY <1>1 DEF PlacementsInv, onItsWay
<1>3. PICK reply : reply = RpcError(code)
  OBVIOUS
<1>4. reply.code = code /\ reply # NoReply
  BY <1>3 DEF RpcError, NoReply
<1>5. call' = withReply(c, reply) /\ placing' = [placing EXCEPT ![c] = NotPlacing]
  BY <1>3 DEF replyTo
<1>6. /\ CallsInv' /\ \A d \in Call : placesOn(d)
      /\ \A d \in Call : d # c => call'[d] = call[d]
  BY <1>1, <1>2, <1>4, <1>5, PlacementReply
<1>7. /\ lockedBy' = IF lockedBy = c THEN Nobody ELSE lockedBy
      /\ nextValue' = IF lockedBy = c THEN committedNext ELSE nextValue
  BY <1>1, GiveBack
<1>8. committedNext' = committedNext
  <2>1. CASE lockedBy = c
    BY <1>7, <2>1 DEF committedNext
  <2>2. CASE lockedBy # c /\ lockedBy = Nobody
    BY <1>7, <2>2 DEF committedNext
  <2>3. CASE lockedBy # c /\ lockedBy # Nobody
    BY <1>1, <1>5, <1>7, <2>3 DEF committedNext, PlacementsInv
  <2> QED
    BY <2>1, <2>2, <2>3
<1>9. OrdersInv'
  <2>1. \A d \in Call : keeps(d) /\ settles(d)
    BY <1>6 DEF placesOn
  <2> QED
    BY <1>1, <1>8, <2>1, OrdersStand
<1>10. PlacementsInv'
  <2>1. placing'[c] = NotPlacing /\ lockedBy' # c
    BY <1>1, <1>5, <1>7, NobodyIsNoCall DEF PlacementsInv
  <2>2. onItsWay(c)'
    BY <2>1 DEF onItsWay, NotPlacing
  <2>3. /\ lockedBy' \in Call \union {Nobody} /\ nextValue' \in Nat
        /\ lockedBy' # Nobody => nextValue' = lastNumber + 2
        /\ \A d \in Call : d # c => (lockedBy' = d <=> lockedBy = d)
    BY <1>1, <1>7, NobodyIsNoCall DEF PlacementsInv
  <2> QED
    BY <1>1, <1>5, <1>6, <1>8, <2>2, <2>3, OnePlacement
<1> QED
  BY <1>2, <1>6, <1>9, <1>10, PlacingStep

LEMMA ReceiveKeeps ==
  ASSUME FrontDoorInv, NEW c \in Call, ReceivePlacement(c), UNCHANGED <<paymentVars, pageVars, about>>
  PROVE  FrontDoorInv'
<1>1. CallsInv /\ PlacementsInv /\ OrdersInv
  BY DEF FrontDoorInv
<1>2. /\ stageIs(c, "asked") /\ call[c].command.kind = "place" /\ placing[c] = NotPlacing
      /\ UNCHANGED <<orders, nextValue, lockedBy, burnt, excused>>
  BY DEF ReceivePlacement, asked
<1>3. about = "placing"
  BY <1>1, <1>2, AskedAnswer DEF validCall, kindOf, CallsInv
<1>4. lockedBy # c
  BY <1>1, <1>2 DEF PlacementsInv, onItsWay, NotPlacing
<1>5. ASSUME placing' = [placing EXCEPT ![c] = NotPlacing] \/ placing' = [placing EXCEPT ![c] = [step |-> "stock"]],
             \A d \in Call : placesOn(d) /\ (d # c => call'[d] = call[d]), CallsInv',
             placing'[c] = NotPlacing \/ call' = call
      PROVE  FrontDoorInv'
  <2>1. PICK q : q \in {NotPlacing, [step |-> "stock"]} /\ placing' = [placing EXCEPT ![c] = q]
    BY <1>5
  <2>2. placing'[c] = q
    BY <1>1, <2>1 DEF PlacementsInv
  <2>3. onItsWay(c)'
    <3>1. used(c) /\ call[c].stage = "asked"
      BY <1>1, <1>2, AskedAnswer
    <3> QED
      BY <1>2, <1>3, <1>4, <1>5, <2>1, <2>2, <3>1 DEF onItsWay, NotPlacing, used, stageIs
  <2>4. committedNext' = committedNext
    BY <1>1, <1>2, <1>4, <2>1 DEF committedNext, PlacementsInv
  <2>5. PlacementsInv'
    <3>1. lockedBy' \in Call \union {Nobody} /\ nextValue' \in Nat
          /\ (lockedBy' # Nobody => nextValue' = lastNumber + 2)
      BY <1>1, <1>2 DEF PlacementsInv
    <3> QED
      BY <1>1, <1>2, <1>5, <2>1, <2>3, <2>4, <3>1, OnePlacement
  <2>6. OrdersInv'
    <3>1. \A d \in Call : keeps(d) /\ settles(d)
      BY <1>5 DEF placesOn
    <3> QED
      BY <1>1, <1>2, <2>4, <3>1, OrdersStand
  <2> QED
    BY <1>3, <1>5, <2>5, <2>6, PlacingStep
<1>6. ASSUME NEW code, code \in {"VALIDATION_FAILED", "NOT_FOUND"}, replyTo(c, RpcError(code))
      PROVE  FrontDoorInv'
  <2>1. PICK reply : reply = RpcError(code)
    OBVIOUS
  <2>2. reply.code = code /\ reply # NoReply
    BY <1>6, <2>1 DEF RpcError, NoReply
  <2>3. call' = withReply(c, reply) /\ placing' = [placing EXCEPT ![c] = NotPlacing]
    BY <1>6, <2>1 DEF replyTo
  <2>4. /\ CallsInv' /\ \A d \in Call : placesOn(d)
        /\ \A d \in Call : d # c => call'[d] = call[d]
    BY <1>1, <1>2, <1>6, <2>2, <2>3, PlacementReply
  <2>5. placing'[c] = NotPlacing
    BY <1>1, <2>3 DEF PlacementsInv
  <2> QED
    BY <1>5, <2>3, <2>4, <2>5
<1>7. ASSUME NEW o \in withRequestId(placement(c).requestId), replyTo(c, Done(o))
      PROVE  FrontDoorInv'
  <2>1. PICK reply : reply = Done(o)
    OBVIOUS
  <2>2. reply.code = "DONE" /\ reply.body = o /\ reply # NoReply
    BY <2>1 DEF Done, NoReply
  <2>3. call' = withReply(c, reply) /\ placing' = [placing EXCEPT ![c] = NotPlacing]
    BY <1>7, <2>1 DEF replyTo
  <2>4. o \in orders' /\ o.requestId = placement(c).requestId
    BY <1>2 DEF withRequestId
  <2>5. /\ CallsInv' /\ \A d \in Call : placesOn(d)
        /\ \A d \in Call : d # c => call'[d] = call[d]
    BY <1>1, <1>2, <2>2, <2>3, <2>4, PlacementReply
  <2>6. placing'[c] = NotPlacing
    BY <1>1, <2>3 DEF PlacementsInv
  <2> QED
    BY <1>5, <2>3, <2>5, <2>6
<1>8. CASE placing' = [placing EXCEPT ![c] = [step |-> "stock"]] /\ UNCHANGED call
  <2>1. CallsInv' /\ \A d \in Call : placesOn(d)
    BY <1>1, <1>8, UntouchedCalls
  <2> QED
    BY <1>5, <1>8, <2>1
<1> DEFINE existing == withRequestId(placement(c).requestId)
<1>9. \/ replyTo(c, RpcError("VALIDATION_FAILED"))
      \/ replyTo(c, RpcError("NOT_FOUND"))
      \/ existing # {} /\ replyTo(c, Done(CHOOSE o \in existing : TRUE))
      \/ placing' = [placing EXCEPT ![c] = [step |-> "stock"]] /\ UNCHANGED call
  BY DEF ReceivePlacement
<1>10. CASE existing # {} /\ replyTo(c, Done(CHOOSE o \in existing : TRUE))
  <2>1. PICK o : o = CHOOSE p \in existing : TRUE
    OBVIOUS
  <2>2. o \in existing /\ replyTo(c, Done(o))
    BY <1>10, <2>1
  <2> QED
    BY <1>7, <2>2
<1> QED
  BY <1>6, <1>8, <1>9, <1>10

(* A placement's transaction begins, perhaps not for the first time.       *)
LEMMA Begin ==
  ASSUME FrontDoorInv, NEW c \in Call, placing[c] # NotPlacing, NEW attempt,
         giveBack(c), begin(c, attempt),
         UNCHANGED <<call, orders, burnt, excused>>, UNCHANGED <<paymentVars, pageVars, about>>
  PROVE  FrontDoorInv'
<1>1. CallsInv /\ PlacementsInv /\ OrdersInv
  BY DEF FrontDoorInv
<1>2. used(c) /\ stageIs(c, "asked") /\ about = "placing"
  BY <1>1 DEF PlacementsInv, onItsWay
<1>3. PICK q : q = [step |-> "begun", attempt |-> attempt, max |-> maxSequence]
  OBVIOUS
<1>4. placing' = [placing EXCEPT ![c] = q] /\ placing'[c] = q
      /\ \A d \in Call : d # c => placing'[d] = placing[d]
  BY <1>1, <1>3 DEF begin, PlacementsInv
<1>5. /\ lockedBy' = IF lockedBy = c THEN Nobody ELSE lockedBy
      /\ nextValue' = IF lockedBy = c THEN committedNext ELSE nextValue
  BY <1>1, GiveBack
<1>6. committedNext' = committedNext
  <2>1. CASE lockedBy = c
    BY <1>5, <2>1 DEF committedNext
  <2>2. CASE lockedBy # c /\ lockedBy = Nobody
    BY <1>5, <2>2 DEF committedNext
  <2>3. CASE lockedBy # c /\ lockedBy # Nobody
    BY <1>1, <1>4, <1>5, <2>3 DEF committedNext, PlacementsInv
  <2> QED
    BY <2>1, <2>2, <2>3
<1>7. CallsInv' /\ \A d \in Call : placesOn(d)
  BY <1>1, UntouchedCalls
<1>8. OrdersInv'
  <2>1. \A d \in Call : keeps(d) /\ settles(d)
    BY <1>7 DEF placesOn
  <2> QED
    BY <1>1, <1>6, <2>1, OrdersStand
<1>9. PlacementsInv'
  <2>1. lockedBy' # c
    BY <1>5, NobodyIsNoCall
  <2>2. q # NotPlacing /\ q.step = "begun" /\ (committedNext' = 0 => q.max = SeededOrders)
    BY <1>1, <1>3, <1>6, SeededMax DEF NotPlacing
  <2>3. onItsWay(c)'
    BY <1>2, <1>4, <2>1, <2>2 DEF onItsWay, used, stageIs
  <2>4. /\ lockedBy' \in Call \union {Nobody} /\ nextValue' \in Nat
        /\ lockedBy' # Nobody => nextValue' = lastNumber + 2
        /\ \A d \in Call : d # c => (lockedBy' = d <=> lockedBy = d)
    BY <1>1, <1>5, NobodyIsNoCall DEF PlacementsInv
  <2> QED
    BY <1>1, <1>4, <1>6, <2>3, <2>4, OnePlacement
<1> QED
  BY <1>2, <1>7, <1>8, <1>9, PlacingStep

LEMMA CheckStockKeeps ==
  ASSUME FrontDoorInv, NEW c \in Call, CheckStock(c), UNCHANGED <<paymentVars, pageVars, about>>
  PROVE  FrontDoorInv'
<1>1. placing[c].step = "stock" /\ placing[c] # NotPlacing
  BY DEF CheckStock, NotPlacing
<1>2. giveBack(c)
  <2>1. lockedBy # c
    BY <1>1 DEF FrontDoorInv, PlacementsInv, onItsWay
  <2> QED
    BY <2>1 DEF CheckStock, giveBack
<1>3. UNCHANGED <<orders, burnt, excused>>
  BY DEF CheckStock
<1>4. CASE begin(c, 1) /\ UNCHANGED call
  BY <1>1, <1>2, <1>3, <1>4, Begin
<1>5. ASSUME NEW code \in {"STOCK_UNAVAILABLE", "TIMEOUT", "UNAVAILABLE"}, replyTo(c, RpcError(code))
      PROVE  FrontDoorInv'
  BY <1>1, <1>2, <1>3, <1>5, RollBack
<1> QED
  BY <1>4, <1>5 DEF CheckStock

LEMMA NextNumberKeeps ==
  ASSUME FrontDoorInv, NEW c \in Call, NextNumber(c), UNCHANGED <<paymentVars, pageVars, about>>
  PROVE  FrontDoorInv'
<1>1. CallsInv /\ PlacementsInv /\ OrdersInv
  BY DEF FrontDoorInv
<1>2. /\ placing[c].step = "begun" /\ lockedBy = Nobody /\ lockedBy' = c
      /\ nextValue' = ensured(c) + 1
      /\ call' = call /\ orders' = orders /\ burnt' = burnt /\ excused' = excused
  BY DEF NextNumber, gatewayVars
<1>3. placing[c] # NotPlacing /\ used(c) /\ stageIs(c, "asked") /\ about = "placing"
  BY <1>1, <1>2 DEF PlacementsInv, onItsWay, NotPlacing
<1>4. PICK q : q = [step |-> "numbered", attempt |-> placing[c].attempt, max |-> placing[c].max,
                    number |-> ensured(c), before |-> nextValue]
  OBVIOUS
<1>5. placing' = [placing EXCEPT ![c] = q] /\ placing'[c] = q
  BY <1>1, <1>4 DEF NextNumber, PlacementsInv
<1>6. committedNext = nextValue /\ committedNext' = nextValue
  BY <1>2, <1>4, <1>5, NobodyIsNoCall DEF committedNext
<1>7. ensured(c) = lastNumber + 1 /\ lastNumber \in Nat
  BY <1>1, <1>2, <1>6, PlacementAssumption DEF ensured, lastNumber, PlacementsInv, onItsWay
<1>8. CallsInv' /\ \A d \in Call : placesOn(d)
  BY <1>1, <1>2, UntouchedCalls
<1>9. OrdersInv'
  <2>1. \A d \in Call : keeps(d) /\ settles(d)
    BY <1>8 DEF placesOn
  <2> QED
    BY <1>1, <1>2, <1>6, <2>1, OrdersStand
<1>10. PlacementsInv'
  <2>1. lastNumber' = lastNumber
    BY <1>6 DEF lastNumber
  <2>2. onItsWay(c)'
    BY <1>2, <1>3, <1>4, <1>5, <1>7, <2>1 DEF onItsWay, used, stageIs, NotPlacing
  <2>3. /\ lockedBy' \in Call \union {Nobody} /\ nextValue' \in Nat
        /\ lockedBy' # Nobody => nextValue' = lastNumber + 2
    BY <1>2, <1>7
  <2>4. \A d \in Call : d # c => (lockedBy' = d <=> lockedBy = d)
    BY <1>2, NobodyIsNoCall
  <2> QED
    BY <1>1, <1>2, <1>5, <1>6, <2>2, <2>3, <2>4, OnePlacement
<1> QED
  BY <1>3, <1>8, <1>9, <1>10, PlacingStep

(* What the holder of the counter writes is not yet committed: an order of *)
(* its own, or the one that has its request id.                            *)
LEMMA PlaceAndSaveKeeps ==
  ASSUME FrontDoorInv, NEW c \in Call, PlaceAndSave(c), UNCHANGED <<paymentVars, pageVars, about>>
  PROVE  FrontDoorInv'
<1>1. CallsInv /\ PlacementsInv /\ OrdersInv
  BY DEF FrontDoorInv
<1>2. placing[c].step = "numbered" /\ faults' = faults /\ excused' = excused
  BY DEF PlaceAndSave
<1>3. /\ placing[c] # NotPlacing /\ used(c) /\ stageIs(c, "asked") /\ about = "placing"
      /\ lockedBy = c /\ placing[c].number = lastNumber + 1
  BY <1>1, <1>2 DEF PlacementsInv, onItsWay, NotPlacing
<1> DEFINE id == placement(c).requestId
           placed == [id |-> c, reference |-> placing[c].number, requestId |-> id,
                      total |-> placedTotal(placement(c))]
<1>4. CASE rollBack(c, "VALIDATION_FAILED")
  BY <1>2, <1>3, <1>4, RollBack DEF rollBack
<1>5. ASSUME NEW order, NEW new \in BOOLEAN, write(c, order, new),
             \/ new = TRUE /\ withRequestId(id) = {} /\ order = placed
             \/ new = FALSE /\ order \in withRequestId(id)
      PROVE  FrontDoorInv'
  <2>1. PICK q : q = [step |-> "written", attempt |-> placing[c].attempt, number |-> placing[c].number,
                      before |-> placing[c].before, order |-> order, new |-> new]
    OBVIOUS
  <2>2. /\ placing' = [placing EXCEPT ![c] = q] /\ placing'[c] = q
        /\ UNCHANGED <<call, lockedBy, nextValue, orders, burnt>>
    BY <1>1, <1>5, <2>1 DEF write, PlacementsInv
  <2>3. committedNext' = committedNext
    BY <1>3, <2>1, <2>2, NobodyIsNoCall DEF committedNext
  <2>4. lastNumber' = lastNumber
    BY <2>3 DEF lastNumber
  <2>5. CallsInv' /\ \A d \in Call : placesOn(d)
    BY <1>1, <2>2, UntouchedCalls
  <2>6. OrdersInv'
    <3>1. \A d \in Call : keeps(d) /\ settles(d)
      BY <2>5 DEF placesOn
    <3> QED
      BY <1>1, <1>2, <2>2, <2>3, <3>1, OrdersStand
  <2>7. written(c)'
    <3>1. placement(c)' = placement(c)
      BY <2>2 DEF placement
    <3>2. placedTotal(placement(c))' = placedTotal(placement(c))
      BY <3>1
    <3>3. q.order = order /\ q.new = new /\ q.number = placing[c].number
      BY <2>1
    <3>4. withRequestId(id)' = withRequestId(id)
      BY <2>2, <3>1 DEF withRequestId
    <3> QED
      BY <1>5, <2>2, <3>1, <3>2, <3>3, <3>4 DEF written
  <2>8. onItsWay(c)'
    BY <1>3, <2>1, <2>2, <2>4, <2>7 DEF onItsWay, used, stageIs, NotPlacing
  <2>9. PlacementsInv'
    <3>1. lockedBy' \in Call \union {Nobody} /\ nextValue' \in Nat
          /\ (lockedBy' # Nobody => nextValue' = lastNumber + 2)
      BY <1>1, <2>2 DEF PlacementsInv
    <3> QED
      BY <1>1, <2>2, <2>3, <2>8, <3>1, OnePlacement
  <2> QED
    BY <1>3, <2>5, <2>6, <2>9, PlacingStep
<1>6. CASE withRequestId(id) # {} /\ winner(c) # {} /\ write(c, CHOOSE o \in winner(c) : TRUE, FALSE)
  <2>1. PICK o : o = CHOOSE p \in winner(c) : TRUE
    OBVIOUS
  <2>2. o \in withRequestId(id) /\ write(c, o, FALSE)
    BY <1>6, <2>1 DEF winner
  <2> QED
    BY <1>5, <2>2
<1>7. CASE withRequestId(id) = {} /\ write(c, placed, TRUE)
  <2>1. PICK o : o = placed
    OBVIOUS
  <2> QED
    BY <1>5, <1>7, <2>1
<1>8. ~(withRequestId(id) # {} /\ winner(c) = {})
  BY DEF winner
<1>9. \A o \in orders : o.reference # placing[c].number
  <2>1. lastNumber \in Nat
    BY <1>1, PlacementAssumption DEF lastNumber, PlacementsInv
  <2>2. \A o \in orders : o.reference \in 1..lastNumber
    BY <1>1 DEF OrdersInv, numbers
  <2> QED
    BY <1>3, <2>1, <2>2
<1> QED
  BY <1>4, <1>6, <1>7, <1>8, <1>9 DEF PlaceAndSave

LEMMA LockContentionKeeps ==
  ASSUME FrontDoorInv, NEW c \in Call, LockContention(c), UNCHANGED <<paymentVars, pageVars, about>>
  PROVE  FrontDoorInv'
<1>1. placing[c] # NotPlacing
  BY DEF LockContention, NotPlacing
<1>2. CASE /\ giveBack(c) /\ begin(c, placing[c].attempt + 1)
           /\ UNCHANGED <<call, orders, burnt, excused>>
  BY <1>1, <1>2, Begin
<1>3. CASE rollBack(c, "INTERNAL_ERROR") /\ excused' = excused \union {c}
  <2>1. excused \subseteq excused' /\ c \in excused'
    BY <1>3
  <2> QED
    BY <1>1, <1>3, <2>1, RollBack DEF rollBack
<1> QED
  BY <1>2, <1>3 DEF LockContention

(* The commit shows the next number's order, or burns the number.          *)
LEMMA CommitKeeps ==
  ASSUME FrontDoorInv, NEW c \in Call, commit(c), NEW reply,
         \/ reply = Done(placing[c].order)
         \/ reply = RpcError("INTERNAL_ERROR") /\ c \in excused',
         call' = withReply(c, reply), placing' = [placing EXCEPT ![c] = NotPlacing],
         excused \subseteq excused', UNCHANGED <<paymentVars, pageVars, about>>
  PROVE  FrontDoorInv'
<1>1. CallsInv /\ PlacementsInv /\ OrdersInv
  BY DEF FrontDoorInv
<1>2. placing[c].step = "written" /\ lockedBy' = Nobody /\ nextValue' = nextValue
  BY DEF commit
<1>3. /\ placing[c] # NotPlacing /\ used(c) /\ stageIs(c, "asked") /\ about = "placing"
      /\ lockedBy = c /\ placing[c].number = lastNumber + 1 /\ written(c)
  BY <1>1, <1>2 DEF PlacementsInv, onItsWay, NotPlacing
<1>4. call[c].stage = "asked" /\ ~rejected(c)
  BY <1>1, <1>3, AskedAnswer
<1>5. PICK o : o = placing[c].order
  OBVIOUS
<1> DEFINE id == placement(c).requestId
           number == lastNumber + 1
<1>6. lastNumber \in Nat /\ nextValue = lastNumber + 2
  BY <1>1, <1>3, PlacementAssumption, NobodyIsNoCall DEF lastNumber, PlacementsInv
<1>7. committedNext' = nextValue /\ lastNumber' = lastNumber + 1 /\ committedNext' # 0
  <2>1. committedNext' = nextValue
    BY <1>2 DEF committedNext
  <2> QED
    BY <1>6, <2>1 DEF lastNumber
<1>8. \/ /\ withRequestId(id) = {} /\ orders' = orders \union {o} /\ burnt' = burnt
         /\ o = [id |-> c, reference |-> number, requestId |-> id, total |-> placedTotal(placement(c))]
      \/ o \in withRequestId(id) /\ orders' = orders /\ burnt' = burnt \union {number}
  BY <1>3, <1>5 DEF commit, written
<1>9. o \in orders' /\ o.requestId = id /\ orders \subseteq orders'
  BY <1>8 DEF withRequestId
<1>10. reply.code \in {"DONE", "INTERNAL_ERROR"} /\ reply # NoReply
       /\ (reply.code = "DONE" => reply.body = o) /\ (reply.code = "INTERNAL_ERROR" => c \in excused')
  BY <1>5 DEF Done, RpcError, NoReply
<1>11. /\ CallsInv' /\ \A d \in Call : placesOn(d)
       /\ call'[c].reply = reply /\ call'[c].stage = "replied"
       /\ call'[c].command = call[c].command /\ used(c)' /\ ~rejected(c)'
       /\ \A d \in Call : d # c => call'[d] = call[d]
  BY <1>1, <1>3, <1>9, <1>10, PlacementReply
<1>12. \A d \in Call : keeps(d) /\ settles(d) /\ (used(d) => used(d)' /\ call'[d].command = call[d].command)
  BY <1>11 DEF placesOn, keeps, used
<1>13. PlacementsInv'
  <2>1. placing' = [d \in Call |-> placing'[d]] /\ placing'[c] = NotPlacing
        /\ \A d \in Call : d # c => placing'[d] = placing[d]
    BY <1>1 DEF PlacementsInv
  <2>2. ASSUME NEW d \in Call
        PROVE  onItsWay(d)'
    <3>1. CASE d = c
      BY <1>2, <2>1, <3>1, NobodyIsNoCall DEF onItsWay, NotPlacing
    <3>2. CASE d # c
      <4>1. placing'[d] = placing[d] /\ call'[d] = call[d] /\ lockedBy # d
        BY <1>3, <1>11, <2>1, <3>2
      <4>2. placing[d] = NotPlacing \/ placing[d].step \in {"stock", "begun"}
        BY <1>1, <4>1 DEF PlacementsInv, onItsWay
      <4>3. placing[d] # NotPlacing => used(d) /\ stageIs(d, "asked")
        BY <1>1 DEF PlacementsInv, onItsWay
      <4> QED
        BY <1>2, <1>3, <1>7, <4>1, <4>2, <4>3, NobodyIsNoCall DEF onItsWay, used, stageIs, NotPlacing
    <3> QED
      BY <3>1, <3>2
  <2> QED
    BY <1>2, <1>6, <1>7, <2>1, <2>2 DEF PlacementsInv
<1>14. numbers \union burnt = 1..lastNumber /\ numbers \intersect burnt = {}
       /\ \A p \in orders : p.reference \in 1..lastNumber
  BY <1>1 DEF OrdersInv, numbers
<1>15. \A p \in orders' : seeded(p)' \/ askedFor(p)'
  <2>1. ASSUME NEW p \in orders, askedFor(p)
        PROVE  askedFor(p)'
    <3>1. p.id \in Call /\ p.id # c /\ call'[p.id] = call[p.id]
      BY <1>4, <1>11, <2>1 DEF askedFor
    <3>2. placement(p.id)' = placement(p.id)
      BY <3>1 DEF placement
    <3>3. placedTotal(placement(p.id))' = placedTotal(placement(p.id))
      BY <3>2
    <3> QED
      BY <2>1, <3>1, <3>2, <3>3, SMTT(60) DEF askedFor, used, rejected
  <2>2. o \notin orders => askedFor(o)'
    <3>1. SUFFICES ASSUME o \notin orders PROVE askedFor(o)'
      OBVIOUS
    <3>2. o = [id |-> c, reference |-> number, requestId |-> id, total |-> placedTotal(placement(c))]
      BY <1>8, <3>1 DEF withRequestId
    <3>3. placement(c)' = placement(c)
      BY <1>11 DEF placement
    <3>4. placedTotal(placement(c))' = placedTotal(placement(c))
      BY <3>3
    <3>5. o.id = c /\ o.requestId = id /\ o.total = placedTotal(placement(c))
      BY <3>2
    <3> QED
      BY <1>3, <1>10, <1>11, <3>3, <3>4, <3>5 DEF askedFor
  <2>3. \A p \in orders : seeded(p) => seeded(p)'
    BY DEF seeded
  <2> QED
    BY <1>1, <1>8, <2>1, <2>2, <2>3 DEF OrdersInv
<1>16. \A p, q \in orders' :
         p # q => p.reference # q.reference /\ (p.requestId = NoRequestId \/ p.requestId # q.requestId)
  <2>1. CASE orders' = orders
    BY <1>1, <2>1 DEF OrdersInv
  <2>2. CASE orders' = orders \union {o} /\ withRequestId(id) = {} /\ o.reference = number
    <3>1. \A p \in orders : p.reference # o.reference
      BY <1>6, <1>14, <2>2
    <3>2. \A p \in orders : id = NoRequestId \/ p.requestId # id
      BY <2>2 DEF withRequestId
    <3> QED
      BY <1>1, <1>9, <2>2, <3>1, <3>2 DEF OrdersInv
  <2> QED
    BY <1>8, <2>1, <2>2
<1>17. numbers' \union burnt' = 1..lastNumber' /\ numbers' \intersect burnt' = {}
  <2>1. 1..lastNumber' = 1..lastNumber \union {number} /\ number \notin 1..lastNumber
    BY <1>6, <1>7
  <2>2. CASE orders' = orders \union {o} /\ burnt' = burnt /\ o.reference = number
    <3>1. numbers' = numbers \union {number}
      BY <2>2 DEF numbers
    <3> QED
      BY <1>14, <2>1, <2>2, <3>1
  <2>3. CASE orders' = orders /\ burnt' = burnt \union {number}
    <3>1. numbers' = numbers
      BY <2>3 DEF numbers
    <3> QED
      BY <1>14, <2>1, <2>3, <3>1
  <2> QED
    BY <1>8, <2>2, <2>3
<1>18. burnt' # {} =>
         \E d, e \in Call : d # e /\ used(d)' /\ used(e)'
                            /\ call'[d].command.requestId = call'[e].command.requestId
  <2>1. CASE burnt' = burnt
    BY <1>1, <1>12, <2>1 DEF OrdersInv
  <2>2. CASE o \in withRequestId(id)
    <3>1. o \in orders /\ o.requestId = id /\ id # NoRequestId
      BY <2>2 DEF withRequestId
    <3>2. askedFor(o)
      BY <1>1, <3>1 DEF OrdersInv, seeded
    <3>3. /\ o.id \in Call /\ o.id # c /\ used(o.id)
          /\ call[o.id].command.requestId = call[c].command.requestId
      BY <1>4, <3>1, <3>2 DEF askedFor, placement
    <3> QED
      BY <1>3, <1>12, <3>3
  <2> QED
    BY <1>8, <2>1, <2>2
<1>19. ASSUME NEW d \in Call, used(d)'
       PROVE  /\ call'[d].reply.code = "INTERNAL_ERROR" => d \in excused'
              /\ call'[d].reply.code = "DONE" =>
                   call'[d].reply.body \in orders'
                   /\ call'[d].reply.body.requestId = call'[d].command.requestId
  <2>1. CASE d = c
    BY <1>9, <1>10, <1>11, <2>1 DEF placement
  <2>2. CASE d # c
    <3>1. call'[d] = call[d] /\ used(d)
      BY <1>11, <1>19, <2>2 DEF used
    <3> QED
      BY <1>1, <1>3, <1>9, <3>1 DEF OrdersInv, placement
  <2> QED
    BY <2>1, <2>2
<1>20. OrdersInv'
  BY <1>7, <1>15, <1>16, <1>17, <1>18, <1>19 DEF OrdersInv, placement
<1> QED
  BY <1>3, <1>11, <1>13, <1>20, PlacingStep

LEMMA RestartKeeps ==
  ASSUME FrontDoorInv, RestartOrders, UNCHANGED <<paymentVars, pageVars, about>>
  PROVE  FrontDoorInv'
<1>1. CallsInv /\ PlacementsInv /\ OrdersInv
  BY DEF FrontDoorInv
<1> DEFINE running == {c \in Call : placing[c] # NotPlacing}
<1>2. PICK e \in Call : placing[e] # NotPlacing
  BY DEF RestartOrders
<1>3. about = "placing"
  BY <1>1, <1>2 DEF PlacementsInv, onItsWay
<1>4. /\ placing' = [c \in Call |-> NotPlacing]
      /\ call' = [c \in Call |-> IF c \in running THEN [call[c] EXCEPT !.stage = "over"] ELSE call[c]]
      /\ UNCHANGED <<orders, burnt, excused>>
  BY DEF RestartOrders
<1>5. ASSUME NEW c \in Call, placing[c] # NotPlacing
      PROVE  /\ used(c) /\ validCall(call[c]) /\ call[c].stage = "asked"
             /\ call'[c] = [stage |-> "over", from |-> call[c].from, command |-> call[c].command,
                            reply |-> NoReply, answer |-> call[c].answer]
             /\ explained(call[c])
  <2>1. stageIs(c, "asked")
    BY <1>1, <1>5 DEF PlacementsInv, onItsWay
  <2>2. used(c) /\ validCall(call[c]) /\ call[c].stage = "asked" /\ call[c].reply = NoReply
    BY <1>1, <2>1, AskedAnswer
  <2> QED
    BY <1>4, <1>5, <2>2 DEF validCall
<1>6. \A c \in Call : placing[c] = NotPlacing => call'[c] = call[c]
  BY <1>4
<1>7. CallsInv'
  <2>1. call' = [c \in Call |-> call'[c]]
    BY <1>4
  <2>2. ASSUME NEW c \in Call, used(c)'
        PROVE  validCall(call[c])'
    <3>1. PICK r : r = call'[c]
      OBVIOUS
    <3>2. validCall(r)
      <4>1. CASE placing[c] = NotPlacing
        BY <1>1, <1>6, <2>2, <3>1, <4>1 DEF CallsInv, used
      <4>2. CASE placing[c] # NotPlacing
        <5>1. validCall(call[c]) /\ call[c].stage = "asked" /\ explained(call[c])
          BY <1>5, <4>2
        <5>2. r = [stage |-> "over", from |-> call[c].from, command |-> call[c].command,
                   reply |-> NoReply, answer |-> call[c].answer]
          BY <1>5, <3>1, <4>2
        <5> QED
          BY <5>1, <5>2 DEF validCall, explained
      <4> QED
        BY <4>1, <4>2
    <3> QED
      BY <3>1, <3>2 DEF validCall, explained
  <2> QED
    BY <1>1, <2>1, <2>2 DEF CallsInv
<1>8. \A d \in Call : placesOn(d)
  <2>1. ASSUME NEW d \in Call, placing[d] # NotPlacing
        PROVE  placesOn(d)
    <3>1. call[d].reply = NoReply
      BY <1>5, <2>1 DEF validCall
    <3>2. /\ call'[d].from = call[d].from /\ call'[d].command = call[d].command
          /\ call'[d].reply = call[d].reply /\ call'[d].answer = call[d].answer
          /\ call'[d].stage = "over" /\ used(d) /\ call[d].stage = "asked"
      <4>1. /\ used(d) /\ call[d].stage = "asked"
            /\ call'[d] = [stage |-> "over", from |-> call[d].from, command |-> call[d].command,
                           reply |-> NoReply, answer |-> call[d].answer]
        BY <1>5, <2>1
      <4>2. PICK r : r = call'[d]
        OBVIOUS
      <4>3. /\ r.stage = "over" /\ r.from = call[d].from /\ r.command = call[d].command
            /\ r.reply = NoReply /\ r.answer = call[d].answer
        BY <4>1, <4>2
      <4> QED
        BY <3>1, <4>1, <4>2, <4>3
    <3>3. call'[d] # Unused
      BY <3>2 DEF Unused
    <3> QED
      BY <3>2, <3>3 DEF placesOn, keeps, settles, replies
  <2>2. ASSUME NEW d \in Call, placing[d] = NotPlacing
        PROVE  placesOn(d)
    <3>1. call'[d] = call[d]
      BY <1>6, <2>2
    <3> QED
      BY <3>1 DEF placesOn, keeps, settles, replies, rejected, used
  <2> QED
    BY <2>1, <2>2
<1>9. lockedBy' = Nobody /\ nextValue' = committedNext /\ committedNext' = committedNext
  <2>1. lockedBy' = Nobody /\ nextValue' = committedNext
    <3>1. CASE lockedBy = Nobody
      BY <3>1 DEF RestartOrders, committedNext
    <3>2. CASE lockedBy # Nobody
      BY <1>1, <3>2, GiveBack DEF RestartOrders, PlacementsInv
    <3> QED
      BY <3>1, <3>2
  <2> QED
    BY <2>1 DEF committedNext
<1>10. OrdersInv'
  <2>1. \A d \in Call : keeps(d) /\ settles(d)
    BY <1>8 DEF placesOn
  <2> QED
    BY <1>1, <1>4, <1>9, <2>1, OrdersStand
<1>11. PlacementsInv'
  <2>1. \A d \in Call : onItsWay(d)'
    BY <1>4, <1>9, NobodyIsNoCall DEF onItsWay, NotPlacing
  <2> QED
    BY <1>1, <1>4, <1>9, <2>1 DEF PlacementsInv
<1> QED
  BY <1>3, <1>7, <1>8, <1>10, <1>11, PlacingStep

LEMMA PlacementKeeps ==
  ASSUME FrontDoorInv, PlacementNext, UNCHANGED <<paymentVars, pageVars, about>>
  PROVE  FrontDoorInv'
<1>1. ASSUME NEW c \in Call, Commit(c)
      PROVE  FrontDoorInv'
  <2>1. PICK reply : reply = Done(placing[c].order)
    OBVIOUS
  <2>2. /\ commit(c) /\ call' = withReply(c, reply) /\ placing' = [placing EXCEPT ![c] = NotPlacing]
        /\ excused' = excused
    BY <1>1, <2>1 DEF Commit, replyTo
  <2> QED
    BY <2>1, <2>2, CommitKeeps
<1>2. ASSUME NEW c \in Call, CommitUnacknowledged(c)
      PROVE  FrontDoorInv'
  <2>1. PICK reply : reply = RpcError("INTERNAL_ERROR")
    OBVIOUS
  <2>2. /\ commit(c) /\ call' = withReply(c, reply) /\ placing' = [placing EXCEPT ![c] = NotPlacing]
        /\ excused \subseteq excused' /\ c \in excused'
    BY <1>2, <2>1 DEF CommitUnacknowledged, replyTo
  <2> QED
    BY <2>1, <2>2, CommitKeeps
<1> QED
  BY <1>1, <1>2, ReceiveKeeps, CheckStockKeeps, NextNumberKeeps, PlaceAndSaveKeeps,
     LockContentionKeeps, RestartKeeps DEF PlacementNext

-----------------------------------------------------------------------------
(* The theorems.                                                           *)

LEMMA InitHolds == Init => FrontDoorInv
<1> SUFFICES ASSUME Init PROVE FrontDoorInv
  OBVIOUS
<1>1. /\ call = [c \in Call |-> Unused] /\ about \in {"placing", "paying", "replenishing"}
      /\ \A c \in Call : ~used(c)
  BY DEF Init, GatewayInit, used
<1>2. CallsInv
  BY <1>1 DEF CallsInv
<1>3. committedNext = 0 /\ lastNumber = SeededOrders
  BY DEF Init, OrdersInit, committedNext, lastNumber
<1>4. PlacementsInv
  <2>1. placing = [c \in Call |-> NotPlacing] /\ lockedBy = Nobody /\ nextValue = 0
    BY DEF Init, OrdersInit
  <2>2. \A c \in Call : onItsWay(c)
    BY <2>1, NobodyIsNoCall DEF onItsWay, NotPlacing
  <2> QED
    BY <1>3, <2>1, <2>2 DEF PlacementsInv
<1>5. OrdersInv
  <2>1. orders = {[id |-> "seeded", reference |-> n, requestId |-> NoRequestId,
                   total |-> InvalidMoney] : n \in 1..SeededOrders} /\ burnt = {}
    BY DEF Init, OrdersInit
  <2>2. numbers = 1..SeededOrders
    <3>1. \A o \in orders : o.reference \in 1..SeededOrders
      BY <2>1
    <3>2. ASSUME NEW n \in 1..SeededOrders
          PROVE  \E o \in orders : o.reference = n
      <4>1. PICK o : o = [id |-> "seeded", reference |-> n, requestId |-> NoRequestId,
                          total |-> InvalidMoney]
        OBVIOUS
      <4> QED
        BY <2>1, <4>1
    <3> QED
      BY <3>1, <3>2 DEF numbers
  <2>3. \A o \in orders : seeded(o)
    BY <2>1 DEF seeded
  <2>4. \A o, p \in orders :
          o # p => o.reference # p.reference /\ (o.requestId = NoRequestId \/ o.requestId # p.requestId)
    BY <2>1
  <2> QED
    BY <1>1, <1>3, <2>1, <2>2, <2>3, <2>4 DEF OrdersInv
<1>6. DraftsInv
  <2>1. draft = [number |-> 0, submitAttempted |-> FALSE,
                 form |-> [retailer |-> "", company |-> "", currency |-> DefaultCurrency,
                           lines |-> <<>>]]
    BY DEF Init, PagesInit
  <2> QED
    BY <1>1, <2>1 DEF DraftsInv, onPage
<1>7. PaymentsInv
  <2>1. issued = Backlog /\ payments = {} /\ scan = [c \in Call |-> 1]
    BY DEF Init, PaymentInit
  <2> QED
    BY <1>1, <2>1, ScanAssumption DEF PaymentsInv
<1>8. ReplenishInv
  BY <1>1 DEF Init, PagesInit, ReplenishInv
<1> QED
  BY <1>2, <1>4, <1>5, <1>6, <1>7, <1>8 DEF FrontDoorInv

LEMMA StutterHolds ==
  ASSUME FrontDoorInv, UNCHANGED vars
  PROVE  FrontDoorInv'
<1>1. CallsInv /\ PlacementsInv /\ OrdersInv /\ DraftsInv /\ PaymentsInv /\ ReplenishInv
  BY DEF FrontDoorInv
<1>2. /\ call' = call /\ about' = about
      /\ UNCHANGED ordersVars /\ UNCHANGED paymentVars /\ UNCHANGED pageVars
  BY DEF vars, gatewayVars
<1>3. \A d \in Call : keeps(d) /\ settles(d) /\ paysOn(d) /\ elsewhere(d)
  BY <1>2 DEF keeps, settles, replies, rejected, used, paysOn, elsewhere
<1>4. CallsInv'
  BY <1>1, <1>2, UntouchedCalls
<1>5. OrdersInv'
  <2>1. committedNext' = committedNext
    BY <1>2 DEF committedNext, ordersVars
  <2> QED
    BY <1>1, <1>2, <1>3, <2>1, OrdersStand DEF ordersVars
<1>6. PlacementsInv'
  <2>1. \A d \in Call : placing[d] # NotPlacing => call'[d].stage = "asked"
    BY <1>1, <1>2 DEF PlacementsInv, onItsWay, stageIs
  <2> QED
    BY <1>1, <1>2, <1>3, <2>1, PlacementsStand DEF ordersVars
<1>7. DraftsInv'
  <2>1. ASSUME NEW d \in Call, used(d), ~answered(d)
        PROVE  call'[d].answer.status # 200
    BY <1>2, <2>1 DEF answered, NoAnswer
  <2> QED
    BY <1>1, <1>2, <1>3, <2>1, DraftsStand DEF pageVars
<1>8. PaymentsInv'
  <2>1. issued' \in Nat /\ issued' >= issued
    BY <1>1, <1>2 DEF PaymentsInv, paymentVars
  <2> QED
    BY <1>1, <1>2, <1>3, <2>1, PaymentsStand DEF paymentVars
<1>9. ReplenishInv'
  BY <1>1, <1>2, <1>3, ReplenishStand DEF pageVars
<1> QED
  BY <1>4, <1>5, <1>6, <1>7, <1>8, <1>9 DEF FrontDoorInv

LEMMA StepHolds ==
  ASSUME FrontDoorInv, Next
  PROVE  FrontDoorInv'
<1>1. ASSUME NEW c \in Call, Submit(c) \/ ReplenishStock(c), UNCHANGED <<ordersVars, paymentVars, about>>
      PROVE  FrontDoorInv'
  BY <1>1, SubmitDraftKeeps, SubmitByKeyKeeps, SubmitPaymentKeeps, SubmitReplenishKeeps,
     ReplenishKeeps DEF Submit
<1>2. ASSUME NEW c \in Call, Transport(c), UNCHANGED <<ordersVars, paymentVars, pageVars, about>>
      PROVE  FrontDoorInv'
  BY <1>2, TransportKeeps
<1>3. ASSUME NEW c \in Call, Answer(c)
      PROVE  FrontDoorInv'
  BY <1>3, AnswerKeeps
<1>4. CASE about = "placing" /\ EditDraft /\ UNCHANGED <<ordersVars, paymentVars, about>>
  BY <1>4, EditDraftKeeps
<1>5. CASE PlacementNext /\ UNCHANGED <<paymentVars, pageVars, about>>
  BY <1>5, PlacementKeeps
<1>6. CASE about = "paying" /\ PaymentNext /\ UNCHANGED <<ordersVars, pageVars, about>>
  BY <1>6, InvoicesKeep, ResolveKeeps, RegisterKeeps DEF PaymentNext
<1> QED
  BY <1>1, <1>2, <1>3, <1>4, <1>5, <1>6 DEF Next

(* The invariant of commands: what calls, placements, orders, drafts and   *)
(* payments say of each other, in every reachable state.                   *)
THEOREM FrontDoorInvariant == Spec => []FrontDoorInv
<1>1. FrontDoorInv /\ [Next]_vars => FrontDoorInv'
  BY StepHolds, StutterHolds
<1> QED
  BY <1>1, InitHolds, PTL DEF Spec

LEMMA InvPlacesOnce ==
  ASSUME FrontDoorInv
  PROVE  PlacedOnce
<1>1. CallsInv /\ PlacementsInv /\ OrdersInv /\ DraftsInv
  BY DEF FrontDoorInv
<1>2. ASSUME lockedBy = Nobody, nextValue > 0
      PROVE  /\ {o.reference : o \in orders} \union burnt = 1..nextValue - 1
             /\ {o.reference : o \in orders} \intersect burnt = {}
  <2>1. lastNumber = nextValue - 1
    BY <1>1, <1>2 DEF lastNumber, committedNext, PlacementsInv
  <2> QED
    BY <1>1, <2>1 DEF OrdersInv, numbers
<1>3. ASSUME NEW c \in Call, NEW d \in Call, used(c), used(d), c # d,
             call[c].from.client = "placePage", call[c].from = call[d].from,
             {c, d} \subseteq {o.id : o \in orders}
      PROVE  failed(c) \/ failed(d)
  <2>1. ASSUME NEW e \in {c, d}
        PROVE  ~rejected(e)
    <3>1. PICK o \in orders : o.id = e
      BY <1>3
    <3>2. askedFor(o)
      BY <1>1, <3>1, NobodyIsNoCall DEF OrdersInv, seeded
    <3> QED
      BY <3>1, <3>2 DEF askedFor
  <2>2. rejected(c) \/ rejected(d) \/ failed(c) \/ failed(d)
    BY <1>1, <1>3 DEF DraftsInv, onPage
  <2> QED
    BY <2>1, <2>2
<1> QED
  BY <1>1, <1>2, <1>3 DEF PlacedOnce, OrdersInv, placement

(* An order is placed once for each request id and under a number of its   *)
(* own, no number goes missing, and a draft of the page is two orders only *)
(* when an answer promised nothing, for any number of requests, restarts   *)
(* and lock contention: OrderCreateHandler and OrderNumberAllocator.       *)
THEOREM OrdersArePlacedOnce == Spec => []PlacedOnce
BY FrontDoorInvariant, InvPlacesOnce, PTL

LEMMA InvAnswersTrue ==
  ASSUME FrontDoorInv
  PROVE  AnswersTrue
<1>1. CallsInv /\ PlacementsInv /\ OrdersInv /\ DraftsInv /\ PaymentsInv /\ ReplenishInv
  BY DEF FrontDoorInv
<1>2. ASSUME NEW c \in Call, told(c)
      PROVE  /\ used(c) /\ call[c].stage = "replied" /\ call[c].reply.code = "DONE"
             /\ call[c].answer.body = call[c].reply.body
  <2>1. used(c) /\ call[c].answer # NoAnswer /\ call[c].answer.status = 200
    BY <1>2 DEF told, answered
  <2>2. explained(call[c])
    BY <1>1, <2>1, CallFields DEF validCall
  <2>3. call[c].stage = "replied" /\ call[c].answer = answerTo(call[c].reply)
    BY <2>1, <2>2, AnswerCodes DEF explained
  <2> QED
    BY <2>1, <2>3, ReplyAnswers
<1>3. ASSUME NEW c \in Call, told(c), about = "placing"
      PROVE  /\ call[c].answer.body \in orders
             /\ call[c].answer.body.requestId = call[c].command.requestId
             /\ call[c].from.client = "placePage" =>
                  call[c].answer.body.id = c
                  /\ call[c].answer.body.total = placedTotal(call[c].command)
  <2>1. PICK o : o = call[c].answer.body
    OBVIOUS
  <2>2. o \in orders /\ o.requestId = placement(c).requestId /\ used(c)
    BY <1>1, <1>2, <1>3, <2>1 DEF OrdersInv
  <2>3. ASSUME call[c].from.client = "placePage"
        PROVE  o.id = c /\ o.total = placedTotal(placement(c))
    <3>1. o.requestId = c
      BY <1>1, <2>2, <2>3 DEF DraftsInv, onPage
    <3>2. askedFor(o)
      BY <1>1, <2>2, <3>1, NobodyIsNoCall DEF OrdersInv, seeded
    <3>3. o.id \in Call /\ used(o.id) /\ placement(o.id).requestId = c
          /\ o.total = placedTotal(placement(o.id))
      BY <3>1, <3>2 DEF askedFor
    <3>4. o.id = c
      BY <1>1, <1>3, <3>3 DEF DraftsInv, onPage
    <3> QED
      BY <3>3, <3>4
  <2> QED
    BY <2>1, <2>2, <2>3 DEF placement
<1>4. ASSUME NEW c \in Call, answered(c), call[c].answer.status \in 400..499
      PROVE  /\ c \notin added /\ \A o \in orders : o.id # c
             /\ call[c].answer.code = "NOT_FOUND" /\ about = "paying" => ~call[c].command.existed
  <2>1. rejected(c) /\ used(c) /\ call[c].answer # NoAnswer
    BY <1>4 DEF rejected, answered
  <2>2. c \notin added
    BY <1>1, <2>1 DEF ReplenishInv
  <2>3. \A o \in orders : o.id # c
    BY <1>1, <2>1, NobodyIsNoCall DEF OrdersInv, seeded, askedFor
  <2> QED
    BY <1>1, <2>1, <2>2, <2>3 DEF PaymentsInv
<1>5. \A c \in Call : told(c) /\ about = "paying" =>
        [invoice |-> call[c].command.invoice, reference |-> call[c].command.reference] \in payments
  BY <1>1, <1>2 DEF PaymentsInv
<1>6. \A c \in Call : told(c) /\ about = "replenishing" => c \in added
  BY <1>1, <1>2 DEF ReplenishInv
<1>7. \A p, q \in payments : p.invoice = q.invoice \/ p.reference = q.reference => p = q
  BY <1>1 DEF PaymentsInv
<1> QED
  BY <1>3, <1>4, <1>5, <1>6, <1>7 DEF AnswersTrue

(* What the gateway answers is true of the system, for any number of       *)
(* requests, invoices and faults: placed, paid and replenished mean done,  *)
(* a 4xx that nothing was and will be done, and no such invoice that there *)
(* was none (RpcErrorMapping, InvoiceLookupService).                       *)
THEOREM AnswersKeepTheirWord == Spec => []AnswersTrue
BY FrontDoorInvariant, InvAnswersTrue, PTL


-----------------------------------------------------------------------------
(* Amounts of money, and the totals that Orders and the page compute.      *)

LOCAL amounts == Money \union {InvalidMoney}

LEMMA MoneyIs ==
  ASSUME NEW n, NEW currency
  PROVE  /\ money(n, currency) \in amounts
         /\ money(n, currency) # InvalidMoney =>
              /\ currency # NoCurrency /\ n \in Int
              /\ money(n, currency).amount = n /\ money(n, currency).currency = currency
<1>1. MAX_SAFE_INTEGER \in Nat /\ NoCurrency \notin Currency
  BY KernelAssumption DEF Currency
<1>2. CASE isSafeInteger(n) /\ currency \in Currency
  <2>1. n \in -MAX_SAFE_INTEGER..MAX_SAFE_INTEGER /\ n \in Int
    BY <1>1, <1>2 DEF isSafeInteger
  <2>2. currency # NoCurrency
    BY <1>1, <1>2
  <2>3. money(n, currency) = [amount |-> n, currency |-> currency]
    BY <1>2 DEF money
  <2>4. money(n, currency) \in amounts
    BY <1>2, <2>1, <2>3 DEF amounts, Money
  <2> QED
    BY <2>1, <2>2, <2>3, <2>4
<1>3. CASE ~(isSafeInteger(n) /\ currency \in Currency)
  <2>1. money(n, currency) = InvalidMoney
    BY <1>3 DEF money
  <2> QED
    BY <2>1 DEF amounts
<1> QED
  BY <1>2, <1>3

LEMMA Sums ==
  ASSUME NEW a, NEW b
  PROVE  add(a, b) \in amounts
BY MoneyIs DEF add, amounts

(* Each fold is the last of its prefix sums.                               *)
LOCAL amountSums(currency, lines, N, sum) ==
  /\ sum[0] = zero(currency)
  /\ \A k \in 1..N :
       sum[k] = add(sum[k - 1], multiply(lines[k].unitPrice, lines[k].quantity))
  /\ initialAmount(currency, lines) = sum[N]

LOCAL discountSums(currency, lines, N, sum) ==
  /\ sum[0] = zero(currency)
  /\ \A k \in 1..N : sum[k] = add(sum[k - 1], lines[k].lineDiscount)
  /\ initialDiscount(currency, lines) = sum[N]

LOCAL draftSums(command, N, sum) ==
  /\ sum[0] = 0
  /\ \A k \in 1..N : sum[k] = sum[k - 1] + draftLineTotal(command.lines[k])
  /\ draftOrderTotal(command) = sum[N]

LEMMA AmountIsSum ==
  ASSUME NEW currency, NEW N \in Nat, NEW lines, DOMAIN lines = 1..N
  PROVE  \E sum : amountSums(currency, lines, N, sum)
<1> DEFINE base == zero(currency)
           next(a, k) == add(a, multiply(lines[k].unitPrice, lines[k].quantity))
           step == [p \in amounts \X (1..N) |-> next(p[1], p[2])]
           raw(g) == g = [s \in SUBSET (1..N) |->
                            IF s = {} THEN base ELSE next(g[s \ {Max(s)}], Max(s))]
           fold == CHOOSE g : raw(g)
<1>1. base \in amounts /\ step \in [amounts \X (1..N) -> amounts]
  BY MoneyIs, Sums DEF zero
<1>2. PICK g \in [SUBSET (1..N) -> amounts] : lastOff(N, base, step, g)
  <2> HIDE DEF base, step
  <2> QED
    BY <1>1, LeftFoldExists
<1>3. ASSUME NEW s \in SUBSET (1..N)
      PROVE  g[s] = IF s = {} THEN base ELSE next(g[s \ {Max(s)}], Max(s))
  <2>1. CASE s = {}
    BY <1>2, <2>1 DEF lastOff
  <2>2. CASE s # {}
    <3>1. Max(s) \in 1..N
      BY <2>2, LastPlace
    <3>2. g[s \ {Max(s)}] \in amounts
      OBVIOUS
    <3>3. g[s] = step[<<g[s \ {Max(s)}], Max(s)>>]
      <4> HIDE DEF base, step
      <4> QED
        BY <1>2, <2>2 DEF lastOff
    <3>4. step[<<g[s \ {Max(s)}], Max(s)>>] = next(g[s \ {Max(s)}], Max(s))
      BY <3>1, <3>2
    <3> HIDE DEF next, step, base
    <3> QED
      BY <2>2, <3>3, <3>4
  <2> QED
    BY <2>1, <2>2
<1>4. raw(g)
  <2>1. g = [s \in SUBSET (1..N) |-> g[s]]
    OBVIOUS
  <2> HIDE DEF next, base
  <2> QED
    BY <1>3, <2>1
<1>5. raw(fold)
  <2> HIDE DEF raw
  <2> QED
    BY <1>4
<1>6. initialAmount(currency, lines) = fold[1..N]
  BY DEF initialAmount, FoldLeft, MapThenFoldSet
<1> HIDE DEF fold
<1> DEFINE sum == [k \in 0..N |-> fold[1..k]]
<1>7. sum[0] = base
  <2>1. 1..0 = {} /\ 1..0 \in SUBSET (1..N)
    OBVIOUS
  <2> HIDE DEF next, base
  <2> QED
    BY <1>5, <2>1
<1>8. ASSUME NEW k \in 1..N
      PROVE  sum[k] = next(sum[k - 1], k)
  <2>1. 1..k \in SUBSET (1..N) /\ k \in Nat \ {0} /\ k - 1 \in 0..N /\ k \in 0..N
    OBVIOUS
  <2>2. 1..k # {} /\ Max(1..k) = k /\ (1..k) \ {k} = 1..(k - 1)
    BY <2>1, PrefixEnds
  <2>3. fold[1..k] = next(fold[1..(k - 1)], k)
    <3> HIDE DEF next, base
    <3> QED
      BY <1>5, <2>1, <2>2
  <2> HIDE DEF next
  <2> QED
    BY <2>1, <2>3
<1>9. sum[N] = fold[1..N]
  OBVIOUS
<1> HIDE DEF sum
<1> QED
  BY <1>6, <1>7, <1>8, <1>9 DEF amountSums

LEMMA DiscountIsSum ==
  ASSUME NEW currency, NEW N \in Nat, NEW lines, DOMAIN lines = 1..N
  PROVE  \E sum : discountSums(currency, lines, N, sum)
<1> DEFINE base == zero(currency)
           next(a, k) == add(a, lines[k].lineDiscount)
           step == [p \in amounts \X (1..N) |-> next(p[1], p[2])]
           raw(g) == g = [s \in SUBSET (1..N) |->
                            IF s = {} THEN base ELSE next(g[s \ {Max(s)}], Max(s))]
           fold == CHOOSE g : raw(g)
<1>1. base \in amounts /\ step \in [amounts \X (1..N) -> amounts]
  BY MoneyIs, Sums DEF zero
<1>2. PICK g \in [SUBSET (1..N) -> amounts] : lastOff(N, base, step, g)
  <2> HIDE DEF base, step
  <2> QED
    BY <1>1, LeftFoldExists
<1>3. ASSUME NEW s \in SUBSET (1..N)
      PROVE  g[s] = IF s = {} THEN base ELSE next(g[s \ {Max(s)}], Max(s))
  <2>1. CASE s = {}
    BY <1>2, <2>1 DEF lastOff
  <2>2. CASE s # {}
    <3>1. Max(s) \in 1..N
      BY <2>2, LastPlace
    <3>2. g[s \ {Max(s)}] \in amounts
      OBVIOUS
    <3>3. g[s] = step[<<g[s \ {Max(s)}], Max(s)>>]
      <4> HIDE DEF base, step
      <4> QED
        BY <1>2, <2>2 DEF lastOff
    <3>4. step[<<g[s \ {Max(s)}], Max(s)>>] = next(g[s \ {Max(s)}], Max(s))
      BY <3>1, <3>2
    <3> HIDE DEF next, step, base
    <3> QED
      BY <2>2, <3>3, <3>4
  <2> QED
    BY <2>1, <2>2
<1>4. raw(g)
  <2>1. g = [s \in SUBSET (1..N) |-> g[s]]
    OBVIOUS
  <2> HIDE DEF next, base
  <2> QED
    BY <1>3, <2>1
<1>5. raw(fold)
  <2> HIDE DEF raw
  <2> QED
    BY <1>4
<1>6. initialDiscount(currency, lines) = fold[1..N]
  BY DEF initialDiscount, FoldLeft, MapThenFoldSet
<1> HIDE DEF fold
<1> DEFINE sum == [k \in 0..N |-> fold[1..k]]
<1>7. sum[0] = base
  <2>1. 1..0 = {} /\ 1..0 \in SUBSET (1..N)
    OBVIOUS
  <2> HIDE DEF next, base
  <2> QED
    BY <1>5, <2>1
<1>8. ASSUME NEW k \in 1..N
      PROVE  sum[k] = next(sum[k - 1], k)
  <2>1. 1..k \in SUBSET (1..N) /\ k \in Nat \ {0} /\ k - 1 \in 0..N /\ k \in 0..N
    OBVIOUS
  <2>2. 1..k # {} /\ Max(1..k) = k /\ (1..k) \ {k} = 1..(k - 1)
    BY <2>1, PrefixEnds
  <2>3. fold[1..k] = next(fold[1..(k - 1)], k)
    <3> HIDE DEF next, base
    <3> QED
      BY <1>5, <2>1, <2>2
  <2> HIDE DEF next
  <2> QED
    BY <2>1, <2>3
<1>9. sum[N] = fold[1..N]
  OBVIOUS
<1> HIDE DEF sum
<1> QED
  BY <1>6, <1>7, <1>8, <1>9 DEF discountSums

LEMMA DraftIsSum ==
  ASSUME NEW command, NEW N \in Nat, DOMAIN command.lines = 1..N,
         \A k \in 1..N : draftLineTotal(command.lines[k]) \in Int
  PROVE  \E sum : draftSums(command, N, sum)
<1> DEFINE base == 0
           next(a, k) == a + draftLineTotal(command.lines[k])
           step == [p \in Int \X (1..N) |-> next(p[1], p[2])]
           raw(g) == g = [s \in SUBSET (1..N) |->
                            IF s = {} THEN base ELSE next(g[s \ {Max(s)}], Max(s))]
           fold == CHOOSE g : raw(g)
<1>1. base \in Int /\ step \in [Int \X (1..N) -> Int]
  OBVIOUS
<1>2. PICK g \in [SUBSET (1..N) -> Int] : lastOff(N, base, step, g)
  <2> HIDE DEF base, step
  <2> QED
    BY <1>1, LeftFoldExists
<1>3. ASSUME NEW s \in SUBSET (1..N)
      PROVE  g[s] = IF s = {} THEN base ELSE next(g[s \ {Max(s)}], Max(s))
  <2>1. CASE s = {}
    BY <1>2, <2>1 DEF lastOff
  <2>2. CASE s # {}
    <3>1. Max(s) \in 1..N
      BY <2>2, LastPlace
    <3>2. g[s \ {Max(s)}] \in Int
      OBVIOUS
    <3>3. g[s] = step[<<g[s \ {Max(s)}], Max(s)>>]
      <4> HIDE DEF base, step
      <4> QED
        BY <1>2, <2>2 DEF lastOff
    <3>4. step[<<g[s \ {Max(s)}], Max(s)>>] = next(g[s \ {Max(s)}], Max(s))
      BY <3>1, <3>2
    <3> HIDE DEF next, step, base
    <3> QED
      BY <2>2, <3>3, <3>4
  <2> QED
    BY <2>1, <2>2
<1>4. raw(g)
  <2>1. g = [s \in SUBSET (1..N) |-> g[s]]
    OBVIOUS
  <2> HIDE DEF next, base
  <2> QED
    BY <1>3, <2>1
<1>5. raw(fold)
  <2> HIDE DEF raw
  <2> QED
    BY <1>4
<1>6. draftOrderTotal(command) = fold[1..N]
  BY DEF draftOrderTotal, FoldLeft, MapThenFoldSet
<1> HIDE DEF fold
<1> DEFINE sum == [k \in 0..N |-> fold[1..k]]
<1>7. sum[0] = base
  <2>1. 1..0 = {} /\ 1..0 \in SUBSET (1..N)
    OBVIOUS
  <2> HIDE DEF next, base
  <2> QED
    BY <1>5, <2>1
<1>8. ASSUME NEW k \in 1..N
      PROVE  sum[k] = next(sum[k - 1], k)
  <2>1. 1..k \in SUBSET (1..N) /\ k \in Nat \ {0} /\ k - 1 \in 0..N /\ k \in 0..N
    OBVIOUS
  <2>2. 1..k # {} /\ Max(1..k) = k /\ (1..k) \ {k} = 1..(k - 1)
    BY <2>1, PrefixEnds
  <2>3. fold[1..k] = next(fold[1..(k - 1)], k)
    <3> HIDE DEF next, base
    <3> QED
      BY <1>5, <2>1, <2>2
  <2> HIDE DEF next
  <2> QED
    BY <2>1, <2>3
<1>9. sum[N] = fold[1..N]
  OBVIOUS
<1> HIDE DEF sum
<1> QED
  BY <1>6, <1>7, <1>8, <1>9 DEF draftSums


LEMMA AddIs ==
  ASSUME NEW a, NEW b, add(a, b) # InvalidMoney
  PROVE  /\ a # InvalidMoney /\ b.currency = a.currency /\ a.currency # NoCurrency
         /\ add(a, b).amount = a.amount + b.amount /\ add(a, b).amount \in Int
         /\ add(a, b).currency = a.currency
<1>1. a # InvalidMoney /\ a.currency = b.currency
      /\ add(a, b) = money(a.amount + b.amount, a.currency)
  BY DEF add, sameCurrency
<1> QED
  BY <1>1, MoneyIs

LEMMA SubtractIs ==
  ASSUME NEW a, NEW b, subtract(a, b) # InvalidMoney
  PROVE  /\ a # InvalidMoney /\ b.currency = a.currency /\ a.currency # NoCurrency
         /\ subtract(a, b) = money(a.amount - b.amount, a.currency)
<1>1. a # InvalidMoney /\ a.currency = b.currency
      /\ subtract(a, b) = money(a.amount - b.amount, a.currency)
  BY DEF subtract, sameCurrency
<1> QED
  BY <1>1, MoneyIs

LEMMA MultiplyIs ==
  ASSUME NEW a, NEW quantity, multiply(a, quantity) # InvalidMoney
  PROVE  a # InvalidMoney /\ multiply(a, quantity).amount = a.amount * quantity
<1>1. a # InvalidMoney /\ multiply(a, quantity) = money(a.amount * quantity, a.currency)
  BY DEF multiply
<1> QED
  BY <1>1, MoneyIs

LEMMA HasCurrency ==
  ASSUME NEW a, a.currency # NoCurrency
  PROVE  a # InvalidMoney
BY DEF InvalidMoney

(* What a line adds to the page's total is what Orders makes of it.        *)
LOCAL asShown(l, o, gross, discount) ==
  /\ draftLineTotal(l) = gross - discount
  /\ LET m == multiply(o.unitPrice, o.quantity) IN m # InvalidMoney => m.amount = gross
  /\ o.lineDiscount # InvalidMoney => o.lineDiscount.amount = discount

LEMMA LineAsShown ==
  ASSUME Catalogued, NEW l, NEW currency, l.product \in DOMAIN Product,
         l.quantity \in Int, l.unitPrice \in Int, l.lineDiscount \in Int,
         NEW o, o = toLineInput(l, currency)
  PROVE  \E gross \in Int, discount \in Int : asShown(l, o, gross, discount)
<1> DEFINE price == IF l.unitPrice # NotTyped THEN l.unitPrice ELSE Product[l.product].amount
           discount == IF l.lineDiscount = NotTyped THEN 0 ELSE l.lineDiscount
           unit == IF l.unitPrice # NotTyped THEN money(l.unitPrice, currency) ELSE Product[l.product]
<1>1. Product[l.product].amount \in Int
  <2>1. Product[l.product] \in Money
    BY PlacementAssumption
  <2>2. MAX_SAFE_INTEGER \in Nat
    BY KernelAssumption
  <2> QED
    BY <2>1, <2>2 DEF Money
<1>2. price \in Int /\ discount \in Int
  BY <1>1
<1>3. draftLineTotal(l) = price * l.quantity - discount
  BY DEF draftLineTotal
<1>4. unit # InvalidMoney => unit.amount = price
  BY MoneyIs
<1>5. toLineInput(l, currency)
        = [quantity |-> l.quantity, unitPrice |-> unit, lineDiscount |-> money(discount, currency)]
  BY DEF toLineInput
<1> HIDE DEF price, discount, unit
<1>7. o.quantity = l.quantity /\ o.unitPrice = unit /\ o.lineDiscount = money(discount, currency)
  BY <1>5
<1>8. PICK gross : gross = price * l.quantity
  OBVIOUS
<1>9. gross \in Int
  BY <1>2, <1>8
<1>10. multiply(o.unitPrice, o.quantity) # InvalidMoney =>
         multiply(o.unitPrice, o.quantity).amount = gross
  BY <1>4, <1>7, <1>8, MultiplyIs
<1>11. o.lineDiscount # InvalidMoney => o.lineDiscount.amount = discount
  BY <1>7, MoneyIs
<1> QED
  BY <1>2, <1>3, <1>8, <1>9, <1>10, <1>11 DEF asShown


(* As long as Orders' two sums are valid, the page's is their difference.  *)
LEMMA PlacedAsShown ==
  ASSUME Catalogued, NEW command, readable(command), isComplete(command),
         placedTotal(command) # InvalidMoney
  PROVE  placedTotal(command) = money(draftOrderTotal(command), command.currency)
<1>1. PICK currency, lines : currency = command.currency /\ lines = command.lines
  OBVIOUS
<1>2. PICK N \in Nat : DOMAIN lines = 1..N
  BY <1>1 DEF readable
<1>3. PICK priced : priced = [i \in 1..N |-> toLineInput(lines[i], currency)]
  OBVIOUS
<1>4. placedTotal(command) = computeOrderTotals(currency, priced)
  BY <1>1, <1>2, <1>3 DEF placedTotal
<1>5. ASSUME NEW k \in 1..N
      PROVE  \E gross \in Int, discount \in Int : asShown(lines[k], priced[k], gross, discount)
  <2>1. PICK l : l = lines[k]
    OBVIOUS
  <2>2. l.product \in DOMAIN Product
    BY <1>1, <1>2, <2>1 DEF isComplete
  <2>3. l.quantity \in Int /\ l.unitPrice \in Int /\ l.lineDiscount \in Int
    BY <1>1, <1>2, <2>1 DEF readable, ToSet
  <2>4. priced[k] = toLineInput(l, currency)
    BY <1>3, <2>1
  <2> QED
    BY <2>1, <2>2, <2>3, <2>4, LineAsShown
<1>6. PICK A : amountSums(currency, priced, N, A)
  BY <1>3, AmountIsSum
<1>7. PICK B : discountSums(currency, priced, N, B)
  BY <1>3, DiscountIsSum
<1>8. PICK D : draftSums(command, N, D)
  <2>1. \A k \in 1..N : draftLineTotal(lines[k]) \in Int
    BY <1>5 DEF asShown
  <2> QED
    BY <1>1, <1>2, <2>1, DraftIsSum
<1> DEFINE shown(k) ==
             /\ A[k] # InvalidMoney => A[k].currency = currency /\ A[k].amount \in Int
             /\ B[k] # InvalidMoney => B[k].currency = currency /\ B[k].amount \in Int
             /\ D[k] \in Int
             /\ A[k] # InvalidMoney /\ B[k] # InvalidMoney => D[k] = A[k].amount - B[k].amount
           T == {k \in Nat : k <= N => shown(k)}
<1>9. shown(0)
  <2>1. zero(currency) # InvalidMoney => zero(currency).currency = currency /\ zero(currency).amount = 0
    BY MoneyIs DEF zero
  <2> QED
    BY <1>6, <1>7, <1>8, <2>1 DEF amountSums, discountSums, draftSums
<1>10. ASSUME NEW n \in Nat, shown(n), n + 1 <= N
       PROVE  shown(n + 1)
  <2>1. PICK k : k = n + 1
    OBVIOUS
  <2>2. k \in 1..N /\ k - 1 = n
    BY <1>10, <2>1
  <2>3. PICK m, x : /\ m = multiply(priced[k].unitPrice, priced[k].quantity)
                    /\ x = priced[k].lineDiscount
    OBVIOUS
  <2>4. PICK gross \in Int, discount \in Int :
          /\ draftLineTotal(lines[k]) = gross - discount
          /\ m # InvalidMoney => m.amount = gross
          /\ x # InvalidMoney => x.amount = discount
    BY <1>5, <2>2, <2>3 DEF asShown
  <2>5. A[k] = add(A[n], m) /\ B[k] = add(B[n], x) /\ D[k] = D[n] + (gross - discount)
    BY <1>1, <1>6, <1>7, <1>8, <2>2, <2>3, <2>4 DEF amountSums, discountSums, draftSums
  <2>6. ASSUME A[k] # InvalidMoney
        PROVE  /\ A[n] # InvalidMoney /\ A[k].currency = currency /\ A[k].amount \in Int
               /\ A[k].amount = A[n].amount + gross
    <3>1. /\ A[n] # InvalidMoney /\ m.currency = A[n].currency /\ A[n].currency # NoCurrency
          /\ A[k].amount = A[n].amount + m.amount /\ A[k].amount \in Int
          /\ A[k].currency = A[n].currency
      BY <2>5, <2>6, AddIs
    <3>2. m.amount = gross
      BY <2>4, <3>1, HasCurrency
    <3> QED
      BY <1>10, <3>1, <3>2
  <2>7. ASSUME B[k] # InvalidMoney
        PROVE  /\ B[n] # InvalidMoney /\ B[k].currency = currency /\ B[k].amount \in Int
               /\ B[k].amount = B[n].amount + discount
    <3>1. /\ B[n] # InvalidMoney /\ x.currency = B[n].currency /\ B[n].currency # NoCurrency
          /\ B[k].amount = B[n].amount + x.amount /\ B[k].amount \in Int
          /\ B[k].currency = B[n].currency
      BY <2>5, <2>7, AddIs
    <3>2. x.amount = discount
      BY <2>4, <3>1, HasCurrency
    <3> QED
      BY <1>10, <3>1, <3>2
  <2>8. D[k] \in Int
    BY <1>10, <2>5
  <2>9. A[k] # InvalidMoney /\ B[k] # InvalidMoney => D[k] = A[k].amount - B[k].amount
    BY <1>10, <2>5, <2>6, <2>7
  <2> QED
    BY <2>1, <2>6, <2>7, <2>8, <2>9
<1>11. shown(N)
  <2>1. 0 \in T /\ \A n \in Nat : n \in T => n + 1 \in T
    BY <1>9, <1>10
  <2>2. N \in T
    <3> HIDE DEF T
    <3> QED
      BY <2>1, Induction
  <2> QED
    BY <2>2
<1>12. subtract(A[N], B[N]) # InvalidMoney /\ placedTotal(command) = subtract(A[N], B[N])
  BY <1>4, <1>6, <1>7 DEF computeOrderTotals, amountSums, discountSums
<1>13. /\ A[N] # InvalidMoney /\ B[N].currency = A[N].currency /\ A[N].currency # NoCurrency
       /\ subtract(A[N], B[N]) = money(A[N].amount - B[N].amount, A[N].currency)
  BY <1>12, SubtractIs
<1>14. B[N] # InvalidMoney
  BY <1>13, HasCurrency
<1> QED
  BY <1>1, <1>8, <1>11, <1>12, <1>13, <1>14 DEF draftSums


-----------------------------------------------------------------------------
(* The page charges what it showed.                                        *)

(* What all steps but a new request's do to a call: it stays what it asks. *)
sticks(d) ==
  /\ used(d) => used(d)' /\ call'[d].from = call[d].from /\ call'[d].command = call[d].command
  /\ ~used(d) => ~used(d)'

LEMMA Edited ==
  ASSUME CallsInv, NEW c \in Call, used(c), NEW r, call' = [call EXCEPT ![c] = r],
         r.from = call[c].from, r.command = call[c].command, r.stage # "unused"
  PROVE  \A d \in Call : sticks(d)
<1>1. \A d \in Call : call'[d] = IF d = c THEN r ELSE call[d]
  BY CallAfter
<1>2. r # Unused
  BY DEF Unused
<1> QED
  BY <1>1, <1>2 DEF sticks, used

LEMMA Stuck ==
  ASSUME UNCHANGED call, NEW d \in Call
  PROVE  sticks(d)
BY DEF sticks, used

LEMMA ReplySticks ==
  ASSUME CallsInv, NEW c \in Call, used(c), NEW reply, call' = withReply(c, reply)
  PROVE  \A d \in Call : sticks(d)
<1>1. PICK r : r = [call[c] EXCEPT !.stage = "replied", !.reply = reply]
  OBVIOUS
<1>2. call' = [call EXCEPT ![c] = r]
  BY <1>1 DEF withReply, CallsInv
<1>3. r.from = call[c].from /\ r.command = call[c].command /\ r.stage = "replied"
  BY <1>1, CallFields
<1> QED
  BY <1>2, <1>3, Edited

LEMMA TransportSticks ==
  ASSUME CallsInv, NEW c \in Call, Transport(c)
  PROVE  \A d \in Call : sticks(d)
<1>1. CASE RpcTimeout(c)
  <2>1. used(c)
    BY <1>1 DEF RpcTimeout, open
  <2>2. PICK r : r = [call[c] EXCEPT !.stage = IF @ = "resolving" THEN "over" ELSE @,
                                     !.answer = classifyRpcError("TIMEOUT")]
    OBVIOUS
  <2>3. call' = [call EXCEPT ![c] = r]
    BY <1>1, <2>2 DEF RpcTimeout, CallsInv
  <2>4. /\ r.from = call[c].from /\ r.command = call[c].command
        /\ r.stage = IF call[c].stage = "resolving" THEN "over" ELSE call[c].stage
    BY <2>1, <2>2, CallFields
  <2>5. call[c].stage # "unused"
    BY <2>1, CallFields, UnusedCalls
  <2> QED
    BY <2>1, <2>3, <2>4, <2>5, Edited
<1>2. CASE NoResponders(c)
  <2>1. used(c)
    BY <1>2 DEF NoResponders, open
  <2>2. PICK r : r = [call[c] EXCEPT !.stage = "over", !.answer = classifyRpcError("UNAVAILABLE")]
    OBVIOUS
  <2>3. call' = [call EXCEPT ![c] = r]
    BY <1>2, <2>2 DEF NoResponders, CallsInv
  <2>4. r.from = call[c].from /\ r.command = call[c].command /\ r.stage = "over"
    BY <2>1, <2>2, CallFields
  <2> QED
    BY <2>1, <2>3, <2>4, Edited
<1>3. CASE RequestLost(c)
  <2>1. used(c)
    BY <1>3 DEF RequestLost, open, used, stageIs, Unused
  <2>2. PICK r : r = [call[c] EXCEPT !.stage = "over"]
    OBVIOUS
  <2>3. call' = [call EXCEPT ![c] = r]
    BY <1>3, <2>2 DEF RequestLost, withStage, CallsInv
  <2>4. r.from = call[c].from /\ r.command = call[c].command /\ r.stage = "over"
    BY <2>1, <2>2, CallFields
  <2> QED
    BY <2>1, <2>3, <2>4, Edited
<1> QED
  BY <1>1, <1>2, <1>3 DEF Transport

LEMMA AnswerSticks ==
  ASSUME CallsInv, NEW c \in Call, AnswerCall(c)
  PROVE  \A d \in Call : sticks(d)
<1>1. used(c) /\ call[c].stage = "replied"
  BY DEF AnswerCall, open, stageIs
<1>2. PICK r : r = [call[c] EXCEPT !.answer = answerTo(call[c].reply)]
  OBVIOUS
<1>3. call' = [call EXCEPT ![c] = r]
  BY <1>2 DEF AnswerCall, withAnswer, CallsInv
<1>4. r.from = call[c].from /\ r.command = call[c].command /\ r.stage = "replied"
  BY <1>1, <1>2, CallFields
<1> QED
  BY <1>1, <1>3, <1>4, Edited

(* Only a request of the place page can be charged, and only orders that   *)
(* were placed in this behaviour.                                          *)
LEMMA NothingToCharge ==
  ASSUME FrontDoorInv', about' # "placing", draft'.form.lines \in Seq(ToSet(draft'.form.lines))
  PROVE  ChargesInv'
<1>1. \A c \in Call : ~onPage(c)' /\ placing'[c] = NotPlacing
  BY DEF FrontDoorInv, DraftsInv, PlacementsInv, onItsWay
<1>2. \A c \in Call : placing'[c].step # "written"
  BY <1>1 DEF NotPlacing
<1>3. \A o \in orders' : o.id \notin Call
  BY PlacementAssumption DEF FrontDoorInv, OrdersInv, seeded, askedFor
<1> QED
  BY <1>1, <1>2, <1>3 DEF ChargesInv


(* A placement keeps what it is asked for, and what it writes is valid.    *)
LOCAL chargesOn(d) ==
  /\ placing'[d] # NotPlacing =>
       used(d) /\ (placing[d] # NotPlacing \/ isComplete(placement(d)))
  /\ placing'[d].step = "written" /\ placing'[d].new = TRUE =>
       placing'[d] = placing[d] \/ placing'[d].order.total # InvalidMoney

LOCAL isPlaced(o) ==
  /\ o.id \in Call /\ placing[o.id] # NotPlacing /\ used(o.id)
  /\ o.total # InvalidMoney

LEMMA ChargesStand ==
  ASSUME FrontDoorInv, ChargesInv,
         draft'.form.lines \in Seq(ToSet(draft'.form.lines)),
         \A d \in Call : used(d) => sticks(d),
         \A d \in Call : ~used(d) /\ onPage(d)' => readable(placement(d)'),
         \A d \in Call : chargesOn(d), \A o \in orders' : o \in orders \/ isPlaced(o)
  PROVE  ChargesInv'
<1>1. ASSUME NEW d \in Call, used(d)
      PROVE  call'[d].command = call[d].command /\ (onPage(d)' => onPage(d))
  BY <1>1 DEF sticks, onPage
<1>2. ASSUME NEW d \in Call, onPage(d)'
      PROVE  readable(placement(d)')
  <2>1. CASE used(d)
    BY <1>1, <1>2, <2>1 DEF ChargesInv, placement
  <2> QED
    BY <1>2, <2>1
<1>3. ASSUME NEW d \in Call, used(d), isComplete(placement(d))
      PROVE  isComplete(placement(d)')
  BY <1>1, <1>3 DEF placement
<1>4. ASSUME NEW d \in Call, placing'[d] # NotPlacing
      PROVE  isComplete(placement(d)')
  BY <1>3, <1>4 DEF ChargesInv, chargesOn
<1>5. ASSUME NEW d \in Call, placing'[d].step = "written", placing'[d].new = TRUE
      PROVE  placing'[d].order.total # InvalidMoney
  BY <1>5 DEF ChargesInv, chargesOn
<1>6. ASSUME NEW o \in orders', o.id \in Call
      PROVE  isComplete(placement(o.id)') /\ o.total # InvalidMoney
  <2>1. CASE o \in orders
    <3>1. used(o.id)
      BY <1>6, <2>1, PlacementAssumption DEF FrontDoorInv, OrdersInv, seeded, askedFor
    <3> QED
      BY <1>3, <1>6, <2>1, <3>1 DEF ChargesInv
  <2>2. CASE isPlaced(o)
    BY <1>3, <2>2 DEF isPlaced, ChargesInv
  <2> QED
    BY <1>6, <2>1, <2>2
<1> QED
  BY <1>2, <1>4, <1>5, <1>6 DEF ChargesInv, placement

LEMMA PlacementsAlone ==
  ASSUME FrontDoorInv, placing' = placing, NEW d \in Call
  PROVE  chargesOn(d)
BY DEF chargesOn, FrontDoorInv, PlacementsInv, onItsWay

(* What the page sends for a draft without problems.                       *)
LEMMA PayloadReadable ==
  ASSUME NEW form, form.lines \in Seq(ToSet(form.lines)), problemsByLine(form) = {}, NEW key
  PROVE  readable(payload(form, key))
<1>1. PICK sent : sent = chosen(form)
  OBVIOUS
<1>2. PICK N \in Nat : DOMAIN sent = 1..N
  <2>1. PICK places \in SUBSET DOMAIN form.lines : sent = kept(form.lines, places)
    BY <1>1 DEF chosen
  <2>2. IsFiniteSet(places)
    <3>1. PICK M \in Nat : DOMAIN form.lines = 1..M
      OBVIOUS
    <3>2. IsFiniteSet(1..M)
      BY FS_Interval
    <3> QED
      BY <2>1, <3>1, <3>2, FS_Subset
  <2>3. Cardinality(places) \in Nat
    BY <2>2, FS_CardinalityType
  <2> QED
    BY <2>1, <2>3 DEF kept
<1>3. PICK command : command = payload(form, key)
  OBVIOUS
<1>4. command.lines =
        [i \in 1..N |->
           [product |-> sent[i].product, quantity |-> sent[i].quantity.whole,
            unitPrice |-> toMinorUnits(sent[i].unitPrice, form.currency),
            lineDiscount |-> toMinorUnits(sent[i].lineDiscount, form.currency)]]
  BY <1>1, <1>2, <1>3 DEF payload
<1>5. MAX_SAFE_INTEGER \in Nat
  BY KernelAssumption
<1>6. ASSUME NEW text, NEW currency, ~optionalAmountProblem(text, currency)
      PROVE  toMinorUnits(text, currency) \in Int
  <2>1. decimalStringToMinorUnits(text, currency) # NotTyped =>
          isSafeInteger(decimalStringToMinorUnits(text, currency))
    BY DEF decimalStringToMinorUnits
  <2> QED
    BY <1>5, <1>6, <2>1 DEF optionalAmountProblem, toMinorUnits, isSafeInteger, NotTyped
<1>7. ASSUME NEW i \in 1..N
      PROVE  LET l == command.lines[i]
             IN l.quantity \in Int /\ l.unitPrice \in Int /\ l.lineDiscount \in Int
  <2>1. /\ ~wholeNumberProblem(sent[i].quantity, 1)
        /\ ~optionalAmountProblem(sent[i].unitPrice, form.currency)
        /\ ~optionalAmountProblem(sent[i].lineDiscount, form.currency)
    BY <1>1, <1>2 DEF problemsByLine
  <2>2. sent[i].quantity.whole \in Int
    BY <1>5, <2>1 DEF wholeNumberProblem, wholeNumber, isSafeInteger
  <2> QED
    BY <1>4, <1>6, <2>1, <2>2
<1>8. command.lines \in Seq(ToSet(command.lines))
  <2>1. DOMAIN command.lines = 1..N
    BY <1>4
  <2>2. command.lines = [i \in 1..N |-> command.lines[i]]
    BY <1>4
  <2>3. \A i \in 1..N : command.lines[i] \in ToSet(command.lines)
    BY <2>1 DEF ToSet
  <2> QED
    BY <2>2, <2>3
<1>9. \A l \in ToSet(command.lines) :
        l.quantity \in Int /\ l.unitPrice \in Int /\ l.lineDiscount \in Int
  <2>1. DOMAIN command.lines = 1..N
    BY <1>4
  <2> QED
    BY <1>7, <2>1 DEF ToSet
<1> QED
  BY <1>3, <1>8, <1>9 DEF readable


LEMMA PlacementCharges ==
  ASSUME FrontDoorInv, ChargesInv, draft' = draft, NEW c \in Call, used(c),
         NEW q, placing' = [placing EXCEPT ![c] = q], \A d \in Call : sticks(d),
         q # NotPlacing => placing[c] # NotPlacing \/ isComplete(placement(c)),
         q.step = "written" /\ q.new = TRUE => q.order.total # InvalidMoney,
         \A o \in orders' : o \in orders \/ isPlaced(o)
  PROVE  ChargesInv'
<1>1. \A d \in Call : placing'[d] = IF d = c THEN q ELSE placing[d]
  BY DEF FrontDoorInv, PlacementsInv
<1>2. ASSUME NEW d \in Call
      PROVE  chargesOn(d)
  <2>1. CASE d = c
    BY <1>1, <2>1 DEF chargesOn
  <2>2. CASE d # c
    BY <1>1, <2>2 DEF chargesOn, FrontDoorInv, PlacementsInv, onItsWay
  <2> QED
    BY <2>1, <2>2
<1>3. \A d \in Call : ~used(d) => ~onPage(d)'
  BY DEF sticks, onPage
<1>4. draft'.form.lines \in Seq(ToSet(draft'.form.lines))
  BY DEF ChargesInv
<1> QED
  BY <1>2, <1>3, <1>4, ChargesStand

LEMMA RollBackCharges ==
  ASSUME FrontDoorInv, ChargesInv, draft' = draft, orders' = orders,
         NEW c \in Call, used(c), NEW reply, replyTo(c, reply)
  PROVE  ChargesInv'
<1>1. call' = withReply(c, reply) /\ placing' = [placing EXCEPT ![c] = NotPlacing]
  BY DEF replyTo
<1>2. \A d \in Call : sticks(d)
  BY <1>1, ReplySticks DEF FrontDoorInv
<1>3. PICK q : q = NotPlacing
  OBVIOUS
<1>4. q.step # "written" /\ placing' = [placing EXCEPT ![c] = q]
  BY <1>1, <1>3 DEF NotPlacing
<1> QED
  BY <1>2, <1>3, <1>4, PlacementCharges

LEMMA GoesOnCharges ==
  ASSUME FrontDoorInv, ChargesInv, draft' = draft, orders' = orders, call' = call,
         NEW c \in Call, used(c), NEW q, placing' = [placing EXCEPT ![c] = q],
         placing[c] # NotPlacing \/ isComplete(placement(c)),
         q.step = "written" /\ q.new = TRUE => q.order.total # InvalidMoney
  PROVE  ChargesInv'
BY Stuck, PlacementCharges

LEMMA PlacementKeepsCharges ==
  ASSUME FrontDoorInv, ChargesInv, PlacementNext, UNCHANGED <<paymentVars, pageVars, about>>
  PROVE  ChargesInv'
<1>1. draft' = draft /\ CallsInv
  BY DEF pageVars, FrontDoorInv
<1>2. \A c \in Call : placing[c] # NotPlacing => used(c)
  BY DEF FrontDoorInv, PlacementsInv, onItsWay
<1>3. ASSUME NEW c \in Call, ReceivePlacement(c)
      PROVE  ChargesInv'
  <2>1. used(c) /\ orders' = orders
    BY <1>3 DEF ReceivePlacement, asked, stageIs, used, Unused
  <2>2. \/ \E reply : replyTo(c, reply)
        \/ /\ isComplete(placement(c))
           /\ placing' = [placing EXCEPT ![c] = [step |-> "stock"]] /\ UNCHANGED call
    BY <1>3 DEF ReceivePlacement
  <2>3. CASE \E reply : replyTo(c, reply)
    BY <1>1, <2>1, <2>3, RollBackCharges
  <2>4. CASE /\ isComplete(placement(c))
             /\ placing' = [placing EXCEPT ![c] = [step |-> "stock"]] /\ UNCHANGED call
    <3>1. PICK q : q = [step |-> "stock"]
      OBVIOUS
    <3> QED
      BY <1>1, <2>1, <2>4, <3>1, GoesOnCharges
  <2> QED
    BY <2>2, <2>3, <2>4
<1>4. ASSUME NEW c \in Call, placing[c] # NotPlacing, NEW attempt, begin(c, attempt),
             UNCHANGED <<call, orders>>
      PROVE  ChargesInv'
  <2>1. PICK q : q = [step |-> "begun", attempt |-> attempt, max |-> maxSequence]
    OBVIOUS
  <2>2. placing' = [placing EXCEPT ![c] = q] /\ q.step # "written"
    BY <1>4, <2>1 DEF begin
  <2> QED
    BY <1>1, <1>2, <1>4, <2>2, GoesOnCharges
<1>5. ASSUME NEW c \in Call, CheckStock(c)
      PROVE  ChargesInv'
  <2>1. placing[c] # NotPlacing /\ orders' = orders
    BY <1>5 DEF CheckStock, NotPlacing
  <2>2. (begin(c, 1) /\ UNCHANGED call) \/ \E reply : replyTo(c, reply)
    BY <1>5 DEF CheckStock
  <2> QED
    BY <1>1, <1>2, <1>4, <2>1, <2>2, RollBackCharges
<1>6. ASSUME NEW c \in Call, NextNumber(c)
      PROVE  ChargesInv'
  <2>1. placing[c] # NotPlacing /\ orders' = orders /\ call' = call
    BY <1>6 DEF NextNumber, NotPlacing, gatewayVars
  <2>2. PICK q : q = [step |-> "numbered", attempt |-> placing[c].attempt, max |-> placing[c].max,
                      number |-> ensured(c), before |-> nextValue]
    OBVIOUS
  <2>3. placing' = [placing EXCEPT ![c] = q] /\ q.step # "written"
    BY <1>6, <2>2 DEF NextNumber, FrontDoorInv, PlacementsInv
  <2> QED
    BY <1>1, <1>2, <2>1, <2>3, GoesOnCharges
<1>7. ASSUME NEW c \in Call, NEW order, NEW new, placing[c] # NotPlacing, write(c, order, new),
             new = TRUE => order.total # InvalidMoney
      PROVE  ChargesInv'
  <2>1. PICK q : q = [step |-> "written", attempt |-> placing[c].attempt, number |-> placing[c].number,
                      before |-> placing[c].before, order |-> order, new |-> new]
    OBVIOUS
  <2>2. placing' = [placing EXCEPT ![c] = q] /\ orders' = orders /\ call' = call
    BY <1>7, <2>1 DEF write, FrontDoorInv, PlacementsInv
  <2>3. q.order = order /\ q.new = new
    BY <2>1
  <2> QED
    BY <1>1, <1>2, <1>7, <2>2, <2>3, GoesOnCharges
<1>8. ASSUME NEW c \in Call, PlaceAndSave(c)
      PROVE  ChargesInv'
  <2>1. placing[c] # NotPlacing
    BY <1>8 DEF PlaceAndSave, NotPlacing
  <2>2. \/ \E code : rollBack(c, code)
        \/ \E order : write(c, order, FALSE)
        \/ \E order : order.total # InvalidMoney /\ write(c, order, TRUE)
    BY <1>8 DEF PlaceAndSave
  <2>3. CASE \E code : rollBack(c, code)
    BY <1>1, <1>2, <2>1, <2>3, RollBackCharges DEF rollBack
  <2> QED
    BY <1>7, <2>1, <2>2, <2>3
<1>9. ASSUME NEW c \in Call, commit(c), NEW reply, replyTo(c, reply)
      PROVE  ChargesInv'
  <2>1. placing[c] # NotPlacing /\ placing[c].step = "written"
    BY <1>9 DEF commit, NotPlacing
  <2>2. call' = withReply(c, reply) /\ placing' = [placing EXCEPT ![c] = NotPlacing]
    BY <1>9 DEF replyTo
  <2>3. \A d \in Call : sticks(d)
    BY <1>1, <1>2, <2>1, <2>2, ReplySticks
  <2>4. written(c)
    BY <2>1 DEF FrontDoorInv, PlacementsInv, onItsWay
  <2>5. \A o \in orders' : o \in orders \/ isPlaced(o)
    <3>1. CASE placing[c].new = TRUE
      <4>1. placing[c].order.id = c
        <5>1. PICK o : o = placing[c].order
          OBVIOUS
        <5>2. o = [id |-> c, reference |-> placing[c].number,
                   requestId |-> placement(c).requestId, total |-> placedTotal(placement(c))]
          BY <2>4, <3>1, <5>1 DEF written
        <5> QED
          BY <5>1, <5>2
      <4>2. placing[c].order.total # InvalidMoney
        BY <2>1, <3>1 DEF ChargesInv
      <4>3. orders' = orders \union {placing[c].order}
        BY <1>9, <3>1 DEF commit
      <4> QED
        BY <1>2, <2>1, <4>1, <4>2, <4>3 DEF isPlaced
    <3>2. CASE placing[c].new # TRUE
      <4>1. placing[c].new = FALSE
        BY <2>4, <3>2 DEF written
      <4> QED
        BY <1>9, <4>1 DEF commit
    <3> QED
      BY <3>1, <3>2
  <2>6. PICK q : q = NotPlacing
    OBVIOUS
  <2>7. q.step # "written" /\ placing' = [placing EXCEPT ![c] = q]
    BY <2>2, <2>6 DEF NotPlacing
  <2> QED
    BY <1>1, <1>2, <2>1, <2>3, <2>5, <2>6, <2>7, PlacementCharges
<1>10. ASSUME NEW c \in Call, LockContention(c)
       PROVE  ChargesInv'
  <2>1. placing[c] # NotPlacing
    BY <1>10 DEF LockContention, NotPlacing
  <2>2. \/ begin(c, placing[c].attempt + 1) /\ UNCHANGED <<call, orders>>
        \/ rollBack(c, "INTERNAL_ERROR")
    BY <1>10 DEF LockContention
  <2> QED
    BY <1>1, <1>2, <1>4, <2>1, <2>2, RollBackCharges DEF rollBack
<1>11. CASE RestartOrders
  <2>1. /\ placing' = [c \in Call |-> NotPlacing] /\ orders' = orders
        /\ call' = [c \in Call |-> IF placing[c] # NotPlacing THEN [call[c] EXCEPT !.stage = "over"]
                                   ELSE call[c]]
    BY <1>11 DEF RestartOrders
  <2>2. ASSUME NEW d \in Call
        PROVE  sticks(d)
    <3>1. CASE placing[d] # NotPlacing
      <4>1. used(d)
        BY <1>2, <3>1
      <4>2. PICK r : r = [call[d] EXCEPT !.stage = "over"]
        OBVIOUS
      <4>3. r.from = call[d].from /\ r.command = call[d].command /\ r.stage = "over"
        BY <1>1, <4>1, <4>2, CallFields
      <4>4. call'[d] = r
        BY <2>1, <3>1, <4>2
      <4>5. r # Unused
        BY <4>3 DEF Unused
      <4> QED
        BY <4>1, <4>3, <4>4, <4>5 DEF sticks, used
    <3>2. CASE placing[d] = NotPlacing
      <4>1. call'[d] = call[d]
        BY <2>1, <3>2
      <4> QED
        BY <4>1 DEF sticks, used
    <3> QED
      BY <3>1, <3>2
  <2>3. ASSUME NEW d \in Call
        PROVE  chargesOn(d)
    <3>1. placing'[d] = NotPlacing
      BY <2>1
    <3> QED
      BY <3>1 DEF chargesOn, NotPlacing
  <2>4. \A d \in Call : ~used(d) => ~onPage(d)'
    BY <2>2 DEF sticks, onPage
  <2>5. draft'.form.lines \in Seq(ToSet(draft'.form.lines))
    BY <1>1 DEF ChargesInv
  <2> QED
    BY <2>1, <2>2, <2>3, <2>4, <2>5, ChargesStand
<1> QED
  BY <1>3, <1>5, <1>6, <1>8, <1>9, <1>10, <1>11 DEF PlacementNext, Commit, CommitUnacknowledged


LEMMA DraftLines ==
  ASSUME FrontDoorInv, draft.form.lines \in Seq(ToSet(draft.form.lines)), Next
  PROVE  draft'.form.lines \in Seq(ToSet(draft'.form.lines)) /\ about' = about
<1>1. /\ draft = [number |-> draft.number, form |-> draft.form, submitAttempted |-> draft.submitAttempted]
      /\ "lines" \in DOMAIN draft.form
  BY DEF FrontDoorInv, DraftsInv
<1>2. /\ about' = about
      /\ \/ draft' = draft
         \/ draft' = [draft EXCEPT !.submitAttempted = TRUE]
         \/ draft' = [draft EXCEPT !.form.lines = <<>>, !.submitAttempted = FALSE]
         \/ \E form \in Draft :
              draft' = [number |-> draft.number + 1, form |-> form, submitAttempted |-> FALSE]
  BY DEF Next, Submit, SubmitDraft, SubmitByKey, SubmitPayment, SubmitReplenish, ReplenishStock,
         Answer, draftAfter, EditDraft, pageVars
<1>3. CASE draft' = draft \/ draft' = [draft EXCEPT !.submitAttempted = TRUE]
  <2>1. draft'.form = draft.form
    BY <1>1, <1>3
  <2> QED
    BY <1>2, <2>1
<1>4. CASE draft' = [draft EXCEPT !.form.lines = <<>>, !.submitAttempted = FALSE]
  <2>1. draft'.form.lines = <<>>
    BY <1>1, <1>4
  <2>2. <<>> \in Seq(ToSet(<<>>))
    OBVIOUS
  <2> QED
    BY <1>2, <2>1, <2>2
<1>5. ASSUME NEW form \in Draft,
             draft' = [number |-> draft.number + 1, form |-> form, submitAttempted |-> FALSE]
      PROVE  draft'.form.lines \in Seq(ToSet(draft'.form.lines))
  <2>1. draft'.form = form
    BY <1>5
  <2> QED
    BY <1>5, <2>1, OperatorAssumption
<1> QED
  BY <1>2, <1>3, <1>4, <1>5

(* Nothing but requests changes.                                           *)
LEMMA CallsKeepCharges ==
  ASSUME FrontDoorInv, ChargesInv, placing' = placing, orders' = orders,
         draft'.form.lines \in Seq(ToSet(draft'.form.lines)),
         \A d \in Call : used(d) => sticks(d),
         \A d \in Call : ~used(d) /\ onPage(d)' => readable(placement(d)')
  PROVE  ChargesInv'
BY PlacementsAlone, ChargesStand

LEMMA RequestKeepsCharges ==
  ASSUME FrontDoorInv, ChargesInv, about = "placing", placing' = placing, orders' = orders,
         draft'.form.lines \in Seq(ToSet(draft'.form.lines)), NEW c \in Call,
         NEW from, NEW command, posted(c, from, command, "asked"),
         from.client = "placePage" => readable(command)
  PROVE  ChargesInv'
<1>1. CallsInv
  BY DEF FrontDoorInv
<1>2. PICK stage : stage = "asked"
  OBVIOUS
<1>3. PICK r : arrives(c, r, from, command, stage)
  BY <1>2, Posted
<1>4. call[c] = Unused /\ call' = [call EXCEPT ![c] = r] /\ r.from = from /\ r.command = command
  BY <1>3 DEF arrives
<1>5. \A d \in Call : call'[d] = IF d = c THEN r ELSE call[d]
  BY <1>1, <1>4, CallAfter
<1>6. ASSUME NEW d \in Call, used(d)
      PROVE  sticks(d)
  BY <1>4, <1>5, <1>6 DEF sticks, used
<1>7. ASSUME NEW d \in Call, ~used(d), onPage(d)'
      PROVE  readable(placement(d)')
  <2>1. CASE d = c
    BY <1>4, <1>5, <1>7, <2>1 DEF onPage, placement
  <2>2. CASE d # c
    BY <1>5, <1>7, <2>2 DEF onPage, used
  <2> QED
    BY <2>1, <2>2
<1> QED
  BY <1>6, <1>7, CallsKeepCharges

LEMMA StepKeepsCharges ==
  ASSUME FrontDoorInv, ChargesInv, Next
  PROVE  ChargesInv'
<1>1. draft'.form.lines \in Seq(ToSet(draft'.form.lines)) /\ about' = about /\ CallsInv
  BY DraftLines DEF ChargesInv, FrontDoorInv
<1>2. CASE about # "placing"
  BY <1>1, <1>2, StepHolds, NothingToCharge
<1>3. ASSUME about = "placing", NEW c \in Call, SubmitDraft(c), UNCHANGED ordersVars
      PROVE  ChargesInv'
  <2>1. placing' = placing /\ orders' = orders
    BY <1>3 DEF ordersVars
  <2>2. CASE UNCHANGED call
    <3>1. \A d \in Call : sticks(d)
      BY <2>2, Stuck
    <3>2. \A d \in Call : ~used(d) => ~onPage(d)'
      BY <3>1 DEF sticks, onPage
    <3> QED
      BY <1>1, <2>1, <3>1, <3>2, CallsKeepCharges
  <2>3. CASE problemsByLine(draft.form) = {} /\ ~UNCHANGED call
    <3>1. PICK from, command : from = fromDraft(draft.number) /\ command = payload(draft.form, c)
      OBVIOUS
    <3>2. posted(c, from, command, "asked")
      BY <1>3, <2>3, <3>1 DEF SubmitDraft, post, posted, freshKey
    <3>3. readable(command)
      BY <2>3, <3>1, PayloadReadable DEF ChargesInv
    <3> QED
      BY <1>1, <1>3, <2>1, <3>2, <3>3, RequestKeepsCharges
  <2> QED
    BY <1>3, <2>2, <2>3 DEF SubmitDraft
<1>4. ASSUME about = "placing", NEW c \in Call, NEW key \in ApiKey, SubmitByKey(c, key),
             UNCHANGED ordersVars
      PROVE  ChargesInv'
  <2>1. PICK from, command : from = fromApi(key) /\ command = ApiCommand[key]
    OBVIOUS
  <2>2. posted(c, from, command, "asked")
    BY <1>4, <2>1 DEF SubmitByKey, post, posted
  <2>3. from.client # "placePage"
    BY <2>1 DEF fromApi
  <2> QED
    BY <1>1, <1>4, <2>2, <2>3, RequestKeepsCharges DEF ordersVars
<1>5. ASSUME about = "placing", NEW c \in Call, ReplenishStock(c)
      PROVE  FALSE
  <2>1. call[c].command.kind = "replenish" /\ used(c)
    BY <1>5 DEF ReplenishStock, asked, stageIs, used, Unused
  <2>2. call[c].command.kind = kindOf[about]
    BY <1>1, <2>1 DEF CallsInv, validCall
  <2> QED
    BY <1>5, <2>1, <2>2 DEF kindOf
<1>6. ASSUME NEW c \in Call, UNCHANGED ordersVars, Transport(c) \/ AnswerCall(c)
      PROVE  ChargesInv'
  <2>1. \A d \in Call : sticks(d)
    BY <1>1, <1>6, TransportSticks, AnswerSticks
  <2>2. \A d \in Call : ~used(d) => ~onPage(d)'
    BY <2>1 DEF sticks, onPage
  <2> QED
    BY <1>1, <1>6, <2>1, <2>2, CallsKeepCharges DEF ordersVars
<1>7. ASSUME EditDraft, UNCHANGED ordersVars
      PROVE  ChargesInv'
  <2>1. \A d \in Call : sticks(d)
    BY <1>7, Stuck DEF EditDraft, gatewayVars
  <2>2. \A d \in Call : ~used(d) => ~onPage(d)'
    BY <2>1 DEF sticks, onPage
  <2> QED
    BY <1>1, <1>7, <2>1, <2>2, CallsKeepCharges DEF ordersVars
<1>8. CASE PlacementNext /\ UNCHANGED <<paymentVars, pageVars, about>>
  BY <1>8, PlacementKeepsCharges
<1>9. CASE about = "placing"
  <2>1. \/ \E c \in Call :
             \/ (Submit(c) \/ ReplenishStock(c)) /\ UNCHANGED ordersVars
             \/ Transport(c) /\ UNCHANGED ordersVars
             \/ Answer(c)
        \/ EditDraft /\ UNCHANGED ordersVars
        \/ PlacementNext /\ UNCHANGED <<paymentVars, pageVars, about>>
    BY <1>9 DEF Next
  <2>2. ASSUME NEW c \in Call, Submit(c), UNCHANGED ordersVars
        PROVE  ChargesInv'
    BY <1>3, <1>4, <1>9, <2>2 DEF Submit
  <2>3. ASSUME NEW c \in Call, Answer(c)
        PROVE  ChargesInv'
    BY <1>6, <2>3 DEF Answer
  <2> QED
    BY <1>5, <1>6, <1>7, <1>8, <1>9, <2>1, <2>2, <2>3
<1> QED
  BY <1>2, <1>9

LEMMA InitCharges == Init => ChargesInv
<1> SUFFICES ASSUME Init PROVE ChargesInv
  OBVIOUS
<1>1. /\ \A c \in Call : ~onPage(c) /\ placing[c] = NotPlacing
      /\ \A o \in orders : o.id = "seeded"
  BY DEF Init, GatewayInit, OrdersInit, onPage, used
<1>2. draft.form.lines = <<>>
  <2>1. PICK form : form = [retailer |-> "", company |-> "", currency |-> DefaultCurrency,
                            lines |-> <<>>]
    BY Zenon
  <2>2. draft = [number |-> 0, submitAttempted |-> FALSE, form |-> form]
    BY <2>1, Zenon DEF Init, PagesInit
  <2> QED
    BY <2>1, <2>2, Zenon
<1>3. <<>> \in Seq(ToSet(<<>>))
  OBVIOUS
<1>4. \A c \in Call : placing[c].step # "written"
  BY <1>1 DEF NotPlacing
<1>5. \A o \in orders : o.id \notin Call
  BY <1>1, PlacementAssumption
<1> QED
  BY <1>1, <1>2, <1>3, <1>4, <1>5 DEF ChargesInv

LEMMA StutterCharges ==
  ASSUME FrontDoorInv, ChargesInv, UNCHANGED vars
  PROVE  ChargesInv'
<1>1. draft' = draft /\ call' = call /\ placing' = placing /\ orders' = orders
  BY DEF vars, pageVars, gatewayVars, ordersVars
<1>2. \A d \in Call : sticks(d)
  BY <1>1, Stuck
<1>3. \A d \in Call : ~used(d) => ~onPage(d)'
  BY <1>2 DEF sticks, onPage
<1>4. draft'.form.lines \in Seq(ToSet(draft'.form.lines))
  BY <1>1 DEF ChargesInv
<1> QED
  BY <1>1, <1>2, <1>3, <1>4, CallsKeepCharges

LEMMA ChargesInvariant == Spec => []ChargesInv
<1>1. FrontDoorInv /\ ChargesInv /\ [Next]_vars => ChargesInv'
  BY StepKeepsCharges, StutterCharges
<1> QED
  BY <1>1, InitCharges, FrontDoorInvariant, PTL DEF Spec

LEMMA InvChargesAsShown ==
  ASSUME Catalogued, FrontDoorInv, ChargesInv
  PROVE  ChargedAsShown
<1> SUFFICES ASSUME NEW c \in Call, told(c), about = "placing", call[c].from.client = "placePage"
             PROVE  call[c].answer.body.total
                      = money(draftOrderTotal(call[c].command), call[c].command.currency)
  BY DEF ChargedAsShown
<1>1. PICK o, command : o = call[c].answer.body /\ command = call[c].command
  OBVIOUS
<1>2. o \in orders /\ o.id = c /\ o.total = placedTotal(command)
  BY <1>1, InvAnswersTrue DEF AnswersTrue
<1>3. isComplete(command) /\ o.total # InvalidMoney
  BY <1>1, <1>2 DEF ChargesInv, placement
<1>4. readable(command)
  BY <1>1 DEF ChargesInv, onPage, told, answered, placement
<1>5. o.total = money(draftOrderTotal(command), command.currency)
  BY <1>2, <1>3, <1>4, PlacedAsShown
<1> QED
  BY <1>1, <1>5

(* An order of the place page is charged what the page showed, whenever it *)
(* has the catalogue's prices: the page's sum of its lines is the          *)
(* difference of the two sums Orders keeps, for any draft, prices and      *)
(* discounts (computeOrderTotals; draftOrderTotal of order-draft.ts).      *)
THEOREM DraftsAreChargedAsShown ==
  ASSUME Catalogued
  PROVE  Spec => []ChargedAsShown
<1>1. FrontDoorInv /\ ChargesInv => ChargedAsShown
  BY InvChargesAsShown
<1> QED
  BY <1>1, FrontDoorInvariant, ChargesInvariant, PTL

=============================================================================
