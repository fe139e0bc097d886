-------------------------- MODULE GatewayCommands --------------------------
(***************************************************************************)
(* Commands at the gateway: an HTTP request becomes one or more NATS       *)
(* requests, each with a deadline, and their outcome one HTTP answer.  A   *)
(* request that timed out is still worked on by the service it reached,    *)
(* whose late reply nobody reads.                                          *)
(***************************************************************************)
EXTENDS Integers, Sequences, FiniteSets

CONSTANTS
  Call,        \* HTTP requests, at most one of each
  MaxFaults    \* bound on lost requests, restarts and lock contention

VARIABLES
  call,        \* per request: what was asked, where it stands, the answer
  faults       \* faults so far

gatewayVars == <<call, faults>>

(* stage: unused; resolving, before the command is sent; asked, the        *)
(* command is with its service; replied; over, no reply will come.         *)
Unused == [stage |-> "unused"]
NoReply == [code |-> "none"]
NoAnswer == [status |-> 0]

GatewayInit ==
  /\ call = [c \in Call |-> Unused]
  /\ faults = 0

fault == faults < MaxFaults /\ faults' = faults + 1

used(c) == call[c] # Unused
open(c) == used(c) /\ call[c].answer = NoAnswer
answered(c) == used(c) /\ call[c].answer # NoAnswer

stageIs(c, s) == call[c].stage = s

(* The request arrives: the gateway puts its command to the service, or    *)
(* resolves first what the command needs.                                  *)
Accept(c, from, command, stage) ==
  /\ call[c] = Unused
  /\ call' = [call EXCEPT ![c] =
       [stage |-> stage, from |-> from, command |-> command, reply |-> NoReply,
        answer |-> NoAnswer]]

(* It does not: validation at the gateway or a session that is no longer   *)
(* live.                                                                   *)
Refuse(c, from, command, status, code) ==
  /\ call[c] = Unused
  /\ call' = [call EXCEPT ![c] =
       [stage |-> "over", from |-> from, command |-> command, reply |-> NoReply,
        answer |-> [status |-> status, code |-> code]]]

withStage(c, s) == [call EXCEPT ![c].stage = s]
withReply(c, r) == [call EXCEPT ![c].stage = "replied", ![c].reply = r]
withAnswer(c, a) == [call EXCEPT ![c].answer = a]

(* A reply that says the command was done.                                 *)
Done(body) == [code |-> "DONE", body |-> body]
RpcError(code) == [code |-> code]

(* rpc-error-mapping.ts: an RpcError's HTTP status and problem code.       *)
classifyRpcError(code) ==
  CASE code = "TIMEOUT" -> [status |-> 503, code |-> "UPSTREAM_TIMEOUT"]
    [] code = "UNAVAILABLE" -> [status |-> 503, code |-> "UPSTREAM_UNAVAILABLE"]
    [] code = "SCAN_BUDGET_EXCEEDED" -> [status |-> 503, code |-> code]
    [] code = "VALIDATION_FAILED" -> [status |-> 400, code |-> code]
    [] code = "NOT_FOUND" -> [status |-> 404, code |-> code]
    [] code \in {"STOCK_UNAVAILABLE", "INVOICE_ALREADY_PAID"} -> [status |-> 409, code |-> code]
    [] code = "PAYMENT_REFERENCE_CONFLICT" -> [status |-> 409, code |-> "PAYMENT_REFERENCE_REUSED"]
    [] code = "INVOICE_PAYMENT_AMOUNT_MISMATCH" -> [status |-> 422, code |-> "PAYMENT_MISMATCH"]
    [] OTHER -> [status |-> 500, code |-> "INTERNAL_ERROR"]

(* The deadline passes, while the service may or may not have the command. *)
RpcTimeout(c) ==
  /\ open(c)
  /\ call' = [call EXCEPT ![c].stage = IF @ = "resolving" THEN "over" ELSE @,
                          ![c].answer = classifyRpcError("TIMEOUT")]
  /\ UNCHANGED faults

(* No responder is subscribed, and nobody got the command.                 *)
NoResponders(c) ==
  /\ open(c) /\ stageIs(c, "asked")
  /\ call' = [call EXCEPT ![c].stage = "over", ![c].answer = classifyRpcError("UNAVAILABLE")]
  /\ fault

(* The command or its reply is lost: the service stops, or the connection. *)
RequestLost(c) ==
  /\ stageIs(c, "asked") \/ (stageIs(c, "replied") /\ open(c))
  /\ call' = withStage(c, "over")
  /\ fault

answerTo(reply) ==
  IF reply.code = "DONE" THEN [status |-> 200, code |-> "DONE", body |-> reply.body]
  ELSE classifyRpcError(reply.code)

(* The reply arrives within the deadline.                                  *)
AnswerCall(c) ==
  /\ open(c) /\ stageIs(c, "replied")
  /\ call' = withAnswer(c, answerTo(call[c].reply))
  /\ UNCHANGED faults

=============================================================================
