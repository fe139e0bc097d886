------------------------------- MODULE FactLog ------------------------------
(***************************************************************************)
(* What the outbox promises a consumer (R14, R15): a fact that was         *)
(* committed reaches its stream at least once; facts of one order from one *)
(* service first appear in the order they were emitted; a fact is          *)
(* acknowledged to its writer only once it is there.                       *)
(***************************************************************************)
EXTENDS Integers, Sequences, FiniteSets

CONSTANTS Stream, Foreign

VARIABLES
  emitted,   \* per stream: the facts committed, each with its number
  stream,    \* per stream: what is on it
  settled    \* facts acknowledged to their writer

appeared(s) == {stream[s][i] : i \in 1..Len(stream[s])}

(* A fact is <<service, number>>; a service numbers its facts as it emits  *)
(* them.                                                                   *)
before(d, e) == d[2] < e[2]

LogInit ==
  /\ emitted = [s \in Stream |-> {}]
  /\ stream = [s \in Stream |-> <<>>]
  /\ settled = {}

(* A transaction commits one or more facts of one order.                   *)
Emit == \E s \in Stream :
  /\ emitted[s] \subseteq emitted'[s] /\ emitted[s] # emitted'[s]
  /\ \A d \in emitted[s], e \in emitted'[s] \ emitted[s] : before(d, e)
  /\ \A t \in Stream \ {s} : emitted'[t] = emitted[t]
  /\ UNCHANGED <<stream, settled>>

(* Facts are appended to streams, each not before those emitted before it. *)
Carry ==
  /\ stream' # stream
  /\ \A s \in Stream :
       /\ Len(stream'[s]) >= Len(stream[s])
       /\ \A i \in 1..Len(stream[s]) : stream'[s][i] = stream[s][i]
       /\ \A i \in Len(stream[s]) + 1 .. Len(stream'[s]) :
            \/ stream'[s][i] = Foreign
            \/ /\ stream'[s][i] \in emitted[s]
               /\ \A d \in emitted[s] :
                    before(d, stream'[s][i]) => \E h \in 1..(i - 1) : stream'[s][h] = d
  /\ UNCHANGED <<emitted, settled>>

Settle ==
  /\ settled' # settled
  /\ settled \subseteq settled'
  /\ \A e \in settled' \ settled : \E s \in Stream : e \in appeared(s) /\ e \in emitted[s]
  /\ UNCHANGED <<emitted, stream>>

LogNext == Emit \/ Carry \/ Settle

LogSpec == LogInit /\ [][LogNext]_<<emitted, stream, settled>>

=============================================================================
