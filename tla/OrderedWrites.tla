--------------------------- MODULE OrderedWrites ---------------------------
(***************************************************************************)
(* What the sync server promises about the writes it proxies to one file:  *)
(* a write whose upstream call succeeded is processed once, and never      *)
(* before an earlier arrival that also succeeded.  A write is named by its *)
(* place in the order of arrival.  How the promise is kept (numbers, a     *)
(* map of parked callbacks, a loop) is module WriteOrderQueue.             *)
(***************************************************************************)
EXTENDS Integers, Sequences

CONSTANT MaxSeq  \* bound on the number of writes that arrive

VARIABLES
  arrived,    \* number of writes that have arrived
  outcome,    \* what the upstream call of each write came to
  delivered   \* the writes processed so far, in the order of processing

vars == <<arrived, outcome, delivered>>

Seqs == 1 .. MaxSeq

Delivered(n) == \E i \in 1 .. Len(delivered) : delivered[i] = n

Init ==
  /\ arrived = 0
  /\ outcome = [n \in Seqs |-> "none"]
  /\ delivered = <<>>

Arrive ==
  /\ arrived < MaxSeq
  /\ arrived' = arrived + 1
  /\ UNCHANGED <<outcome, delivered>>

Settle(n, o) ==
  /\ n <= arrived
  /\ outcome[n] = "none"
  /\ outcome' = [outcome EXCEPT ![n] = o]
  /\ UNCHANGED <<arrived, delivered>>

\* Every arrival before n has an outcome, and the successful ones went first.
IsNext(n) ==
  /\ outcome[n] = "run"
  /\ ~ Delivered(n)
  /\ \A m \in 1 .. n - 1 :
       /\ outcome[m] # "none"
       /\ outcome[m] = "run" => Delivered(m)

Deliver(n) ==
  /\ IsNext(n)
  /\ delivered' = Append(delivered, n)
  /\ UNCHANGED <<arrived, outcome>>

Next ==
  \/ Arrive
  \/ \E n \in Seqs, o \in {"run", "skip"} : Settle(n, o)
  \/ \E n \in Seqs : Deliver(n)

Safety == Init /\ [][Next]_vars

Spec == Safety /\ \A n \in Seqs : WF_vars(Deliver(n))
=============================================================================
