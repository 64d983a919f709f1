-------------------------- MODULE WriteOrderQueue --------------------------
(***************************************************************************)
(* class WriteOrderQueue: one instance per file orders the processing of   *)
(* proxied writes.  A caller reserves a number when its request has been   *)
(* read, and hands in a callback (enqueue) or gives the number up (skip)   *)
(* when the upstream has answered; answers come back in any order.         *)
(*                                                                         *)
(* A JavaScript handler runs to completion.  The loop of drain() is        *)
(* therefore a sequence of steps during which no other call begins:        *)
(* "draining" is true from the call of drain() to its return.              *)
(***************************************************************************)
EXTENDS Integers, Sequences

CONSTANT MaxSeq  \* bound on the number of reservations

ASSUME MaxSeqAssumption == MaxSeq \in Nat

VARIABLES
  nextSeq,        \* last number given out
  lastProcessed,  \* last number the loop has passed
  pending,        \* the Map: "absent", "run" (a callback) or "skip" (null)
  draining,       \* drain() is on the stack
  result,         \* history: what the caller handed in for each number, last
                  \* before the loop passed it
  ran             \* history: numbers whose callback has run, in order

queueVars == <<nextSeq, lastProcessed, pending, draining, result, ran>>

Seqs == 1 .. MaxSeq

QueueInit ==
  /\ nextSeq = 0
  /\ lastProcessed = 0
  /\ pending = [n \in Seqs |-> "absent"]
  /\ draining = FALSE
  /\ result = [n \in Seqs |-> "none"]
  /\ ran = <<>>

Reserve ==
  /\ ~ draining
  /\ nextSeq < MaxSeq
  /\ nextSeq' = nextSeq + 1
  /\ UNCHANGED <<lastProcessed, pending, draining, result, ran>>

\* enqueue() and skip(): record the callback or null, then call drain().
Put(n, what) ==
  /\ ~ draining
  /\ result' = IF n > lastProcessed THEN [result EXCEPT ![n] = what] ELSE result
  /\ pending' = [pending EXCEPT ![n] = what]
  /\ draining' = TRUE
  /\ UNCHANGED <<nextSeq, lastProcessed, ran>>

\* The caller's half of the contract, which the class does not check: a number
\* it reserved, settled once.  RemoteBlockWrites shows when callers keep it.
Unsettled(n) ==
  /\ n <= nextSeq
  /\ result[n] = "none"

Settle(n, what) == Unsettled(n) /\ Put(n, what)

Enqueue(n) == Settle(n, "run")

\* Slip: skip() parks the null and leaves drain() to the next call.
SkipWithoutDrain(n) ==
  /\ ~ draining
  /\ Unsettled(n)
  /\ result' = [result EXCEPT ![n] = "skip"]
  /\ pending' = [pending EXCEPT ![n] = "skip"]
  /\ UNCHANGED <<nextSeq, lastProcessed, draining, ran>>

Skip(n) == Settle(n, "skip")

HasNext ==
  /\ lastProcessed < MaxSeq
  /\ pending[lastProcessed + 1] # "absent"

\* What one turn does with the entry at n.
Pop(n) ==
  /\ pending' = [pending EXCEPT ![n] = "absent"]
  /\ lastProcessed' = n
  /\ ran' = IF pending[n] = "run" THEN Append(ran, n) ELSE ran

\* Slip: the loop takes the Map's entries as they come.
DrainStepAnyOrder ==
  /\ draining
  /\ \E n \in Seqs : pending[n] # "absent" /\ Pop(n)
  /\ UNCHANGED <<nextSeq, draining, result>>

\* Slip: pending.delete() is missing.
DrainStepKeepsEntry ==
  /\ draining
  /\ HasNext
  /\ lastProcessed' = lastProcessed + 1
  /\ ran' = IF pending[lastProcessed + 1] = "run"
               THEN Append(ran, lastProcessed + 1) ELSE ran
  /\ UNCHANGED <<nextSeq, pending, draining, result>>

\* Slip: "if" where the code has "while".
DrainStepOnce ==
  /\ draining
  /\ HasNext
  /\ Pop(lastProcessed + 1)
  /\ draining' = FALSE
  /\ UNCHANGED <<nextSeq, result>>

\* One turn of the loop: take the entry out, move on, run the callback if any.
DrainStep ==
  /\ draining
  /\ HasNext
  /\ Pop(lastProcessed + 1)
  /\ UNCHANGED <<nextSeq, draining, result>>

DrainReturn ==
  /\ draining
  /\ ~ HasNext
  /\ draining' = FALSE
  /\ UNCHANGED <<nextSeq, lastProcessed, pending, result, ran>>

Drain == DrainStep \/ DrainReturn

QueueNext ==
  \/ Reserve
  \/ \E n \in Seqs : Enqueue(n)
  \/ \E n \in Seqs : Skip(n)
  \/ DrainStep
  \/ DrainReturn

QueueSafety == QueueInit /\ [][QueueNext]_queueVars

\* A call that has begun returns; the callers promise nothing here.
QueueSpec == QueueSafety /\ WF_queueVars(Drain)

-----------------------------------------------------------------------------
QueueTypeOK ==
  /\ nextSeq \in 0 .. MaxSeq
  /\ lastProcessed \in 0 .. nextSeq
  /\ pending \in [Seqs -> {"absent", "run", "skip"}]
  /\ draining \in BOOLEAN
  /\ result \in [Seqs -> {"none", "run", "skip"}]
  /\ ran \in Seq(Seqs)

HasRun(n) == \E i \in 1 .. Len(ran) : ran[i] = n

\* Callbacks run in the order in which their requests arrived, each at most
\* once, whatever the order of the upstream answers (header comment of
\* write-order-queue.ts); and behind the loop's position nothing is lost or
\* invented: the callbacks that ran are those handed in at the numbers passed.
RunsInArrivalOrder ==
  /\ \A i, j \in 1 .. Len(ran) : i < j => ran[i] < ran[j]
  /\ \A n \in Seqs : HasRun(n) <=> (n <= lastProcessed /\ result[n] = "run")

\* The Map holds what was handed in beyond the loop's position and nothing
\* else: no entry is overwritten, stranded behind it or left for ever.
PendingIsBacklog ==
  \A n \in Seqs :
    pending[n] = IF n > lastProcessed /\ result[n] # "none"
                   THEN result[n] ELSE "absent"

\* Between calls no entry that could run is parked: drain() stops only at a
\* number whose request is still unanswered, so the queue never sleeps on work.
NoReadyEntryParked == ~ draining => ~ HasNext

Promise == INSTANCE OrderedWrites
             WITH arrived <- nextSeq, outcome <- result, delivered <- ran

\* The queue implements the order it was written for, and keeps its pace: a
\* write that succeeded is processed once every earlier one has an outcome.
ImplementsOrderedWrites == Promise!Spec
=============================================================================
