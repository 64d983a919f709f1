---------------------- MODULE RemoteBlockWritesProofs ----------------------
(***************************************************************************)
(* Proofs about WriteOrderQueue and, on top of them, about its callers     *)
(* (RemoteBlockWrites), for every number of writes, every set of messages  *)
(* and every number of retries.                                            *)
(*                                                                         *)
(* QueueIInv adds to the queue's checked invariants what they rest on:     *)
(* only reserved numbers are settled, every number the loop has passed is  *)
(* settled, and no callback beyond the loop's position has run.  QueueCore *)
(* is the part of it that does not need the callers' half of the contract. *)
(* The proxy keeps that half but for writes whose answer broke off, so     *)
(* IInv builds on QueueCore; it adds what the proxy does keep (a write     *)
(* that is not answered is reserved and not settled) and what the order of *)
(* processing gives the cache.                                             *)
(***************************************************************************)
EXTENDS RemoteBlockWrites, TLAPS

-----------------------------------------------------------------------------
(* The queue                                                                *)

SettledOnly ==
  /\ \A n \in Seqs : result[n] # "none" => n <= nextSeq
  /\ \A n \in Seqs : n <= lastProcessed => result[n] # "none"

RanIsPassed == \A i \in 1 .. Len(ran) : ran[i] <= lastProcessed

\* PendingIsBacklog beyond the loop's position.
BacklogAhead ==
  \A n \in Seqs : n > lastProcessed =>
    pending[n] = IF result[n] # "none" THEN result[n] ELSE "absent"

QueueCore ==
  /\ QueueTypeOK
  /\ SettledOnly
  /\ RanIsPassed
  /\ BacklogAhead
  /\ RunsInArrivalOrder
  /\ NoReadyEntryParked

QueueIInv == QueueCore /\ PendingIsBacklog

LEMMA QueueInitIInv == QueueInit => QueueIInv
<1> SUFFICES ASSUME QueueInit PROVE QueueIInv
  OBVIOUS
<1>1. QueueTypeOK
  <2>1. ran \in Seq(Seqs)
    BY DEF QueueInit
  <2>2. /\ pending \in [Seqs -> {"absent", "run", "skip"}]
        /\ result \in [Seqs -> {"none", "run", "skip"}]
    BY DEF QueueInit
  <2>3. nextSeq \in 0 .. MaxSeq /\ lastProcessed \in 0 .. nextSeq
    BY MaxSeqAssumption DEF QueueInit
  <2>4. draining \in BOOLEAN
    BY DEF QueueInit
  <2> QED
    BY <2>1, <2>2, <2>3, <2>4 DEF QueueTypeOK
<1> USE MaxSeqAssumption DEF QueueInit, Seqs
<1>2. SettledOnly /\ RanIsPassed /\ BacklogAhead /\ PendingIsBacklog
  BY DEF SettledOnly, RanIsPassed, BacklogAhead, PendingIsBacklog
<1>3. RunsInArrivalOrder
  BY DEF RunsInArrivalOrder, HasRun
<1>4. NoReadyEntryParked
  BY DEF NoReadyEntryParked, HasNext
<1> QED
  BY <1>1, <1>2, <1>3, <1>4 DEF QueueIInv, QueueCore

-----------------------------------------------------------------------------
(* What holds whatever the callers hand in for the numbers they reserved.   *)

LEMMA ReserveCore == QueueCore /\ Reserve => QueueCore'
<1> SUFFICES ASSUME QueueCore, Reserve PROVE QueueCore'
  OBVIOUS
<1> USE MaxSeqAssumption DEF QueueCore, Reserve, Seqs
<1>1. QueueTypeOK'
  BY DEF QueueTypeOK
<1>2. SettledOnly' /\ RanIsPassed'
  BY DEF QueueTypeOK, SettledOnly, RanIsPassed
<1>3. BacklogAhead' /\ RunsInArrivalOrder' /\ NoReadyEntryParked'
  BY DEF BacklogAhead, RunsInArrivalOrder, NoReadyEntryParked, HasRun, HasNext
<1> QED
  BY <1>1, <1>2, <1>3

LEMMA PutCore ==
  ASSUME NEW n \in Seqs, NEW what \in {"run", "skip"}, QueueCore, n <= nextSeq, Put(n, what)
  PROVE  QueueCore'
<1> USE MaxSeqAssumption DEF QueueCore, Put, Seqs
<1>1. QueueTypeOK'
  BY DEF QueueTypeOK
<1>2. SettledOnly' /\ RanIsPassed'
  BY DEF QueueTypeOK, SettledOnly, RanIsPassed
<1>3. BacklogAhead'
  BY DEF QueueTypeOK, BacklogAhead
<1>4. RunsInArrivalOrder'
  <2>1. \A m \in Seqs : m <= lastProcessed => result'[m] = result[m]
    BY DEF QueueTypeOK
  <2> QED
    BY <2>1 DEF QueueTypeOK, RunsInArrivalOrder, HasRun
<1>5. NoReadyEntryParked'
  BY DEF NoReadyEntryParked
<1> QED
  BY <1>1, <1>2, <1>3, <1>4, <1>5

\* What a turn of the loop does to the history of callbacks.
LEMMA PopRan ==
  ASSUME QueueTypeOK, NEW n \in Seqs, Pop(n)
  PROVE  /\ ran' \in Seq(Seqs)
         /\ pending[n] = "run" =>
              /\ Len(ran') = Len(ran) + 1
              /\ ran'[Len(ran) + 1] = n
              /\ \A i \in 1 .. Len(ran) : ran'[i] = ran[i]
         /\ pending[n] # "run" => ran' = ran
BY DEF QueueTypeOK, Pop

LEMMA DrainStepCore == QueueCore /\ DrainStep => QueueCore'
<1> SUFFICES ASSUME QueueCore, DrainStep PROVE QueueCore'
  OBVIOUS
<1> DEFINE next == lastProcessed + 1
<1>1. /\ next \in Seqs
      /\ Pop(next)
      /\ lastProcessed \in Nat
      /\ lastProcessed' = next
      /\ pending[next] # "absent"
      /\ draining' = TRUE
      /\ UNCHANGED <<nextSeq, result>>
  BY MaxSeqAssumption DEF QueueCore, QueueTypeOK, DrainStep, HasNext, Seqs, Pop
<1>2. /\ result[next] = pending[next]
      /\ next <= nextSeq
  BY <1>1 DEF QueueCore, BacklogAhead, SettledOnly, QueueTypeOK, Seqs
<1>3. QueueTypeOK'
  <2>1. ran' \in Seq(Seqs)
    BY <1>1, PopRan DEF QueueCore
  <2>2. pending' \in [Seqs -> {"absent", "run", "skip"}]
    BY <1>1 DEF QueueCore, QueueTypeOK, Pop
  <2>3. nextSeq' \in 0 .. MaxSeq /\ lastProcessed' \in 0 .. nextSeq'
    BY <1>1, <1>2, MaxSeqAssumption DEF QueueCore, QueueTypeOK
  <2> QED
    BY <1>1, <2>1, <2>2, <2>3 DEF QueueCore, QueueTypeOK
<1>4. SettledOnly'
  BY <1>1, <1>2 DEF QueueCore, QueueTypeOK, SettledOnly, Seqs
<1>5. RanIsPassed'
  <2>1. CASE pending[next] = "run"
    <3>1. /\ Len(ran) \in Nat
          /\ Len(ran') = Len(ran) + 1
          /\ ran'[Len(ran) + 1] = next
          /\ \A i \in 1 .. Len(ran) : ran'[i] = ran[i] /\ ran[i] \in Seqs
      BY <1>1, <2>1, PopRan DEF QueueCore, QueueTypeOK
    <3> QED
      BY <1>1, <3>1 DEF QueueCore, RanIsPassed, Seqs
  <2>2. CASE pending[next] # "run"
    <3>1. ran' = ran
      BY <1>1, <2>2, PopRan DEF QueueCore
    <3>2. \A i \in 1 .. Len(ran) : ran[i] \in Nat
      BY SMTT(30) DEF QueueCore, QueueTypeOK, Seqs
    <3> QED
      BY <1>1, <3>1, <3>2 DEF QueueCore, RanIsPassed
  <2> QED
    BY <2>1, <2>2
<1>6. BacklogAhead'
  BY <1>1, MaxSeqAssumption DEF QueueCore, QueueTypeOK, BacklogAhead, Pop, Seqs
<1>7. RunsInArrivalOrder'
  <2>1. CASE pending[next] = "run"
    <3>1. /\ Len(ran) \in Nat
          /\ Len(ran') = Len(ran) + 1
          /\ ran'[Len(ran) + 1] = next
          /\ \A i \in 1 .. Len(ran) : ran'[i] = ran[i] /\ ran[i] \in Seqs
      BY <1>1, <2>1, PopRan DEF QueueCore, QueueTypeOK
    <3>2. \A i, j \in 1 .. Len(ran') : i < j => ran'[i] < ran'[j]
      BY <1>1, <3>1 DEF QueueCore, RanIsPassed, RunsInArrivalOrder, Seqs
    <3>3. \A n \in Seqs : HasRun(n)' <=> (HasRun(n) \/ n = next)
      BY <3>1, <1>1 DEF HasRun
    <3> QED
      BY <1>1, <1>2, <2>1, <3>2, <3>3 DEF QueueCore, RunsInArrivalOrder, Seqs
  <2>2. CASE pending[next] # "run"
    <3>1. ran' = ran
      BY <1>1, <2>2, PopRan DEF QueueCore
    <3> QED
      BY <1>1, <1>2, <2>2, <3>1 DEF QueueCore, RunsInArrivalOrder, HasRun, Seqs
  <2> QED
    BY <2>1, <2>2
<1>8. NoReadyEntryParked'
  BY <1>1 DEF NoReadyEntryParked
<1> QED
  BY <1>3, <1>4, <1>5, <1>6, <1>7, <1>8 DEF QueueCore

LEMMA DrainReturnCore == QueueCore /\ DrainReturn => QueueCore'
<1> SUFFICES ASSUME QueueCore, DrainReturn PROVE QueueCore'
  OBVIOUS
<1> USE DEF QueueCore, DrainReturn
<1>1. QueueTypeOK'
  BY DEF QueueTypeOK
<1>2. SettledOnly' /\ RanIsPassed' /\ BacklogAhead'
  BY DEF SettledOnly, RanIsPassed, BacklogAhead
<1>3. RunsInArrivalOrder' /\ NoReadyEntryParked'
  BY DEF RunsInArrivalOrder, HasRun, NoReadyEntryParked, HasNext
<1> QED
  BY <1>1, <1>2, <1>3

LEMMA IdleCore == QueueCore /\ UNCHANGED queueVars => QueueCore'
BY DEF QueueCore, queueVars, QueueTypeOK, SettledOnly, RanIsPassed, BacklogAhead,
       RunsInArrivalOrder, NoReadyEntryParked, HasRun, HasNext

-----------------------------------------------------------------------------
(* What holds when the callers keep their half of the contract.             *)

LEMMA SettleBacklog ==
  ASSUME NEW n \in Seqs, NEW what \in {"run", "skip"}, QueueIInv, Settle(n, what)
  PROVE  PendingIsBacklog'
<1> USE MaxSeqAssumption DEF QueueIInv, QueueCore, Settle, Put, Unsettled, Seqs
<1>1. lastProcessed < n
  BY DEF QueueTypeOK, SettledOnly
<1> QED
  BY <1>1 DEF QueueTypeOK, PendingIsBacklog

LEMMA DrainStepBacklog == QueueIInv /\ DrainStep => PendingIsBacklog'
<1> SUFFICES ASSUME QueueIInv, DrainStep PROVE PendingIsBacklog'
  OBVIOUS
<1> DEFINE next == lastProcessed + 1
<1>1. /\ next \in Seqs
      /\ Pop(next)
      /\ lastProcessed \in Nat
      /\ lastProcessed' = next
      /\ UNCHANGED result
  BY MaxSeqAssumption DEF QueueIInv, QueueCore, QueueTypeOK, DrainStep, HasNext, Seqs, Pop
<1> QED
  BY <1>1, MaxSeqAssumption DEF QueueIInv, QueueCore, QueueTypeOK, PendingIsBacklog, Pop, Seqs

LEMMA QueueNextIInv == QueueIInv /\ [QueueNext]_queueVars => QueueIInv'
<1> SUFFICES ASSUME QueueIInv, [QueueNext]_queueVars PROVE QueueCore' /\ PendingIsBacklog'
  BY DEF QueueIInv
<1>1. CASE Reserve
  BY <1>1, ReserveCore DEF QueueIInv, Reserve, PendingIsBacklog
<1>2. ASSUME NEW n \in Seqs, NEW what \in {"run", "skip"}, Settle(n, what)
      PROVE  QueueCore' /\ PendingIsBacklog'
  BY <1>2, SettleBacklog, PutCore DEF QueueIInv, Settle, Unsettled
<1>4. CASE DrainStep
  BY <1>4, DrainStepCore, DrainStepBacklog DEF QueueIInv
<1>5. CASE DrainReturn
  BY <1>5, DrainReturnCore DEF QueueIInv, DrainReturn, PendingIsBacklog
<1>6. CASE UNCHANGED queueVars
  BY <1>6, IdleCore DEF QueueIInv, queueVars, PendingIsBacklog
<1> QED
  BY <1>1, <1>2, <1>4, <1>5, <1>6 DEF QueueNext, Enqueue, Skip

\* Every reachable state of the queue satisfies the inductive invariant.
THEOREM QueueInvariance == QueueSpec => []QueueIInv
BY QueueInitIInv, QueueNextIInv, PTL DEF QueueSpec, QueueSafety

\* The loop's position never passes a number that was not given out, and every
\* variable has its type.
THEOREM QueueTypes == QueueSpec => []QueueTypeOK
<1>1. QueueIInv => QueueTypeOK
  BY DEF QueueIInv, QueueCore
<1> QED
  BY <1>1, QueueInvariance, PTL

\* Callbacks run in arrival order, once each, and none is lost behind the
\* loop's position.
THEOREM QueueOrder == QueueSpec => []RunsInArrivalOrder
<1>1. QueueIInv => RunsInArrivalOrder
  BY DEF QueueIInv, QueueCore
<1> QED
  BY <1>1, QueueInvariance, PTL

\* The Map holds exactly the backlog.
THEOREM QueueBacklog == QueueSpec => []PendingIsBacklog
<1>1. QueueIInv => PendingIsBacklog
  BY DEF QueueIInv, QueueCore
<1> QED
  BY <1>1, QueueInvariance, PTL

\* When no call is on the stack, nothing that could run is parked.
THEOREM QueueNotStuck == QueueSpec => []NoReadyEntryParked
<1>1. QueueIInv => NoReadyEntryParked
  BY DEF QueueIInv, QueueCore
<1> QED
  BY <1>1, QueueInvariance, PTL

-----------------------------------------------------------------------------
(* Refinement: every step of the queue is a step of OrderedWrites or leaves *)
(* its variables alone.                                                     *)

LEMMA QueueRefinesInit == QueueInit => Promise!Init
BY DEF QueueInit, Promise!Init, Seqs, Promise!Seqs

LEMMA DrainStepDelivers ==
  ASSUME QueueIInv, DrainStep, pending[lastProcessed + 1] = "run"
  PROVE  Promise!Deliver(lastProcessed + 1)
<1> DEFINE next == lastProcessed + 1
<1>1. /\ next \in Seqs
      /\ lastProcessed \in Nat
      /\ ran' = Append(ran, next)
      /\ UNCHANGED <<nextSeq, result>>
  BY MaxSeqAssumption DEF QueueIInv, QueueCore, QueueTypeOK, DrainStep, HasNext, Seqs, Pop
<1>2. result[next] = "run" /\ ~ HasRun(next)
  BY <1>1 DEF QueueIInv, QueueCore, PendingIsBacklog, RunsInArrivalOrder, Seqs
<1>3. \A m \in 1 .. next - 1 : result[m] # "none" /\ (result[m] = "run" => HasRun(m))
  <2> SUFFICES ASSUME NEW m \in 1 .. next - 1
               PROVE  result[m] # "none" /\ (result[m] = "run" => HasRun(m))
    OBVIOUS
  <2>1. m \in Seqs /\ m <= lastProcessed
    BY <1>1, MaxSeqAssumption DEF Seqs
  <2> QED
    BY <2>1 DEF QueueIInv, QueueCore, SettledOnly, RunsInArrivalOrder
<1>4. Promise!IsNext(next)
  BY <1>2, <1>3 DEF Promise!IsNext, Promise!Delivered, HasRun
<1> QED
  BY <1>1, <1>4 DEF Promise!Deliver

LEMMA QueueRefinesNext == QueueIInv /\ [QueueNext]_queueVars => [Promise!Next]_(Promise!vars)
<1> SUFFICES ASSUME QueueIInv, [QueueNext]_queueVars PROVE [Promise!Next]_(Promise!vars)
  OBVIOUS
<1>1. CASE Reserve
  BY <1>1 DEF Reserve, Promise!Next, Promise!Arrive
<1>2. ASSUME NEW n \in Seqs, NEW what \in {"run", "skip"}, Settle(n, what)
      PROVE  Promise!Next
  <2>1. n > lastProcessed
    BY <1>2 DEF QueueIInv, QueueCore, QueueTypeOK, SettledOnly, Settle, Unsettled, Seqs
  <2> QED
    BY <1>2, <2>1 DEF Settle, Put, Unsettled, Promise!Next, Promise!Settle, Seqs, Promise!Seqs
<1>3. CASE DrainStep
  <2>1. CASE pending[lastProcessed + 1] = "run"
    <3>1. lastProcessed + 1 \in Promise!Seqs
      BY <1>3, MaxSeqAssumption DEF QueueIInv, QueueCore, QueueTypeOK, DrainStep, HasNext, Promise!Seqs
    <3> QED
      BY <1>3, <2>1, <3>1, DrainStepDelivers DEF Promise!Next
  <2>2. CASE pending[lastProcessed + 1] # "run"
    BY <1>3, <2>2 DEF DrainStep, Pop, Promise!vars
  <2> QED
    BY <2>1, <2>2
<1>4. CASE DrainReturn
  BY <1>4 DEF DrainReturn, Promise!vars
<1>5. CASE UNCHANGED queueVars
  BY <1>5 DEF queueVars, Promise!vars
<1> QED
  BY <1>1, <1>2, <1>3, <1>4, <1>5 DEF QueueNext, Enqueue, Skip

\* The queue implements the safety part of OrderedWrites; its liveness part is
\* checked by TLC.
THEOREM QueueImplementsOrder == QueueSpec => Promise!Safety
BY QueueRefinesInit, QueueRefinesNext, QueueInvariance, PTL DEF QueueSpec, QueueSafety, Promise!Safety

-----------------------------------------------------------------------------
(* Its callers                                                              *)

\* A request that has arrived has a number that was given out.
ArrivedIsReserved ==
  \A n \in Seqs : req[n].phase = "none" => ~ req[n].immediate
NumberIsReserved ==
  \A n \in Seqs : req[n].phase # "none" => n <= nextSeq

\* A number is not settled while its write has not been answered, nor while its
\* callback waits, unless the answer broke off meanwhile.
OpenIsUnsettled ==
  \A n \in Seqs :
    \/ req[n].status = "none" /\ req[n].phase \in {"sending", "backoff"}
    \/ req[n].immediate /\ ~ req[n].broken
    => result[n] = "none"

\* What was relayed: something with an answer, a success with a callback.
RelayedFirst ==
  \A n \in Seqs :
    /\ req[n].phase = "answered" => req[n].status # "none"
    /\ req[n].immediate \/ result[n] = "run" => req[n].status = "ok"

\* Both can be merged.
Mergeable(copy, body) == copy \notin {NoBlock, Bare} /\ body \notin {Garbage, Bare}

\* A merged body nobody overtook holds what the cache holds: the write before
\* it was processed when it was merged, and nothing has been since.
AloneHoldsCache ==
  \A n \in Seqs : req[n].alone /\ n > lastProcessed =>
    /\ n <= nextSeq
    /\ lastProcessed = n - 1
    /\ Mergeable(cache, req[n].body) => cache \subseteq req[n].body

\* A write that waits for another attempt has one left.
BackoffHasRetry ==
  \A n \in Seqs : req[n].phase = "backoff" => req[n].attempt < RetryMax

Requests == [phase : {"none", "sending", "answered", "backoff", "done"},
             status : {"none", "ok", "rejected"},
             immediate : BOOLEAN, broken : BOOLEAN,
             attempt : 0 .. RetryMax, sender : Senders, body : Bodies,
             alone : BOOLEAN]

\* The part of the invariant that is not the queue's.
ProxyInv ==
  /\ req \in [Seqs -> Requests]
  /\ cache \in {NoBlock} \cup Blocks
  /\ cacheInitialized \in BOOLEAN
  /\ running \in BOOLEAN
  /\ ArrivedIsReserved
  /\ NumberIsReserved
  /\ OpenIsUnsettled
  /\ RelayedFirst
  /\ BackoffHasRetry
  /\ AloneHoldsCache
  /\ version \in 0 .. lastProcessed
  /\ CacheIsLatestArrival

IInv == QueueCore /\ ProxyInv

-----------------------------------------------------------------------------
(* The queue, as the proxy uses it.                                         *)

\* What the queue's invariant says of the numbers, for use below.
LEMMA QueueKnows ==
  ASSUME QueueCore
  PROVE  /\ QueueTypeOK
         /\ \A n \in Seqs : result[n] # "none" => n <= nextSeq
         /\ \A n \in Seqs : n <= lastProcessed => result[n] # "none"
         /\ \A n \in Seqs : n > lastProcessed =>
              pending[n] = IF result[n] # "none" THEN result[n] ELSE "absent"
BY DEF QueueCore, SettledOnly, BacklogAhead

\* A call of the queue keeps the contract, or is for an answer that broke off.
LEMMA MayPut ==
  ASSUME NEW n \in Seqs, NEW what \in {"run", "skip"}, Put(n, what), n <= nextSeq,
         result[n] = "none" \/ req'[n].broken
  PROVE  QueueNext \/ SettledAgain
<1>1. CASE result[n] = "none"
  BY <1>1 DEF QueueNext, Enqueue, Skip, Settle, Unsettled
<1>2. CASE req'[n].broken
  BY <1>2 DEF SettledAgain
<1> QED
  BY <1>1, <1>2

\* What a failure leaves of the request.
LEMMA FailedFields ==
  ASSUME NEW r \in Requests
  PROVE  /\ Failed(r) \in Requests
         /\ Failed(r).broken <=> r.status # "none"
         /\ Failed(r).phase = r.phase
         /\ Failed(r).status = r.status
         /\ Failed(r).immediate = r.immediate
         /\ Failed(r).attempt = r.attempt
         /\ Failed(r).body = r.body
         /\ Failed(r).alone = r.alone
BY DEF Failed, Requests

LEMMA KeptFields ==
  ASSUME NEW r \in Requests
  PROVE  /\ Kept(r) \in Requests
         /\ Kept(r).phase = r.phase
         /\ Kept(r).status = r.status
         /\ Kept(r).immediate = r.immediate
         /\ Kept(r).broken = r.broken
         /\ Kept(r).attempt = r.attempt
         /\ Kept(r).alone => r.alone /\ Kept(r).body = r.body
         /\ r.status = "ok" => Kept(r).body = r.body
BY DEF Kept, Requests, Senders, Bodies

\* What each step of a call makes of its request.
LEMMA RelayFields ==
  ASSUME ProxyInv, NEW n \in Seqs, NEW status \in {"ok", "rejected"}, Relay(n, status)
  PROVE  \E r \in Requests :
           /\ req' = [req EXCEPT ![n] = r]
           /\ r.phase = "answered" /\ r.status = status
           /\ r.immediate <=> status = "ok"
           /\ r.alone => req[n].alone /\ r.body = req[n].body
<1> DEFINE old == req[n]
           q == [old EXCEPT !.phase = "answered", !.status = status,
                            !.immediate = status = "ok"]
<1>1. q \in Requests /\ q.phase = "answered" /\ q.status = status /\ q.body = req[n].body
  BY DEF ProxyInv, Requests
<1>2. q.immediate <=> status = "ok"
  BY DEF ProxyInv, Requests
<1>3. q.alone = req[n].alone
  BY DEF ProxyInv, Requests
<1>4. req' = [req EXCEPT ![n] = Kept(q)]
  BY DEF Relay
<1> HIDE DEF q, old
<1>5. /\ Kept(q) \in Requests /\ Kept(q).phase = q.phase /\ Kept(q).status = q.status
      /\ Kept(q).immediate = q.immediate
      /\ Kept(q).alone => q.alone /\ Kept(q).body = q.body
  BY <1>1, KeptFields
<1>6. Kept(q).immediate <=> status = "ok"
  BY <1>2, <1>5, Zenon
<1>7. Kept(q).alone => req[n].alone /\ Kept(q).body = req[n].body
  BY <1>1, <1>3, <1>5, Zenon
<1> QED
  BY <1>1, <1>4, <1>5, <1>6, <1>7, Zenon

LEMMA BackoffFields ==
  ASSUME ProxyInv, NEW n \in Seqs, Backoff(n)
  PROVE  \E r \in Requests :
           /\ req' = [req EXCEPT ![n] = r]
           /\ r.phase = "backoff" /\ r.status = req[n].status
           /\ r.attempt = req[n].attempt
           /\ r.immediate = req[n].immediate
           /\ r.broken <=> r.status # "none"
           /\ r.alone = req[n].alone /\ r.body = req[n].body
<1> DEFINE old == req[n]
           f == Failed(old)
           q == [f EXCEPT !.phase = "backoff"]
<1>1. /\ f \in Requests /\ (f.broken <=> f.status # "none") /\ f.status = old.status
      /\ f.immediate = old.immediate /\ f.attempt = old.attempt
      /\ f.body = old.body /\ f.alone = old.alone
  BY FailedFields DEF ProxyInv
<1>2. req' = [req EXCEPT ![n] = q]
  BY DEF Backoff
<1> HIDE DEF f, old
<1>3. q \in Requests /\ q.phase = "backoff" /\ q.status = f.status /\ q.attempt = f.attempt
      /\ q.body = f.body
  BY <1>1 DEF Requests
<1>4. q.immediate = f.immediate /\ q.broken = f.broken /\ q.alone = f.alone
  BY <1>1 DEF Requests
<1> HIDE DEF q
<1> QED
  BY <1>1, <1>2, <1>3, <1>4 DEF old

LEMMA EndsFields ==
  ASSUME ProxyInv, NEW n \in Seqs, Ends(n)
  PROVE  \E r \in Requests :
           /\ req' = [req EXCEPT ![n] = r]
           /\ r.phase = "done" /\ r.status = req[n].status
           /\ r.immediate = req[n].immediate
           /\ r.broken <=> r.status # "none"
           /\ r.alone => req[n].alone /\ r.body = req[n].body
           /\ r.status = "ok" => r.body = req[n].body
<1> DEFINE old == req[n]
           f == Failed(old)
           q == [f EXCEPT !.phase = "done", !.attempt = 0]
<1>1. /\ f \in Requests /\ (f.broken <=> f.status # "none") /\ f.status = old.status
      /\ f.immediate = old.immediate /\ f.body = old.body /\ f.alone = old.alone
  BY FailedFields DEF ProxyInv
<1>2. req' = [req EXCEPT ![n] = Kept(q)]
  BY DEF Ends
<1> HIDE DEF f, old
<1>0. 0 \in 0 .. RetryMax
  BY RetryAssumption
<1>3. q \in Requests /\ q.phase = "done" /\ q.status = f.status /\ q.body = f.body
  BY <1>0, <1>1 DEF Requests
<1>4. q.immediate = f.immediate /\ q.broken = f.broken /\ q.alone = f.alone
  BY <1>1 DEF Requests
<1> HIDE DEF q
<1>5. /\ Kept(q) \in Requests /\ Kept(q).phase = q.phase /\ Kept(q).status = q.status
      /\ Kept(q).immediate = q.immediate /\ Kept(q).broken = q.broken
      /\ Kept(q).alone => q.alone /\ Kept(q).body = q.body
      /\ q.status = "ok" => Kept(q).body = q.body
  BY <1>3, KeptFields
<1>6. Kept(q).phase = "done" /\ Kept(q).status = old.status
      /\ Kept(q).immediate = old.immediate
  BY <1>1, <1>3, <1>4, <1>5, Zenon
<1>7. Kept(q).broken <=> Kept(q).status # "none"
  BY <1>1, <1>3, <1>4, <1>5, Zenon
<1>8. /\ Kept(q).alone => old.alone /\ Kept(q).body = old.body
      /\ Kept(q).status = "ok" => Kept(q).body = old.body
  BY <1>1, <1>3, <1>4, <1>5, Zenon
<1> QED
  BY <1>2, <1>5, <1>6, <1>7, <1>8, Zenon DEF old

\* Every step of the proxy is a step of the queue with callers that keep its
\* contract, settles a number whose answer broke off, or leaves the queue alone.
LEMMA QueueStep ==
  ASSUME ProxyInv, [Next]_vars
  PROVE  QueueNext \/ SettledAgain \/ UNCHANGED queueVars
<1> USE DEF queueVars
<1>1. ASSUME NEW s \in Senders, NEW b \in Bodies, Arrive(s, b) PROVE QueueNext
  BY <1>1 DEF Arrive, QueueNext
<1>2. ASSUME NEW n \in Seqs, OnSuccess(n) \/ OnError(n) \/ Resend(n) \/ AnsweredAgain(n) \/ BodyEnds(n)
      PROVE  UNCHANGED queueVars
  BY <1>2 DEF OnSuccess, OnError, Resend, AnsweredAgain, BodyEnds
<1>3. ASSUME NEW n \in Seqs, OnRejected(n) PROVE QueueNext \/ SettledAgain
  <2>1. Put(n, "skip") /\ req[n].phase = "sending" /\ req[n].status = "none"
    BY <1>3 DEF OnRejected, Relay
  <2>2. result[n] = "none" /\ n <= nextSeq
    BY <2>1 DEF ProxyInv, OpenIsUnsettled, NumberIsReserved
  <2> QED
    BY <2>1, <2>2, MayPut
<1>4. ASSUME NEW n \in Seqs, OnAllFailed(n) PROVE QueueNext \/ SettledAgain
  <2>1. Put(n, "skip") /\ req[n].phase \in {"sending", "answered"} /\ Ends(n)
    BY <1>4 DEF OnAllFailed, Ends, Fails
  <2>2. n <= nextSeq
    BY <2>1 DEF ProxyInv, NumberIsReserved
  <2>3. CASE req[n].status = "none"
    BY <2>1, <2>2, <2>3, MayPut DEF ProxyInv, OpenIsUnsettled, RelayedFirst
  <2>4. CASE req[n].status # "none"
    <3>1. req'[n].broken
      BY <2>1, <2>4, EndsFields DEF ProxyInv
    <3> QED
      BY <2>1, <2>2, <3>1, MayPut
  <2> QED
    BY <2>3, <2>4
<1>5. ASSUME NEW n \in Seqs, EnqueueWrite(n) PROVE QueueNext \/ SettledAgain
  <2>1. Put(n, "run") /\ req[n].immediate
    BY <1>5 DEF EnqueueWrite
  <2>2. n <= nextSeq
    BY <2>1 DEF ProxyInv, ArrivedIsReserved, NumberIsReserved
  <2>3. req'[n].broken = req[n].broken
    BY <1>5 DEF EnqueueWrite, ProxyInv, Requests
  <2>4. result[n] = "none" \/ req'[n].broken
    BY <2>1, <2>3, Zenon DEF ProxyInv, OpenIsUnsettled
  <2> QED
    BY <2>1, <2>2, <2>4, MayPut
<1>6. CASE ProcessNext \/ ReturnFromDrain
  BY <1>6 DEF ProcessNext, ReturnFromDrain, QueueNext
<1>7. CASE InitializeCache
  BY <1>7 DEF InitializeCache
<1>8. CASE UNCHANGED vars
  BY <1>8 DEF vars
<1> QED
  BY <1>1, <1>2, <1>3, <1>4, <1>5, <1>6, <1>7, <1>8 DEF Next, Progress

-----------------------------------------------------------------------------
(* The inductive invariant                                                  *)

LEMMA QueueCoreStep ==
  ASSUME QueueCore, ProxyInv, [Next]_vars
  PROVE  QueueCore'
<1>1. CASE Reserve
  BY <1>1, ReserveCore
<1>2. CASE DrainStep
  BY <1>2, DrainStepCore
<1>3. CASE DrainReturn
  BY <1>3, DrainReturnCore
<1>4. CASE UNCHANGED queueVars
  BY <1>4, IdleCore
<1>5. ASSUME NEW n \in Seqs, NEW what \in {"run", "skip"}, Settle(n, what) PROVE QueueCore'
  BY <1>5, PutCore DEF Settle, Unsettled
<1>6. ASSUME NEW n \in Seqs, NEW what \in {"run", "skip"}, Put(n, what), n <= nextSeq
      PROVE  QueueCore'
  BY <1>6, PutCore
<1>7. ASSUME NEW n \in Seqs, OnRejected(n) \/ OnAllFailed(n) \/ EnqueueWrite(n)
      PROVE  QueueCore'
  <2>1. \E what \in {"run", "skip"} : Put(n, what)
    BY <1>7 DEF OnRejected, OnAllFailed, EnqueueWrite
  <2>2. n <= nextSeq
    BY <1>7 DEF OnRejected, OnAllFailed, EnqueueWrite, Relay, Ends, Fails, ProxyInv,
                ArrivedIsReserved, NumberIsReserved
  <2> QED
    BY <2>1, <2>2, <1>6
<1>8. ASSUME NEW n \in Seqs, OnSuccess(n) \/ OnError(n) \/ Resend(n) \/ AnsweredAgain(n) \/ BodyEnds(n)
      PROVE  UNCHANGED queueVars
  BY <1>8 DEF OnSuccess, OnError, Resend, AnsweredAgain, BodyEnds, queueVars
<1>9. ASSUME NEW s \in Senders, NEW b \in Bodies, Arrive(s, b) PROVE Reserve
  BY <1>9 DEF Arrive
<1> QED
  BY <1>1, <1>2, <1>3, <1>4, <1>7, <1>8, <1>9
     DEF Next, Progress, ProcessNext, ReturnFromDrain, InitializeCache, vars, queueVars

LEMMA IInvTypes == IInv => TypeOK
<1> SUFFICES ASSUME IInv PROVE TypeOK
  OBVIOUS
<1>1. QueueTypeOK /\ lastProcessed \in 0 .. MaxSeq
  BY QueueKnows, MaxSeqAssumption DEF QueueTypeOK, IInv
<1> QED
  BY <1>1, MaxSeqAssumption DEF IInv, ProxyInv, TypeOK, Requests

LEMMA NoRequestType == NoRequest \in Requests
BY RetryAssumption DEF NoRequest, Requests, Senders, Bodies

LEMMA InitIInv == Init => IInv
<1> SUFFICES ASSUME Init PROVE QueueCore /\ ProxyInv
  BY DEF IInv
<1>1. QueueCore
  BY QueueInitIInv DEF Init, QueueIInv
<1>2. lastProcessed = 0 /\ nextSeq = 0 /\ \A n \in Seqs : result[n] = "none"
  BY DEF Init, QueueInit
<1>3. NoRequest \in Requests
  BY NoRequestType
<1>4. \A n \in Seqs : req[n] = NoRequest
  BY DEF Init
<1>5. /\ NoRequest.phase = "none" /\ NoRequest.status = "none"
      /\ ~ NoRequest.immediate /\ ~ NoRequest.alone
  BY Zenon DEF NoRequest
<1> QED
  BY <1>1, <1>2, <1>3, <1>4, <1>5, MaxSeqAssumption
     DEF Init, ProxyInv, ArrivedIsReserved, NumberIsReserved, OpenIsUnsettled, RelayedFirst,
         BackoffHasRetry, AloneHoldsCache, CacheIsLatestArrival, Stored, Seqs

\* A merged body is a body, and holds the cache if both can be merged.
LEMMA MergeType ==
  ASSUME NEW b \in Bodies, cache \in {NoBlock} \cup Blocks
  PROVE  /\ Merge(b) \in Bodies
         /\ Mergeable(cache, Merge(b)) => cache \subseteq Merge(b)
<1>1. CASE cache \in {NoBlock, Bare} \/ b \in {Garbage, Bare}
  BY <1>1 DEF Merge, Mergeable
<1>2. CASE ~ (cache \in {NoBlock, Bare} \/ b \in {Garbage, Bare})
  <2>1. cache \in SUBSET Messages /\ b \in SUBSET Messages
    BY <1>2 DEF Bodies, Blocks
  <2>2. Merge(b) = cache \cup b
    BY <1>2 DEF Merge
  <2> QED
    BY <2>1, <2>2 DEF Bodies, Blocks
<1> QED
  BY <1>1, <1>2

LEMMA ArriveInv ==
  ASSUME QueueCore, ProxyInv, NEW s \in Senders, NEW b \in Bodies, Arrive(s, b)
  PROVE  ProxyInv'
<1> DEFINE new == nextSeq + 1
           body == IF s = "stale" THEN Merge(b) ELSE b
           r == [NoRequest EXCEPT !.phase = "sending", !.sender = s, !.body = body,
                                  !.alone = s = "stale" /\ lastProcessed = nextSeq]
<1>1. /\ nextSeq \in Nat /\ lastProcessed \in 0 .. nextSeq /\ new \in Seqs
      /\ nextSeq' = new
      /\ req' = [req EXCEPT ![new] = r]
      /\ UNCHANGED <<lastProcessed, result, cache, cacheInitialized, version, running>>
  BY QueueKnows, MaxSeqAssumption DEF Arrive, Reserve, QueueTypeOK, Seqs, proxyVars
<1>2. result[new] = "none" /\ result \in [Seqs -> {"none", "run", "skip"}]
  BY <1>1, QueueKnows DEF QueueTypeOK, Seqs
<1>3. body \in Bodies /\ (s = "stale" /\ Mergeable(cache, body) => cache \subseteq body)
  BY MergeType DEF ProxyInv
<1> HIDE DEF body, new
<1>4. /\ r \in Requests /\ r.phase = "sending" /\ r.status = "none" /\ r.body = body
  <2>1. NoRequest \in Requests /\ NoRequest.status = "none"
    BY NoRequestType, Zenon DEF NoRequest
  <2> QED
    BY <1>3, <2>1 DEF Requests
<1>5. ~ r.immediate
  BY Zenon DEF NoRequest
<1>6. r.alone = (s = "stale" /\ lastProcessed = nextSeq)
  BY NoRequestType DEF Requests
<1> HIDE DEF r
<1>7. req' \in [Seqs -> Requests]
  BY <1>1, <1>4 DEF ProxyInv
<1>8. \A n \in Seqs : n # new => req'[n] = req[n]
  BY <1>1 DEF ProxyInv
<1>9. req'[new] = r
  BY <1>1 DEF ProxyInv
<1>10. /\ ArrivedIsReserved' /\ NumberIsReserved' /\ OpenIsUnsettled' /\ RelayedFirst'
       /\ BackoffHasRetry'
  BY <1>1, <1>2, <1>4, <1>5, <1>8, <1>9
     DEF ProxyInv, ArrivedIsReserved, NumberIsReserved, OpenIsUnsettled, RelayedFirst,
         BackoffHasRetry, new, Seqs
<1>11. AloneHoldsCache'
  <2> SUFFICES ASSUME NEW n \in Seqs, req'[n].alone, n > lastProcessed
               PROVE  /\ n <= new /\ lastProcessed = n - 1
                      /\ Mergeable(cache, req'[n].body) => cache \subseteq req'[n].body
    BY <1>1 DEF AloneHoldsCache, Mergeable
  <2>1. CASE n = new
    <3>1. s = "stale" /\ lastProcessed = nextSeq
      BY <2>1, <1>6, <1>9, Zenon
    <3>2. req'[n].body = body
      BY <2>1, <1>4, <1>9
    <3> QED
      BY <2>1, <3>1, <3>2, <1>1, <1>3 DEF new
  <2>2. CASE n # new
    BY <2>2, <1>1, <1>8 DEF ProxyInv, AloneHoldsCache, new, Seqs
  <2> QED
    BY <2>1, <2>2
<1>12. CacheIsLatestArrival'
  <2>1. \A n \in Seqs : n <= lastProcessed => n # new
    BY <1>1 DEF new, Seqs
  <2> QED
    BY <1>1, <1>8, <2>1 DEF ProxyInv, CacheIsLatestArrival, Stored
<1> QED
  BY <1>1, <1>7, <1>10, <1>11, <1>12 DEF ProxyInv

\* A step of one write that leaves the cache alone, and hands at most its own
\* number to the queue.
LEMMA WriteStepInv ==
  ASSUME QueueCore, ProxyInv, NEW n \in Seqs, NEW r \in Requests,
         req[n].phase # "none", req' = [req EXCEPT ![n] = r],
         r.phase # "none",
         r.phase = "backoff" => r.attempt < RetryMax,
         r.phase = "answered" => r.status # "none",
         r.alone => req[n].alone /\ r.body = req[n].body,
         result[n] = "run" => r.body = req[n].body,
         r.status = "none" /\ r.phase \in {"sending", "backoff"} => result'[n] = "none",
         r.immediate /\ ~ r.broken => result'[n] = "none",
         r.immediate => r.status = "ok",
         result'[n] = "run" => r.status = "ok",
         \A m \in Seqs : m # n \/ m <= lastProcessed => result'[m] = result[m],
         UNCHANGED <<nextSeq, lastProcessed, proxyVars>>
  PROVE  ProxyInv'
<1>1. lastProcessed \in Nat
  BY QueueKnows, MaxSeqAssumption DEF QueueTypeOK
<1>2. req' \in [Seqs -> Requests]
  BY DEF ProxyInv
<1>3. /\ req'[n] = r
      /\ \A m \in Seqs : m # n => req'[m] = req[m]
  BY DEF ProxyInv
<1>4. ArrivedIsReserved' /\ NumberIsReserved' /\ BackoffHasRetry'
  BY <1>3 DEF ProxyInv, ArrivedIsReserved, NumberIsReserved, BackoffHasRetry
<1>5. OpenIsUnsettled' /\ RelayedFirst'
  BY <1>3 DEF ProxyInv, OpenIsUnsettled, RelayedFirst
<1>6. AloneHoldsCache'
  BY <1>3 DEF ProxyInv, AloneHoldsCache, proxyVars, Mergeable
<1>7. CacheIsLatestArrival'
  <2>1. \A m \in Seqs : m <= lastProcessed =>
          /\ result'[m] = result[m]
          /\ result[m] = "run" => req'[m].body = req[m].body
    BY <1>3
  <2>2. Stored' = Stored
    BY <1>1, <2>1 DEF Stored, Seqs
  <2>3. \A m \in Stored : req'[m].body = req[m].body
    BY <1>1, <2>1 DEF Stored, Seqs
  <2> QED
    BY <2>2, <2>3 DEF ProxyInv, CacheIsLatestArrival, proxyVars
<1> QED
  BY <1>2, <1>4, <1>5, <1>6, <1>7 DEF ProxyInv, proxyVars

LEMMA PutResult ==
  ASSUME QueueCore, NEW n \in Seqs, NEW what \in {"run", "skip"}, Put(n, what)
  PROVE  /\ \A m \in Seqs : m # n \/ m <= lastProcessed => result'[m] = result[m]
         /\ result'[n] \in {result[n], what}
         /\ UNCHANGED <<nextSeq, lastProcessed>>
BY QueueKnows DEF Put, QueueTypeOK, Seqs

LEMMA CallInv ==
  ASSUME QueueCore, ProxyInv, NEW n \in Seqs, Progress(n)
  PROVE  ProxyInv'
<1>1. req[n] \in Requests
  BY DEF ProxyInv
<1>0. 0 \in 0 .. RetryMax
  BY RetryAssumption
<1>2. /\ req[n].phase = "none" => ~ req[n].immediate
      /\ req[n].status = "none" /\ req[n].phase \in {"sending", "backoff"} => result[n] = "none"
      /\ req[n].immediate /\ ~ req[n].broken => result[n] = "none"
      /\ req[n].phase = "answered" => req[n].status # "none"
      /\ req[n].immediate => req[n].status = "ok"
      /\ result[n] = "run" => req[n].status = "ok"
      /\ req[n].phase = "backoff" => req[n].attempt < RetryMax
  BY DEF ProxyInv, ArrivedIsReserved, OpenIsUnsettled, RelayedFirst, BackoffHasRetry
<1>3. CASE OnSuccess(n)
  <2>1. /\ req[n].phase = "sending" /\ req[n].status = "none"
        /\ UNCHANGED <<queueVars, proxyVars>> /\ Relay(n, "ok")
    BY <1>3 DEF OnSuccess, Relay
  <2>2. result[n] = "none"
    BY <1>2, <2>1
  <2>3. PICK r \in Requests :
           /\ req' = [req EXCEPT ![n] = r]
           /\ r.phase = "answered" /\ r.status = "ok"
           /\ r.alone => req[n].alone /\ r.body = req[n].body
    BY <2>1, RelayFields
  <2> QED
    BY <2>1, <2>2, <2>3, WriteStepInv DEF queueVars
<1>4. CASE OnRejected(n)
  <2>1. /\ req[n].phase = "sending" /\ req[n].status = "none"
        /\ UNCHANGED proxyVars /\ Relay(n, "rejected") /\ Put(n, "skip")
    BY <1>4 DEF OnRejected, Relay
  <2>2. result[n] = "none"
    BY <1>2, <2>1
  <2>3. PICK r \in Requests :
           /\ req' = [req EXCEPT ![n] = r]
           /\ r.phase = "answered" /\ r.status = "rejected"
           /\ ~ r.immediate
           /\ r.alone => req[n].alone /\ r.body = req[n].body
    BY <2>1, RelayFields
  <2>4. /\ \A m \in Seqs : m # n \/ m <= lastProcessed => result'[m] = result[m]
        /\ result'[n] \in {"none", "skip"}
        /\ UNCHANGED <<nextSeq, lastProcessed>>
    BY <2>1, <2>2, PutResult
  <2> QED
    BY <2>1, <2>2, <2>3, <2>4, WriteStepInv
<1>5. CASE AnsweredAgain(n)
  <2>1. UNCHANGED <<nextSeq, lastProcessed, result, req, cache, cacheInitialized, version>>
        /\ running' \in BOOLEAN
    BY <1>5 DEF AnsweredAgain, queueVars
  <2> QED
    BY <2>1 DEF ProxyInv, ArrivedIsReserved, NumberIsReserved, OpenIsUnsettled, RelayedFirst,
                BackoffHasRetry, AloneHoldsCache, Mergeable, CacheIsLatestArrival, Stored
<1>6. CASE BodyEnds(n)
  <2> DEFINE r == [req[n] EXCEPT !.phase = "done", !.attempt = 0]
  <2>1. r \in Requests /\ r.phase = "done" /\ r.status = req[n].status /\ r.body = req[n].body
    BY <1>0, <1>1 DEF Requests
  <2>2. r.immediate = req[n].immediate /\ r.broken = req[n].broken /\ r.alone = req[n].alone
    BY <1>1 DEF Requests
  <2>3. req' = [req EXCEPT ![n] = r] /\ UNCHANGED <<queueVars, proxyVars>>
        /\ req[n].phase = "answered"
    BY <1>6 DEF BodyEnds
  <2> HIDE DEF r
  <2> QED
    BY <1>2, <2>1, <2>2, <2>3, WriteStepInv DEF queueVars
<1>7. CASE OnError(n)
  <2>1. /\ Backoff(n) /\ UNCHANGED <<queueVars, proxyVars>> /\ req[n].attempt < RetryMax
        /\ req[n].phase \in {"sending", "answered"}
    BY <1>7 DEF OnError, Backoff, Fails
  <2>2. PICK r \in Requests :
           /\ req' = [req EXCEPT ![n] = r]
           /\ r.phase = "backoff" /\ r.status = req[n].status
           /\ r.attempt = req[n].attempt
           /\ r.immediate = req[n].immediate
           /\ r.broken <=> r.status # "none"
           /\ r.alone = req[n].alone /\ r.body = req[n].body
    BY <2>1, BackoffFields
  <2>3. r.status = "none" => result[n] = "none"
    BY <1>2, <2>1, <2>2
  <2>4. r.immediate /\ ~ r.broken => result[n] = "none"
    BY <1>2, <2>2
  <2> QED
    BY <1>2, <2>1, <2>2, <2>3, <2>4, WriteStepInv DEF queueVars
<1>8. CASE Resend(n)
  <2> DEFINE r == [req[n] EXCEPT !.phase = "sending", !.attempt = @ + 1]
  <2>0. req[n].attempt + 1 \in 0 .. RetryMax
    BY <1>1, <1>2, <1>8, RetryAssumption DEF Requests, Resend
  <2>1. r \in Requests /\ r.phase = "sending" /\ r.status = req[n].status /\ r.body = req[n].body
    BY <1>1, <2>0 DEF Requests
  <2>2. r.immediate = req[n].immediate /\ r.broken = req[n].broken /\ r.alone = req[n].alone
    BY <1>1 DEF Requests
  <2>3. req' = [req EXCEPT ![n] = r] /\ UNCHANGED <<queueVars, proxyVars>>
        /\ req[n].phase = "backoff"
    BY <1>8 DEF Resend
  <2> HIDE DEF r
  <2> QED
    BY <1>2, <2>1, <2>2, <2>3, WriteStepInv DEF queueVars
<1>9. CASE OnAllFailed(n)
  <2>1. Ends(n) /\ UNCHANGED proxyVars /\ req[n].phase \in {"sending", "answered"}
        /\ Put(n, "skip")
    BY <1>9 DEF OnAllFailed, Ends, Fails
  <2>2. PICK r \in Requests :
           /\ req' = [req EXCEPT ![n] = r]
           /\ r.phase = "done" /\ r.status = req[n].status
           /\ r.immediate = req[n].immediate
           /\ r.broken <=> r.status # "none"
           /\ r.alone => req[n].alone /\ r.body = req[n].body
           /\ r.status = "ok" => r.body = req[n].body
    BY <2>1, EndsFields
  <2>3. /\ \A m \in Seqs : m # n \/ m <= lastProcessed => result'[m] = result[m]
        /\ result'[n] \in {result[n], "skip"}
        /\ UNCHANGED <<nextSeq, lastProcessed>>
    BY <2>1, PutResult
  <2>4. ~ (r.immediate /\ ~ r.broken)
    BY <1>2, <2>2
  <2> QED
    BY <1>2, <2>1, <2>2, <2>3, <2>4, WriteStepInv
<1>10. CASE EnqueueWrite(n)
  <2> DEFINE r == [req[n] EXCEPT !.immediate = FALSE]
  <2>1. r \in Requests /\ r.phase = req[n].phase /\ r.status = req[n].status
        /\ r.body = req[n].body /\ r.attempt = req[n].attempt
    BY <1>1 DEF Requests
  <2>2. ~ r.immediate /\ r.alone = req[n].alone
    BY <1>1 DEF Requests
  <2>3. req' = [req EXCEPT ![n] = r] /\ UNCHANGED proxyVars /\ req[n].immediate /\ Put(n, "run")
    BY <1>10 DEF EnqueueWrite
  <2>4. /\ \A m \in Seqs : m # n \/ m <= lastProcessed => result'[m] = result[m]
        /\ UNCHANGED <<nextSeq, lastProcessed>>
    BY <2>3, PutResult
  <2> HIDE DEF r
  <2> QED
    BY <1>2, <2>1, <2>2, <2>3, <2>4, WriteStepInv
<1> QED
  BY <1>3, <1>4, <1>5, <1>6, <1>7, <1>8, <1>9, <1>10 DEF Progress

\* What a turn of the loop does to the cache.
LEMMA ProcessCache ==
  ASSUME NEW b \in Bodies, cache \in {NoBlock} \cup Blocks, cacheInitialized \in BOOLEAN,
         version \in Nat, Process(b)
  PROVE  /\ cache' \in {NoBlock} \cup Blocks
         /\ b # Garbage => cache' = b
         /\ b = Garbage => cache' = cache
         /\ version' \in {version, version + 1}
BY MarkAssumption DEF Process, Bodies, Blocks

LEMMA ProcessNextInv ==
  ASSUME QueueCore, ProxyInv, ProcessNext
  PROVE  ProxyInv'
<1> DEFINE next == lastProcessed + 1
           body == req[next].body
<1>1. /\ lastProcessed \in Nat /\ next \in Seqs
      /\ lastProcessed' = next
      /\ pending[next] # "absent"
      /\ pending[next] = result[next]
      /\ UNCHANGED <<nextSeq, result, req, cacheInitialized, running>>
  BY QueueKnows, MaxSeqAssumption
     DEF ProcessNext, DrainStep, HasNext, Pop, QueueTypeOK, Seqs
<1>2. body \in Bodies /\ cacheInitialized \in BOOLEAN /\ version \in Nat
  BY <1>1 DEF ProxyInv, Requests
<1>3. CASE result[next] = "run" /\ body # Garbage
  <2>1. /\ cache' = body
        /\ cache' \in {NoBlock} \cup Blocks
        /\ version' \in {version, version + 1}
    BY <1>1, <1>2, <1>3, ProcessCache DEF ProcessNext, ProxyInv
  <2>2. Stored' = Stored \cup {next}
    BY <1>1, <1>3 DEF Stored, Seqs
  <2>3. \A n \in Stored : n < next
    BY <1>1 DEF Stored, Seqs
  <2>4. CacheIsLatestArrival'
    <3> SUFFICES ASSUME NEW n \in Stored', \A m \in Stored' : m <= n
                 PROVE  cache' = req'[n].body
      BY DEF CacheIsLatestArrival
    <3>1. next <= n
      BY <2>2
    <3>2. n = next
      BY <1>1, <2>2, <2>3, <3>1 DEF Stored, Seqs
    <3> QED
      BY <1>1, <2>1, <3>2
  <2>5. AloneHoldsCache'
    BY <1>1 DEF ProxyInv, AloneHoldsCache, Seqs
  <2> QED
    BY <1>1, <2>1, <2>4, <2>5 DEF ProxyInv, ArrivedIsReserved, NumberIsReserved, OpenIsUnsettled,
             RelayedFirst, BackoffHasRetry
<1>4. CASE ~ (result[next] = "run" /\ body # Garbage)
  <2>1. /\ cache' = cache
        /\ version' \in {version, version + 1}
    BY <1>1, <1>2, <1>4, ProcessCache DEF ProcessNext, ProxyInv
  <2>2. Stored' = Stored
    BY <1>1, <1>4 DEF Stored, Seqs
  <2>3. CacheIsLatestArrival'
    BY <1>1, <2>1, <2>2 DEF ProxyInv, CacheIsLatestArrival
  <2>4. AloneHoldsCache'
    BY <1>1 DEF ProxyInv, AloneHoldsCache, Seqs
  <2> QED
    BY <1>1, <2>1, <2>3, <2>4 DEF ProxyInv, ArrivedIsReserved, NumberIsReserved, OpenIsUnsettled,
             RelayedFirst, BackoffHasRetry
<1> QED
  BY <1>3, <1>4

\* Steps that touch neither a write nor the cached block.
LEMMA IdleInv ==
  ASSUME ProxyInv, cacheInitialized' \in BOOLEAN,
         UNCHANGED <<nextSeq, lastProcessed, result, req, cache, version, running>>
  PROVE  ProxyInv'
BY DEF ProxyInv, ArrivedIsReserved, NumberIsReserved, OpenIsUnsettled, RelayedFirst,
       BackoffHasRetry, AloneHoldsCache, Mergeable, CacheIsLatestArrival, Stored

LEMMA NextIInv == IInv /\ [Next]_vars => IInv'
<1> SUFFICES ASSUME QueueCore, ProxyInv, [Next]_vars
             PROVE  QueueCore' /\ ProxyInv'
  BY DEF IInv
<1>1. QueueCore'
  BY QueueCoreStep
<1>2. ProxyInv'
  <2>1. ASSUME NEW s \in Senders, NEW b \in Bodies, Arrive(s, b) PROVE ProxyInv'
    BY <2>1, ArriveInv
  <2>2. ASSUME NEW n \in Seqs, Progress(n) PROVE ProxyInv'
    BY <2>2, CallInv
  <2>3. CASE ProcessNext
    BY <2>3, ProcessNextInv
  <2>4. CASE ReturnFromDrain
    BY <2>4, IdleInv DEF ReturnFromDrain, DrainReturn, ProxyInv, proxyVars
  <2>5. CASE InitializeCache
    BY <2>5, IdleInv DEF InitializeCache, queueVars
  <2>6. CASE UNCHANGED vars
    BY <2>6, IdleInv DEF vars, ProxyInv
  <2> QED
    BY <2>1, <2>2, <2>3, <2>4, <2>5, <2>6 DEF Next
<1> QED
  BY <1>1, <1>2

\* The inductive invariant holds in every reachable state.
THEOREM Invariance == Spec => []IInv
BY InitIInv, NextIInv, PTL DEF Spec

\* Every variable has its type; the queue's position is among its bounds
\* (proxyRemoteBlockWrite).
THEOREM WritesTypeOK == Spec => []TypeOK
<1>1. IInv => TypeOK
  BY IInvTypes
<1> QED
  BY <1>1, Invariance, PTL

\* For any number of overlapping writes, retries, failures and answers that
\* break off, the copy that
\* other clients fetch is the latest arrival among the processed writes
\* (processRemoteBlockWrite).
THEOREM CacheOrder == Spec => []CacheIsLatestArrival
<1>1. IInv => CacheIsLatestArrival
  BY DEF IInv, ProxyInv
<1> QED
  BY <1>1, Invariance, PTL

\* The proxy and its retry loop settle only numbers they reserved, and each at
\* most once, unless its connection broke after its answer had begun: apart from
\* those writes they are a caller that WriteOrderQueue was written for
\* (proxyRemoteBlockWrite, sendUpstreamWithRetry).
THEOREM ProxySettlesOnce == Spec => SettlesOnce
<1>1. Init => QueueInit
  BY DEF Init
<1>2. IInv /\ [Next]_vars => [QueueNext \/ SettledAgain]_(queueVars)
  BY QueueStep DEF IInv, queueVars
<1> QED
  BY <1>1, <1>2, Invariance, PTL DEF Spec, SettlesOnce

\* The merge for a stale sender removes no message from the server's copy, if
\* every earlier write had been processed when the bodies were merged, and
\* neither of the two bodies is one that mergeRemoteBlock passes on as it came.
THEOREM MergeKeeps == Spec => UnracedMergeLosesNothing
<1> DEFINE Keeps ==
      \A n \in Seqs : ProcessesMerged(n) /\ req[n].alone => cache \subseteq cache'
<1>1. IInv /\ [Next]_vars => [Keeps]_vars
  <2> SUFFICES ASSUME QueueCore, ProxyInv, NEW n \in Seqs, ProcessNext,
                      lastProcessed' = n, pending[n] = "run", req[n].alone,
                      Mergeable(cache, req[n].body)
               PROVE  cache \subseteq cache'
    BY DEF IInv, Processes, ProcessesMerged, Mergeable
  <2>1. lastProcessed \in Nat /\ n = lastProcessed + 1
    BY QueueKnows, MaxSeqAssumption
       DEF ProcessNext, DrainStep, Pop, QueueTypeOK
  <2>2. cache \subseteq req[n].body
    BY <2>1 DEF ProxyInv, AloneHoldsCache
  <2>3. cache' = req[n].body
    <3>1. req[n].body \in Bodies /\ version \in Nat /\ Process(req[n].body)
      BY <2>1, QueueKnows DEF ProxyInv, Requests, ProcessNext, QueueTypeOK
    <3> QED
      BY <3>1, ProcessCache DEF ProxyInv, Mergeable
  <2> QED
    BY <2>2, <2>3
<1> QED
  BY <1>1, Invariance, PTL DEF Spec, UnracedMergeLosesNothing
=============================================================================
