------------------------- MODULE RemoteBlockWrites -------------------------
(***************************************************************************)
(* The path of a write to one character's remote block file: the request   *)
(* is read, merged with the server's copy when its sender is stale, given  *)
(* a number, sent upstream with retries, and processed in the order of the *)
(* numbers.  Composes WriteOrderQueue with its callers                     *)
(* (proxyRemoteBlockWrite, sendUpstreamWithRetry, processRemoteBlockWrite, *)
(* mergeRemoteBlock).  Writes to database.bin take the same path without   *)
(* the merge.                                                              *)
(*                                                                         *)
(* A block is the set of its chat messages, or Bare: JSON that cannot be   *)
(* merged, because it has no chats or no chatPage, or chats on which the   *)
(* merge throws.  A body that is not JSON is Garbage.  What a client sends *)
(* is unconstrained.                                                       *)
(***************************************************************************)
EXTENDS WriteOrderQueue, FiniteSets

CONSTANTS
  Messages,   \* chat messages a block can hold
  Bare,       \* a block that cannot be merged
  Garbage,    \* a body JSON.parse rejects
  NoBlock,    \* no copy of the block is cached
  RetryMax,   \* RETRY_MAX_ATTEMPTS: attempts after the first
  MaxBroken   \* bound on the answers whose connection breaks

ASSUME RetryAssumption == RetryMax \in Nat

\* The three marks differ, and none is a set of messages.
ASSUME MarkAssumption ==
  /\ \A b \in SUBSET Messages : b \notin {Bare, Garbage, NoBlock}
  /\ Bare # Garbage /\ Bare # NoBlock /\ Garbage # NoBlock

VARIABLES
  req,               \* what became of each write
  cache,             \* the block in dataCache; hashCache holds its hash
  cacheInitialized,  \* cache.cacheInitialized
  version,           \* cache.currentVersion, as far as this block raised it
  running            \* the process has not ended

proxyVars == <<cache, cacheInitialized, version, running>>

vars == <<nextSeq, lastProcessed, pending, draining, result, ran, req,
          cache, cacheInitialized, version, running>>

Blocks == (SUBSET Messages) \cup {Bare}
Bodies == Blocks \cup {Garbage}

\* A request without a client id is never merged, like one of a fresh client.
Senders == {"fresh", "stale"}

\* phase: where the attempt is; status: what was relayed to the sender (once:
\* res.headersSent); immediate: the setImmediate callback is waiting; broken:
\* history, a connection broke after its answer had begun; attempt: the
\* argument of sendUpstreamWithRetry; alone: history, see Arrive.
NoRequest == [phase |-> "none", status |-> "none", immediate |-> FALSE,
              broken |-> FALSE, attempt |-> 0,
              sender |-> "fresh", body |-> Garbage, alone |-> FALSE]

Init ==
  /\ QueueInit
  /\ req = [n \in Seqs |-> NoRequest]
  /\ cache \in {NoBlock} \cup Blocks
  /\ cacheInitialized \in BOOLEAN
  /\ version = 0
  /\ running = TRUE

-----------------------------------------------------------------------------
\* Slip: a block with no chats counts as one that cannot be merged.
MergeSkipsEmpty(incoming) ==
  IF cache \in {NoBlock, Bare} \/ incoming \in {Garbage, Bare, {}}
    THEN incoming ELSE cache \cup incoming

\* mergeRemoteBlock: the union of both sides.  Where there is no copy, or one
\* of the sides cannot be merged, the body is passed on as it came.
Merge(incoming) ==
  IF cache \in {NoBlock, Bare} \/ incoming \in {Garbage, Bare}
    THEN incoming ELSE cache \cup incoming

\* The request has been read: merge for a stale sender, reserve, send.
Arrive(sender, incoming) ==
  /\ Reserve
  /\ LET body == IF sender = "stale" THEN Merge(incoming) ELSE incoming IN
     req' = [req EXCEPT ![nextSeq + 1] =
               [NoRequest EXCEPT
                  !.phase = "sending", !.sender = sender, !.body = body,
                  !.alone = sender = "stale" /\ lastProcessed = nextSeq]]
  /\ UNCHANGED proxyVars

\* Only of a success is the body processed; otherwise it is forgotten.
Kept(r) ==
  IF r.status = "ok"
    THEN r ELSE [r EXCEPT !.sender = "fresh", !.body = Garbage, !.alone = FALSE]

\* The first answer of the upstream begins: its headers are relayed.
Relay(n, status) ==
  /\ ~ draining
  /\ req[n].phase = "sending" /\ req[n].status = "none"
  /\ req' = [req EXCEPT ![n] =
               Kept([@ EXCEPT !.phase = "answered", !.status = status,
                              !.immediate = status = "ok"])]
  /\ UNCHANGED proxyVars

\* A 2xx answer: the callback is left to setImmediate.
OnSuccess(n) == Relay(n, "ok") /\ UNCHANGED queueVars

\* Another status: the number is given up.
OnRejected(n) == Relay(n, "rejected") /\ Put(n, "skip")

\* An attempt after a broken answer is answered in turn.  The headers cannot be
\* sent again: writeHead throws in the callback, which ends the process.
AnsweredAgain(n) ==
  /\ ~ draining
  /\ req[n].phase = "sending" /\ req[n].status # "none"
  /\ running' = FALSE
  /\ UNCHANGED <<queueVars, req, cache, cacheInitialized, version>>

\* The body of the answer is complete: no error is reported after that.
BodyEnds(n) ==
  /\ ~ draining
  /\ req[n].phase = "answered"
  /\ req' = [req EXCEPT ![n].phase = "done", ![n].attempt = 0]
  /\ UNCHANGED <<queueVars, proxyVars>>

\* The connection of the attempt fails, before its answer or in the middle of
\* it: the handler stays armed after the headers (sendUpstreamWithRetry.ts:28).
Fails(n) ==
  /\ ~ draining
  /\ \/ req[n].phase = "sending"
     \/ /\ req[n].phase = "answered"
        /\ Cardinality({m \in Seqs : req[m].broken}) < MaxBroken
  /\ UNCHANGED proxyVars

Failed(r) == [r EXCEPT !.broken = r.status # "none"]

Backoff(n) ==
  /\ Fails(n)
  /\ req' = [req EXCEPT ![n] = [Failed(@) EXCEPT !.phase = "backoff"]]

Ends(n) ==
  /\ Fails(n)
  /\ req' = [req EXCEPT ![n] =
               Kept([Failed(@) EXCEPT !.phase = "done", !.attempt = 0])]

\* Slip: every failed attempt gives the number up.
OnErrorSkips(n) ==
  /\ req[n].attempt < RetryMax
  /\ Backoff(n)
  /\ Put(n, "skip")

\* Slip: "<=" where the code has "<".
OnErrorOnceMore(n) ==
  /\ req[n].attempt <= RetryMax
  /\ Backoff(n)
  /\ UNCHANGED queueVars

\* The connection fails with attempts left: wait, then send again.
OnError(n) ==
  /\ req[n].attempt < RetryMax
  /\ Backoff(n)
  /\ UNCHANGED queueVars

\* The delay is over; a callback left to setImmediate has run by then.
Resend(n) ==
  /\ ~ draining
  /\ req[n].phase = "backoff" /\ ~ req[n].immediate
  /\ req' = [req EXCEPT ![n].phase = "sending", ![n].attempt = @ + 1]
  /\ UNCHANGED <<queueVars, proxyVars>>

\* Slip: the 502 is sent, the number is not given up.
OnAllFailedForgetsSkip(n) ==
  /\ req[n].attempt >= RetryMax
  /\ Ends(n)
  /\ UNCHANGED queueVars

\* The connection fails for the last time: skip, 502, write-failed.
OnAllFailed(n) ==
  /\ req[n].attempt >= RetryMax
  /\ Ends(n)
  /\ Put(n, "skip")

\* setImmediate: hand the callback to the queue.
EnqueueWrite(n) ==
  /\ req[n].immediate
  /\ req' = [req EXCEPT ![n].immediate = FALSE]
  /\ Put(n, "run")
  /\ UNCHANGED proxyVars

\* Slip: a block cached before initialisation is not replaced.
ProcessKeepsFirst(body) ==
  IF body = Garbage \/ (~ cacheInitialized /\ cache # NoBlock)
    THEN UNCHANGED <<cache, version>>
    ELSE cache' = body /\ version' = version + 1

\* processRemoteBlockWrite.
Process(body) ==
  CASE body = Garbage -> UNCHANGED <<cache, version>>
    [] body # Garbage /\ ~ cacheInitialized ->
         cache' = body /\ UNCHANGED version
    [] body # Garbage /\ cacheInitialized /\ cache = body ->
         UNCHANGED <<cache, version>>
    [] OTHER -> cache' = body /\ version' = version + 1

ProcessNext ==
  /\ DrainStep
  /\ IF pending[lastProcessed + 1] = "run"
       THEN Process(req[lastProcessed + 1].body)
       ELSE UNCHANGED <<cache, version>>
  /\ UNCHANGED <<req, cacheInitialized, running>>

ReturnFromDrain ==
  /\ DrainReturn
  /\ UNCHANGED <<req, proxyVars>>

\* The first parsed database.bin, from a write or the fetch at boot.  Where
\* characters have files of their own it does not carry this block.
InitializeCache ==
  /\ ~ draining
  /\ ~ cacheInitialized
  /\ cacheInitialized' = TRUE
  /\ UNCHANGED <<queueVars, req, cache, version, running>>

\* The upstream answers or the connection fails; timers fire; calls return.
Progress(n) ==
  \/ OnSuccess(n) \/ OnRejected(n) \/ AnsweredAgain(n) \/ BodyEnds(n)
  \/ OnError(n) \/ Resend(n) \/ OnAllFailed(n) \/ EnqueueWrite(n)

Next ==
  /\ running
  /\ \/ \E s \in Senders, b \in Bodies : Arrive(s, b)
     \/ \E n \in Seqs : Progress(n)
     \/ ProcessNext
     \/ ReturnFromDrain
     \/ InitializeCache

Spec ==
  /\ Init
  /\ [][Next]_vars
  /\ \A n \in Seqs : WF_vars(running /\ Progress(n))
  /\ WF_vars(running /\ (ProcessNext \/ ReturnFromDrain))

-----------------------------------------------------------------------------
TypeOK ==
  /\ QueueTypeOK
  /\ req \in [Seqs -> [phase : {"none", "sending", "answered", "backoff",
                                "done"},
                       status : {"none", "ok", "rejected"},
                       immediate : BOOLEAN,
                       broken : BOOLEAN,
                       attempt : 0 .. RetryMax,
                       sender : Senders,
                       body : Bodies,
                       alone : BOOLEAN]]
  /\ cache \in {NoBlock} \cup Blocks
  /\ cacheInitialized \in BOOLEAN
  /\ version \in 0 .. MaxSeq
  /\ running \in BOOLEAN

\* The numbers of the writes processed so far that were JSON.
Stored == {n \in Seqs : /\ n <= lastProcessed
                        /\ result[n] = "run"
                        /\ req[n].body # Garbage}

\* The copy other clients fetch is the body of the latest arrival among the
\* processed writes, before and after initialisation and whatever the order of
\* upstream answers, retries and broken answers (write-order-queue.ts:1-3).
CacheIsLatestArrival ==
  \A n \in Stored : (\A m \in Stored : m <= n) => cache = req[n].body

\* A call of enqueue or skip for a write whose answer broke off.
SettledAgain ==
  \E n \in Seqs : req'[n].broken /\ (Put(n, "run") \/ Put(n, "skip"))

\* The proxy keeps the queue's contract: each reserved number is settled once,
\* on every path through retries, rejections and failures.  The exception is a
\* write whose connection broke after its answer had begun; it alone may be
\* settled again.
SettlesOnce == QueueInit /\ [][QueueNext \/ SettledAgain]_queueVars

\* No write is left waiting for ever: its number is passed in the end, so one
\* failing upload cannot block the uploads behind it; unless the process ends.
EveryWritePassed ==
  \A n \in Seqs : nextSeq >= n ~> lastProcessed >= n \/ ~ running

\* The callback of the write the loop is at.
Processes(n) == ProcessNext /\ lastProcessed' = n /\ pending[n] = "run"

\* A processed write that was merged: its sender was stale, and neither side
\* was passed on as it came.
ProcessesMerged(n) ==
  /\ Processes(n)
  /\ req[n].sender = "stale"
  /\ req[n].body \notin {Garbage, Bare}
  /\ cache \notin {NoBlock, Bare}

\* A stale sender's write that no other write overlapped removes no message
\* from the server's copy, if both can be merged (mergeRemoteBlock).
UnracedMergeLosesNothing ==
  [][\A n \in Seqs :
       ProcessesMerged(n) /\ req[n].alone => cache \subseteq cache']_vars

\* The same without the condition on overlapping writes: "Stale clients: union
\* merge with the server cache to prevent data loss" (index.ts:223).
StaleWriteLosesNothing ==
  [][\A n \in Seqs : ProcessesMerged(n) => cache \subseteq cache']_vars

\* A write whose success the sender was told of is processed when its turn has
\* come: "Call when the write succeeded and is ready to process"
\* (write-order-queue.ts:20), skip only "when the write failed" (line 26).
SuccessIsProcessed ==
  \A n \in Seqs : req[n].status = "ok" /\ n <= lastProcessed => HasRun(n)
=============================================================================
