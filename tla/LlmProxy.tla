------------------------------ MODULE LlmProxy ------------------------------
(***************************************************************************)
(* Requests to an LLM through /proxy2 (proxyProxy2 in index.ts): answering *)
(* from the buffer, waiting for the upstream, streaming and whole answers, *)
(* aborts, lost clients, the two cleanup timers, and what the other pages  *)
(* are told (utils/streaming).  Extends StreamBuffer with its callers.     *)
(*                                                                         *)
(* hash[c] stands for the hash of call c's body and address.  Of a         *)
(* response, "left" means open with nothing that will ever write to it.    *)
(***************************************************************************)
EXTENDS StreamBuffer

CONSTANT Hashes   \* request hashes

VARIABLES
  hash,      \* the request of each call
  call,      \* what each call of proxyProxy2 is doing
  active,    \* activeStreams: the text shown to the other pages
  pending,   \* pendingUpstreams
  aborted,   \* abortedStreams
  monitor,   \* activeStreamIds of monitorPush
  told       \* the stream-end message broadcast by the last step

vars == <<buffer, res, hash, call, active, pending, aborted, monitor, told>>
registries == <<pending, aborted, monitor>>

NoActive == [on |-> FALSE, raw |-> 0, text |-> 0, away |-> FALSE]
NoMessage == [id |-> 0, text |-> 0, toSender |-> FALSE, early |-> FALSE]

Init ==
  /\ buffer = [c \in Calls |-> NoEntry]
  /\ res = [r \in Responses |-> NoResponse]
  /\ hash \in [Calls -> Hashes]
  /\ call = [c \in Calls |-> [phase |-> "none", live |-> FALSE, n |-> 0]]
  /\ active = [c \in Calls |-> NoActive]
  /\ told = NoMessage
  /\ pending = {} /\ aborted = {} /\ monitor = {}

Closed == [NoResponse EXCEPT !.state = "gone"]

\* clientDisconnected
Gone(c) == res[c].state = "gone"

Goto(c, phase) == [call EXCEPT ![c].phase = phase]
Over(c) == [call EXCEPT ![c] = [phase |-> "over", live |-> FALSE, n |-> 0]]

\* writeHead, unless the headers are out.
WriteHead(R, c) == IF R[c].state = "open" /\ R[c].head = "none"
              THEN [R EXCEPT ![c].head = "own"] ELSE R

Refuse(c, last) == End(WriteHead(res, c), {c}, last)

\* A step that announces no end.
Silent == told' = NoMessage

-----------------------------------------------------------------------------
\* createStream, processStreamChunk, endStream.
CreateStream(c) ==
  active' = [active EXCEPT ![c] = [NoActive EXCEPT !.on = TRUE]]

ProcessStreamChunk(c, line) ==
  active' = IF ~ active[c].on THEN active ELSE
            [active EXCEPT ![c].raw = @ + 1,
                           ![c].text = IF line THEN active[c].raw + 1 ELSE @]

EndStream(c, parses, early) ==
  IF ~ active[c].on THEN Silent /\ UNCHANGED active ELSE
  /\ active' = [active EXCEPT ![c] = NoActive]
  /\ told' = [id |-> c, text |-> Flush(active[c], parses).text,
              toSender |-> active[c].away, early |-> early]

-----------------------------------------------------------------------------
Post(c) ==
  /\ call[c].phase = "none"
  /\ \A d \in 1 .. c - 1 : call[d].phase # "none"
  /\ call' = Goto(c, "reading")
  /\ res' = [res EXCEPT ![c].state = "open"]
  /\ Silent
  /\ UNCHANGED <<buffer, hash, active, registries>>

\* Slip: the stream is not told that its sender is away.
DisconnectForgets(c) ==
  /\ res[c].state \in {"open", "left"}
  /\ res' = [res EXCEPT ![c] = Closed]
  /\ buffer' = Unsubscribe(c)
  /\ call' = [call EXCEPT ![c].live = @ /\ active[c].on]
  /\ Silent
  /\ UNCHANGED <<hash, active, registries>>

\* The close event of a call's response: a stream goes on without its
\* sender, any other upstream request is destroyed.
Disconnect(c) ==
  /\ res[c].state \in {"open", "left"}
  /\ res' = [res EXCEPT ![c] = Closed]
  /\ buffer' = Unsubscribe(c)
  /\ active' = [active EXCEPT ![c].away = active[c].on]
  /\ call' = [call EXCEPT ![c].live = @ /\ call[c].phase = "sse"]
  /\ Silent
  /\ UNCHANGED <<hash, registries>>

\* Answered from the buffer: replayed and dropped, or joined.
AnswerFromBuffer(c, id) ==
  /\ call' = Over(c)
  /\ IF Streaming(id)
     THEN /\ res' = [res EXCEPT ![c] = SubscribeRawAnswer(id)]
          /\ buffer' = SubscribeRawTo(id, c)
     ELSE IF CanReplay(id)
     THEN /\ res' = [res EXCEPT ![c] = Whole(id)]
          /\ buffer' = [buffer EXCEPT ![id] = NoEntry]
     ELSE /\ res' = Refuse(c, "502")
          /\ UNCHANGED buffer
  /\ Silent
  /\ UNCHANGED <<hash, active, registries>>

Send(c) ==
  /\ call' = [call EXCEPT ![c].phase = "sent", ![c].live = TRUE]
  /\ pending' = pending \cup {c}
  /\ monitor' = monitor \cup {c}
  /\ Silent
  /\ UNCHANGED <<buffer, res, hash, active, aborted>>

\* The request body is complete.  A private host is refused.
BodyRead(c) ==
  /\ call[c].phase = "reading"
  /\ \/ /\ Gone(c)
        /\ call' = Over(c)
        /\ Silent
        /\ UNCHANGED <<buffer, res, hash, active, registries>>
     \/ /\ ~ Gone(c)
        /\ \E id \in FindByHash(hash, hash[c]) : AnswerFromBuffer(c, id)
     \/ /\ ~ Gone(c) /\ FindByHash(hash, hash[c]) = {}
        /\ call' = Over(c)
        /\ res' = Refuse(c, "403")
        /\ Silent
        /\ UNCHANGED <<buffer, hash, active, registries>>
     \/ /\ ~ Gone(c) /\ FindByHash(hash, hash[c]) = {}
        /\ Send(c)

\* Thirty seconds without an answer: a 200 without the answer's headers.
KeepAlive(c) ==
  /\ call[c].phase = "sent" /\ res[c].state = "open" /\ res[c].head = "none"
  /\ res' = [res EXCEPT ![c].head = "blank"]
  /\ Silent
  /\ UNCHANGED <<buffer, hash, call, active, registries>>

-----------------------------------------------------------------------------
\* onResponse
HeadersArrive(c, kind) ==
  /\ call[c].phase = "sent" /\ call[c].live
  /\ call' = Goto(c, kind)
  /\ pending' = pending \ {c}
  /\ res' = [WriteHead(res, c) EXCEPT ![c].from = {c}]
  /\ IF kind = "sse" THEN buffer' = Create(c) /\ CreateStream(c)
                     ELSE UNCHANGED <<buffer, active>>
  /\ Silent
  /\ UNCHANGED <<hash, aborted, monitor>>

StreamChunk(c, line) ==
  /\ call[c].phase = "sse" /\ call[c].live /\ buffer[c].raw < MaxChunks
  /\ buffer' = AddChunk(c, line)
  /\ res' = AddChunkWrites(WriteChunk(res, {c}, buffer[c].raw + 1), c, line)
  /\ ProcessStreamChunk(c, line)
  /\ Silent
  /\ UNCHANGED <<hash, call, registries>>

PlainChunk(c) ==
  /\ call[c].phase = "plain" /\ call[c].live /\ call[c].n < MaxChunks
  /\ call' = [call EXCEPT ![c].n = @ + 1]
  /\ res' = WriteChunk(res, {c}, call[c].n + 1)
  /\ Silent
  /\ UNCHANGED <<buffer, hash, active, registries>>

\* The upstream's stream ends; it may also end just after it was destroyed.
StreamEnds(c, parses) ==
  /\ call[c].phase = "sse"
  /\ call' = Over(c)
  /\ monitor' = monitor \ {c}
  /\ EndStream(c, parses, FALSE)
  /\ buffer' = Complete(c, parses)
  /\ res' = End(CompleteWrites(res, c, parses), {c}, "done")
  /\ UNCHANGED <<hash, pending, aborted>>

\* broadcastResponseCompleted: only an answer with a text is announced.
PlainEnds(c, text) ==
  /\ call[c].phase = "plain"
  /\ call' = Over(c)
  /\ monitor' = monitor \ {c}
  /\ buffer' = StoreResponse(c, call[c].n, text)
  /\ told' = IF text = 0 THEN NoMessage
             ELSE [NoMessage EXCEPT !.id = c, !.text = text]
  /\ res' = End(res, {c}, "done")
  /\ UNCHANGED <<hash, active, pending, aborted>>

\* onError: the request fails before it was answered.
OnError(c) ==
  /\ call[c].phase = "sent"
  /\ call' = Over(c)
  /\ res' = Refuse(c, IF c \in aborted THEN "cancelled" ELSE "502")
  /\ pending' = pending \ {c}
  /\ aborted' = aborted \ {c}
  /\ monitor' = monitor \ {c}
  /\ Silent
  /\ UNCHANGED <<buffer, hash, active>>

\* A stream breaks.  A socket error also reaches onError, which ends the
\* response with the words of a 502; otherwise the response just ends.
StreamBreaks(c, reset, parses) ==
  /\ call[c].phase = "sse"
  /\ reset => call[c].live
  /\ call' = Over(c)
  /\ monitor' = monitor \ {c}
  /\ EndStream(c, parses, FALSE)
  /\ buffer' = Fail(c)
  /\ res' = End(FailWrites(res, c), {c}, IF reset THEN "502" ELSE "done")
  /\ UNCHANGED <<hash, pending, aborted>>

\* A whole answer breaks.  No handler sees it unless the socket errs: the
\* response stays open and the monitor keeps the call.
PlainBreaks(c, reset) ==
  /\ call[c].phase = "plain"
  /\ reset => call[c].live
  /\ call' = Goto(c, IF reset THEN "over" ELSE "cut")
  /\ monitor' = IF reset THEN monitor \ {c} ELSE monitor
  /\ res' = IF reset THEN End(res, {c}, "502")
            ELSE [res EXCEPT ![c].state = IF @ = "open" THEN "left" ELSE @]
  /\ Silent
  /\ UNCHANGED <<buffer, hash, active, pending, aborted>>

-----------------------------------------------------------------------------
\* POST /_internal/stream/:id/abort while the answer is awaited.
AbortPending(c) ==
  /\ c \in pending
  /\ aborted' = aborted \cup {c}
  /\ pending' = pending \ {c}
  /\ call' = [call EXCEPT ![c].live = FALSE]
  /\ Silent
  /\ UNCHANGED <<buffer, res, hash, active, monitor>>

\* POST .../abort of a stream: by the page, or the monitor.
AbortStream(c, parses) ==
  /\ Streaming(c)
  /\ buffer' = Abort(c, parses)
  /\ res' = CompleteWrites(res, c, parses)
  /\ EndStream(c, parses, FALSE)
  /\ call' = [call EXCEPT ![c].live = FALSE]
  /\ UNCHANGED <<hash, registries>>

\* GET /sync/stream/:id
Subscribe(r, id) ==
  /\ res[r].state = "idle"
  /\ buffer[id].status # "none"
  /\ res' = [res EXCEPT ![r] = SubscribeAnswer(id)]
  /\ buffer' = SubscribeTo(id, r)
  /\ Silent
  /\ UNCHANGED <<hash, call, active, registries>>

Leave(r) ==
  /\ res[r].state = "open"
  /\ res' = [res EXCEPT ![r] = Closed]
  /\ buffer' = Unsubscribe(r)
  /\ Silent
  /\ UNCHANGED <<hash, call, active, registries>>

\* Five minutes after its end; a destroyed request has ended by then.
BufferExpires(c) ==
  /\ call[c].phase # "sse"
  /\ Expire(c)
  /\ Silent
  /\ UNCHANGED <<hash, call, active, registries>>

\* cleanupTimer of the buffer: a stream of thirty minutes.
Zombie(c) ==
  /\ Streaming(c)
  /\ buffer' = ZombieEntry(c)
  /\ res' = ZombieWrites(c)
  /\ call' = [call EXCEPT ![c].live = FALSE]
  /\ Silent
  /\ UNCHANGED <<hash, active, registries>>

\* streamCleanupTimer of sync.ts: the same age, another timer.
BroadcastZombie(c, parses) ==
  /\ active[c].on
  /\ EndStream(c, parses, TRUE)
  /\ UNCHANGED <<buffer, res, hash, call, registries>>

UpstreamEnds(c) ==
  \/ \E parses \in BOOLEAN : StreamEnds(c, parses)
  \/ \E text \in {0, call[c].n} : PlainEnds(c, text)
  \/ \E reset, parses \in BOOLEAN : StreamBreaks(c, reset, parses)
  \/ \E reset \in BOOLEAN : PlainBreaks(c, reset)

Answer(c) == OnError(c) \/ \E kind \in {"sse", "plain"} : HeadersArrive(c, kind)

CallStep(c) ==
  \/ Post(c) \/ Disconnect(c) \/ BodyRead(c) \/ KeepAlive(c)
  \/ Answer(c) \/ UpstreamEnds(c)
  \/ \E line \in BOOLEAN : StreamChunk(c, line)
  \/ PlainChunk(c)
  \/ AbortPending(c)
  \/ \E parses \in BOOLEAN : AbortStream(c, parses) \/ BroadcastZombie(c, parses)
  \/ BufferExpires(c) \/ Zombie(c)

Next ==
  \/ \E c \in Calls : CallStep(c)
  \/ \E r \in Readers : Leave(r) \/ \E id \in Calls : Subscribe(r, id)

Spec == Init /\ [][Next]_vars

-----------------------------------------------------------------------------
Entries ==
  [status : {"none", "streaming", "completed", "failed"}, plain : BOOLEAN,
   raw : 0 .. MaxChunks, text : 0 .. MaxChunks,
   subs : SUBSET Readers, rawSubs : SUBSET Calls]

\* The maps hold what their declarations say, and no entry is read further
\* than it was received.
TypeOK ==
  /\ buffer \in [Calls -> Entries]
  /\ \A c \in Calls : buffer[c].text <= buffer[c].raw
  /\ \A r \in Responses :
       /\ res[r].state \in {"idle", "open", "ended", "gone", "left"}
       /\ res[r].head \in {"none", "own", "blank"}
       /\ Len(res[r].got) <= MaxChunks
  /\ \A c \in Calls : call[c].phase \in
       {"none", "reading", "sent", "sse", "plain", "over", "cut"}
  /\ active \in [Calls -> [on : BOOLEAN, raw : 0 .. MaxChunks,
                           text : 0 .. MaxChunks, away : BOOLEAN]]

Carries(r, id) == res[r].from = {id}
IsComplete(id) == buffer[id].status = "completed"

\* Whoever follows an answer, its sender, a joiner, a replay or a reader of
\* the text, holds an unbroken beginning of it, of the request it asked for,
\* and all of it when it was closed as done.
FollowersSeeTheAnswer ==
  \A r \in Responses, id \in Calls : Carries(r, id) =>
    /\ res[r].got = Chunks(Len(res[r].got))
    /\ r \in Calls => hash[r] = hash[id]
    /\ res[r].state = "ended" /\ res[r].last = "done" /\ IsComplete(id) =>
         \/ Len(res[r].got) = buffer[id].raw
         \/ r \in Readers /\ res[r].text = buffer[id].text

\* A stream is announced as ended once, when its call is over at the latest,
\* and with the text that the buffer attaches to catch-up answers.  Not so
\* when the thirty-minute timer of the broadcast came first.
OneEndWithTheText ==
  \A c \in Calls :
    /\ active[c].on => call[c].phase = "sse" /\ told.id # c
    /\ told.id = c => Finished(c) \/ told.early
    /\ told.id = c /\ IsComplete(c) => told.text = buffer[c].text

\* The registries follow the calls: the monitor's pool the running ones (and
\* for ever those whose whole answer broke), the abort registries those that
\* wait, and a stream knows whether its sender still listens.
RegistriesFollowCalls ==
  /\ monitor = {c \in Calls : call[c].phase \in {"sent", "sse", "plain", "cut"}}
  /\ \A c \in Calls :
       /\ c \in pending \cup aborted => call[c].phase = "sent"
       /\ c \in aborted => c \notin pending /\ ~ call[c].live
       /\ active[c].on => (active[c].away <=> Gone(c))
       /\ told.id = c /\ told.toSender => Gone(c)
       /\ Streaming(c) => call[c].phase = "sse" /\ call[c].live

\* A finished answer is not written to again: what was replayed or announced
\* stays what it was until it expires.
FinishedIsFrozen ==
  [][\A id \in Calls : Finished(id) /\ buffer'[id].status # "none" =>
       /\ buffer'[id].status = buffer[id].status
       /\ buffer'[id].raw = buffer[id].raw
       /\ buffer'[id].text = buffer[id].text]_vars

\* An open response has somebody who will end it: the running call it
\* belongs to, or a stream it is subscribed to.  Those the code leaves open
\* are "left": the sender of a broken whole answer, a zombie's joiners.
OpenIsOwned ==
  \A r \in Responses : res[r].state = "open" =>
    \/ r \in Calls /\ call[r].phase \in {"reading", "sent", "sse", "plain"}
    \/ \E id \in Calls : Streaming(id) /\ r \in buffer[id].subs \cup buffer[id].rawSubs

\* stream-buffer.ts:481: raw subscribers are ended with the stream.
NobodyIsLeft == \A id \in Calls : Finished(id) => buffer[id].rawSubs = {}

\* index.ts:605: the spaces sent while waiting do not affect how the answer is
\* read; here: a stream keeps its own status line and headers.
StreamsKeepTheirHeaders ==
  \A c \in Calls : call[c].phase = "sse" => res[c].head # "blank"
=============================================================================
