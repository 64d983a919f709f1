---------------------------- MODULE StreamBuffer ----------------------------
(***************************************************************************)
(* The buffer of LLM answers (stream-buffer.ts): one entry per answer,     *)
(* with the chunks received, the text read from them and the responses     *)
(* that follow it live.  The operations are used by LlmProxy, whose        *)
(* handlers call them.                                                     *)
(*                                                                         *)
(* A chunk is its number in the answer.  The text of an entry is the       *)
(* number of chunks whose lines were complete when they were parsed; the   *)
(* open line is the chunks after them.                                     *)
(***************************************************************************)
EXTENDS Integers, Sequences

CONSTANTS
  NumCalls,   \* bound on the requests to /proxy2, numbered as they come;
              \* a call's number is also its stream id
  Readers,    \* requests to /sync/stream/:id
  MaxChunks   \* bound on the chunks of one answer

VARIABLES
  buffer,   \* the map "streams"
  res       \* what has been written to each HTTP response

Calls == 1 .. NumCalls
Responses == Calls \cup Readers

\* A request is to /proxy2 or to /sync/stream, never both.
ASSUME BufferAssumption ==
  NumCalls \in Nat /\ MaxChunks \in Nat /\ Readers \cap Calls = {}

NoEntry == [status |-> "none", plain |-> FALSE, raw |-> 0, text |-> 0,
            subs |-> {}, rawSubs |-> {}]
NoResponse == [state |-> "idle", head |-> "none", from |-> {}, got |-> <<>>,
               text |-> 0, last |-> "nothing"]

Chunks(n) == [k \in 1 .. n |-> k]
Streaming(id) == buffer[id].status = "streaming"
Finished(id) == buffer[id].status \in {"completed", "failed"}

-----------------------------------------------------------------------------
\* What writes do to the responses R, of which those closed are passed over.
Writable(R, r) == R[r].state = "open"

WriteChunk(R, S, n) ==
  [r \in Responses |-> IF r \in S /\ Writable(R, r)
                       THEN [R[r] EXCEPT !.got = Append(@, n)] ELSE R[r]]

WriteText(R, S, t) ==
  [r \in Responses |-> IF r \in S /\ Writable(R, r)
                       THEN [R[r] EXCEPT !.text = t] ELSE R[r]]

End(R, S, last) ==
  [r \in Responses |-> IF r \in S /\ Writable(R, r)
                       THEN [R[r] EXCEPT !.state = "ended", !.last = last]
                       ELSE R[r]]

-----------------------------------------------------------------------------
Create(id) == [buffer EXCEPT ![id] = [NoEntry EXCEPT !.status = "streaming"]]

\* Slip: the chunk is read, not kept for the joiners.
AddChunkNotKept(id, line) ==
  IF ~ Streaming(id) THEN buffer ELSE
  [buffer EXCEPT ![id].text = IF line THEN buffer[id].raw + 1 ELSE @]

\* addChunk: line says whether the chunk completes the open line.
AddChunk(id, line) ==
  IF ~ Streaming(id) THEN buffer ELSE
  [buffer EXCEPT ![id].raw = @ + 1,
                 ![id].text = IF line THEN buffer[id].raw + 1 ELSE @]

AddChunkWrites(R, id, line) ==
  IF ~ Streaming(id) THEN R ELSE
  LET n == buffer[id].raw + 1
      R1 == WriteChunk(R, buffer[id].rawSubs, n) IN
  IF line THEN WriteText(R1, buffer[id].subs, n) ELSE R1

\* The open line at the end of the answer: it parses or it does not.
Flush(e, parses) == IF parses THEN [e EXCEPT !.text = e.raw] ELSE e

Finish(e, status) == [e EXCEPT !.status = status, !.subs = {}, !.rawSubs = {}]

\* Slip: only the readers of the text are ended.
FinishWritesTextOnly(R, id, text, last) ==
  End(WriteText(R, buffer[id].subs, text), buffer[id].subs, last)

FinishWrites(R, id, text, last) ==
  End(End(WriteText(R, buffer[id].subs, text), buffer[id].subs, last),
      buffer[id].rawSubs, "done")

\* Slip: the status is not asked.
CompleteAgain(id, parses) ==
  [buffer EXCEPT ![id] = Finish(Flush(buffer[id], parses), "completed")]

\* complete and abort leave the same entry.
Complete(id, parses) ==
  IF ~ Streaming(id) THEN buffer ELSE
  [buffer EXCEPT ![id] = Finish(Flush(buffer[id], parses), "completed")]

CompleteWrites(R, id, parses) ==
  IF ~ Streaming(id) THEN R ELSE
  FinishWrites(R, id, Flush(buffer[id], parses).text, "done")

\* Slip: the open line is dropped.
AbortDropsLine(id, parses) ==
  IF ~ Streaming(id) THEN buffer ELSE
  [buffer EXCEPT ![id] = Finish(buffer[id], "completed")]

\* abort: the caller destroys the upstream request.
Abort(id, parses) == Complete(id, parses)

Fail(id) ==
  IF ~ Streaming(id) THEN buffer ELSE
  [buffer EXCEPT ![id] = Finish(buffer[id], "failed")]

FailWrites(R, id) ==
  IF ~ Streaming(id) THEN R ELSE
  FinishWrites(R, id, buffer[id].text, "error")

\* storeResponse: an answer that is not a stream, kept whole.
StoreResponse(id, n, text) ==
  [buffer EXCEPT ![id] = [NoEntry EXCEPT !.status = "completed", !.plain = TRUE,
                                         !.raw = n, !.text = text]]

-----------------------------------------------------------------------------
\* Ways to answer response r from entry id.
Whole(id) == [NoResponse EXCEPT !.state = "ended", !.head = "own", !.from = {id},
              !.got = Chunks(buffer[id].raw), !.last = "done"]

\* subscribe: a whole answer, a finished text, or the text so far and more.
SubscribeAnswer(id) ==
  IF buffer[id].plain THEN Whole(id)
  ELSE [NoResponse EXCEPT
          !.state = IF Streaming(id) THEN "open" ELSE "ended",
          !.head = "own", !.from = {id}, !.text = buffer[id].text,
          !.last = IF Streaming(id) THEN "nothing"
                   ELSE IF buffer[id].status = "failed" THEN "error" ELSE "done"]

\* Slip: a joiner gets only what comes from now on.
SubscribeRawLate(id) ==
  [Whole(id) EXCEPT !.state = "open", !.last = "nothing", !.got = <<>>]

\* subscribeRaw: the chunks so far, and more.
SubscribeRawAnswer(id) ==
  IF Streaming(id) THEN [Whole(id) EXCEPT !.state = "open", !.last = "nothing"]
  ELSE Whole(id)

SubscribeTo(id, r) ==
  IF Streaming(id) THEN [buffer EXCEPT ![id].subs = @ \cup {r}] ELSE buffer

SubscribeRawTo(id, r) == [buffer EXCEPT ![id].rawSubs = @ \cup {r}]

\* replay has nothing to send for a stream without chunks.
CanReplay(id) == buffer[id].plain \/ buffer[id].raw > 0

Unsubscribe(r) ==
  [id \in Calls |-> [buffer[id] EXCEPT !.subs = @ \ {r}, !.rawSubs = @ \ {r}]]

FindByHash(hash, h) ==
  {id \in Calls : hash[id] = h /\ buffer[id].status \in {"completed", "streaming"}}

-----------------------------------------------------------------------------
\* cleanupTimer, an entry past its five minutes.
Expire(id) ==
  /\ Finished(id)
  /\ buffer' = [buffer EXCEPT ![id] = NoEntry]
  /\ UNCHANGED res

\* cleanupTimer, a stream of thirty minutes: its raw subscribers are not ended,
\* and nobody will write to them again.
ZombieWrites(id) ==
  [r \in Responses |->
     IF r \in buffer[id].rawSubs /\ Writable(res, r)
     THEN [res[r] EXCEPT !.state = "left"]
     ELSE End(res, buffer[id].subs, "error")[r]]

ZombieEntry(id) ==
  [buffer EXCEPT ![id].status = "failed", ![id].subs = {}]
=============================================================================
