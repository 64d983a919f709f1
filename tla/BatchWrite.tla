----------------------------- MODULE BatchWrite -----------------------------
(***************************************************************************)
(* Writes of files that are not compared (assets): the page gathers them   *)
(* for a moment and sends them in chunks (batchWriteBuffer.ts), the server *)
(* passes each on with retries (batchWrite.ts), and what fails is written  *)
(* alone (fetchWriteWithRetry.ts).                                         *)
(*                                                                         *)
(* A write is its number; a chunk goes by the number of its first write.   *)
(* Delays between retries are left out.  The content of a file is the      *)
(* number of the write stored last.                                        *)
(***************************************************************************)
EXTENDS Integers, Sequences, SequencesExt

CONSTANTS
  NumWrites,          \* bound on the writes of the page
  Files, Sizes,
  ChunkMaxBytes,      \* CHUNK_MAX_BYTES
  MaxFaults,          \* bound on the connections of the page that break
  RetryMaxAttempts,   \* RETRY_MAX_ATTEMPTS of the server
  WriteMaxRetries     \* WRITE_MAX_RETRIES of the page

ASSUME LimitsAssumption ==
  /\ NumWrites \in Nat /\ MaxFaults \in Nat
  /\ Sizes \subseteq Nat /\ ChunkMaxBytes \in Nat
  /\ RetryMaxAttempts \in Nat /\ WriteMaxRetries \in Nat

VARIABLES
  path, size,   \* of each write
  phase,        \* where each write of RisuAI is
  tries,        \* attempts to write it alone
  pending,      \* the buffer
  chunk, req,   \* the chunks and their requests
  result,       \* what the server will say of each write of a chunk
  uploads,      \* requests to the upstream
  file,         \* the upstream's files
  past          \* the writes stored, those alone on their file when they
                \* began, and how many requests were given up while served

vars == <<path, size, phase, tries, pending, chunk, req, result, uploads, file, past>>

Writes == 1 .. NumWrites
Settled == {"ok", "refused", "failed"}
Upload(w, via, n) == [of |-> w, via |-> via, try |-> n, landed |-> FALSE]

Init ==
  /\ path \in [Writes -> Files] /\ size \in [Writes -> Sizes]
  /\ phase = [w \in Writes |-> "none"]
  /\ tries = [w \in Writes |-> 0]
  /\ pending = <<>>
  /\ chunk = [w \in Writes |-> <<>>]
  /\ req = [w \in Writes |-> "none"]
  /\ result = [w \in Writes |-> "none"]
  /\ uploads = {}
  /\ file = [f \in Files |-> 0]
  /\ past = [stored |-> {}, alone |-> {}, abandoned |-> 0]

-----------------------------------------------------------------------------
\* enqueueBatchWrite: RisuAI does not wait for one write to begin the next.
Enqueue(w) ==
  /\ phase[w] = "none" /\ \A v \in 1 .. w - 1 : phase[v] # "none"
  /\ phase' = [phase EXCEPT ![w] = "waiting"]
  /\ pending' = Append(pending, w)
  /\ past' = IF \A v \in 1 .. w - 1 : path[v] = path[w] => phase[v] \in Settled
             THEN [past EXCEPT !.alone = @ \cup {w}] ELSE past
  /\ UNCHANGED <<path, size, tries, chunk, req, result, uploads, file>>

Bytes(c) == FoldLeft(LAMBDA n, w : n + size[w], 0, c)

\* Slip: the size is asked before the write is added.
SplitLate(s) ==
  FoldLeft(LAMBDA cs, w :
             IF cs # <<>> /\ Bytes(Last(cs)) <= ChunkMaxBytes
             THEN [cs EXCEPT ![Len(cs)] = Append(@, w)] ELSE Append(cs, <<w>>),
           <<>>, s)

\* splitIntoChunks: a write that does not fit opens the next chunk.
SplitIntoChunks(s) ==
  FoldLeft(LAMBDA cs, w :
             IF cs # <<>> /\ Bytes(Last(cs)) + size[w] <= ChunkMaxBytes
             THEN [cs EXCEPT ![Len(cs)] = Append(@, w)] ELSE Append(cs, <<w>>),
           <<>>, s)

\* flush, and sendChunk up to the request.
Flush ==
  /\ pending # <<>>
  /\ LET cs == ToSet(SplitIntoChunks(pending)) IN
     /\ chunk' = [w \in Writes |-> IF \E c \in cs : c[1] = w
                                   THEN CHOOSE c \in cs : c[1] = w ELSE chunk[w]]
     /\ req' = [w \in Writes |-> IF \E c \in cs : c[1] = w THEN "sent" ELSE req[w]]
  /\ phase' = [w \in Writes |-> IF w \in ToSet(pending) THEN "batch" ELSE phase[w]]
  /\ pending' = <<>>
  /\ UNCHANGED <<path, size, tries, result, uploads, file, past>>

-----------------------------------------------------------------------------
Members(h) == ToSet(chunk[h])
Over(h) == req' = [req EXCEPT ![h] = "over"]

\* fallbackOne, fallbackAll: the writes W go alone; the others of S are saved.
Fallback(S, W) ==
  /\ phase' = [w \in Writes |-> IF w \in W THEN "single"
                                ELSE IF w \in S THEN "ok" ELSE phase[w]]
  /\ uploads' = uploads \cup {Upload(w, "single", 0) : w \in W}

\* handleBatchWrite: all writes of the chunk start at once.
Receive(h) ==
  /\ req[h] = "sent"
  /\ req' = [req EXCEPT ![h] = "serving"]
  /\ uploads' = uploads \cup {Upload(w, "batch", 0) : w \in Members(h)}
  /\ UNCHANGED <<path, size, phase, tries, pending, chunk, result, file, past>>

\* Slip: an answer that is not ok is dropped.
RefuseForgets(h) ==
  /\ req[h] = "sent" /\ Over(h)
  /\ UNCHANGED <<path, size, phase, tries, pending, chunk, result, uploads, file, past>>

\* The token is refused, or its verification or the parsing fails.
Refuse(h) ==
  /\ req[h] = "sent" /\ Over(h)
  /\ Fallback(Members(h), Members(h))
  /\ UNCHANGED <<path, size, tries, pending, chunk, result, file, past>>

\* The connection breaks; the server goes on with what it has begun.
Break(h) ==
  /\ req[h] = "serving" /\ past.abandoned < MaxFaults /\ Over(h)
  /\ Fallback(Members(h), Members(h))
  /\ past' = [past EXCEPT !.abandoned = @ + 1]
  /\ UNCHANGED <<path, size, tries, pending, chunk, result, file>>

\* Slip: 207 is ok for every write.
AcceptedByStatus(w) == TRUE
Accepted(w) == result[w] = "ok"

\* 200 or 207, when every write of the chunk has its result.
ChunkAnswered(h) ==
  /\ req[h] = "serving" /\ Over(h)
  /\ \A w \in Members(h) : result[w] # "none"
  /\ Fallback(Members(h), {w \in Members(h) : ~ Accepted(w)})
  /\ UNCHANGED <<path, size, tries, pending, chunk, result, file, past>>

-----------------------------------------------------------------------------
Land(u) ==
  /\ u \in uploads /\ ~ u.landed
  /\ uploads' = (uploads \ {u}) \cup {[u EXCEPT !.landed = TRUE]}
  /\ file' = [file EXCEPT ![path[u.of]] = u.of]
  /\ past' = [past EXCEPT !.stored = @ \cup {u.of}]
  /\ UNCHANGED <<path, size, phase, tries, pending, chunk, req, result>>

\* forwardOne: an error, also of a request that was stored, is tried again.
BatchUploadEnds(u, how) ==
  /\ u.via = "batch"
  /\ how = "ok" => u.landed
  /\ how = "rejected" => ~ u.landed
  /\ LET again == how = "error" /\ u.try < RetryMaxAttempts IN
     /\ uploads' = (uploads \ {u}) \cup
                   (IF again THEN {Upload(u.of, "batch", u.try + 1)} ELSE {})
     /\ result' = IF again THEN result
                  ELSE [result EXCEPT ![u.of] = IF how = "ok" THEN "ok" ELSE "bad"]
  /\ UNCHANGED <<path, size, phase, tries, pending, chunk, req, file, past>>

Current(u) == u.via = "single" /\ phase[u.of] = "single" /\ u.try = tries[u.of]

\* fetchWriteWithRetry after a 5xx or a network error, U being the requests.
Retry(w, U) ==
  IF tries[w] < WriteMaxRetries
  THEN /\ tries' = [tries EXCEPT ![w] = @ + 1]
       /\ uploads' = U \cup {Upload(w, "single", tries[w] + 1)}
       /\ UNCHANGED phase
  ELSE /\ phase' = [phase EXCEPT ![w] = "failed"] /\ uploads' = U
       /\ UNCHANGED tries

SingleEnds(u, how) ==
  /\ Current(u)
  /\ how = "ok" => u.landed
  /\ how = "refused" => ~ u.landed
  /\ IF how = "error" THEN Retry(u.of, uploads \ {u})
     ELSE /\ phase' = [phase EXCEPT ![u.of] = how]
          /\ uploads' = uploads \ {u} /\ UNCHANGED tries
  /\ UNCHANGED <<path, size, pending, chunk, req, result, file, past>>

\* The page's connection breaks while the server passes the write on.
LoseSingle(u) ==
  /\ Current(u) /\ past.abandoned < MaxFaults
  /\ Retry(u.of, uploads)
  /\ past' = [past EXCEPT !.abandoned = @ + 1]
  /\ UNCHANGED <<path, size, pending, chunk, req, result, file>>

\* A request that nobody waits for ends.
Drop(u) ==
  /\ u.via = "single" /\ ~ Current(u)
  /\ uploads' = uploads \ {u}
  /\ UNCHANGED <<path, size, phase, tries, pending, chunk, req, result, file, past>>

Progress ==
  \/ Flush
  \/ \E h \in Writes : Receive(h) \/ Refuse(h) \/ ChunkAnswered(h)
  \/ \E u \in uploads :
       \/ Land(u) \/ Drop(u)
       \/ \E how \in {"ok", "rejected", "error"} : BatchUploadEnds(u, how)
       \/ \E how \in {"ok", "refused", "error"} : SingleEnds(u, how)

Next ==
  \/ Progress
  \/ \E w \in Writes : Enqueue(w)
  \/ \E h \in Writes : Break(h)
  \/ \E u \in uploads : LoseSingle(u)

\* The timer fires, requests arrive, and the upstream answers or fails.
Spec == Init /\ [][Next]_vars /\ WF_vars(Progress)

-----------------------------------------------------------------------------
\* Every variable has its type; a chunk of several writes keeps to the limit,
\* and no write is in two chunks, nor in a chunk and in the buffer.
TypeOK ==
  /\ phase \in [Writes -> {"none", "waiting", "batch", "single"} \cup Settled]
  /\ tries \in [Writes -> 0 .. WriteMaxRetries]
  /\ ToSet(pending) = {w \in Writes : phase[w] = "waiting"}
  /\ \A h \in Writes : /\ req[h] \in {"none", "sent", "serving", "over"}
                       /\ Len(chunk[h]) > 1 => Bytes(chunk[h]) <= ChunkMaxBytes
  /\ \A h, g \in Writes : Members(h) \cap Members(g) # {} => h = g
  /\ \A u \in uploads : u.try \in 0 .. IF u.via = "batch" THEN RetryMaxAttempts
                                       ELSE WriteMaxRetries

\* A write reported as saved was stored (sendChunk, handleBatchWrite), also when
\* others of its chunk failed.
SavedWasStored == \A w \in Writes : phase[w] = "ok" => w \in past.stored

\* No write is forgotten on its way: a write of a batch is in an open request,
\* which has its result or an upload that will bring it, and a write that goes
\* alone has a request that the page waits for, whatever failed or broke.
NobodyIsForgotten ==
  \A w \in Writes :
    /\ phase[w] = "batch" =>
         \E h \in Writes :
           /\ w \in Members(h)
           /\ \/ req[h] = "sent"
              \/ /\ req[h] = "serving"
                 /\ result[w] # "none" \/ \E u \in uploads : u.of = w /\ u.via = "batch"
    /\ phase[w] = "single" => \E u \in uploads : u.of = w /\ Current(u)

\* And it is what the file holds, unless another write of the file was under way
\* or began since, or a request was given up that was being served.
SavedIsStored ==
  /\ SavedWasStored
  /\ \A w \in past.alone : phase[w] = "ok" /\ past.abandoned = 0
       /\ (\A v \in w + 1 .. NumWrites : path[v] = path[w] => phase[v] = "none")
       => file[path[w]] = w

\* Every write of RisuAI is answered (batchWriteBuffer.ts:143: a write whose
\* batch fails is written alone).
EveryWriteIsAnswered ==
  \A w \in Writes : phase[w] = "waiting" ~> phase[w] \in Settled

\* Of two writes of a file that were both saved, it holds the later one.  Not
\* so: forwardOne starts all writes of a chunk at once, chunks run beside each
\* other, and a write that goes alone comes after all of them.
LastWriteWins ==
  (\A w \in Writes : phase[w] = "ok") /\ uploads = {} =>
    \A w \in Writes :
      (\A v \in w + 1 .. NumWrites : path[v] # path[w]) => file[path[w]] = w
=============================================================================
