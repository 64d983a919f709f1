-------------------------- MODULE LlmProxyProofs ---------------------------
(***************************************************************************)
(* Proofs about LlmProxy, for any number of calls, readers and chunks.     *)
(* Everything rests on what a response that follows an answer holds while  *)
(* it is open (Followed): the sender and the joiners all the chunks of the *)
(* entry, a reader its text; and on which calls still have an entry that   *)
(* can change (Entry).                                                     *)
(***************************************************************************)
EXTENDS LlmProxy, SequenceTheorems, TLAPS

Phases == {"none", "reading", "sent", "sse", "plain", "over", "cut"}
States == {"idle", "open", "ended", "gone", "left"}
Size == 0 .. MaxChunks
Written == {Chunks(n) : n \in Size}
Answered == {{id} : id \in Calls} \cup {{}}
Response ==
  [state : States, head : {"none", "own", "blank"}, from : Answered,
   got : Written, text : Size,
   last : {"nothing", "done", "error", "403", "502", "cancelled"}]

Types ==
  /\ buffer \in [Calls -> Entries]
  /\ \A c \in Calls : buffer[c].text <= buffer[c].raw
  /\ res \in [Responses -> Response]
  /\ hash \in [Calls -> Hashes]
  /\ call \in [Calls -> [phase : Phases, live : BOOLEAN, n : Size]]
  /\ active \in [Calls -> [on : BOOLEAN, raw : Size, text : Size, away : BOOLEAN]]
  /\ pending \subseteq Calls /\ aborted \subseteq Calls /\ monitor \subseteq Calls

Has(r) == Len(res[r].got)
IsOpen(r) == res[r].state = "open"

-----------------------------------------------------------------------------
\* A call has an entry from its answer on, and a stream until it ends.
Entry ==
  \A c \in Calls :
    /\ call[c].phase \in {"none", "reading", "sent", "plain", "cut"} =>
         buffer[c].status = "none"
    /\ Streaming(c) <=> call[c].phase = "sse" /\ call[c].live
    /\ Streaming(c) => ~ buffer[c].plain

\* What is shown to the other pages is what the buffer holds, unless the
\* buffer gave the stream up.
Shown ==
  \A c \in Calls : active[c].on =>
    /\ call[c].phase = "sse"
    /\ active[c].away <=> Gone(c)
    /\ \/ buffer[c].status = "failed"
       \/ /\ Streaming(c)
          /\ active[c].raw = buffer[c].raw
          /\ active[c].text = buffer[c].text

\* Before its answer a call's response is empty, and not closed as long as
\* the request to the upstream lives; from then on it holds that answer.
Waiting ==
  \A c \in Calls :
    /\ call[c].phase \in {"none", "reading", "sent"} =>
         res[c].from = {} /\ Has(c) = 0 /\ call[c].n = 0
    /\ call[c].phase = "none" => res[c].state = "idle"
    /\ call[c].phase \in {"reading", "sent"} => res[c].state \in {"open", "gone"}
    /\ call[c].phase = "sent" /\ call[c].live => ~ Gone(c)
    /\ call[c].phase \in {"sse", "plain"} /\ res[c].state = "open" => res[c].from = {c}

\* The registries, without what Entry and Shown say.
Registered ==
  /\ monitor = {c \in Calls : call[c].phase \in {"sent", "sse", "plain", "cut"}}
  /\ \A c \in Calls :
       /\ c \in pending \cup aborted => call[c].phase = "sent"
       /\ c \in aborted => c \notin pending /\ ~ call[c].live

\* The subscribers of an entry follow it; those of its text leave with it.
Subscribed ==
  \A id \in Calls :
    /\ \A r \in buffer[id].subs : Streaming(id) /\ IsOpen(r) /\ Carries(r, id)
    /\ \A r \in buffer[id].rawSubs : call[r].phase = "over" /\ Carries(r, id)

\* The sender's response.
SenderFollows(id) ==
  /\ call[id].phase \in {"sse", "plain", "over", "cut"}
  /\ IsOpen(id) => call[id].phase \in {"sse", "plain"}
  /\ IsOpen(id) /\ call[id].phase = "plain" => Has(id) = call[id].n
  /\ IsOpen(id) /\ (Streaming(id) \/ IsComplete(id)) => Has(id) = buffer[id].raw

\* A joiner's response, or a replay.
JoinerFollows(r, id) ==
  /\ call[r].phase = "over"
  /\ hash[r] = hash[id]
  /\ IsOpen(r) => Streaming(id) /\ r \in buffer[id].rawSubs /\ Has(r) = buffer[id].raw

\* The response to a page that reads the text.
ReaderFollows(r, id) ==
  IsOpen(r) => Streaming(id) /\ r \in buffer[id].subs /\ res[r].text = buffer[id].text

Follows(r, id) ==
  /\ r = id => SenderFollows(id)
  /\ r # id => call[id].phase \in {"sse", "over"}
  /\ r # id /\ r \in Calls => JoinerFollows(r, id)
  /\ r \in Readers => ReaderFollows(r, id)
  /\ res[r].state = "ended" =>
       /\ ~ Streaming(id)
       /\ r = id => call[id].phase = "over"
       /\ res[r].last = "done" /\ IsComplete(id) =>
            \/ Has(r) = buffer[id].raw
            \/ r \in Readers /\ res[r].text = buffer[id].text

Followed == \A r \in Responses, id \in Calls : Carries(r, id) => Follows(r, id)

IInv == /\ Types /\ Entry /\ Shown /\ Waiting /\ Registered /\ Subscribed
        /\ Followed /\ OpenIsOwned

-----------------------------------------------------------------------------
(* Operators                                                                *)

LEMMA ChunksSeq ==
  ASSUME NEW n \in Nat
  PROVE  /\ Chunks(n) \in Seq(Nat)
         /\ Len(Chunks(n)) = n
         /\ Append(Chunks(n), n + 1) = Chunks(n + 1)
<1>1. Chunks(n) \in [1 .. n -> Nat] /\ Chunks(n + 1) \in [1 .. n + 1 -> Nat]
  BY DEF Chunks
<1>2. Chunks(n) \in Seq(Nat) /\ Chunks(n + 1) \in Seq(Nat)
  BY <1>1, SeqDef
<1>3. Len(Chunks(n)) = n /\ Len(Chunks(n + 1)) = n + 1
  BY <1>1, <1>2, LenProperties
<1>4. Append(Chunks(n), n + 1) = Chunks(n + 1)
  <2> DEFINE s == Append(Chunks(n), n + 1)
  <2>1. /\ s \in Seq(Nat) /\ Len(s) = n + 1
        /\ \A k \in 1 .. n : s[k] = Chunks(n)[k]
        /\ s[n + 1] = n + 1
    BY <1>2, <1>3, AppendProperties
  <2>2. \A k \in 1 .. n + 1 : s[k] = Chunks(n + 1)[k]
    BY <2>1 DEF Chunks
  <2> HIDE DEF s
  <2> QED
    BY <1>2, <1>3, <2>1, <2>2, SeqEqual
<1> QED
  BY <1>2, <1>3, <1>4

\* What a response holds is the beginning of an answer.
LEMMA Beginnings ==
  ASSUME NEW g \in Written
  PROVE  Len(g) \in Size /\ g = Chunks(Len(g))
BY BufferAssumption, ChunksSeq DEF Written, Size

LEMMA Begun == ASSUME NEW n \in Size PROVE Chunks(n) \in Written /\ Len(Chunks(n)) = n
BY BufferAssumption, ChunksSeq DEF Written, Size

\* The next chunk continues it.
LEMMA NextChunk ==
  ASSUME NEW g \in Written, Len(g) < MaxChunks
  PROVE  Append(g, Len(g) + 1) \in Written /\ Len(Append(g, Len(g) + 1)) = Len(g) + 1
<1> DEFINE n == Len(g)
<1>1. n \in Nat /\ n + 1 \in Size /\ g = Chunks(n)
  BY Beginnings, BufferAssumption DEF Size
<1> HIDE DEF n
<1>2. Append(g, n + 1) = Chunks(n + 1)
  BY <1>1, ChunksSeq
<1> QED
  BY <1>1, <1>2, Begun DEF n

LEMMA NothingWritten == <<>> \in Written /\ Len(<<>>) = 0
<1>1. Chunks(0) = <<>>
  BY ChunksSeq, EmptySeq
<1> QED
  BY <1>1, Begun, BufferAssumption DEF Size

LEMMA InitIInv == Init => IInv
<1> SUFFICES ASSUME Init PROVE IInv
  OBVIOUS
<1> USE DEF Init
<1>0. <<>> \in Written /\ Len(<<>>) = 0
  BY NothingWritten
<1>1. Types
  BY <1>0, BufferAssumption DEF Types, Entries, NoEntry, Response, NoResponse, NoActive,
     Size, Phases, States, Answered
<1>2. Entry /\ Shown /\ Registered
  BY DEF Entry, Shown, Registered, Streaming, NoEntry, NoActive
<1>3. Waiting
  BY <1>0 DEF Waiting, NoResponse, Has, Gone, Responses
<1>4. Subscribed /\ OpenIsOwned
  BY DEF Subscribed, OpenIsOwned, NoEntry, NoResponse
<1>5. Followed
  BY DEF Followed, Carries, NoResponse
<1> QED
  BY <1>1, <1>2, <1>3, <1>4, <1>5 DEF IInv

\* What the writes do to one response.
Lasts == {"nothing", "done", "error", "403", "502", "cancelled"}

LEMMA EndWrites ==
  ASSUME NEW R \in [Responses -> Response], NEW S, NEW last \in Lasts
  PROVE  /\ End(R, S, last) \in [Responses -> Response]
         /\ \A r \in Responses :
              /\ End(R, S, last)[r].from = R[r].from
              /\ End(R, S, last)[r].got = R[r].got
              /\ End(R, S, last)[r].text = R[r].text
              /\ IF r \in S /\ R[r].state = "open"
                 THEN End(R, S, last)[r].state = "ended" /\ End(R, S, last)[r].last = last
                 ELSE End(R, S, last)[r] = R[r]
<1> DEFINE e(r) == [R[r] EXCEPT !.state = "ended", !.last = last]
<1>1. \A r \in Responses : /\ e(r) \in Response
                           /\ e(r).from = R[r].from /\ e(r).got = R[r].got
                           /\ e(r).text = R[r].text
                           /\ e(r).state = "ended" /\ e(r).last = last
  BY DEF Response, States, Lasts
<1>2. End(R, S, last) =
        [r \in Responses |-> IF r \in S /\ R[r].state = "open" THEN e(r) ELSE R[r]]
  BY DEF End, Writable
<1> HIDE DEF e
<1> QED
  BY <1>1, <1>2

LEMMA TextWrites ==
  ASSUME NEW R \in [Responses -> Response], NEW S, NEW t \in Size
  PROVE  /\ WriteText(R, S, t) \in [Responses -> Response]
         /\ \A r \in Responses :
              /\ WriteText(R, S, t)[r].from = R[r].from
              /\ WriteText(R, S, t)[r].got = R[r].got
              /\ WriteText(R, S, t)[r].state = R[r].state
              /\ WriteText(R, S, t)[r].last = R[r].last
              /\ IF r \in S /\ R[r].state = "open"
                 THEN WriteText(R, S, t)[r].text = t
                 ELSE WriteText(R, S, t)[r] = R[r]
<1> DEFINE e(r) == [R[r] EXCEPT !.text = t]
<1>1. \A r \in Responses : /\ e(r) \in Response
                           /\ e(r).from = R[r].from /\ e(r).got = R[r].got
                           /\ e(r).state = R[r].state /\ e(r).last = R[r].last
                           /\ e(r).text = t
  BY DEF Response
<1>2. WriteText(R, S, t) =
        [r \in Responses |-> IF r \in S /\ R[r].state = "open" THEN e(r) ELSE R[r]]
  BY DEF WriteText, Writable
<1> HIDE DEF e
<1> QED
  BY <1>1, <1>2

\* The next chunk to those that have all the chunks before it.
LEMMA ChunkWrites ==
  ASSUME NEW R \in [Responses -> Response], NEW S, NEW n \in Size, n < MaxChunks,
         \A r \in Responses : r \in S /\ R[r].state = "open" => Len(R[r].got) = n
  PROVE  /\ WriteChunk(R, S, n + 1) \in [Responses -> Response]
         /\ \A r \in Responses :
              /\ WriteChunk(R, S, n + 1)[r].from = R[r].from
              /\ WriteChunk(R, S, n + 1)[r].text = R[r].text
              /\ WriteChunk(R, S, n + 1)[r].state = R[r].state
              /\ WriteChunk(R, S, n + 1)[r].last = R[r].last
              /\ IF r \in S /\ R[r].state = "open"
                 THEN Len(WriteChunk(R, S, n + 1)[r].got) = n + 1
                 ELSE WriteChunk(R, S, n + 1)[r] = R[r]
<1> DEFINE e(r) == [R[r] EXCEPT !.got = Append(@, n + 1)]
<1>1. ASSUME NEW r \in Responses, r \in S, R[r].state = "open"
      PROVE  /\ e(r) \in Response
             /\ e(r).from = R[r].from /\ e(r).text = R[r].text
             /\ e(r).state = R[r].state /\ e(r).last = R[r].last
             /\ Len(e(r).got) = n + 1
  <2>1. R[r].got \in Written /\ Len(R[r].got) = n
    BY <1>1 DEF Response
  <2> DEFINE g == Append(R[r].got, n + 1)
  <2>2. g \in Written /\ Len(g) = n + 1
    BY <2>1, NextChunk
  <2>3. e(r) = [R[r] EXCEPT !.got = g]
    OBVIOUS
  <2> HIDE DEF g, e
  <2> QED
    BY <2>2, <2>3 DEF Response
<1>2. WriteChunk(R, S, n + 1) =
        [r \in Responses |-> IF r \in S /\ R[r].state = "open" THEN e(r) ELSE R[r]]
  BY DEF WriteChunk, Writable
<1> HIDE DEF e
<1> QED
  BY <1>1, <1>2

LEMMA HeadWrites ==
  ASSUME NEW R \in [Responses -> Response], NEW c \in Responses
  PROVE  /\ WriteHead(R, c) \in [Responses -> Response]
         /\ \A r \in Responses \ {c} : WriteHead(R, c)[r] = R[r]
         /\ WriteHead(R, c)[c].from = R[c].from
         /\ WriteHead(R, c)[c].got = R[c].got
         /\ WriteHead(R, c)[c].state = R[c].state
<1>1. [R[c] EXCEPT !.head = "own"] \in Response
  BY DEF Response
<1> QED
  BY <1>1 DEF WriteHead, Response

-----------------------------------------------------------------------------
(* The requests                                                             *)

CallTypes == [phase : Phases, live : BOOLEAN, n : Size]

LEMMA TypesOf ==
  ASSUME Types
  PROVE  /\ res \in [Responses -> Response] /\ call \in [Calls -> CallTypes]
         /\ \A r \in Responses : res[r] \in Response /\ Has(r) \in Size
         /\ \A c \in Calls :
              /\ c \in Responses /\ buffer[c] \in Entries
              /\ buffer[c].subs \subseteq Readers /\ buffer[c].rawSubs \subseteq Calls
         /\ \A r \in Readers : r \in Responses /\ r \notin Calls
         /\ Size \subseteq Int
<1>1. res \in [Responses -> Response] /\ call \in [Calls -> CallTypes]
  BY DEF Types, CallTypes
<1>2. \A r \in Responses : Has(r) \in Size
  BY <1>1, Beginnings DEF Response, Has
<1>3. \A c \in Calls : buffer[c] \in Entries
  BY DEF Types
<1>4. \A c \in Calls : buffer[c].subs \subseteq Readers /\ buffer[c].rawSubs \subseteq Calls
  BY <1>3 DEF Entries
<1>5. \A r \in Readers : r \in Responses /\ r \notin Calls
  BY BufferAssumption DEF Responses
<1>6. Calls \subseteq Responses /\ Size \subseteq Int
  BY BufferAssumption DEF Responses, Size
<1> QED
  BY <1>1, <1>2, <1>3, <1>4, <1>5, <1>6

LEMMA ResState ==
  ASSUME NEW R \in [Responses -> Response], NEW c \in Responses, NEW s \in States
  PROVE  [R EXCEPT ![c].state = s] \in [Responses -> Response]
<1>1. [R[c] EXCEPT !.state = s] \in Response
  BY DEF Response
<1> QED
  BY <1>1

LEMMA CallPhase ==
  ASSUME Types, NEW c \in Calls, NEW p \in Phases
  PROVE  Goto(c, p) \in [Calls -> CallTypes]
<1>1. [call[c] EXCEPT !.phase = p] \in CallTypes
  BY DEF Types, CallTypes
<1> QED
  BY <1>1 DEF Goto, Types, CallTypes

\* What a call does before its answer touches no entry and no follower.
LEMMA WaitingStep ==
  ASSUME IInv, UNCHANGED <<buffer, hash, active>>, NEW c \in Calls,
         \A d \in Calls \ {c} : call'[d] = call[d],
         \A r \in Responses \ {c} : res'[r] = res[r],
         call[c].phase \in {"none", "reading", "sent"},
         call'[c].phase \in {"reading", "sent", "over"},
         call'[c].phase # "over" =>
           call'[c].n = call[c].n /\ res'[c].state \in {"open", "gone"},
         res'[c].from = {}, Len(res'[c].got) = 0,
         call'[c].phase = "sent" /\ call'[c].live => res'[c].state # "gone",
         res'[c].state = "open" => call'[c].phase # "over"
  PROVE  /\ Entry' /\ Shown' /\ Waiting' /\ Subscribed' /\ Followed' /\ OpenIsOwned'
<1> USE DEF IInv
<1>1. c \in Responses
  BY TypesOf
<1>2. Entry'
  BY DEF Entry, Streaming
<1>3. Shown'
  BY <1>1 DEF Shown, Streaming, Gone, Responses
<1>4. Waiting'
  BY <1>1 DEF Waiting, Gone, Has, Responses
<1>5. Subscribed'
  <2>1. ASSUME NEW id \in Calls, NEW r \in buffer[id].subs
        PROVE  Streaming(id)' /\ IsOpen(r)' /\ Carries(r, id)'
    BY <1>1, TypesOf DEF Subscribed, Streaming, IsOpen, Carries
  <2>2. ASSUME NEW id \in Calls, NEW r \in buffer[id].rawSubs
        PROVE  call'[r].phase = "over" /\ Carries(r, id)'
    BY <1>1, TypesOf DEF Subscribed, Carries, Waiting
  <2> QED
    BY <2>1, <2>2 DEF Subscribed
<1>6. Followed'
  BY <1>1 DEF Followed, Follows, Carries, Waiting, SenderFollows, JoinerFollows,
     ReaderFollows, IsOpen, Has, Streaming, IsComplete, Responses
<1>7. OpenIsOwned'
  BY <1>1 DEF OpenIsOwned, Streaming, Responses
<1> QED
  BY <1>2, <1>3, <1>4, <1>5, <1>6, <1>7

LEMMA PostIInv == ASSUME IInv, NEW c \in Calls, Post(c) PROVE IInv'
<1> USE DEF IInv, Post, registries
<1>1. /\ c \in Responses /\ call[c] \in CallTypes /\ res[c] \in Response
      /\ call \in [Calls -> CallTypes] /\ res \in [Responses -> Response]
      /\ call' = [call EXCEPT ![c].phase = "reading"]
      /\ res' = [res EXCEPT ![c].state = "open"]
      /\ UNCHANGED <<buffer, hash, active, pending, aborted, monitor>>
  BY TypesOf DEF Goto
<1>2. /\ call[c].phase = "none" /\ call'[c].phase = "reading" /\ call'[c].n = call[c].n
      /\ \A d \in Calls \ {c} : call'[d] = call[d]
      /\ \A r \in Responses \ {c} : res'[r] = res[r]
      /\ res'[c].from = res[c].from /\ res'[c].got = res[c].got /\ res'[c].state = "open"
  BY <1>1 DEF Response, CallTypes
<1>6. res'[c].from = {} /\ Len(res'[c].got) = 0
  BY <1>2 DEF Waiting, Has
<1>3. Types'
  <2>1. res \in [Responses -> Response] /\ "open" \in States
    BY DEF Types, States
  <2>2. res' \in [Responses -> Response]
    BY <1>1, <2>1, ResState
  <2>3. call' \in [Calls -> CallTypes]
    BY CallPhase DEF Phases
  <2> QED
    BY <1>1, <2>2, <2>3 DEF Types, CallTypes
<1>4. Registered'
  BY <1>1, <1>2 DEF Registered
<1> QED
  BY <1>1, <1>2, <1>3, <1>4, <1>6, WaitingStep

LEMMA Refused ==
  ASSUME Types, NEW c \in Calls, NEW last \in Lasts
  PROVE  /\ Refuse(c, last) \in [Responses -> Response]
         /\ \A r \in Responses \ {c} : Refuse(c, last)[r] = res[r]
         /\ Refuse(c, last)[c].from = res[c].from
         /\ Refuse(c, last)[c].got = res[c].got
         /\ Refuse(c, last)[c].state # "open"
<1>1. c \in Responses /\ res \in [Responses -> Response]
  BY TypesOf
<1> QED
  BY SMTT(30), <1>1, HeadWrites, EndWrites DEF Refuse

LEMMA KeepAliveIInv == ASSUME IInv, NEW c \in Calls, KeepAlive(c) PROVE IInv'
<1> USE DEF IInv, KeepAlive, registries
<1>1. /\ c \in Responses /\ res \in [Responses -> Response]
      /\ UNCHANGED <<buffer, hash, call, active, pending, aborted, monitor>>
  BY TypesOf
<1> DEFINE p == [res[c] EXCEPT !.head = "blank"]
<1>2. p \in Response /\ p.from = res[c].from /\ p.got = res[c].got /\ p.state = res[c].state
  BY <1>1 DEF Response
<1>3. res' = [res EXCEPT ![c] = p]
  BY <1>1
<1> HIDE DEF p
<1>4. Types'
  <2>1. res' \in [Responses -> Response]
    BY <1>1, <1>2, <1>3
  <2> QED
    BY <1>1, <2>1 DEF Types
<1>5. Registered'
  BY <1>1 DEF Registered
<1>6. /\ res'[c].from = {} /\ Len(res'[c].got) = 0 /\ res'[c].state = "open"
      /\ \A r \in Responses \ {c} : res'[r] = res[r]
  BY <1>1, <1>2, <1>3 DEF Waiting, Has
<1> QED
  BY <1>1, <1>4, <1>5, <1>6, WaitingStep

LEMMA OverTyped ==
  ASSUME Types, NEW c \in Calls
  PROVE  /\ Over(c) \in [Calls -> CallTypes]
         /\ Over(c)[c].phase = "over" /\ ~ Over(c)[c].live
         /\ \A d \in Calls \ {c} : Over(c)[d] = call[d]
<1> DEFINE p == [phase |-> "over", live |-> FALSE, n |-> 0]
<1>1. p \in CallTypes /\ p.phase = "over" /\ ~ p.live
  BY BufferAssumption DEF CallTypes, Phases, Size
<1>2. Over(c) = [call EXCEPT ![c] = p] /\ call \in [Calls -> CallTypes]
  BY TypesOf DEF Over
<1> HIDE DEF p
<1> QED
  BY <1>1, <1>2

LEMMA OnErrorIInv == ASSUME IInv, NEW c \in Calls, OnError(c) PROVE IInv'
<1> USE DEF IInv, OnError
<1> DEFINE last == IF c \in aborted THEN "cancelled" ELSE "502"
<1>1. /\ last \in Lasts /\ call' = Over(c) /\ res' = Refuse(c, last)
      /\ pending' = pending \ {c} /\ aborted' = aborted \ {c} /\ monitor' = monitor \ {c}
      /\ UNCHANGED <<buffer, hash, active>>
  BY DEF Lasts
<1> HIDE DEF last
<1>2. /\ call' \in [Calls -> CallTypes] /\ call'[c].phase = "over" /\ ~ call'[c].live
      /\ \A d \in Calls \ {c} : call'[d] = call[d]
  BY <1>1, OverTyped
<1>3. /\ res' \in [Responses -> Response]
      /\ \A r \in Responses \ {c} : res'[r] = res[r]
      /\ res'[c].from = {} /\ Len(res'[c].got) = 0 /\ res'[c].state # "open"
  BY <1>1, Refused DEF Waiting, Has
<1>4. Types'
  BY <1>1, <1>2, <1>3 DEF Types, CallTypes
<1>5. Registered'
  BY <1>1, <1>2 DEF Registered
<1> QED
  BY <1>1, <1>2, <1>3, <1>4, <1>5, WaitingStep

LEMMA AbortPendingIInv == ASSUME IInv, NEW c \in Calls, AbortPending(c) PROVE IInv'
<1> USE DEF IInv, AbortPending
<1>1. /\ call' = [call EXCEPT ![c].live = FALSE] /\ call \in [Calls -> CallTypes]
      /\ pending' = pending \ {c} /\ aborted' = aborted \cup {c}
      /\ UNCHANGED <<buffer, res, hash, active, monitor>>
      /\ call[c].phase = "sent"
  BY TypesOf DEF Registered
<1>2. /\ call' \in [Calls -> CallTypes] /\ call'[c].phase = call[c].phase /\ ~ call'[c].live
      /\ call'[c].n = call[c].n /\ \A d \in Calls \ {c} : call'[d] = call[d]
  BY <1>1 DEF CallTypes
<1>3. /\ res'[c].from = {} /\ Len(res'[c].got) = 0
      /\ res'[c].state \in {"open", "gone"}
  BY <1>1 DEF Waiting, Has
<1>4. Types'
  BY <1>1, <1>2 DEF Types, CallTypes
<1>5. Registered'
  BY <1>1, <1>2 DEF Registered
<1> QED
  BY <1>1, <1>2, <1>3, <1>4, <1>5, WaitingStep

\* The answer from the buffer, live or whole.
LEMMA WholeTyped ==
  ASSUME Types, NEW id \in Calls
  PROVE  /\ Whole(id) \in Response /\ SubscribeRawAnswer(id) \in Response
         /\ Whole(id).from = {id} /\ SubscribeRawAnswer(id).from = {id}
         /\ Len(Whole(id).got) = buffer[id].raw
         /\ Len(SubscribeRawAnswer(id).got) = buffer[id].raw
         /\ Whole(id).state = "ended"
         /\ Streaming(id) => SubscribeRawAnswer(id).state = "open"
<1>1. buffer[id].raw \in Size
  BY TypesOf DEF Entries, Size
<1>2. Chunks(buffer[id].raw) \in Written /\ Len(Chunks(buffer[id].raw)) = buffer[id].raw
  BY <1>1, Begun
<1>3. 0 \in Size
  BY BufferAssumption DEF Size
<1>4. {id} \in Answered
  BY DEF Answered
<1>5. /\ Whole(id) \in Response /\ Whole(id).from = {id}
      /\ Len(Whole(id).got) = buffer[id].raw /\ Whole(id).state = "ended"
  BY <1>2, <1>3, <1>4 DEF Whole, NoResponse, Response, States
<1>6. /\ [Whole(id) EXCEPT !.state = "open", !.last = "nothing"] \in Response
      /\ [Whole(id) EXCEPT !.state = "open", !.last = "nothing"].from = {id}
      /\ [Whole(id) EXCEPT !.state = "open", !.last = "nothing"].got = Whole(id).got
      /\ [Whole(id) EXCEPT !.state = "open", !.last = "nothing"].state = "open"
  BY <1>5 DEF Response, States
<1> QED
  BY <1>5, <1>6 DEF SubscribeRawAnswer

LEMMA JoinIInv ==
  ASSUME IInv, NEW c \in Calls, call[c].phase = "reading",
         NEW id \in FindByHash(hash, hash[c]), Streaming(id), AnswerFromBuffer(c, id)
  PROVE  IInv'
<1> USE DEF IInv, AnswerFromBuffer, registries
<1>1. /\ id \in Calls /\ hash[id] = hash[c] /\ id # c /\ call[id].phase = "sse"
      /\ c \in Responses /\ id \in Responses /\ res \in [Responses -> Response]
  BY TypesOf DEF FindByHash, Entry
<1> DEFINE p == SubscribeRawAnswer(id)
           q == [buffer[id] EXCEPT !.rawSubs = @ \cup {c}]
<1>2. /\ call' = Over(c) /\ res' = [res EXCEPT ![c] = p]
      /\ buffer' = [buffer EXCEPT ![id] = q]
      /\ UNCHANGED <<hash, active, pending, aborted, monitor>>
  BY <1>1 DEF SubscribeRawTo
<1>3. p \in Response /\ p.from = {id} /\ Len(p.got) = buffer[id].raw /\ p.state = "open"
  BY <1>1, WholeTyped
<1>4. /\ q \in Entries /\ q.status = buffer[id].status /\ q.raw = buffer[id].raw
      /\ q.plain = buffer[id].plain /\ q.text = buffer[id].text
      /\ q.subs = buffer[id].subs /\ q.rawSubs = buffer[id].rawSubs \cup {c}
  BY <1>1, TypesOf DEF Entries
<1> HIDE DEF p, q
<1>5. /\ call' \in [Calls -> CallTypes] /\ call'[c].phase = "over" /\ ~ call'[c].live
      /\ \A d \in Calls \ {c} : call'[d] = call[d]
  BY <1>2, OverTyped
<1>6. /\ res'[c] = p /\ \A r \in Responses \ {c} : res'[r] = res[r]
      /\ buffer'[id] = q /\ \A d \in Calls \ {id} : buffer'[d] = buffer[d]
  BY <1>1, <1>2 DEF Types
<1>7. Types'
  <2>1. res' \in [Responses -> Response]
    BY <1>1, <1>2, <1>3
  <2>2. buffer' \in [Calls -> Entries] /\ \A d \in Calls : buffer'[d].text <= buffer'[d].raw
    BY <1>1, <1>2, <1>4, <1>6 DEF Types
  <2> QED
    BY <1>2, <1>5, <2>1, <2>2 DEF Types, CallTypes
<1>8. Entry'
  BY <1>1, <1>4, <1>5, <1>6 DEF Entry, Streaming
<1>9. Shown'
  BY <1>1, <1>2, <1>4, <1>5, <1>6 DEF Shown, Streaming, Gone, Responses
<1>10. Waiting'
  BY <1>1, <1>5, <1>6 DEF Waiting, Gone, Has, Responses
<1>11. Registered'
  BY <1>2, <1>5 DEF Registered
<1>12. Subscribed'
  <2>1. ASSUME NEW d \in Calls, NEW r \in buffer'[d].subs
        PROVE  Streaming(d)' /\ IsOpen(r)' /\ Carries(r, d)'
    BY <1>1, <1>4, <1>6, TypesOf DEF Subscribed, Streaming, IsOpen, Carries
  <2>2. ASSUME NEW d \in Calls, NEW r \in buffer'[d].rawSubs
        PROVE  call'[r].phase = "over" /\ Carries(r, d)'
    BY SMTT(30), <1>1, <1>3, <1>4, <1>5, <1>6, TypesOf DEF Subscribed, Carries, Waiting
  <2> QED
    BY <2>1, <2>2 DEF Subscribed
<1>13. Followed'
  <2>1. ASSUME NEW d \in Calls, Carries(c, d)' PROVE d = id
    BY <1>3, <1>6, <2>1 DEF Carries
  <2>2. c \notin Readers
    BY TypesOf
  <2>3. Follows(c, id)'
    BY <1>1, <1>2, <1>3, <1>4, <1>5, <1>6, <2>2
    DEF Follows, JoinerFollows, Streaming, IsOpen, Has
  <2>4. ASSUME NEW r \in Responses \ {c}, NEW d \in Calls, Carries(r, d)'
        PROVE  Follows(r, d)'
    <3>1. Follows(r, d) /\ res'[r] = res[r] /\ d # c /\ call'[d] = call[d]
      BY <1>5, <1>6, <2>4 DEF Followed, Follows, Carries
    <3>2. r = d => SenderFollows(d)'
      BY <1>1, <1>2, <1>4, <1>5, <1>6, <3>1
      DEF Follows, SenderFollows, Streaming, IsOpen, IsComplete, Has
    <3>3. r # d /\ r \in Calls => JoinerFollows(r, d)'
      BY <1>1, <1>2, <1>4, <1>5, <1>6, <3>1
      DEF Follows, JoinerFollows, Streaming, IsOpen, Has
    <3>4. r \in Readers => ReaderFollows(r, d)'
      BY <1>1, <1>2, <1>4, <1>5, <1>6, <3>1
      DEF Follows, ReaderFollows, Streaming, IsOpen
    <3> QED
      BY <1>1, <1>2, <1>4, <1>5, <1>6, <3>1, <3>2, <3>3, <3>4
      DEF Follows, Streaming, IsComplete, Has
  <2> QED
    BY <2>1, <2>3, <2>4 DEF Followed
<1>14. OpenIsOwned'
  BY <1>1, <1>3, <1>4, <1>5, <1>6 DEF OpenIsOwned, Streaming, Responses
<1> QED
  BY <1>7, <1>8, <1>9, <1>10, <1>11, <1>12, <1>13, <1>14

\* An entry goes that nobody will read: what followed it keeps what it has.
LEMMA DroppedFollows ==
  ASSUME IInv, NEW id \in Calls, Finished(id), UNCHANGED hash,
         NEW r \in Responses, NEW d \in Calls, Carries(r, d), res'[r] = res[r],
         call'[d] = call[d], r \in Calls => call'[r] = call[r],
         buffer'[id] = NoEntry, \A e \in Calls \ {id} : buffer'[e] = buffer[e]
  PROVE  Follows(r, d)'
<1> USE DEF IInv, NoEntry
<1>1. Follows(r, d)
  BY DEF Followed
<1>2. ~ Streaming(id) /\ ~ Streaming(id)' /\ ~ IsComplete(id)'
  BY DEF Streaming, Finished, IsComplete
<1>3. r = d => SenderFollows(d)'
  BY <1>1, <1>2 DEF Follows, SenderFollows, Streaming, IsOpen, IsComplete, Has
<1>4. r # d /\ r \in Calls => JoinerFollows(r, d)'
  BY <1>1, <1>2 DEF Follows, JoinerFollows, Streaming, IsOpen, Has
<1>5. r \in Readers => ReaderFollows(r, d)'
  BY <1>1, <1>2 DEF Follows, ReaderFollows, Streaming, IsOpen
<1> QED
  BY <1>1, <1>2, <1>3, <1>4, <1>5 DEF Follows, Streaming, IsComplete, Has

LEMMA NoEntryTyped == NoEntry \in Entries /\ NoEntry.text <= NoEntry.raw
BY BufferAssumption DEF NoEntry, Entries

LEMMA ReplayIInv ==
  ASSUME IInv, NEW c \in Calls, call[c].phase = "reading",
         NEW id \in FindByHash(hash, hash[c]), ~ Streaming(id), CanReplay(id),
         AnswerFromBuffer(c, id)
  PROVE  IInv'
<1> USE DEF IInv, AnswerFromBuffer, registries
<1>1. /\ id \in Calls /\ hash[id] = hash[c] /\ id # c /\ buffer[id].status = "completed"
      /\ c \in Responses /\ id \in Responses /\ res \in [Responses -> Response]
      /\ call[id].phase \in {"sse", "over"} /\ Finished(id)
  BY TypesOf DEF FindByHash, Entry, Streaming, Finished, CallTypes, Phases
<1> DEFINE p == Whole(id)
<1>2. /\ call' = Over(c) /\ res' = [res EXCEPT ![c] = p]
      /\ buffer' = [buffer EXCEPT ![id] = NoEntry]
      /\ UNCHANGED <<hash, active, pending, aborted, monitor>>
  OBVIOUS
<1>3. p \in Response /\ p.from = {id} /\ p.state = "ended"
  BY <1>1, WholeTyped
<1> HIDE DEF p
<1>4. /\ call' \in [Calls -> CallTypes] /\ call'[c].phase = "over" /\ ~ call'[c].live
      /\ \A d \in Calls \ {c} : call'[d] = call[d]
  BY <1>2, OverTyped
<1>5. /\ res'[c] = p /\ \A r \in Responses \ {c} : res'[r] = res[r]
      /\ buffer'[id] = NoEntry /\ \A d \in Calls \ {id} : buffer'[d] = buffer[d]
  BY <1>1, <1>2 DEF Types
<1>6. Types'
  <2>1. res' \in [Responses -> Response]
    BY <1>1, <1>2, <1>3
  <2>2. buffer' \in [Calls -> Entries] /\ \A d \in Calls : buffer'[d].text <= buffer'[d].raw
    BY <1>1, <1>2, <1>5, NoEntryTyped DEF Types
  <2> QED
    BY <1>2, <1>4, <2>1, <2>2 DEF Types, CallTypes
<1>7. Entry'
  BY <1>1, <1>4, <1>5 DEF Entry, Streaming, NoEntry
<1>8. Shown'
  BY <1>1, <1>2, <1>4, <1>5 DEF Shown, Streaming, Gone, Responses
<1>9. Waiting'
  BY <1>1, <1>4, <1>5 DEF Waiting, Gone, Has, Responses
<1>10. Registered'
  BY <1>2, <1>4 DEF Registered
<1>11. Subscribed'
  <2>1. ASSUME NEW d \in Calls, NEW r \in buffer'[d].subs
        PROVE  Streaming(d)' /\ IsOpen(r)' /\ Carries(r, d)'
    BY <1>1, <1>5, TypesOf DEF Subscribed, Streaming, IsOpen, Carries, NoEntry
  <2>2. ASSUME NEW d \in Calls, NEW r \in buffer'[d].rawSubs
        PROVE  call'[r].phase = "over" /\ Carries(r, d)'
    BY <1>1, <1>4, <1>5, TypesOf DEF Subscribed, Carries, Waiting, NoEntry
  <2> QED
    BY <2>1, <2>2 DEF Subscribed
<1>12. Followed'
  <2>1. ASSUME NEW d \in Calls, Carries(c, d)' PROVE d = id
    BY <1>3, <1>5, <2>1 DEF Carries
  <2>2. c \notin Readers
    BY TypesOf
  <2>3. Follows(c, id)'
    BY <1>1, <1>2, <1>3, <1>4, <1>5, <2>2
    DEF Follows, JoinerFollows, Streaming, IsComplete, IsOpen, NoEntry
  <2>4. ASSUME NEW r \in Responses \ {c}, NEW d \in Calls, Carries(r, d)'
        PROVE  Follows(r, d)'
    <3>1. Carries(r, d) /\ res'[r] = res[r] /\ d # c
      BY <1>5, <2>4 DEF Followed, Follows, Carries
    <3>2. call'[d] = call[d] /\ (r \in Calls => call'[r] = call[r])
      BY <1>4, <3>1
    <3> QED
      BY <1>1, <1>2, <1>5, <3>1, <3>2, DroppedFollows
  <2> QED
    BY <2>1, <2>3, <2>4 DEF Followed
<1>13. OpenIsOwned'
  BY <1>1, <1>3, <1>4, <1>5 DEF OpenIsOwned, Streaming, Responses
<1> QED
  BY <1>6, <1>7, <1>8, <1>9, <1>10, <1>11, <1>12, <1>13

LEMMA BufferExpiresIInv == ASSUME IInv, NEW c \in Calls, BufferExpires(c) PROVE IInv'
<1> USE DEF IInv, BufferExpires, Expire, registries
<1>1. /\ Finished(c) /\ call[c].phase # "sse" /\ ~ Streaming(c)
      /\ buffer' = [buffer EXCEPT ![c] = NoEntry]
      /\ UNCHANGED <<res, call, hash, active, pending, aborted, monitor>>
  BY DEF Finished, Streaming
<1>2. buffer'[c] = NoEntry /\ \A d \in Calls \ {c} : buffer'[d] = buffer[d]
  BY <1>1 DEF Types
<1>3. Types'
  BY <1>1, <1>2, NoEntryTyped DEF Types
<1>4. Entry'
  BY <1>1, <1>2 DEF Entry, Streaming, NoEntry
<1>5. Shown'
  BY <1>1, <1>2 DEF Shown, Streaming, Gone
<1>6. Waiting' /\ Registered'
  BY <1>1 DEF Waiting, Gone, Has, Registered
<1>7. Subscribed'
  <2>1. ASSUME NEW d \in Calls, NEW r \in buffer'[d].subs
        PROVE  Streaming(d)' /\ IsOpen(r)' /\ Carries(r, d)'
    BY <1>1, <1>2 DEF Subscribed, Streaming, IsOpen, Carries, NoEntry
  <2>2. ASSUME NEW d \in Calls, NEW r \in buffer'[d].rawSubs
        PROVE  call'[r].phase = "over" /\ Carries(r, d)'
    BY <1>1, <1>2 DEF Subscribed, Carries, NoEntry
  <2> QED
    BY <2>1, <2>2 DEF Subscribed
<1>8. Followed'
  <2>1. ASSUME NEW r \in Responses, NEW d \in Calls, Carries(r, d)'
        PROVE  Follows(r, d)'
    <3>1. /\ Carries(r, d) /\ res'[r] = res[r] /\ call'[d] = call[d]
          /\ call'[r] = call[r] /\ UNCHANGED hash
      BY <1>1, <2>1 DEF Carries
    <3> QED
      BY <1>1, <1>2, <3>1, DroppedFollows
  <2> QED
    BY <2>1 DEF Followed
<1>9. OpenIsOwned'
  BY <1>1, <1>2 DEF OpenIsOwned, Streaming
<1> QED
  BY <1>3, <1>4, <1>5, <1>6, <1>7, <1>8, <1>9

\* A call that is over before anything was sent.
LEMMA RefusedIInv ==
  ASSUME IInv, NEW c \in Calls, call[c].phase = "reading", call' = Over(c),
         \/ res' = res /\ Gone(c)
         \/ \E last \in Lasts : res' = Refuse(c, last),
         UNCHANGED <<buffer, hash, active, registries>>
  PROVE  IInv'
<1> USE DEF IInv, registries
<1>1. /\ call' \in [Calls -> CallTypes] /\ call'[c].phase = "over" /\ ~ call'[c].live
      /\ \A d \in Calls \ {c} : call'[d] = call[d]
  BY OverTyped
<1>2. /\ res' \in [Responses -> Response]
      /\ \A r \in Responses \ {c} : res'[r] = res[r]
      /\ res'[c].from = {} /\ Len(res'[c].got) = 0 /\ res'[c].state # "open"
  BY TypesOf, Refused DEF Waiting, Has, Gone
<1>3. Types'
  BY <1>1, <1>2 DEF Types, CallTypes
<1>4. Registered'
  BY <1>1 DEF Registered
<1> QED
  BY <1>1, <1>2, <1>3, <1>4, WaitingStep

LEMMA SendIInv ==
  ASSUME IInv, NEW c \in Calls, call[c].phase = "reading", ~ Gone(c), Send(c)
  PROVE  IInv'
<1> USE DEF IInv, Send
<1>1. /\ call' = [call EXCEPT ![c].phase = "sent", ![c].live = TRUE]
      /\ call \in [Calls -> CallTypes]
      /\ pending' = pending \cup {c} /\ monitor' = monitor \cup {c}
      /\ UNCHANGED <<buffer, res, hash, active, aborted>>
  BY TypesOf
<1> DEFINE p == [call[c] EXCEPT !.phase = "sent", !.live = TRUE]
<1>2. p \in CallTypes /\ p.phase = "sent" /\ p.n = call[c].n
  BY ZenonT(40), <1>1 DEF CallTypes, Phases
<1>3. call' = [call EXCEPT ![c] = p]
  BY <1>1
<1> HIDE DEF p
<1>4. /\ call' \in [Calls -> CallTypes] /\ call'[c].phase = "sent" /\ call'[c].n = call[c].n
      /\ \A d \in Calls \ {c} : call'[d] = call[d]
  BY <1>1, <1>2, <1>3
<1>5. res'[c].from = {} /\ Len(res'[c].got) = 0 /\ res'[c].state = "open"
  BY <1>1 DEF Waiting, Has, Gone
<1>6. Types'
  BY <1>1, <1>4 DEF Types, CallTypes
<1>7. Registered'
  BY <1>1, <1>4 DEF Registered
<1> QED
  BY <1>1, <1>4, <1>5, <1>6, <1>7, WaitingStep

LEMMA BodyReadIInv == ASSUME IInv, NEW c \in Calls, BodyRead(c) PROVE IInv'
<1>1. call[c].phase = "reading" /\ {"502", "403"} \subseteq Lasts
  BY DEF BodyRead, Lasts
<1>2. CASE /\ Gone(c) /\ call' = Over(c)
           /\ UNCHANGED <<buffer, res, hash, active, registries>>
  BY <1>1, <1>2, RefusedIInv
<1>3. ASSUME NEW id \in FindByHash(hash, hash[c]), AnswerFromBuffer(c, id)
      PROVE  IInv'
  <2>1. CASE Streaming(id)
    BY <1>1, <1>3, <2>1, JoinIInv
  <2>2. CASE ~ Streaming(id) /\ CanReplay(id)
    BY <1>1, <1>3, <2>2, ReplayIInv
  <2>3. CASE ~ Streaming(id) /\ ~ CanReplay(id)
    <3>1. /\ call' = Over(c) /\ res' = Refuse(c, "502")
          /\ UNCHANGED <<buffer, hash, active, registries>>
      BY <1>3, <2>3 DEF AnswerFromBuffer
    <3> QED
      BY <1>1, <3>1, RefusedIInv
  <2> QED
    BY <2>1, <2>2, <2>3
<1>4. CASE /\ call' = Over(c) /\ res' = Refuse(c, "403")
           /\ UNCHANGED <<buffer, hash, active, registries>>
  BY <1>1, <1>4, RefusedIInv
<1>5. CASE ~ Gone(c) /\ Send(c)
  BY <1>1, <1>5, SendIInv
<1> QED
  BY <1>2, <1>3, <1>4, <1>5 DEF BodyRead

-----------------------------------------------------------------------------
(* Those who leave                                                          *)

LEMMA Unsubscribed ==
  ASSUME Types, NEW x
  PROVE  /\ Unsubscribe(x) \in [Calls -> Entries]
         /\ \A id \in Calls :
              /\ Unsubscribe(x)[id].status = buffer[id].status
              /\ Unsubscribe(x)[id].plain = buffer[id].plain
              /\ Unsubscribe(x)[id].raw = buffer[id].raw
              /\ Unsubscribe(x)[id].text = buffer[id].text
              /\ Unsubscribe(x)[id].subs = buffer[id].subs \ {x}
              /\ Unsubscribe(x)[id].rawSubs = buffer[id].rawSubs \ {x}
<1> DEFINE e(id) == [buffer[id] EXCEPT !.subs = @ \ {x}, !.rawSubs = @ \ {x}]
<1>1. \A id \in Calls :
        /\ e(id) \in Entries /\ e(id).status = buffer[id].status
        /\ e(id).plain = buffer[id].plain
        /\ e(id).raw = buffer[id].raw /\ e(id).text = buffer[id].text
        /\ e(id).subs = buffer[id].subs \ {x} /\ e(id).rawSubs = buffer[id].rawSubs \ {x}
  BY ZenonT(40), TypesOf DEF Entries
<1>2. Unsubscribe(x) = [id \in Calls |-> e(id)]
  BY DEF Unsubscribe
<1> HIDE DEF e
<1> QED
  BY <1>1, <1>2

\* A response closes and its subscriptions end.
LEMMA LeaveStep ==
  ASSUME IInv, NEW x \in Responses, UNCHANGED hash,
         res' = [res EXCEPT ![x] = Closed], buffer' = Unsubscribe(x),
         \A c \in Calls : /\ call'[c].phase = call[c].phase /\ call'[c].n = call[c].n
                          /\ call[c].phase = "sse" => (call'[c].live <=> call[c].live),
         res[x].state # "idle"
  PROVE  /\ res' \in [Responses -> Response] /\ buffer' \in [Calls -> Entries]
         /\ \A c \in Calls : buffer'[c].text <= buffer'[c].raw
         /\ res'[x].state = "gone" /\ \A r \in Responses \ {x} : res'[r] = res[r]
         /\ Entry' /\ Subscribed' /\ Followed' /\ OpenIsOwned'
         /\ \A c \in Calls :
              call[c].phase \in {"none", "reading", "sent"} =>
                res'[c].from = {} /\ Has(c)' = 0
<1> USE DEF IInv
<1>1. /\ Closed \in Response /\ Closed.from = {} /\ Closed.state = "gone"
      /\ Len(Closed.got) = 0
  <2>1. <<>> \in Written /\ Len(<<>>) = 0 /\ 0 \in Size
    BY NothingWritten, BufferAssumption DEF Size
  <2> QED
    BY <2>1 DEF Closed, NoResponse, Response, States, Answered
<1>2. /\ res \in [Responses -> Response] /\ res' \in [Responses -> Response]
      /\ res'[x] = Closed /\ \A r \in Responses \ {x} : res'[r] = res[r]
  BY <1>1, TypesOf
<1>3. /\ buffer' \in [Calls -> Entries]
      /\ \A id \in Calls :
           /\ buffer'[id].status = buffer[id].status
           /\ buffer'[id].plain = buffer[id].plain
           /\ buffer'[id].raw = buffer[id].raw
           /\ buffer'[id].text = buffer[id].text
           /\ buffer'[id].subs = buffer[id].subs \ {x}
           /\ buffer'[id].rawSubs = buffer[id].rawSubs \ {x}
  BY Unsubscribed
<1>4. \A c \in Calls : buffer'[c].text <= buffer'[c].raw
  BY <1>3 DEF Types
<1>5. Entry'
  BY <1>3 DEF Entry, Streaming
<1>6. Subscribed'
  <2>1. ASSUME NEW id \in Calls, NEW r \in buffer'[id].subs
        PROVE  Streaming(id)' /\ IsOpen(r)' /\ Carries(r, id)'
    BY <1>2, <1>3, TypesOf DEF Subscribed, Streaming, IsOpen, Carries
  <2>2. ASSUME NEW id \in Calls, NEW r \in buffer'[id].rawSubs
        PROVE  call'[r].phase = "over" /\ Carries(r, id)'
    BY <1>2, <1>3, TypesOf DEF Subscribed, Carries
  <2> QED
    BY <2>1, <2>2 DEF Subscribed
<1>7. Followed'
  <2>1. ASSUME NEW r \in Responses, NEW d \in Calls, Carries(r, d)'
        PROVE  Follows(r, d)'
    <3>1. r # x /\ res'[r] = res[r] /\ Follows(r, d)
      BY <1>1, <1>2, <2>1 DEF Carries, Followed
    <3>2. Streaming(d)' <=> Streaming(d)
      BY <1>3 DEF Streaming
    <3>3. r = d => SenderFollows(d)'
      BY <1>3, <3>1, <3>2 DEF Follows, SenderFollows, IsOpen, IsComplete, Has
    <3>4. r # d /\ r \in Calls => JoinerFollows(r, d)'
      BY <1>3, <3>1, <3>2 DEF Follows, JoinerFollows, IsOpen, Has
    <3>5. r \in Readers => ReaderFollows(r, d)'
      BY <1>3, <3>1, <3>2 DEF Follows, ReaderFollows, IsOpen
    <3> QED
      BY <1>3, <3>1, <3>2, <3>3, <3>4, <3>5 DEF Follows, IsComplete, Has
  <2> QED
    BY <2>1 DEF Followed
<1>8. OpenIsOwned'
  BY <1>1, <1>2, <1>3 DEF OpenIsOwned, Streaming
<1>9. \A c \in Calls : call[c].phase \in {"none", "reading", "sent"} =>
        res'[c].from = {} /\ Has(c)' = 0
  BY <1>1, <1>2, TypesOf DEF Waiting, Has
<1> QED
  BY <1>1, <1>2, <1>3, <1>4, <1>5, <1>6, <1>7, <1>8, <1>9

LEMMA LeaveIInv == ASSUME IInv, NEW r \in Readers, Leave(r) PROVE IInv'
<1> USE DEF IInv, Leave, registries
<1>1. /\ r \in Responses /\ r \notin Calls /\ res[r].state # "idle"
      /\ res' = [res EXCEPT ![r] = Closed] /\ buffer' = Unsubscribe(r)
      /\ UNCHANGED <<call, hash, active, pending, aborted, monitor>>
  BY TypesOf
<1>2. /\ res' \in [Responses -> Response] /\ buffer' \in [Calls -> Entries]
      /\ \A c \in Calls : buffer'[c].text <= buffer'[c].raw
      /\ \A c \in Calls : res'[c] = res[c]
      /\ Entry' /\ Subscribed' /\ Followed' /\ OpenIsOwned'
  BY <1>1, LeaveStep, TypesOf
<1>3. Types'
  BY <1>1, <1>2 DEF Types
<1>4. Shown'
  BY <1>1, <1>2, Unsubscribed DEF Shown, Gone, Streaming
<1>5. Waiting' /\ Registered'
  BY <1>1, <1>2 DEF Waiting, Gone, Has, Registered
<1> QED
  BY <1>2, <1>3, <1>4, <1>5

LEMMA DisconnectIInv == ASSUME IInv, NEW c \in Calls, Disconnect(c) PROVE IInv'
<1> USE DEF IInv, Disconnect, registries
<1> DEFINE p == [call[c] EXCEPT !.live = @ /\ call[c].phase = "sse"]
           q == [active[c] EXCEPT !.away = active[c].on]
<1>1. /\ c \in Responses /\ res[c].state # "idle"
      /\ res' = [res EXCEPT ![c] = Closed] /\ buffer' = Unsubscribe(c)
      /\ call' = [call EXCEPT ![c] = p] /\ active' = [active EXCEPT ![c] = q]
      /\ UNCHANGED <<hash, pending, aborted, monitor>>
  BY TypesOf
<1>2. /\ p.phase = call[c].phase /\ p.n = call[c].n
      /\ (p.live <=> call[c].live /\ call[c].phase = "sse")
      /\ p \in CallTypes
  <2>1. call[c] \in CallTypes
    BY TypesOf
  <2>2. (call[c].live /\ call[c].phase = "sse") \in BOOLEAN
    OBVIOUS
  <2> DEFINE b == call[c].live /\ call[c].phase = "sse"
  <2>3. p = [call[c] EXCEPT !.live = b]
    OBVIOUS
  <2> HIDE DEF b, p
  <2>4. p.phase = call[c].phase /\ p.n = call[c].n /\ p.live = b
    BY <2>1, <2>3 DEF CallTypes
  <2>5. b \in BOOLEAN
    BY <2>2 DEF b
  <2>6. p \in CallTypes
    BY <2>1, <2>3, <2>5 DEF CallTypes
  <2>7. p.live <=> call[c].live /\ call[c].phase = "sse"
    BY <2>4, Zenon DEF b
  <2> QED
    BY <2>4, <2>6, <2>7
<1> DEFINE ActiveTypes == [on : BOOLEAN, raw : Size, text : Size, away : BOOLEAN]
<1>3. /\ q \in ActiveTypes
      /\ q.on = active[c].on /\ q.raw = active[c].raw /\ q.text = active[c].text
      /\ q.away = active[c].on
  BY DEF Types
<1> HIDE DEF p, q
<1>4. /\ call'[c] = p /\ \A d \in Calls \ {c} : call'[d] = call[d]
      /\ call' \in [Calls -> CallTypes]
  BY <1>1, <1>2, TypesOf
<1>5. /\ active'[c] = q /\ \A d \in Calls \ {c} : active'[d] = active[d]
      /\ active' \in [Calls -> ActiveTypes]
  BY SMTT(30), <1>1, <1>3 DEF Types
<1>6. \A d \in Calls : /\ call'[d].phase = call[d].phase /\ call'[d].n = call[d].n
                       /\ call[d].phase = "sse" => (call'[d].live <=> call[d].live)
                       /\ call'[d].live => call[d].live
                       /\ d = c /\ call[d].phase = "sent" => ~ call'[d].live
  BY <1>2, <1>4
<1>7. /\ res' \in [Responses -> Response] /\ buffer' \in [Calls -> Entries]
      /\ \A d \in Calls : buffer'[d].text <= buffer'[d].raw
      /\ res'[c].state = "gone" /\ \A r \in Responses \ {c} : res'[r] = res[r]
      /\ Entry' /\ Subscribed' /\ Followed' /\ OpenIsOwned'
      /\ \A d \in Calls : call[d].phase \in {"none", "reading", "sent"} =>
           res'[d].from = {} /\ Has(d)' = 0
  BY <1>1, <1>6, LeaveStep
<1>8. Types'
  BY <1>1, <1>4, <1>5, <1>7 DEF Types, CallTypes
<1>9. Shown'
  <2>1. SUFFICES ASSUME NEW d \in Calls, active'[d].on
                 PROVE  /\ call'[d].phase = "sse" /\ (active'[d].away <=> Gone(d)')
                        /\ \/ buffer'[d].status = "failed"
                           \/ /\ Streaming(d)'
                              /\ active'[d].raw = buffer'[d].raw
                              /\ active'[d].text = buffer'[d].text
    BY DEF Shown
  <2>2. active[d].on
    BY <1>3, <1>5, <2>1, Zenon
  <2>3. active'[d].raw = active[d].raw /\ active'[d].text = active[d].text
    BY <1>3, <1>5
  <2>4. CASE d = c
    <3>1. active'[d].away /\ Gone(d)'
      BY <1>3, <1>5, <1>7, <2>2, <2>4, Zenon DEF Gone
    <3> QED
      BY <1>1, <1>6, <2>2, <2>3, <3>1, Unsubscribed DEF Shown, Streaming
  <2>5. CASE d # c
    <3>1. active'[d].away <=> Gone(d)'
      BY <1>5, <1>7, <2>2, <2>5, TypesOf DEF Shown, Gone
    <3> QED
      BY <1>1, <1>6, <2>2, <2>3, <3>1, Unsubscribed DEF Shown, Streaming
  <2> QED
    BY <2>4, <2>5
<1>10. Waiting'
  BY <1>1, <1>6, <1>7, TypesOf DEF Waiting, Gone
<1>11. Registered'
  BY <1>1, <1>6 DEF Registered
<1> QED
  BY <1>7, <1>8, <1>9, <1>10, <1>11

-----------------------------------------------------------------------------
(* The answer starts                                                        *)

\* The response belongs to its answer; what was written stays.
LEMMA Headed ==
  ASSUME Types, NEW c \in Calls, res' = [WriteHead(res, c) EXCEPT ![c].from = {c}]
  PROVE  /\ res' \in [Responses -> Response]
         /\ \A r \in Responses \ {c} : res'[r] = res[r]
         /\ res'[c].from = {c} /\ res'[c].got = res[c].got
         /\ res'[c].state = res[c].state
<1>1. /\ c \in Responses /\ res \in [Responses -> Response]
      /\ WriteHead(res, c) \in [Responses -> Response]
  BY TypesOf, HeadWrites
<1> DEFINE p == [WriteHead(res, c)[c] EXCEPT !.from = {c}]
<1>2. /\ p \in Response /\ p.from = {c} /\ p.got = WriteHead(res, c)[c].got
      /\ p.state = WriteHead(res, c)[c].state
  <2>1. {c} \in Answered
    BY DEF Answered
  <2> QED
    BY <1>1, <2>1 DEF Response
<1>3. res' = [WriteHead(res, c) EXCEPT ![c] = p]
  OBVIOUS
<1> HIDE DEF p
<1>4. res'[c] = p /\ \A r \in Responses \ {c} : res'[r] = WriteHead(res, c)[r]
  BY <1>1, <1>3
<1>5. res' \in [Responses -> Response]
  BY <1>1, <1>2, <1>3
<1> QED
  BY <1>1, <1>2, <1>4, <1>5, HeadWrites

LEMMA HeadersIInv ==
  ASSUME IInv, NEW c \in Calls, NEW kind \in {"sse", "plain"}, HeadersArrive(c, kind)
  PROVE  IInv'
<1> USE DEF IInv, HeadersArrive
<1>1. /\ call' = Goto(c, kind) /\ kind \in Phases /\ c \in Responses
      /\ pending' = pending \ {c}
      /\ UNCHANGED <<hash, aborted, monitor>>
  BY TypesOf DEF Phases
<1>2. /\ call[c].phase = "sent" /\ call[c].live /\ call[c].n = 0 /\ ~ Gone(c)
      /\ c \notin aborted /\ Has(c) = 0 /\ res[c].from = {} /\ buffer[c].status = "none"
  BY DEF Waiting, Registered, Entry
<1>3. /\ call' \in [Calls -> CallTypes] /\ call'[c].phase = kind /\ call'[c].live
      /\ call'[c].n = 0 /\ \A d \in Calls \ {c} : call'[d] = call[d]
  <2>1. call' = [call EXCEPT ![c].phase = kind] /\ call \in [Calls -> CallTypes]
    BY <1>1, TypesOf DEF Goto
  <2>2. call' \in [Calls -> CallTypes]
    BY <1>1, CallPhase
  <2>3. call'[c].phase = kind /\ call'[c].n = call[c].n /\ call'[c].live = call[c].live
    BY <2>1 DEF CallTypes
  <2> QED
    BY <1>2, <2>1, <2>2, <2>3, Zenon
<1>4. /\ res' \in [Responses -> Response]
      /\ \A r \in Responses \ {c} : res'[r] = res[r]
      /\ res'[c].from = {c} /\ Has(c)' = 0 /\ res'[c].state = res[c].state
  BY <1>2, Headed DEF Has
<1>5. /\ buffer' \in [Calls -> Entries]
      /\ \A d \in Calls : buffer'[d].text <= buffer'[d].raw
      /\ \A d \in Calls \ {c} : buffer'[d] = buffer[d]
      /\ kind = "sse" => /\ buffer'[c].status = "streaming" /\ ~ buffer'[c].plain
                         /\ buffer'[c].raw = 0 /\ buffer'[c].text = 0
                         /\ buffer'[c].subs = {} /\ buffer'[c].rawSubs = {}
      /\ kind = "plain" => buffer'[c] = buffer[c]
  <2> DEFINE q == [NoEntry EXCEPT !.status = "streaming"]
  <2>1. /\ q \in Entries /\ q.status = "streaming" /\ q.raw = 0 /\ q.text = 0
        /\ q.subs = {} /\ q.rawSubs = {} /\ q.plain = FALSE
    <3>1. /\ NoEntry \in Entries /\ NoEntry.raw = 0 /\ NoEntry.text = 0
          /\ NoEntry.subs = {} /\ NoEntry.rawSubs = {} /\ NoEntry.plain = FALSE
      BY NoEntryTyped DEF NoEntry
    <3> QED
      BY <3>1 DEF Entries
  <2>2. CASE kind = "sse"
    <3>1. buffer' = [buffer EXCEPT ![c] = q]
      BY <2>2 DEF Create
    <3> HIDE DEF q
    <3> QED
      BY <2>1, <2>2, <3>1 DEF Types
  <2>3. CASE kind = "plain"
    BY <2>3 DEF Types
  <2> QED
    BY <2>2, <2>3
<1> DEFINE ActiveTypes == [on : BOOLEAN, raw : Size, text : Size, away : BOOLEAN]
<1>6. /\ active' \in [Calls -> ActiveTypes]
      /\ \A d \in Calls \ {c} : active'[d] = active[d]
      /\ kind = "sse" => active'[c].raw = 0 /\ active'[c].text = 0 /\ ~ active'[c].away
      /\ kind = "plain" => active'[c] = active[c]
  <2> DEFINE q == [NoActive EXCEPT !.on = TRUE]
  <2>1. q \in ActiveTypes /\ q.raw = 0 /\ q.text = 0 /\ q.away = FALSE
    <3>1. 0 \in Size
      BY BufferAssumption DEF Size
    <3>2. /\ NoActive \in ActiveTypes /\ NoActive.raw = 0 /\ NoActive.text = 0
          /\ NoActive.away = FALSE
      BY <3>1 DEF NoActive
    <3> QED
      BY <3>2
  <2>2. active \in [Calls -> ActiveTypes]
    BY DEF Types
  <2>3. CASE kind = "sse"
    <3>1. active' = [active EXCEPT ![c] = q]
      BY <2>3 DEF CreateStream
    <3> HIDE DEF q
    <3>2. active' \in [Calls -> ActiveTypes]
      BY <2>1, <2>2, <3>1
    <3>3. active'[c] = q /\ \A d \in Calls \ {c} : active'[d] = active[d]
      BY <2>2, <3>1
    <3> QED
      BY <2>1, <2>3, <3>2, <3>3
  <2>4. CASE kind = "plain"
    BY <2>2, <2>4
  <2> QED
    BY <2>3, <2>4
<1>7. Types'
  BY <1>1, <1>3, <1>4, <1>5, <1>6 DEF Types, CallTypes
<1>8. Entry'
  BY <1>2, <1>3, <1>5 DEF Entry, Streaming
<1>9. Shown'
  <2>1. ASSUME NEW d \in Calls \ {c}, active'[d].on
        PROVE  /\ call'[d].phase = "sse" /\ (active'[d].away <=> Gone(d)')
               /\ \/ buffer'[d].status = "failed"
                  \/ /\ Streaming(d)'
                     /\ active'[d].raw = buffer'[d].raw
                     /\ active'[d].text = buffer'[d].text
    BY <1>3, <1>4, <1>5, <1>6, <2>1, TypesOf DEF Shown, Gone, Streaming
  <2>2. kind = "plain" => ~ active'[c].on
    BY <1>2, <1>6 DEF Shown
  <2>3. kind = "sse" => ~ active'[c].away /\ ~ Gone(c)'
    BY <1>2, <1>4, <1>6 DEF Gone
  <2> QED
    BY <1>3, <1>5, <1>6, <2>1, <2>2, <2>3 DEF Shown, Streaming
<1>10. Waiting'
  BY <1>3, <1>4, TypesOf DEF Waiting, Gone, Has
<1>11. Registered'
  BY <1>1, <1>2, <1>3 DEF Registered
<1>12. Subscribed'
  <2>1. ASSUME NEW d \in Calls, NEW r \in buffer'[d].subs
        PROVE  Streaming(d)' /\ IsOpen(r)' /\ Carries(r, d)'
    BY <1>2, <1>4, <1>5, TypesOf DEF Subscribed, Streaming, IsOpen, Carries
  <2>2. ASSUME NEW d \in Calls, NEW r \in buffer'[d].rawSubs
        PROVE  call'[r].phase = "over" /\ Carries(r, d)'
    BY <1>2, <1>3, <1>4, <1>5, TypesOf DEF Subscribed, Carries
  <2> QED
    BY <2>1, <2>2 DEF Subscribed
<1>13. Followed'
  <2>1. ASSUME NEW d \in Calls, Carries(c, d)' PROVE d = c
    BY <1>4, <2>1 DEF Carries
  <2>2. c \notin Readers /\ res[c].state # "ended"
    BY TypesOf, <1>2 DEF Waiting
  <2>3. Follows(c, c)'
    BY <1>2, <1>3, <1>4, <1>5, <2>2 DEF Follows, SenderFollows, Streaming, IsComplete, IsOpen
  <2>4. ASSUME NEW r \in Responses \ {c}, NEW d \in Calls, Carries(r, d)'
        PROVE  Follows(r, d)'
    <3>1. Carries(r, d) /\ Follows(r, d) /\ res'[r] = res[r]
      BY <1>4, <2>4 DEF Followed, Carries
    <3>2. d # c /\ call'[d] = call[d] /\ buffer'[d] = buffer[d]
      BY <1>2, <1>3, <1>5, <3>1 DEF Follows
    <3>3. r = d => SenderFollows(d)'
      BY <3>1, <3>2 DEF Follows, SenderFollows, Streaming, IsOpen, IsComplete, Has
    <3>4. r # d /\ r \in Calls => JoinerFollows(r, d)'
      BY <1>1, <1>3, <3>1, <3>2 DEF Follows, JoinerFollows, Streaming, IsOpen, Has
    <3>5. r \in Readers => ReaderFollows(r, d)'
      BY <3>1, <3>2 DEF Follows, ReaderFollows, Streaming, IsOpen
    <3> QED
      BY <3>1, <3>2, <3>3, <3>4, <3>5 DEF Follows, Streaming, IsComplete, Has
  <2> QED
    BY <2>1, <2>3, <2>4 DEF Followed
<1>14. OpenIsOwned'
  BY <1>2, <1>3, <1>4, <1>5 DEF OpenIsOwned, Streaming, Responses
<1> QED
  BY <1>7, <1>8, <1>9, <1>10, <1>11, <1>12, <1>13, <1>14

-----------------------------------------------------------------------------
(* Whole answers                                                            *)

\* A response follows as before when nothing it depends on changed.
LEMMA StillFollows ==
  ASSUME NEW r, NEW d, Follows(r, d), UNCHANGED hash, res'[r] = res[r],
         call'[d] = call[d], r \in Calls => call'[r] = call[r],
         buffer'[d].status = buffer[d].status, buffer'[d].raw = buffer[d].raw,
         buffer'[d].text = buffer[d].text,
         r \in buffer[d].subs => r \in buffer'[d].subs,
         r \in buffer[d].rawSubs => r \in buffer'[d].rawSubs
  PROVE  Follows(r, d)'
<1>1. r = d => SenderFollows(d)'
  BY DEF Follows, SenderFollows, Streaming, IsOpen, IsComplete, Has
<1>2. r # d /\ r \in Calls => JoinerFollows(r, d)'
  BY DEF Follows, JoinerFollows, Streaming, IsOpen, Has
<1>3. r \in Readers => ReaderFollows(r, d)'
  BY DEF Follows, ReaderFollows, Streaming, IsOpen
<1> QED
  BY <1>1, <1>2, <1>3 DEF Follows, Streaming, IsComplete, Has

\* A whole answer is over: it is stored, or it broke.
LEMMA PlainOverStep ==
  ASSUME IInv, NEW c \in Calls, call[c].phase = "plain", UNCHANGED <<hash, active>>,
         call'[c].phase \in {"over", "cut"},
         \A d \in Calls \ {c} : call'[d] = call[d],
         \A r \in Responses \ {c} : res'[r] = res[r],
         res'[c].from = res[c].from, res'[c].got = res[c].got,
         IF res[c].state = "open"
         THEN /\ res'[c].state \in {"ended", "left"}
              /\ res'[c].state = "ended" => call'[c].phase = "over"
         ELSE res'[c] = res[c],
         \A d \in Calls \ {c} : buffer'[d] = buffer[d],
         \/ buffer'[c] = buffer[c]
         \/ /\ call'[c].phase = "over" /\ buffer'[c].status = "completed"
            /\ buffer'[c].raw = call[c].n
            /\ buffer'[c].subs = {} /\ buffer'[c].rawSubs = {}
  PROVE  /\ Entry' /\ Shown' /\ Waiting' /\ Subscribed' /\ Followed' /\ OpenIsOwned'
<1> USE DEF IInv
<1>1. c \in Responses /\ c \notin Readers
  BY TypesOf
<1>2. buffer[c].status = "none" /\ ~ Streaming(c) /\ ~ active[c].on
  BY DEF Entry, Streaming, Shown
<1>3. Entry'
  BY <1>2 DEF Entry, Streaming
<1>4. Shown'
  BY <1>1, <1>2, TypesOf DEF Shown, Streaming, Gone
<1>5. Waiting'
  BY <1>1, TypesOf DEF Waiting, Gone, Has
<1>6. \A r \in Responses \ {c} : ~ Carries(r, c)
  BY DEF Followed, Follows
<1>7. Subscribed'
  <2>1. ASSUME NEW d \in Calls, NEW r \in buffer'[d].subs
        PROVE  Streaming(d)' /\ IsOpen(r)' /\ Carries(r, d)'
    BY <1>1, <1>2, TypesOf DEF Subscribed, Streaming, IsOpen, Carries
  <2>2. ASSUME NEW d \in Calls, NEW r \in buffer'[d].rawSubs
        PROVE  call'[r].phase = "over" /\ Carries(r, d)'
    BY <1>1, TypesOf DEF Subscribed, Carries
  <2> QED
    BY <2>1, <2>2 DEF Subscribed
<1>8. Followed'
  <2>1. ASSUME Carries(c, c) PROVE Follows(c, c)'
    <3>1. SenderFollows(c) /\ res[c].state # "ended"
      BY <1>1, <2>1 DEF Followed, Follows
    <3>2. IsOpen(c) => Has(c)' = call[c].n
      BY <3>1 DEF SenderFollows, Has
    <3> QED
      BY <1>1, <1>2, <3>1, <3>2
      DEF Follows, SenderFollows, Streaming, IsOpen, IsComplete
  <2>2. ASSUME NEW r \in Responses, NEW d \in Calls, Carries(r, d)'
        PROVE  Follows(r, d)'
    <3>1. Carries(r, d) /\ Follows(r, d)
      BY <1>1, <2>2 DEF Carries, Followed
    <3>2. CASE r = c
      <4>1. d = c
        BY <1>1, <3>1, <3>2 DEF Follows, JoinerFollows
      <4> QED
        BY <2>1, <3>1, <3>2, <4>1
    <3>3. CASE r # c
      <4>1. d # c
        BY <1>6, <3>1, <3>3
      <4> QED
        BY <3>1, <3>3, <4>1, StillFollows
    <3> QED
      BY <3>2, <3>3
  <2> QED
    BY <2>2 DEF Followed
<1>9. OpenIsOwned'
  BY <1>1, <1>2 DEF OpenIsOwned, Streaming
<1> QED
  BY <1>3, <1>4, <1>5, <1>7, <1>8, <1>9

LEMMA PlainEndsIInv ==
  ASSUME IInv, NEW c \in Calls, NEW text \in {0, call[c].n}, PlainEnds(c, text)
  PROVE  IInv'
<1> USE DEF IInv, PlainEnds
<1>1. /\ call' = Over(c) /\ res' = End(res, {c}, "done") /\ monitor' = monitor \ {c}
      /\ UNCHANGED <<hash, active, pending, aborted>>
      /\ call[c].phase = "plain"
  OBVIOUS
<1>2. /\ call' \in [Calls -> CallTypes] /\ call'[c].phase = "over" /\ ~ call'[c].live
      /\ \A d \in Calls \ {c} : call'[d] = call[d]
  BY <1>1, OverTyped
<1>3. /\ res' \in [Responses -> Response] /\ c \in Responses
      /\ \A r \in Responses \ {c} : res'[r] = res[r]
      /\ res'[c].from = res[c].from /\ res'[c].got = res[c].got
      /\ IF res[c].state = "open" THEN res'[c].state = "ended" ELSE res'[c] = res[c]
  <2>1. res \in [Responses -> Response] /\ "done" \in Lasts /\ c \in Responses
    BY TypesOf DEF Lasts
  <2> QED
    BY <1>1, <2>1, EndWrites
<1> DEFINE q == [NoEntry EXCEPT !.status = "completed", !.plain = TRUE,
                                !.raw = call[c].n, !.text = text]
<1>4. /\ q \in Entries /\ q.status = "completed" /\ q.raw = call[c].n /\ q.text = text
      /\ q.subs = {} /\ q.rawSubs = {} /\ text <= call[c].n
  <2>1. call[c].n \in Size /\ text \in Size /\ text <= call[c].n
    BY TypesOf, BufferAssumption DEF CallTypes, Size
  <2> QED
    BY <2>1 DEF NoEntry, Entries, Size
<1>5. buffer' = [buffer EXCEPT ![c] = q]
  BY DEF StoreResponse
<1> HIDE DEF q
<1>6. /\ buffer' \in [Calls -> Entries] /\ buffer'[c] = q
      /\ \A d \in Calls \ {c} : buffer'[d] = buffer[d]
  BY <1>4, <1>5 DEF Types
<1>7. Types'
  BY ZenonT(40), <1>1, <1>2, <1>3, <1>4, <1>6 DEF Types, CallTypes
<1>8. Registered'
  BY <1>1, <1>2 DEF Registered
<1>9. Entry' /\ Shown' /\ Waiting' /\ Subscribed' /\ Followed' /\ OpenIsOwned'
  BY ZenonT(40), <1>1, <1>2, <1>3, <1>4, <1>6, PlainOverStep
<1> QED
  BY <1>7, <1>8, <1>9

LEMMA PlainBreaksIInv ==
  ASSUME IInv, NEW c \in Calls, NEW reset \in BOOLEAN, PlainBreaks(c, reset)
  PROVE  IInv'
<1> USE DEF IInv, PlainBreaks
<1> DEFINE p == IF reset THEN "over" ELSE "cut"
<1>1. /\ call[c].phase = "plain" /\ c \in Responses /\ res \in [Responses -> Response]
      /\ call' = Goto(c, p) /\ p \in Phases
      /\ UNCHANGED <<buffer, hash, active, pending, aborted>>
  BY TypesOf DEF Phases
<1>2. /\ call' \in [Calls -> CallTypes] /\ call'[c].phase = p
      /\ \A d \in Calls \ {c} : call'[d] = call[d]
  <2>1. call' = [call EXCEPT ![c].phase = p] /\ call \in [Calls -> CallTypes]
    BY <1>1, TypesOf DEF Goto
  <2>2. call' \in [Calls -> CallTypes]
    BY <1>1, CallPhase
  <2> QED
    BY <2>1, <2>2 DEF CallTypes
<1>3. /\ res' \in [Responses -> Response]
      /\ \A r \in Responses \ {c} : res'[r] = res[r]
      /\ res'[c].from = res[c].from /\ res'[c].got = res[c].got
      /\ IF res[c].state = "open"
         THEN res'[c].state = (IF reset THEN "ended" ELSE "left") ELSE res'[c] = res[c]
  <2>1. CASE reset
    <3>1. "502" \in Lasts
      BY DEF Lasts
    <3> QED
      BY <1>1, <2>1, <3>1, EndWrites
  <2>2. CASE ~ reset
    <3> DEFINE t == IF res[c].state = "open" THEN "left" ELSE res[c].state
    <3>1. t \in States /\ res' = [res EXCEPT ![c].state = t]
      BY <1>1, <2>2 DEF Response, States
    <3> HIDE DEF t
    <3>2. res' \in [Responses -> Response]
      <4>1. [res EXCEPT ![c].state = t] \in [Responses -> Response]
        BY <1>1, <3>1, ResState, Zenon
      <4> QED
        BY <3>1, <4>1
    <3>3. /\ res'[c] = [res[c] EXCEPT !.state = t]
          /\ \A r \in Responses \ {c} : res'[r] = res[r]
      BY <1>1, <3>1
    <3>4. /\ res'[c].from = res[c].from /\ res'[c].got = res[c].got
          /\ res'[c].state = t /\ (t = res[c].state => res'[c] = res[c])
      BY <1>1, <3>3 DEF Response
    <3> QED
      BY <2>2, <3>2, <3>3, <3>4 DEF t
  <2> QED
    BY <2>1, <2>2
<1>4. Types'
  BY <1>1, <1>2, <1>3 DEF Types, CallTypes
<1>5. Registered'
  BY <1>1, <1>2 DEF Registered
<1>6. /\ UNCHANGED <<hash, active>> /\ call'[c].phase \in {"over", "cut"}
      /\ IF res[c].state = "open"
         THEN /\ res'[c].state \in {"ended", "left"}
              /\ res'[c].state = "ended" => call'[c].phase = "over"
         ELSE res'[c] = res[c]
  BY <1>1, <1>2, <1>3
<1> HIDE DEF PlainBreaks
<1>7. Entry' /\ Shown' /\ Waiting' /\ Subscribed' /\ Followed' /\ OpenIsOwned'
  BY <1>1, <1>2, <1>3, <1>6, PlainOverStep
<1> QED
  BY <1>4, <1>5, <1>7

LEMMA PlainChunkIInv == ASSUME IInv, NEW c \in Calls, PlainChunk(c) PROVE IInv'
<1> USE DEF IInv, PlainChunk, registries
<1>1. /\ call[c].phase = "plain" /\ call[c].n < MaxChunks /\ call[c].n \in Size
      /\ res' = WriteChunk(res, {c}, call[c].n + 1)
      /\ UNCHANGED <<buffer, hash, active, pending, aborted, monitor>>
      /\ c \in Responses /\ c \notin Readers
  BY TypesOf DEF CallTypes
<1> DEFINE p == [call[c] EXCEPT !.n = @ + 1]
<1>2. /\ p \in CallTypes /\ p.phase = "plain" /\ p.live = call[c].live
      /\ p.n = call[c].n + 1
  <2>1. call[c] \in CallTypes /\ call[c].n + 1 \in Size
    BY <1>1, TypesOf, BufferAssumption DEF Size
  <2> QED
    BY <1>1, <2>1 DEF CallTypes
<1>3. call' = [call EXCEPT ![c] = p] /\ call \in [Calls -> CallTypes]
  BY TypesOf
<1> HIDE DEF p
<1>4. /\ call' \in [Calls -> CallTypes] /\ call'[c].phase = "plain"
      /\ call'[c].n = call[c].n + 1 /\ \A d \in Calls \ {c} : call'[d] = call[d]
  BY <1>2, <1>3
<1>5. IsOpen(c) => Carries(c, c) /\ Has(c) = call[c].n
  <2>1. IsOpen(c) => Carries(c, c)
    BY <1>1 DEF Waiting, IsOpen, Carries
  <2> QED
    BY <1>1, <2>1 DEF Followed, Follows, SenderFollows
<1>6. /\ res' \in [Responses -> Response]
      /\ \A r \in Responses \ {c} : res'[r] = res[r]
      /\ res'[c].from = res[c].from /\ res'[c].state = res[c].state
      /\ IF IsOpen(c) THEN Has(c)' = call[c].n + 1 ELSE res'[c] = res[c]
  <2>1. res \in [Responses -> Response]
    BY TypesOf
  <2>2. \A r \in Responses : r \in {c} /\ res[r].state = "open" => Len(res[r].got) = call[c].n
    BY <1>5 DEF IsOpen, Has
  <2> QED
    BY <1>1, <2>1, <2>2, ChunkWrites DEF IsOpen, Has
<1> HIDE DEF PlainChunk
<1>7. /\ \A r \in Responses : res'[r].from = res[r].from /\ res'[r].state = res[r].state
      /\ Calls \subseteq Responses /\ Readers \subseteq Responses
      /\ ~ active[c].on
      /\ \A d \in Calls \ {c} : call'[d] = call[d] /\ res'[d] = res[d]
  <2>1. ~ active[c].on
    BY <1>1 DEF Shown
  <2>2. Calls \subseteq Responses /\ Readers \subseteq Responses
    BY TypesOf
  <2> QED
    BY <1>4, <1>6, <2>1, <2>2
<1>8. Types'
  BY <1>1, <1>4, <1>6 DEF Types, CallTypes
<1>9. Entry'
  BY <1>1, <1>4 DEF Entry, Streaming
<1>10. Shown'
  <2>1. ASSUME NEW d \in Calls, active[d].on
        PROVE  call'[d] = call[d] /\ res'[d].state = res[d].state
    BY <1>7, <2>1
  <2> QED
    BY ZenonT(40), <1>1, <2>1 DEF Shown, Streaming, Gone
<1>11. Waiting'
  <2>1. /\ call'[c].phase = "plain" /\ c \in Responses
        /\ res'[c].state = "open" => res'[c].from = {c}
    BY <1>1, <1>4, <1>7 DEF Waiting
  <2> QED
    BY <1>7, <2>1 DEF Waiting, Gone, Has
<1>12. Registered'
  <2>1. c \notin pending /\ c \notin aborted
    BY <1>1 DEF Registered
  <2> QED
    BY <1>1, <1>4, <2>1 DEF Registered
<1>13. Subscribed'
  <2>1. ASSUME NEW d \in Calls, NEW r \in buffer'[d].subs
        PROVE  Streaming(d)' /\ IsOpen(r)' /\ Carries(r, d)'
    BY <1>1, <1>7, TypesOf DEF Subscribed, Streaming, IsOpen, Carries
  <2>2. ASSUME NEW d \in Calls, NEW r \in buffer'[d].rawSubs
        PROVE  call'[r].phase = "over" /\ Carries(r, d)'
    <3>1. r \in buffer[d].rawSubs /\ r \in Calls /\ r # c
      BY <1>1, <2>2, TypesOf DEF Subscribed
    <3> QED
      BY <1>7, <3>1 DEF Subscribed, Carries
  <2> QED
    BY <2>1, <2>2 DEF Subscribed
<1>14. Followed'
  <2>1. ASSUME Carries(c, c) PROVE Follows(c, c)'
    <3>1. SenderFollows(c) /\ res[c].state # "ended"
      BY <1>1, <2>1 DEF Followed, Follows
    <3>2. buffer'[c].status = "none"
      BY <1>1 DEF Entry
    <3> QED
      BY <1>1, <1>4, <1>6, <3>1, <3>2
      DEF Follows, SenderFollows, Streaming, IsOpen, IsComplete
  <2>2. ASSUME NEW r \in Responses, NEW d \in Calls, Carries(r, d)'
        PROVE  Follows(r, d)'
    <3>1. Carries(r, d) /\ Follows(r, d)
      BY <1>6, <2>2 DEF Carries, Followed
    <3>2. CASE r = c
      <4>1. d = c
        BY <1>1, <3>1, <3>2 DEF Follows, JoinerFollows
      <4> QED
        BY <2>1, <3>1, <3>2, <4>1
    <3>3. CASE r # c
      <4>1. d # c
        BY <1>1, <3>1, <3>3 DEF Follows
      <4> QED
        BY <1>1, <1>4, <1>6, <3>1, <3>3, <4>1, StillFollows
    <3> QED
      BY <3>2, <3>3
  <2> QED
    BY <2>2 DEF Followed
<1>15. OpenIsOwned'
  BY <1>1, <1>4, <1>6 DEF OpenIsOwned, Streaming
<1> QED
  BY <1>8, <1>9, <1>10, <1>11, <1>12, <1>13, <1>14, <1>15

-----------------------------------------------------------------------------
(* The pages that read a text                                               *)

LEMMA SubscribeIInv ==
  ASSUME IInv, NEW r \in Readers, NEW id \in Calls, Subscribe(r, id)
  PROVE  IInv'
<1> USE DEF IInv, Subscribe, registries
<1> DEFINE p == SubscribeAnswer(id)
<1>1. /\ r \in Responses /\ r \notin Calls /\ res \in [Responses -> Response]
      /\ res[r].state = "idle"
      /\ res' = [res EXCEPT ![r] = p] /\ buffer' = SubscribeTo(id, r)
      /\ UNCHANGED <<call, hash, active, pending, aborted, monitor>>
  BY TypesOf
<1>2. Streaming(id) => call[id].phase = "sse" /\ ~ buffer[id].plain
  BY DEF Entry
<1>3. call[id].phase \in {"sse", "over"}
  BY TypesOf DEF Entry, CallTypes, Phases
<1>4. /\ p \in Response /\ p.from = {id}
      /\ p.state = (IF Streaming(id) THEN "open" ELSE "ended")
      /\ Streaming(id) => p.text = buffer[id].text
      /\ p.last = "done" => Len(p.got) = buffer[id].raw \/ p.text = buffer[id].text
  <2>1. CASE buffer[id].plain
    BY <1>2, <2>1, WholeTyped DEF SubscribeAnswer
  <2>2. CASE ~ buffer[id].plain
    <3>1. buffer[id].text \in Size /\ {id} \in Answered /\ <<>> \in Written
      BY TypesOf, NothingWritten DEF Entries, Size, Answered
    <3> QED
      BY <2>2, <3>1 DEF SubscribeAnswer, NoResponse, Response, States
  <2> QED
    BY <2>1, <2>2
<1> HIDE DEF p
<1>5. /\ res' \in [Responses -> Response] /\ res'[r] = p
      /\ \A x \in Responses \ {r} : res'[x] = res[x]
  BY <1>1, <1>4
<1>6. /\ buffer' \in [Calls -> Entries]
      /\ \A d \in Calls \ {id} : buffer'[d] = buffer[d]
      /\ buffer'[id].status = buffer[id].status /\ buffer'[id].raw = buffer[id].raw
      /\ buffer'[id].text = buffer[id].text /\ buffer'[id].plain = buffer[id].plain
      /\ buffer'[id].rawSubs = buffer[id].rawSubs
      /\ IF Streaming(id) THEN buffer'[id].subs = buffer[id].subs \cup {r}
                          ELSE buffer'[id].subs = buffer[id].subs
  <2> DEFINE q == [buffer[id] EXCEPT !.subs = @ \cup {r}]
  <2>1. buffer \in [Calls -> Entries]
    BY DEF Types
  <2>2. /\ q \in Entries /\ q.status = buffer[id].status /\ q.raw = buffer[id].raw
        /\ q.text = buffer[id].text /\ q.plain = buffer[id].plain
        /\ q.rawSubs = buffer[id].rawSubs /\ q.subs = buffer[id].subs \cup {r}
    BY <2>1 DEF Entries
  <2>3. buffer' = IF Streaming(id) THEN [buffer EXCEPT ![id] = q] ELSE buffer
    BY <1>1 DEF SubscribeTo
  <2> HIDE DEF q
  <2> QED
    BY <2>1, <2>2, <2>3
<1>7. Types'
  BY <1>1, <1>5, <1>6 DEF Types
<1>8. Entry'
  BY <1>1, <1>6 DEF Entry, Streaming
<1>9. \A c \in Calls : res'[c] = res[c]
  BY <1>1, <1>5, TypesOf
<1>10. Shown' /\ Waiting' /\ Registered'
  <2>1. Shown'
    BY <1>1, <1>6, <1>9 DEF Shown, Streaming, Gone
  <2> QED
    BY <1>1, <1>9, <2>1 DEF Waiting, Gone, Has, Registered
<1>11. Subscribed'
  <2>1. ASSUME NEW d \in Calls, NEW x \in buffer'[d].subs
        PROVE  Streaming(d)' /\ IsOpen(x)' /\ Carries(x, d)'
    <3>1. CASE x = r /\ d = id /\ Streaming(id)
      BY <1>4, <1>5, <1>6, <3>1 DEF Streaming, IsOpen, Carries
    <3>2. CASE x \in buffer[d].subs
      <4>1. Streaming(d) /\ IsOpen(x) /\ Carries(x, d) /\ x \in Responses
        BY <3>2, TypesOf DEF Subscribed
      <4>2. x # r
        BY <1>1, <4>1 DEF IsOpen
      <4> QED
        BY <1>5, <1>6, <4>1, <4>2 DEF Streaming, IsOpen, Carries
    <3> QED
      BY <1>6, <2>1, <3>1, <3>2
  <2>2. ASSUME NEW d \in Calls, NEW x \in buffer'[d].rawSubs
        PROVE  call'[x].phase = "over" /\ Carries(x, d)'
    BY <1>1, <1>5, <1>6, TypesOf DEF Subscribed, Carries
  <2> QED
    BY <2>1, <2>2 DEF Subscribed
<1>12. Followed'
  <2>1. ASSUME NEW d \in Calls, Carries(r, d)' PROVE d = id
    BY <1>4, <1>5, <2>1 DEF Carries
  <2>2. Follows(r, id)'
    BY <1>1, <1>3, <1>4, <1>5, <1>6
    DEF Follows, ReaderFollows, Streaming, IsComplete, IsOpen, Has
  <2>3. ASSUME NEW x \in Responses \ {r}, NEW d \in Calls, Carries(x, d)'
        PROVE  Follows(x, d)'
    <3>1. Carries(x, d) /\ Follows(x, d)
      BY <1>5, <2>3 DEF Carries, Followed
    <3> QED
      BY <1>1, <1>5, <1>6, <3>1, StillFollows
  <2> QED
    BY <2>1, <2>2, <2>3 DEF Followed
<1>13. OpenIsOwned'
  BY <1>1, <1>4, <1>5, <1>6 DEF OpenIsOwned, Streaming
<1> QED
  BY <1>7, <1>8, <1>10, <1>11, <1>12, <1>13

-----------------------------------------------------------------------------
(* The end of a stream                                                      *)

ActiveTypes == [on : BOOLEAN, raw : Size, text : Size, away : BOOLEAN]

\* The stream is no longer shown to the other pages.
LEMMA StreamHidden ==
  ASSUME Types, NEW c \in Calls, NEW parses, NEW early, EndStream(c, parses, early)
  PROVE  /\ active' \in [Calls -> ActiveTypes]
         /\ ~ active'[c].on /\ \A d \in Calls \ {c} : active'[d] = active[d]
<1>1. active \in [Calls -> ActiveTypes]
  BY DEF Types, ActiveTypes
<1>2. NoActive \in ActiveTypes /\ ~ NoActive.on
  BY BufferAssumption DEF NoActive, ActiveTypes, Size
<1>3. CASE ~ active[c].on
  BY <1>1, <1>3 DEF EndStream
<1>4. CASE active[c].on
  <2>1. active' = [active EXCEPT ![c] = NoActive]
    BY <1>4 DEF EndStream
  <2>2. active'[c] = NoActive /\ \A d \in Calls \ {c} : active'[d] = active[d]
    BY <1>1, <2>1
  <2> QED
    BY <1>1, <1>2, <2>1, <2>2
<1> QED
  BY <1>3, <1>4

\* A stream takes no more chunks: its followers are ended, or left by the
\* timer; the sender's response is ended when the call is over.
LEMMA FinishStep ==
  ASSUME IInv, NEW c \in Calls, UNCHANGED hash,
         call[c].phase = "sse", call'[c].phase \in {"sse", "over"}, ~ call'[c].live,
         \A d \in Calls \ {c} : call'[d] = call[d],
         buffer'[c].status # "streaming", buffer'[c].raw = buffer[c].raw,
         IF Streaming(c)
         THEN buffer'[c].subs = {} /\ buffer'[c].rawSubs \subseteq buffer[c].rawSubs
         ELSE buffer'[c] = buffer[c],
         \A d \in Calls \ {c} : buffer'[d] = buffer[d] /\ active'[d] = active[d],
         active'[c].on => /\ active'[c] = active[c] /\ buffer'[c].status = "failed"
                          /\ call'[c].phase = "sse",
         \A r \in Responses :
           /\ res'[r].from = res[r].from /\ res'[r].got = res[r].got
           /\ res[r].state # "open" => res'[r] = res[r]
           /\ r \notin {c} \cup buffer[c].subs \cup buffer[c].rawSubs => res'[r] = res[r]
           /\ res[r].state = "open" /\ r # c /\ r \in buffer[c].subs \cup buffer[c].rawSubs =>
                /\ res'[r].state \in {"ended", "left"}
                /\ r \in buffer[c].subs => res'[r].text = buffer'[c].text,
         res[c].state = "open" =>
           res'[c].state = IF call'[c].phase = "over" THEN "ended" ELSE "open"
  PROVE  /\ Entry' /\ Shown' /\ Waiting' /\ Subscribed' /\ Followed' /\ OpenIsOwned'
<1> USE DEF IInv
<1>1. /\ c \in Responses /\ c \notin Readers
      /\ Calls \subseteq Responses /\ Readers \subseteq Responses
      /\ \A d \in Calls : buffer[d].subs \subseteq Readers /\ buffer[d].rawSubs \subseteq Calls
  BY TypesOf
<1>2. \A r \in Calls : res'[r].state = "gone" <=> res[r].state = "gone"
  <2>1. ASSUME NEW r \in Calls, res[r].state = "open" PROVE res'[r].state # "gone"
    BY <1>1, <2>1
  <2> QED
    BY <1>1, <2>1
<1>3. Entry'
  BY DEF Entry, Streaming
<1>4. Shown'
  <2>1. ASSUME NEW d \in Calls \ {c}, active[d].on
        PROVE  /\ call[d].phase = "sse" /\ (active[d].away <=> Gone(d)')
               /\ \/ buffer[d].status = "failed"
                  \/ /\ buffer[d].status = "streaming"
                     /\ active[d].raw = buffer[d].raw
                     /\ active[d].text = buffer[d].text
    BY <1>2, <2>1 DEF Shown, Gone, Streaming
  <2>2. ASSUME active'[c].on
        PROVE  active[c].away <=> Gone(c)'
    BY <1>2, <2>2 DEF Shown, Gone
  <2> QED
    BY <2>1, <2>2 DEF Shown, Streaming
<1>5. ASSUME NEW d \in Calls \ {c}, call[d].phase # "over" PROVE res'[d] = res[d]
  <2>1. d \notin buffer[c].subs
    BY <1>1, TypesOf
  <2>2. d \notin buffer[c].rawSubs
    BY <1>5 DEF Subscribed
  <2> QED
    BY <1>1, <2>1, <2>2
<1>6. Waiting'
  <2>1. res'[c].state = "open" => res'[c].from = {c}
    BY <1>1 DEF Waiting
  <2> QED
    BY <1>5, <2>1 DEF Waiting, Gone, Has
<1>7. ASSUME NEW r \in Responses, NEW d \in Calls \ {c}, Carries(r, d)
      PROVE  res'[r] = res[r] /\ r # c
  <2>1. r # c
    BY <1>1, <1>7 DEF Followed, Follows, JoinerFollows
  <2>2. r \notin buffer[c].subs \cup buffer[c].rawSubs
    BY SMTT(30), <1>7 DEF Subscribed, Carries
  <2> QED
    BY <2>1, <2>2
<1>8. Subscribed'
  <2>1. ASSUME NEW d \in Calls, NEW r \in buffer'[d].subs
        PROVE  Streaming(d)' /\ IsOpen(r)' /\ Carries(r, d)'
    <3>1. d # c
      BY <2>1 DEF Subscribed
    <3>2. r \in Responses /\ Streaming(d) /\ IsOpen(r) /\ Carries(r, d)
      BY <1>1, <2>1, <3>1 DEF Subscribed
    <3> QED
      BY <1>7, <3>1, <3>2 DEF Streaming, IsOpen, Carries
  <2>2. ASSUME NEW d \in Calls, NEW r \in buffer'[d].rawSubs
        PROVE  call'[r].phase = "over" /\ Carries(r, d)'
    <3>1. r \in buffer[d].rawSubs
      BY <2>2
    <3>2. call[r].phase = "over" /\ Carries(r, d) /\ r \in Calls /\ r # c
      BY <1>1, <3>1 DEF Subscribed
    <3> QED
      BY <1>1, <3>2 DEF Carries
  <2> QED
    BY <2>1, <2>2 DEF Subscribed
<1>9. Followed'
  <2>1. ASSUME Carries(c, c) PROVE Follows(c, c)'
    <3>1. SenderFollows(c) /\ res[c].state # "ended"
      BY <1>1, <2>1 DEF Followed, Follows
    <3>2. res'[c].state = "ended" \/ IsOpen(c)' => IsOpen(c) /\ Has(c)' = Has(c)
      BY <1>1, <3>1 DEF IsOpen, Has
    <3>3. IsOpen(c) /\ IsComplete(c)' => Has(c) = buffer[c].raw
      BY <3>1 DEF SenderFollows, IsComplete, Streaming
    <3>4. SenderFollows(c)'
      BY <3>2, <3>3 DEF SenderFollows, Streaming, IsOpen
    <3> QED
      BY <1>1, <3>2, <3>3, <3>4 DEF Follows, Streaming, IsOpen
  <2>2. ASSUME NEW r \in Responses \ {c}, Carries(r, c)
        PROVE  Follows(r, c)'
    <3>1. Follows(r, c)
      BY <2>2 DEF Followed
    <3>2. CASE res[r].state # "open"
      <4>1. res'[r] = res[r]
        BY <3>2
      <4>2. r \in Calls => JoinerFollows(r, c)'
        BY <3>1, <3>2, <4>1 DEF Follows, JoinerFollows, IsOpen
      <4>3. r \in Readers => ReaderFollows(r, c)'
        BY <3>2, <4>1 DEF ReaderFollows, IsOpen
      <4>4. res[r].state = "ended" => buffer'[c] = buffer[c]
        BY <3>1 DEF Follows
      <4> QED
        BY <3>1, <4>1, <4>2, <4>3, <4>4 DEF Follows, Streaming, IsComplete, Has
    <3>3. CASE res[r].state = "open"
      <4>1. /\ Streaming(c)
            /\ r \in Calls => r \in buffer[c].rawSubs /\ Has(r) = buffer[c].raw
            /\ r \in Readers => r \in buffer[c].subs
        BY <3>1, <3>3 DEF Follows, JoinerFollows, ReaderFollows, IsOpen, Responses
      <4>2. /\ res'[r].state \in {"ended", "left"} /\ Has(r)' = Has(r)
            /\ r \in Readers => res'[r].text = buffer'[c].text
        BY <3>3, <4>1 DEF Responses, Has
      <4>3. r \in Calls => JoinerFollows(r, c)'
        BY <3>1, <4>2 DEF Follows, JoinerFollows, IsOpen
      <4>4. r \in Readers => ReaderFollows(r, c)'
        BY <4>2 DEF ReaderFollows, IsOpen
      <4> QED
        BY <4>1, <4>2, <4>3, <4>4 DEF Follows, Streaming, Responses
    <3> QED
      BY <3>2, <3>3
  <2>3. ASSUME NEW r \in Responses, NEW d \in Calls \ {c}, Carries(r, d)
        PROVE  Follows(r, d)'
    <3>1. Follows(r, d)
      BY <2>3 DEF Followed
    <3> QED
      BY <1>7, <2>3, <3>1, StillFollows
  <2> QED
    BY <2>1, <2>2, <2>3 DEF Followed, Carries
<1>10. OpenIsOwned'
  <2>1. SUFFICES ASSUME NEW r \in Responses, res'[r].state = "open"
                 PROVE  \/ r \in Calls /\ call'[r].phase \in {"reading", "sent", "sse", "plain"}
                        \/ \E id \in Calls : /\ Streaming(id)'
                                             /\ r \in buffer'[id].subs \cup buffer'[id].rawSubs
    BY DEF OpenIsOwned
  <2>2. res[r].state = "open"
    BY <2>1
  <2>3. CASE r = c
    BY <2>1, <2>2, <2>3
  <2>4. CASE r # c
    <3>1. r \notin buffer[c].subs \cup buffer[c].rawSubs
      BY <2>1, <2>2, <2>4
    <3> QED
      BY <2>2, <2>4, <3>1 DEF OpenIsOwned, Streaming
  <2> QED
    BY <2>3, <2>4
<1> QED
  BY <1>3, <1>4, <1>6, <1>8, <1>9, <1>10

\* The last writes to those that followed the stream.
LEMMA FinishWrote ==
  ASSUME Types, NEW c \in Calls, NEW t \in Size, NEW last \in Lasts
  PROVE  /\ FinishWrites(res, c, t, last) \in [Responses -> Response]
         /\ \A r \in Responses :
              /\ FinishWrites(res, c, t, last)[r].from = res[r].from
              /\ FinishWrites(res, c, t, last)[r].got = res[r].got
              /\ res[r].state # "open" => FinishWrites(res, c, t, last)[r] = res[r]
              /\ r \notin buffer[c].subs \cup buffer[c].rawSubs =>
                   FinishWrites(res, c, t, last)[r] = res[r]
              /\ res[r].state = "open" /\ r \in buffer[c].subs \cup buffer[c].rawSubs =>
                   FinishWrites(res, c, t, last)[r].state = "ended"
              /\ res[r].state = "open" /\ r \in buffer[c].subs =>
                   FinishWrites(res, c, t, last)[r].text = t
<1> DEFINE S == buffer[c].subs
           Q == buffer[c].rawSubs
           R1 == WriteText(res, S, t)
           R2 == End(R1, S, last)
           R3 == End(R2, Q, "done")
<1>1. res \in [Responses -> Response] /\ "done" \in Lasts
  BY TypesOf DEF Lasts
<1>2. /\ R1 \in [Responses -> Response]
      /\ \A r \in Responses :
           /\ R1[r].from = res[r].from /\ R1[r].got = res[r].got
           /\ R1[r].state = res[r].state
           /\ IF r \in S /\ res[r].state = "open" THEN R1[r].text = t ELSE R1[r] = res[r]
  BY <1>1, TextWrites
<1> HIDE DEF R1
<1>3. /\ R2 \in [Responses -> Response]
      /\ \A r \in Responses :
           /\ R2[r].from = R1[r].from /\ R2[r].got = R1[r].got /\ R2[r].text = R1[r].text
           /\ IF r \in S /\ R1[r].state = "open"
              THEN R2[r].state = "ended" ELSE R2[r] = R1[r]
  BY <1>2, EndWrites
<1> HIDE DEF R2
<1>4. /\ R3 \in [Responses -> Response]
      /\ \A r \in Responses :
           /\ R3[r].from = R2[r].from /\ R3[r].got = R2[r].got /\ R3[r].text = R2[r].text
           /\ IF r \in Q /\ R2[r].state = "open"
              THEN R3[r].state = "ended" ELSE R3[r] = R2[r]
  BY <1>1, <1>3, EndWrites
<1>5. FinishWrites(res, c, t, last) = R3
  BY DEF FinishWrites, R1, R2
<1> HIDE DEF R3, S, Q
<1>6. \A r \in Responses :
        /\ R3[r].from = res[r].from /\ R3[r].got = res[r].got
        /\ res[r].state # "open" => R3[r] = res[r]
        /\ r \notin S \cup Q => R3[r] = res[r]
        /\ res[r].state = "open" /\ r \in S \cup Q => R3[r].state = "ended"
        /\ res[r].state = "open" /\ r \in S => R3[r].text = t
  BY <1>2, <1>3, <1>4
<1> QED
  BY <1>4, <1>5, <1>6 DEF S, Q

\* What a finished entry holds.
LEMMA FinishedEntry ==
  ASSUME Types, NEW c \in Calls, NEW e \in Entries, NEW status \in {"completed", "failed"}
  PROVE  /\ Finish(e, status) \in Entries
         /\ Finish(e, status).status = status
         /\ Finish(e, status).plain = e.plain /\ Finish(e, status).raw = e.raw
         /\ Finish(e, status).text = e.text
         /\ Finish(e, status).subs = {} /\ Finish(e, status).rawSubs = {}
BY DEF Finish, Entries

LEMMA FlushedEntry ==
  ASSUME Types, NEW c \in Calls, NEW parses
  PROVE  /\ Flush(buffer[c], parses) \in Entries
         /\ Flush(buffer[c], parses).plain = buffer[c].plain
         /\ Flush(buffer[c], parses).raw = buffer[c].raw
         /\ Flush(buffer[c], parses).text = IF parses THEN buffer[c].raw ELSE buffer[c].text
         /\ Flush(buffer[c], parses).text \in Size
         /\ Flush(buffer[c], parses).text <= buffer[c].raw
<1>1. /\ buffer[c] \in Entries /\ buffer[c].text <= buffer[c].raw
      /\ buffer[c].raw \in Size /\ buffer[c].text \in Size
  BY DEF Types, Entries, Size
<1>2. CASE ~ parses
  BY <1>1, <1>2 DEF Flush
<1>3. CASE parses
  BY <1>1, <1>3, BufferAssumption DEF Flush, Entries, Size
<1> QED
  BY <1>2, <1>3

\* complete, abort and fail: the entry, and the responses R they leave.
LEMMA StreamFinished ==
  ASSUME Types, NEW c \in Calls, NEW parses, NEW R, NEW status,
         \/ /\ status = "completed" /\ buffer' = Complete(c, parses)
            /\ R = CompleteWrites(res, c, parses)
         \/ status = "failed" /\ buffer' = Fail(c) /\ R = FailWrites(res, c)
  PROVE  /\ buffer' \in [Calls -> Entries]
         /\ \A d \in Calls : buffer'[d].text <= buffer'[d].raw
         /\ \A d \in Calls \ {c} : buffer'[d] = buffer[d]
         /\ buffer'[c].status # "streaming" /\ buffer'[c].raw = buffer[c].raw
         /\ IF Streaming(c)
            THEN /\ buffer'[c].status = status
                 /\ status = "completed" =>
                      buffer'[c].text = (IF parses THEN buffer[c].raw ELSE buffer[c].text)
                 /\ buffer'[c].subs = {} /\ buffer'[c].rawSubs = {}
            ELSE buffer'[c] = buffer[c] /\ R = res
         /\ R \in [Responses -> Response]
         /\ \A r \in Responses :
              /\ R[r].from = res[r].from /\ R[r].got = res[r].got
              /\ res[r].state # "open" => R[r] = res[r]
              /\ r \notin buffer[c].subs \cup buffer[c].rawSubs => R[r] = res[r]
              /\ Streaming(c) /\ res[r].state = "open" =>
                   /\ r \in buffer[c].subs \cup buffer[c].rawSubs => R[r].state = "ended"
                   /\ r \in buffer[c].subs => R[r].text = buffer'[c].text
<1>1. /\ res \in [Responses -> Response] /\ buffer \in [Calls -> Entries]
      /\ \A d \in Calls : buffer[d].text <= buffer[d].raw
      /\ {"done", "error"} \subseteq Lasts
  BY DEF Types, Lasts
<1>2. CASE ~ Streaming(c)
  <2>1. buffer' = buffer /\ R = res
    BY <1>2 DEF Complete, CompleteWrites, Fail, FailWrites
  <2> QED
    BY <1>1, <1>2, <2>1 DEF Streaming
<1>3. CASE Streaming(c)
  <2>1. PICK e \in Entries, last \in Lasts :
          /\ e.plain = buffer[c].plain /\ e.raw = buffer[c].raw
          /\ e.text \in Size /\ e.text <= e.raw
          /\ status = "completed" =>
               e.text = (IF parses THEN buffer[c].raw ELSE buffer[c].text)
          /\ status \in {"completed", "failed"}
          /\ buffer' = [buffer EXCEPT ![c] = Finish(e, status)]
          /\ R = FinishWrites(res, c, e.text, last)
    <3>1. CASE /\ status = "completed" /\ buffer' = Complete(c, parses)
               /\ R = CompleteWrites(res, c, parses)
      <4> DEFINE e == Flush(buffer[c], parses)
      <4>1. /\ buffer' = [buffer EXCEPT ![c] = Finish(e, status)]
            /\ R = FinishWrites(res, c, e.text, "done")
        BY <1>3, <3>1 DEF Complete, CompleteWrites
      <4>2. /\ e \in Entries /\ e.plain = buffer[c].plain /\ e.raw = buffer[c].raw
            /\ e.text = (IF parses THEN buffer[c].raw ELSE buffer[c].text)
            /\ e.text \in Size /\ e.text <= e.raw
        BY FlushedEntry
      <4> HIDE DEF e
      <4> QED
        BY <1>1, <3>1, <4>1, <4>2
    <3>2. CASE status = "failed" /\ buffer' = Fail(c) /\ R = FailWrites(res, c)
      <4>1. /\ buffer' = [buffer EXCEPT ![c] = Finish(buffer[c], status)]
            /\ R = FinishWrites(res, c, buffer[c].text, "error")
        BY <1>3, <3>2 DEF Fail, FailWrites
      <4>2. buffer[c] \in Entries /\ buffer[c].text \in Size
        BY <1>1 DEF Entries, Size
      <4> QED
        BY <1>1, <3>2, <4>1, <4>2
    <3> QED
      BY <3>1, <3>2
  <2> DEFINE f == Finish(e, status)
  <2>2. /\ f \in Entries /\ f.status = status /\ f.plain = e.plain /\ f.raw = e.raw
        /\ f.text = e.text /\ f.subs = {} /\ f.rawSubs = {}
    BY <2>1, FinishedEntry
  <2>3. buffer' = [buffer EXCEPT ![c] = f]
    BY <2>1
  <2> HIDE DEF f
  <2>4. /\ buffer' \in [Calls -> Entries] /\ buffer'[c] = f
        /\ \A d \in Calls \ {c} : buffer'[d] = buffer[d]
    BY <1>1, <2>2, <2>3
  <2>5. \A d \in Calls : buffer'[d].text <= buffer'[d].raw
    BY <1>1, <2>1, <2>2, <2>4
  <2>6. /\ R \in [Responses -> Response]
        /\ \A r \in Responses :
             /\ R[r].from = res[r].from /\ R[r].got = res[r].got
             /\ res[r].state # "open" => R[r] = res[r]
             /\ r \notin buffer[c].subs \cup buffer[c].rawSubs => R[r] = res[r]
             /\ res[r].state = "open" =>
                  /\ r \in buffer[c].subs \cup buffer[c].rawSubs => R[r].state = "ended"
                  /\ r \in buffer[c].subs => R[r].text = e.text
    BY <2>1, FinishWrote
  <2> QED
    BY <1>3, <2>1, <2>2, <2>4, <2>5, <2>6
<1> QED
  BY <1>2, <1>3

\* An open follower of a stream that no longer runs: there is none.
LEMMA OpenSubscribers ==
  ASSUME IInv, NEW c \in Calls, ~ Streaming(c), NEW r \in Responses,
         r \in buffer[c].subs \cup buffer[c].rawSubs
  PROVE  res[r].state # "open"
<1> USE DEF IInv
<1>1. CASE r \in buffer[c].subs
  BY <1>1 DEF Subscribed
<1>2. CASE r \in buffer[c].rawSubs
  <2>1. Carries(r, c) /\ r \in Calls /\ call[r].phase = "over"
    BY <1>2, TypesOf DEF Subscribed
  <2>2. r # c => JoinerFollows(r, c)
    BY <2>1 DEF Followed, Follows
  <2>3. r = c => SenderFollows(c)
    BY <2>1 DEF Followed, Follows
  <2> QED
    BY <2>1, <2>2, <2>3 DEF JoinerFollows, SenderFollows, IsOpen
<1> QED
  BY <1>1, <1>2

\* The upstream's stream is over: the entry is finished, the call as well.
LEMMA StreamOverIInv ==
  ASSUME IInv, NEW c \in Calls, call[c].phase = "sse", call' = Over(c),
         monitor' = monitor \ {c}, UNCHANGED <<hash, pending, aborted>>,
         NEW parses, EndStream(c, parses, FALSE), NEW R, NEW last \in Lasts,
         \/ buffer' = Complete(c, parses) /\ R = CompleteWrites(res, c, parses)
         \/ buffer' = Fail(c) /\ R = FailWrites(res, c),
         res' = End(R, {c}, last)
  PROVE  IInv'
<1> USE DEF IInv
<1>1. /\ call' \in [Calls -> CallTypes] /\ call'[c].phase = "over" /\ ~ call'[c].live
      /\ \A d \in Calls \ {c} : call'[d] = call[d]
  BY OverTyped
<1>2. /\ active' \in [Calls -> ActiveTypes]
      /\ ~ active'[c].on /\ \A d \in Calls \ {c} : active'[d] = active[d]
  BY StreamHidden
<1>3. /\ buffer' \in [Calls -> Entries]
      /\ \A d \in Calls : buffer'[d].text <= buffer'[d].raw
      /\ \A d \in Calls \ {c} : buffer'[d] = buffer[d]
      /\ buffer'[c].status # "streaming" /\ buffer'[c].raw = buffer[c].raw
      /\ IF Streaming(c)
         THEN buffer'[c].subs = {} /\ buffer'[c].rawSubs = {}
         ELSE buffer'[c] = buffer[c]
      /\ R \in [Responses -> Response]
      /\ \A r \in Responses :
           /\ R[r].from = res[r].from /\ R[r].got = res[r].got
           /\ res[r].state # "open" => R[r] = res[r]
           /\ r \notin buffer[c].subs \cup buffer[c].rawSubs => R[r] = res[r]
           /\ Streaming(c) /\ res[r].state = "open" =>
                /\ r \in buffer[c].subs \cup buffer[c].rawSubs => R[r].state = "ended"
                /\ r \in buffer[c].subs => R[r].text = buffer'[c].text
  <2>1. PICK status :
          \/ /\ status = "completed" /\ buffer' = Complete(c, parses)
             /\ R = CompleteWrites(res, c, parses)
          \/ status = "failed" /\ buffer' = Fail(c) /\ R = FailWrites(res, c)
    OBVIOUS
  <2> QED
    BY <2>1, StreamFinished
<1>4. /\ res' \in [Responses -> Response]
      /\ \A r \in Responses :
           /\ res'[r].from = R[r].from /\ res'[r].got = R[r].got /\ res'[r].text = R[r].text
           /\ IF r \in {c} /\ R[r].state = "open"
              THEN res'[r].state = "ended" ELSE res'[r] = R[r]
  BY <1>3, EndWrites
<1>5. c \in Responses /\ c \notin buffer[c].subs /\ c \notin buffer[c].rawSubs
  BY TypesOf DEF Subscribed
<1>6. ASSUME NEW r \in Responses
      PROVE  /\ res'[r].from = res[r].from /\ res'[r].got = res[r].got
             /\ res[r].state # "open" => res'[r] = res[r]
             /\ r \notin {c} \cup buffer[c].subs \cup buffer[c].rawSubs => res'[r] = res[r]
             /\ res[r].state = "open" /\ r # c /\ r \in buffer[c].subs \cup buffer[c].rawSubs =>
                  /\ res'[r].state \in {"ended", "left"}
                  /\ r \in buffer[c].subs => res'[r].text = buffer'[c].text
  BY ZenonT(40), <1>3, <1>4, OpenSubscribers
<1>7. res[c].state = "open" => res'[c].state = "ended"
  BY ZenonT(40), <1>3, <1>4, <1>5
<1>8. Types'
  BY <1>1, <1>2, <1>3, <1>4 DEF Types, CallTypes, ActiveTypes
<1>9. Registered'
  BY <1>1 DEF Registered
<1>10. Entry' /\ Shown' /\ Waiting' /\ Subscribed' /\ Followed' /\ OpenIsOwned'
  BY ZenonT(40), <1>1, <1>2, <1>3, <1>6, <1>7, FinishStep
<1> QED
  BY <1>8, <1>9, <1>10

LEMMA StreamEndsIInv ==
  ASSUME IInv, NEW c \in Calls, NEW parses, StreamEnds(c, parses) PROVE IInv'
<1> DEFINE R == CompleteWrites(res, c, parses)
<1>1. /\ call[c].phase = "sse" /\ call' = Over(c) /\ monitor' = monitor \ {c}
      /\ EndStream(c, parses, FALSE) /\ buffer' = Complete(c, parses)
      /\ res' = End(R, {c}, "done") /\ UNCHANGED <<hash, pending, aborted>>
      /\ "done" \in Lasts
  BY DEF StreamEnds, Lasts
<1>2. R = CompleteWrites(res, c, parses)
  OBVIOUS
<1> HIDE DEF R
<1> QED
  BY <1>1, <1>2, StreamOverIInv

LEMMA StreamBreaksIInv ==
  ASSUME IInv, NEW c \in Calls, NEW reset, NEW parses, StreamBreaks(c, reset, parses)
  PROVE  IInv'
<1> DEFINE R == FailWrites(res, c)
           last == IF reset THEN "502" ELSE "done"
<1>1. /\ call[c].phase = "sse" /\ call' = Over(c) /\ monitor' = monitor \ {c}
      /\ EndStream(c, parses, FALSE) /\ buffer' = Fail(c)
      /\ res' = End(R, {c}, last) /\ UNCHANGED <<hash, pending, aborted>>
      /\ last \in Lasts
  BY DEF StreamBreaks, Lasts
<1>2. R = FailWrites(res, c)
  OBVIOUS
<1> HIDE DEF R, last
<1> QED
  BY <1>1, <1>2, StreamOverIInv

\* The call goes on after its upstream request is destroyed.
LEMMA Destroyed ==
  ASSUME Types, NEW c \in Calls, call' = [call EXCEPT ![c].live = FALSE]
  PROVE  /\ call' \in [Calls -> CallTypes]
         /\ call'[c].phase = call[c].phase /\ call'[c].n = call[c].n /\ ~ call'[c].live
         /\ \A d \in Calls \ {c} : call'[d] = call[d]
<1>1. call \in [Calls -> CallTypes]
  BY TypesOf
<1> QED
  BY <1>1 DEF CallTypes

LEMMA AbortStreamIInv ==
  ASSUME IInv, NEW c \in Calls, NEW parses, AbortStream(c, parses) PROVE IInv'
<1> USE DEF IInv
<1>1. /\ Streaming(c) /\ call[c].phase = "sse"
      /\ call' = [call EXCEPT ![c].live = FALSE]
      /\ buffer' = Complete(c, parses) /\ res' = CompleteWrites(res, c, parses)
      /\ EndStream(c, parses, FALSE)
      /\ UNCHANGED <<hash, pending, aborted, monitor>>
  BY DEF AbortStream, Abort, registries, Entry
<1>2. /\ call' \in [Calls -> CallTypes] /\ call'[c].phase = "sse" /\ ~ call'[c].live
      /\ \A d \in Calls \ {c} : call'[d] = call[d]
  BY <1>1, Destroyed
<1>3. /\ active' \in [Calls -> ActiveTypes]
      /\ ~ active'[c].on /\ \A d \in Calls \ {c} : active'[d] = active[d]
  BY <1>1, StreamHidden
<1>4. /\ buffer' \in [Calls -> Entries]
      /\ \A d \in Calls : buffer'[d].text <= buffer'[d].raw
      /\ \A d \in Calls \ {c} : buffer'[d] = buffer[d]
      /\ buffer'[c].status # "streaming" /\ buffer'[c].raw = buffer[c].raw
      /\ buffer'[c].subs = {} /\ buffer'[c].rawSubs = {}
      /\ res' \in [Responses -> Response]
      /\ \A r \in Responses :
           /\ res'[r].from = res[r].from /\ res'[r].got = res[r].got
           /\ res[r].state # "open" => res'[r] = res[r]
           /\ r \notin buffer[c].subs \cup buffer[c].rawSubs => res'[r] = res[r]
           /\ res[r].state = "open" =>
                /\ r \in buffer[c].subs \cup buffer[c].rawSubs => res'[r].state = "ended"
                /\ r \in buffer[c].subs => res'[r].text = buffer'[c].text
  <2>1. PICK R, status :
          \/ /\ status = "completed" /\ buffer' = Complete(c, parses)
             /\ R = CompleteWrites(res, c, parses) /\ R = res'
          \/ status = "failed" /\ buffer' = Fail(c) /\ R = FailWrites(res, c) /\ R = res'
    BY <1>1
  <2>2. R = res' /\ Types
    BY <1>1, <2>1
  <2>3. /\ buffer' \in [Calls -> Entries]
        /\ \A d \in Calls : buffer'[d].text <= buffer'[d].raw
        /\ \A d \in Calls \ {c} : buffer'[d] = buffer[d]
        /\ buffer'[c].status # "streaming" /\ buffer'[c].raw = buffer[c].raw
        /\ IF Streaming(c)
           THEN buffer'[c].subs = {} /\ buffer'[c].rawSubs = {}
           ELSE buffer'[c] = buffer[c]
        /\ R \in [Responses -> Response]
        /\ \A r \in Responses :
             /\ R[r].from = res[r].from /\ R[r].got = res[r].got
             /\ res[r].state # "open" => R[r] = res[r]
             /\ r \notin buffer[c].subs \cup buffer[c].rawSubs => R[r] = res[r]
             /\ Streaming(c) /\ res[r].state = "open" =>
                  /\ r \in buffer[c].subs \cup buffer[c].rawSubs => R[r].state = "ended"
                  /\ r \in buffer[c].subs => R[r].text = buffer'[c].text
    BY <2>1, <2>2, StreamFinished
  <2> QED
    BY <1>1, <2>2, <2>3
<1>5. c \in Responses /\ c \notin buffer[c].subs /\ c \notin buffer[c].rawSubs
  BY <1>1, TypesOf DEF Subscribed
<1>6. res'[c] = res[c]
  BY <1>4, <1>5
<1>7. Types'
  BY <1>1, <1>2, <1>3, <1>4 DEF Types, CallTypes, ActiveTypes
<1>8. Registered'
  <2>1. c \notin pending /\ c \notin aborted
    BY <1>1 DEF Registered
  <2> QED
    BY <1>1, <1>2, <2>1 DEF Registered
<1>9. Entry' /\ Shown' /\ Waiting' /\ Subscribed' /\ Followed' /\ OpenIsOwned'
  BY <1>1, <1>2, <1>3, <1>4, <1>6, FinishStep
<1> QED
  BY <1>7, <1>8, <1>9

LEMMA ZombieIInv == ASSUME IInv, NEW c \in Calls, Zombie(c) PROVE IInv'
<1> USE DEF IInv
<1>1. /\ Streaming(c) /\ call[c].phase = "sse"
      /\ call' = [call EXCEPT ![c].live = FALSE]
      /\ buffer' = ZombieEntry(c) /\ res' = ZombieWrites(c)
      /\ UNCHANGED <<hash, active, pending, aborted, monitor>>
      /\ buffer \in [Calls -> Entries] /\ res \in [Responses -> Response]
      /\ "error" \in Lasts
  BY TypesOf DEF Zombie, registries, Entry, Types, Lasts
<1>2. /\ call' \in [Calls -> CallTypes] /\ call'[c].phase = "sse" /\ ~ call'[c].live
      /\ \A d \in Calls \ {c} : call'[d] = call[d]
  BY <1>1, Destroyed
<1> DEFINE q == [buffer[c] EXCEPT !.status = "failed", !.subs = {}]
<1>3. /\ q \in Entries /\ q.status = "failed" /\ q.raw = buffer[c].raw
      /\ q.text = buffer[c].text /\ q.subs = {} /\ q.rawSubs = buffer[c].rawSubs
  <2>1. buffer[c] \in Entries
    BY <1>1
  <2> QED
    BY <2>1 DEF Entries
<1>4. buffer' = [buffer EXCEPT ![c] = q]
  BY <1>1 DEF ZombieEntry
<1> HIDE DEF q
<1>5. /\ buffer' \in [Calls -> Entries] /\ buffer'[c] = q
      /\ \A d \in Calls \ {c} : buffer'[d] = buffer[d]
  BY <1>1, <1>3, <1>4
<1>6. /\ res' \in [Responses -> Response]
      /\ \A r \in Responses :
           /\ res'[r].from = res[r].from /\ res'[r].got = res[r].got
           /\ res'[r].text = res[r].text
           /\ res[r].state # "open" => res'[r] = res[r]
           /\ r \notin buffer[c].subs \cup buffer[c].rawSubs => res'[r] = res[r]
           /\ res[r].state = "open" /\ r \in buffer[c].subs \cup buffer[c].rawSubs =>
                res'[r].state \in {"ended", "left"}
  <2> DEFINE R == End(res, buffer[c].subs, "error")
             e(r) == [res[r] EXCEPT !.state = "left"]
  <2>1. /\ R \in [Responses -> Response]
        /\ \A r \in Responses :
             /\ R[r].from = res[r].from /\ R[r].got = res[r].got /\ R[r].text = res[r].text
             /\ IF r \in buffer[c].subs /\ res[r].state = "open"
                THEN R[r].state = "ended" ELSE R[r] = res[r]
    BY <1>1, EndWrites
  <2>2. \A r \in Responses :
          /\ e(r) \in Response /\ e(r).from = res[r].from /\ e(r).got = res[r].got
          /\ e(r).text = res[r].text /\ e(r).state = "left"
    BY <1>1 DEF Response, States
  <2>3. res' = [r \in Responses |-> IF r \in buffer[c].rawSubs /\ res[r].state = "open"
                                    THEN e(r) ELSE R[r]]
    BY <1>1 DEF ZombieWrites, Writable
  <2> HIDE DEF R, e
  <2> QED
    BY <2>1, <2>2, <2>3
<1>7. /\ \A d \in Calls : buffer'[d].text <= buffer'[d].raw
      /\ \A d \in Calls \ {c} : buffer'[d] = buffer[d] /\ active'[d] = active[d]
  BY <1>1, <1>3, <1>5 DEF Types
<1>8. \A r \in buffer[c].subs : Carries(r, c) /\ res[r].text = buffer[c].text
  <2>1. ASSUME NEW r \in buffer[c].subs PROVE ReaderFollows(r, c) /\ IsOpen(r) /\ Carries(r, c)
    <3>1. r \in Readers /\ r \in Responses
      BY TypesOf
    <3> QED
      BY <3>1 DEF Subscribed, Followed, Follows
  <2> QED
    BY <2>1 DEF ReaderFollows
<1>9. c \in Responses /\ c \notin buffer[c].subs /\ c \notin buffer[c].rawSubs
  BY <1>1, TypesOf DEF Subscribed
<1>10. Types'
  BY <1>1, <1>2, <1>5, <1>6, <1>7 DEF Types, CallTypes
<1>11. Registered'
  <2>1. c \notin pending /\ c \notin aborted
    BY <1>1 DEF Registered
  <2> QED
    BY <1>1, <1>2, <2>1 DEF Registered
<1>12. ASSUME NEW r \in Responses
       PROVE  /\ res'[r].from = res[r].from /\ res'[r].got = res[r].got
              /\ res[r].state # "open" => res'[r] = res[r]
              /\ r \notin {c} \cup buffer[c].subs \cup buffer[c].rawSubs => res'[r] = res[r]
              /\ res[r].state = "open" /\ r # c /\ r \in buffer[c].subs \cup buffer[c].rawSubs =>
                   /\ res'[r].state \in {"ended", "left"}
                   /\ r \in buffer[c].subs => res'[r].text = buffer'[c].text
  BY <1>3, <1>5, <1>6, <1>8
<1>13. /\ res[c].state = "open" => res'[c].state = "open"
       /\ buffer'[c].status = "failed" /\ buffer'[c].raw = buffer[c].raw
       /\ buffer'[c].subs = {} /\ buffer'[c].rawSubs \subseteq buffer[c].rawSubs
  BY <1>3, <1>5, <1>6, <1>9
<1>14. active'[c] = active[c] /\ UNCHANGED hash
  BY <1>1
<1>15. Entry' /\ Shown' /\ Waiting' /\ Subscribed' /\ Followed' /\ OpenIsOwned'
  BY <1>1, <1>2, <1>7, <1>12, <1>13, <1>14, FinishStep
<1> QED
  BY <1>10, <1>11, <1>15

LEMMA BroadcastZombieIInv ==
  ASSUME IInv, NEW c \in Calls, NEW parses, BroadcastZombie(c, parses) PROVE IInv'
<1> USE DEF IInv
<1>1. /\ EndStream(c, parses, TRUE)
      /\ UNCHANGED <<buffer, res, hash, call, pending, aborted, monitor>>
  BY DEF BroadcastZombie, registries
<1>2. /\ active' \in [Calls -> ActiveTypes]
      /\ ~ active'[c].on /\ \A d \in Calls \ {c} : active'[d] = active[d]
  BY <1>1, StreamHidden
<1>3. Types'
  BY <1>1, <1>2 DEF Types, ActiveTypes
<1>4. Entry' /\ Waiting' /\ Registered' /\ Subscribed' /\ OpenIsOwned'
  BY <1>1 DEF Entry, Waiting, Registered, Subscribed, OpenIsOwned, Streaming, Gone, Has,
     IsOpen, Carries
<1>5. Shown'
  BY <1>1, <1>2 DEF Shown, Streaming, Gone
<1>6. Followed'
  <2>1. ASSUME NEW r \in Responses, NEW d \in Calls, Carries(r, d)'
        PROVE  Follows(r, d)'
    <3>1. Follows(r, d)
      BY <1>1, <2>1 DEF Followed, Carries
    <3> QED
      BY <1>1, <3>1, StillFollows
  <2> QED
    BY <2>1 DEF Followed
<1> QED
  BY <1>3, <1>4, <1>5, <1>6

\* What a chunk of a stream writes: to the sender, to the joiners, and, when
\* it completes the line, the text to its readers.
LEMMA StreamChunkWrote ==
  ASSUME IInv, NEW c \in Calls, NEW line, StreamChunk(c, line)
  PROVE  /\ res' \in [Responses -> Response]
         /\ \A r \in Responses :
              /\ res'[r].from = res[r].from /\ res'[r].state = res[r].state
              /\ res'[r].last = res[r].last
              /\ r \notin {c} \cup buffer[c].subs \cup buffer[c].rawSubs => res'[r] = res[r]
              /\ res[r].state = "open" /\ r \in {c} \cup buffer[c].rawSubs =>
                   Len(res'[r].got) = buffer[c].raw + 1
              /\ res[r].state # "open" => res'[r] = res[r]
              /\ res'[r].text = IF line /\ r \in buffer[c].subs /\ res[r].state = "open"
                                THEN buffer[c].raw + 1 ELSE res[r].text
<1> USE DEF IInv
<1> DEFINE n == buffer[c].raw
           S == buffer[c].subs
           Q == buffer[c].rawSubs
           R1 == WriteChunk(res, {c}, n + 1)
           R2 == WriteChunk(R1, Q, n + 1)
           R3 == IF line THEN WriteText(R2, S, n + 1) ELSE R2
<1>1. /\ Streaming(c) /\ call[c].phase = "sse" /\ n < MaxChunks
      /\ res' = AddChunkWrites(R1, c, line)
  BY DEF StreamChunk, Entry
<1>2. res' = R3
  BY <1>1 DEF AddChunkWrites
<1>3. /\ n \in Size /\ n + 1 \in Size /\ res \in [Responses -> Response]
      /\ c \in Responses /\ c \notin Readers /\ c \notin Q
      /\ S \subseteq Readers /\ Q \subseteq Responses
  <2>1. buffer[c] \in Entries
    BY TypesOf
  <2>2. n \in Size /\ n + 1 \in Size
    BY <1>1, <2>1, BufferAssumption DEF Entries, Size
  <2>3. c \notin Q
    BY <1>1 DEF Subscribed
  <2>4. \A r \in Q : r \in Responses
    BY TypesOf
  <2> QED
    BY <2>2, <2>3, <2>4, TypesOf
<1>4. \A r \in Responses : res[r].state = "open" /\ r \in {c} \cup Q => Len(res[r].got) = n
  <2>1. res[c].state = "open" => Len(res[c].got) = n
    <3>1. res[c].state = "open" => Carries(c, c)
      BY <1>1 DEF Waiting, Carries
    <3> QED
      BY <1>1, <1>3, <3>1 DEF Followed, Follows, SenderFollows, IsOpen, Has
  <2>2. ASSUME NEW r \in Q, res[r].state = "open" PROVE Len(res[r].got) = n
    <3>1. Carries(r, c) /\ r \in Calls /\ r # c /\ r \in Responses
      BY <1>3, TypesOf DEF Subscribed
    <3> QED
      BY <2>2, <3>1 DEF Followed, Follows, JoinerFollows, IsOpen, Has
  <2> QED
    BY <2>1, <2>2
<1> HIDE DEF n, S, Q
<1>5. /\ R1 \in [Responses -> Response]
      /\ \A r \in Responses :
           /\ R1[r].from = res[r].from /\ R1[r].text = res[r].text
           /\ R1[r].state = res[r].state /\ R1[r].last = res[r].last
           /\ IF r \in {c} /\ res[r].state = "open"
              THEN Len(R1[r].got) = n + 1 ELSE R1[r] = res[r]
  <2>1. \A r \in Responses : r \in {c} /\ res[r].state = "open" => Len(res[r].got) = n
    BY <1>4
  <2> QED
    BY <1>1, <1>3, <2>1, ChunkWrites
<1> HIDE DEF R1
<1>6. /\ R2 \in [Responses -> Response]
      /\ \A r \in Responses :
           /\ R2[r].from = R1[r].from /\ R2[r].text = R1[r].text
           /\ R2[r].state = R1[r].state /\ R2[r].last = R1[r].last
           /\ IF r \in Q /\ R1[r].state = "open"
              THEN Len(R2[r].got) = n + 1 ELSE R2[r] = R1[r]
  <2>1. \A r \in Responses : r \in Q /\ R1[r].state = "open" => Len(R1[r].got) = n
    BY <1>3, <1>4, <1>5
  <2> QED
    BY <1>1, <1>3, <1>5, <2>1, ChunkWrites
<1> HIDE DEF R2
<1>7. /\ R3 \in [Responses -> Response]
      /\ \A r \in Responses :
           /\ R3[r].from = R2[r].from /\ R3[r].got = R2[r].got
           /\ R3[r].state = R2[r].state /\ R3[r].last = R2[r].last
           /\ IF line /\ r \in S /\ R2[r].state = "open"
              THEN R3[r].text = n + 1 ELSE R3[r] = R2[r]
  BY <1>3, <1>6, TextWrites
<1> HIDE DEF R3
<1>8. \A r \in Responses :
        /\ R3[r].from = res[r].from /\ R3[r].state = res[r].state /\ R3[r].last = res[r].last
        /\ r \notin {c} \cup S \cup Q => R3[r] = res[r]
        /\ res[r].state = "open" /\ r \in {c} \cup Q => Len(R3[r].got) = n + 1
        /\ res[r].state # "open" => R3[r] = res[r]
        /\ R3[r].text = IF line /\ r \in S /\ res[r].state = "open"
                        THEN n + 1 ELSE res[r].text
  <2> TAKE r \in Responses
  <2>1. /\ R3[r].from = res[r].from /\ R3[r].state = res[r].state /\ R3[r].last = res[r].last
        /\ r \notin {c} \cup S \cup Q => R3[r] = res[r]
        /\ res[r].state # "open" => R3[r] = res[r]
    BY <1>5, <1>6, <1>7
  <2>2. res[r].state = "open" /\ r \in {c} \cup Q => Len(R3[r].got) = n + 1
    BY <1>5, <1>6, <1>7
  <2>3. R3[r].text = IF line /\ r \in S /\ res[r].state = "open" THEN n + 1 ELSE res[r].text
    BY <1>5, <1>6, <1>7
  <2> QED
    BY <2>1, <2>2, <2>3
<1> QED
  BY <1>2, <1>7, <1>8 DEF n, S, Q

LEMMA StreamChunkIInv ==
  ASSUME IInv, NEW c \in Calls, NEW line, StreamChunk(c, line) PROVE IInv'
<1> USE DEF IInv
<1>1. /\ Streaming(c) /\ call[c].phase = "sse" /\ buffer[c].raw < MaxChunks
      /\ buffer' = AddChunk(c, line) /\ ProcessStreamChunk(c, line)
      /\ UNCHANGED <<hash, call, pending, aborted, monitor>>
      /\ c \in Responses /\ c \notin Readers
  BY TypesOf DEF StreamChunk, Entry, registries
<1> DEFINE n == buffer[c].raw
           t == IF line THEN n + 1 ELSE buffer[c].text
           q == [buffer[c] EXCEPT !.raw = n + 1, !.text = t]
<1>2. /\ res' \in [Responses -> Response]
      /\ \A r \in Responses :
           /\ res'[r].from = res[r].from /\ res'[r].state = res[r].state
           /\ r \notin {c} \cup buffer[c].subs \cup buffer[c].rawSubs => res'[r] = res[r]
           /\ res[r].state = "open" /\ r \in {c} \cup buffer[c].rawSubs =>
                Len(res'[r].got) = n + 1
           /\ res[r].state # "open" => res'[r] = res[r]
           /\ res'[r].text = IF line /\ r \in buffer[c].subs /\ res[r].state = "open"
                             THEN n + 1 ELSE res[r].text
  BY StreamChunkWrote
<1>3. /\ buffer[c] \in Entries /\ n + 1 \in Size /\ t \in Size /\ t <= n + 1
      /\ buffer \in [Calls -> Entries]
  <2>1. /\ buffer[c] \in Entries /\ buffer[c].text <= n /\ buffer \in [Calls -> Entries]
        /\ n \in 0 .. MaxChunks /\ buffer[c].text \in 0 .. MaxChunks
    BY DEF Types, Entries
  <2> QED
    BY <1>1, <2>1, BufferAssumption DEF Size
<1>4. buffer' = [buffer EXCEPT ![c] = q]
  BY <1>1, <1>3 DEF AddChunk, Entries
<1>5. /\ q \in Entries /\ q.raw = n + 1 /\ q.text = t
      /\ q.status = "streaming" /\ q.plain = buffer[c].plain
      /\ q.subs = buffer[c].subs /\ q.rawSubs = buffer[c].rawSubs
  <2> HIDE DEF t, n
  <2> QED
    BY <1>1, <1>3 DEF Entries, Size, Streaming
<1> HIDE DEF q
<1>6. /\ buffer' \in [Calls -> Entries] /\ buffer'[c] = q
      /\ \A d \in Calls \ {c} : buffer'[d] = buffer[d]
  BY <1>3, <1>4, <1>5
<1>7. /\ active' \in [Calls -> ActiveTypes]
      /\ \A d \in Calls \ {c} : active'[d] = active[d]
      /\ active'[c].on => /\ active[c].on /\ (active'[c].away <=> active[c].away)
                          /\ active'[c].raw = n + 1 /\ active'[c].text = t
  <2>1. active \in [Calls -> ActiveTypes]
    BY DEF Types, ActiveTypes
  <2>2. CASE ~ active[c].on
    BY <2>1, <2>2 DEF ProcessStreamChunk, StreamChunk
  <2>3. CASE active[c].on
    <3>1. active[c].raw = n /\ active[c].text = buffer[c].text
      BY <1>1, <2>3 DEF Shown, Streaming
    <3> DEFINE a == [active[c] EXCEPT !.raw = n + 1, !.text = t]
    <3>2. /\ a \in ActiveTypes /\ a.raw = n + 1 /\ a.text = t
          /\ a.on = active[c].on /\ a.away = active[c].away
      <4>1. active[c] \in ActiveTypes
        BY <2>1
      <4> HIDE DEF t, n
      <4> QED
        BY <1>3, <4>1 DEF ActiveTypes
    <3>3. active' = [active EXCEPT ![c] = a]
      BY <1>1, <2>1, <2>3, <3>1 DEF ProcessStreamChunk, ActiveTypes
    <3> HIDE DEF a, t, n
    <3>4. active'[c] = a /\ \A d \in Calls \ {c} : active'[d] = active[d]
      BY <2>1, <3>3
    <3>5. active' \in [Calls -> ActiveTypes]
      BY <2>1, <3>2, <3>3
    <3>6. active[c].on /\ (active'[c].away <=> active[c].away)
      BY <2>3, <3>2, <3>4, Zenon
    <3> QED
      BY <3>2, <3>4, <3>5, <3>6
  <2> QED
    BY <2>2, <2>3
<1>8. Types'
  <2>1. \A d \in Calls : buffer'[d].text <= buffer'[d].raw
    BY <1>3, <1>5, <1>6 DEF Types
  <2> QED
    BY <1>1, <1>2, <1>6, <1>7, <2>1 DEF Types, ActiveTypes
<1>9. Entry'
  BY <1>1, <1>5, <1>6 DEF Entry, Streaming
<1>10. /\ \A d \in Calls : res'[d].state = res[d].state /\ res'[d].from = res[d].from
       /\ \A d \in Calls \ {c} : call[d].phase # "over" => res'[d] = res[d]
  <2>1. \A d \in Calls : d \in Responses /\ d \notin buffer[c].subs
    BY TypesOf
  <2>2. \A d \in buffer[c].rawSubs : call[d].phase = "over"
    BY DEF Subscribed
  <2> QED
    BY <1>2, <2>1, <2>2
<1>11. Shown'
  <2>1. ASSUME NEW d \in Calls \ {c}, active'[d].on
        PROVE  /\ call[d].phase = "sse" /\ (active'[d].away <=> Gone(d)')
               /\ \/ buffer[d].status = "failed"
                  \/ /\ buffer[d].status = "streaming"
                     /\ active'[d].raw = buffer[d].raw
                     /\ active'[d].text = buffer[d].text
    BY <1>7, <1>10, <2>1 DEF Shown, Gone, Streaming
  <2>2. ASSUME active'[c].on PROVE active'[c].away <=> Gone(c)'
    BY <1>7, <1>10, <2>2 DEF Shown, Gone
  <2> QED
    BY <1>1, <1>5, <1>6, <1>7, <2>1, <2>2 DEF Shown, Streaming
<1>12. Waiting'
  <2>1. \A d \in Calls : call[d].phase \in {"none", "reading", "sent"} => Has(d)' = Has(d)
    BY <1>1, <1>10 DEF Has
  <2> QED
    BY <1>1, <1>10, <2>1 DEF Waiting, Gone
<1>13. Registered'
  BY <1>1 DEF Registered
<1>14. Subscribed'
  <2>1. \A r \in Responses : (IsOpen(r)' <=> IsOpen(r)) /\ \A d : Carries(r, d)' <=> Carries(r, d)
    BY <1>2 DEF IsOpen, Carries
  <2>2. ASSUME NEW d \in Calls
        PROVE  /\ buffer'[d].subs = buffer[d].subs /\ buffer'[d].rawSubs = buffer[d].rawSubs
               /\ Streaming(d)' <=> Streaming(d)
               /\ buffer[d].subs \subseteq Responses /\ buffer[d].rawSubs \subseteq Responses
    BY <1>1, <1>5, <1>6, TypesOf DEF Streaming
  <2> QED
    BY <1>1, <2>1, <2>2 DEF Subscribed
<1>15. ASSUME NEW r \in Responses, Carries(r, c) PROVE Follows(r, c)'
  <2>1. Follows(r, c) /\ res[r].state # "ended"
    BY <1>1, <1>15 DEF Followed, Follows
  <2>2. CASE r = c
    <3>1. SenderFollows(c)
      BY <2>1, <2>2 DEF Follows
    <3>2. IsOpen(c)' => IsOpen(c) /\ Has(c)' = buffer'[c].raw
      BY <1>1, <1>2, <1>5, <1>6 DEF IsOpen, Has
    <3>3. SenderFollows(c)'
      BY <1>1, <3>1, <3>2 DEF SenderFollows, IsOpen
    <3> QED
      BY <1>1, <1>2, <2>1, <2>2, <3>3 DEF Follows
  <2>3. CASE r # c /\ r \in Calls
    <3>1. JoinerFollows(r, c) /\ r \notin Readers
      BY <2>1, <2>3, TypesOf DEF Follows
    <3>2. JoinerFollows(r, c)'
      BY <1>1, <1>2, <1>5, <1>6, <3>1 DEF JoinerFollows, IsOpen, Has, Streaming
    <3> QED
      BY <1>1, <1>2, <2>1, <2>3, <3>1, <3>2 DEF Follows
  <2>4. CASE r \in Readers
    <3>1. ReaderFollows(r, c) /\ r \notin Calls
      BY <2>1, <2>4, TypesOf DEF Follows
    <3>2. ReaderFollows(r, c)'
      BY <1>1, <1>2, <1>5, <1>6, <3>1 DEF ReaderFollows, IsOpen, Streaming
    <3> QED
      BY <1>1, <1>2, <2>1, <2>4, <3>1, <3>2 DEF Follows
  <2> QED
    BY <2>2, <2>3, <2>4 DEF Responses
<1>16. ASSUME NEW r \in Responses, NEW d \in Calls \ {c}, Carries(r, d) PROVE Follows(r, d)'
  <2>1. Follows(r, d)
    BY <1>16 DEF Followed
  <2>2. r # c
    BY <1>1, <2>1 DEF Follows, JoinerFollows
  <2>3. r \notin buffer[c].subs \cup buffer[c].rawSubs
    BY <1>16 DEF Subscribed, Carries
  <2>4. res'[r] = res[r]
    BY <1>2, <2>2, <2>3
  <2> QED
    BY <1>1, <1>6, <2>1, <2>4, StillFollows
<1>17. Followed'
  <2>1. \A r \in Responses, d \in Calls : Carries(r, d)' => Carries(r, d)
    BY <1>2 DEF Carries
  <2> QED
    BY <1>15, <1>16, <2>1 DEF Followed
<1>18. OpenIsOwned'
  BY <1>1, <1>2, <1>5, <1>6 DEF OpenIsOwned, Streaming
<1> QED
  BY <1>8, <1>9, <1>11, <1>12, <1>13, <1>14, <1>17, <1>18

-----------------------------------------------------------------------------
(* The theorems                                                             *)

LEMMA NextIInv == IInv /\ [Next]_vars => IInv'
<1> SUFFICES ASSUME IInv, [Next]_vars PROVE IInv'
  OBVIOUS
<1>1. ASSUME NEW c \in Calls, CallStep(c) PROVE IInv'
  <2>1. CASE Post(c) \/ Disconnect(c) \/ BodyRead(c) \/ KeepAlive(c)
    BY <2>1, PostIInv, DisconnectIInv, BodyReadIInv, KeepAliveIInv
  <2>2. CASE Answer(c)
    BY <2>2, OnErrorIInv, HeadersIInv DEF Answer
  <2>3. CASE UpstreamEnds(c)
    BY <2>3, StreamEndsIInv, PlainEndsIInv, StreamBreaksIInv, PlainBreaksIInv DEF UpstreamEnds
  <2>4. CASE (\E line \in BOOLEAN : StreamChunk(c, line)) \/ PlainChunk(c)
    BY <2>4, StreamChunkIInv, PlainChunkIInv
  <2>5. CASE AbortPending(c)
    BY <2>5, AbortPendingIInv
  <2>6. CASE \E parses \in BOOLEAN : AbortStream(c, parses) \/ BroadcastZombie(c, parses)
    BY <2>6, AbortStreamIInv, BroadcastZombieIInv
  <2>7. CASE BufferExpires(c) \/ Zombie(c)
    BY <2>7, BufferExpiresIInv, ZombieIInv
  <2> QED
    BY <1>1, <2>1, <2>2, <2>3, <2>4, <2>5, <2>6, <2>7 DEF CallStep
<1>2. ASSUME NEW r \in Readers, Leave(r) \/ \E id \in Calls : Subscribe(r, id) PROVE IInv'
  BY <1>2, LeaveIInv, SubscribeIInv
<1>3. CASE UNCHANGED vars
  BY SMTT(30), <1>3 DEF IInv, vars, Types, Entry, Shown, Waiting, Registered, Subscribed, Followed,
     OpenIsOwned, Follows, SenderFollows, JoinerFollows, ReaderFollows, Carries, IsOpen,
     IsComplete, Streaming, Gone, Has
<1> QED
  BY <1>1, <1>2, <1>3 DEF Next

\* The inductive invariant holds in every reachable state.
THEOREM Invariance == Spec => []IInv
<1>1. Init => IInv
  BY InitIInv
<1>2. IInv /\ [Next]_vars => IInv'
  BY NextIInv
<1> QED
  BY <1>1, <1>2, PTL DEF Spec

LEMMA IInvTypes == IInv => TypeOK
<1> SUFFICES ASSUME IInv PROVE TypeOK
  OBVIOUS
<1> USE DEF IInv
<1>1. buffer \in [Calls -> Entries] /\ \A c \in Calls : buffer[c].text <= buffer[c].raw
  BY DEF Types
<1>2. ASSUME NEW r \in Responses
      PROVE  /\ res[r].state \in {"idle", "open", "ended", "gone", "left"}
             /\ res[r].head \in {"none", "own", "blank"}
             /\ Len(res[r].got) <= MaxChunks
  <2>1. res[r] \in Response /\ Has(r) \in Size
    BY TypesOf
  <2> QED
    BY <2>1, BufferAssumption DEF Response, States, Has, Size
<1>3. \A c \in Calls : call[c].phase \in Phases
  BY DEF Types
<1>4. active \in [Calls -> [on : BOOLEAN, raw : 0 .. MaxChunks,
                            text : 0 .. MaxChunks, away : BOOLEAN]]
  BY DEF Types, Size
<1> QED
  BY <1>1, <1>2, <1>3, <1>4 DEF TypeOK, Phases

\* The buffer, the responses, the calls and the shown streams are of their
\* types, and no entry is read further than it was received
\* (stream-buffer.ts, proxyProxy2).
THEOREM ProxyTypeOK == Spec => []TypeOK
BY Invariance, IInvTypes, PTL

\* Every open response has somebody who will end it: the running call it
\* belongs to, or a stream it is subscribed to (proxyProxy2, subscribe,
\* subscribeRaw, complete, fail, the cleanup timer).
THEOREM NoOpenResponseIsForgotten == Spec => []OpenIsOwned
<1>1. IInv => OpenIsOwned
  BY DEF IInv
<1> QED
  BY <1>1, Invariance, PTL

LEMMA IInvFollowers == IInv => FollowersSeeTheAnswer
<1> SUFFICES ASSUME IInv, NEW r \in Responses, NEW id \in Calls, Carries(r, id)
             PROVE  /\ res[r].got = Chunks(Len(res[r].got))
                    /\ r \in Calls => hash[r] = hash[id]
                    /\ res[r].state = "ended" /\ res[r].last = "done" /\ IsComplete(id) =>
                         \/ Len(res[r].got) = buffer[id].raw
                         \/ r \in Readers /\ res[r].text = buffer[id].text
  BY DEF FollowersSeeTheAnswer
<1>1. Follows(r, id)
  BY DEF IInv, Followed
<1>2. res[r].got = Chunks(Len(res[r].got))
  <2>1. res[r] \in Response
    BY TypesOf DEF IInv
  <2> QED
    BY <2>1, Beginnings DEF Response
<1> QED
  BY <1>1, <1>2 DEF Follows, JoinerFollows, Has

\* A response that follows an answer, its sender's, a joiner's, a replay or a
\* reader's, is of the same request, holds an unbroken beginning of the
\* answer, and all of it when it is closed as done (addChunk, complete,
\* subscribe, subscribeRaw, replay).
THEOREM AnswersArriveWhole == Spec => []FollowersSeeTheAnswer
BY Invariance, IInvFollowers, PTL

\* A finished entry's status, chunks and text stay until it is dropped.
Frozen ==
  \A id \in Calls : Finished(id) /\ buffer'[id].status # "none" =>
    /\ buffer'[id].status = buffer[id].status
    /\ buffer'[id].raw = buffer[id].raw
    /\ buffer'[id].text = buffer[id].text

\* Steps that change the entry of one call that has no finished one.
LEMMA FrozenOthers ==
  ASSUME NEW c \in Calls, ~ Finished(c) \/ buffer'[c].status = "none",
         \A d \in Calls \ {c} : buffer'[d] = buffer[d]
  PROVE  Frozen
BY DEF Frozen

LEMMA FrozenAnswer ==
  ASSUME IInv, NEW c \in Calls, BodyRead(c)
  PROVE  Frozen
<1>1. buffer \in [Calls -> Entries]
  BY DEF IInv, Types
<1>2. ASSUME NEW id \in FindByHash(hash, hash[c]), AnswerFromBuffer(c, id)
      PROVE  Frozen
  <2>1. id \in Calls
    BY DEF FindByHash
  <2>2. CASE Streaming(id)
    <3>1. ~ Finished(id) /\ \A d \in Calls \ {id} : buffer'[d] = buffer[d]
      BY <1>1, <1>2, <2>1, <2>2 DEF AnswerFromBuffer, SubscribeRawTo, Streaming, Finished
    <3> QED
      BY <2>1, <3>1, FrozenOthers
  <2>3. CASE ~ Streaming(id) /\ CanReplay(id)
    <3>1. /\ buffer'[id].status = "none"
          /\ \A d \in Calls \ {id} : buffer'[d] = buffer[d]
      BY <1>1, <1>2, <2>1, <2>3 DEF AnswerFromBuffer, NoEntry
    <3> QED
      BY <2>1, <3>1, FrozenOthers
  <2>4. CASE ~ Streaming(id) /\ ~ CanReplay(id)
    BY <1>2, <2>4 DEF AnswerFromBuffer, Frozen
  <2> QED
    BY <2>2, <2>3, <2>4
<1>3. CASE UNCHANGED buffer
  BY <1>3 DEF Frozen
<1> QED
  BY <1>2, <1>3 DEF BodyRead, Send

LEMMA FrozenCall ==
  ASSUME IInv, NEW c \in Calls, CallStep(c)
  PROVE  Frozen
<1> USE DEF IInv
<1>1. buffer \in [Calls -> Entries] /\ Types
  BY DEF Types
<1>2. CASE Disconnect(c)
  <2>1. buffer' = Unsubscribe(c)
    BY <1>2 DEF Disconnect
  <2> QED
    BY <1>1, <2>1, Unsubscribed DEF Frozen
<1>3. CASE BodyRead(c)
  BY <1>3, FrozenAnswer
<1>4. CASE Post(c) \/ KeepAlive(c) \/ OnError(c) \/ PlainChunk(c) \/ AbortPending(c)
        \/ (\E reset \in BOOLEAN : PlainBreaks(c, reset))
        \/ (\E parses \in BOOLEAN : BroadcastZombie(c, parses))
  <2>1. buffer' = buffer
    BY <1>4 DEF Post, KeepAlive, OnError, PlainChunk, AbortPending, PlainBreaks, BroadcastZombie
  <2> QED
    BY <2>1 DEF Frozen
<1>5. ASSUME NEW kind \in {"sse", "plain"}, HeadersArrive(c, kind) PROVE Frozen
  <2>1. ~ Finished(c)
    BY <1>5 DEF HeadersArrive, Entry, Finished
  <2>2. \A d \in Calls \ {c} : buffer'[d] = buffer[d]
    BY <1>1, <1>5 DEF HeadersArrive, Create
  <2> QED
    BY <2>1, <2>2, FrozenOthers
<1>6. ASSUME NEW line \in BOOLEAN, StreamChunk(c, line) PROVE Frozen
  <2>1. Streaming(c) /\ ~ Finished(c)
    BY <1>6 DEF StreamChunk, Entry, Streaming, Finished
  <2>2. \A d \in Calls \ {c} : buffer'[d] = buffer[d]
    BY <1>1, <1>6, <2>1 DEF StreamChunk, AddChunk
  <2> QED
    BY <2>1, <2>2, FrozenOthers
<1>7. CASE \E text \in {0, call[c].n} : PlainEnds(c, text)
  <2>1. ~ Finished(c)
    BY <1>7 DEF PlainEnds, Entry, Finished
  <2>2. \A d \in Calls \ {c} : buffer'[d] = buffer[d]
    BY <1>1, <1>7 DEF PlainEnds, StoreResponse
  <2> QED
    BY <2>1, <2>2, FrozenOthers
<1>8. ASSUME NEW parses, buffer' = Complete(c, parses) \/ buffer' = Fail(c) PROVE Frozen
  <2>1. CASE ~ Streaming(c)
    BY <1>8, <2>1 DEF Complete, Fail, Frozen
  <2>2. CASE Streaming(c)
    <3>1. ~ Finished(c) /\ \A d \in Calls \ {c} : buffer'[d] = buffer[d]
      BY <1>1, <1>8, <2>2 DEF Complete, Fail, Streaming, Finished
    <3> QED
      BY <3>1, FrozenOthers
  <2> QED
    BY <2>1, <2>2
<1>9. CASE \/ \E parses \in BOOLEAN : StreamEnds(c, parses) \/ AbortStream(c, parses)
           \/ \E reset, parses \in BOOLEAN : StreamBreaks(c, reset, parses)
  BY <1>8, <1>9 DEF StreamEnds, StreamBreaks, AbortStream, Abort
<1>10. CASE BufferExpires(c)
  <2>1. buffer'[c].status = "none" /\ \A d \in Calls \ {c} : buffer'[d] = buffer[d]
    BY <1>1, <1>10 DEF BufferExpires, Expire, NoEntry
  <2> QED
    BY <2>1, FrozenOthers
<1>11. CASE Zombie(c)
  <2>1. ~ Finished(c) /\ \A d \in Calls \ {c} : buffer'[d] = buffer[d]
    BY <1>1, <1>11 DEF Zombie, ZombieEntry, Streaming, Finished
  <2> QED
    BY <2>1, FrozenOthers
<1> QED
  BY <1>2, <1>3, <1>4, <1>5, <1>6, <1>7, <1>9, <1>10, <1>11
  DEF CallStep, Answer, UpstreamEnds

LEMMA FrozenNext == IInv /\ [Next]_vars => Frozen
<1> SUFFICES ASSUME IInv, [Next]_vars PROVE Frozen
  OBVIOUS
<1>1. ASSUME NEW c \in Calls, CallStep(c) PROVE Frozen
  BY <1>1, FrozenCall
<1>2. ASSUME NEW r \in Readers, Leave(r) PROVE Frozen
  <2>1. buffer' = Unsubscribe(r) /\ Types
    BY <1>2 DEF Leave, IInv
  <2> QED
    BY <2>1, Unsubscribed DEF Frozen
<1>3. ASSUME NEW r \in Readers, NEW id \in Calls, Subscribe(r, id) PROVE Frozen
  <2>1. buffer \in [Calls -> Entries] /\ buffer' = SubscribeTo(id, r)
    BY <1>3 DEF IInv, Types, Subscribe
  <2>2. CASE Streaming(id)
    <3>1. ~ Finished(id) /\ \A d \in Calls \ {id} : buffer'[d] = buffer[d]
      BY <2>1, <2>2 DEF SubscribeTo, Streaming, Finished
    <3> QED
      BY <3>1, FrozenOthers
  <2>3. CASE ~ Streaming(id)
    BY <2>1, <2>3 DEF SubscribeTo, Frozen
  <2> QED
    BY <2>2, <2>3
<1>4. CASE UNCHANGED vars
  BY <1>4 DEF vars, Frozen
<1> QED
  BY <1>1, <1>2, <1>3, <1>4 DEF Next

\* A finished answer is not written to again: what was replayed or announced
\* stays what it was until it expires (complete, abort, fail, storeResponse,
\* the cleanup timer).
THEOREM FinishedAnswersStay == Spec => FinishedIsFrozen
<1>1. IInv /\ [Next]_vars =>
        [\A id \in Calls : Finished(id) /\ buffer'[id].status # "none" =>
           /\ buffer'[id].status = buffer[id].status
           /\ buffer'[id].raw = buffer[id].raw
           /\ buffer'[id].text = buffer[id].text]_vars
  BY FrozenNext DEF Frozen
<1> QED
  BY <1>1, Invariance, PTL DEF Spec, FinishedIsFrozen


\* What the last step announced: a stream no longer shown, finished unless its
\* timer came first, with the text its entry holds.
Announced ==
  \A c \in Calls : told.id = c =>
    /\ ~ active[c].on
    /\ Finished(c) \/ told.early
    /\ IsComplete(c) => told.text = buffer[c].text
    /\ told.toSender => Gone(c)

LEMMA NothingAnnounced == ASSUME told' = NoMessage PROVE Announced'
<1>1. told'.id = 0
  BY DEF NoMessage
<1> QED
  BY <1>1, BufferAssumption DEF Announced, Calls

\* The text of a stream at its end, with the open line if it parses.
FinalText(c, parses) == IF parses THEN buffer[c].raw ELSE buffer[c].text

\* The announcement of a stream that is shown has its text; before it, the
\* buffer holds the same, or gave the stream up.
LEMMA StreamAnnounced ==
  ASSUME IInv, NEW c \in Calls, NEW parses, NEW early, EndStream(c, parses, early),
         told' # NoMessage
  PROVE  /\ told'.id = c /\ told'.early = early
         /\ ~ active'[c].on
         /\ told'.toSender => Gone(c)
         /\ \/ buffer[c].status = "failed"
            \/ /\ Streaming(c)
               /\ told'.text = FinalText(c, parses)
<1>1. /\ active[c].on
      /\ told' = [id |-> c, text |-> Flush(active[c], parses).text,
                  toSender |-> active[c].away, early |-> early]
  BY DEF EndStream, Silent
<1>2. /\ active[c].away <=> Gone(c)
      /\ \/ buffer[c].status = "failed"
         \/ /\ Streaming(c)
            /\ active[c].raw = buffer[c].raw
            /\ active[c].text = buffer[c].text
  BY <1>1 DEF IInv, Shown
<1>3. Flush(active[c], parses).text = (IF parses THEN active[c].raw ELSE active[c].text)
  <2>1. active[c] \in ActiveTypes
    BY DEF IInv, Types, ActiveTypes
  <2> QED
    BY <2>1 DEF Flush, ActiveTypes
<1>4. ~ active'[c].on
  BY StreamHidden DEF IInv
<1>5. /\ told'.id = c /\ told'.early = early
      /\ told'.text = Flush(active[c], parses).text
      /\ told'.toSender = active[c].away
  BY <1>1
<1> QED
  BY <1>2, <1>3, <1>4, <1>5 DEF FinalText

\* The end of a stream: the status and text of its entry, and the responses
\* that were closed before.
LEMMA StreamWrote ==
  ASSUME IInv, NEW c \in Calls, NEW parses, NEW R,
         \/ buffer' = Complete(c, parses) /\ R = CompleteWrites(res, c, parses)
         \/ buffer' = Fail(c) /\ R = FailWrites(res, c)
  PROVE  /\ \E status \in {"completed", "failed"} :
              IF Streaming(c)
              THEN /\ buffer'[c].status = status
                   /\ status = "completed" =>
                        buffer'[c].text = FinalText(c, parses)
              ELSE buffer'[c] = buffer[c]
         /\ \A r \in Responses : res[r].state # "open" => R[r] = res[r]
<1>1. PICK status \in {"completed", "failed"} :
        \/ /\ status = "completed" /\ buffer' = Complete(c, parses)
           /\ R = CompleteWrites(res, c, parses)
        \/ status = "failed" /\ buffer' = Fail(c) /\ R = FailWrites(res, c)
  OBVIOUS
<1>2. Types
  BY DEF IInv
<1>3. /\ IF Streaming(c)
         THEN /\ buffer'[c].status = status
              /\ status = "completed" =>
                   buffer'[c].text = (IF parses THEN buffer[c].raw ELSE buffer[c].text)
         ELSE buffer'[c] = buffer[c]
      /\ \A r \in Responses : res[r].state # "open" => R[r] = res[r]
  BY <1>1, <1>2, StreamFinished
<1> QED
  BY <1>3 DEF FinalText

\* complete, abort and fail leave a finished entry with the announced text.
LEMMA StreamOverAnnounced ==
  ASSUME IInv, NEW c \in Calls, NEW parses, EndStream(c, parses, FALSE), NEW R,
         \/ buffer' = Complete(c, parses) /\ R = CompleteWrites(res, c, parses)
         \/ buffer' = Fail(c) /\ R = FailWrites(res, c),
         res[c].state = "gone" => res'[c] = R[c]
  PROVE  Announced'
<1>1. CASE told' = NoMessage
  BY <1>1, NothingAnnounced
<1>2. CASE told' # NoMessage
  <2>1. /\ told'.id = c /\ told'.early = FALSE
        /\ ~ active'[c].on
        /\ told'.toSender => Gone(c)
        /\ \/ buffer[c].status = "failed"
           \/ /\ Streaming(c)
              /\ told'.text = FinalText(c, parses)
    BY <1>2, StreamAnnounced
  <2>2. /\ \E status \in {"completed", "failed"} :
             IF Streaming(c)
             THEN /\ buffer'[c].status = status
                  /\ status = "completed" =>
                       buffer'[c].text = FinalText(c, parses)
             ELSE buffer'[c] = buffer[c]
        /\ \A r \in Responses : res[r].state # "open" => R[r] = res[r]
    BY StreamWrote
  <2>3. PICK status \in {"completed", "failed"} :
          IF Streaming(c)
          THEN /\ buffer'[c].status = status
               /\ status = "completed" =>
                    buffer'[c].text = FinalText(c, parses)
          ELSE buffer'[c] = buffer[c]
    BY <2>2
  <2>4. Finished(c)'
    BY <2>1, <2>3 DEF Finished, Streaming
  <2>5. IsComplete(c)' => told'.text = buffer'[c].text
    BY <2>1, <2>3 DEF IsComplete, Streaming
  <2>6. told'.toSender => Gone(c)'
    <3>1. c \in Responses
      BY DEF Responses
    <3> QED
      BY <2>1, <2>2, <3>1 DEF Gone
  <2> QED
    BY <2>1, <2>4, <2>5, <2>6 DEF Announced
<1> QED
  BY <1>1, <1>2

\* End passes over a response whose client is gone.
LEMMA GoneStays ==
  ASSUME NEW R, NEW S, NEW last, NEW r \in Responses, R[r].state = "gone"
  PROVE  End(R, S, last)[r] = R[r]
BY DEF End, Writable

LEMMA EndsAnnounced ==
  ASSUME IInv, NEW c \in Calls, UpstreamEnds(c) PROVE Announced'
<1>0. c \in Responses
  BY DEF Responses
<1>1. ASSUME NEW parses \in BOOLEAN, NEW reset \in BOOLEAN,
             StreamEnds(c, parses) \/ StreamBreaks(c, reset, parses)
      PROVE  Announced'
  <2>1. PICK R, last :
          /\ EndStream(c, parses, FALSE)
          /\ \/ buffer' = Complete(c, parses) /\ R = CompleteWrites(res, c, parses)
             \/ buffer' = Fail(c) /\ R = FailWrites(res, c)
          /\ res' = End(R, {c}, last)
    BY <1>1 DEF StreamEnds, StreamBreaks
  <2>2. res[c].state = "gone" => R[c] = res[c]
    BY <1>0, <2>1, StreamWrote
  <2>3. res[c].state = "gone" => res'[c] = R[c]
    BY <1>0, <2>1, <2>2, GoneStays
  <2> QED
    BY <2>1, <2>3, StreamOverAnnounced
<1>2. ASSUME NEW text \in {0, call[c].n}, PlainEnds(c, text) PROVE Announced'
  <2>1. CASE text = 0
    BY <1>2, <2>1, NothingAnnounced DEF PlainEnds
  <2>2. CASE text # 0
    <3>1. /\ told'.id = c /\ told'.text = text /\ ~ told'.toSender
      BY <1>2, <2>2 DEF PlainEnds, NoMessage
    <3>2. buffer'[c].status = "completed" /\ buffer'[c].text = text
      BY <1>2 DEF IInv, Types, PlainEnds, StoreResponse, NoEntry
    <3>3. ~ active'[c].on
      BY <1>2 DEF IInv, Shown, PlainEnds
    <3> QED
      BY <3>1, <3>2, <3>3 DEF Announced, Finished, IsComplete
  <2> QED
    BY <2>1, <2>2
<1>3. ASSUME NEW reset \in BOOLEAN, PlainBreaks(c, reset) PROVE Announced'
  BY <1>3, NothingAnnounced DEF PlainBreaks, Silent
<1> QED
  BY <1>1, <1>2, <1>3 DEF UpstreamEnds

LEMMA CallAnnounced ==
  ASSUME IInv, NEW c \in Calls, CallStep(c) PROVE Announced'
<1>1. CASE Post(c) \/ Disconnect(c) \/ KeepAlive(c) \/ AbortPending(c)
           \/ BufferExpires(c) \/ Zombie(c) \/ PlainChunk(c)
  BY <1>1, NothingAnnounced
  DEF Post, Disconnect, KeepAlive, AbortPending, BufferExpires, Zombie, PlainChunk, Silent
<1>2. CASE BodyRead(c)
  BY <1>2, NothingAnnounced DEF BodyRead, AnswerFromBuffer, Send, Silent
<1>3. CASE Answer(c)
  BY <1>3, NothingAnnounced DEF Answer, OnError, HeadersArrive, Silent
<1>4. CASE UpstreamEnds(c)
  BY <1>4, EndsAnnounced
<1>5. CASE \E line \in BOOLEAN : StreamChunk(c, line)
  BY <1>5, NothingAnnounced DEF StreamChunk, Silent
<1>6. ASSUME NEW parses \in BOOLEAN, AbortStream(c, parses) PROVE Announced'
  <2> DEFINE R == CompleteWrites(res, c, parses)
  <2>1. /\ EndStream(c, parses, FALSE)
        /\ buffer' = Complete(c, parses) /\ R = CompleteWrites(res, c, parses)
        /\ res' = R
    BY <1>6 DEF AbortStream, Abort
  <2> HIDE DEF R
  <2> QED
    BY <2>1, StreamOverAnnounced
<1>7. ASSUME NEW parses \in BOOLEAN, BroadcastZombie(c, parses) PROVE Announced'
  <2>1. EndStream(c, parses, TRUE) /\ UNCHANGED <<buffer, res>>
    BY <1>7 DEF BroadcastZombie
  <2>2. CASE told' = NoMessage
    BY <2>2, NothingAnnounced
  <2>3. CASE told' # NoMessage
    <3>1. /\ told'.id = c /\ told'.early = TRUE
          /\ ~ active'[c].on
          /\ told'.toSender => Gone(c)
          /\ buffer[c].status = "failed" \/ Streaming(c)
      BY <2>1, <2>3, StreamAnnounced
    <3>2. ~ IsComplete(c)'
      BY <2>1, <3>1 DEF IsComplete, Streaming
    <3>3. told'.toSender => Gone(c)'
      BY <2>1, <3>1 DEF Gone
    <3> QED
      BY <3>1, <3>2, <3>3 DEF Announced
  <2> QED
    BY <2>2, <2>3
<1> QED
  BY <1>1, <1>2, <1>3, <1>4, <1>5, <1>6, <1>7 DEF CallStep

LEMMA AnnouncedInvariance == Spec => []Announced
<1>1. Init => Announced
  BY BufferAssumption DEF Init, Announced, NoMessage, Calls
<1>2. IInv /\ Announced /\ [Next]_vars => Announced'
  <2> SUFFICES ASSUME IInv, Announced, [Next]_vars PROVE Announced'
    OBVIOUS
  <2>1. ASSUME NEW c \in Calls, CallStep(c) PROVE Announced'
    BY <2>1, CallAnnounced
  <2>2. ASSUME NEW r \in Readers, Leave(r) \/ \E id \in Calls : Subscribe(r, id)
        PROVE  Announced'
    BY <2>2, NothingAnnounced DEF Leave, Subscribe, Silent
  <2>3. CASE UNCHANGED vars
    BY <2>3 DEF vars, Announced, Finished, IsComplete, Gone
  <2> QED
    BY <2>1, <2>2, <2>3 DEF Next
<1> QED
  BY <1>1, <1>2, Invariance, PTL DEF Spec

\* A stream is announced as ended once, when its call is over at the latest,
\* with the text that the buffer attaches to catch-up answers, unless the
\* timer of the broadcast came first (endStream, broadcastResponseCompleted,
\* streamCleanupTimer).
THEOREM OneEndIsAnnounced == Spec => []OneEndWithTheText
<1>1. IInv /\ Announced => OneEndWithTheText
  BY DEF IInv, Shown, Announced, OneEndWithTheText
<1> QED
  BY <1>1, Invariance, AnnouncedInvariance, PTL

\* The monitor's pool, the abort registries and the sender's absence say of
\* each call what is true of it (monitorPush, pendingUpstreams,
\* abortedStreams, markSenderDisconnected).
THEOREM RegistriesAreTrue == Spec => []RegistriesFollowCalls
<1>1. IInv /\ Announced => RegistriesFollowCalls
  BY DEF IInv, Entry, Shown, Registered, Announced, RegistriesFollowCalls
<1> QED
  BY <1>1, Invariance, AnnouncedInvariance, PTL
=============================================================================
