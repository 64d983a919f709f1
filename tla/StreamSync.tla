----------------------------- MODULE StreamSync -----------------------------
(***************************************************************************)
(* How another page follows the answers of an LLM: the stream messages it  *)
(* receives, the blocks it fetches when the sender's saves are announced,  *)
(* and what it asks for when it comes back (client/sync, ws.ts, and the    *)
(* /sync routes of index.ts).                                              *)
(*                                                                         *)
(* One character with one chat.  A message is the user's n-th or the       *)
(* answer of stream s with the text it has so far; a placeholder answers   *)
(* stream 0.  live is the chat's isStreaming, which a saved block carries  *)
(* along.  The sender's page is RisuAI: it keeps the chat and saves it.    *)
(* What the follower saves in its turn belongs to DbWrite and DeltaWrite.  *)
(***************************************************************************)
EXTENDS Integers, Sequences, FiniteSets, SequencesExt

CONSTANTS
  NumStreams, FullText,
  MaxSaves,    \* bound on saves while a stream is open
  MaxReturns,  \* bound on connections lost and returns to the tab
  MaxFetches,  \* bound on requests under way
  MaxWire      \* bound on messages under way

ASSUME BoundsAssumption ==
  /\ NumStreams \in Nat /\ FullText \in Nat /\ MaxSaves \in Nat
  /\ MaxReturns \in Nat /\ MaxFetches \in Nat /\ MaxWire \in Nat

VARIABLES
  chat,          \* the sender's chat: RisuAI shows each answer so far
  block,         \* the chat in the server's block
  stream,        \* the server's streams: state and text
  log,           \* the version of the change log: each entry is the character's
  doc,           \* the follower's chat
  act,           \* state.activeStreams of the follower
  version,       \* state.lastVersion
  linked, wire,  \* its WebSocket and the messages under way on it
  asks,          \* its requests under way, oldest first
  past           \* saves and returns so far, and the faults that happened:
                 \* pended (answers of catch-up applied), crossed (a block
                 \* overtaken by an older one), missed (an end of a stream),
                 \* heard (the streams whose end the page handled)

serverVars == <<block, stream, log>>
pageVars == <<doc, act, version>>
vars == <<chat, serverVars, pageVars, linked, wire, asks, past>>

Streams == 1 .. NumStreams
User(n) == [by |-> "user", of |-> - n, text |-> FullText]
Answer(s, n) == [by |-> "char", of |-> s, text |-> n]

NoEntry == [on |-> FALSE, at |-> 0, text |-> 0]
Over(s) == stream[s].state = "completed"

AllOver == \A s \in Streams : stream[s].state = "none" \/ Over(s)

Init ==
  /\ chat = [said |-> <<>>, live |-> FALSE] /\ block = chat /\ doc = chat
  /\ stream = [s \in Streams |-> [state |-> "none", text |-> 0]]
  /\ log = 0 /\ version = 0
  /\ act = [s \in Streams |-> NoEntry]
  /\ linked = TRUE /\ wire = <<>> /\ asks = <<>>
  /\ past = [saves |-> 0, returns |-> 0,
             pended |-> FALSE, crossed |-> FALSE, missed |-> FALSE, heard |-> {}]

Broadcast(m) ==
  /\ Len(wire) < MaxWire
  /\ wire' = IF linked THEN Append(wire, m) ELSE wire

-----------------------------------------------------------------------------
\* The sender posts a message: stream-start (createStream).
Ask(s) ==
  /\ stream[s].state = "none" /\ \A r \in 1 .. s - 1 : Over(r)
  /\ stream' = [stream EXCEPT ![s].state = "streaming"]
  /\ chat' = [said |-> Append(chat.said, User(s)), live |-> TRUE]
  /\ Broadcast([type |-> "stream-start", id |-> s])
  /\ UNCHANGED <<block, log, pageVars, linked, asks, past>>

\* The answer grows: stream-data (processStreamChunk).
Chunk(s) ==
  /\ stream[s].state = "streaming" /\ stream[s].text < FullText
  /\ stream' = [stream EXCEPT ![s].text = @ + 1]
  /\ chat' = [chat EXCEPT !.said = IF stream[s].text = 0 THEN Append(@, Answer(s, 1))
                                   ELSE [@ EXCEPT ![Len(@)].text = stream[s].text + 1]]
  /\ Broadcast([type |-> "stream-data", id |-> s, text |-> stream[s].text + 1])
  /\ UNCHANGED <<block, log, pageVars, linked, asks, past>>

\* The answer is complete, or cut: stream-end (endStream).
Finish(s) ==
  /\ stream[s].state = "streaming"
  /\ stream' = [stream EXCEPT ![s].state = "completed"]
  /\ chat' = [chat EXCEPT !.live = FALSE]
  /\ Broadcast([type |-> "stream-end", id |-> s, text |-> stream[s].text])
  /\ past' = [past EXCEPT !.missed = @ \/ ~ linked]
  /\ UNCHANGED <<block, log, pageVars, linked, asks>>

\* The sender saves the character: blocks-changed (processDbWrite).
Save ==
  /\ chat # block
  /\ AllOver \/ past.saves < MaxSaves
  /\ block' = chat /\ log' = log + 1
  /\ Broadcast([type |-> "blocks-changed", version |-> log + 1])
  /\ past' = IF AllOver THEN past ELSE [past EXCEPT !.saves = @ + 1]
  /\ UNCHANGED <<chat, stream, pageVars, linked, asks>>

-----------------------------------------------------------------------------
\* What a handler of the page changes: its document and its activeStreams.
Page(d, a) == [doc |-> d, act |-> a]

LastIsAnswer(d) == d.said # <<>> /\ d.said[Len(d.said)].by = "char"

\* resolveStreamTarget: the last message of the chat if it is an answer, or
\* a placeholder after it.
Resolve(d) ==
  [said |-> IF LastIsAnswer(d) THEN d.said ELSE Append(d.said, Answer(0, 0)),
   live |-> TRUE]

\* applyStreamText
Show(d, at, s, text) ==
  IF at \in 1 .. Len(d.said)
  THEN [d EXCEPT !.said[at].of = s, !.said[at].text = text] ELSE d

Release(d) == [d EXCEPT !.live = FALSE]

\* applyFinalText without an entry of its own.
FinalText(d, s, text) ==
  LET r == Resolve(d) IN Release(Show(r, Len(r.said), s, text))

OnStreamStart(p, s) ==
  LET d == Resolve(p.doc) IN
  Page(d, [p.act EXCEPT ![s] = [on |-> TRUE, at |-> Len(d.said), text |-> 0]])

OnStreamData(p, s, text) ==
  LET e == p.act[s]
      d == IF e.at = 0 THEN Resolve(p.doc) ELSE p.doc
      at == IF e.at = 0 THEN Len(d.said) ELSE e.at IN
  IF ~ e.on THEN p
  ELSE Page(Show(d, at, s, text),
            [p.act EXCEPT ![s] = [on |-> TRUE, at |-> at, text |-> text]])

\* Slip: the entry stays.
OnStreamEndKeeps(p, s, text) ==
  Page(IF text > 0 THEN FinalText(p.doc, s, text) ELSE p.doc, p.act)
OnStreamEnd(p, s, text) ==
  LET e == p.act[s] IN
  Page(IF e.at > 0
       THEN Release(IF text > 0 THEN Show(p.doc, e.at, s, text) ELSE p.doc)
       ELSE IF text > 0 THEN FinalText(p.doc, s, text) ELSE p.doc,
       [p.act EXCEPT ![s] = NoEntry])

\* handleBlocksChanged, once the blocks are there: an active stream keeps the
\* block out; what it knows of the text is shown again.
\* Slip: the block is taken all the same.
ReplaceAlways(p, body) == body
Replace(p, body) == IF \E s \in Streams : p.act[s].on THEN p.doc ELSE body

\* resolveStreamFromDb: the last message of the chat that is streaming.
FromDb(d, e) ==
  IF e.on /\ e.at = 0 /\ d.live /\ d.said # <<>> THEN [e EXCEPT !.at = Len(d.said)] ELSE e

\* The message at i, with the text of the last stream that is shown there.
ShownAt(a, i) == {s \in Streams : a[s].on /\ a[s].at = i /\ a[s].text > 0}
Newest(S) == CHOOSE s \in S : \A r \in S : r <= s
Again(d, a, i) ==
  LET s == Newest(ShownAt(a, i)) IN
  IF ShownAt(a, i) = {} THEN d.said[i] ELSE [d.said[i] EXCEPT !.of = s, !.text = a[s].text]

OnBlocks(p, d) ==
  LET a == [s \in Streams |-> FromDb(d, p.act[s])] IN
  Page([d EXCEPT !.said = [i \in 1 .. Len(@) |-> Again(d, a, i)]], a)

\* restoreActiveStreams
OnActive(p, ids) ==
  Page(p.doc, [s \in Streams |-> IF s \in ids /\ ~ p.act[s].on
                                 THEN [NoEntry EXCEPT !.on = TRUE] ELSE p.act[s]])

\* processPendingStreams: the texts go one after the other to the last message,
\* where the last of them stays.
NoText == [id |-> 0, text |-> 0]
OnPending(p, last) ==
  IF last = NoText THEN p ELSE Page(FinalText(p.doc, last.id, last.text), p.act)

-----------------------------------------------------------------------------
Become(p) == doc' = p.doc /\ act' = p.act
Here == Page(doc, act)

NoBody == [ids |-> {}, chat |-> [said |-> <<>>, live |-> FALSE], version |-> 0,
           pending |-> NoText, changes |-> FALSE]
Request(kind) == [kind |-> kind, since |-> IF kind = "changes" THEN version ELSE 0,
                  done |-> FALSE, body |-> NoBody]

\* ws.onmessage
Follow(m) ==
  CASE m.type = "stream-start" -> OnStreamStart(Here, m.id)
    [] m.type = "stream-data" -> OnStreamData(Here, m.id, m.text)
    [] m.type = "stream-end" -> OnStreamEnd(Here, m.id, m.text)

OnStreamMessage ==
  /\ wire # <<>> /\ Head(wire).type # "blocks-changed"
  /\ LET m == Head(wire) IN
     /\ Become(Follow(m))
     /\ past' = IF m.type = "stream-end" THEN [past EXCEPT !.heard = @ \cup {m.id}] ELSE past
  /\ wire' = Tail(wire)
  /\ UNCHANGED <<chat, serverVars, version, linked, asks>>

OnBlocksChanged ==
  /\ wire # <<>> /\ Head(wire).type = "blocks-changed" /\ Len(asks) < MaxFetches
  /\ version' = Head(wire).version /\ wire' = Tail(wire)
  /\ asks' = Append(asks, Request("block"))
  /\ UNCHANGED <<chat, serverVars, doc, act, linked, past>>

CatchUp == asks' = asks \o <<Request("active"), Request("changes")>>

\* The tab is visible again.
Return ==
  /\ past.returns < MaxReturns /\ linked /\ version > 0
  /\ Len(asks) + 2 <= MaxFetches /\ CatchUp
  /\ past' = [past EXCEPT !.returns = @ + 1]
  /\ UNCHANGED <<chat, serverVars, pageVars, linked, wire>>

\* The connection is lost, and what was under way on it.
Break ==
  /\ past.returns < MaxReturns /\ linked
  /\ linked' = FALSE /\ wire' = <<>>
  /\ past' = [past EXCEPT !.returns = @ + 1,
                !.missed = @ \/ \E i \in DOMAIN wire : wire[i].type = "stream-end"]
  /\ UNCHANGED <<chat, serverVars, pageVars, asks>>

\* onclose, scheduleReconnect, and the auth-result of the new connection.
Reconnect ==
  /\ ~ linked /\ Len(asks) + 2 <= MaxFetches
  /\ linked' = TRUE
  /\ CatchUp
  /\ UNCHANGED <<chat, serverVars, pageVars, wire, past>>

\* getCompletedPending: of the completed streams the old ones have expired, or
\* all of them.
Completed == {s \in Streams : Over(s) /\ stream[s].text > 0}
LastCompleted ==
  {[id |-> s, text |-> stream[s].text] : s \in {x \in Completed : \A r \in Completed : r <= x}}

\* What the server answers: /sync/changes, /sync/block, /sync/streams/active.
Replies(a) ==
  CASE a.kind = "active" ->
         {[NoBody EXCEPT !.ids = {s \in Streams : stream[s].state = "streaming"}]}
    [] a.kind = "block" -> {[NoBody EXCEPT !.chat = block]}
    [] a.kind = "changes" ->
         {[NoBody EXCEPT !.version = log, !.pending = last, !.changes = log > a.since] :
            last \in {NoText} \cup LastCompleted}

Serve(i) ==
  /\ i \in DOMAIN asks /\ ~ asks[i].done
  /\ \E b \in Replies(asks[i]) : asks' = [asks EXCEPT ![i].done = TRUE, ![i].body = b]
  /\ UNCHANGED <<chat, serverVars, pageVars, linked, wire, past>>

\* The page handles an answer.
OnActiveAnswer(a) ==
  /\ a.kind = "active" /\ Become(OnActive(Here, a.body.ids)) /\ UNCHANGED version
  /\ past' = [past EXCEPT !.missed = @ \/ \E s \in a.body.ids : Over(s)]

OnBlockAnswer(a, older) ==
  /\ a.kind = "block" /\ Become(OnBlocks(Here, Replace(Here, a.body.chat)))
  /\ past' = [past EXCEPT !.crossed = @ \/ \E j \in DOMAIN older : older[j].kind = "block"]
  /\ UNCHANGED version

\* catchUpFromServer: pending answers count only when blocks changed.
OnChangesAnswer(a) ==
  /\ a.kind = "changes" /\ version' = a.body.version
  /\ IF a.body.changes
     THEN /\ Become(OnPending(Here, a.body.pending))
          /\ past' = [past EXCEPT !.pended = @ \/ (a.body.pending # NoText)]
     ELSE UNCHANGED <<doc, act, past>>

Deliver(i) ==
  /\ i \in DOMAIN asks /\ asks[i].done
  /\ LET a == asks[i]
         rest == RemoveAt(asks, i) IN
     /\ OnActiveAnswer(a) \/ OnBlockAnswer(a, SubSeq(asks, 1, i - 1)) \/ OnChangesAnswer(a)
     /\ asks' = IF a.body.changes THEN Append(rest, Request("block")) ELSE rest
  /\ UNCHANGED <<chat, serverVars, linked, wire>>

Next ==
  \/ \E s \in Streams : Ask(s) \/ Chunk(s) \/ Finish(s)
  \/ Save
  \/ OnStreamMessage \/ OnBlocksChanged \/ Return \/ Break \/ Reconnect
  \/ \E i \in 1 .. MaxFetches : Serve(i) \/ Deliver(i)

\* The code runs its handlers, answers come, a page connects again, and the
\* sender's page saves what changed.
Fairness ==
  /\ WF_vars(Save) /\ WF_vars(OnStreamMessage) /\ WF_vars(OnBlocksChanged) /\ WF_vars(Reconnect)
  /\ \A s \in Streams : WF_vars(Chunk(s)) /\ WF_vars(Finish(s))
  /\ \A i \in 1 .. MaxFetches : WF_vars(Serve(i)) /\ WF_vars(Deliver(i))

Spec == Init /\ [][Next]_vars /\ Fairness

-----------------------------------------------------------------------------
Messages == [by : {"user", "char"}, of : - NumStreams .. NumStreams, text : 0 .. FullText]
Chats == [said : Seq(Messages), live : BOOLEAN]

\* Every variable has its type.  Above all a page that follows a stream knows
\* a message that is there: blocks stay out while it does (handleBlocksChanged).
TypeOK ==
  /\ {block, doc} \subseteq Chats
  /\ stream \in [Streams -> [state : {"none", "streaming", "completed"},
                             text : 0 .. FullText]]
  /\ log \in Nat /\ version \in 0 .. log
  /\ act \in [Streams -> [on : BOOLEAN, at : 0 .. Len(doc.said), text : 0 .. FullText]]
  /\ linked \in BOOLEAN /\ (~ linked => wire = <<>>) /\ Len(asks) <= MaxFetches

\* What the page has heard of an answer it follows is what it shows, in the
\* one message it chose: neither a block saved in the middle of the stream, nor
\* a list of active streams, nor a reconnection takes words away
\* (handleBlocksChanged, restoreActiveStreams, resolveStreamFromDb).  Answers
\* of catch-up may, and so may the next stream once an end was missed.
HeardIsShown ==
  ~ past.pended => \A s \in Streams :
    LET e == act[s] IN
    e.on /\ e.at > 0 /\ e.text > 0 /\ (past.missed => stream[s].state = "streaming") =>
      e.at <= Len(doc.said) /\ doc.said[e.at].of = s /\ doc.said[e.at].text = e.text

\* The page ends with the chat the sender saved, whatever it showed in
\* between: placeholders at the wrong place, saves kept out by a stream, lost
\* connections.  Not so once answers of catch-up were applied, a block came
\* after a younger one, or the end of a stream was missed: then its entry stays.
Faultless == ~ past.pended /\ ~ past.crossed /\ ~ past.missed
Converges == <>[](Faultless => doc = block)

\* The comments call the answers that catch-up hands out not received
\* (processPendingStreams, getCompletedPending): an answer whose end the
\* page handled does not come a second time.
Times(s) == Cardinality({i \in DOMAIN doc.said : doc.said[i].of = s})
AnswersOnce == [][\A s \in past.heard : Times(s) = 1 => Times(s)' <= 1]_vars
=============================================================================
