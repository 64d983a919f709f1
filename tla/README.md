# Verification of the RisuAI sync server

RisuAI Sync Server is a reverse proxy (TypeScript, one Node process) in front of
a RisuAI server, and a script it injects into the browser pages. The pages of
several devices save the same files; the proxy watches the saves, finds out what
changed, and tells the other pages, which fetch the changed blocks. This
directory holds TLA+ modules of its core, the TLC configurations that check
them, and proofs checked by TLAPS. Source paths below are relative to the
directory `src/` of the server (`server/...`, `client/...`).

## 1. Inventory

Everything on the server runs in one event loop: a handler or callback runs to
completion, and interleaving happens at `await`, `setImmediate`, timers, and
between events. Nothing survives a restart (the SQLite file is deleted; `epoch`
changes and pages reload). A page has a random client id per load.

| Component | State | Operations | Talks to | Hard behaviour | What makes it correct |
|---|---|---|---|---|---|
| Write order queue (`server/write-order-queue.ts`) | `nextSeq`, `lastProcessed`, `pending` | reserve, enqueue, skip, drain | proxied writes, processing | answers out of order | order of arrival, each once, never stuck |
| Remote block writes (`server/index.ts:213-261`, `sendUpstreamWithRetry`, `processRemoteBlockWrite`) | request in flight, `hashCache`, `dataCache` | read, merge, send, retry, settle, process | upstream, queue, change log, broadcast | retries overtaken by later writes; answers that break off | number settled once; cache is the latest arrival |
| Stale-client merge (`mergeRemoteBlock`) | none | merge of two block versions | `dataCache` | stale read of the copy | nothing lost |
| database.bin writes (`proxyDbWrite`, `processDbWrite`) | caches, `clientRootCache` | compare root, announce, update copies | queue, log, broadcast | whose old copy to compare with | no invented deletion, none forgotten, cache follows file |
| Per-client root cache, freshness | `clientRootCache`, `clientDisconnectedAt`, `freshClients` | init, caught-up, close, expiry | connections, merge, processing | reconnection, heartbeat | copy is the sender's; fresh means caught up |
| Change log (`server/cache.ts`) | `currentVersion`, table | add with trim, changes since | processing, `GET /sync/changes` | trim boundary | complete answer or refusal |
| Connections (`server/index.ts:56-172`) | `clients`, alive flags | auth, init, caught-up, close, heartbeat, broadcast | pages | late events of an old connection | the live connection stays registered |
| Page connection and catch-up (`client/ws.ts`, `client/sync/catchUpFromServer.ts`) | `ws`, `lastVersion`, `isFirstConnect` | connect, messages, catch-up, tab return | server | answers overtaking broadcasts, failures | no hole below `lastVersion`; told in the end |
| Block handling in the page (`handleBlocksChanged`, `classifyChangedBlocks`) | RisuAI's database | fetch, apply, prompt | server, RisuAI | fetches out of order, echo saves | page converges, no loop |
| Read at start (`server/index.ts:1270-1320`) | caches | read, fill | upstream | runs while writes are served | does not replace newer blocks |
| Delta writes (`deltaDbWrite`, `client/deltaDb.ts`, `client/fetch/patchedFetch.ts`) | page's baseline, server's caches | diff, send, patch, full-write fallback | upstream, queue | timeouts racing late processing, partial failure | both baselines agree |
| Batch writes (`batchWriteBuffer`, `batchWrite`) | page's buffer | enqueue, flush, fall back | upstream | partial failure | every write settled once |
| Stream buffer (`server/stream-buffer.ts`) | map of streams | create, chunk, complete, fail, abort, subscribe, replay, expire | LLM proxy, pages | late subscribers, expiry | every subscriber gets all and an end |
| Stream broadcast and LLM proxy (`utils/streaming`, `proxyProxy2`) | `activeStreams` | start, chunk, end, sender gone | LLM service, pages | disconnections | every start has an end |
| Stream handling in the page (`client/sync/handleStream*`) | `activeStreams` | start, data, end, restore | server | ghosts after reconnection | final text applied once |
| Authentication (`verifyRisuAuth`, `isTrustedClient`) | `trustedClients` | verify, trust, expire | upstream | asynchronous verification | - |
| Save format (`parser.ts`, `streamParseRisuSave`, `reassembleRisuSave`) | none | parse, assemble | - | truncated input | round trip |
| LLM formats, page injection, notifications, logging, configuration | - | - | - | - | - |

`PROJECT.json` lists the hazards line by line with the properties that cover
them, and a note where a property holds only with an exception, or where none
covers the line.

## 2. Modules

| Module | Models | Builds on |
|---|---|---|
| `OrderedWrites` | what the proxy promises about the order of writes to one file | - |
| `WriteOrderQueue` | the queue class, one step per turn of the loop | refines `OrderedWrites` |
| `RemoteBlockWrites` | a write to a character's file, from request to processing | extends `WriteOrderQueue` |
| `RemoteBlockWritesProofs` | theorems about the queue and the write path | `RemoteBlockWrites` |
| `ChangeLog` | versions, trim, answers | - |
| `ChangeLogProofs` | theorems about the log | `ChangeLog` |
| `SyncSession` | one page, its connections and requests, and the server's side | instance of `ChangeLog` |
| `SyncSessionProofs` | theorems about the page and its connections | `SyncSession`, `ChangeLogProofs` |
| `DbWrite`, `MCDbWrite` | pages saving the root block, and its processing | - |
| `DbWriteProofs` | theorems about the root block | `DbWrite` |
| `DeltaWrite` | one page saving by deltas and whole writes, the server's patching, the files | - |
| `DeltaWriteProofs` | theorems about the saves of a page | `DeltaWrite` |
| `BatchWrite` | a page writing assets through the batch buffer | - |
| `BatchWriteProofs` | theorems about the split into chunks and the course of a write | `BatchWrite` |
| `StreamBuffer` | operations of the buffer of LLM answers | - |
| `LlmProxy` | the requests to an LLM that call the buffer, and the messages to other pages | extends `StreamBuffer` |
| `LlmProxyProofs` | theorems about the requests to an LLM | `LlmProxy` |
| `StreamSync` | another page following the answers, its blocks and its catch-up | - |
| `StreamSyncProofs` | theorems about the page that follows | `StreamSync` |

**WriteOrderQueue.** `nextSeq`, `lastProcessed` and `pending` are the fields of
the class. `Put` is `enqueue`/`skip` up to the call of `drain()`, `DrainStep` one
turn of the loop, `DrainReturn` its end. `draining` says that `drain()` is on the
stack; no other call starts then, because the callbacks are synchronous.
`result` and `ran` are history variables, mapped to `outcome` and `delivered` of
`OrderedWrites`. That a number is reserved and settled once is the callers' duty
(`Unsettled`), and `RemoteBlockWrites` checks when they do (`SettlesOnce`). A
number settled again once the loop has passed it stays in `pending` for good.

**RemoteBlockWrites.** Its state is the queue's and the proxy's: where a handler
calls the queue, the action contains the queue's (`Reserve`, `Put`), and
`ProcessNext` is a turn of its loop with the callback. `Arrive` is the `end`
handler of `proxyRemoteBlockWrite`: merge for a stale sender, reserve, send.
`req[n].phase` says where the attempt is: `sending`, `answered` (the headers have
come, the body has not ended), `backoff` (the retry timer), `done`; `status` is
what was relayed to the sender, `immediate` the `setImmediate` of a 2xx that has
not fired. The error handler of an attempt stays armed until the body of its
answer is complete (`BodyEnds`), so `Fails` covers an answer that breaks off:
its write is sent again (`OnError`) or its number given up once more
(`OnAllFailed`), though `Relay` had it settled or about to be. When the new
attempt is answered, `res.writeHead` throws, as the headers are out, and nothing
catches it: the process ends (`AnsweredAgain`, `running`). `Process` is
`processRemoteBlockWrite`: a body that is not JSON is
skipped, before initialisation the block is only cached, an equal hash changes
nothing. A block is the set of its messages, or `Bare`: one that the merge
cannot take, because it has no chats or the merge throws. The merge is the
union (`mergeChats` and `mergeMessages` keep what is on either side), unless there
is no copy or one of the sides is `Bare` or no JSON; then the body passes as it
came, and replaces the copy. `alone` is history: no other write was under way when
the stale one arrived.

**ChangeLog.** `log` is the table, a function from version to row; `Add` is the
insert, `Trim` the delete statement with its count test, `GetChangesSince` the
function of that name. `history` remembers every row ever added.

**SyncSession.** The page is `Me`; all other clients are `Other`, who only write.
Server state is `clients` (for `Me`), `fresh` and the state of each socket; the
page's is `ws`, `lastVersion`, `isFirstConnect` and the requests under way. Each
socket has a queue of messages in both directions, as TCP does; requests are
answered, and their answers delivered, in any order. A connection can break
unnoticed, after which the two ends notice separately. An authentication that is
being verified outlives the connection (`Break` keeps the `auth` message), as
`verifyRisuAuth(...).then` does; `ws.readyState` is still `OPEN` then, since the
server has not noticed. `told` holds the changes the page has begun to fetch or
asked its user to reload for. `owed` holds the changes a failed request should
have brought (the page does not repeat it) and those a `since=0` answer left out
because their rows were trimmed. The state after `location.reload()` is the
end: the new page is another client.

**DbWrite.** Two pages load the file, apply announced keys, and save it as their
user has edited it by then (`Save(c, d)`: any root block `d`). `file` is what the
upstream has, `inbox` the writes in the order of their numbers, from `Save`, which
reserves one, to their processing. Between the two the upstream stores
(`UpstreamStores`) and answers (`OnSuccess`, `OnRejected`) the writes under way
in any order, and a connection may fail before the answer (`OnError`) or in the
middle of it (`AnswerBreaks`): the write is sent again, or given up, and what the
failed attempt sent may still be stored (`strays`). `order` is history: whether
what the upstream stored last is what it accepted last. `Initialize`, `Unchanged` and
`Compare` are the three ways through `processDbWrite` for the root block;
`Deleted` and `Changed` choose the old copy as the code does. `BootRead` and
`BootFill` are the read at start, during which requests are served already.
`Connect` is registration with the init message, which the page sends at once.

**DeltaWrite.** The page's side is `deltaDb.ts` and `patchedFetch.ts`: `base` is
the two baseline caches, `sent` the hash of the block sent last, `save` the save
RisuAI waits for, which goes from a delta to a whole write and its retries
(`Outcome`). The server's side is `handleDeltaWrite`: `ReceiveDelta` patches
`data`, clears the hash, and uploads the file assembled from the cache or the
character's own file; `RefuseDelta` is its 409, which leaves earlier patches in
the cache. `UploadLands` is the moment the upstream stores a file, `UploadEnds`
the moment the server hears of it, and `Process` what follows 2xx. There are two
blocks, and a REMOTE block, which has the name of its character, is the set
`{Ptr}`. A block is the set of its fields, so a patch is what to set and what to
delete. Some fields (`Nulls`) hold null when they are there: in a patch null is the
mark of a deletion, so `Diff` turns such a field into one, and a delta deletes
what a whole write stores (and what a patch for a block that is not cached
stores). `remote` is chosen at the start: characters are saved in
files of their own, or in database.bin. `Restart` empties the caches; the page
that saves goes on, the others reload. `seen` remembers what the properties make
exceptions for: a save that failed for good, a request that outlived its save, a
pointer that came before its character, a restart that read an old copy of the
character from database.bin.

**BatchWrite.** `pending` is the buffer, `Flush` its timer, `chunk` and `req` the
requests of `sendChunk`. `Receive` starts one upload per write of a chunk,
`BatchUploadEnds` is the retry loop of the server, `ChunkAnswered` the answer
with one result per write, `Refuse` an answer that is not ok, `Break` a broken
connection while the server goes on. `Retry` is `fetchWriteWithRetry`, by which
what failed is written alone. `SplitIntoChunks` is the code's loop over the buffer,
written as folds.

**StreamBuffer, LlmProxy.** `buffer` is the map of streams, `res` what was
written to each HTTP response. A chunk is its number, the text of an entry the
number of chunks whose lines were complete. Most operations come in two parts,
what becomes of the entry and what is written to responses
(`AddChunk`/`AddChunkWrites`). `LlmProxy` has one action per handler of
`proxyProxy2`: the body is complete (`BodyRead`: replayed, joined, refused or
sent), headers, chunks and end of a streamed or whole answer, error before and
after the headers, lost client, keep-alive timer, abort, and the two cleanup
timers. `told` is the message broadcast by the last step. A response that is open
and that nothing will write to is `left`, where the code leaves it so.

**StreamSync.** The sender is RisuAI: `chat` is what it shows, message by message
and piece by piece, and `Save` puts it into the server's block. The follower's
document is `doc`, a chat of messages; `act` is `activeStreams`, `asks` its requests
in the order they were made, each answered (`Serve`) and handled
(`OnActiveAnswer`, `OnBlockAnswer`, `OnChangesAnswer`) in any order; `wire` is the
order of the WebSocket. `Replies` are the routes under `/sync`; the completed
streams attached to a catch-up answer are applied one after the other to the last
message, so the model keeps the last of them (`LastCompleted`), or none once all
have expired. `past` remembers the faults that `Converges` excludes.

## 3. Checks

| Run | Shows |
|---|---|
| `queue` (`WriteOrderQueue.cfg`) | invariants of the queue; refinement of `OrderedWrites` with fairness |
| `changelog` (`ChangeLog.cfg`) | window, completeness of answers, no needless reload |
| `remote_writes` (`RemoteBlockWrites.cfg`) | the proxy keeps the queue's contract, but for writes whose answer broke off; the cache is the latest arrival; every write is passed; an undisturbed merge loses nothing |
| `db_write` (`DbWrite.cfg`) | deletions are neither invented nor forgotten, given a right copy; the cache follows the file where the orders of storing and of numbers agree |
| `session` (`SyncSession.cfg`) | no unaccounted hole below `lastVersion`; no echo; the registration of a live connection lasts |
| `session_liveness` (`SyncLiveness.cfg`) | a connected page is told of every change |
| `delta_write` (`DeltaWrite.cfg`) | what a page takes as stored is stored, but for null fields; the cache is what the files hold; changes of the character are announced; every save is answered |
| `batch_write` (`BatchWrite.cfg`) | a write reported as saved was stored, chunks keep to the limit, no write is forgotten on its way, every write is answered |
| `llm_proxy` (`LlmProxy.cfg`) | followers of an answer hold an unbroken beginning and, at the end, all of it; one end is announced, with its text; the registries follow the calls; every open response has an owner; a finished answer does not change |
| `stream_sync` (`StreamSync.cfg`) | text that was heard stays shown; the follower ends with the sender's chat |
| `false_delete` (`FalseDelete.cfg`) | violation, see below |
| `answers_once` (`AnswersOnce.cfg`) | violation |

The two violations are places where the code does not do what a comment says:

1. *False deletion.* At its first `init` a page gets the server's present root as
   its own copy, though it loaded an earlier one; its next save reports the
   characters it never saw as deleted (`NoFalseDelete`).
2. *Answers twice.* `acknowledge` is called nowhere, so a completed answer is
   attached to every catch-up answer with changes for five minutes. A page that
   handled its end, and has the user's next message since, appends the old answer
   after it (`AnswersOnce`).

Other properties are stated in the modules and do not hold of the code. No run is
kept for them; adding one to its module's configuration (for `SyncSession` with
all kinds of changes and one more version, for `PointerIsStored` with three edits
and four saves) finds it.

| Property | What happens |
|---|---|
| `SuccessIsProcessed` (`RemoteBlockWrites`) | the error handler of `sendUpstreamWithRetry` outlives the headers: when the last attempt is answered with 2xx and its connection breaks before the write's turn has come, the number is given up, and a write that was stored, and whose sender was told so, is not processed |
| `StaleWriteLosesNothing` (`RemoteBlockWrites`) | the copy merged for a stale client is read at the request; a write processed before the merged body loses its messages |
| `ChangesComplete` (`SyncSession`) | of several missed root changes only the last one's keys are handled |
| `FreshMeansCaughtUp` (`SyncSession`) | the heartbeat and a replaced registration leave `freshClients` set |
| `BroadcastsReachThePage` (`SyncSession`) | a token verified late registers the old connection over the new one |
| `PointersStayOut` (`DeltaWrite`) | a REMOTE block has its character's name, so a delta patches the pointer's fields into the cached character, and its next delta uploads them (`processDbWrite.ts:33` warns of just this) |
| `PointerIsStored` (`DeltaWrite`) | after a delta brought the pointer of a new character, processing the character's own write makes its cached block an ordinary one; the next delta writes it into database.bin, without the pointer |
| `NullsAreStored` (`DeltaWrite`) | a field that becomes null is deleted by the delta, and the baseline, which has it, sends it no more |
| `CharactersAreSaved` (`DeltaWrite`) | a delta of a character kept in database.bin is uploaded to a file of its own only |
| `RootIsTold` (`DeltaWrite`) | a delta is in the cache before it is processed, so the root's comparison finds nothing to announce |
| `LastWriteWins` (`BatchWrite`) | writes of one file are passed on side by side |
| `NobodyIsLeft` (`LlmProxy`) | the thirty-minute timer does not end raw subscribers |
| `StreamsKeepTheirHeaders` (`LlmProxy`) | after thirty seconds a blank 200 is out, and a stream's own headers are lost |

The exceptions inside properties that hold are of the same kind, and are stated
where they are made: `SettlesOnce` for a write whose answer broke off;
`EveryWritePassed` when the process ended; `UnracedMergeLosesNothing` where a side
could not be merged; `CacheFollowsFile` until the next write after a fill that
overtook one, and, from saves that were under way together, one stored but not
accepted, or one whose connection failed, until a save that nothing overlaps is
accepted (the order of the numbers is that of arrival, not of storing);
`BaselineIsStored` for null fields, which a delta deletes; `CacheIsTheFile` for
null fields of the root block, because a delta and the whole write that follows it
are processed in any order; `BaselineIsStored` and its neighbours after a save that failed for
good or was given up while the server still served it, and after a restart that
read an old copy of the character, which an earlier delta had written into
database.bin (`NoTrouble`: the page's next delta is applied to the old copy);
`Converges`
after a block overtaken by an older one, an end of a stream that was missed (its
entry stays, and keeps blocks out), or an applied catch-up answer.

**Bounds.** `MaxSeq = 5` writes in the queue: several parked entries, of both
kinds, behind a gap. `MaxSeq = 2`, `RetryMax = 1`, `MaxBroken = 1`, one message in
`RemoteBlockWrites`: one write overtaken by another, each with a failed attempt,
and one answer that breaks off; one message is enough to be lost, and every block
may also be one that cannot be merged. Longer gaps are the queue's run, and the
safety properties are proved for any number. `MaxLogEntries = 2`, `MaxVersion = 5` in
`ChangeLog`: the log is trimmed three times and every `since` from 1 upwards is
asked. In `SyncSession` the log of two is full at the second change and trimmed at
the third (so that catch-up brings changes, and 410 happens); the changes are of
a character, the only kind the properties of the runs speak of; two connections
give an old and a new one, two requests can overtake each other, one return to
the tab adds a request without a reconnection, and one request fails. The
liveness run leaves out the return, which adds requests but takes none away.
`DbWrite` has two pages, one character, one
key and two saves: the save of one page between the load and the save of the
other, or both under way together; pages are interchangeable, and the runs use that
symmetry (their properties are safety only). One connection fails; what follows is
explored as long as no copy of the root lists the character
(`BreaksWithoutCharacters` in `MCDbWrite`), because after a failure the question is
what the file holds, for which root blocks only need to differ, and the properties
about deletions compare a write with what was processed before it, whatever the
file holds. The key that is never announced is left out.

`DeltaWrite` has two fields in the character, one of them null, and a null one in
the root, two edits, three saves (the new character,
its edit, and one that relies on the baseline of both), and one fault, so that a
given-up delta meets its replacement or a restart meets a save; one retry stands
for three. Its safety properties are proved without these bounds. `BatchWrite` has
two writes of one file or of two, together in a chunk or too large for it, and one
retry on each side; one connection breaks. `LlmProxy` has two calls with equal or
different hashes, one reader, and answers of up to two chunks: a joiner between
the chunks, a replay of what another call left. `StreamSync` has two answers of
one piece of text each, one save while an answer runs, one loss of connection or
return to the tab, two requests and three messages under way: a question and its
answer saved late, an older block after a newer one, a second answer after the
first was attached.

Runs say `CHECK_DEADLOCK FALSE` because a bounded system ends.

**Fairness.** `WriteOrderQueue` assumes that a call that has begun goes on.
`RemoteBlockWrites` assumes per write that each attempt ends with an answer or an
error and that timers and `setImmediate` fire, as long as the process runs. The
code sets no timeout on the
upstream request; without an end of the attempt the write stays at the head, as
listed under the hazards. `SyncSession` assumes weak fairness of the progress of
page, server and network as a whole: messages arrive, requests are answered, a
closed page reconnects. It is weak fairness of one disjunction, which is all that
is needed because every such step uses up a message, a request or a connection;
`BatchWrite` does the same with its timer, requests and uploads. `DeltaWrite`
assumes that requests arrive, that uploads end, that what was accepted is
processed, and that the page notices a request that was lost; nothing is assumed
of its fifteen-second timeout. `StreamSync` assumes that streams go on and end,
that messages and answers arrive and are handled, that a page reconnects, and
that RisuAI saves a chat that changed, as it does after half a second. Edits, new
writes, breaks, refusals, failures and the user have no fairness.

## 4. Proofs

The first part of `RemoteBlockWritesProofs` proves, for every `MaxSeq` in `Nat`,
the type invariant of the queue (`QueueTypeOK`, which `remote_writes` checks as a
part of its own), its three invariants, and that it implements
`OrderedWrites!Safety`. The inductive invariant `QueueIInv` conjoins the types,
the order, the backlog and the statement about parked entries with what they rest
on. None of them is inductive alone: that a turn of the loop keeps the order needs
the backlog (an entry at the loop's position is what the caller handed in, and has
not run), the backlog needs the type of `result` beyond `nextSeq`. For the
refinement every action is mapped to one of `OrderedWrites` or to a stutter: a
turn that finds a callback to `Deliver`, where "every earlier write has an
outcome" follows from the entries passed by the loop, and a turn that finds a null
to a stutter. The liveness half of `ImplementsOrderedWrites` is checked by TLC
only.

Its second part proves, for every number of writes, retries and
messages, the type invariant, `CacheIsLatestArrival`, `UnracedMergeLosesNothing`
and that the proxy keeps the queue's contract, but for writes whose answer broke
off (`SettlesOnce`). Every step of the proxy is a call to the queue, a turn of its
loop, or leaves it alone, so the invariant contains the part of the queue's own
that does not need the contract (`QueueCore`: the types, the order of what ran, and
what is parked; only `PendingIsBacklog` is lost when a number is settled again),
because the cache is the latest arrival only if callbacks run in order. It links
each request to the queue: a number that was reserved has a request
(`NumberIsReserved`), one that nothing was relayed of yet, or whose callback waits, is
unsettled unless its answer broke (`OpenIsUnsettled`), and only what was relayed
can have broken (`RelayedFirst`). That a timer has a retry left, and that `alone`
implies that the cache is the one the body was merged with (`AloneHoldsCache`),
complete it.

`ChangeLogProofs` proves, for every limit and every number of versions, the type
invariant, that the table is the newest unbroken part of the history
(`LogWindow`), that answers are complete (`CompleteAnswers`) and that recent
clients are not refused (`RecentClients`). `LogIsNewest` with the type invariant
is inductive; the work is in `RowsAbove` and `TrimIsWindow`, which count the rows
of an interval to show what the statement `NOT IN (... DESC LIMIT ?)` keeps. The
two statements about answers follow from the window.

`DbWriteProofs` proves, for any pages, characters, keys and saves, the type
invariant, `CacheFollowsFile` and the two action properties about deletions, for
any number of failing connections. To be inductive `CacheFollowsFile` needs to know
what is on its way while the order is kept: at most the last write is under way,
and nothing stray (`OnlyLastUnderWay`); a write that was stored is the file
(`StoredIsFile`); and, until another is stored, the last accepted write is the
file, or the server's copy once none waits, or the snapshot of the read at start
as long as there is no copy (`KeptIsFile`). Only a page that has loaded the
file is connected, told of keys, or saves (`LoadedFirst`). The action properties
follow from the types, by looking at the three ways through `processDbWrite`.

`SyncSessionProofs` proves, for any bounds, the type invariant,
`RegistrationLasts`, `NoEcho` and `CharactersComplete`. The first part of the
invariant (`Safe`) says which connection is registered, what is in the line of a
connection that is not, and that messages and answers speak of changes there are,
none of them the page's own. The second (`NothingMissing`) is what makes
`CharactersComplete` inductive. A change *reaches* the page if it was told, is
owed, or is brought by an answer under way. Every change up to the reported
version reaches it; so does what a request under way does not ask for, or its
answer does not bring; on a connection whose greeting was handled, so does every
change before a message in the line, at the latest by an earlier message; and as
long as that connection is registered, every change there is.
The invariant of the log, from
`ChangeLogProofs`, gives that an answer has no hole. The proof has one lemma per
action, and lemmas about what a queue of messages keeps when its head is taken
or one is appended.

`LlmProxyProofs` proves, for any calls, readers, hashes and chunks, all six safety
properties of `LlmProxy`. The invariant says which calls have an entry that can
still change (`Entry`), that what is shown to other pages is what the buffer
holds unless the buffer gave the stream up (`Shown`), what a response holds while
its call waits (`Waiting`), and who is subscribed (`Subscribed`). Its heart is
`Followed`: an open response that follows an answer holds all its chunks (sender
and joiners) or its text (readers), which is what makes the next chunk the next
one and the end the whole. `OpenIsOwned` is one of its parts, because a joiner is
only known to be ended with the stream if it is subscribed. `FinishedIsFrozen` is
proved from it action by action. The two statements about announcements need one
more invariant on top, `Announced`, about the message of the last step.

`BatchWriteProofs` proves, for any writes, sizes, chunks, retries and breaks, the
three safety properties of `BatchWrite`. It begins with the folds: a fold over a
sequence is a function of how many of its elements have been taken, and induction
over that number is the least counterexample, which the library's theorem about
well-founded relations gives. From there `SplitIsCut` says of every buffer that
`splitIntoChunks` keeps to the limit, puts no write into two chunks and leaves
none out. `Course` is the inductive invariant of a write's way: what the buffer
holds (`Queued`), what a chunk and its request hold (`Chunked`, `Headed`), what
has not begun (`NotBegun`), which uploads there are and who waits for them
(`Uploading`, `Calm`). `NobodyIsForgotten` is one of its parts; `AloneHolds` is the
half of `SavedIsStored` about the file, which follows from `Calm`: as long as no
request was given up, a write has one upload at a time, and none after it is
settled. The other half, that what is reported as saved was stored
(`SavedWasStored`), has an invariant of its own, `IInv`. The word "ok" has only
one source, an upload that landed (`LandedIsStored`), and is passed on by the
results the server keeps for a chunk (`ResultIsTrue`).

`StreamSyncProofs` proves, for any number of answers, pieces of text, saves, lost
connections and requests, the type invariant and `HeardIsShown`. What the page
shows of an answer can be overwritten by a message of another one, by a block, or
by a list of active streams. Against the first stands `OnlyTheHead`: when the next
message is of a stream, no other stream is one whose text the page shows. It rests
on the order of the wire (`InOrder`), on answers that come one at a time (`InTurn`),
and on ends: an answer that is over and that the page follows, or is about to
follow, has its end under way (`OverHasEnd`, `StartHasEnd`), unless an end was
missed. Against the second, the texts that `handleBlocksChanged` shows again after
a block go to messages of their own, or the newest of them wins, which is the only
one still running. Texts only grow (`TextIsNew`), and an entry that has a text has
its message (`Entries`).

`DeltaWriteProofs` proves, for any fields, edits, saves, retries, breaks and
restarts, all four safety properties of `DeltaWrite`. The block that is being
saved is between two contents from the moment its request is served until it is
answered; the other one is settled. For each of the two the invariant says what
the file holds (`Stored`), which uploads may still land (`Current`), that what
has landed is what the file holds (`Landed`), which of a character's uploads is
processed last (`Latest`), what the cache holds (`Cached`) and what the other pages
know (`Told`). Because of null fields most of this says that one block is another
but for such fields (`Under`, an order that patches keep: `PatchedUnder`,
`DiffPatches`); for the character the order of its uploads (`Latest`) makes it
exact again, so that the cache and the other pages end with what the file holds.
That a delta on its way fits the file is part of
`Stored`; that the server applies it to the same content is `Cached`, with
`OnlyOwn`: when the page's own request is served, nothing of an earlier save is
left. A whole write that replaces a failed delta needs none of this: what the
cache has of the block being saved does not count until it is answered. The
request numbers, which the model takes from a finite set, never run out
(`Numbered`).

The assumptions on constants are those of the modules, which state them by name:
bounds are natural numbers (`MaxSeqAssumption`, `RetryAssumption`,
`RetriesAssumption`, `MaxSavesAssumption` with the bound on failing connections,
`BoundsAssumption`, `BufferAssumption`,
`LimitsAssumption`), the limit of the
log is positive (`LogAssumption`), the null sender is no client, the marks for a
block that cannot be merged, for a body that is no block and for an absent one
differ and are no sets of messages, or no blocks (`MarkAssumption`,
`NoRootAssumption`, `NoBlockAssumption`), the content of a pointer is no field of a
block and not null (`PtrAssumption`), the kinds of changes include that of a character
(`KindsAssumption`), and a request is to `/proxy2` or to `/sync/stream` but not
to both. The proofs assume nothing
else, and no fairness.

Only model-checked:

- every liveness property (`EveryWritePassed`, `EventuallyTold`, `SavesEnd` and so
  on) and the liveness half of `ImplementsOrderedWrites`: liveness under fairness
  and `ENABLED` are beyond the prover.

Every invariant and every action property of a passing run is the subject of a
theorem.

## 5. Not modelled

- Parsing and assembly of save files (`parser.ts`, `streamParseRisuSave`,
  `reassembleRisuSave`), vendor formats of LLM answers, decoding of headers, and
  the layout of a batch body: formats without state. A file is the set of its
  blocks, a chunk of an answer completes a line or does not, a body parses or is
  refused.
- Authentication: its outcome and its delay are choices; the token is checked by
  the upstream, and the grace period only skips the check.
- Notifications, page injection, logging, configuration, the manifest and the SQL
  of the cache: no decision of the modelled parts depends on them.
- `mergeDelta.ts` and `acknowledge`: nothing calls them.
- The hourly backup (`/sync/backup`): it writes a copy of what the cache holds to a
  new file and changes nothing else.
- The matching of chats and messages by `mergeChats` and `mergeMessages`: the
  merge is the union of messages, whose order no property tells apart.
- Epochs: after a restart a page reloads, which ends it as a client.
- An answer that breaks off after its headers is in `RemoteBlockWrites`, `DbWrite`
  and `LlmProxy`, but not in `DeltaWrite` and `BatchWrite`: there the outcome is a
  promise that is settled once, and a second upload of the same body changes no
  property's verdict.
- The value of a field: a block has a field or not, or has it as null; a field that
  changes its value, or holds an object with fields of its own, is not told apart
  from one that was set.
- In what is modelled: other blocks of database.bin than the root and one
  character; more than one chat; failed fetches of blocks. Each module has one
  concern: no model has several pages that both follow streams and save.

## 6. Plan

1. The order of messages in the merge for stale clients, against a reference
   definition.
2. The echo of applied keys: `DbWrite` with pages that apply what others
   announce.
3. A page that both follows an answer and saves: `StreamSync` with the saves of
   `DbWrite`, for the echo of a chat that is half received.
