----------------------------- MODULE DeltaWrite -----------------------------
(***************************************************************************)
(* Saves of one page, from RisuAI's write to the upstream's files: the     *)
(* page sends what changed since its last save (deltaDb.ts,                *)
(* patchedFetch.ts), falls back to the whole file, and retries; the server *)
(* patches its cache, builds the file from it and uploads it               *)
(* (deltaDbWrite.ts), or passes a whole write on, and then processes what  *)
(* it uploaded.                                                            *)
(*                                                                         *)
(* There are two blocks, the root block and one character.  A block is the *)
(* set of its fields, those with the value null among them; a patch names  *)
(* the fields to set and, by the value null, those to delete.  The         *)
(* database file holds the root block and, for the character, either the   *)
(* block itself or a REMOTE block, a pointer of the same name to the       *)
(* character's own file; a pointer is the block {Ptr}.                     *)
(***************************************************************************)
EXTENDS Integers, FiniteSets

CONSTANTS
  RootFields, CharFields,
  Nulls,         \* fields that are null when they are there
  Ptr,           \* the content of a REMOTE block
  NoBlock,
  MaxEdits, MaxSaves, MaxFaults,   \* bounds of the run; faults are timeouts and restarts
  WriteMaxRetries                    \* WRITE_MAX_RETRIES

ASSUME RetriesAssumption == WriteMaxRetries \in Nat
ASSUME BoundsAssumption == MaxEdits \in Nat /\ MaxSaves \in Nat /\ MaxFaults \in Nat

VARIABLES
  remote,    \* characters are saved in files of their own
  doc,       \* the page's database
  base,      \* blockCache and remoteBlockCache: what the deltas start from
  sent,      \* remoteBlockHashCache
  save,      \* the save that RisuAI waits for
  reqs,      \* the requests of the page
  inited, data, hashes, raw,   \* cacheInitialized, dataCache, hashCache,
                               \* cachedRemoteBlocks
  uploads,   \* writes to the upstream, until they are processed
  file,      \* the upstream's files
  shown,     \* the blocks the other pages have been told of
  seen       \* edits, saves and faults so far, and what has gone wrong

pageVars == <<doc, base, sent>>
cacheVars == <<inited, data, hashes, raw>>
vars == <<remote, doc, base, sent, save, reqs, inited, data, hashes, raw,
          uploads, file, shown, seen>>

Objects == SUBSET (RootFields \cup CharFields \cup {Ptr})
Patches == [set : Objects, del : Objects]

\* A pointer is no block's field, and what is not there is neither a block nor
\* a patch.
ASSUME PtrAssumption == Ptr \notin RootFields \cup CharFields \cup Nulls
ASSUME NoBlockAssumption == \A x \in Objects \cup Patches : x # NoBlock

Requests == 1 .. MaxSaves * (WriteMaxRetries + 2)

-----------------------------------------------------------------------------
\* diff and applyPatch.  A new value null reads as a deletion.  Slip:
\* deletions are not sent.
NoPatch == NoBlock
DiffAddsOnly(prev, next) ==
  IF prev = next THEN NoPatch ELSE [set |-> (next \ prev) \ Nulls, del |-> {}]
Diff(prev, next) ==
  IF prev = next THEN NoPatch
  ELSE [set |-> (next \ prev) \ Nulls,
        del |-> (prev \ next) \cup ((next \ prev) \cap Nulls)]
Clean(obj) == IF obj = NoBlock THEN NoBlock ELSE obj \ {Ptr}
Whole(obj) == [set |-> obj \ Nulls, del |-> obj \cap Nulls]

ApplyPatch(obj, p) == (obj \ p.del) \cup p.set

\* The database file as a page writes it.
DbBody == [root |-> doc.root,
           char |-> IF remote THEN NoBlock ELSE doc.char,
           ptr |-> IF remote /\ doc.char # NoBlock THEN {Ptr} ELSE NoBlock]

CharBody(obj) == [root |-> NoBlock, char |-> obj, ptr |-> NoBlock]

\* A block of the file by the name of the character, whatever its type.
Named(body) == IF body.ptr # NoBlock THEN body.ptr ELSE body.char

BlockDelta(cached, obj) ==
  IF obj = NoBlock THEN NoPatch
  ELSE IF cached = NoBlock THEN Whole(obj) ELSE Diff(cached, obj)

Idle == [phase |-> "idle", what |-> "db", body |-> NoBlock, req |-> 0,
         attempt |-> 0]
NoRequest == [state |-> "none"]
Done == [state |-> "done"]
Fresh(R) == CHOOSE n \in Requests :
              R[n] = NoRequest /\ \A m \in 1 .. n - 1 : R[m] # NoRequest

Delta(root, char, type) ==
  [state |-> "sent", kind |-> "delta", root |-> root, char |-> char, type |-> type,
   bad |-> FALSE]
Full(what, body) == [state |-> "sent", kind |-> what, body |-> body]

Init ==
  /\ remote \in BOOLEAN
  /\ doc = [root |-> {}, char |-> NoBlock]
  /\ base \in {[root |-> {}, char |-> NoBlock, remote |-> NoBlock],
               [root |-> NoBlock, char |-> NoBlock, remote |-> NoBlock]}
  /\ sent = NoBlock
  /\ save = Idle
  /\ reqs = [n \in Requests |-> NoRequest]
  /\ inited = TRUE /\ raw = NoBlock
  /\ data = [root |-> {}, char |-> NoBlock]
  /\ hashes = [root |-> {}, char |-> NoBlock, charType |-> "none"]
  /\ uploads = {}
  /\ file = [db |-> [root |-> {}, char |-> NoBlock, ptr |-> NoBlock],
             char |-> NoBlock]
  /\ shown = data
  /\ seen = [edits |-> 0, saves |-> 0, failed |-> FALSE,
             late |-> FALSE, blind |-> FALSE,
             stub |-> FALSE, old |-> FALSE, faults |-> 0]

-----------------------------------------------------------------------------
\* The user: a field set or cleared, a character added.
Edit(b, k) ==
  /\ save.phase = "idle" /\ seen.edits < MaxEdits
  /\ doc[b] # NoBlock
  /\ doc' = [doc EXCEPT ![b] = IF k \in @ THEN @ \ {k} ELSE @ \cup {k}]
  /\ seen' = [seen EXCEPT !.edits = @ + 1]
  /\ UNCHANGED <<remote, base, sent, save, reqs, cacheVars, uploads, file, shown>>

AddCharacter ==
  /\ save.phase = "idle" /\ doc.char = NoBlock /\ seen.edits < MaxEdits
  /\ doc' = [doc EXCEPT !.char = {}]
  /\ seen' = [seen EXCEPT !.edits = @ + 1]
  /\ UNCHANGED <<remote, base, sent, save, reqs, cacheVars, uploads, file, shown>>

StartSave(phase, what, body, m) ==
  /\ reqs' = [reqs EXCEPT ![Fresh(reqs)] = m]
  /\ save' = [phase |-> phase, what |-> what, body |-> body,
              req |-> Fresh(reqs), attempt |-> 0]

CanSave ==
  /\ save.phase = "idle" /\ seen.saves < MaxSaves
  /\ seen' = [seen EXCEPT !.saves = @ + 1,
                          !.late = @ \/ \E u \in uploads : u.state # "accepted"]
  /\ UNCHANGED <<remote, doc, cacheVars, uploads, file, shown>>

\* RisuAI writes database.bin.  The baseline moves before anything is sent.
SaveDb ==
  /\ CanSave
  /\ base' = [base EXCEPT !.root = DbBody.root,
                          !.char = IF Named(DbBody) = NoBlock THEN @ ELSE Named(DbBody)]
  /\ LET root == Diff(base.root, DbBody.root)
         char == BlockDelta(base.char, Named(DbBody)) IN
     IF base.root = NoBlock
     THEN StartSave("full", "db", DbBody, Full("db", DbBody))
     ELSE IF root = NoPatch /\ char = NoPatch
     THEN UNCHANGED <<save, reqs>>
     ELSE StartSave("delta", "db", DbBody,
                    Delta(root, char, IF remote THEN "ptr" ELSE "char"))
  /\ UNCHANGED sent

\* RisuAI writes the file of the character; the same body is not sent again.
SaveChar ==
  /\ CanSave
  /\ remote /\ doc.char # NoBlock
  /\ sent' = doc.char
  /\ base' = IF sent = doc.char THEN base ELSE [base EXCEPT !.remote = doc.char]
  /\ IF sent = doc.char
     THEN UNCHANGED <<save, reqs>>
     ELSE IF base.remote \in {NoBlock, doc.char}
     THEN StartSave("full", "char", CharBody(doc.char), Full("char", CharBody(doc.char)))
     ELSE StartSave("delta", "char", CharBody(doc.char),
                    Delta(NoPatch, Diff(base.remote, doc.char), "char"))

\* fetchWriteWithRetry: an error is tried again.  Slip: one retry too many.
MayRetryOnceMore == save.attempt <= WriteMaxRetries
MayRetry == save.attempt < WriteMaxRetries

\* What the page does with the outcome of request n, R being the requests.
Outcome(R, S, n, how) ==
  IF save.req # n
  THEN reqs' = R /\ seen' = S /\ UNCHANGED save
  ELSE IF how = "ok"
  THEN reqs' = R /\ save' = Idle /\ seen' = S
  ELSE IF save.phase = "delta" \/ (how = "error" /\ MayRetry)
  THEN /\ reqs' = [R EXCEPT ![Fresh(R)] = Full(save.what, save.body)]
       /\ save' = [save EXCEPT !.phase = "full", !.req = Fresh(R),
                               !.attempt = IF save.phase = "delta" THEN 0 ELSE @ + 1]
       /\ seen' = S
  ELSE reqs' = R /\ save' = Idle /\ seen' = [S EXCEPT !.failed = TRUE]

\* The delta's fifteen seconds are over, or the connection breaks: the request
\* itself may still arrive.  When the server restarts, the connection breaks.
GiveUp ==
  /\ save.phase # "idle"
  /\ LET lost == reqs[save.req].state = "done" IN
     /\ lost \/ seen.faults < MaxFaults
     /\ Outcome(reqs, IF lost THEN seen ELSE [seen EXCEPT !.faults = @ + 1],
                save.req, "error")
  /\ UNCHANGED <<remote, pageVars, cacheVars, uploads, file, shown>>

Lose(n) ==
  /\ reqs[n].state = "sent" /\ n # save.req
  /\ reqs' = [reqs EXCEPT ![n] = Done]
  /\ UNCHANGED <<remote, pageVars, save, cacheVars, uploads, file, shown, seen>>

-----------------------------------------------------------------------------
Fulls(f) == {u \in uploads : u.file = f /\ u.ordered}
LastSeq(f) == LET S == {u.seq : u \in Fulls(f)} IN
              IF S = {} THEN 0 ELSE CHOOSE x \in S : \A y \in S : y <= x

Upload(n, f, body, ordered) ==
  [req |-> n, file |-> f, body |-> body, ordered |-> ordered,
   seq |-> IF ordered THEN LastSeq(f) + 1 ELSE 0, state |-> "up"]

Late(n) == [seen EXCEPT !.late = @ \/ n # save.req]

\* proxyDbWrite, proxyRemoteBlockWrite (for a client that is fresh).
ReceiveFull(n) ==
  /\ reqs[n].state = "sent" /\ reqs[n].kind # "delta"
  /\ reqs' = [reqs EXCEPT ![n] = [state |-> "serving", kind |-> "full", bad |-> FALSE]]
  /\ uploads' = uploads \cup {Upload(n, reqs[n].kind, reqs[n].body, TRUE)}
  /\ seen' = Late(n)
  /\ UNCHANGED <<remote, pageVars, save, cacheVars, file, shown>>

\* assembleDbBinary: what hashCache lists, and the REMOTE blocks.
Assemble(d, h) ==
  [root |-> d.root,
   char |-> IF h.charType = "char" THEN d.char ELSE NoBlock,
   ptr |-> IF raw # NoBlock THEN raw
           ELSE IF h.charType = "ptr" THEN d.char ELSE NoBlock]

\* Slip: the patch replaces what the cache holds.
PatchedReplaces(cached, p) == IF p = NoPatch THEN cached ELSE p.set

\* handleDeltaWrite: a block that is not cached is the patch itself, nulls
\* included; the page sends such a block whole.
Patched(cached, p) ==
  IF p = NoPatch THEN cached
  ELSE IF cached = NoBlock THEN p.set \cup (p.del \cap Nulls)
  ELSE ApplyPatch(cached, p)

Uncached(m) == m.char # NoPatch /\ m.type = "char" /\ data.char = NoBlock

\* 409 without a cache; what was patched before the refused block stays.
RefuseDelta(n, rootFirst) ==
  /\ reqs[n].state = "sent" /\ reqs[n].kind = "delta"
  /\ ~ inited \/ Uncached(reqs[n])
  /\ LET patches == inited /\ rootFirst /\ reqs[n].root # NoPatch IN
     /\ data' = IF patches THEN [data EXCEPT !.root = Patched(@, reqs[n].root)] ELSE data
     /\ hashes' = IF patches THEN [hashes EXCEPT !.root = NoBlock] ELSE hashes
  /\ Outcome([reqs EXCEPT ![n] = Done], Late(n), n, "error")
  /\ UNCHANGED <<remote, pageVars, inited, raw, uploads, file, shown>>

\* A character's delta is uploaded to its file, in the order of arrival, and
\* everything else in the file built from the cache, in no order.
ReceiveDelta(n) ==
  /\ reqs[n].state = "sent" /\ reqs[n].kind = "delta"
  /\ inited /\ ~ Uncached(reqs[n])
  /\ LET m == reqs[n]
         isChar == m.char # NoPatch /\ m.type = "char"
         isPtr == m.char # NoPatch /\ m.type = "ptr"
         isDb == m.root # NoPatch \/ isPtr
         d == [root |-> Patched(data.root, m.root), char |-> Patched(data.char, m.char)]
         h == [root |-> IF m.root # NoPatch THEN NoBlock ELSE hashes.root,
               char |-> IF isPtr THEN NoBlock ELSE hashes.char,
               charType |-> IF isPtr THEN "ptr" ELSE hashes.charType] IN
     /\ data' = d /\ hashes' = h
     /\ uploads' = uploads
          \cup (IF isDb THEN {Upload(n, "db", Assemble(d, h), FALSE)} ELSE {})
          \cup (IF isChar THEN {Upload(n, "char", CharBody(d.char), TRUE)} ELSE {})
  /\ reqs' = [reqs EXCEPT ![n] = [state |-> "serving", kind |-> "delta", bad |-> FALSE]]
  /\ seen' = [Late(n) EXCEPT !.stub = @ \/ (reqs[n].char # NoPatch /\ reqs[n].type = "ptr"
                                            /\ data.char = NoBlock)]
  /\ UNCHANGED <<remote, pageVars, save, inited, raw, file, shown>>

-----------------------------------------------------------------------------
Move(u, to) == (uploads \ {u}) \cup {[u EXCEPT !.state = to]}

\* The upstream stores the file, whether or not its answer gets back.
UploadLands(u) ==
  /\ u.state = "up"
  /\ uploads' = Move(u, "landed")
  /\ file' = [file EXCEPT ![u.file] = IF u.file = "db" THEN u.body ELSE u.body.char]
  /\ seen' = [Late(u.req) EXCEPT !.blind = @ \/ ~ inited]
  /\ UNCHANGED <<remote, pageVars, save, reqs, cacheVars, shown>>

\* The page is answered when all uploads of its request are through.  Slip: a
\* failed upload leaves without a word.
AnswerSuccess(u, how, others) ==
  IF others = {} /\ how = "ok"
  THEN Outcome([reqs EXCEPT ![u.req] = Done], seen, u.req, "ok")
  ELSE UNCHANGED <<reqs, save, seen>>
Answer(u, how, others) ==
  LET n == u.req
      bad == reqs[n].bad \/ how # "ok"
      final == IF reqs[n].kind = "delta" THEN IF bad THEN "error" ELSE "ok"
               ELSE how IN
  IF others # {}
  THEN reqs' = [reqs EXCEPT ![n].bad = bad] /\ UNCHANGED <<save, seen>>
  ELSE Outcome([reqs EXCEPT ![n] = Done], seen, n, final)

\* sendUpstreamWithRetry is through: a 2xx, another status, or no connection.
UploadEnds(u, how) ==
  /\ u.state = "landed" \/ (u.state = "up" /\ how # "ok")
  /\ how = "rejected" => reqs[u.req].kind = "full"
  /\ uploads' = IF how = "ok" THEN Move(u, "accepted") ELSE uploads \ {u}
  /\ raw' = IF how = "ok" /\ u.ordered /\ u.file = "db" THEN u.body.ptr ELSE raw
  /\ Answer(u, how, {v \in uploads \ {u} : v.req = u.req /\ v.state \in {"up", "landed"}})
  /\ UNCHANGED <<remote, pageVars, inited, data, hashes, file, shown>>

\* processDbWrite of the body uploaded.  REMOTE blocks are skipped.
ProcessDb(u) ==
  LET body == u.body
      changed == body.char # NoBlock /\ body.char # hashes.char IN
  /\ inited' = TRUE
  /\ data' = [root |-> body.root,
              char |-> IF body.char = NoBlock THEN data.char ELSE body.char]
  /\ hashes' = [root |-> body.root,
                char |-> IF body.char = NoBlock THEN hashes.char ELSE body.char,
                charType |-> IF body.char = NoBlock THEN hashes.charType ELSE "char"]
  /\ shown' = [root |-> IF inited /\ body.root # data.root THEN body.root ELSE shown.root,
               char |-> IF inited /\ changed THEN body.char ELSE shown.char]

\* Slip: the body is compared with the cache, which the delta has changed.
ProcessCharByData(u) ==
  LET same == data.char = u.body.char IN
  /\ data' = [data EXCEPT !.char = u.body.char]
  /\ hashes' = [hashes EXCEPT !.char = u.body.char, !.charType = "char"]
  /\ shown' = [shown EXCEPT !.char = IF inited /\ ~ same THEN u.body.char ELSE @]
  /\ UNCHANGED inited

\* processRemoteBlockWrite
ProcessChar(u) ==
  LET same == inited /\ hashes.char = u.body.char IN
  /\ data' = IF same THEN data ELSE [data EXCEPT !.char = u.body.char]
  /\ hashes' = IF same THEN hashes
               ELSE [hashes EXCEPT !.char = u.body.char, !.charType = "char"]
  /\ shown' = [shown EXCEPT !.char = IF inited /\ ~ same THEN u.body.char ELSE @]
  /\ UNCHANGED inited

\* The queue of whole writes and of the character's, or setImmediate.
Processable(u) ==
  /\ u.state = "accepted"
  /\ u.ordered => \A v \in Fulls(u.file) : u.seq <= v.seq

Process(u) ==
  /\ Processable(u)
  /\ IF u.file = "db" THEN ProcessDb(u) ELSE ProcessChar(u)
  /\ uploads' = uploads \ {u}
  /\ UNCHANGED <<remote, pageVars, save, reqs, raw, file, seen>>

\* The server restarts: the pages that reconnect reload from the files.
Restart ==
  /\ seen.faults < MaxFaults
  /\ inited' = FALSE /\ raw' = NoBlock /\ uploads' = {}
  /\ data' = [root |-> NoBlock, char |-> NoBlock]
  /\ hashes' = [root |-> NoBlock, char |-> NoBlock, charType |-> "none"]
  /\ reqs' = [n \in Requests |-> IF reqs[n].state = "serving" THEN Done ELSE reqs[n]]
  /\ shown' = [root |-> file.db.root,
               char |-> IF remote THEN file.char ELSE file.db.char]
  /\ seen' = [seen EXCEPT !.faults = @ + 1]
  /\ UNCHANGED <<remote, pageVars, save, file>>

\* The read of database.bin at start.  A delta has written the cached character
\* into it as well, which its own file may have left behind.
BootFill ==
  /\ ~ inited
  /\ LET f == file.db IN
     /\ inited' = TRUE /\ raw' = f.ptr
     /\ data' = [root |-> f.root, char |-> IF f.char = NoBlock THEN data.char ELSE f.char]
     /\ hashes' = [root |-> f.root,
                   char |-> IF f.char = NoBlock THEN hashes.char ELSE f.char,
                   charType |-> IF f.char = NoBlock THEN hashes.charType ELSE "char"]
     /\ seen' = [seen EXCEPT !.old = @ \/ (remote /\ f.char # NoBlock
                                            /\ Clean(f.char) # Clean(file.char))]
  /\ UNCHANGED <<remote, pageVars, save, reqs, uploads, file, shown>>

\* What is answered is processed by setImmediate, before the page's next
\* request can arrive; one that the page has given up may arrive at any time.
Serve(n) ==
  /\ n = save.req => \A u \in uploads : ~ Processable(u)
  /\ ReceiveFull(n) \/ ReceiveDelta(n) \/ \E f \in BOOLEAN : RefuseDelta(n, f)

Finish(u) == UploadLands(u) \/ \E how \in {"ok", "rejected", "error"} : UploadEnds(u, how)

Next ==
  \/ \E k \in RootFields : Edit("root", k)
  \/ \E k \in CharFields : Edit("char", k)
  \/ AddCharacter \/ SaveDb \/ SaveChar \/ GiveUp
  \/ \E n \in Requests : Lose(n) \/ Serve(n)
  \/ \E u \in uploads : Finish(u) \/ Process(u)
  \/ Restart \/ BootFill

\* The page notices that a connection broke, requests arrive, and the upstream
\* answers or fails.
Fairness ==
  /\ WF_vars(GiveUp /\ reqs[save.req].state = "done")
  /\ \A n \in Requests : WF_vars(Serve(n))
  /\ WF_vars(\E u \in uploads : Finish(u))
  /\ WF_vars(\E u \in uploads : Process(u))

Spec == Init /\ [][Next]_vars /\ Fairness

-----------------------------------------------------------------------------
Maybe == Objects \cup {NoBlock}
Bodies == [root : Maybe, char : Maybe, ptr : Maybe]

\* Blocks are objects, and a request that is served is one the page sent.
TypeOK ==
  /\ doc \in [root : SUBSET RootFields, char : (SUBSET CharFields) \cup {NoBlock}]
  /\ data \in [root : Maybe, char : Maybe]
  /\ file \in [db : Bodies, char : Maybe]
  /\ hashes.charType \in {"none", "char", "ptr"}
  /\ \A u \in uploads : u.body \in Bodies /\ reqs[u.req].state \in {"serving", "done"}
  /\ save.attempt \in 0 .. WriteMaxRetries

\* No save failed for good, no request outlived its save, no pointer took the
\* place of a character that the cache did not hold, and no restart filled the
\* cache with an old copy of the character.
NoTrouble == ~ seen.failed /\ ~ seen.late /\ ~ seen.stub /\ ~ seen.old
Quiet == uploads = {} /\ \A n \in Requests : reqs[n].state \in {"none", "done"}

\* One is the other, but for fields that are null there: a delta deletes them, a
\* whole write stores them.
StoredOf(stored, held) == stored \subseteq held /\ held \ stored \subseteq Nulls

\* What the page takes as stored when it works out the next delta, or leaves a
\* write out, is stored, null fields excepted, as long as nothing of NoTrouble
\* has happened.
BaselineIsStored ==
  save.phase = "idle" /\ NoTrouble =>
    /\ base.root # NoBlock => StoredOf(file.db.root, base.root)
    /\ remote /\ sent # NoBlock => StoredOf(Clean(file.char), sent)

\* Once nothing is under way, the cache holds what the files hold, whatever
\* uploads failed before a later one succeeded.  A delta and the whole write that
\* followed it may be processed in any order, which leaves null fields of the
\* root block out; those of the character are in order.
CacheIsTheFile ==
  Quiet /\ NoTrouble /\ inited =>
    /\ StoredOf(data.root, file.db.root)
    /\ remote /\ data.char # NoBlock /\ file.char # NoBlock
         => Clean(data.char) = Clean(file.char)

\* The other pages have been told of every change of the character, unless a
\* write was stored before the cache was filled, which announces nothing.
CharacterIsTold ==
  Quiet /\ NoTrouble /\ ~ seen.blind /\ remote => Clean(shown.char) = Clean(file.char)

\* RisuAI gets an answer to every save.
SavesEnd == save.phase # "idle" ~> save.phase = "idle"

\* deltaDbWrite.ts:81: a null in a patch is a deletion; a field that becomes null
\* is stored all the same.
NullsAreStored ==
  save.phase = "idle" /\ NoTrouble /\ base.root # NoBlock =>
    file.db.root = base.root

\* processDbWrite.ts:33: pointers stay out of the data of characters.
PointersStayOut == data.char # NoBlock => Ptr \notin data.char

\* assembleDbBinary.ts:2: the file of a delta has the REMOTE blocks too.
PointerIsStored ==
  save.phase = "idle" /\ NoTrouble /\ remote /\ base.char # NoBlock =>
    file.db.ptr # NoBlock

\* README.md:102: blocks that changed are broadcast, the root block among them.
RootIsTold == Quiet /\ NoTrouble => shown.root = file.db.root

\* README.md:99: a change of a character is passed on to RisuAI's save; pages
\* read characters that are not in files of their own from database.bin.
CharactersAreSaved ==
  save.phase = "idle" /\ Quiet /\ NoTrouble /\ ~ remote => file.db.char = base.char
=============================================================================
