-------------------------- MODULE DeltaWriteProofs --------------------------
(***************************************************************************)
(* Proofs about DeltaWrite, for any fields, edits, saves, retries, breaks  *)
(* and restarts.  The page takes a block as stored when its save ends      *)
(* well; so it must be known all along what the files hold (Stored), what  *)
(* uploads may still land (Current) and what of them has landed (Landed),  *)
(* what the cache holds that a delta is applied to (Cached), and what the  *)
(* other pages have been told (Told).  The block that is being saved is    *)
(* between two contents from the moment its request is served until it is  *)
(* answered; the other block is settled.                                   *)
(*                                                                         *)
(* A delta deletes null fields and a whole write stores them, so that what *)
(* is stored, cached or on its way may lack null fields of what the page   *)
(* holds (Under).  The order of a character's writes decides which of them *)
(* is stored and processed last (Latest).                                  *)
(***************************************************************************)
EXTENDS DeltaWrite, WellFoundedInduction, TLAPS

-----------------------------------------------------------------------------
\* RisuAI waits for a save.
Active == save.phase # "idle"
\* Types.
MaybePatch == Patches \cup {NoPatch}
Deltas == [state : {"sent"}, kind : {"delta"}, root : MaybePatch, char : MaybePatch,
           type : {"ptr", "char"}, bad : {FALSE}]
Wholes == [state : {"sent"}, kind : {"db", "char"}, body : Bodies]
Servings == [state : {"serving"}, kind : {"full", "delta"}, bad : BOOLEAN]
Messages == Deltas \cup Wholes \cup Servings \cup {NoRequest, Done}
Uploads == [req : Requests, file : {"db", "char"}, body : Bodies, ordered : BOOLEAN,
            seq : Nat, state : {"up", "landed", "accepted"}]
Saves == [phase : {"idle", "delta", "full"}, what : {"db", "char"},
          body : Bodies \cup {NoBlock}, req : Nat, attempt : 0 .. WriteMaxRetries]
Seens == [edits : Nat, saves : Nat, failed : BOOLEAN, late : BOOLEAN,
          blind : BOOLEAN, stub : BOOLEAN, old : BOOLEAN, faults : Nat]

Types ==
  /\ remote \in BOOLEAN /\ inited \in BOOLEAN
  /\ doc \in [root : SUBSET RootFields, char : (SUBSET CharFields) \cup {NoBlock}]
  /\ base \in [root : Maybe, char : Maybe, remote : Maybe]
  /\ sent \in (SUBSET CharFields) \cup {NoBlock}
  /\ save \in Saves
  /\ reqs \in [Requests -> Messages]
  /\ data \in [root : Maybe, char : Maybe] /\ raw \in Maybe
  /\ hashes \in [root : Maybe, char : Maybe, charType : {"none", "char", "ptr"}]
  /\ uploads \subseteq Uploads
  /\ file \in [db : Bodies, char : Maybe]
  /\ shown \in [root : Maybe, char : Maybe]
  /\ seen \in Seens

\* The server has seen the request of every upload.
Served == \A u \in uploads : reqs[u.req].state \in {"serving", "done"}

\* There are only so many uploads.
Counted == \E b \in Nat : \A u \in uploads : u.seq <= b

\* How many requests the save under way may still add.
ToCome == IF save.phase = "idle" THEN 0
          ELSE IF save.phase = "delta" THEN WriteMaxRetries + 1
          ELSE WriteMaxRetries - save.attempt
\* The most requests of one save.
Per == WriteMaxRetries + 2
UsedUpTo(R, k) == \A n \in Requests : (R[n] = NoRequest) <=> n > k
Numbered ==
  /\ seen.saves <= MaxSaves
  /\ \E k \in Nat : k + ToCome <= seen.saves * Per /\ UsedUpTo(reqs, k)

\* The request that the page waits for; a delta on its way, any request at the
\* server.
Mine == reqs[save.req]
AsSent == Active /\ save.phase = "delta" /\ Mine.state = "sent"
InService == Active /\ Mine.state = "serving"

\* The baseline is what the save under way sends, and its request is the kind
\* that its phase says.
Page ==
  /\ base.remote = sent
  /\ remote => base.char \in {NoBlock, {Ptr}}
  /\ ~ Active => save.req = 0
  /\ Active => /\ save.req \in Requests
               /\ Mine.state \in {"sent", "serving", "done"}
               /\ IF save.what = "db"
                  THEN save.body = DbBody /\ base.root = doc.root
                  ELSE /\ remote /\ doc.char # NoBlock
                       /\ save.body = CharBody(doc.char) /\ sent = doc.char
  /\ save.phase = "delta" /\ Mine.state \in {"sent", "serving"} => Mine.kind = "delta"
  /\ AsSent => IF save.what = "char" THEN Mine.root = NoPatch /\ Mine.type = "char"
               ELSE remote => Mine.type = "ptr" /\ Mine.char \in {NoPatch, Whole({Ptr})}
  /\ save.phase = "full" /\ Mine.state = "sent" => Mine = Full(save.what, save.body)
  /\ save.phase = "full" /\ Mine.state = "serving" => Mine.kind = "full"

\* One block is another, but for null fields that it lacks.
Under(a, b) == a = b \/ (a \in Objects /\ b \in Objects /\ StoredOf(a, b))

\* The files hold the baseline of the block that is not being saved.  A delta
\* that is still to be served turns what they hold into what is being saved;
\* one that is served has been stored, has failed, or has yet to land.
NextChar == ApplyPatch(Clean(file.char), Mine.char)
Stored ==
  /\ (~ Active \/ save.what = "char") /\ base.root # NoBlock => Under(file.db.root, base.root)
  /\ (~ Active \/ save.what = "db") /\ remote /\ sent # NoBlock =>
       Under(Clean(file.char), sent)
  /\ AsSent /\ save.what = "db" => Under(Patched(file.db.root, Mine.root), base.root)
  /\ AsSent /\ save.what = "char" =>
       /\ Mine.char # NoPatch /\ file.char # NoBlock
       /\ Mine.char \in [set : SUBSET CharFields, del : SUBSET CharFields]
       /\ Under(NextChar, doc.char)
       /\ Clean(file.char) = doc.char => NextChar = doc.char
  /\ InService /\ save.phase = "delta" /\ save.what = "db" =>
       \/ Mine.bad \/ Under(file.db.root, base.root)
       \/ \E u \in uploads : u.state = "up" /\ u.req = save.req /\ u.file = "db"

\* Uploads that may still land are the present save's, and with them there are
\* no others of another content.
Content(v) ==
  IF v.file = "db" THEN save.what = "db" /\ Under(v.body.root, base.root)
  ELSE remote => save.what = "char" /\ Under(Clean(v.body.char), doc.char)
Current ==
  /\ Active /\ Mine.state = "done" => uploads = {}
  /\ AsSent => \A u \in uploads : u.state = "accepted"
  /\ Active /\ (InService \/ \E u \in uploads : u.state # "accepted") =>
       \A v \in uploads : Content(v)
  /\ InService /\ save.phase = "full" =>
       \A v \in uploads : v.req = save.req => v.file = save.what /\ v.body = save.body
  /\ InService /\ save.phase = "delta" =>
       \A v, w \in uploads : v.req = save.req /\ (v.file = w.file => v = w)

\* What has landed is what the file holds, null fields excepted if other saves
\* came after it; a file built from the cache brings no other character.
IsStored(u) == IF u.file = "db" THEN u.body.root = file.db.root
               ELSE remote => Clean(u.body.char) = Clean(file.char)
Landed ==
  \A u \in uploads :
    /\ u.file = "db" /\ u.state # "up" => Under(u.body.root, file.db.root)
    /\ InService /\ u.req = save.req /\ u.state # "up" => IsStored(u)
    /\ u.file = "db" /\ remote /\ u.body.char # NoBlock =>
         Clean(u.body.char) = Clean(file.char)
    /\ u.file = "char" => u.body.char # NoBlock

\* Uploads of f wait to be processed; no save of what is being served.
Waiting(f) == \E u \in uploads : u.state = "accepted" /\ u.file = f
Settled(what) == ~ Active \/ save.what # what \/ AsSent \/ Mine.state = "done"

\* Of a character's uploads, the last in order is the one that is stored.
Newest(u) == \A v \in Fulls("char") : v.seq <= u.seq
Latest ==
  /\ \A u \in uploads : u.file = "char" => u.ordered = TRUE
  /\ remote /\ Settled("char") =>
       \A u \in Fulls("char") : Newest(u) =>
         u.state = "accepted" /\ Clean(u.body.char) = Clean(file.char)
  /\ InService /\ save.what = "char" =>
       \A u, v \in Fulls("char") : u.req = save.req /\ v.req # save.req => v.seq < u.seq

\* The cache holds what the file of a settled block holds, once that has been
\* processed, and a delta being served brings it there.  Its hash may be that
\* of an older block, but then an upload of another one is to be processed.
Renews(u) == /\ u.state = "accepted" /\ u.file = "char"
             /\ \/ Clean(u.body.char) = Clean(data.char)
                \/ Clean(u.body.char) # Clean(hashes.char)
Cached ==
  /\ Settled("db") /\ inited /\ ~ Waiting("db") => Under(data.root, file.db.root)
  /\ InService /\ save.phase = "delta" => inited
  /\ InService /\ save.phase = "delta" /\ save.what = "db" =>
       Mine.bad \/ Under(data.root, file.db.root) \/ \E u \in uploads : u.file = "db"
  /\ InService /\ save.phase = "delta" /\ save.what = "char" =>
       \A u \in uploads : u.body.char = data.char
  /\ Settled("char") /\ remote /\ ~ Waiting("char") /\ data.char # NoBlock =>
       Clean(data.char) = Clean(file.char)
  /\ remote /\ hashes.char # NoBlock =>
       \/ Clean(data.char) = Clean(hashes.char)
       \/ Active /\ ~ AsSent /\ save.what = "char" /\ Clean(hashes.char) # doc.char
       \/ \E u \in uploads : Renews(u)

\* The other pages know the character that the hash is of, and the file's when
\* it is settled and processed.
Told ==
  /\ Settled("char") /\ ~ Waiting("char") => Clean(shown.char) = Clean(file.char)
  /\ inited /\ hashes.char # NoBlock => Clean(shown.char) = Clean(hashes.char)
  /\ ~ inited => Clean(shown.char) = Clean(file.char) /\ hashes.char = NoBlock

\* A write that landed while the cache was empty is remembered.
Filled == ~ seen.blind => \A u \in uploads : u.state # "up" => inited

IInv ==
  /\ Types /\ Served /\ Counted /\ Numbered /\ Page /\ Filled
  /\ NoTrouble => Stored /\ Current /\ Landed /\ Latest /\ Cached
  /\ (NoTrouble /\ ~ seen.blind /\ remote => Told)

-----------------------------------------------------------------------------
(* Blocks and patches.                                                     *)

LEMMA Blocks ==
  /\ NoBlock \notin Objects /\ NoPatch \notin Patches
  /\ SUBSET RootFields \subseteq Objects /\ SUBSET CharFields \subseteq Objects
  /\ {Ptr} \in Objects /\ {} \in Objects
  /\ Clean(NoBlock) = NoBlock
  /\ \A o \in Objects : Clean(o) = o \ {Ptr} /\ Clean(o) \in Objects /\ Clean(o) # NoBlock
  /\ \A o \in (SUBSET RootFields) \cup (SUBSET CharFields) : Clean(o) = o
<1>1. NoBlock \notin Objects /\ NoPatch \notin Patches
  BY NoBlockAssumption DEF NoPatch
<1>2. /\ SUBSET RootFields \subseteq Objects /\ SUBSET CharFields \subseteq Objects
      /\ {Ptr} \in Objects /\ {} \in Objects
  BY DEF Objects
<1>3. \A o \in Objects : o \ {Ptr} \in Objects
  BY DEF Objects
<1>4. \A o \in (SUBSET RootFields) \cup (SUBSET CharFields) : o \ {Ptr} = o
  BY PtrAssumption
<1> QED
  BY <1>1, <1>2, <1>3, <1>4 DEF Clean

\* Blocks without null fields that others have are ordered.
LEMMA UnderOrder ==
  /\ \A a : Under(a, a)
  /\ \A a, b, c : Under(a, b) /\ Under(b, c) => Under(a, c)
  /\ \A a : \A b \in Objects : Under(a, b) => a \in Objects
<1>1. ASSUME NEW a, NEW b, NEW c, Under(a, b), Under(b, c) PROVE Under(a, c)
  <2>1. CASE a = b \/ b = c
    BY <1>1, <2>1
  <2>2. CASE a # b /\ b # c
    BY <1>1, <2>2 DEF Under, StoredOf
  <2> QED
    BY <2>1, <2>2
<1> QED
  BY <1>1 DEF Under

LEMMA DiffType ==
  ASSUME NEW prev \in Objects, NEW next \in Objects
  PROVE  /\ Diff(prev, next) \in MaybePatch
         /\ Diff(prev, next) = NoPatch <=> prev = next
         /\ prev # next =>
              Diff(prev, next) = [set |-> (next \ prev) \ Nulls,
                                  del |-> (prev \ next) \cup ((next \ prev) \cap Nulls)]
<1>1. /\ (next \ prev) \ Nulls \in Objects
      /\ (prev \ next) \cup ((next \ prev) \cap Nulls) \in Objects
  BY DEF Objects
<1>2. [set |-> (next \ prev) \ Nulls,
       del |-> (prev \ next) \cup ((next \ prev) \cap Nulls)] \in Patches
  BY <1>1 DEF Patches
<1> QED
  BY <1>2, Blocks DEF Diff, MaybePatch

\* What a page sends turns its old block into the new one, or what lacks null
\* fields of the old block into what lacks null fields of the new one.  What is
\* the new block already stays so.
LEMMA DiffPatches ==
  ASSUME NEW prev \in Objects, NEW next \in Objects, NEW held \in Objects,
         Under(held, prev)
  PROVE  /\ Under(Patched(held, Diff(prev, next)), next)
         /\ held = next => Patched(held, Diff(prev, next)) = next
<1>1. held \subseteq prev /\ prev \ held \subseteq Nulls
  BY DEF Under, StoredOf
<1>2. CASE prev = next
  BY <1>2 DEF Diff, Patched
<1>3. CASE prev # next
  <2> DEFINE set == (next \ prev) \ Nulls
             del == (prev \ next) \cup ((next \ prev) \cap Nulls)
             new == (held \ del) \cup set
  <2>1. Diff(prev, next) = [set |-> set, del |-> del] /\ Diff(prev, next) # NoPatch
    BY <1>3, DiffType
  <2>2. Patched(held, Diff(prev, next)) = new
    BY <2>1, Blocks DEF Patched, ApplyPatch
  <2>3. new \subseteq next /\ next \ new \subseteq Nulls
    BY <1>1
  <2>4. new \in Objects
    BY DEF Objects
  <2>5. held = next => new = next
    BY <1>1
  <2> QED
    BY <2>2, <2>3, <2>4, <2>5 DEF Under, StoredOf
<1> QED
  BY <1>2, <1>3

LEMMA PatchedType ==
  ASSUME NEW obj \in Maybe, NEW p \in MaybePatch
  PROVE  /\ Patched(obj, p) \in Maybe
         /\ p # NoPatch => Patched(obj, p) \in Objects
<1>1. CASE p = NoPatch
  BY <1>1 DEF Patched
<1>2. CASE p # NoPatch
  <2>1. p.set \in Objects /\ p.del \in Objects
    BY <1>2 DEF MaybePatch, Patches
  <2>2. /\ p.set \cup (p.del \cap Nulls) \in Objects
        /\ obj \in Objects => (obj \ p.del) \cup p.set \in Objects
    BY <2>1 DEF Objects
  <2> QED
    BY <1>2, <2>2 DEF Patched, ApplyPatch, Maybe
<1> QED
  BY <1>1, <1>2

\* A patch keeps the order of what it is applied to.
LEMMA PatchedUnder ==
  ASSUME NEW a, NEW b, Under(a, b), NEW p \in MaybePatch
  PROVE  Under(Patched(a, p), Patched(b, p))
<1>1. CASE a = b \/ p = NoPatch
  BY <1>1, UnderOrder DEF Patched
<1>2. CASE a # b /\ p # NoPatch
  <2>1. a \in Objects /\ b \in Objects /\ StoredOf(a, b) /\ a # NoBlock /\ b # NoBlock
    BY <1>2, Blocks DEF Under
  <2>2. /\ Patched(a, p) = (a \ p.del) \cup p.set
        /\ Patched(b, p) = (b \ p.del) \cup p.set
    BY <1>2, <2>1 DEF Patched, ApplyPatch
  <2>3. Patched(a, p) \in Objects /\ Patched(b, p) \in Objects
    BY <1>2, <2>1, PatchedType DEF Maybe
  <2>4. StoredOf(Patched(a, p), Patched(b, p))
    BY <2>1, <2>2 DEF StoredOf
  <2> QED
    BY <2>3, <2>4 DEF Under
<1> QED
  BY <1>1, <1>2

\* A patch of the character's fields leaves the pointer alone.
LEMMA PatchedClean ==
  ASSUME NEW obj \in Objects,
         NEW p \in [set : SUBSET CharFields, del : SUBSET CharFields]
  PROVE  Clean(ApplyPatch(obj, p)) = ApplyPatch(Clean(obj), p)
<1>1. p.set \subseteq CharFields /\ p.del \subseteq CharFields
  OBVIOUS
<1>2. (obj \ p.del) \cup p.set \in Objects
  BY <1>1 DEF Objects
<1>3. ((obj \ p.del) \cup p.set) \ {Ptr} = ((obj \ {Ptr}) \ p.del) \cup p.set
  BY <1>1, PtrAssumption
<1> QED
  BY <1>2, <1>3, Blocks DEF ApplyPatch

\* The pointer is a patch that changes nothing else.
LEMMA PointerClean ==
  /\ Whole({Ptr}) \in Patches
  /\ \A obj \in Objects : Clean(Patched(obj, Whole({Ptr}))) = Clean(obj)
<1>1. Whole({Ptr}) = [set |-> {Ptr}, del |-> {}]
  <2>1. {Ptr} \ Nulls = {Ptr} /\ {Ptr} \cap Nulls = {}
    BY PtrAssumption
  <2> QED
    BY <2>1 DEF Whole
<1>2. Whole({Ptr}) \in Patches
  <2>1. [set |-> {Ptr}, del |-> {}] \in [set : Objects, del : Objects]
    BY Blocks
  <2> QED
    BY <1>1, <2>1, Zenon DEF Patches
<1>3. ASSUME NEW obj \in Objects PROVE Clean(Patched(obj, Whole({Ptr}))) = Clean(obj)
  <2>1. Patched(obj, Whole({Ptr})) = (obj \ {}) \cup {Ptr}
    BY <1>1, <1>2, Blocks DEF Patched, ApplyPatch
  <2>2. (obj \ {}) \cup {Ptr} \in Objects
    BY DEF Objects
  <2>3. ((obj \ {}) \cup {Ptr}) \ {Ptr} = obj \ {Ptr}
    OBVIOUS
  <2>4. Clean((obj \ {}) \cup {Ptr}) = obj \ {Ptr} /\ Clean(obj) = obj \ {Ptr}
    BY <2>2, <2>3, Blocks
  <2> QED
    BY <2>1, <2>4
<1> QED
  BY <1>2, <1>3

\* A block that is sent whole is a patch.
LEMMA WholeType == \A obj \in Objects : Whole(obj) \in Patches
<1>1. \A obj \in Objects : obj \ Nulls \in Objects /\ obj \cap Nulls \in Objects
  BY DEF Objects
<1> QED
  BY <1>1 DEF Whole, Patches

-----------------------------------------------------------------------------
(* The numbers of requests.                                                *)

LEMMA Room ==
  ASSUME NEW s \in Nat, s <= MaxSaves
  PROVE  /\ s * Per \in Nat /\ (s + 1) * Per = s * Per + Per
         /\ s * Per <= MaxSaves * Per
<1>1. Per \in Nat /\ Per > 0
  BY RetriesAssumption DEF Per
<1>2. \A a, b \in Nat : a * b \in Nat /\ (a + 1) * b = a * b + b
  OBVIOUS
<1>3. MaxSaves - s \in Nat /\ MaxSaves = s + (MaxSaves - s)
  BY BoundsAssumption
<1>4. \A a, b, c \in Nat : (a + b) * c = a * c + b * c
  OBVIOUS
<1>5. MaxSaves * Per = s * Per + (MaxSaves - s) * Per
  BY <1>1, <1>3, <1>4
<1>6. (MaxSaves - s) * Per \in Nat /\ s * Per \in Nat
  BY <1>1, <1>2, <1>3
<1> QED
  BY <1>1, <1>2, <1>5, <1>6

LEMMA FreshIs ==
  ASSUME NEW R, NEW k \in Nat, UsedUpTo(R, k), k + 1 <= MaxSaves * Per
  PROVE  /\ Fresh(R) = k + 1 /\ Fresh(R) \in Requests /\ R[Fresh(R)] = NoRequest
         /\ \A v : v # NoRequest /\ R \in [Requests -> Messages]
                     => UsedUpTo([R EXCEPT ![Fresh(R)] = v], k + 1)
<1> DEFINE Free(n) == R[n] = NoRequest /\ \A m \in 1 .. n - 1 : R[m] # NoRequest
<1>1. Requests = 1 .. MaxSaves * Per
  BY DEF Requests, Per
<1>2. MaxSaves * Per \in Nat
  BY Room, BoundsAssumption
<1>3. k + 1 \in Requests /\ Free(k + 1)
  BY <1>1, <1>2 DEF UsedUpTo
<1>4. ASSUME NEW n \in Requests, Free(n) PROVE n = k + 1
  <2>1. n > k
    BY <1>4 DEF UsedUpTo
  <2>2. CASE n > k + 1
    <3>1. k + 1 \in 1 .. n - 1
      BY <1>1, <1>2, <2>2
    <3> QED
      BY <1>3, <1>4, <3>1
  <2> QED
    BY <1>1, <1>2, <2>1, <2>2
<1>5. Fresh(R) = k + 1
  <2> HIDE DEF Free
  <2>1. Fresh(R) = CHOOSE n \in Requests : Free(n)
    BY DEF Fresh, Free
  <2> QED
    BY <1>3, <1>4, <2>1
<1>6. ASSUME NEW v, v # NoRequest, R \in [Requests -> Messages]
      PROVE  UsedUpTo([R EXCEPT ![k + 1] = v], k + 1)
  BY <1>1, <1>2, <1>6 DEF UsedUpTo
<1> QED
  BY <1>3, <1>5, <1>6

LEMMA MessageKinds ==
  /\ \A m \in Messages : (m = NoRequest) <=> m.state = "none"
  /\ \A m \in Messages : m.state \in {"none", "sent", "serving", "done"}
  /\ Done \in Messages /\ Done.state = "done" /\ NoRequest.state = "none"
  /\ \A kind \in {"db", "char"}, body \in Bodies :
       Full(kind, body) \in Wholes /\ Full(kind, body).state = "sent"
  /\ \A root, char \in MaybePatch, type \in {"ptr", "char"} :
       Delta(root, char, type) \in Deltas /\ Delta(root, char, type).state = "sent"
<1>1. ASSUME NEW m \in Messages
      PROVE  /\ (m = NoRequest) <=> m.state = "none"
             /\ m.state \in {"none", "sent", "serving", "done"}
  <2>1. NoRequest.state = "none" /\ Done.state = "done"
    BY DEF NoRequest, Done
  <2>2. CASE m \in Deltas \cup Wholes
    <3>1. m.state = "sent"
      BY <2>2 DEF Deltas, Wholes
    <3> QED
      BY <2>1, <3>1
  <2>3. CASE m \in Servings
    <3>1. m.state = "serving"
      BY <2>3 DEF Servings
    <3> QED
      BY <2>1, <3>1
  <2>4. CASE m \in {NoRequest, Done}
    BY <2>1, <2>4
  <2> QED
    BY <2>2, <2>3, <2>4 DEF Messages
<1>2. Done \in Messages /\ Done.state = "done" /\ NoRequest.state = "none"
  BY DEF Messages, NoRequest, Done
<1>3. ASSUME NEW kind \in {"db", "char"}, NEW body \in Bodies
      PROVE  Full(kind, body) \in Wholes /\ Full(kind, body).state = "sent"
  BY DEF Full, Wholes
<1>4. ASSUME NEW root \in MaybePatch, NEW char \in MaybePatch, NEW type \in {"ptr", "char"}
      PROVE  Delta(root, char, type) \in Deltas /\ Delta(root, char, type).state = "sent"
  BY DEF Delta, Deltas
<1> QED
  BY <1>1, <1>2, <1>3, <1>4

\* A save that begins takes a number that no request has.
LEMMA StartSaveStep ==
  ASSUME Types, Numbered, ~ Active, seen.saves < MaxSaves,
         NEW phase \in {"delta", "full"}, NEW what \in {"db", "char"}, NEW body \in Bodies,
         NEW m \in Deltas \cup Wholes,
         StartSave(phase, what, body, m), seen' \in Seens, seen'.saves = seen.saves + 1
  PROVE  /\ reqs' \in [Requests -> Messages] /\ save' \in Saves /\ Numbered'
         /\ save'.phase = phase /\ save'.what = what /\ save'.body = body
         /\ save'.req \in Requests /\ reqs[save'.req] = NoRequest
         /\ reqs' = [reqs EXCEPT ![save'.req] = m]
<1>1. PICK k \in Nat : k <= seen.saves * Per /\ UsedUpTo(reqs, k)
  BY DEF Numbered, ToCome, Active
<1>2. /\ seen.saves \in Nat /\ seen.saves + 1 <= MaxSaves
      /\ WriteMaxRetries \in Nat /\ Per = WriteMaxRetries + 2
  BY BoundsAssumption, RetriesAssumption DEF Types, Seens, Per
<1>3. /\ (seen.saves + 1) * Per = seen.saves * Per + Per /\ seen.saves * Per \in Nat
      /\ (seen.saves + 1) * Per <= MaxSaves * Per /\ (seen.saves + 1) * Per \in Nat
      /\ MaxSaves * Per \in Nat
  <2>1. seen.saves <= MaxSaves /\ seen.saves + 1 \in Nat
    BY <1>2, BoundsAssumption
  <2> QED
    BY <1>2, <2>1, Room, BoundsAssumption
<1>4. k + 1 <= MaxSaves * Per
  BY <1>1, <1>2, <1>3
<1>5. /\ Fresh(reqs) = k + 1 /\ Fresh(reqs) \in Requests /\ reqs[Fresh(reqs)] = NoRequest
      /\ \A v : v # NoRequest /\ reqs \in [Requests -> Messages]
                  => UsedUpTo([reqs EXCEPT ![Fresh(reqs)] = v], k + 1)
  BY <1>1, <1>4, FreshIs
<1>6. m \in Messages /\ m # NoRequest
  <2>1. m.state = "sent"
    BY DEF Deltas, Wholes
  <2> QED
    BY <2>1, MessageKinds DEF Messages
<1>7. /\ reqs' = [reqs EXCEPT ![Fresh(reqs)] = m]
      /\ save' = [phase |-> phase, what |-> what, body |-> body,
                  req |-> Fresh(reqs), attempt |-> 0]
  BY DEF StartSave
<1>8. reqs' \in [Requests -> Messages] /\ UsedUpTo(reqs', k + 1)
  BY <1>5, <1>6, <1>7 DEF Types
<1>9. save' \in Saves
  BY <1>1, <1>2, <1>5, <1>7 DEF Saves
<1>10. Numbered'
  <2>1. ToCome' <= WriteMaxRetries + 1 /\ ToCome' \in Int
    BY <1>2, <1>7 DEF ToCome
  <2>2. k + 1 + ToCome' <= seen'.saves * Per
    BY <1>1, <1>2, <1>3, <2>1
  <2>3. seen'.saves <= MaxSaves
    BY <1>2
  <2> QED
    BY <1>1, <1>8, <2>2, <2>3 DEF Numbered
<1> QED
  BY <1>5, <1>7, <1>8, <1>9, <1>10

\* The save is tried again, as a whole write.
Again(R) ==
  \E f \in Requests, a \in 0 .. WriteMaxRetries :
    /\ R[f] = NoRequest
    /\ reqs' = [R EXCEPT ![f] = Full(save.what, save.body)]
    /\ save' = [save EXCEPT !.phase = "full", !.req = f, !.attempt = a]

\* What a request's outcome leads to.
LEMMA OutcomeStep ==
  ASSUME Types, Numbered, Page,
         NEW n \in Requests, NEW R \in [Requests -> Messages], NEW S \in Seens, NEW how,
         \A m \in Requests : (R[m] = NoRequest) <=> (reqs[m] = NoRequest),
         reqs[n] # NoRequest, S.saves = seen.saves, Outcome(R, S, n, how)
  PROVE  /\ reqs' \in [Requests -> Messages] /\ save' \in Saves /\ seen' \in Seens
         /\ Numbered' /\ seen'.saves = seen.saves
         /\ \/ save.req # n /\ reqs' = R /\ save' = save /\ seen' = S
            \/ /\ save.req = n /\ Active /\ how = "ok"
               /\ reqs' = R /\ save' = Idle /\ seen' = S
            \/ save.req = n /\ Active /\ how # "ok" /\ seen' = S /\ Again(R)
            \/ /\ save.req = n /\ Active
               /\ reqs' = R /\ save' = Idle /\ seen' = [S EXCEPT !.failed = TRUE]
<1>1. PICK k \in Nat : k + ToCome <= seen.saves * Per /\ UsedUpTo(reqs, k)
  BY DEF Numbered
<1>2. /\ seen.saves \in Nat /\ seen.saves <= MaxSaves
      /\ WriteMaxRetries \in Nat /\ Per = WriteMaxRetries + 2
      /\ save.attempt \in 0 .. WriteMaxRetries
  BY BoundsAssumption, RetriesAssumption DEF Types, Seens, Saves, Per, Numbered
<1>3. /\ seen.saves * Per \in Nat /\ seen.saves * Per <= MaxSaves * Per
      /\ MaxSaves * Per \in Nat
  BY <1>2, Room, BoundsAssumption
<1>4. UsedUpTo(R, k)
  BY <1>1 DEF UsedUpTo
<1>5. n = save.req => Active
  <2>1. 0 \notin Requests
    BY <1>3, <1>2, BoundsAssumption DEF Requests
  <2> QED
    BY <2>1 DEF Page
<1>6. Idle \in Saves /\ Idle.phase = "idle"
  BY <1>2 DEF Idle, Saves
<1>7. ToCome \in Int /\ (Active => ToCome \in Nat)
  BY <1>2 DEF ToCome, Active, Types, Saves
<1>8. CASE save.req # n
  <2>1. reqs' = R /\ seen' = S /\ save' = save
    BY <1>8 DEF Outcome
  <2>2. Numbered'
    BY <1>1, <1>2, <1>4, <2>1 DEF Numbered, ToCome
  <2> QED
    BY <1>8, <2>1, <2>2 DEF Types
<1>9. CASE /\ save.req = n /\ reqs' = R /\ save' = Idle
           /\ (how = "ok" /\ seen' = S) \/ seen' = [S EXCEPT !.failed = TRUE]
  <2>1. seen' \in Seens /\ seen'.saves = seen.saves
    BY <1>9 DEF Seens
  <2>2. ToCome' = 0
    BY <1>6, <1>9 DEF ToCome
  <2>3. k <= seen.saves * Per
    BY <1>1, <1>3, <1>5, <1>7, <1>9
  <2>4. Numbered'
    BY <1>1, <1>2, <1>4, <1>9, <2>1, <2>2, <2>3 DEF Numbered
  <2> QED
    BY <1>5, <1>6, <1>9, <2>1, <2>4
<1>10. CASE /\ save.req = n /\ how # "ok"
            /\ save.phase = "delta" \/ (how = "error" /\ MayRetry)
  <2> DEFINE a == IF save.phase = "delta" THEN 0 ELSE save.attempt + 1
             m == Full(save.what, save.body)
  <2>1. a \in 0 .. WriteMaxRetries
    BY <1>2, <1>10 DEF MayRetry
  <2>2. /\ reqs' = [R EXCEPT ![Fresh(R)] = m] /\ seen' = S
        /\ save' = [save EXCEPT !.phase = "full", !.req = Fresh(R), !.attempt = a]
    BY <1>10 DEF Outcome, MayRetry
  <2>3. k + 1 + (WriteMaxRetries - a) <= seen.saves * Per
    <3>1. CASE save.phase = "delta"
      BY <1>1, <1>2, <1>3, <3>1 DEF ToCome
    <3>2. CASE save.phase # "delta"
      <4>1. ToCome = WriteMaxRetries - save.attempt
        BY <1>5, <1>10, <3>2 DEF ToCome, Active
      <4> QED
        BY <1>1, <1>2, <1>3, <3>2, <4>1
    <3> QED
      BY <3>1, <3>2
  <2> HIDE DEF a
  <2>4. k + 1 <= MaxSaves * Per
    BY <1>2, <1>3, <2>1, <2>3
  <2>5. /\ Fresh(R) = k + 1 /\ Fresh(R) \in Requests /\ R[Fresh(R)] = NoRequest
        /\ \A v : v # NoRequest /\ R \in [Requests -> Messages]
                    => UsedUpTo([R EXCEPT ![Fresh(R)] = v], k + 1)
    BY <1>4, <2>4, FreshIs
  <2>6. save.body \in Bodies /\ save.what \in {"db", "char"}
    <3>1. save.body = DbBody \/ save.body = CharBody(doc.char)
      BY <1>5, <1>10 DEF Page
    <3>2. DbBody \in Bodies
      BY Blocks DEF Types, DbBody, Bodies, Maybe
    <3>3. CharBody(doc.char) \in Bodies
      BY Blocks DEF Types, CharBody, Bodies, Maybe
    <3> QED
      BY <3>1, <3>2, <3>3 DEF Types, Saves
  <2>7. m \in Messages /\ m # NoRequest
    BY <2>6, MessageKinds DEF Messages
  <2> HIDE DEF m
  <2>8. reqs' \in [Requests -> Messages] /\ UsedUpTo(reqs', k + 1)
    BY <2>2, <2>5, <2>7
  <2>9. Fresh(R) \in Nat
    BY <1>1, <2>5
  <2>10. /\ save' \in Saves /\ save'.phase = "full" /\ save'.attempt = a
    BY <2>1, <2>2, <2>9 DEF Types, Saves
  <2>11. Numbered'
    BY <1>1, <1>2, <2>2, <2>3, <2>8, <2>10 DEF Numbered, ToCome
  <2>12. Again(R)
    BY <2>1, <2>2, <2>5 DEF m, Again
  <2>13. seen' = S /\ seen' \in Seens /\ seen'.saves = seen.saves
    BY <2>2
  <2>14. /\ save.req = n /\ Active /\ how # "ok" /\ save' \in Saves
         /\ reqs' \in [Requests -> Messages]
    BY <1>5, <1>10, <2>8, <2>10
  <2> QED
    BY <2>11, <2>12, <2>13, <2>14
<1> QED
  BY <1>5, <1>8, <1>9, <1>10 DEF Outcome

-----------------------------------------------------------------------------
(* The order of uploads.                                                   *)

LEMMA LessThan == OpToRel(<, Nat) = {p \in Nat \X Nat : p[1] < p[2]}
BY Zenon DEF OpToRel

LEMMA Least ==
  ASSUME NEW S \in SUBSET Nat, S # {}
  PROVE  \E x \in S : \A y \in S : x <= y
<1> DEFINE R == {p \in Nat \X Nat : p[1] < p[2]}
<1>1. IsWellFoundedOn(R, Nat)
  BY NatLessThanWellFounded, LessThan, Zenon
<1>2. PICK x \in S : \A y \in S : ~ (<<y, x>> \in R)
  <2> HIDE DEF R
  <2> QED
    BY <1>1, WFMin
<1>3. ASSUME NEW y \in S PROVE x <= y
  <2>1. y < x => <<y, x>> \in R
    OBVIOUS
  <2> QED
    BY <1>2, <2>1
<1> QED
  BY <1>3

LEMMA Greatest ==
  ASSUME NEW S \in SUBSET Nat, S # {}, NEW b \in Nat, \A y \in S : y <= b
  PROVE  \E x \in S : \A y \in S : y <= x
<1> DEFINE T == {k \in Nat : \A y \in S : y <= k}
<1>1. T \in SUBSET Nat /\ b \in T
  OBVIOUS
<1>2. PICK x \in T : \A k \in T : x <= k
  BY <1>1, Least
<1>3. CASE x \in S
  BY <1>3
<1>4. CASE x \notin S
  <2>1. PICK y \in S : TRUE
    OBVIOUS
  <2>2. \A z \in S : z <= x - 1
    BY <1>4
  <2>3. x - 1 \in T
    BY <2>1, <2>2
  <2> QED
    BY <1>2, <2>3
<1> QED
  BY <1>3, <1>4

LEMMA LastSeqType ==
  ASSUME Types, Counted, NEW f
  PROVE  LastSeq(f) \in Nat /\ \A u \in Fulls(f) : u.seq <= LastSeq(f)
<1> DEFINE S == {u.seq : u \in Fulls(f)}
<1>1. S \in SUBSET Nat
  BY DEF Types, Uploads, Fulls
<1>2. CASE S = {}
  <2>1. LastSeq(f) = 0 /\ Fulls(f) = {}
    BY <1>2 DEF LastSeq
  <2> QED
    BY <2>1
<1>3. CASE S # {}
  <2>1. PICK b \in Nat : \A u \in uploads : u.seq <= b
    BY DEF Counted
  <2>2. \A y \in S : y <= b
    BY <2>1 DEF Fulls
  <2>3. \E x \in S : \A y \in S : y <= x
    <3> HIDE DEF S
    <3> QED
      BY <1>1, <1>3, <2>2, Greatest
  <2> DEFINE x == CHOOSE x \in S : \A y \in S : y <= x
  <2>4. x \in S /\ \A y \in S : y <= x
    <3> HIDE DEF S
    <3> QED
      BY <2>3
  <2>5. LastSeq(f) = x
    BY <1>3 DEF LastSeq
  <2> QED
    BY <1>1, <2>4, <2>5
<1> QED
  BY <1>2, <1>3

\* One of the uploads of a character is the last in order.
LEMMA NewestExists ==
  ASSUME Types, Counted, Fulls("char") # {}
  PROVE  \E u \in Fulls("char") : Newest(u)
<1> DEFINE S == {u.seq : u \in Fulls("char")}
<1>1. S \in SUBSET Nat /\ S # {}
  BY DEF Types, Uploads, Fulls
<1>2. PICK b \in Nat : \A u \in uploads : u.seq <= b
  BY DEF Counted
<1>3. \A y \in S : y <= b
  BY <1>2 DEF Fulls
<1>4. PICK x \in S : \A y \in S : y <= x
  <2> HIDE DEF S
  <2> QED
    BY <1>1, <1>3, Greatest
<1>5. PICK u \in Fulls("char") : u.seq = x
  OBVIOUS
<1> QED
  BY <1>4, <1>5 DEF Newest

\* Uploads that are all accepted are processed one after the other.
LEMMA AllAcceptedDrain ==
  ASSUME Types, \A u \in uploads : u.state = "accepted", \A u \in uploads : ~ Processable(u)
  PROVE  uploads = {}
<1> SUFFICES ASSUME NEW u \in uploads PROVE FALSE
  OBVIOUS
<1>1. u.ordered = TRUE
  BY DEF Processable, Types, Uploads
<1> DEFINE S == {v.seq : v \in Fulls(u.file)}
<1>2. S \in SUBSET Nat /\ S # {}
  BY <1>1 DEF Types, Uploads, Fulls
<1>3. PICK x \in S : \A y \in S : x <= y
  <2> HIDE DEF S
  <2> QED
    BY <1>2, Least
<1>4. PICK v \in Fulls(u.file) : v.seq = x
  OBVIOUS
<1>5. v \in uploads /\ v.file = u.file
  BY DEF Fulls
<1>6. \A w \in Fulls(v.file) : v.seq <= w.seq
  BY <1>3, <1>4, <1>5
<1> QED
  BY <1>5, <1>6 DEF Processable

-----------------------------------------------------------------------------
(* The beginning, and the user's changes.                                  *)

LEMMA SeenEdits ==
  ASSUME NEW s \in Seens, NEW e \in Nat, NEW t, t = [s EXCEPT !.edits = e]
  PROVE  /\ t \in Seens /\ t.saves = s.saves /\ t.failed = s.failed /\ t.late = s.late
         /\ t.blind = s.blind /\ t.stub = s.stub /\ t.old = s.old
BY DEF Seens

LEMMA InitIInv == Init => IInv
<1> SUFFICES ASSUME Init PROVE IInv
  OBVIOUS
<1> USE DEF Init
<1>1. Types
  <2>1. /\ NoBlock \in Maybe /\ {} \in Maybe /\ 0 \in Nat
        /\ NoRequest \in Messages /\ Idle \in Saves
    BY Blocks, RetriesAssumption DEF Maybe, Messages, Idle, Saves
  <2> QED
    BY <2>1 DEF Types, Bodies, Seens
<1>2. ~ Active /\ save.req = 0
  BY DEF Active, Idle
<1>3. Served /\ Counted /\ Page /\ Filled
  BY <1>2 DEF Served, Counted, Page, Filled, Mine, AsSent, Idle
<1>4. Numbered
  <2>1. ToCome = 0 /\ seen.saves = 0 /\ seen.saves * Per = 0
    BY <1>2, RetriesAssumption DEF ToCome, Active, Per
  <2>2. UsedUpTo(reqs, 0)
    BY DEF UsedUpTo, Requests
  <2> QED
    BY <2>1, <2>2, BoundsAssumption DEF Numbered
<1>5. Stored /\ Current /\ Landed /\ Latest
  <2>1. base.root \in {{}, NoBlock} /\ file.db.root = {} /\ sent = NoBlock /\ uploads = {}
    OBVIOUS
  <2> QED
    BY <1>2, <2>1, UnderOrder DEF Stored, Current, Landed, Latest, Fulls, InService, AsSent
<1>6. Cached /\ Told
  BY <1>2, Blocks, UnderOrder DEF Cached, Told, Settled, Waiting, InService, AsSent
<1> QED
  BY <1>1, <1>3, <1>4, <1>5, <1>6 DEF IInv

LEMMA EditIInv ==
  ASSUME IInv, ~ Active, seen' = [seen EXCEPT !.edits = @ + 1],
         doc' \in [root : SUBSET RootFields, char : (SUBSET CharFields) \cup {NoBlock}],
         UNCHANGED <<remote, base, sent, save, reqs, cacheVars, uploads, file, shown>>
  PROVE  IInv'
<1> USE DEF cacheVars
<1>1. /\ seen' \in Seens /\ seen'.saves = seen.saves /\ seen'.blind = seen.blind
      /\ NoTrouble' = NoTrouble
  BY SeenEdits DEF IInv, Types, Seens, NoTrouble
<1>2. Types'
  BY <1>1 DEF IInv, Types
<1>3. ~ Active'
  BY DEF Active
<1>4. Served' /\ Counted' /\ Page' /\ Filled'
  BY <1>1, <1>3 DEF IInv, Served, Counted, Page, Filled, Active, Mine, AsSent
<1>5. Numbered'
  BY <1>1 DEF IInv, Numbered, ToCome
<1>6. NoTrouble => Stored' /\ Current' /\ Landed'
  BY <1>3 DEF IInv, Stored, Current, Landed, Active, InService, AsSent
<1>7. NoTrouble => Latest' /\ Cached'
  <2>1. NoTrouble => Latest'
    BY <1>3 DEF IInv, Latest, Newest, Fulls, Settled, Active, InService, AsSent
  <2>2. NoTrouble => Cached'
    BY <1>3 DEF IInv, Cached, Renews, Settled, Waiting, Active, InService, AsSent
  <2> QED
    BY <2>1, <2>2
<1>8. NoTrouble /\ ~ seen.blind /\ remote => Told'
  BY <1>3 DEF IInv, Told, Settled, Waiting, Active, AsSent
<1> QED
  BY <1>1, <1>2, <1>4, <1>5, <1>6, <1>7, <1>8 DEF IInv

-----------------------------------------------------------------------------
(* A save begins.                                                          *)

LEMMA CanSaveStep ==
  ASSUME IInv, CanSave
  PROVE  /\ ~ Active /\ seen.saves < MaxSaves
         /\ seen' \in Seens /\ seen'.saves = seen.saves + 1 /\ seen'.blind = seen.blind
         /\ NoTrouble' => NoTrouble /\ \A u \in uploads : u.state = "accepted"
         /\ UNCHANGED <<remote, doc, cacheVars, uploads, file, shown>>
<1> DEFINE late == seen.late \/ \E u \in uploads : u.state # "accepted"
<1>1. late \in BOOLEAN /\ seen \in Seens /\ seen.saves + 1 \in Nat
  BY DEF IInv, Types, Seens
<1>2. seen' = [seen EXCEPT !.saves = seen.saves + 1, !.late = late]
  BY DEF CanSave
<1>3. /\ seen' \in Seens /\ seen'.saves = seen.saves + 1 /\ seen'.failed = seen.failed
      /\ seen'.late = late
      /\ seen'.blind = seen.blind /\ seen'.stub = seen.stub /\ seen'.old = seen.old
  <2> HIDE DEF late
  <2> QED
    BY <1>1, <1>2 DEF Seens
<1> QED
  BY <1>3 DEF CanSave, Active, NoTrouble

LEMMA StartIInv ==
  ASSUME IInv, CanSave, Types', Numbered', Page', NoTrouble' => Stored', Active',
         save'.req \in Requests, reqs[save'.req] = NoRequest,
         NEW m, m.state = "sent", reqs' = [reqs EXCEPT ![save'.req] = m],
         save'.phase = "delta" \/ save'.phase = "full"
  PROVE  IInv'
<1> USE DEF cacheVars
<1>1. /\ ~ Active /\ seen'.blind = seen.blind
      /\ NoTrouble' => NoTrouble /\ \A u \in uploads : u.state = "accepted"
      /\ UNCHANGED <<remote, doc, cacheVars, uploads, file, shown>>
  BY CanSaveStep
<1>2. Mine'.state = "sent"
  BY DEF Mine, IInv, Types
<1>3. Served'
  <2> SUFFICES ASSUME NEW u \in uploads' PROVE reqs'[u.req].state \in {"serving", "done"}
    BY DEF Served
  <2>1. u \in uploads /\ u.req \in Requests /\ reqs[u.req].state \in {"serving", "done"}
    BY <1>1 DEF IInv, Types, Served, Uploads
  <2>2. u.req # save'.req
    BY <2>1, MessageKinds
  <2> QED
    BY <2>1, <2>2 DEF IInv, Types
<1>4. Counted' /\ Filled'
  BY <1>1 DEF IInv, Counted, Filled
<1>5. NoTrouble' => Current' /\ Landed'
  <2>1. ~ InService' /\ ~ InService
    BY <1>1, <1>2 DEF InService
  <2> QED
    BY <1>1, <1>2, <2>1 DEF IInv, Current, Landed
<1>6. /\ ~ InService' /\ Settled("db") /\ Settled("char")
      /\ Waiting("db")' = Waiting("db") /\ Waiting("char")' = Waiting("char")
  BY <1>1, <1>2 DEF InService, Settled, Waiting
<1>7. NoTrouble' => Latest' /\ Cached'
  <2>1. NoTrouble' => Latest'
    BY <1>1, <1>6 DEF IInv, Latest, Newest, Fulls
  <2>2. NoTrouble' => Cached'
    BY <1>1, <1>6 DEF IInv, Cached, Renews
  <2> QED
    BY <2>1, <2>2
<1>8. NoTrouble' /\ ~ seen'.blind /\ remote' => Told'
  BY <1>1, <1>6 DEF IInv, Told
<1> QED
  BY <1>3, <1>4, <1>5, <1>7, <1>8 DEF IInv

LEMMA NothingIInv == ASSUME IInv, CanSave, UNCHANGED <<base, sent, save, reqs>> PROVE IInv'
<1> USE DEF cacheVars
<1>1. /\ ~ Active /\ seen.saves < MaxSaves
      /\ seen' \in Seens /\ seen'.saves = seen.saves + 1 /\ seen'.blind = seen.blind
      /\ NoTrouble' => NoTrouble /\ \A u \in uploads : u.state = "accepted"
      /\ UNCHANGED <<remote, doc, cacheVars, uploads, file, shown>>
  BY CanSaveStep
<1>2. Types'
  BY <1>1 DEF IInv, Types
<1>3. ~ Active'
  BY <1>1 DEF Active
<1>4. Served' /\ Counted' /\ Page' /\ Filled'
  BY <1>1, <1>3 DEF IInv, Served, Counted, Page, Filled, Active, Mine, AsSent
<1>5. Numbered'
  <2>1. seen.saves \in Nat /\ seen.saves + 1 <= MaxSaves /\ Per \in Nat
    BY <1>1, BoundsAssumption, RetriesAssumption DEF IInv, Types, Seens, Per
  <2>2. (seen.saves + 1) * Per = seen.saves * Per + Per /\ seen.saves * Per \in Nat
    BY <2>1, BoundsAssumption, Room
  <2>3. ToCome' = 0 /\ ToCome = 0
    BY <1>1, <1>3 DEF ToCome, Active
  <2> QED
    BY <1>1, <2>1, <2>2, <2>3 DEF IInv, Numbered
<1>6. NoTrouble' => Stored' /\ Current' /\ Landed'
  BY <1>1, <1>3 DEF IInv, Stored, Current, Landed, Active, InService, AsSent
<1>7. NoTrouble' => Latest' /\ Cached'
  <2>1. NoTrouble' => Latest'
    BY <1>1, <1>3 DEF IInv, Latest, Newest, Fulls, Settled, Active, InService, AsSent
  <2>2. NoTrouble' => Cached'
    BY <1>1, <1>3 DEF IInv, Cached, Renews, Settled, Waiting, Active, InService, AsSent
  <2> QED
    BY <2>1, <2>2
<1>8. NoTrouble' /\ ~ seen'.blind /\ remote' => Told'
  BY <1>1, <1>3 DEF IInv, Told, Settled, Waiting, Active, AsSent
<1> QED
  BY <1>2, <1>4, <1>5, <1>6, <1>7, <1>8 DEF IInv

LEMMA BodyTypes ==
  ASSUME Types
  PROVE  /\ DbBody \in Bodies /\ DbBody.root = doc.root /\ DbBody.root \in Objects
         /\ Named(DbBody) \in Maybe
         /\ remote => /\ Named(DbBody) = DbBody.ptr
                      /\ DbBody.ptr \in {NoBlock, {Ptr}}
         /\ CharBody(doc.char) \in Bodies /\ CharBody(doc.char).char = doc.char
BY Blocks DEF Types, DbBody, CharBody, Bodies, Maybe, Named

LEMMA SaveDbIInv == ASSUME IInv, SaveDb PROVE IInv'
<1> USE DEF cacheVars
<1>1. /\ ~ Active /\ seen.saves < MaxSaves
      /\ seen' \in Seens /\ seen'.saves = seen.saves + 1 /\ seen'.blind = seen.blind
      /\ NoTrouble' => NoTrouble /\ \A u \in uploads : u.state = "accepted"
      /\ UNCHANGED <<remote, doc, cacheVars, uploads, file, shown>>
  BY CanSaveStep DEF SaveDb
<1>2. /\ DbBody \in Bodies /\ DbBody.root = doc.root /\ DbBody.root \in Objects
      /\ Named(DbBody) \in Maybe
      /\ remote => Named(DbBody) = DbBody.ptr /\ DbBody.ptr \in {NoBlock, {Ptr}}
  BY BodyTypes DEF IInv
<1> DEFINE root == Diff(base.root, DbBody.root)
           char == BlockDelta(base.char, Named(DbBody))
           type == IF remote THEN "ptr" ELSE "char"
<1>3. /\ base' = [base EXCEPT !.root = DbBody.root,
                              !.char = IF Named(DbBody) = NoBlock THEN @ ELSE Named(DbBody)]
      /\ sent' = sent
  BY DEF SaveDb
<1>4. /\ base' \in [root : Maybe, char : Maybe, remote : Maybe]
      /\ base'.root = doc.root /\ base'.remote = sent
      /\ base'.char = IF Named(DbBody) = NoBlock THEN base.char ELSE Named(DbBody)
      /\ remote => base'.char \in {NoBlock, {Ptr}}
  <2>1. base \in [root : Maybe, char : Maybe, remote : Maybe] /\ base.remote = sent
    BY DEF IInv, Types, Page
  <2>2. base'.char \in Maybe /\ (remote => base'.char \in {NoBlock, {Ptr}})
    BY <1>2, <1>3, <2>1 DEF IInv, Page
  <2> QED
    BY <1>2, <1>3, <2>1, <2>2 DEF Maybe
<1>5. char \in MaybePatch /\ (remote => char \in {NoPatch, Whole({Ptr})})
  <2>1. base.char \in Maybe
    BY DEF IInv, Types
  <2>2. CASE Named(DbBody) = NoBlock
    BY <2>2 DEF BlockDelta, MaybePatch
  <2>3. CASE Named(DbBody) # NoBlock /\ base.char = NoBlock
    <3>1. char = Whole(Named(DbBody)) /\ Named(DbBody) \in Objects
      BY <1>2, <2>3 DEF BlockDelta, Maybe
    <3>2. char \in MaybePatch
      BY <3>1, WholeType DEF MaybePatch
    <3> QED
      BY <1>2, <2>3, <3>1, <3>2
  <2>4. CASE Named(DbBody) # NoBlock /\ base.char # NoBlock
    <3>1. /\ char = Diff(base.char, Named(DbBody))
          /\ base.char \in Objects /\ Named(DbBody) \in Objects
      BY <1>2, <2>1, <2>4 DEF BlockDelta, Maybe
    <3>2. char \in MaybePatch /\ (base.char = Named(DbBody) => char = NoPatch)
      BY <3>1, DiffType
    <3>3. remote => base.char = Named(DbBody)
      BY <1>2, <2>4 DEF IInv, Page
    <3> QED
      BY <3>2, <3>3
  <2> QED
    BY <2>2, <2>3, <2>4
<1>6. base.root # NoBlock =>
        /\ root \in MaybePatch /\ (root = NoPatch <=> base.root = doc.root)
        /\ NoTrouble => Under(Patched(file.db.root, root), doc.root)
  <2> SUFFICES ASSUME base.root # NoBlock
               PROVE  /\ root \in MaybePatch /\ (root = NoPatch <=> base.root = doc.root)
                      /\ NoTrouble => Under(Patched(file.db.root, root), doc.root)
    OBVIOUS
  <2>1. base.root \in Objects
    BY DEF IInv, Types, Maybe
  <2>2. NoTrouble => Under(file.db.root, base.root) /\ file.db.root \in Objects
    BY <1>1, <2>1, UnderOrder DEF IInv, Stored
  <2>3. root \in MaybePatch /\ (root = NoPatch <=> base.root = doc.root)
    BY <1>2, <2>1, DiffType
  <2> QED
    BY <1>2, <2>1, <2>2, <2>3, DiffPatches
<1>7. type \in {"ptr", "char"}
  OBVIOUS
<1> HIDE DEF root, char
<1>8. CASE base.root # NoBlock /\ root = NoPatch /\ char = NoPatch
  <2>1. UNCHANGED <<save, reqs>>
    BY <1>8 DEF SaveDb, root, char
  <2>2. base' = base
    <3>1. base.root = doc.root
      BY <1>6, <1>8
    <3>2. Named(DbBody) # NoBlock => base.char = Named(DbBody)
      <4> SUFFICES ASSUME Named(DbBody) # NoBlock PROVE base.char = Named(DbBody)
        OBVIOUS
      <4>1. Named(DbBody) \in Objects /\ base.char \in Maybe
        BY <1>2 DEF Maybe, IInv, Types
      <4>2. base.char # NoBlock
        <5>1. Whole(Named(DbBody)) \in Patches
          BY <4>1, WholeType
        <5> QED
          BY <1>8, <5>1, Blocks DEF char, BlockDelta
      <4> QED
        BY <1>8, <4>1, <4>2, DiffType DEF char, BlockDelta, Maybe
    <3> QED
      BY <1>2, <1>3, <3>1, <3>2 DEF IInv, Types
  <2> QED
    BY <1>3, <2>1, <2>2, NothingIInv DEF SaveDb
<1>9. CASE base.root = NoBlock
  <2>1. StartSave("full", "db", DbBody, Full("db", DbBody))
    BY <1>9 DEF SaveDb
  <2>2. Full("db", DbBody) \in Wholes /\ Full("db", DbBody).state = "sent"
    BY <1>2, MessageKinds
  <2>3. /\ reqs' \in [Requests -> Messages] /\ save' \in Saves /\ Numbered'
        /\ save'.phase = "full" /\ save'.what = "db" /\ save'.body = DbBody
        /\ save'.req \in Requests /\ reqs[save'.req] = NoRequest
        /\ reqs' = [reqs EXCEPT ![save'.req] = Full("db", DbBody)]
    BY <1>1, <1>2, <2>1, <2>2, StartSaveStep DEF IInv
  <2>4. Types' /\ Active'
    BY <1>1, <1>3, <1>4, <2>3 DEF IInv, Types, Active
  <2>5. Mine' = Full("db", DbBody) /\ DbBody' = DbBody /\ ~ AsSent' /\ ~ InService'
    BY <1>1, <2>2, <2>3 DEF IInv, Types, Mine, DbBody, AsSent, InService
  <2>6. Page'
    BY <1>1, <1>3, <1>4, <2>2, <2>3, <2>4, <2>5 DEF Page
  <2>7. NoTrouble' => Stored'
    BY <1>1, <1>3, <2>3, <2>4, <2>5 DEF IInv, Stored
  <2> QED
    BY <2>2, <2>3, <2>4, <2>6, <2>7, StartIInv DEF SaveDb
<1>10. CASE base.root # NoBlock /\ ~ (root = NoPatch /\ char = NoPatch)
  <2> DEFINE m == Delta(root, char, type)
  <2>1. StartSave("delta", "db", DbBody, m)
    BY <1>10 DEF SaveDb, root, char
  <2>2. /\ m \in Deltas /\ m.state = "sent" /\ m.kind = "delta"
        /\ m.root = root /\ m.char = char /\ m.type = type
    BY <1>5, <1>6, <1>7, <1>10, MessageKinds DEF Delta
  <2> HIDE DEF m, type
  <2>3. /\ reqs' \in [Requests -> Messages] /\ save' \in Saves /\ Numbered'
        /\ save'.phase = "delta" /\ save'.what = "db" /\ save'.body = DbBody
        /\ save'.req \in Requests /\ reqs[save'.req] = NoRequest
        /\ reqs' = [reqs EXCEPT ![save'.req] = m]
    BY <1>1, <1>2, <2>1, <2>2, StartSaveStep DEF IInv
  <2>4. Types' /\ Active'
    BY <1>1, <1>3, <1>4, <2>3 DEF IInv, Types, Active
  <2>5. Mine' = m /\ DbBody' = DbBody /\ ~ InService'
    BY <1>1, <2>2, <2>3 DEF IInv, Types, Mine, DbBody, AsSent, InService
  <2>6. Page'
    BY <1>1, <1>3, <1>4, <1>5, <2>2, <2>3, <2>4, <2>5 DEF Page, type
  <2>7. NoTrouble' => Stored'
    BY <1>1, <1>3, <1>4, <1>6, <1>10, <2>2, <2>3, <2>4, <2>5 DEF IInv, Stored
  <2> QED
    BY <2>2, <2>3, <2>4, <2>6, <2>7, StartIInv DEF SaveDb
<1> QED
  BY <1>8, <1>9, <1>10

LEMMA SaveCharIInv == ASSUME IInv, SaveChar PROVE IInv'
<1> USE DEF cacheVars
<1>1. /\ ~ Active /\ seen.saves < MaxSaves
      /\ seen' \in Seens /\ seen'.saves = seen.saves + 1 /\ seen'.blind = seen.blind
      /\ NoTrouble' => NoTrouble /\ \A u \in uploads : u.state = "accepted"
      /\ UNCHANGED <<remote, doc, cacheVars, uploads, file, shown>>
  BY CanSaveStep DEF SaveChar
<1> DEFINE body == CharBody(doc.char)
<1>2. /\ remote = TRUE /\ doc.char # NoBlock /\ sent' = doc.char
      /\ doc.char \in SUBSET CharFields /\ doc.char \in Objects
      /\ body \in Bodies /\ body = CharBody(doc.char) /\ base.remote = sent
  BY BodyTypes, Blocks DEF IInv, Types, Page, SaveChar
<1> HIDE DEF body
<1>3. CASE sent = doc.char
  <2>1. UNCHANGED <<base, sent, save, reqs>>
    BY <1>3 DEF SaveChar
  <2> QED
    BY <2>1, NothingIInv DEF SaveChar
<1>4. CASE sent # doc.char
  <2>1. base' = [base EXCEPT !.remote = doc.char]
    BY <1>4 DEF SaveChar
  <2>2. /\ base' \in [root : Maybe, char : Maybe, remote : Maybe]
        /\ base'.root = base.root /\ base'.char = base.char /\ base'.remote = doc.char
    BY <1>2, <2>1 DEF IInv, Types, Maybe
  <2>3. CASE base.remote = NoBlock
    <3>1. StartSave("full", "char", body, Full("char", body))
      BY <1>2, <1>4, <2>3 DEF SaveChar
    <3>2. Full("char", body) \in Wholes /\ Full("char", body).state = "sent"
      BY <1>2, MessageKinds
    <3>3. /\ reqs' \in [Requests -> Messages] /\ save' \in Saves /\ Numbered'
          /\ save'.phase = "full" /\ save'.what = "char" /\ save'.body = body
          /\ save'.req \in Requests /\ reqs[save'.req] = NoRequest
          /\ reqs' = [reqs EXCEPT ![save'.req] = Full("char", body)]
      BY <1>1, <1>2, <3>1, <3>2, StartSaveStep DEF IInv
    <3>4. Types' /\ Active'
      BY <1>1, <1>2, <2>2, <3>3 DEF IInv, Types, Active
    <3>5. Mine' = Full("char", body) /\ ~ AsSent' /\ ~ InService'
      BY <1>1, <3>2, <3>3 DEF IInv, Types, Mine, AsSent, InService
    <3>6. Page'
      BY <1>1, <1>2, <2>2, <3>2, <3>3, <3>4, <3>5 DEF IInv, Page
    <3>7. NoTrouble' => Stored'
      BY <1>1, <2>2, <3>3, <3>4, <3>5 DEF IInv, Stored
    <3> QED
      BY <3>2, <3>3, <3>4, <3>6, <3>7, StartIInv DEF SaveChar
  <2>4. CASE base.remote # NoBlock
    <3> DEFINE patch == Diff(sent, doc.char)
               m == Delta(NoPatch, patch, "char")
    <3>1. StartSave("delta", "char", body, m)
      BY <1>2, <1>4, <2>4 DEF SaveChar, body
    <3>2. sent \in SUBSET CharFields /\ sent \in Objects
      BY <1>2, <2>4, Blocks DEF IInv, Types
    <3>3. /\ patch \in MaybePatch /\ patch # NoPatch
          /\ patch \in [set : SUBSET CharFields, del : SUBSET CharFields]
      <4>1. /\ patch \in MaybePatch /\ patch # NoPatch
            /\ patch = [set |-> (doc.char \ sent) \ Nulls,
                        del |-> (sent \ doc.char) \cup ((doc.char \ sent) \cap Nulls)]
        <5>1. doc.char \in Objects /\ sent \in Objects /\ sent # doc.char
          BY <1>2, <1>4, <3>2
        <5> QED
          BY <5>1, DiffType, Zenon
      <4>2. /\ (doc.char \ sent) \ Nulls \in SUBSET CharFields
            /\ (sent \ doc.char) \cup ((doc.char \ sent) \cap Nulls) \in SUBSET CharFields
        BY <1>2, <3>2
      <4> HIDE DEF patch
      <4> QED
        BY <4>1, <4>2
    <3> HIDE DEF patch
    <3>4. /\ m \in Deltas /\ m.state = "sent" /\ m.kind = "delta"
          /\ m.root = NoPatch /\ m.char = patch /\ m.type = "char"
      BY <3>3, MessageKinds DEF Delta, MaybePatch
    <3> HIDE DEF m
    <3>5. /\ reqs' \in [Requests -> Messages] /\ save' \in Saves /\ Numbered'
          /\ save'.phase = "delta" /\ save'.what = "char" /\ save'.body = body
          /\ save'.req \in Requests /\ reqs[save'.req] = NoRequest
          /\ reqs' = [reqs EXCEPT ![save'.req] = m]
      BY <1>1, <1>2, <3>1, <3>4, StartSaveStep DEF IInv
    <3>6. Types' /\ Active'
      BY <1>1, <1>2, <2>2, <3>5 DEF IInv, Types, Active
    <3>7. Mine' = m /\ ~ InService'
      BY <1>1, <3>4, <3>5 DEF IInv, Types, Mine, AsSent, InService
    <3>8. Page'
      BY <1>1, <1>2, <2>2, <3>4, <3>5, <3>6, <3>7 DEF IInv, Page
    <3>9. ASSUME NoTrouble'
          PROVE  /\ file.char # NoBlock /\ Clean(file.char) \in Objects
                 /\ Under(ApplyPatch(Clean(file.char), patch), doc.char)
                 /\ Clean(file.char) = doc.char =>
                      ApplyPatch(Clean(file.char), patch) = doc.char
      <4>1. Under(Clean(file.char), sent)
        BY <1>1, <1>2, <2>4, <3>9 DEF IInv, Stored
      <4>2. Clean(file.char) \in Objects
        BY <3>2, <4>1, UnderOrder
      <4>3. /\ Under(Patched(Clean(file.char), patch), doc.char)
            /\ Clean(file.char) = doc.char => Patched(Clean(file.char), patch) = doc.char
        BY <1>2, <3>2, <4>1, <4>2, DiffPatches DEF patch
      <4> QED
        BY <3>3, <4>2, <4>3, Blocks DEF Patched
    <3>10. NoTrouble' => Stored'
      <4>1. NoTrouble' => NextChar' = ApplyPatch(Clean(file.char), patch)
        BY <1>1, <3>4, <3>7 DEF NextChar
      <4> QED
        BY <1>1, <2>2, <3>3, <3>4, <3>5, <3>6, <3>7, <3>9, <4>1 DEF IInv, Stored
    <3> QED
      BY <3>4, <3>5, <3>6, <3>8, <3>10, StartIInv DEF SaveChar
  <2> QED
    BY <2>3, <2>4
<1> QED
  BY <1>3, <1>4

-----------------------------------------------------------------------------
(* A save goes on, or ends.                                                *)

LEMMA IdleStep ==
  ASSUME IInv, save' = Idle, UNCHANGED <<remote, base, sent>>
  PROVE  /\ ~ Active' /\ Page' /\ save' \in Saves
         /\ ~ AsSent' /\ ~ InService'
BY RetriesAssumption DEF IInv, Page, Active, AsSent, InService, Idle, Saves, Mine

LEMMA AgainStep ==
  ASSUME IInv, Active, NEW R \in [Requests -> Messages], Again(R),
         UNCHANGED <<remote, doc, base, sent>>
  PROVE  /\ Active' /\ Page' /\ save'.what = save.what /\ Mine'.state = "sent"
         /\ ~ AsSent' /\ ~ InService'
         /\ \A u \in uploads : R[u.req].state \in {"serving", "done"}
                                => reqs'[u.req].state \in {"serving", "done"}
<1>1. PICK f \in Requests, a \in 0 .. WriteMaxRetries :
        /\ R[f] = NoRequest
        /\ reqs' = [R EXCEPT ![f] = Full(save.what, save.body)]
        /\ save' = [save EXCEPT !.phase = "full", !.req = f, !.attempt = a]
  BY DEF Again
<1>2. /\ save'.phase = "full" /\ save'.req = f /\ save'.what = save.what
      /\ save'.body = save.body
  BY <1>1 DEF IInv, Types, Saves
<1>3. Mine' = Full(save.what, save.body) /\ Mine'.state = "sent"
  BY <1>1, <1>2 DEF Mine, Full
<1>4. Active' /\ ~ AsSent' /\ ~ InService'
  BY <1>2, <1>3 DEF Active, AsSent, InService
<1>5. DbBody' = DbBody
  BY DEF DbBody
<1>6. Page'
  BY <1>2, <1>3, <1>4, <1>5 DEF IInv, Page
<1>7. ASSUME NEW u \in uploads, R[u.req].state \in {"serving", "done"}
      PROVE  reqs'[u.req].state \in {"serving", "done"}
  <2>1. u.req \in Requests
    BY DEF IInv, Types, Uploads
  <2>2. u.req # f
    BY <1>1, <1>7, MessageKinds
  <2> QED
    BY <1>1, <1>7, <2>1, <2>2
<1> QED
  BY <1>2, <1>3, <1>4, <1>6, <1>7

\* A save that was not answered well keeps what was known; what the cache has
\* of the block that was to be saved does not matter any more.
LEMMA AgainKnown ==
  ASSUME IInv, NoTrouble, Active, Active', save'.what = save.what, Mine'.state = "sent",
         ~ AsSent', ~ InService',
         UNCHANGED <<remote, doc, base, sent, inited, uploads, file, shown>>,
         data'.char = data.char, hashes'.char = hashes.char,
         save.what = "db" \/ data'.root = data.root
  PROVE  /\ Stored' /\ Current' /\ Landed' /\ Latest' /\ Cached'
         /\ ~ seen.blind /\ remote => Told'
<1>1. Stored' /\ Landed'
  BY DEF IInv, Stored, Landed
<1>2. Current'
  BY DEF IInv, Current, Content
<1>3. /\ Waiting("db")' = Waiting("db") /\ Waiting("char")' = Waiting("char")
      /\ Settled("db")' => Settled("db") /\ save.what # "db"
      /\ Settled("char")' => Settled("char")
  BY DEF Settled, Waiting
<1>4. Latest' /\ Cached'
  <2>1. Latest'
    BY <1>3 DEF IInv, Latest, Newest, Fulls
  <2>2. Cached'
    BY <1>3 DEF IInv, Cached, Renews
  <2> QED
    BY <2>1, <2>2
<1>5. ~ seen.blind /\ remote => Told'
  BY <1>3 DEF IInv, Told
<1> QED
  BY <1>1, <1>2, <1>4, <1>5

LEMMA GiveUpIInv == ASSUME IInv, GiveUp PROVE IInv'
<1> USE DEF cacheVars, pageVars
<1> DEFINE lost == Mine.state = "done"
           S == IF lost THEN seen ELSE [seen EXCEPT !.faults = @ + 1]
<1>1. /\ Active /\ Outcome(reqs, S, save.req, "error")
      /\ UNCHANGED <<remote, pageVars, cacheVars, uploads, file, shown>>
  BY DEF GiveUp, Active, Mine
<1>2. /\ S \in Seens /\ S.saves = seen.saves /\ S.blind = seen.blind
      /\ S.failed = seen.failed /\ S.late = seen.late /\ S.stub = seen.stub /\ S.old = seen.old
  BY DEF IInv, Types, Seens
<1> HIDE DEF S
<1>3. /\ save.req \in Requests /\ reqs[save.req] # NoRequest
      /\ reqs \in [Requests -> Messages]
  BY <1>1, MessageKinds DEF IInv, Page, Types, Mine
<1>4. /\ reqs' \in [Requests -> Messages] /\ save' \in Saves /\ seen' \in Seens
      /\ Numbered' /\ seen'.saves = seen.saves
      /\ \/ seen' = S /\ Again(reqs)
         \/ reqs' = reqs /\ save' = Idle /\ seen' = [S EXCEPT !.failed = TRUE]
  BY <1>1, <1>2, <1>3, OutcomeStep DEF IInv
<1>5. Types' /\ Counted'
  BY <1>1, <1>4 DEF IInv, Types, Counted
<1>6. CASE seen' = S /\ Again(reqs)
  <2>1. /\ Active' /\ Page' /\ save'.what = save.what /\ Mine'.state = "sent"
        /\ ~ AsSent' /\ ~ InService'
        /\ \A u \in uploads : reqs[u.req].state \in {"serving", "done"}
                               => reqs'[u.req].state \in {"serving", "done"}
    BY <1>1, <1>3, <1>6, AgainStep
  <2>2. Served' /\ Filled'
    BY <1>1, <1>2, <1>6, <2>1 DEF IInv, Served, Filled
  <2>3. NoTrouble' = NoTrouble
    BY <1>2, <1>6 DEF NoTrouble
  <2>4. NoTrouble => /\ Stored' /\ Current' /\ Landed' /\ Latest' /\ Cached'
                     /\ ~ seen.blind /\ remote => Told'
    BY <1>1, <2>1, AgainKnown
  <2> QED
    BY <1>1, <1>2, <1>4, <1>5, <1>6, <2>1, <2>2, <2>3, <2>4 DEF IInv
<1>7. CASE reqs' = reqs /\ save' = Idle /\ seen' = [S EXCEPT !.failed = TRUE]
  <2>1. seen'.failed = TRUE /\ seen'.blind = seen.blind
    BY <1>2, <1>7 DEF Seens
  <2>2. ~ NoTrouble'
    BY <2>1 DEF NoTrouble
  <2>3. Page'
    BY <1>1, <1>7, IdleStep
  <2>4. Served' /\ Filled'
    BY <1>1, <1>7, <2>1 DEF IInv, Served, Filled
  <2> QED
    BY <1>4, <1>5, <2>2, <2>3, <2>4 DEF IInv
<1> QED
  BY <1>4, <1>6, <1>7

LEMMA LoseIInv == ASSUME IInv, NEW n \in Requests, Lose(n) PROVE IInv'
<1> USE DEF cacheVars, pageVars
<1>1. /\ reqs[n].state = "sent" /\ n # save.req /\ reqs' = [reqs EXCEPT ![n] = Done]
      /\ UNCHANGED <<remote, pageVars, save, cacheVars, uploads, file, shown, seen>>
  BY DEF Lose
<1>2. Mine' = Mine
  BY <1>1 DEF Mine, IInv, Types
<1>3. Types' /\ Counted' /\ Filled'
  BY <1>1, MessageKinds DEF IInv, Types, Counted, Filled
<1>4. Served'
  BY <1>1, MessageKinds DEF IInv, Types, Served
<1>5. Numbered'
  <2>1. \A m \in Requests : (reqs'[m] = NoRequest) <=> (reqs[m] = NoRequest)
    BY <1>1, MessageKinds DEF IInv, Types
  <2> QED
    BY <1>1, <2>1 DEF IInv, Numbered, UsedUpTo, ToCome
<1>6. Page'
  BY <1>1, <1>2 DEF IInv, Page, Active, AsSent, DbBody
<1>7. NoTrouble => Stored' /\ Current' /\ Landed'
  <2>1. NoTrouble => Stored'
    BY <1>1, <1>2 DEF IInv, Stored, NextChar, Active, InService, AsSent
  <2>2. NoTrouble => Current'
    BY <1>1, <1>2 DEF IInv, Current, Content, Active, InService, AsSent
  <2>3. NoTrouble => Landed'
    BY <1>1, <1>2 DEF IInv, Landed, IsStored, Active, InService
  <2> QED
    BY <2>1, <2>2, <2>3
<1>8. NoTrouble => Latest' /\ Cached'
  <2>1. NoTrouble => Latest'
    BY <1>1, <1>2 DEF IInv, Latest, Newest, Fulls, Settled, Active, InService, AsSent
  <2>2. NoTrouble => Cached'
    BY <1>1, <1>2 DEF IInv, Cached, Renews, Settled, Waiting, Active, InService, AsSent
  <2> QED
    BY <2>1, <2>2
<1>9. NoTrouble /\ ~ seen.blind /\ remote => Told'
  BY <1>1, <1>2 DEF IInv, Told, Settled, Waiting, Active, AsSent
<1> QED
  BY <1>1, <1>3, <1>4, <1>5, <1>6, <1>7, <1>8, <1>9 DEF IInv, NoTrouble

-----------------------------------------------------------------------------
(* A request arrives.                                                      *)

LEMMA LateStep ==
  ASSUME IInv, NEW n
  PROVE  /\ Late(n) \in Seens /\ Late(n).saves = seen.saves
         /\ Late(n).blind = seen.blind /\ Late(n).stub = seen.stub
         /\ Late(n).failed = seen.failed /\ Late(n).old = seen.old
         /\ ~ Late(n).late => ~ seen.late /\ n = save.req
BY DEF IInv, Types, Seens, Late

LEMMA CountedStep ==
  ASSUME Counted, Types, NEW A \in SUBSET Uploads, NEW x \in Uploads, NEW y \in Uploads,
         A \subseteq {x, y}, uploads' = uploads \cup A
  PROVE  Counted'
<1>1. PICK b \in Nat : \A u \in uploads : u.seq <= b
  BY DEF Counted
<1>2. x.seq \in Nat /\ y.seq \in Nat
  BY DEF Uploads
<1>3. b + x.seq + y.seq \in Nat
  BY <1>2
<1>4. \A u \in uploads' : u.seq <= b + x.seq + y.seq
  BY <1>1, <1>2 DEF Types, Uploads
<1> QED
  BY <1>3, <1>4 DEF Counted

\* When the page's own request arrives, what is left of the other saves has
\* been processed.
LEMMA OnlyOwn ==
  ASSUME IInv, NoTrouble, Active, \A u \in uploads : ~ Processable(u)
  PROVE  /\ \A v \in uploads : Content(v)
         /\ AsSent => uploads = {}
<1>1. CASE \A u \in uploads : u.state = "accepted"
  BY <1>1, AllAcceptedDrain DEF IInv
<1>2. CASE \E u \in uploads : u.state # "accepted"
  BY <1>2 DEF IInv, Current
<1> QED
  BY <1>1, <1>2

\* What a request in service does to the numbers.
LEMMA ServingStep ==
  ASSUME IInv, NEW n \in Requests, reqs[n].state = "sent", NEW m \in Servings,
         reqs' = [reqs EXCEPT ![n] = m], save' = save, seen'.saves = seen.saves
  PROVE  /\ reqs' \in [Requests -> Messages] /\ Numbered'
         /\ Mine' = IF n = save.req THEN m ELSE Mine
         /\ \A u \in uploads : reqs'[u.req].state \in {"serving", "done"}
         /\ reqs'[n].state = "serving" /\ m.state = "serving"
<1>1. m \in Messages /\ m # NoRequest /\ m.state = "serving"
  <2>1. m \in Messages /\ m.state = "serving"
    BY DEF Servings, Messages
  <2> QED
    BY <2>1, MessageKinds
<1>2. reqs \in [Requests -> Messages] /\ reqs[n] # NoRequest
  BY MessageKinds DEF IInv, Types
<1>3. UsedUpTo(reqs, 0) \in BOOLEAN /\ \A k \in Nat : UsedUpTo(reqs, k) => UsedUpTo(reqs', k)
  BY <1>1, <1>2 DEF UsedUpTo
<1>4. Numbered'
  BY <1>3 DEF IInv, Numbered, ToCome
<1>5. ASSUME NEW u \in uploads PROVE reqs'[u.req].state \in {"serving", "done"}
  BY <1>1, <1>2 DEF IInv, Served, Types, Uploads
<1> QED
  BY <1>1, <1>2, <1>4, <1>5 DEF Mine

LEMMA ReceiveFullIInv ==
  ASSUME IInv, NEW n \in Requests, ReceiveFull(n),
         n = save.req => \A u \in uploads : ~ Processable(u)
  PROVE  IInv'
<1> USE DEF cacheVars, pageVars
<1> DEFINE m == [state |-> "serving", kind |-> "full", bad |-> FALSE]
           u == Upload(n, reqs[n].kind, reqs[n].body, TRUE)
<1>1. /\ reqs[n].state = "sent" /\ reqs[n].kind # "delta"
      /\ reqs' = [reqs EXCEPT ![n] = m] /\ uploads' = uploads \cup {u} /\ seen' = Late(n)
      /\ UNCHANGED <<remote, pageVars, save, cacheVars, file, shown>>
  BY DEF ReceiveFull
<1>2. reqs[n].kind \in {"db", "char"} /\ reqs[n].body \in Bodies
  <2>1. reqs[n] \in Messages /\ reqs[n] \notin Deltas /\ reqs[n] \notin Servings
        /\ reqs[n] \notin {NoRequest, Done}
    BY <1>1, MessageKinds DEF IInv, Types, Deltas, Servings
  <2> QED
    BY <2>1 DEF Messages, Wholes
<1>3. /\ u \in Uploads /\ u.req = n /\ u.file = reqs[n].kind /\ u.body = reqs[n].body
      /\ u.state = "up" /\ u.ordered = TRUE /\ \A v \in Fulls(u.file) : v.seq < u.seq
  <2> DEFINE kind == reqs[n].kind  body == reqs[n].body
  <2>1. /\ kind \in {"db", "char"} /\ body \in Bodies /\ LastSeq(kind) \in Nat
        /\ \A v \in Fulls(kind) : v.seq <= LastSeq(kind) /\ v.seq \in Nat
    BY <1>2, LastSeqType DEF IInv, Types, Uploads, Fulls
  <2>2. u = [req |-> n, file |-> kind, body |-> body, ordered |-> TRUE,
             seq |-> LastSeq(kind) + 1, state |-> "up"]
    BY DEF Upload
  <2> HIDE DEF u, kind, body
  <2>3. /\ u \in Uploads /\ u.req = n /\ u.file = kind /\ u.body = body /\ u.state = "up"
        /\ u.ordered = TRUE /\ u.seq = LastSeq(kind) + 1
    BY <2>1, <2>2 DEF Uploads
  <2>4. \A v \in Fulls(u.file) : v.seq < u.seq
    BY <2>1, <2>3
  <2> QED
    BY <2>3, <2>4 DEF kind, body
<1>4. m \in Servings /\ m.kind = "full"
  BY DEF Servings
<1> HIDE DEF m, u
<1>5. /\ seen' \in Seens /\ seen'.saves = seen.saves /\ seen'.blind = seen.blind
      /\ NoTrouble' => NoTrouble /\ n = save.req
  BY <1>1, LateStep DEF NoTrouble
<1>6. /\ reqs' \in [Requests -> Messages] /\ Numbered'
      /\ Mine' = IF n = save.req THEN m ELSE Mine
      /\ \A v \in uploads : reqs'[v.req].state \in {"serving", "done"}
      /\ reqs'[n].state = "serving" /\ m.state = "serving"
  BY <1>1, <1>4, <1>5, ServingStep
<1>7. Types' /\ Served' /\ Filled'
  BY <1>1, <1>3, <1>5, <1>6 DEF IInv, Types, Served, Filled
<1>8. Counted'
  BY <1>1, <1>3, CountedStep DEF IInv
<1>9. n = save.req => /\ Active /\ Mine = Full(save.what, save.body)
                      /\ save.phase = "full" /\ save.what = reqs[n].kind
                      /\ save.body = reqs[n].body
  <2> SUFFICES ASSUME n = save.req
               PROVE  /\ Active /\ Mine = Full(save.what, save.body)
                      /\ save.phase = "full" /\ save.what = reqs[n].kind
                      /\ save.body = reqs[n].body
    OBVIOUS
  <2>1. Active
    BY BoundsAssumption DEF IInv, Page, Requests
  <2>2. Mine = Full(save.what, save.body)
    BY <1>1, <2>1 DEF IInv, Page, Mine, Active, Types, Saves
  <2>3. reqs[n].kind = save.what /\ reqs[n].body = save.body
    BY <2>2 DEF Mine, Full
  <2>4. save.phase = "full"
    BY <1>1, <2>1 DEF IInv, Page, Mine, Active, Types, Saves
  <2> QED
    BY <2>1, <2>2, <2>3, <2>4
<1>10. Page'
  BY <1>1, <1>4, <1>6, <1>9 DEF IInv, Page, Active, AsSent, DbBody
<1>11. ASSUME NoTrouble' PROVE Stored' /\ Current' /\ Landed' /\ Latest' /\ Cached'
  <2>1. NoTrouble /\ n = save.req /\ Active /\ Active' /\ save.phase = "full"
    BY <1>1, <1>5, <1>9, <1>11 DEF Active
  <2>2. ~ AsSent' /\ ~ AsSent /\ InService' /\ Mine'.state = "serving" /\ Mine.state = "sent"
    BY <1>1, <1>6, <2>1 DEF AsSent, InService, Mine
  <2>3. Stored'
    BY <1>1, <2>1, <2>2 DEF IInv, Stored, Active
  <2>4. Current'
    <3>1. \A v \in uploads : Content(v)
      BY <1>9, <2>1, OnlyOwn
    <3>2. Content(u)
      <4>1. CASE save.what = "db"
        <5>1. u.file = "db" /\ u.body = DbBody /\ base.root = doc.root
          BY <1>3, <1>9, <2>1, <4>1 DEF IInv, Page
        <5>2. u.body.root = base.root
          BY <5>1, BodyTypes DEF IInv
        <5> QED
          BY <4>1, <5>1, <5>2, UnderOrder DEF Content
      <4>2. CASE save.what = "char"
        <5>1. u.file = "char" /\ u.body = CharBody(doc.char) /\ doc.char # NoBlock
          BY <1>3, <1>9, <2>1, <4>2 DEF IInv, Page
        <5>2. u.body.char = doc.char /\ doc.char \in SUBSET CharFields
          BY <5>1, BodyTypes DEF IInv, Types
        <5>3. Clean(u.body.char) = doc.char
          BY <5>2, Blocks
        <5> QED
          BY <4>2, <5>1, <5>3, UnderOrder DEF Content
      <4> QED
        BY <4>1, <4>2 DEF IInv, Types, Saves
    <3>3. \A v \in uploads : v.req # n
      BY <1>1 DEF IInv, Served
    <3>4. u.file = save.what /\ u.body = save.body
      BY <1>3, <1>9, <2>1
    <3>5. \A v \in uploads' : Content(v)'
      BY <1>1, <3>1, <3>2 DEF Content
    <3> QED
      BY <1>1, <2>1, <2>2, <3>3, <3>4, <3>5 DEF Current
  <2>5. Landed'
    <3>1. /\ u.file = "db" /\ remote => u.body.char = NoBlock
          /\ u.file = "char" => u.body.char # NoBlock
      <4>1. /\ u.file = "db" => u.body = DbBody
            /\ u.file = "char" => u.body = CharBody(doc.char) /\ doc.char # NoBlock
        BY <1>3, <1>9, <2>1 DEF IInv, Page
      <4> QED
        BY <4>1 DEF DbBody, CharBody
    <3>2. \A v \in uploads : v.req # save'.req
      BY <1>1, <2>1 DEF IInv, Served
    <3> QED
      BY <1>1, <1>3, <2>1, <3>1, <3>2 DEF IInv, Landed
  <2>6. /\ Settled("db")' => Settled("db")
        /\ Settled("char")' => Settled("char")
        /\ Waiting("db")' = Waiting("db") /\ Waiting("char")' = Waiting("char")
    BY <1>1, <1>3, <2>1, <2>2 DEF Settled, Waiting
  <2>7. Latest'
    <3>1. \A f : Fulls(f)' = IF u.file = f THEN Fulls(f) \cup {u} ELSE Fulls(f)
      BY <1>1, <1>3 DEF Fulls
    <3>2. u.file = save.what /\ (Settled("char")' => u.file # "char")
      BY <1>1, <1>3, <1>9, <2>1, <2>2 DEF Settled
    <3>3. remote' /\ Settled("char")' =>
            \A v \in Fulls("char")' : Newest(v)' =>
              v.state = "accepted" /\ Clean(v.body.char) = Clean(file'.char)
      BY <1>1, <2>1, <2>6, <3>1, <3>2 DEF IInv, Latest, Newest
    <3>4. save'.what = "char" =>
            \A v, x \in Fulls("char")' : v.req = save'.req /\ x.req # save'.req => x.seq < v.seq
      <4>1. \A v \in Fulls("char") : v.req # save.req
        BY <1>1, <2>1 DEF IInv, Served, Fulls
      <4> QED
        BY <1>1, <1>3, <2>1, <3>1, <3>2, <4>1
    <3>5. \A v \in uploads' : v.file = "char" => v.ordered = TRUE
      BY <1>1, <1>3, <2>1 DEF IInv, Latest
    <3> QED
      BY <3>3, <3>4, <3>5 DEF Latest
  <2>8. Cached'
    BY <1>1, <1>3, <2>1, <2>2, <2>6 DEF IInv, Cached, Renews, Active
  <2> QED
    BY <2>3, <2>4, <2>5, <2>7, <2>8
<1>12. ASSUME NoTrouble', ~ seen'.blind, remote' PROVE Told'
  <2>1. NoTrouble /\ n = save.req /\ Active /\ Active' /\ save.phase = "full"
    BY <1>1, <1>5, <1>9, <1>12 DEF Active
  <2>2. ~ AsSent' /\ Mine'.state = "serving"
    BY <1>1, <1>6, <2>1 DEF AsSent
  <2>3. /\ Settled("char")' => Settled("char")
        /\ Waiting("char")' = Waiting("char")
    BY <1>1, <1>3, <2>1, <2>2 DEF Settled, Waiting
  <2> QED
    BY <1>1, <1>5, <1>12, <2>1, <2>3 DEF IInv, Told
<1> QED
  BY <1>6, <1>7, <1>8, <1>10, <1>11, <1>12 DEF IInv


LEMMA ReceiveDeltaIInv ==
  ASSUME IInv, NEW n \in Requests, ReceiveDelta(n),
         n = save.req => \A u \in uploads : ~ Processable(u)
  PROVE  IInv'
<1> USE DEF cacheVars, pageVars
<1> DEFINE m == reqs[n]
           isChar == m.char # NoPatch /\ m.type = "char"
           isPtr == m.char # NoPatch /\ m.type = "ptr"
           isDb == m.root # NoPatch \/ isPtr
           d == [root |-> Patched(data.root, m.root), char |-> Patched(data.char, m.char)]
           h == [root |-> IF m.root # NoPatch THEN NoBlock ELSE hashes.root,
                 char |-> IF isPtr THEN NoBlock ELSE hashes.char,
                 charType |-> IF isPtr THEN "ptr" ELSE hashes.charType]
           x == Upload(n, "db", Assemble(d, h), FALSE)
           y == Upload(n, "char", CharBody(d.char), TRUE)
           A == (IF isDb THEN {x} ELSE {}) \cup (IF isChar THEN {y} ELSE {})
           s == [state |-> "serving", kind |-> "delta", bad |-> FALSE]
<1>1. /\ m.state = "sent" /\ m.kind = "delta" /\ inited /\ ~ Uncached(m)
      /\ data' = d /\ hashes' = h /\ uploads' = uploads \cup A
      /\ reqs' = [reqs EXCEPT ![n] = s]
      /\ UNCHANGED <<remote, pageVars, save, inited, raw, file, shown>>
  BY DEF ReceiveDelta
<1>2. /\ m.root \in MaybePatch /\ m.char \in MaybePatch /\ m.type \in {"ptr", "char"}
      /\ m \in Messages
  <2>1. m \in Messages /\ m \notin Wholes /\ m \notin Servings /\ m \notin {NoRequest, Done}
    BY <1>1, MessageKinds DEF IInv, Types, Wholes, Servings
  <2> HIDE DEF m
  <2>2. m \in Deltas
    BY <2>1 DEF Messages
  <2> QED
    BY <2>1, <2>2 DEF Deltas
<1>3. d \in [root : Maybe, char : Maybe] /\ (isChar => d.char \in Objects)
  <2> HIDE DEF m
  <2>1. data.root \in Maybe /\ data.char \in Maybe
    BY DEF IInv, Types
  <2> QED
    BY <1>2, <2>1, PatchedType
<1>4. h \in [root : Maybe, char : Maybe, charType : {"none", "char", "ptr"}]
  <2> HIDE DEF m
  <2> QED
    BY DEF IInv, Types, Maybe
<1>5. /\ Assemble(d, h) \in Bodies /\ Assemble(d, h).root = d.root
      /\ Assemble(d, h).char \in {NoBlock, d.char}
      /\ CharBody(d.char) \in Bodies /\ CharBody(d.char).char = d.char
  <2> HIDE DEF d, h
  <2>1. NoBlock \in Maybe /\ d.root \in Maybe /\ d.char \in Maybe /\ raw \in Maybe
    BY <1>3 DEF Maybe, IInv, Types
  <2> QED
    BY <2>1 DEF Assemble, CharBody, Bodies
<1>6. /\ x \in Uploads /\ x.req = n /\ x.file = "db" /\ x.state = "up"
      /\ x.body = Assemble(d, h)
      /\ y \in Uploads /\ y.req = n /\ y.file = "char" /\ y.state = "up"
      /\ y.body = CharBody(d.char) /\ y.ordered = TRUE
  <2> HIDE DEF d, h, m
  <2>1. LastSeq("char") \in Nat
    BY LastSeqType DEF IInv
  <2> QED
    BY <1>5, <2>1 DEF Uploads, Upload
<1>7. s \in Servings /\ s.kind = "delta" /\ s.bad = FALSE
  BY DEF Servings
<1> HIDE DEF x, y, s
<1>8. /\ seen' \in Seens /\ seen'.saves = seen.saves /\ seen'.blind = seen.blind
      /\ NoTrouble' => NoTrouble /\ n = save.req /\ (isPtr => data.char # NoBlock)
  <2> DEFINE stub == Late(n).stub \/ (m.char # NoPatch /\ m.type = "ptr" /\ data.char = NoBlock)
  <2>1. seen' = [Late(n) EXCEPT !.stub = stub]
    BY DEF ReceiveDelta
  <2>2. stub \in BOOLEAN /\ (~ stub => ~ Late(n).stub /\ (isPtr => data.char # NoBlock))
    BY LateStep DEF Seens
  <2> HIDE DEF stub, isPtr, m
  <2>3. /\ Late(n) \in Seens /\ Late(n).saves = seen.saves
        /\ Late(n).blind = seen.blind /\ Late(n).stub = seen.stub
        /\ Late(n).failed = seen.failed /\ Late(n).old = seen.old
        /\ ~ Late(n).late => ~ seen.late /\ n = save.req
    BY LateStep
  <2>4. /\ seen' \in Seens /\ seen'.saves = Late(n).saves /\ seen'.blind = Late(n).blind
        /\ seen'.stub = stub /\ seen'.failed = Late(n).failed
        /\ seen'.old = Late(n).old /\ seen'.late = Late(n).late
    BY <2>1, <2>2, <2>3 DEF Seens
  <2> QED
    BY <2>2, <2>3, <2>4 DEF NoTrouble
<1>9. /\ reqs' \in [Requests -> Messages] /\ Numbered'
      /\ Mine' = IF n = save.req THEN s ELSE Mine
      /\ \A v \in uploads : reqs'[v.req].state \in {"serving", "done"}
      /\ reqs'[n].state = "serving" /\ s.state = "serving"
  BY <1>1, <1>7, <1>8, ServingStep
<1>10. A \in SUBSET Uploads /\ A \subseteq {x, y}
  BY <1>6
<1>11. Counted'
  <2> HIDE DEF A
  <2> QED
    BY <1>1, <1>6, <1>10, CountedStep DEF IInv
<1>12. Types' /\ Served' /\ Filled'
  <2> HIDE DEF A, d, h
  <2>1. Types'
    BY <1>1, <1>3, <1>4, <1>8, <1>9, <1>10 DEF IInv, Types
  <2>2. \A u \in A : u.req = n /\ u.state = "up"
    BY <1>6, <1>10
  <2> QED
    BY <1>1, <1>8, <1>9, <2>1, <2>2 DEF IInv, Served, Filled
<1>13. n = save.req => AsSent
  <2> HIDE DEF A, d, h
  <2>1. n = save.req => Active
    BY BoundsAssumption DEF IInv, Page, Requests
  <2>2. n = save.req /\ save.phase = "full" => m.kind \in {"db", "char"}
    BY <1>1 DEF IInv, Page, Mine, Full, Types, Saves
  <2> QED
    BY <1>1, <2>1, <2>2 DEF AsSent, Active, Mine, IInv, Types, Saves
<1>14. Page'
  <2> HIDE DEF A, d, h
  <2> QED
    BY <1>1, <1>7, <1>9, <1>13 DEF IInv, Page, Active, AsSent, DbBody
<1>15. ASSUME NoTrouble'
       PROVE  /\ Stored' /\ Current' /\ Landed' /\ Latest' /\ Cached'
              /\ ~ seen'.blind /\ remote' => Told'
  <2>1. /\ NoTrouble /\ n = save.req /\ AsSent /\ Active /\ Active' /\ save.phase = "delta"
        /\ m = Mine /\ (isPtr => data.char # NoBlock)
    BY <1>1, <1>8, <1>13, <1>15 DEF Active, AsSent, Mine
  <2>2. uploads = {} /\ uploads' = A
    BY <1>1, <2>1, OnlyOwn
  <2>3. ~ AsSent' /\ InService' /\ Mine' = s /\ Mine'.state = "serving" /\ ~ InService
    BY <1>1, <1>9, <2>1 DEF AsSent, InService, Mine
  <2>4. Stored /\ Current /\ Latest /\ Cached
    BY <2>1 DEF IInv
  <2>5. /\ Settled("db") /\ Settled("char") /\ ~ Waiting("db") /\ ~ Waiting("char")
        /\ ~ Waiting("char")' /\ ~ Waiting("db")'
    BY <1>6, <1>10, <2>1, <2>2 DEF Settled, Waiting
  <2>6. /\ Under(data.root, file.db.root)
        /\ remote /\ data.char # NoBlock => Clean(data.char) = Clean(file.char)
        /\ remote /\ hashes.char # NoBlock => Clean(data.char) = Clean(hashes.char)
    BY <1>1, <2>1, <2>2, <2>4, <2>5 DEF Cached
  <2>7. /\ Settled("db")' => save.what = "char"
        /\ Settled("char")' => save.what = "db"
    BY <1>1, <2>1, <2>3 DEF Settled, IInv, Types, Saves
  <2>8. /\ h.char = hashes.char \/ h.char = NoBlock
        /\ save.what = "db" \/ save.what = "char"
    BY DEF IInv, Types, Saves
  <2>9. CASE save.what = "db"
    <3>1. /\ Under(d.root, base.root)
          /\ isDb \/ (Under(file.db.root, base.root) /\ d.root = data.root)
      <4>1. Under(Patched(file.db.root, m.root), base.root)
        BY <2>1, <2>4, <2>9 DEF Stored
      <4>2. ~ isDb => m.root = NoPatch
        OBVIOUS
      <4>3. Under(Patched(data.root, m.root), Patched(file.db.root, m.root))
        BY <1>2, <2>6, PatchedUnder
      <4>4. Under(Patched(data.root, m.root), base.root)
        BY <4>1, <4>3, UnderOrder
      <4> QED
        BY <4>1, <4>2, <4>4 DEF Patched
    <3>2. remote => /\ m.type = "ptr" /\ m.char \in {NoPatch, Whole({Ptr})}
                    /\ ~ isChar
      BY <2>1, <2>9 DEF IInv, Page
    <3>3. remote => /\ Clean(d.char) = Clean(data.char)
                    /\ d.char # NoBlock => data.char # NoBlock
      <4>1. data.char \in Maybe
        BY DEF IInv, Types
      <4>2. CASE remote /\ m.char = NoPatch
        BY <4>2 DEF Patched
      <4>3. CASE remote /\ m.char # NoPatch
        <5>1. data.char \in Objects /\ m.char = Whole({Ptr})
          BY <2>1, <3>2, <4>1, <4>3 DEF Maybe
        <5> QED
          BY <2>1, <5>1, <3>2, <4>3, PointerClean
      <4> QED
        BY <4>2, <4>3
    <3>4. isDb => x \in uploads'
      BY <2>2
    <3> HIDE DEF d, h, A, isChar, isPtr, isDb, m
    <3>5. Stored'
      <4>1. isDb => \E u \in uploads' : u.state = "up" /\ u.req = save.req /\ u.file = "db"
        BY <1>6, <2>1, <3>4
      <4> QED
        BY <1>1, <2>1, <2>3, <2>4, <2>9, <3>1, <4>1 DEF Stored
    <3>6. /\ Under(x.body.root, base.root)
          /\ remote /\ x.body.char # NoBlock => Clean(x.body.char) = Clean(file.char)
      BY <1>5, <1>6, <2>6, <3>1, <3>3
    <3>7. \A u \in uploads' : u = x \/ (u = y /\ ~ remote)
      BY <1>10, <2>2, <3>2 DEF A
    <3>8. Current'
      <4>1. \A u \in uploads' : Content(u)'
        BY <1>1, <1>6, <2>9, <3>6, <3>7 DEF Content
      <4>2. \A u, v \in uploads' : u.req = save'.req /\ (u.file = v.file => u = v)
        BY <1>1, <1>6, <2>1, <3>7
      <4> QED
        BY <1>1, <2>1, <2>3, <4>1, <4>2 DEF Current
    <3>9. Landed'
      <4>1. isChar => y.body.char # NoBlock
        BY <1>3, <1>5, <1>6, Blocks
      <4>2. \A u \in uploads' : u = y => isChar
        BY <1>6, <2>2 DEF A
      <4> QED
        BY <1>1, <1>6, <3>6, <3>7, <4>1, <4>2 DEF Landed
    <3>10. Latest'
      <4>1. Fulls("char") = {} /\ \A u \in Fulls("char")' : ~ remote
        BY <1>1, <1>6, <2>2, <3>7 DEF Fulls
      <4> QED
        BY <1>1, <1>6, <2>9, <3>7, <4>1 DEF Latest
    <3>11. Cached'
      <4>1. data'.root = d.root /\ data'.char = d.char /\ hashes'.char = h.char
        BY <1>1 DEF d, h
      <4>2. /\ remote /\ d.char # NoBlock => Clean(d.char) = Clean(file.char)
            /\ remote /\ h.char # NoBlock => Clean(d.char) = Clean(h.char)
        BY <2>6, <2>8, <2>9, <3>3
      <4>3. ~ Settled("db")'
        BY <2>7, <2>9
      <4>4. Under(data'.root, file'.db.root) \/ \E u \in uploads' : u.file = "db"
        BY <1>1, <1>6, <2>6, <3>1, <3>4, <4>1
      <4> QED
        BY <1>1, <2>9, <4>1, <4>2, <4>3, <4>4 DEF Cached
    <3>12. ~ seen'.blind /\ remote' => Told'
      <4> SUFFICES ASSUME ~ seen'.blind, remote PROVE Told'
        BY <1>1
      <4>1. Told
        BY <1>8, <2>1 DEF IInv
      <4>2. hashes'.char = h.char
        BY <1>1 DEF h
      <4> QED
        BY <1>1, <2>5, <2>8, <4>1, <4>2 DEF Told
    <3> QED
      BY <3>5, <3>8, <3>9, <3>10, <3>11, <3>12
  <2>10. CASE save.what = "char"
    <3>1. remote /\ m.root = NoPatch /\ m.type = "char" /\ m.char # NoPatch
      BY <2>1, <2>4, <2>10 DEF Stored, IInv, Page
    <3>2. isChar /\ ~ isDb /\ ~ isPtr
      BY <3>1
    <3>3. d.root = data.root /\ h.char = hashes.char
      BY <3>1 DEF Patched
    <3>4. /\ Under(Clean(d.char), doc.char)
          /\ Clean(hashes.char) = doc.char => Clean(d.char) = doc.char \/ hashes.char = NoBlock
      <4>1. data.char \in Objects
        BY <1>1, <3>1 DEF Uncached, IInv, Types, Maybe
      <4>2. /\ m.char \in [set : SUBSET CharFields, del : SUBSET CharFields]
            /\ Under(ApplyPatch(Clean(file.char), m.char), doc.char)
            /\ Clean(file.char) = doc.char => ApplyPatch(Clean(file.char), m.char) = doc.char
        BY <2>1, <2>4, <2>10 DEF Stored, NextChar
      <4>3. d.char = ApplyPatch(data.char, m.char)
        BY <3>1, <4>1, Blocks DEF Patched
      <4>4. /\ Clean(data.char) = Clean(file.char)
            /\ hashes.char # NoBlock => Clean(hashes.char) = Clean(file.char)
        BY <2>6, <3>1, <4>1, Blocks
      <4> HIDE DEF d, m
      <4> QED
        BY <4>1, <4>2, <4>3, <4>4, PatchedClean
    <3>5. uploads' = {y}
      BY <2>2, <3>2
    <3> HIDE DEF d, h, A, isChar, isPtr, isDb, m
    <3>6. Stored'
      BY <1>1, <2>1, <2>3, <2>4, <2>10 DEF Stored
    <3>7. Under(Clean(y.body.char), doc.char) /\ y.body.char = d.char
      BY <1>5, <1>6, <3>4
    <3>8. Current'
      <4>1. \A u \in uploads' : Content(u)'
        BY <1>1, <1>6, <2>10, <3>5, <3>7 DEF Content
      <4> QED
        BY <1>1, <1>6, <2>1, <2>3, <3>5, <4>1 DEF Current
    <3>9. Landed'
      <4>1. y.body.char # NoBlock
        BY <1>3, <1>5, <1>6, <3>2, Blocks
      <4> QED
        BY <1>1, <1>6, <3>5, <4>1 DEF Landed
    <3>10. Latest'
      <4>1. ~ Settled("char")'
        BY <2>7, <2>10
      <4> QED
        BY <1>1, <1>6, <2>1, <3>5, <4>1 DEF Latest, Fulls
    <3>11. Cached'
      <4>1. data'.root = data.root /\ data'.char = d.char /\ hashes'.char = hashes.char
        BY <1>1, <3>3 DEF d, h
      <4>2. ~ Settled("char")'
        BY <2>7, <2>10
      <4>3. hashes'.char # NoBlock =>
              Clean(data'.char) = Clean(hashes'.char) \/ Clean(hashes'.char) # doc'.char
        BY <1>1, <3>4, <4>1
      <4>4. \A u \in uploads' : u.body.char = data'.char
        BY <3>5, <3>7, <4>1
      <4> QED
        BY <1>1, <2>1, <2>3, <2>6, <2>10, <4>1, <4>2, <4>3, <4>4 DEF Cached
    <3>12. ~ seen'.blind /\ remote' => Told'
      <4> SUFFICES ASSUME ~ seen'.blind, remote PROVE Told'
        BY <1>1
      <4>1. Told
        BY <1>8, <2>1 DEF IInv
      <4>2. hashes'.char = hashes.char
        BY <1>1, <3>3 DEF h
      <4> QED
        BY <1>1, <2>5, <4>1, <4>2 DEF Told
    <3> QED
      BY <3>6, <3>8, <3>9, <3>10, <3>11, <3>12
  <2> QED
    BY <2>8, <2>9, <2>10
<1> QED
  BY <1>9, <1>11, <1>12, <1>14, <1>15 DEF IInv

LEMMA RefuseDeltaIInv ==
  ASSUME IInv, NEW n \in Requests, NEW f, RefuseDelta(n, f)
  PROVE  IInv'
<1> USE DEF cacheVars, pageVars
<1> DEFINE R == [reqs EXCEPT ![n] = Done]
           m == reqs[n]
           patches == inited /\ f /\ m.root # NoPatch
<1>1. /\ m.state = "sent" /\ m.kind = "delta" /\ Outcome(R, Late(n), n, "error")
      /\ data' = IF patches THEN [data EXCEPT !.root = Patched(@, m.root)] ELSE data
      /\ hashes' = IF patches THEN [hashes EXCEPT !.root = NoBlock] ELSE hashes
      /\ UNCHANGED <<remote, pageVars, inited, raw, uploads, file, shown>>
  BY DEF RefuseDelta
<1>2. m \in Messages /\ m # NoRequest
  BY <1>1, MessageKinds DEF IInv, Types
<1>3. m.root \in MaybePatch
  <2>1. m \notin Wholes /\ m \notin Servings /\ m \notin {NoRequest, Done}
    BY <1>1, MessageKinds DEF Wholes, Servings
  <2> HIDE DEF m
  <2>2. m \in Deltas
    BY <1>2, <2>1 DEF Messages
  <2> QED
    BY <2>2 DEF Deltas
<1>4. data' \in [root : Maybe, char : Maybe] /\ data'.char = data.char
  <2> HIDE DEF m
  <2>1. data.root \in Maybe /\ Patched(data.root, m.root) \in Maybe
    BY <1>3, PatchedType DEF IInv, Types
  <2> QED
    BY <1>1, <2>1 DEF IInv, Types
<1>5. /\ hashes' \in [root : Maybe, char : Maybe, charType : {"none", "char", "ptr"}]
      /\ hashes'.char = hashes.char
  BY <1>1 DEF IInv, Types, Maybe
<1>6. /\ R \in [Requests -> Messages]
      /\ \A k \in Requests : (R[k] = NoRequest) <=> (reqs[k] = NoRequest)
  BY <1>2, MessageKinds DEF IInv, Types
<1>7. /\ Late(n) \in Seens /\ Late(n).saves = seen.saves
      /\ Late(n).blind = seen.blind /\ Late(n).stub = seen.stub
      /\ Late(n).failed = seen.failed /\ Late(n).old = seen.old
      /\ ~ Late(n).late => ~ seen.late /\ n = save.req
  BY LateStep
<1>8. \A u \in uploads : R[u.req].state \in {"serving", "done"}
  BY <1>1, MessageKinds DEF IInv, Served, Types, Uploads
<1> HIDE DEF R, patches
<1>9. /\ reqs' \in [Requests -> Messages] /\ save' \in Saves /\ seen' \in Seens
      /\ Numbered' /\ seen'.saves = seen.saves
      /\ \/ save.req # n /\ reqs' = R /\ save' = save /\ seen' = Late(n)
         \/ save.req = n /\ Active /\ seen' = Late(n) /\ Again(R)
         \/ /\ save.req = n /\ Active
            /\ reqs' = R /\ save' = Idle /\ seen' = [Late(n) EXCEPT !.failed = TRUE]
  BY <1>1, <1>2, <1>6, <1>7, OutcomeStep DEF IInv
<1>10. Types' /\ Counted'
  BY <1>1, <1>4, <1>5, <1>9 DEF IInv, Types, Counted
<1>11. CASE save.req # n /\ reqs' = R /\ save' = save /\ seen' = Late(n)
  <2>1. Mine' = Mine /\ ~ NoTrouble'
    BY <1>7, <1>11 DEF Mine, R, IInv, Types, NoTrouble
  <2>2. Page'
    BY <1>1, <1>11, <2>1 DEF IInv, Page, Active, AsSent, DbBody
  <2>3. Served' /\ Filled'
    BY <1>1, <1>7, <1>8, <1>11 DEF IInv, Served, Filled
  <2> QED
    BY <1>9, <1>10, <2>1, <2>2, <2>3 DEF IInv
<1>12. CASE save.req = n /\ Active /\ seen' = Late(n) /\ Again(R)
  <2>1. /\ Active' /\ Page' /\ save'.what = save.what /\ Mine'.state = "sent"
        /\ ~ AsSent' /\ ~ InService'
        /\ \A u \in uploads : R[u.req].state \in {"serving", "done"}
                               => reqs'[u.req].state \in {"serving", "done"}
    BY <1>1, <1>6, <1>12, AgainStep
  <2>2. Served' /\ Filled'
    BY <1>1, <1>7, <1>8, <1>12, <2>1 DEF IInv, Served, Filled
  <2>3. NoTrouble' => NoTrouble
    BY <1>7, <1>12 DEF NoTrouble
  <2>4. save.what = "db" \/ data'.root = data.root
    <3>1. save.phase # "full"
      BY <1>1, <1>12 DEF IInv, Page, Mine, Full, Types, Saves, Active
    <3>2. AsSent
      BY <1>1, <1>12, <3>1 DEF AsSent, Mine, IInv, Types, Saves, Active
    <3>3. save.what = "char" => m.root = NoPatch
      BY <1>12, <3>2 DEF IInv, Page, Mine
    <3> QED
      BY <1>1, <3>3 DEF IInv, Types, Saves, patches
  <2>5. NoTrouble => /\ Stored' /\ Current' /\ Landed' /\ Latest' /\ Cached'
                     /\ ~ seen.blind /\ remote => Told'
    BY <1>1, <1>4, <1>5, <1>12, <2>1, <2>4, AgainKnown
  <2> QED
    BY <1>1, <1>7, <1>9, <1>10, <1>12, <2>1, <2>2, <2>3, <2>5 DEF IInv
<1>13. CASE /\ save.req = n /\ Active
            /\ reqs' = R /\ save' = Idle /\ seen' = [Late(n) EXCEPT !.failed = TRUE]
  <2>1. seen'.failed = TRUE /\ seen'.blind = seen.blind
    BY <1>7, <1>13 DEF Seens
  <2>2. ~ NoTrouble'
    BY <2>1 DEF NoTrouble
  <2>3. Page'
    BY <1>1, <1>13, IdleStep
  <2>4. Served' /\ Filled'
    BY <1>1, <1>8, <1>13, <2>1 DEF IInv, Served, Filled
  <2> QED
    BY <1>9, <1>10, <2>2, <2>3, <2>4 DEF IInv
<1> QED
  BY <1>9, <1>11, <1>12, <1>13

-----------------------------------------------------------------------------
(* The upstream stores an upload, and answers.                             *)

LEMMA MoveStep ==
  ASSUME Types, NEW u \in uploads, NEW to \in {"landed", "accepted"}, NEW w,
         w = [u EXCEPT !.state = to]
  PROVE  /\ w \in Uploads /\ w.req = u.req /\ w.file = u.file /\ w.body = u.body
         /\ w.ordered = u.ordered /\ w.seq = u.seq /\ w.state = to
         /\ Move(u, to) = (uploads \ {u}) \cup {w}
BY DEF Types, Uploads, Move

LEMMA SameRequests ==
  ASSUME IInv, UNCHANGED <<remote, doc, base, sent, save, reqs>>, seen'.saves = seen.saves
  PROVE  /\ Numbered' /\ Page' /\ Active' = Active /\ Mine' = Mine
         /\ AsSent' = AsSent /\ InService' = InService
         /\ \A what : Settled(what)' = Settled(what)
<1>1. /\ Active' = Active /\ Mine' = Mine /\ AsSent' = AsSent /\ InService' = InService
      /\ DbBody' = DbBody
  BY DEF Active, Mine, AsSent, InService, DbBody
<1>2. Numbered'
  BY DEF IInv, Numbered, ToCome
<1>3. Page'
  BY <1>1 DEF IInv, Page
<1> QED
  BY <1>1, <1>2, <1>3 DEF Settled

LEMMA LandsIInv == ASSUME IInv, NEW u \in uploads, UploadLands(u) PROVE IInv'
<1> USE DEF cacheVars, pageVars
<1> DEFINE w == [u EXCEPT !.state = "landed"]
<1>1. /\ u.state = "up" /\ uploads' = Move(u, "landed")
      /\ file' = [file EXCEPT ![u.file] = IF u.file = "db" THEN u.body ELSE u.body.char]
      /\ UNCHANGED <<remote, pageVars, save, reqs, cacheVars, shown>>
  BY DEF UploadLands
<1>2. /\ w \in Uploads /\ w.req = u.req /\ w.file = u.file /\ w.body = u.body
      /\ w.ordered = u.ordered /\ w.seq = u.seq /\ w.state = "landed"
      /\ uploads' = (uploads \ {u}) \cup {w}
  BY <1>1, MoveStep DEF IInv
<1> HIDE DEF w
<1>3. /\ u \in Uploads /\ u.file \in {"db", "char"} /\ u.body \in Bodies
      /\ u.req \in Requests
  BY DEF IInv, Types, Uploads
<1>4. /\ u.file = "db" => file'.db = u.body /\ file'.char = file.char
      /\ u.file = "char" => file'.db = file.db /\ file'.char = u.body.char
      /\ file' \in [db : Bodies, char : Maybe]
  BY <1>1, <1>3 DEF IInv, Types, Bodies
<1>5. /\ seen' \in Seens /\ seen'.saves = seen.saves
      /\ NoTrouble' => NoTrouble /\ u.req = save.req
      /\ ~ seen'.blind => ~ seen.blind /\ inited
  <2> DEFINE S == Late(u.req)  blind == S.blind \/ ~ inited
  <2>1. /\ S \in Seens /\ S.saves = seen.saves
        /\ S.blind = seen.blind /\ S.stub = seen.stub
        /\ S.failed = seen.failed /\ S.old = seen.old
        /\ ~ S.late => ~ seen.late /\ u.req = save.req
    BY LateStep
  <2>2. blind \in BOOLEAN /\ seen' = [S EXCEPT !.blind = blind]
    BY <2>1 DEF UploadLands, Seens
  <2>3. ~ blind => ~ seen.blind /\ inited
    BY <2>1 DEF Seens, IInv, Types
  <2> HIDE DEF blind, S
  <2> QED
    BY <2>1, <2>2, <2>3 DEF Seens, NoTrouble
<1>6. Types' /\ Served' /\ Counted' /\ Filled'
  <2>1. Types'
    BY <1>1, <1>2, <1>4, <1>5 DEF IInv, Types
  <2>2. Served' /\ Counted' /\ Filled'
    BY <1>1, <1>2, <1>5 DEF IInv, Served, Counted, Filled
  <2> QED
    BY <2>1, <2>2
<1>7. /\ Numbered' /\ Page' /\ Active' = Active /\ Mine' = Mine
      /\ AsSent' = AsSent /\ InService' = InService
      /\ \A what : Settled(what)' = Settled(what)
  BY <1>1, <1>5, SameRequests
<1>8. /\ Waiting("db")' = Waiting("db") /\ Waiting("char")' = Waiting("char")
      /\ \A v \in uploads : v.state = "accepted" => v \in uploads'
  BY <1>1, <1>2 DEF Waiting
<1>9. ASSUME NoTrouble'
      PROVE  /\ Stored' /\ Current' /\ Landed' /\ Latest' /\ Cached'
             /\ ~ seen'.blind /\ remote' => Told'
  <2>1. NoTrouble /\ u.req = save.req /\ Stored /\ Current /\ Landed /\ Latest /\ Cached
    BY <1>5, <1>9 DEF IInv
  <2>2. Active
    BY <1>3, <2>1, BoundsAssumption DEF IInv, Page, Requests
  <2>3. InService /\ ~ AsSent /\ Mine.state = "serving"
    BY <2>1, <2>2 DEF IInv, Served, Current, Mine, InService, AsSent
  <2>4. /\ \A v \in uploads : Content(v)
        /\ u.file = "db" => save.what = "db" /\ Under(u.body.root, base.root)
        /\ u.file = "char" /\ remote => save.what = "char" /\ Under(Clean(u.body.char), doc.char)
    BY <2>1, <2>2, <2>3 DEF Current, Content
  <2>5. \A v \in uploads' : \E o \in uploads :
          /\ v.req = o.req /\ v.file = o.file /\ v.body = o.body /\ v.ordered = o.ordered
          /\ v.seq = o.seq /\ (o # u => v = o) /\ (v # w => v \in uploads /\ v # u)
    BY <1>2
  <2>6. save.phase = "delta" => \A v \in uploads : v.file = u.file => v = u
    BY <2>1, <2>3 DEF Current
  <2>7. save.phase = "full" =>
          /\ u.file = save.what /\ u.body = save.body
          /\ \A v \in uploads : v.req = save.req => v.file = save.what /\ v.body = save.body
    BY <2>1, <2>3 DEF Current
  <2>8. save.phase = "delta" \/ save.phase = "full"
    BY <2>2 DEF Active, IInv, Types, Saves
  <2>9. Current'
    <3>1. \A v \in uploads' : Content(v)'
      BY <1>1, <2>4, <2>5 DEF Content
    <3>2. save.phase = "full" =>
            \A v \in uploads' : v.req = save.req => v.file = save.what /\ v.body = save.body
      BY <2>5, <2>7
    <3>3. save.phase = "delta" =>
            \A v, x \in uploads' : v.req = save.req /\ (v.file = x.file => v = x)
      BY <1>2, <2>1, <2>3, <2>5, <2>6 DEF Current
    <3> QED
      BY <1>1, <1>7, <2>3, <3>1, <3>2, <3>3 DEF Current
  <2>10. \A v \in uploads : v # u /\ v.file = "db" /\ v.state # "up" =>
           Under(v.body.root, file'.db.root)
    <3>1. CASE u.file = "char"
      BY <1>4, <2>1, <3>1 DEF Landed
    <3>2. CASE u.file = "db" /\ save.phase = "full"
      <4>1. u.body.root = base.root
        BY <2>2, <2>4, <2>7, <3>2, BodyTypes DEF IInv, Page
      <4> QED
        BY <1>4, <2>4, <3>2, <4>1 DEF Content
    <3> QED
      BY <1>3, <2>6, <2>8, <3>1, <3>2
  <2>11. /\ u.file = "db" => u.body.root = file'.db.root
         /\ u.file = "char" => u.body.char = file'.char
    BY <1>4
  <2>12. \A v \in uploads : v # u /\ v.req = save.req /\ v.state # "up" =>
           IF v.file = "db" THEN v.body.root = file'.db.root
           ELSE remote => Clean(v.body.char) = Clean(file'.char)
    <3> SUFFICES ASSUME NEW v \in uploads, v # u, v.req = save.req, v.state # "up"
                 PROVE  IF v.file = "db" THEN v.body.root = file'.db.root
                        ELSE remote => Clean(v.body.char) = Clean(file'.char)
      OBVIOUS
    <3>1. v.file \in {"db", "char"}
      BY DEF IInv, Types, Uploads
    <3>2. CASE v.file = u.file
      BY <1>3, <2>6, <2>7, <2>8, <2>11, <3>2
    <3>3. CASE v.file # u.file
      BY <1>3, <1>4, <2>1, <2>3, <3>1, <3>3 DEF Landed, IsStored
    <3> QED
      BY <3>2, <3>3
  <2>13. Landed'
    <3> SUFFICES ASSUME NEW v \in uploads'
                 PROVE  /\ v.file = "db" /\ v.state # "up" => Under(v.body.root, file'.db.root)
                        /\ v.req = save.req /\ v.state # "up" => IsStored(v)'
                        /\ v.file = "db" /\ remote /\ v.body.char # NoBlock =>
                             Clean(v.body.char) = Clean(file'.char)
                        /\ v.file = "char" => v.body.char # NoBlock
      BY <1>1 DEF Landed
    <3>1. PICK o \in uploads : /\ v.req = o.req /\ v.file = o.file /\ v.body = o.body
                              /\ (v # w => v \in uploads /\ v # u)
      BY <2>5
    <3>2. /\ v.file = "char" => v.body.char # NoBlock
          /\ v.file = "db" /\ remote /\ v.body.char # NoBlock =>
               Clean(v.body.char) = Clean(file'.char)
      BY <1>3, <1>4, <2>1, <2>4, <3>1 DEF Landed, Content
    <3>3. CASE v = w
      BY <1>1, <1>2, <1>3, <2>11, <3>2, <3>3, UnderOrder DEF IsStored
    <3>4. CASE v # w
      BY <1>1, <2>10, <2>12, <3>1, <3>2, <3>4 DEF IsStored
    <3> QED
      BY <3>3, <3>4
  <2>14. \A what : what = save.what => ~ Settled(what)
    BY <2>2, <2>3 DEF Settled
  <2>15. Latest'
    <3>1. \A v \in Fulls("char")' : \E o \in Fulls("char") :
            v.req = o.req /\ v.seq = o.seq /\ v.ordered = o.ordered
      BY <2>5 DEF Fulls
    <3>2. \A v \in uploads' : v.file = "char" => v.ordered = TRUE
      BY <2>1, <2>5 DEF Latest
    <3>3. InService' /\ save'.what = "char" =>
            \A v, x \in Fulls("char")' : v.req = save'.req /\ x.req # save'.req => x.seq < v.seq
      BY <1>1, <1>7, <2>1, <3>1 DEF Latest
    <3>4. remote' /\ Settled("char")' =>
            \A v \in Fulls("char")' : Newest(v)' =>
              v.state = "accepted" /\ Clean(v.body.char) = Clean(file'.char)
      <4> SUFFICES ASSUME remote, Settled("char")
                   PROVE  \A v \in Fulls("char")' : Newest(v)' =>
                            v.state = "accepted" /\ Clean(v.body.char) = Clean(file'.char)
        BY <1>1, <1>7
      <4>1. u.file = "db"
        BY <1>3, <2>4, <2>14
      <4>2. Fulls("char")' = Fulls("char")
        BY <1>2, <4>1 DEF Fulls
      <4> QED
        BY <1>4, <2>1, <4>1, <4>2 DEF Latest, Newest
    <3> QED
      BY <3>2, <3>3, <3>4 DEF Latest
  <2>16. ~ seen'.blind /\ remote => inited /\ Told
    BY <1>5, <2>1 DEF IInv
  <2>17. Stored' /\ Cached' /\ (~ seen'.blind /\ remote' => Told')
    <3>1. w \in uploads' /\ \A v \in uploads : v # u => v \in uploads'
      BY <1>2
    <3>2. CASE u.file = "db"
      <4>1. /\ file'.db.root = u.body.root /\ Under(file'.db.root, base.root)
            /\ file'.char = file.char /\ save.what = "db"
        BY <1>4, <2>4, <3>2
      <4>2. Stored'
        BY <1>1, <1>7, <2>1, <2>2, <2>3, <4>1 DEF Stored
      <4>3. \E v \in uploads' : v.file = "db"
        BY <1>2, <3>1, <3>2
      <4>4. Cached'
        BY <1>1, <1>7, <1>8, <2>1, <2>14, <4>1, <4>3 DEF Cached, Renews
      <4>5. ~ seen'.blind /\ remote' => Told'
        BY <1>1, <1>7, <1>8, <2>16, <4>1 DEF Told
      <4> QED
        BY <4>2, <4>4, <4>5
    <3>3. CASE u.file = "char"
      <4>1. /\ file'.db = file.db
            /\ remote => save.what = "char" /\ Under(Clean(file'.char), doc.char)
        BY <1>4, <2>4, <3>3
      <4>2. InService /\ save.phase = "delta" /\ save.what = "db" =>
              \/ Mine.bad \/ Under(file.db.root, base.root)
              \/ \E v \in uploads' : v.state = "up" /\ v.req = save.req /\ v.file = "db"
        BY <2>1, <3>1, <3>3 DEF Stored
      <4>3. Stored'
        BY <1>1, <1>7, <2>1, <2>2, <2>3, <4>1, <4>2 DEF Stored
      <4>4. /\ (\E v \in uploads : v.file = "db") => \E v \in uploads' : v.file = "db"
            /\ InService /\ save.phase = "delta" /\ save.what = "char" =>
                 \A v \in uploads' : v.body.char = data.char
        BY <2>1, <2>5, <3>1, <3>3 DEF Cached
      <4>5. Cached'
        BY <1>1, <1>7, <1>8, <2>1, <2>14, <4>1, <4>4 DEF Cached, Renews
      <4>6. ~ seen'.blind /\ remote' => Told'
        BY <1>1, <1>7, <1>8, <2>14, <2>16, <4>1 DEF Told
      <4> QED
        BY <4>3, <4>5, <4>6
    <3> QED
      BY <1>3, <3>2, <3>3
  <2> QED
    BY <2>9, <2>13, <2>15, <2>17
<1> QED
  BY <1>6, <1>7, <1>9 DEF IInv

\* sendUpstreamWithRetry is through with u: accepted, as w, or gone.
Ends(u, w, how) ==
  /\ u.state = "landed" \/ (u.state = "up" /\ how # "ok")
  /\ w.req = u.req /\ w.file = u.file /\ w.body = u.body /\ w.seq = u.seq
  /\ w.ordered = u.ordered /\ w.state = "accepted"
  /\ uploads' = IF how = "ok" THEN (uploads \ {u}) \cup {w} ELSE uploads \ {u}

LEMMA EndsStep ==
  ASSUME NEW u \in uploads, NEW w, NEW how, Ends(u, w, how)
  PROVE  /\ \A v \in uploads : v # u => v \in uploads'
         /\ how = "ok" => w \in uploads' /\ u.state = "landed"
         /\ \A v \in uploads' : (v \in uploads /\ v # u) \/ (v = w /\ how = "ok")
         /\ \A v \in uploads' : \E o \in uploads :
              /\ v.req = o.req /\ v.file = o.file /\ v.body = o.body /\ v.seq = o.seq
              /\ v.ordered = o.ordered
              /\ v.state # "accepted" => o.state # "accepted"
              /\ v.state # "up" => o.state # "up"
         /\ \A f : Waiting(f)' = (Waiting(f) \/ (how = "ok" /\ u.file = f))
<1>1. /\ \A v \in uploads : v # u => v \in uploads'
      /\ how = "ok" => w \in uploads' /\ u.state = "landed"
      /\ \A v \in uploads' : (v \in uploads /\ v # u) \/ (v = w /\ how = "ok")
  BY DEF Ends
<1>2. \A v \in uploads' : \E o \in uploads :
        /\ v.req = o.req /\ v.file = o.file /\ v.body = o.body /\ v.seq = o.seq
        /\ v.ordered = o.ordered
        /\ v.state # "accepted" => o.state # "accepted"
        /\ v.state # "up" => o.state # "up"
  BY <1>1 DEF Ends
<1>3. \A f : Waiting(f)' = (Waiting(f) \/ (how = "ok" /\ u.file = f))
  BY <1>1 DEF Waiting, Ends
<1> QED
  BY <1>1, <1>2, <1>3

\* The last of a settled character's uploads is none that ends.
LEMMA EndsNewest ==
  ASSUME Types, Counted, NEW u \in uploads, NEW w, NEW how, Ends(u, w, how),
         \A v \in Fulls("char") : Newest(v) =>
           v.state = "accepted" /\ Clean(v.body.char) = Clean(file.char)
  PROVE  \A v \in Fulls("char")' : Newest(v)' =>
           v.state = "accepted" /\ Clean(v.body.char) = Clean(file.char)
<1> SUFFICES ASSUME NEW v \in Fulls("char")', Newest(v)'
             PROVE  v.state = "accepted" /\ Clean(v.body.char) = Clean(file.char)
  OBVIOUS
<1>1. /\ \A x \in uploads : x # u => x \in uploads'
      /\ \A x \in uploads' : (x \in uploads /\ x # u) \/ (x = w /\ how = "ok")
  BY EndsStep
<1>2. CASE u \notin Fulls("char")
  <2>1. Fulls("char")' = Fulls("char")
    BY <1>1, <1>2 DEF Fulls, Ends
  <2> QED
    BY <2>1 DEF Newest
<1>3. CASE u \in Fulls("char")
  <2>1. PICK m \in Fulls("char") : Newest(m)
    BY <1>3, NewestExists
  <2>2. m # u /\ m \in Fulls("char")'
    BY <1>1, <2>1 DEF Fulls, Ends
  <2>3. m.seq <= v.seq
    BY <2>2 DEF Newest
  <2>4. CASE v = w
    <3>1. m.seq <= u.seq
      BY <2>3, <2>4 DEF Ends
    <3>2. \A x \in Fulls("char") : x.seq \in Nat
      BY DEF Types, Uploads, Fulls
    <3>3. Newest(u)
      BY <1>3, <2>1, <3>1, <3>2 DEF Newest
    <3> QED
      BY <1>3, <3>3 DEF Ends
  <2>5. CASE v # w
    <3>1. v \in Fulls("char")
      BY <1>1, <2>5 DEF Fulls
    <3>2. \A x \in Fulls("char") : x.seq \in Nat
      BY DEF Types, Uploads, Fulls
    <3>3. Newest(v)
      BY <2>1, <2>3, <3>1, <3>2 DEF Newest
    <3> QED
      BY <3>1, <3>3
  <2> QED
    BY <2>4, <2>5
<1> QED
  BY <1>2, <1>3

\* What holds of the uploads holds after one of them has ended, unless the save
\* is served no longer.
LEMMA EndsKept ==
  ASSUME IInv, NoTrouble, NEW u \in uploads, NEW w, NEW how, Ends(u, w, how),
         UNCHANGED <<remote, file>>, Settled("char")' => Settled("char"),
         InService' => InService /\ save' = save
  PROVE  Landed' /\ Latest'
<1>1. Landed /\ Latest
  BY DEF IInv
<1>2. \A v \in uploads' : \E o \in uploads :
        /\ v.req = o.req /\ v.file = o.file /\ v.body = o.body /\ v.seq = o.seq
        /\ v.ordered = o.ordered
        /\ v.state # "up" => o.state # "up"
  BY EndsStep
<1>3. Landed'
  BY <1>1, <1>2 DEF Landed, IsStored
<1>4. remote' /\ Settled("char")' =>
        \A v \in Fulls("char")' : Newest(v)' =>
          v.state = "accepted" /\ Clean(v.body.char) = Clean(file'.char)
  BY <1>1, EndsNewest DEF Latest, IInv
<1>5. /\ \A v \in uploads' : v.file = "char" => v.ordered = TRUE
      /\ InService' /\ save'.what = "char" =>
           \A v, x \in Fulls("char")' : v.req = save'.req /\ x.req # save'.req => x.seq < v.seq
  <2>1. \A v \in uploads' : v.file = "char" => v.ordered = TRUE
    BY <1>1, <1>2 DEF Latest
  <2>2. \A v \in Fulls("char")' : \E o \in Fulls("char") : v.req = o.req /\ v.seq = o.seq
    BY <1>2 DEF Fulls
  <2> QED
    BY <1>1, <2>1, <2>2 DEF Latest
<1> QED
  BY <1>3, <1>4, <1>5 DEF Latest

\* An upload ends as another one of its request goes on, or the request is not
\* the one the page waits for: the page does not notice.
LEMMA EndsUnnoticed ==
  ASSUME IInv, NEW u \in uploads, NEW w, NEW how, Ends(u, w, how),
         UNCHANGED <<remote, doc, base, sent, save, inited, data, hashes, file, shown, seen>>,
         Mine'.state = Mine.state, AsSent => Mine' = Mine, u.req # save.req => Mine' = Mine,
         InService /\ save.phase = "delta" =>
           (Mine.bad = TRUE => Mine'.bad = TRUE)
           /\ (u.req = save.req /\ how # "ok" => Mine'.bad = TRUE)
  PROVE  /\ NoTrouble => Stored' /\ Current' /\ Landed' /\ Latest' /\ Cached'
         /\ NoTrouble /\ ~ seen.blind /\ remote => Told'
<1>1. Active' = Active /\ AsSent' = AsSent /\ InService' = InService
  BY DEF Active, AsSent, InService
<1>2. \A what : Settled(what)' = Settled(what)
  BY <1>1 DEF Settled
<1>3. /\ \A v \in uploads : v # u => v \in uploads'
      /\ how = "ok" => w \in uploads' /\ u.state = "landed"
      /\ \A v \in uploads' : (v \in uploads /\ v # u) \/ (v = w /\ how = "ok")
      /\ \A v \in uploads' : \E o \in uploads :
           /\ v.req = o.req /\ v.file = o.file /\ v.body = o.body /\ v.seq = o.seq
           /\ v.ordered = o.ordered
           /\ v.state # "accepted" => o.state # "accepted"
           /\ v.state # "up" => o.state # "up"
      /\ \A f : Waiting(f)' = (Waiting(f) \/ (how = "ok" /\ u.file = f))
  BY EndsStep
<1>4. ASSUME NoTrouble PROVE Stored' /\ Current' /\ Landed' /\ Latest' /\ Cached'
  <2>1. Stored /\ Current /\ Landed /\ Latest /\ Cached
    BY <1>4 DEF IInv
  <2>2. Stored'
    <3>1. InService /\ save.phase = "delta" /\ save.what = "db" =>
            \/ Mine'.bad = TRUE \/ Under(file.db.root, base.root)
            \/ \E v \in uploads' : v.state = "up" /\ v.req = save.req /\ v.file = "db"
      BY <1>3, <2>1 DEF Stored
    <3> QED
      BY <1>1, <2>1, <3>1 DEF Stored, NextChar
  <2>3. Current'
    <3>1. (\A v \in uploads : Content(v)) => \A v \in uploads' : Content(v)'
      BY <1>3 DEF Content
    <3>2. InService /\ save.phase = "delta" =>
            \A v, x \in uploads' : v.req = save.req /\ (v.file = x.file => v = x)
      BY <1>3, <2>1 DEF Current, Ends
    <3>3. (\E v \in uploads' : v.state # "accepted") => \E v \in uploads : v.state # "accepted"
      BY <1>3
    <3>4. InService /\ save.phase = "full" =>
            \A v \in uploads' : v.req = save.req => v.file = save.what /\ v.body = save.body
      BY <1>3, <2>1 DEF Current
    <3>5. AsSent => \A v \in uploads' : v.state = "accepted"
      BY <1>3, <2>1 DEF Current
    <3>6. Active /\ Mine.state = "done" => uploads' = {}
      BY <1>3, <2>1 DEF Current
    <3> QED
      BY <1>1, <2>1, <3>1, <3>2, <3>3, <3>4, <3>5, <3>6 DEF Current
  <2>4. Landed' /\ Latest'
    BY <1>1, <1>2, <1>4, EndsKept
  <2>5. Cached'
    <3>1. \A v \in uploads : v.state = "accepted" => v \in uploads'
      BY <1>3 DEF Ends
    <3>2. InService /\ save.phase = "delta" /\ save.what = "db" =>
            Mine'.bad = TRUE \/ Under(data.root, file.db.root) \/ \E v \in uploads' : v.file = "db"
      <4> SUFFICES ASSUME InService, save.phase = "delta", save.what = "db",
                          NEW v \in uploads, v.file = "db"
                   PROVE  Mine'.bad = TRUE \/ \E x \in uploads' : x.file = "db"
        BY <2>1 DEF Cached
      <4>1. CASE v # u
        BY <1>3, <4>1
      <4>2. CASE v = u /\ how = "ok"
        BY <1>3, <4>2 DEF Ends
      <4>3. CASE v = u /\ how # "ok"
        BY <2>1, <4>3 DEF Current
      <4> QED
        BY <4>1, <4>2, <4>3
    <3>3. InService /\ save.phase = "delta" /\ save.what = "char" =>
            \A v \in uploads' : v.body.char = data.char
      BY <1>3, <2>1 DEF Cached
    <3>4. (\E v \in uploads : Renews(v)) => \E v \in uploads' : Renews(v)'
      BY <3>1 DEF Renews
    <3>5. \A f : ~ Waiting(f)' => ~ Waiting(f)
      BY <1>3
    <3> QED
      BY <1>1, <1>2, <2>1, <3>2, <3>3, <3>4, <3>5 DEF Cached
  <2> QED
    BY <2>2, <2>3, <2>4, <2>5
<1>5. NoTrouble /\ ~ seen.blind /\ remote => Told'
  BY <1>2, <1>3 DEF IInv, Told
<1> QED
  BY <1>4, <1>5

LEMMA EndsIInv == ASSUME IInv, NEW u \in uploads, NEW how, UploadEnds(u, how),
                         how \in {"ok", "rejected", "error"}
                  PROVE  IInv'
<1> USE DEF cacheVars, pageVars
<1> DEFINE w == [u EXCEPT !.state = "accepted"]
           n == u.req
           others == {v \in uploads \ {u} : v.req = u.req /\ v.state \in {"up", "landed"}}
           bad == reqs[n].bad \/ how # "ok"
           final == IF reqs[n].kind = "delta" THEN IF bad THEN "error" ELSE "ok" ELSE how
           R == [reqs EXCEPT ![n] = Done]
<1>1. /\ u.state = "landed" \/ (u.state = "up" /\ how # "ok")
      /\ uploads' = IF how = "ok" THEN Move(u, "accepted") ELSE uploads \ {u}
      /\ raw' = IF how = "ok" /\ u.ordered /\ u.file = "db" THEN u.body.ptr ELSE raw
      /\ IF others # {}
         THEN reqs' = [reqs EXCEPT ![n].bad = bad] /\ UNCHANGED <<save, seen>>
         ELSE Outcome(R, seen, n, final)
      /\ UNCHANGED <<remote, pageVars, inited, data, hashes, file, shown>>
  BY DEF UploadEnds, Answer
<1>2. /\ w \in Uploads /\ w.req = u.req /\ w.file = u.file /\ w.body = u.body
      /\ w.seq = u.seq /\ w.state = "accepted" /\ Ends(u, w, how)
  <2>1. /\ w \in Uploads /\ w.req = u.req /\ w.file = u.file /\ w.body = u.body
        /\ w.ordered = u.ordered /\ w.seq = u.seq /\ w.state = "accepted"
        /\ Move(u, "accepted") = (uploads \ {u}) \cup {w}
    BY MoveStep DEF IInv
  <2> HIDE DEF w
  <2> QED
    BY <1>1, <2>1 DEF Ends
<1> HIDE DEF w
<1>3. /\ n \in Requests /\ u \in Uploads /\ u.state # "accepted"
      /\ reqs[n] \in Messages /\ reqs[n] # NoRequest
      /\ reqs[n].state \in {"serving", "done"}
      /\ reqs[n].state = "serving" => reqs[n] \in Servings
      /\ reqs[n].state = "done" => reqs[n] = Done
  <2>1. n \in Requests /\ u \in Uploads /\ reqs[n] \in Messages
        /\ reqs[n].state \in {"serving", "done"}
    BY DEF IInv, Types, Uploads, Served
  <2>2. /\ reqs[n] # NoRequest /\ reqs[n] \notin Deltas /\ reqs[n] \notin Wholes
        /\ reqs[n].state = "serving" => reqs[n] # Done
        /\ reqs[n].state = "done" => reqs[n] \notin Servings
    BY <2>1, MessageKinds DEF Deltas, Wholes, Servings
  <2>3. reqs[n] \in Servings \cup {Done}
    BY <2>1, <2>2, Zenon DEF Messages
  <2> QED
    BY <1>1, <2>1, <2>2, <2>3
<1>4. /\ \A v \in uploads : v # u => v \in uploads'
      /\ how = "ok" => w \in uploads' /\ u.state = "landed"
      /\ \A v \in uploads' : (v \in uploads /\ v # u) \/ (v = w /\ how = "ok")
  BY <1>2, EndsStep
<1>5. /\ \A v \in uploads' : \E o \in uploads :
           /\ v.req = o.req /\ v.file = o.file /\ v.body = o.body /\ v.seq = o.seq
           /\ v.state # "accepted" => o.state # "accepted"
           /\ v.state # "up" => o.state # "up"
      /\ \A f : Waiting(f)' = (Waiting(f) \/ (how = "ok" /\ u.file = f))
  BY <1>2, EndsStep
<1>6. uploads' \subseteq Uploads /\ raw' \in Maybe /\ Counted'
  <2>1. uploads' \subseteq Uploads
    BY <1>2, <1>4 DEF IInv, Types
  <2>2. raw' \in Maybe
    BY <1>1, <1>3 DEF IInv, Types, Uploads, Bodies
  <2> QED
    BY <1>5, <2>1, <2>2 DEF IInv, Counted
<1>7. seen'.blind = seen.blind => Filled'
  BY <1>1, <1>5 DEF IInv, Filled
<1>8. CASE others # {}
  <2>1. reqs' = [reqs EXCEPT ![n].bad = bad] /\ UNCHANGED <<save, seen>>
    BY <1>1, <1>8
  <2>2. bad = TRUE \/ bad = FALSE
    BY DEF bad
  <2> HIDE DEF bad
  <2>3. /\ reqs'[n] \in Messages /\ reqs'[n].state = reqs[n].state
        /\ reqs[n].state = "serving" => reqs'[n].kind = reqs[n].kind /\ reqs'[n].bad = bad
        /\ reqs' = [reqs EXCEPT ![n] = reqs'[n]]
    <3>1. reqs'[n] = [reqs[n] EXCEPT !.bad = bad] /\ reqs' = [reqs EXCEPT ![n] = reqs'[n]]
      BY <1>3, <2>1 DEF IInv, Types
    <3>2. CASE reqs[n] \in Servings
      <4>1. /\ reqs'[n] \in Servings /\ reqs'[n].state = reqs[n].state
            /\ reqs'[n].kind = reqs[n].kind /\ reqs'[n].bad = bad
        BY <2>2, <3>1, <3>2 DEF Servings
      <4> QED
        BY <3>1, <4>1 DEF Messages
    <3>3. CASE reqs[n] = Done
      <4>1. reqs'[n] = Done
        BY <3>1, <3>3 DEF Done
      <4> QED
        BY <3>1, <3>3, <4>1, MessageKinds
    <3> QED
      BY <1>3, <3>2, <3>3, <3>1
  <2> DEFINE r == reqs'[n]
  <2> HIDE DEF r
  <2>4. /\ r \in Messages /\ r.state = reqs[n].state /\ r # NoRequest
        /\ reqs[n].state = "serving" => r.kind = reqs[n].kind /\ r.bad = bad
        /\ reqs' = [reqs EXCEPT ![n] = r]
    BY <1>3, <2>3, MessageKinds DEF r
  <2>5. Types' /\ Served'
    <3>1. reqs' \in [Requests -> Messages]
      BY <2>4 DEF IInv, Types
    <3>2. Served'
      BY <1>3, <1>5, <2>4 DEF IInv, Served, Types, Uploads
    <3> QED
      BY <1>1, <1>6, <2>1, <3>1, <3>2 DEF IInv, Types
  <2>6. Numbered'
    <3>1. \A m \in Requests : (reqs'[m] = NoRequest) <=> (reqs[m] = NoRequest)
      BY <1>3, <2>4 DEF IInv, Types
    <3> QED
      BY <2>1, <3>1 DEF IInv, Numbered, UsedUpTo, ToCome
  <2>7. /\ Mine'.state = Mine.state /\ (n # save.req => Mine' = Mine)
        /\ n = save.req => Mine' = r
    BY <1>3, <2>1, <2>4 DEF Mine, IInv, Types
  <2>8. Active' = Active /\ AsSent' = AsSent /\ (AsSent => n # save.req)
    BY <1>3, <2>1, <2>7 DEF Active, AsSent, Mine
  <2>9. Page'
    BY <1>1, <1>3, <2>1, <2>4, <2>7, <2>8 DEF IInv, Page, Mine, AsSent, Active, DbBody
  <2>10. InService /\ save.phase = "delta" =>
           (Mine.bad = TRUE => Mine'.bad = TRUE)
           /\ (n = save.req /\ how # "ok" => Mine'.bad = TRUE)
    BY <2>4, <2>7 DEF InService, Mine, bad
  <2>11. /\ NoTrouble => Stored' /\ Current' /\ Landed' /\ Latest' /\ Cached'
         /\ NoTrouble /\ ~ seen.blind /\ remote => Told'
    <3>1. UNCHANGED <<remote, doc, base, sent, save, inited, data, hashes, file, shown, seen>>
      BY <1>1, <2>1
    <3>2. /\ Mine'.state = Mine.state
          /\ AsSent => Mine' = Mine
          /\ u.req # save.req => Mine' = Mine
      BY <2>7, <2>8
    <3> HIDE DEF others, final, R
    <3> QED
      BY <1>2, <2>10, <3>1, <3>2, EndsUnnoticed
  <2> QED
    BY <1>1, <1>6, <1>7, <2>1, <2>5, <2>6, <2>9, <2>11 DEF IInv, NoTrouble
<1>9. CASE others = {}
  <2>1. Outcome(R, seen, n, final)
    BY <1>1, <1>9
  <2>2. \A v \in uploads' : v.req = n => v.state = "accepted"
    <3>1. \A v \in uploads : v # u /\ v.req = n => v.state = "accepted"
      BY <1>9 DEF IInv, Types, Uploads
    <3> QED
      BY <1>2, <1>4, <3>1
  <2>3. /\ R \in [Requests -> Messages]
        /\ \A k \in Requests : (R[k] = NoRequest) <=> (reqs[k] = NoRequest)
        /\ \A v \in uploads : R[v.req].state \in {"serving", "done"}
    BY <1>3, MessageKinds DEF IInv, Types, Uploads, Served
  <2>4. final = "ok" => how = "ok"
    OBVIOUS
  <2>5. final = "ok" /\ reqs[n].kind = "delta" => ~ reqs[n].bad
    OBVIOUS
  <2> HIDE DEF final, bad, others
  <2>6. seen \in Seens
    BY DEF IInv, Types
  <2>7. /\ reqs' \in [Requests -> Messages] /\ save' \in Saves /\ seen' \in Seens
        /\ Numbered' /\ seen'.saves = seen.saves
        /\ \/ save.req # n /\ reqs' = R /\ save' = save /\ seen' = seen
           \/ /\ save.req = n /\ Active /\ final = "ok"
              /\ reqs' = R /\ save' = Idle /\ seen' = seen
           \/ save.req = n /\ Active /\ seen' = seen /\ Again(R)
           \/ /\ save.req = n /\ Active
              /\ reqs' = R /\ save' = Idle /\ seen' = [seen EXCEPT !.failed = TRUE]
    <3> HIDE DEF R, n
    <3> QED
      BY <1>3, <2>1, <2>3, <2>6, OutcomeStep DEF IInv
  <2>8. Types'
    BY <1>1, <1>6, <2>7 DEF IInv, Types
  <2>10. CASE save.req # n /\ reqs' = R /\ save' = save /\ seen' = seen
    <3>1. Mine' = Mine
      BY <2>10 DEF Mine, IInv, Types
    <3>2. Page'
      BY <1>1, <2>10, <3>1 DEF IInv, Page, AsSent, Active, DbBody
    <3>3. Served'
      BY <1>5, <2>3, <2>10 DEF Served
    <3>4. /\ NoTrouble => Stored' /\ Current' /\ Landed' /\ Latest' /\ Cached'
          /\ NoTrouble /\ ~ seen.blind /\ remote => Told'
      <4>1. InService /\ save.phase = "delta" =>
              (Mine.bad = TRUE => Mine'.bad = TRUE)
              /\ (u.req = save.req /\ how # "ok" => Mine'.bad = TRUE)
        BY <2>10, <3>1
      <4> HIDE DEF n, R
      <4> QED
        BY <1>1, <1>2, <2>10, <3>1, <4>1, EndsUnnoticed DEF n
    <3> QED
      BY <1>1, <1>6, <1>7, <2>7, <2>8, <2>10, <3>2, <3>3, <3>4 DEF IInv, NoTrouble
  <2>11. CASE /\ save.req = n /\ Active /\ final = "ok"
              /\ reqs' = R /\ save' = Idle /\ seen' = seen
    <3>1. ~ Active' /\ Page' /\ ~ AsSent' /\ ~ InService'
      BY <1>1, <2>11, IdleStep
    <3>2. Served'
      BY <1>5, <2>3, <2>11 DEF Served
    <3>3. ASSUME NoTrouble
          PROVE  /\ Stored' /\ Current' /\ Landed' /\ Latest' /\ Cached'
                 /\ ~ seen.blind /\ remote => Told'
      <4>1. Stored /\ Current /\ Landed /\ Latest /\ Cached
        BY <3>3 DEF IInv
      <4>2. InService /\ how = "ok" /\ u.state = "landed" /\ w \in uploads'
        BY <1>3, <1>4, <2>4, <2>11, <4>1 DEF Current, InService, Mine
      <4>3. /\ u.file = "db" => save.what = "db" /\ Under(u.body.root, base.root)
            /\ u.file = "char" /\ remote =>
                 save.what = "char" /\ Under(Clean(u.body.char), doc.char)
            /\ save.phase = "full" => u.file = save.what /\ u.body = save.body
            /\ save.phase = "delta" => \A v \in uploads : v.req = save.req
            /\ IsStored(u)
        BY <2>11, <4>1, <4>2 DEF Current, Content, Landed
      <4>4. /\ save.phase = "delta" \/ save.phase = "full"
            /\ save.what = "db" \/ save.what = "char"
            /\ u.file = "db" \/ u.file = "char"
        BY <1>3, <2>11 DEF Active, IInv, Types, Saves, Uploads
      <4>5. save.phase = "delta" => ~ Mine.bad
        <5>1. save.phase = "delta" => Mine.kind = "delta"
          BY <4>2 DEF IInv, Page, InService
        <5> QED
          BY <2>5, <2>11, <5>1 DEF Mine
      <4>6. save.what = "db" => Under(file.db.root, base.root)
        <5>1. CASE u.file = "db"
          BY <4>3, <5>1 DEF IsStored
        <5>2. CASE save.what = "db" /\ u.file # "db"
          <6>1. save.phase = "delta"
            BY <4>3, <4>4, <5>2
          <6>2. ~ \E v \in uploads : v.state = "up" /\ v.req = save.req /\ v.file = "db"
            BY <1>4, <2>2, <2>11, <4>2
          <6> QED
            BY <4>1, <4>2, <4>5, <5>2, <6>1, <6>2 DEF Stored
        <5> QED
          BY <5>1, <5>2
      <4>7. save.what = "char" => remote = TRUE /\ sent = doc.char /\ u.file = "char"
        BY <2>11, <4>3, <4>4 DEF IInv, Page, Types
      <4>8. save.what = "char" => Under(Clean(file.char), sent)
        BY <4>3, <4>7 DEF IsStored
      <4>9. Stored'
        BY <1>1, <3>1, <4>1, <4>4, <4>6, <4>8 DEF Stored
      <4>10. Current' /\ Landed' /\ Latest'
        <5>1. Current'
          BY <3>1 DEF Current
        <5>2. Landed'
          BY <1>1, <1>5, <3>1, <4>1 DEF Landed
        <5>3. remote' =>
                \A v \in Fulls("char")' : Newest(v)' =>
                  v.state = "accepted" /\ Clean(v.body.char) = Clean(file.char)
          <6>1. CASE save.what = "db"
            BY <1>1, <1>2, <4>1, <6>1, EndsNewest DEF Latest, Settled, IInv
          <6>2. CASE save.what = "char"
            <7> SUFFICES ASSUME NEW v \in Fulls("char")', Newest(v)'
                         PROVE  v.state = "accepted" /\ Clean(v.body.char) = Clean(file.char)
              OBVIOUS
            <7>1. u \in Fulls("char") /\ w \in Fulls("char")' /\ w.seq <= v.seq
              <8>1. u.ordered = TRUE /\ w.file = "char" /\ w.ordered = TRUE
                BY <1>2, <4>1, <4>7, <6>2 DEF Latest, Ends
              <8> QED
                BY <4>2, <4>7, <6>2, <8>1 DEF Fulls, Newest
            <7>2. PICK o \in Fulls("char") :
                    /\ v.req = o.req /\ v.body = o.body /\ v.seq = o.seq /\ v.file = "char"
                    /\ v.state = "accepted" => v = w \/ o = v
                    /\ v = w => o = u
              BY <1>2, <1>4, <7>1 DEF Fulls, Ends
            <7>3. v.req = save.req
              <8>1. v.req # save.req => o.seq < u.seq
                BY <2>11, <4>1, <4>2, <6>2, <7>1, <7>2 DEF Latest
              <8>2. u.seq <= o.seq /\ u.seq \in Nat /\ o.seq \in Nat
                BY <1>2, <7>1, <7>2 DEF IInv, Types, Uploads, Fulls
              <8> QED
                BY <8>1, <8>2
            <7>4. v.state = "accepted"
              BY <2>2, <2>11, <7>3 DEF Fulls
            <7>5. IsStored(o)
              <8>1. o \in uploads /\ o.req = save.req /\ o.state # "up"
                BY <4>2, <7>2, <7>3, <7>4 DEF Fulls
              <8> QED
                BY <4>1, <4>2, <8>1 DEF Landed
            <7> QED
              BY <4>7, <6>2, <7>2, <7>4, <7>5 DEF IsStored, Fulls
          <6> QED
            BY <4>4, <6>1, <6>2
        <5>4. \A v \in uploads' : v.file = "char" => v.ordered = TRUE
          BY <1>2, <1>4, <4>1 DEF Latest, Ends
        <5> QED
          BY <1>1, <3>1, <5>1, <5>2, <5>3, <5>4 DEF Latest
      <4>11. Cached'
        <5>1. ASSUME inited', ~ Waiting("db")' PROVE Under(data'.root, file'.db.root)
          <6>1. ~ Waiting("db") /\ u.file # "db"
            BY <1>5, <4>2, <5>1
          <6>2. CASE save.what = "char"
            BY <1>1, <4>1, <5>1, <6>1, <6>2 DEF Cached, Settled
          <6>3. CASE save.what = "db"
            <7>1. save.phase = "delta"
              BY <4>3, <4>4, <6>1, <6>3
            <7>2. ~ \E v \in uploads : v.file = "db"
              <8> SUFFICES ASSUME NEW v \in uploads, v.file = "db" PROVE FALSE
                OBVIOUS
              <8>1. v # u /\ v \in uploads' /\ v.state = "accepted"
                BY <1>4, <2>2, <2>11, <4>3, <6>1, <7>1
              <8> QED
                BY <6>1, <8>1 DEF Waiting
            <7> QED
              BY <1>1, <4>1, <4>2, <4>5, <6>3, <7>1, <7>2 DEF Cached
          <6> QED
            BY <4>4, <6>2, <6>3
        <5>2. ASSUME remote', ~ Waiting("char")', data'.char # NoBlock
              PROVE  Clean(data'.char) = Clean(file'.char)
          <6>1. ~ Waiting("char") /\ u.file # "char"
            BY <1>5, <4>2, <5>2
          <6>2. save.what # "char"
            BY <4>7, <6>1
          <6> QED
            BY <1>1, <4>1, <5>2, <6>1, <6>2 DEF Cached, Settled
        <5>3. ASSUME remote', hashes'.char # NoBlock
              PROVE  \/ Clean(data'.char) = Clean(hashes'.char)
                     \/ \E v \in uploads' : Renews(v)'
          <6>1. CASE Clean(data.char) = Clean(hashes.char)
            BY <1>1, <6>1
          <6>2. CASE save.what = "char" /\ Clean(hashes.char) # doc.char
            <7>1. save.phase = "delta" => w.body.char = data.char
              BY <1>2, <4>1, <4>2, <6>2 DEF Cached
            <7>2. save.phase = "full" => Clean(w.body.char) = doc.char
              <8>1. /\ save.body = CharBody(doc.char) /\ doc.char # NoBlock
                    /\ doc.char \in SUBSET CharFields
                BY <2>11, <6>2 DEF IInv, Page, Types
              <8>2. save.phase = "full" => w.body.char = doc.char
                BY <1>2, <4>3, <8>1 DEF CharBody
              <8> QED
                BY <8>1, <8>2, Blocks
            <7>3. w.file = "char" /\ w.state = "accepted" /\ w \in uploads'
              BY <1>2, <4>2, <4>7, <6>2
            <7> QED
              BY <1>1, <4>4, <6>2, <7>1, <7>2, <7>3 DEF Renews
          <6>3. CASE \E v \in uploads : Renews(v)
            BY <1>1, <1>3, <1>4, <6>3 DEF Renews
          <6> QED
            BY <1>1, <4>1, <5>3, <6>1, <6>2, <6>3 DEF Cached
        <5> QED
          BY <3>1, <5>1, <5>2, <5>3 DEF Cached
      <4>12. ASSUME ~ seen.blind, remote PROVE Told'
        <5>1. Told
          BY <3>3, <4>12 DEF IInv
        <5>2. ~ Waiting("char")' => ~ Waiting("char") /\ save.what # "char"
          BY <1>5, <4>2, <4>7, <4>12
        <5> QED
          BY <1>1, <5>1, <5>2 DEF Told, Settled
      <4> QED
        BY <4>9, <4>10, <4>11, <4>12
    <3> QED
      BY <1>1, <1>6, <1>7, <2>7, <2>8, <2>11, <3>1, <3>2, <3>3 DEF IInv, NoTrouble
  <2>12. CASE save.req = n /\ Active /\ seen' = seen /\ Again(R)
    <3>1. /\ Active' /\ Page' /\ save'.what = save.what /\ Mine'.state = "sent"
          /\ ~ AsSent' /\ ~ InService'
          /\ \A v \in uploads : R[v.req].state \in {"serving", "done"}
                                 => reqs'[v.req].state \in {"serving", "done"}
      BY <1>1, <2>3, <2>12, AgainStep
    <3>2. Served'
      BY <1>5, <2>3, <3>1 DEF Served
    <3>3. ASSUME NoTrouble
          PROVE  /\ Stored' /\ Current' /\ Landed' /\ Latest' /\ Cached'
                 /\ ~ seen.blind /\ remote => Told'
      <4>1. Stored /\ Current /\ Landed /\ Latest /\ Cached
        BY <3>3 DEF IInv
      <4>2. Stored'
        BY <1>1, <2>12, <3>1, <4>1 DEF Stored
      <4>3. Current'
        <5>1. \A v \in uploads : Content(v)
          BY <1>3, <2>12, <4>1 DEF Current
        <5>2. \A v \in uploads' : Content(v)'
          BY <1>1, <1>5, <2>12, <3>1, <5>1 DEF Content
        <5> QED
          BY <1>1, <3>1, <5>2 DEF Current
      <4>4. /\ \A f : ~ Waiting(f)' => ~ Waiting(f)
            /\ \A f : Settled(f)' => Settled(f)
            /\ \A v \in uploads : v.state = "accepted" => v \in uploads'
        BY <1>3, <1>4, <1>5, <3>1 DEF Settled
      <4>5. Cached' /\ Landed' /\ Latest'
        <5>1. Cached'
          BY <1>1, <2>12, <3>1, <4>1, <4>4 DEF Cached, Renews
        <5> QED
          BY <1>1, <1>2, <3>1, <3>3, <4>4, <5>1, EndsKept
      <4>6. ~ seen.blind /\ remote => Told'
        BY <1>1, <3>3, <4>4 DEF IInv, Told
      <4> QED
        BY <4>2, <4>3, <4>5, <4>6
    <3> QED
      BY <1>1, <1>6, <1>7, <2>7, <2>8, <2>12, <3>1, <3>2, <3>3 DEF IInv, NoTrouble
  <2>13. CASE /\ save.req = n /\ Active
              /\ reqs' = R /\ save' = Idle /\ seen' = [seen EXCEPT !.failed = TRUE]
    <3>1. seen'.failed = TRUE /\ seen'.blind = seen.blind
      BY <2>6, <2>13 DEF Seens
    <3>2. Page' /\ ~ NoTrouble'
      BY <1>1, <2>13, <3>1, IdleStep DEF NoTrouble
    <3>3. Served'
      BY <1>5, <2>3, <2>13 DEF Served
    <3> QED
      BY <1>6, <1>7, <2>7, <2>8, <3>1, <3>2, <3>3 DEF IInv
  <2> QED
    BY <2>7, <2>10, <2>11, <2>12, <2>13
<1> QED
  BY <1>8, <1>9

-----------------------------------------------------------------------------
(* An upload is processed, and the server restarts.                        *)

\* The last of a settled character's uploads is what its file holds.
LEMMA LastIsStored ==
  ASSUME IInv, NoTrouble, remote, NEW u \in uploads, Process(u), u.file = "char",
         Settled("char"), ~ Waiting("char")'
  PROVE  Clean(u.body.char) = Clean(file.char)
<1>1. u.state = "accepted" /\ uploads' = uploads \ {u} /\ Latest
  BY DEF Process, Processable, IInv
<1>2. Fulls("char") # {}
  BY <1>1 DEF Latest, Fulls
<1>3. PICK m \in Fulls("char") : Newest(m)
  BY <1>2, NewestExists DEF IInv
<1>4. m.state = "accepted" /\ Clean(m.body.char) = Clean(file.char)
  BY <1>1, <1>3 DEF Latest
<1>5. m = u
  BY <1>1, <1>4 DEF Waiting, Fulls
<1> QED
  BY <1>4, <1>5

\* The first of a file's uploads in order leaves the last in order.
LEMMA ProcessLatest ==
  ASSUME IInv, NoTrouble, NEW u \in uploads, Process(u),
         UNCHANGED <<remote, doc, save, file>>, Settled("char")' = Settled("char"),
         InService' = InService
  PROVE  Latest'
<1>1. /\ u.state = "accepted" /\ uploads' = uploads \ {u} /\ Latest
      /\ u.ordered => \A v \in Fulls(u.file) : u.seq <= v.seq
  BY DEF Process, Processable, IInv
<1>2. Fulls("char")' \subseteq Fulls("char")
  BY <1>1 DEF Fulls
<1>3. ASSUME NEW v \in Fulls("char")', Newest(v)' PROVE Newest(v)
  <2>1. v \in Fulls("char") /\ \A x \in Fulls("char") : x.seq \in Nat
    BY <1>2 DEF IInv, Types, Uploads, Fulls
  <2>2. ASSUME NEW x \in Fulls("char") PROVE x.seq <= v.seq
    <3>1. CASE x = u
      BY <1>1, <2>1, <3>1 DEF Fulls
    <3>2. CASE x # u
      BY <1>1, <1>3, <3>2 DEF Newest, Fulls
    <3> QED
      BY <3>1, <3>2
  <2> QED
    BY <2>2 DEF Newest
<1>4. \A v \in uploads' : v.file = "char" => v.ordered = TRUE
  BY <1>1 DEF Latest
<1>5. remote' /\ Settled("char")' =>
        \A v \in Fulls("char")' : Newest(v)' =>
          v.state = "accepted" /\ Clean(v.body.char) = Clean(file'.char)
  BY <1>1, <1>2, <1>3 DEF Latest
<1>6. InService' /\ save'.what = "char" =>
        \A v, w \in Fulls("char")' : v.req = save'.req /\ w.req # save'.req => w.seq < v.seq
  BY <1>1, <1>2 DEF Latest
<1> QED
  BY <1>4, <1>5, <1>6 DEF Latest

LEMMA ProcessIInv == ASSUME IInv, NEW u \in uploads, Process(u) PROVE IInv'
<1> USE DEF cacheVars, pageVars
<1>1. /\ u.state = "accepted" /\ uploads' = uploads \ {u}
      /\ UNCHANGED <<remote, pageVars, save, reqs, raw, file, seen>>
  BY DEF Process, Processable
<1>2. u \in Uploads /\ u.file \in {"db", "char"} /\ u.body \in Bodies
  BY DEF IInv, Types, Uploads
<1>3. /\ Numbered' /\ Page' /\ Active' = Active /\ Mine' = Mine
      /\ AsSent' = AsSent /\ InService' = InService
      /\ \A what : Settled(what)' = Settled(what)
  BY <1>1, SameRequests
<1>4. /\ Served' /\ Counted' /\ NoTrouble' = NoTrouble /\ seen'.blind = seen.blind
      /\ ~ seen.blind => inited
      /\ uploads' \subseteq Uploads
  BY <1>1 DEF IInv, Types, Served, Counted, NoTrouble, Filled
<1>5. ASSUME NoTrouble
      PROVE  /\ Stored' /\ Current' /\ Landed' /\ Latest' /\ Cached
             /\ u.file = "db" => Under(u.body.root, file.db.root)
             /\ u.file = "db" /\ remote /\ u.body.char # NoBlock =>
                  Clean(u.body.char) = Clean(file.char)
             /\ u.file = "db" /\ InService => save.what = "db"
             /\ InService /\ save.phase = "delta" /\ save.what = "char" => uploads' = {}
             /\ u.file = "char" => u.body.char # NoBlock
             /\ ~ (Active /\ Mine.state = "done")
  <2>1. Stored /\ Current /\ Landed /\ Latest /\ Cached
    BY <1>5 DEF IInv
  <2>2. Stored'
    BY <1>1, <1>3, <2>1 DEF Stored, NextChar
  <2>3. Current'
    <3>1. \A v \in uploads' : v \in uploads /\ (Content(v) => Content(v)')
      BY <1>1 DEF Content
    <3> QED
      BY <1>1, <1>3, <2>1, <3>1 DEF Current
  <2>4. Landed'
    <3>1. \A v \in uploads' : v \in uploads /\ (IsStored(v) => IsStored(v)')
      BY <1>1 DEF IsStored
    <3> QED
      BY <1>1, <1>3, <2>1, <3>1 DEF Landed
  <2>5. Latest'
    BY <1>1, <1>3, <1>5, ProcessLatest
  <2>6. /\ u.file = "db" => Under(u.body.root, file.db.root)
        /\ u.file = "db" /\ remote /\ u.body.char # NoBlock =>
             Clean(u.body.char) = Clean(file.char)
        /\ u.file = "char" => u.body.char # NoBlock
    BY <1>1, <2>1 DEF Landed
  <2>7. u.file = "db" /\ InService => save.what = "db"
    BY <2>1 DEF Current, Content, InService
  <2>8. InService /\ save.phase = "delta" /\ save.what = "char" => uploads' = {}
    <3> SUFFICES ASSUME InService, save.phase = "delta", save.what = "char",
                        NEW v \in uploads'
                 PROVE  FALSE
      OBVIOUS
    <3>1. v \in uploads /\ v # u /\ v \in Uploads
      BY <1>1, <1>4
    <3>2. v.file # u.file
      BY <2>1, <3>1 DEF Current
    <3>3. u.file # "db" /\ v.file # "db"
      BY <2>1, <3>1 DEF Current, Content, InService
    <3> QED
      BY <1>2, <3>1, <3>2, <3>3 DEF Uploads
  <2>9. ~ (Active /\ Mine.state = "done")
    BY <2>1 DEF Current
  <2> QED
    BY <2>1, <2>2, <2>3, <2>4, <2>5, <2>6, <2>7, <2>8, <2>9
<1>6. CASE u.file = "db"
  <2> DEFINE changed == u.body.char # NoBlock /\ u.body.char # hashes.char
             tells == inited /\ u.body.root # data.root
  <2>1. /\ inited' = TRUE
        /\ data' = [root |-> u.body.root,
                    char |-> IF u.body.char = NoBlock THEN data.char ELSE u.body.char]
        /\ hashes' = [root |-> u.body.root,
                      char |-> IF u.body.char = NoBlock THEN hashes.char ELSE u.body.char,
                      charType |-> IF u.body.char = NoBlock THEN hashes.charType ELSE "char"]
        /\ shown' = [root |-> IF tells THEN u.body.root ELSE shown.root,
                     char |-> IF inited /\ changed THEN u.body.char ELSE shown.char]
    BY <1>6 DEF Process, ProcessDb
  <2> HIDE DEF tells
  <2>2. Types'
    <3>1. data' \in [root : Maybe, char : Maybe] /\ shown' \in [root : Maybe, char : Maybe]
      BY <1>2, <2>1 DEF IInv, Types, Bodies
    <3>2. hashes' \in [root : Maybe, char : Maybe, charType : {"none", "char", "ptr"}]
      BY <1>2, <2>1 DEF IInv, Types, Bodies
    <3> QED
      BY <1>1, <1>4, <2>1, <3>1, <3>2 DEF IInv, Types
  <2>3. Waiting("char")' = Waiting("char")
    BY <1>1, <1>6 DEF Waiting
  <2>4. NoTrouble => Cached'
    <3> SUFFICES ASSUME NoTrouble PROVE Cached'
      OBVIOUS
    <3>1. Under(data'.root, file'.db.root)
      BY <1>1, <1>5, <1>6, <2>1
    <3>2. ~ (InService' /\ save'.what = "char")
      BY <1>1, <1>3, <1>5, <1>6
    <3>3. Settled("char")' /\ remote' /\ ~ Waiting("char")' /\ data'.char # NoBlock =>
            Clean(data'.char) = Clean(file'.char)
      BY <1>1, <1>3, <1>5, <1>6, <2>1, <2>3 DEF Cached
    <3>4. remote' /\ hashes'.char # NoBlock =>
            \/ Clean(data'.char) = Clean(hashes'.char)
            \/ Active' /\ ~ AsSent' /\ save'.what = "char" /\ Clean(hashes'.char) # doc'.char
            \/ \E v \in uploads' : Renews(v)'
      <4>1. CASE u.body.char = NoBlock
        <5>1. data'.char = data.char /\ hashes'.char = hashes.char
          BY <2>1, <4>1
        <5>2. \A v \in uploads : Renews(v) => v \in uploads' /\ Renews(v)'
          BY <1>1, <1>6, <5>1 DEF Renews
        <5> QED
          BY <1>1, <1>3, <1>5, <5>1, <5>2 DEF Cached
      <4>2. CASE u.body.char # NoBlock
        BY <2>1, <4>2
      <4> QED
        BY <4>1, <4>2
    <3> QED
      BY <2>1, <3>1, <3>2, <3>3, <3>4 DEF Cached
  <2>5. NoTrouble /\ ~ seen.blind /\ remote => Told'
    <3> SUFFICES ASSUME NoTrouble, ~ seen.blind, remote PROVE Told'
      OBVIOUS
    <3>1. Told /\ inited
      BY <1>4 DEF IInv
    <3>2. u.body.char # NoBlock => Clean(u.body.char) = Clean(file.char)
      BY <1>5, <1>6
    <3> QED
      BY <1>1, <1>3, <2>1, <2>3, <3>1, <3>2 DEF Told
  <2>6. Filled'
    BY <2>1 DEF Filled
  <2> QED
    BY <1>1, <1>3, <1>4, <1>5, <2>2, <2>4, <2>5, <2>6 DEF IInv
<1>7. CASE u.file = "char"
  <2> DEFINE same == inited /\ hashes.char = u.body.char
             tells == inited /\ ~ same
  <2>1. /\ data' = IF same THEN data ELSE [data EXCEPT !.char = u.body.char]
        /\ hashes' = IF same THEN hashes
                     ELSE [hashes EXCEPT !.char = u.body.char, !.charType = "char"]
        /\ shown' = IF tells THEN [shown EXCEPT !.char = u.body.char] ELSE shown
        /\ UNCHANGED inited
    <3>1. shown' = [shown EXCEPT !.char = IF tells THEN u.body.char ELSE @]
      BY <1>7 DEF Process, ProcessChar
    <3>2. shown' = IF tells THEN [shown EXCEPT !.char = u.body.char] ELSE shown
      <4> HIDE DEF tells
      <4> QED
        BY <3>1 DEF IInv, Types
    <3> QED
      BY <1>7, <3>2 DEF Process, ProcessChar
  <2>2. /\ data'.root = data.root
        /\ same => data'.char = data.char /\ hashes'.char = hashes.char
        /\ ~ same => data'.char = u.body.char /\ hashes'.char = u.body.char
        /\ shown'.char = IF tells THEN u.body.char ELSE shown.char
    <3> HIDE DEF same, tells
    <3> QED
      BY <2>1 DEF IInv, Types
  <2>3. Types'
    <3> HIDE DEF same, tells
    <3>1. u.body.char \in Maybe
      BY <1>2 DEF Bodies
    <3>2. data' \in [root : Maybe, char : Maybe] /\ shown' \in [root : Maybe, char : Maybe]
      BY <2>1, <3>1 DEF IInv, Types
    <3>3. hashes' \in [root : Maybe, char : Maybe, charType : {"none", "char", "ptr"}]
      BY <2>1, <3>1 DEF IInv, Types
    <3> QED
      BY <1>1, <1>4, <2>1, <3>2, <3>3 DEF IInv, Types
  <2>4. Waiting("db")' = Waiting("db")
    BY <1>1, <1>7 DEF Waiting
  <2>5. ASSUME NoTrouble, remote, Settled("char"), ~ Waiting("char")'
        PROVE  Clean(u.body.char) = Clean(file.char)
    BY <1>7, <2>5, LastIsStored
  <2>6. ASSUME NoTrouble, remote, same
        PROVE  \/ Clean(data.char) = Clean(hashes.char)
               \/ Active /\ ~ AsSent /\ save.what = "char" /\ Clean(hashes.char) # doc.char
               \/ \E v \in uploads' : Renews(v)
    <3>1. hashes.char = u.body.char /\ u.body.char # NoBlock /\ Cached
      BY <1>5, <1>7, <2>6
    <3>2. Renews(u) => Clean(data.char) = Clean(hashes.char)
      BY <3>1 DEF Renews
    <3> QED
      BY <1>1, <2>6, <3>1, <3>2 DEF Cached
  <2>7. NoTrouble => Cached'
    <3> SUFFICES ASSUME NoTrouble PROVE Cached'
      OBVIOUS
    <3>1. Settled("db")' /\ inited' /\ ~ Waiting("db")' => Under(data'.root, file'.db.root)
      BY <1>1, <1>3, <1>5, <2>1, <2>2, <2>4 DEF Cached
    <3>2. InService' /\ save'.phase = "delta" =>
            /\ inited'
            /\ save'.what = "db" => \/ Mine'.bad \/ Under(data'.root, file'.db.root)
                                    \/ \E v \in uploads' : v.file = "db"
      <4>1. \A v \in uploads : v.file = "db" => v \in uploads'
        BY <1>1, <1>7
      <4> QED
        BY <1>1, <1>3, <1>5, <2>1, <2>2, <4>1 DEF Cached
    <3>3. InService' /\ save'.phase = "delta" /\ save'.what = "char" => uploads' = {}
      BY <1>1, <1>3, <1>5
    <3>4. ASSUME Settled("char"), remote, ~ Waiting("char")'
          PROVE  Clean(data'.char) = Clean(file.char)
      <4>1. CASE same
        <5>1. ~ (Active /\ ~ AsSent /\ save.what = "char")
          BY <1>5, <3>4 DEF Settled
        <5>2. ~ \E v \in uploads' : Renews(v)
          BY <3>4 DEF Renews, Waiting
        <5>3. Clean(data.char) = Clean(hashes.char)
          <6> HIDE DEF same
          <6> QED
            BY <2>6, <3>4, <4>1, <5>1, <5>2
        <5>4. hashes.char = u.body.char
          BY <4>1
        <5> QED
          BY <2>2, <2>5, <3>4, <4>1, <5>3, <5>4
      <4>2. CASE ~ same
        BY <2>2, <2>5, <3>4, <4>2
      <4> QED
        BY <4>1, <4>2
    <3>5. remote' /\ hashes'.char # NoBlock =>
            \/ Clean(data'.char) = Clean(hashes'.char)
            \/ Active' /\ ~ AsSent' /\ save'.what = "char" /\ Clean(hashes'.char) # doc'.char
            \/ \E v \in uploads' : Renews(v)'
      <4>1. CASE ~ same
        BY <2>2, <4>1
      <4>2. CASE same
        <5> HIDE DEF same
        <5>1. data'.char = data.char /\ hashes'.char = hashes.char
          BY <2>2, <4>2
        <5>2. \A v \in uploads' : Renews(v) => Renews(v)'
          BY <5>1 DEF Renews
        <5> QED
          BY <1>1, <1>3, <2>6, <4>2, <5>1, <5>2
      <4> QED
        BY <4>1, <4>2
    <3> QED
      BY <1>1, <1>3, <3>1, <3>2, <3>3, <3>4, <3>5 DEF Cached
  <2>8. NoTrouble /\ ~ seen.blind /\ remote => Told'
    <3> SUFFICES ASSUME NoTrouble, ~ seen.blind, remote PROVE Told'
      OBVIOUS
    <3>1. Told /\ inited /\ u.body.char # NoBlock
      BY <1>4, <1>5, <1>7 DEF IInv
    <3>2. /\ Clean(shown'.char) = Clean(hashes'.char)
          /\ Clean(shown'.char) = Clean(u.body.char)
      <4>1. CASE same
        BY <2>2, <3>1, <4>1 DEF Told
      <4>2. CASE ~ same
        BY <2>2, <3>1, <4>2
      <4> QED
        BY <4>1, <4>2
    <3> QED
      BY <1>1, <1>3, <2>1, <2>5, <3>1, <3>2 DEF Told
  <2>9. Filled'
    BY <1>1, <2>1 DEF IInv, Filled
  <2> QED
    BY <1>1, <1>3, <1>4, <1>5, <2>3, <2>7, <2>8, <2>9 DEF IInv
<1> QED
  BY <1>2, <1>6, <1>7

LEMMA RestartIInv == ASSUME IInv, Restart PROVE IInv'
<1> USE DEF cacheVars, pageVars
<1>1. /\ inited' = FALSE /\ raw' = NoBlock /\ uploads' = {}
      /\ data' = [root |-> NoBlock, char |-> NoBlock]
      /\ hashes' = [root |-> NoBlock, char |-> NoBlock, charType |-> "none"]
      /\ reqs' = [k \in Requests |-> IF reqs[k].state = "serving" THEN Done ELSE reqs[k]]
      /\ shown' = [root |-> file.db.root,
                   char |-> IF remote THEN file.char ELSE file.db.char]
      /\ UNCHANGED <<remote, pageVars, save, file>>
  BY DEF Restart
<1>2. /\ seen' \in Seens /\ seen'.saves = seen.saves /\ NoTrouble' = NoTrouble
  <2>1. seen.faults + 1 \in Nat /\ seen \in Seens
    BY DEF IInv, Types, Seens
  <2>2. seen' = [seen EXCEPT !.faults = seen.faults + 1]
    BY DEF Restart
  <2> QED
    BY <2>1, <2>2 DEF Seens, NoTrouble
<1>3. Types'
  <2>1. NoBlock \in Maybe
    BY DEF Maybe
  <2>2. shown' \in [root : Maybe, char : Maybe]
    BY <1>1 DEF IInv, Types, Bodies
  <2>3. reqs' \in [Requests -> Messages]
    BY <1>1, MessageKinds DEF IInv, Types
  <2> QED
    BY <1>1, <1>2, <2>1, <2>2, <2>3 DEF IInv, Types
<1>4. Numbered'
  <2>1. \A k \in Requests : (reqs'[k] = NoRequest) <=> (reqs[k] = NoRequest)
    BY <1>1, MessageKinds DEF IInv, Types
  <2> QED
    BY <1>1, <1>2, <2>1 DEF IInv, Numbered, UsedUpTo, ToCome
<1>5. /\ Active' = Active
      /\ Active => /\ Mine' = IF Mine.state = "serving" THEN Done ELSE Mine
                   /\ Mine'.state \in {"sent", "done"}
  <2>1. Active => save.req \in Requests /\ Mine.state \in {"sent", "serving", "done"}
    BY DEF IInv, Page
  <2> QED
    BY <1>1, <2>1, MessageKinds DEF Mine, Active
<1>6. ~ InService' /\ (AsSent' => AsSent /\ Mine' = Mine)
  BY <1>1, <1>5, MessageKinds DEF InService, AsSent
<1>7. Page'
  <2>1. DbBody' = DbBody
    BY <1>1 DEF DbBody
  <2>2. save.phase \in {"delta", "full"} => Active
    BY DEF Active
  <2> QED
    BY <1>1, <1>5, <1>6, <2>1, <2>2, MessageKinds DEF IInv, Page
<1>8. Served' /\ Counted' /\ Filled'
  BY <1>1 DEF Served, Counted, Filled
<1>9. NoTrouble => Stored' /\ Current' /\ Landed' /\ Latest'
  <2>1. AsSent' => NextChar' = NextChar
    BY <1>1, <1>6 DEF NextChar
  <2>2. NoTrouble => Stored'
    BY <1>1, <1>5, <1>6, <2>1 DEF IInv, Stored
  <2>3. Current' /\ Landed' /\ Latest'
    BY <1>1, <1>6 DEF Current, Landed, Latest, Fulls
  <2> QED
    BY <2>2, <2>3
<1>10. Cached'
  BY <1>1, <1>6 DEF Cached
<1>11. remote => Told'
  BY <1>1 DEF Told
<1> QED
  BY <1>1, <1>2, <1>3, <1>4, <1>7, <1>8, <1>9, <1>10, <1>11 DEF IInv

LEMMA BootFillIInv == ASSUME IInv, BootFill PROVE IInv'
<1> USE DEF cacheVars, pageVars
<1> DEFINE f == file.db
           differs == remote /\ f.char # NoBlock /\ Clean(f.char) # Clean(file.char)
           old == seen.old \/ differs
<1>1. /\ ~ inited /\ inited' = TRUE /\ raw' = f.ptr
      /\ data' = [root |-> f.root, char |-> IF f.char = NoBlock THEN data.char ELSE f.char]
      /\ hashes' = [root |-> f.root,
                    char |-> IF f.char = NoBlock THEN hashes.char ELSE f.char,
                    charType |-> IF f.char = NoBlock THEN hashes.charType ELSE "char"]
      /\ seen' = [seen EXCEPT !.old = old]
      /\ UNCHANGED <<remote, pageVars, save, reqs, uploads, file, shown>>
  BY DEF BootFill
<1>2. /\ seen' \in Seens /\ seen'.saves = seen.saves /\ seen'.blind = seen.blind
      /\ NoTrouble' => NoTrouble /\ ~ differs
  <2>1. old \in BOOLEAN /\ seen \in Seens /\ (~ old => ~ seen.old /\ ~ differs)
    BY DEF IInv, Types, Seens
  <2> HIDE DEF old, differs
  <2> QED
    BY <1>1, <2>1 DEF Seens, NoTrouble
<1>3. /\ Numbered' /\ Page' /\ Active' = Active /\ Mine' = Mine
      /\ AsSent' = AsSent /\ InService' = InService
      /\ \A what : Settled(what)' = Settled(what)
  BY <1>1, <1>2, SameRequests
<1>4. Types'
  <2>1. f \in Bodies
    BY DEF IInv, Types
  <2>2. /\ data' \in [root : Maybe, char : Maybe] /\ raw' \in Maybe
        /\ hashes' \in [root : Maybe, char : Maybe, charType : {"none", "char", "ptr"}]
    BY <1>1, <2>1 DEF IInv, Types, Bodies
  <2> QED
    BY <1>1, <1>2, <2>2 DEF IInv, Types
<1>5. Served' /\ Counted' /\ Filled'
  BY <1>1 DEF IInv, Served, Counted, Filled
<1>6. \A x : Waiting(x)' = Waiting(x)
  BY <1>1 DEF Waiting
<1>7. ASSUME NoTrouble'
      PROVE  /\ Stored' /\ Current' /\ Landed' /\ Latest' /\ Cached'
             /\ ~ seen'.blind /\ remote' => Told'
  <2>1. NoTrouble /\ ~ differs /\ Stored /\ Current /\ Landed /\ Latest /\ Cached
    BY <1>2, <1>7 DEF IInv
  <2>2. Stored' /\ Current' /\ Landed' /\ Latest'
    BY <1>1, <1>3, <2>1
       DEF Stored, NextChar, Current, Content, Landed, IsStored, Latest, Newest, Fulls
  <2>3. remote /\ f.char # NoBlock => Clean(f.char) = Clean(file.char)
    BY <2>1
  <2> HIDE DEF differs
  <2>4. Cached'
    <3>1. ~ (InService /\ save.phase = "delta")
      BY <1>1, <2>1 DEF Cached
    <3>2. Under(data'.root, file'.db.root)
      BY <1>1, UnderOrder
    <3>3. CASE f.char = NoBlock
      <4>1. data'.char = data.char /\ hashes'.char = hashes.char
        BY <1>1, <3>3
      <4>2. \A v \in uploads : Renews(v) => Renews(v)'
        BY <4>1 DEF Renews
      <4> QED
        BY <1>1, <1>3, <1>6, <2>1, <3>1, <3>2, <4>1, <4>2 DEF Cached
    <3>4. CASE f.char # NoBlock
      <4>1. data'.char = f.char /\ hashes'.char = f.char
        BY <1>1, <3>4
      <4> QED
        BY <1>1, <1>3, <2>3, <3>1, <3>2, <3>4, <4>1 DEF Cached
    <3> QED
      BY <3>3, <3>4
  <2>5. ~ seen'.blind /\ remote' => Told'
    <3> SUFFICES ASSUME ~ seen.blind, remote PROVE Told'
      BY <1>1, <1>2
    <3>1. Told
      BY <2>1 DEF IInv
    <3> QED
      BY <1>1, <1>3, <1>6, <2>3, <3>1 DEF Told
  <2> QED
    BY <2>2, <2>4, <2>5
<1> QED
  BY <1>3, <1>4, <1>5, <1>7 DEF IInv

-----------------------------------------------------------------------------
(* All steps.                                                              *)

LEMMA NextIInv == IInv /\ [Next]_vars => IInv'
<1> SUFFICES ASSUME IInv, [Next]_vars PROVE IInv'
  OBVIOUS
<1>1. ASSUME NEW b \in {"root", "char"}, NEW k \in RootFields \cup CharFields,
             b = "root" => k \in RootFields, b = "char" => k \in CharFields, Edit(b, k)
      PROVE  IInv'
  <2>1. doc' \in [root : SUBSET RootFields, char : (SUBSET CharFields) \cup {NoBlock}]
    BY <1>1 DEF Edit, IInv, Types
  <2> QED
    BY <1>1, <2>1, EditIInv DEF Edit, Active
<1>2. CASE AddCharacter
  <2>1. doc' \in [root : SUBSET RootFields, char : (SUBSET CharFields) \cup {NoBlock}]
    BY <1>2 DEF AddCharacter, IInv, Types
  <2> QED
    BY <1>2, <2>1, EditIInv DEF AddCharacter, Active
<1>3. CASE SaveDb
  BY <1>3, SaveDbIInv
<1>4. CASE SaveChar
  BY <1>4, SaveCharIInv
<1>5. CASE GiveUp
  BY <1>5, GiveUpIInv
<1>6. ASSUME NEW n \in Requests, Lose(n) PROVE IInv'
  BY <1>6, LoseIInv
<1>7. ASSUME NEW n \in Requests, Serve(n) PROVE IInv'
  <2>1. CASE ReceiveFull(n)
    BY <1>7, <2>1, ReceiveFullIInv DEF Serve
  <2>2. CASE ReceiveDelta(n)
    BY <1>7, <2>2, ReceiveDeltaIInv DEF Serve
  <2>3. ASSUME NEW f \in BOOLEAN, RefuseDelta(n, f) PROVE IInv'
    BY <2>3, RefuseDeltaIInv
  <2> QED
    BY <1>7, <2>1, <2>2, <2>3 DEF Serve
<1>8. ASSUME NEW u \in uploads, Finish(u) PROVE IInv'
  <2>1. CASE UploadLands(u)
    BY <2>1, LandsIInv
  <2>2. ASSUME NEW how \in {"ok", "rejected", "error"}, UploadEnds(u, how) PROVE IInv'
    BY <2>2, EndsIInv
  <2> QED
    BY <1>8, <2>1, <2>2 DEF Finish
<1>9. ASSUME NEW u \in uploads, Process(u) PROVE IInv'
  BY <1>9, ProcessIInv
<1>10. CASE Restart
  BY <1>10, RestartIInv
<1>11. CASE BootFill
  BY <1>11, BootFillIInv
<1>12. CASE UNCHANGED vars
  <2>1. UNCHANGED <<remote, doc, base, sent, save, reqs, inited, data, hashes, raw,
                    uploads, file, shown, seen>>
    BY <1>12 DEF vars
  <2>2. Types' /\ Served' /\ Counted' /\ Page' /\ Filled'
    BY <2>1 DEF IInv, Types, Served, Counted, Page, Filled, Mine, AsSent, Active, DbBody
  <2>3. Numbered'
    BY <2>1 DEF IInv, Numbered, UsedUpTo, ToCome
  <2>4. /\ NoTrouble' = NoTrouble /\ Stored' = Stored /\ Current' = Current
        /\ Landed' = Landed /\ Latest' = Latest
    <3>1. /\ AsSent' = AsSent /\ Active' = Active /\ InService' = InService
          /\ Mine' = Mine /\ NextChar' = NextChar /\ Settled("char")' = Settled("char")
      BY <2>1 DEF Mine, AsSent, Active, InService, NextChar, Settled
    <3>2. \A u : /\ Content(u)' = Content(u) /\ IsStored(u)' = IsStored(u)
                 /\ Newest(u)' = Newest(u)
      BY <2>1 DEF Content, IsStored, Newest, Fulls
    <3> QED
      BY <2>1, <3>1, <3>2 DEF NoTrouble, Stored, Current, Landed, Latest, Fulls
  <2>5. Cached' = Cached /\ Told' = Told
    BY <2>1 DEF Cached, Renews, Told, Waiting, Settled, Mine, AsSent, Active, InService
  <2> QED
    BY <2>1, <2>2, <2>3, <2>4, <2>5 DEF IInv
<1> QED
  BY <1>1, <1>2, <1>3, <1>4, <1>5, <1>6, <1>7, <1>8, <1>9, <1>10, <1>11, <1>12 DEF Next

\* The parts of IInv hold together in every state.
THEOREM Inductive == Spec => []IInv
BY InitIInv, NextIInv, PTL DEF Spec

-----------------------------------------------------------------------------
(* What the runs check, for every bound.                                   *)

\* Once nothing is under way, neither block is being saved.
LEMMA QuietIsSettled == ASSUME IInv, Quiet PROVE \A f : Settled(f) /\ ~ Waiting(f)
<1>1. Active => Mine.state = "done"
  BY DEF IInv, Page, Quiet, Mine
<1> QED
  BY <1>1 DEF Settled, Waiting, Quiet

\* Whatever the page edits and saves, and whichever requests are lost, late or
\* refused, blocks stay blocks and only requests the page sent are served.
THEOREM TypeCorrect == Spec => []TypeOK
<1>1. IInv => TypeOK
  BY DEF IInv, Types, Served, TypeOK, Uploads, Saves
<1> QED
  BY <1>1, Inductive, PTL

\* When RisuAI has its answer, the upstream's files hold what the page starts
\* its next delta from (deltaDb.ts), and the character that the page will not
\* send again, but for null fields, which a delta deletes: no order of retries, refusals and restarts breaks this while
\* every save ended well, no request outlived its save, and no restart read an
\* old copy of the character.
THEOREM DeltasStartFromTheFile == Spec => []BaselineIsStored
<1>1. IInv => BaselineIsStored
  <2>1. \A a, b : Under(a, b) => StoredOf(a, b)
    BY DEF Under, StoredOf
  <2> QED
    BY <2>1 DEF IInv, BaselineIsStored, Stored, Active
<1> QED
  BY <1>1, Inductive, PTL

\* When nothing is under way, the cache that the next delta is applied to
\* (handleDeltaWrite) is what the files hold: the character exactly, the root
\* block but for null fields.
THEOREM CacheFollowsTheFile == Spec => []CacheIsTheFile
<1>1. IInv => CacheIsTheFile
  <2>1. \A a, b : Under(a, b) => StoredOf(a, b)
    BY DEF Under, StoredOf
  <2> QED
    BY <2>1, QuietIsSettled DEF IInv, CacheIsTheFile, Cached
<1> QED
  BY <1>1, Inductive, PTL

\* When nothing is under way, the other pages have been told of the character
\* as it is stored, though the comparison that decides on it uses hashes of
\* blocks that deltas have replaced.
THEOREM CharactersAreTold == Spec => []CharacterIsTold
<1>1. IInv => CharacterIsTold
  BY QuietIsSettled DEF IInv, CharacterIsTold, Told
<1> QED
  BY <1>1, Inductive, PTL
=============================================================================
