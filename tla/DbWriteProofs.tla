--------------------------- MODULE DbWriteProofs ---------------------------
(***************************************************************************)
(* Proofs about DbWrite, for all sets of clients, characters and keys, any *)
(* number of saves and of connections that fail.  That the server's copy   *)
(* follows the file, while the order is kept, rests on what is under way:  *)
(* only the last write may be; once it is stored it is the file, and until *)
(* then the file is the last accepted write, or, when none waits, the      *)
(* server's copy or the answer of the read at start that will become it.   *)
(* The two statements about deletions are about one step, in which only    *)
(* processDbWrite takes an accepted write out of the queue.                *)
(***************************************************************************)
EXTENDS DbWrite, SequenceTheorems, TLAPS

Statuses == {"sent", "stored", "accepted", "skipped"}
Writes == [sender : Clients, root : Roots, status : Statuses]
Copies == Roots \cup {NoRoot}

Types ==
  /\ TypeOK
  /\ inbox \in Seq(Writes)
  /\ saved \in [Clients -> Copies]
  /\ pending \in [Clients -> SUBSET Keys]
  /\ saves \in 0 .. MaxSaves
  /\ Len(inbox) <= saves

\* While the order may be right nothing is at work behind the last write.
OnlyLastUnderWay ==
  order # "lost" =>
    /\ strays = {}
    /\ \A i \in 1 .. Len(inbox) : UnderWay(inbox[i]) => i = Len(inbox)

LastIs(status) == inbox # <<>> /\ inbox[Len(inbox)].status = status

\* What the upstream stored last is the file.
StoredIsFile ==
  order # "lost" /\ LastIs("stored") => inbox[Len(inbox)].root = file

IsAccepted(i) == inbox[i].status = "accepted"

\* The last accepted write is the file.
NewestIsFile ==
  \A i \in 1 .. Len(inbox) :
    IsAccepted(i) /\ (\A j \in i + 1 .. Len(inbox) : ~ IsAccepted(j)) =>
      inbox[i].root = file

\* When none waits the server's copy is, or the answer that will become it.
CopyIsFile ==
  (\A i \in 1 .. Len(inbox) : ~ IsAccepted(i)) =>
    /\ root # NoRoot /\ ~ overtaken => root = file
    /\ root = NoRoot /\ snapshot # NoRoot => snapshot = file

KeptIsFile ==
  order = "kept" /\ ~ LastIs("stored") => NewestIsFile /\ CopyIsFile

\* Only a page that has loaded the file is registered, told of keys, or saves.
LoadedFirst ==
  /\ \A c \in Clients : link[c] = "open" \/ pending[c] # {} => db[c] # NoRoot
  /\ \A c \in Clients : db[c] # NoRoot => saved[c] # NoRoot
  /\ \A i \in 1 .. Len(inbox) : db[inbox[i].sender] # NoRoot

Upstream == OnlyLastUnderWay /\ StoredIsFile /\ KeptIsFile

IInv == Types /\ LoadedFirst /\ Upstream

-----------------------------------------------------------------------------
LEMMA InitIInv == Init => IInv
<1> SUFFICES ASSUME Init PROVE IInv
  OBVIOUS
<1>1. FirstRoot \in Roots
  BY DEF FirstRoot, Roots, Values
<1>2. inbox \in Seq(Writes) /\ Len(inbox) = 0
  BY DEF Init
<1>3. Types
  <2>1. {booted, overtaken} \subseteq BOOLEAN
    BY Zenon DEF Init
  <2> QED
    BY <1>1, <1>2, <2>1, MaxSavesAssumption DEF Init, Types, TypeOK, Copies
<1>4. LoadedFirst
  BY <1>2 DEF Init, LoadedFirst
<1>5. Upstream
  BY <1>2 DEF Init, Upstream, OnlyLastUnderWay, StoredIsFile, KeptIsFile, LastIs,
              NewestIsFile, CopyIsFile
<1> QED
  BY <1>3, <1>4, <1>5 DEF IInv

\* Pages and connections: what the invariant says of the file is not touched.
LEMMA QuietIInv ==
  ASSUME IInv, Types', LoadedFirst', UNCHANGED <<upstreamVars, root, bootVars>>
  PROVE  IInv'
BY DEF IInv, upstreamVars, bootVars, Upstream, OnlyLastUnderWay, StoredIsFile,
       KeptIsFile, LastIs, NewestIsFile, CopyIsFile, IsAccepted, UnderWay

LEMMA KeysTaken ==
  ASSUME NEW r \in Roots, NEW t \in Roots, NEW S \in SUBSET Keys
  PROVE  [r EXCEPT !.keys = [k \in DOMAIN @ |-> IF k \in S THEN t.keys[k] ELSE @[k]]]
           \in Roots
<1>1. [k \in DOMAIN r.keys |-> IF k \in S THEN t.keys[k] ELSE r.keys[k]]
        \in [Keys \cup Ignored -> Values]
  BY DEF Roots
<1> QED
  BY <1>1 DEF Roots

\* A page that changes its own document, or what it has yet to apply.
LEMMA DocIInv ==
  ASSUME IInv, NEW c \in Clients, NEW d \in Roots, db' = [db EXCEPT ![c] = d],
         \/ UNCHANGED pending
         \/ pending' = [pending EXCEPT ![c] = {}],
         \/ UNCHANGED saved /\ db[c] # NoRoot
         \/ saved' = [saved EXCEPT ![c] = d],
         UNCHANGED <<upstreamVars, serverVars, bootVars, saves>>
  PROVE  IInv'
<1> USE DEF IInv, upstreamVars, serverVars, bootVars
<1>1. db' \in [Clients -> Copies]
  BY DEF Types, TypeOK, Copies
<1>2. pending' \in [Clients -> SUBSET Keys]
  BY DEF Types
<1>3. Types'
  <2>1. saved' \in [Clients -> Copies]
    BY DEF Types, Copies
  <2> QED
    BY <1>1, <1>2, <2>1 DEF Types, TypeOK, Copies
<1>4. LoadedFirst'
  <2>1. \A e \in Clients : e # c => db'[e] = db[e] /\ saved'[e] = saved[e]
                                     /\ pending'[e] = pending[e]
    BY DEF Types, TypeOK
  <2>2. db'[c] = d /\ d # NoRoot
    BY NoRootAssumption DEF Types, TypeOK
  <2>3. saved'[c] # NoRoot
    BY <2>2 DEF Types, LoadedFirst
  <2>4. \A i \in 1 .. Len(inbox) : inbox[i].sender \in Clients
    <3>1. \A i \in 1 .. Len(inbox) : inbox[i] \in Writes
      BY ElementOfSeq DEF Types
    <3> QED
      BY <3>1 DEF Writes
  <2> QED
    BY <2>1, <2>2, <2>3, <2>4 DEF LoadedFirst
<1> QED
  BY <1>3, <1>4, QuietIInv

LEMMA PageIInv ==
  ASSUME IInv, NEW c \in Clients,
         \/ Load(c) \/ ApplyKeys(c)
  PROVE  IInv'
<1>1. /\ file \in Roots /\ saved \in [Clients -> Copies]
      /\ db[c] # NoRoot => db[c] \in Roots
      /\ root # NoRoot => root \in Roots
      /\ pending[c] \in SUBSET Keys
      /\ pending[c] # {} => db[c] # NoRoot
  BY DEF IInv, Types, TypeOK, LoadedFirst
<1>2. CASE Load(c)
  BY <1>1, <1>2, DocIInv DEF Load
<1>3. CASE ApplyKeys(c)
  <2> DEFINE d == [db[c] EXCEPT !.keys = [k \in DOMAIN @ |->
                     IF k \in pending[c] THEN root.keys[k] ELSE @[k]]]
  <2>1. db' = [db EXCEPT ![c] = d]
    BY <1>3 DEF ApplyKeys
  <2>2. d \in Roots
    BY <1>1, <1>3, KeysTaken DEF ApplyKeys
  <2> QED
    BY <1>1, <1>3, <2>1, <2>2, DocIInv DEF ApplyKeys
<1> QED
  BY <1>2, <1>3

-----------------------------------------------------------------------------
(* The way of a write to the upstream and back                              *)

LEMMA Entries ==
  ASSUME inbox \in Seq(Writes), NEW i \in 1 .. Len(inbox)
  PROVE  /\ inbox[i] \in Writes
         /\ inbox[i].sender \in Clients /\ inbox[i].root \in Roots
         /\ inbox[i].status \in Statuses
<1>1. inbox[i] \in Writes
  BY ElementOfSeq
<1> QED
  BY <1>1 DEF Writes

LEMMA SaveIInv ==
  ASSUME IInv, NEW c \in Clients, NEW d \in Roots, Save(c, d)
  PROVE  IInv'
<1> DEFINE w == [sender |-> c, root |-> d, status |-> "sent"]
<1> USE DEF serverVars, bootVars
<1>1. /\ w \in Writes
      /\ inbox \in Seq(Writes) /\ Len(inbox) <= saves /\ saves \in 0 .. MaxSaves
  BY DEF IInv, Types, Writes, Statuses
<1>2. /\ inbox' \in Seq(Writes)
      /\ Len(inbox') = Len(inbox) + 1
      /\ inbox' # <<>> /\ inbox'[Len(inbox')] = w
      /\ \A i \in 1 .. Len(inbox) : inbox'[i] = inbox[i]
  BY <1>1 DEF Save
<1>3. Types'
  <2>1. db' \in [Clients -> Copies]
    BY DEF Save, IInv, Types, TypeOK, Copies
  <2>2. \A i \in 1 .. Len(inbox') : inbox'[i] \in Writes
    BY <1>2, ElementOfSeq
  <2>3. order' \in {"kept", "lost", "mending"}
    BY DEF Save
  <2> QED
    BY <1>1, <1>2, <2>1, <2>2, <2>3, MaxSavesAssumption
       DEF Save, IInv, Types, TypeOK, Copies, Writes, Statuses
<1>4. LoadedFirst'
  <2>1. \A e \in Clients : db[e] # NoRoot => db'[e] # NoRoot
    BY NoRootAssumption DEF Save, IInv, Types, TypeOK
  <2>2. \A e \in Clients : db'[e] # NoRoot => db[e] # NoRoot
    BY DEF Save, IInv, Types, TypeOK
  <2>3. \A i \in 1 .. Len(inbox') :
              inbox'[i] = w \/ (i \in 1 .. Len(inbox) /\ inbox'[i] = inbox[i])
    BY <1>1, <1>2 DEF Save
  <2>4. \A i \in 1 .. Len(inbox) : inbox[i].sender \in Clients
    BY <1>1, Entries
  <2>5. db[c] # NoRoot
    BY DEF Save
  <2> QED
    BY <2>1, <2>2, <2>3, <2>4, <2>5 DEF Save, IInv, LoadedFirst
<1>5. ~ LastIs("stored")'
  BY <1>2 DEF LastIs
<1>6. OnlyLastUnderWay'
  <2> SUFFICES ASSUME order' # "lost"
               PROVE  /\ strays' = {}
                      /\ \A i \in 1 .. Len(inbox') : UnderWay(inbox'[i]) => i = Len(inbox')
    BY DEF OnlyLastUnderWay, UnderWay
  <2>1. Calm /\ strays' = strays
    BY DEF Save
  <2> QED
    BY <1>1, <1>2, <2>1 DEF Calm, UnderWay
<1>7. KeptIsFile'
  <2> SUFFICES ASSUME order' = "kept" PROVE NewestIsFile' /\ CopyIsFile'
    BY DEF KeptIsFile
  <2>1. Calm /\ order = "kept" /\ UNCHANGED <<file, root, bootVars>>
    BY DEF Save
  <2>2. ~ LastIs("stored")
    BY <1>1, <2>1 DEF LastIs, Calm, UnderWay
  <2>3. NewestIsFile /\ CopyIsFile
    BY <2>1, <2>2 DEF IInv, Upstream, KeptIsFile
  <2>4. \A i \in 1 .. Len(inbox') : IsAccepted(i)' => i # Len(inbox')
    BY <1>2 DEF IsAccepted
  <2>5. \A i \in 1 .. Len(inbox') : i # Len(inbox') => i \in 1 .. Len(inbox)
    BY <1>1, <1>2
  <2>6. \A i \in 1 .. Len(inbox) : i \in 1 .. Len(inbox') /\ IsAccepted(i)' = IsAccepted(i)
    BY <1>1, <1>2 DEF IsAccepted
  <2>7. NewestIsFile'
    <3> SUFFICES ASSUME NEW i \in 1 .. Len(inbox'), IsAccepted(i)',
                        \A j \in i + 1 .. Len(inbox') : ~ IsAccepted(j)'
                 PROVE  inbox'[i].root = file'
      BY DEF NewestIsFile
    <3>1. i \in 1 .. Len(inbox) /\ IsAccepted(i)
      BY <2>4, <2>5, <2>6
    <3>2. \A j \in i + 1 .. Len(inbox) : ~ IsAccepted(j)
      BY <1>1, <1>2, <2>6
    <3> QED
      BY <1>2, <2>1, <2>3, <3>1, <3>2 DEF NewestIsFile
  <2>8. CopyIsFile'
    BY <2>1, <2>3, <2>6 DEF CopyIsFile, bootVars
  <2> QED
    BY <2>7, <2>8
<1> QED
  BY <1>3, <1>4, <1>5, <1>6, <1>7 DEF IInv, Upstream, StoredIsFile

\* What a step that changes the status of one write leaves in place.
LEMMA StatusTypes ==
  ASSUME Types, LoadedFirst, NEW i \in 1 .. Len(inbox), NEW s \in Statuses,
         \/ SetStatus(i, s)
         \/ UNCHANGED inbox,
         file' \in Roots, strays' \subseteq Roots, broken' \in 0 .. MaxBroken,
         order' \in {"kept", "lost", "mending"},
         UNCHANGED <<serverVars, pageVars, bootVars, saves>>
  PROVE  Types' /\ LoadedFirst' /\ Len(inbox') = Len(inbox)
<1> USE DEF serverVars, pageVars, bootVars
<1>1. inbox \in Seq(Writes) /\ \A j \in 1 .. Len(inbox) : inbox[j] \in Writes
  BY ElementOfSeq DEF Types
<1>2. [inbox[i] EXCEPT !.status = s] \in Writes
  BY <1>1 DEF Writes
<1>3. /\ inbox' \in Seq(Writes) /\ Len(inbox') = Len(inbox)
      /\ \A j \in 1 .. Len(inbox) : inbox'[j].sender = inbox[j].sender
  <2>1. CASE UNCHANGED inbox
    BY <1>1, <2>1
  <2>2. CASE SetStatus(i, s)
    <3>1. inbox' = [inbox EXCEPT ![i] = [inbox[i] EXCEPT !.status = s]]
      BY <2>2 DEF SetStatus
    <3>2. inbox' \in Seq(Writes) /\ Len(inbox') = Len(inbox)
      BY <1>1, <1>2, <3>1, ExceptSeq
    <3>3. \A j \in 1 .. Len(inbox) : inbox'[j].sender = inbox[j].sender
      BY <1>1, <3>1 DEF Writes
    <3> QED
      BY <3>2, <3>3
  <2> QED
    BY <2>1, <2>2
<1>4. \A j \in 1 .. Len(inbox') : inbox'[j] \in Writes
  BY <1>3, ElementOfSeq
<1> QED
  BY <1>3, <1>4 DEF Types, TypeOK, LoadedFirst, Copies, Writes, Statuses

\* A connection that fails: nothing is said of the order any more.
LEMMA BreaksIInv ==
  ASSUME IInv, NEW i \in 1 .. Len(inbox), OnError(i) \/ AnswerBreaks(i)
  PROVE  IInv'
<1>1. Breaks(inbox[i]) /\ inbox[i].root \in Roots
  BY Entries DEF OnError, AnswerBreaks, IInv, Types
<1>2. PICK s \in Statuses : SetStatus(i, s) \/ UNCHANGED inbox
  BY DEF OnError, AnswerBreaks, Statuses
<1>3. /\ file' \in Roots /\ strays' \subseteq Roots /\ broken' \in 0 .. MaxBroken
      /\ order' = "lost"
      /\ UNCHANGED <<serverVars, pageVars, bootVars, saves>>
  BY <1>1, MaxSavesAssumption DEF Breaks, IInv, Types, TypeOK
<1>4. Types' /\ LoadedFirst'
  BY <1>2, <1>3, StatusTypes DEF IInv
<1> QED
  BY <1>3, <1>4 DEF IInv, Upstream, OnlyLastUnderWay, StoredIsFile, KeptIsFile

\* The last write changes its status and no other does: what is accepted.
LEMMA LastOnly ==
  ASSUME IInv, order # "lost", NEW i \in 1 .. Len(inbox), UnderWay(inbox[i]),
         NEW s \in Statuses, SetStatus(i, s)
  PROVE  /\ i = Len(inbox) /\ Len(inbox') = Len(inbox) /\ inbox # <<>> /\ inbox' # <<>>
         /\ strays = {}
         /\ inbox'[i] = [inbox[i] EXCEPT !.status = s]
         /\ inbox'[i].status = s /\ inbox'[i].root = inbox[i].root
         /\ \A j \in 1 .. Len(inbox) : j # i => inbox'[j] = inbox[j]
         /\ \A j \in 1 .. Len(inbox) : j # i => ~ UnderWay(inbox[j])
<1>1. inbox \in Seq(Writes) /\ inbox[i] \in Writes
  BY ElementOfSeq DEF IInv, Types
<1>2. i = Len(inbox) /\ strays = {} /\ \A j \in 1 .. Len(inbox) : j # i => ~ UnderWay(inbox[j])
  BY DEF IInv, Upstream, OnlyLastUnderWay
<1>3. /\ Len(inbox') = Len(inbox)
      /\ inbox'[i] = [inbox[i] EXCEPT !.status = s]
      /\ \A j \in 1 .. Len(inbox) : j # i => inbox'[j] = inbox[j]
  BY <1>1 DEF SetStatus
<1>4. inbox'[i].status = s /\ inbox'[i].root = inbox[i].root
  BY <1>1, <1>3 DEF Writes
<1>5. inbox # <<>> /\ inbox' # <<>>
  BY <1>1, <1>3
<1> QED
  BY <1>2, <1>3, <1>4, <1>5

LEMMA StoresIInv ==
  ASSUME IInv, NEW i \in 1 .. Len(inbox), UpstreamStores(i)
  PROVE  IInv'
<1>1. SetStatus(i, "stored") /\ UnderWay(inbox[i]) /\ file' = inbox[i].root
  BY DEF UpstreamStores, UnderWay
<1>2. inbox[i].root \in Roots
  BY Entries DEF IInv, Types
<1>3. Types' /\ LoadedFirst' /\ Len(inbox') = Len(inbox)
  BY <1>1, <1>2, StatusTypes DEF UpstreamStores, IInv, Types, TypeOK, Statuses
<1>4. CASE order = "lost"
  BY <1>3, <1>4 DEF UpstreamStores, IInv, Upstream, OnlyLastUnderWay, StoredIsFile, KeptIsFile
<1>5. CASE order # "lost"
  <2>1. /\ i = Len(inbox') /\ inbox' # <<>> /\ strays = {}
        /\ inbox'[i].status = "stored" /\ inbox'[i].root = inbox[i].root
        /\ \A j \in 1 .. Len(inbox') : j # i => ~ UnderWay(inbox'[j])
    BY <1>1, <1>5, LastOnly DEF Statuses
  <2>2. OnlyLastUnderWay'
    BY <2>1 DEF UpstreamStores, OnlyLastUnderWay, UnderWay
  <2>3. StoredIsFile' /\ LastIs("stored")'
    BY <1>1, <2>1 DEF StoredIsFile, LastIs
  <2> QED
    BY <1>3, <2>2, <2>3 DEF IInv, Upstream, KeptIsFile
<1> QED
  BY <1>4, <1>5

LEMMA SuccessIInv ==
  ASSUME IInv, NEW i \in 1 .. Len(inbox), OnSuccess(i)
  PROVE  IInv'
<1>1. SetStatus(i, "accepted") /\ UnderWay(inbox[i]) /\ inbox[i].status = "stored"
  BY DEF OnSuccess, UnderWay
<1>2. order' \in {"kept", "lost", "mending"}
  BY DEF OnSuccess, IInv, Types, TypeOK
<1>3. Types' /\ LoadedFirst' /\ Len(inbox') = Len(inbox)
  BY <1>1, <1>2, StatusTypes DEF OnSuccess, IInv, Types, TypeOK, Statuses
<1>4. CASE order = "lost"
  BY <1>3, <1>4 DEF OnSuccess, IInv, Upstream, OnlyLastUnderWay, StoredIsFile, KeptIsFile
<1>5. CASE order # "lost"
  <2>1. /\ i = Len(inbox) /\ i = Len(inbox') /\ inbox # <<>> /\ inbox' # <<>> /\ strays = {}
        /\ inbox'[i].status = "accepted" /\ inbox'[i].root = inbox[i].root
        /\ \A j \in 1 .. Len(inbox') : j # i => ~ UnderWay(inbox'[j])
    BY <1>1, <1>5, LastOnly DEF Statuses
  <2>2. inbox'[i].root = file' /\ UNCHANGED strays
    BY <1>1, <1>5, <2>1 DEF OnSuccess, IInv, Upstream, StoredIsFile, LastIs
  <2>3. OnlyLastUnderWay'
    BY <2>1, <2>2 DEF OnlyLastUnderWay, UnderWay
  <2>4. ~ LastIs("stored")'
    BY <2>1 DEF LastIs
  <2>5. i \in 1 .. Len(inbox') /\ IsAccepted(i)'
    BY <1>3, <2>1 DEF IsAccepted
  <2>6. CopyIsFile'
    BY <2>5 DEF CopyIsFile
  <2>7. NewestIsFile'
    <3> SUFFICES ASSUME NEW j \in 1 .. Len(inbox'),
                        \A k \in j + 1 .. Len(inbox') : ~ IsAccepted(k)'
                 PROVE  inbox'[j].root = file'
      BY DEF NewestIsFile
    <3>1. j = i
      BY <2>1, <2>5
    <3> QED
      BY <2>2, <3>1
  <2> QED
    BY <1>3, <2>3, <2>4, <2>6, <2>7 DEF IInv, Upstream, StoredIsFile, KeptIsFile
<1> QED
  BY <1>4, <1>5

LEMMA RejectedIInv ==
  ASSUME IInv, NEW i \in 1 .. Len(inbox), OnRejected(i)
  PROVE  IInv'
<1>1. SetStatus(i, "skipped") /\ UnderWay(inbox[i])
  BY DEF OnRejected
<1>2. order' \in {"kept", "lost", "mending"}
  BY DEF OnRejected, IInv, Types, TypeOK
<1>3. Types' /\ LoadedFirst' /\ Len(inbox') = Len(inbox)
  BY <1>1, <1>2, StatusTypes DEF OnRejected, IInv, Types, TypeOK, Statuses
<1>4. CASE order' = "lost"
  BY <1>3, <1>4 DEF IInv, Upstream, OnlyLastUnderWay, StoredIsFile, KeptIsFile
<1>5. CASE order' # "lost"
  <2>1. order' = order /\ inbox[i].status = "sent"
    BY <1>1, <1>5 DEF OnRejected, UnderWay
  <2>2. /\ i = Len(inbox) /\ i = Len(inbox') /\ inbox # <<>> /\ inbox' # <<>> /\ strays = {}
        /\ inbox'[i].status = "skipped" /\ inbox'[i].root = inbox[i].root
        /\ \A j \in 1 .. Len(inbox') : j # i => inbox'[j] = inbox[j]
        /\ \A j \in 1 .. Len(inbox') : j # i => ~ UnderWay(inbox'[j])
    BY <1>1, <1>5, <2>1, LastOnly DEF Statuses
  <2>3. UNCHANGED <<file, strays, root, bootVars>>
    BY DEF OnRejected, serverVars
  <2>4. OnlyLastUnderWay'
    BY <2>2, <2>3 DEF OnlyLastUnderWay, UnderWay
  <2>5. ~ LastIs("stored")' /\ ~ LastIs("stored")
    BY <2>1, <2>2 DEF LastIs
  <2>6. \A j \in 1 .. Len(inbox) : IsAccepted(j)' = IsAccepted(j)
    BY <1>3, <2>1, <2>2 DEF IsAccepted
  <2>7. \A j \in 1 .. Len(inbox) : inbox'[j].root = inbox[j].root
    BY <1>3, <2>2
  <2>8. CopyIsFile => CopyIsFile'
    BY <1>3, <2>3, <2>6 DEF CopyIsFile, bootVars
  <2>9. NewestIsFile => NewestIsFile'
    <3> SUFFICES ASSUME NewestIsFile, NEW j \in 1 .. Len(inbox'), IsAccepted(j)',
                        \A k \in j + 1 .. Len(inbox') : ~ IsAccepted(k)'
                 PROVE  inbox'[j].root = file'
      BY DEF NewestIsFile
    <3>1. \A k \in j + 1 .. Len(inbox) : k \in 1 .. Len(inbox)
      OBVIOUS
    <3>2. inbox[j].root = file
      BY <1>3, <2>6, <3>1 DEF NewestIsFile
    <3> QED
      BY <1>3, <2>3, <2>7, <3>2
  <2> QED
    BY <1>3, <2>1, <2>4, <2>5, <2>8, <2>9 DEF IInv, Upstream, StoredIsFile, KeptIsFile
<1> QED
  BY <1>4, <1>5

LEMMA StrayIInv == ASSUME IInv, NEW r \in strays, StrayStores(r) PROVE IInv'
<1> USE DEF serverVars, pageVars, bootVars
<1>1. order' = "lost"
  BY DEF IInv, Upstream, OnlyLastUnderWay, StrayStores
<1>2. Types' /\ LoadedFirst'
  BY DEF IInv, Types, TypeOK, LoadedFirst, StrayStores
<1> QED
  BY <1>1, <1>2 DEF IInv, Upstream, OnlyLastUnderWay, StoredIsFile, KeptIsFile

LEMMA LinkIInv ==
  ASSUME IInv, NEW c \in Clients,
         \/ Connect(c) \/ HeartbeatTerminate(c) \/ CaughtUp(c)
         \/ Disconnect(c) \/ Expire(c)
  PROVE  IInv'
<1> USE DEF upstreamVars, pageVars, bootVars
<1>1. UNCHANGED <<upstreamVars, root, pageVars, bootVars, saves, cached>>
  BY DEF Connect, HeartbeatTerminate, CaughtUp, Disconnect, Expire
<1>2. /\ link' \in [Clients -> {"open", "away", "off"}]
      /\ \A d \in Clients : link'[d] = "open" => link[d] = "open" \/ db[d] # NoRoot
  BY DEF IInv, Types, TypeOK, Connect, HeartbeatTerminate, CaughtUp, Disconnect, Expire
<1>3. rootCache' \in [Clients -> Copies] /\ fresh' \subseteq Clients
  BY DEF IInv, Types, TypeOK, Copies, Connect, HeartbeatTerminate, CaughtUp,
         Disconnect, Expire
<1>4. Types'
  BY <1>1, <1>2, <1>3 DEF IInv, Types, TypeOK, Copies
<1>5. LoadedFirst'
  BY <1>1, <1>2 DEF IInv, LoadedFirst
<1> QED
  BY <1>1, <1>4, <1>5, QuietIInv

-----------------------------------------------------------------------------
(* processDbWrite                                                           *)

\* A write taken out of the queue, and what is left.
LEMMA HeadOfInbox ==
  ASSUME Types, inbox # <<>>
  PROVE  /\ Head(inbox) \in Writes
         /\ Tail(inbox) \in Seq(Writes)
         /\ Len(Tail(inbox)) = Len(inbox) - 1
         /\ Tail(inbox) # inbox
         /\ \A i \in 1 .. Len(Tail(inbox)) :
              i + 1 \in 1 .. Len(inbox) /\ Tail(inbox)[i] = inbox[i + 1]
         /\ 1 \in 1 .. Len(inbox) /\ Head(inbox) = inbox[1]
         /\ Tail(inbox) = <<>> => Len(inbox) = 1 /\ inbox[Len(inbox)] = Head(inbox)
         /\ Tail(inbox) # <<>> => Tail(inbox)[Len(Tail(inbox))] = inbox[Len(inbox)]
<1>1. inbox \in Seq(Writes) /\ Len(inbox) \in Nat \ {0} /\ Head(inbox) = inbox[1]
  BY DEF Types
<1>2. /\ Head(inbox) \in Writes
      /\ Tail(inbox) \in Seq(Writes)
      /\ Len(Tail(inbox)) = Len(inbox) - 1
      /\ \A i \in 1 .. Len(Tail(inbox)) : Tail(inbox)[i] = inbox[i + 1]
  BY <1>1
<1>3. Tail(inbox) = <<>> <=> Len(inbox) = 1
  BY SMTT(30), <1>1, <1>2, EmptySeq
<1>4. Tail(inbox) # <<>> => Tail(inbox)[Len(Tail(inbox))] = inbox[Len(inbox)]
  BY <1>1, <1>2, <1>3
<1>5. /\ \A i \in 1 .. Len(Tail(inbox)) : i + 1 \in 1 .. Len(inbox)
      /\ 1 \in 1 .. Len(inbox)
  BY <1>1, <1>2
<1>6. Tail(inbox) # inbox
  <2> SUFFICES ASSUME Tail(inbox) = inbox PROVE FALSE
    OBVIOUS
  <2>1. Len(inbox) = Len(inbox) - 1
    BY <1>2, Zenon
  <2> QED
    BY <1>1, <2>1
<1> QED
  BY <1>1, <1>2, <1>3, <1>4, <1>5, <1>6

\* Whatever is announced, to whom, the keys are keys and reach loaded pages.
LEMMA AnnounceTypes ==
  ASSUME Types, LoadedFirst, NEW w \in Writes, NEW n, Announce(w.sender, n),
         n.changed \subseteq Keys
  PROVE  /\ pending' \in [Clients -> SUBSET Keys]
         /\ \A c \in Clients : pending'[c] # {} => db[c] # NoRoot
BY DEF Types, LoadedFirst, Announce, Others

\* What the invariant says of the file, when a write leaves the queue.
LEMMA Dequeue ==
  ASSUME IInv, inbox # <<>>, inbox' = Tail(inbox), Head(inbox).status # "stored",
         UNCHANGED <<file, strays, order>>
  PROVE  /\ OnlyLastUnderWay' /\ StoredIsFile'
         /\ LastIs("stored")' \/ ~ LastIs("stored")
         /\ NewestIsFile => NewestIsFile'
         /\ \A i \in 1 .. Len(inbox) : IsAccepted(i) =>
              i = 1 \/ \E j \in 1 .. Len(inbox') : IsAccepted(j)'
<1>1. Types
  BY DEF IInv
<1>2. /\ inbox \in Seq(Writes) /\ Len(inbox') = Len(inbox) - 1 /\ Len(inbox) \in Nat
      /\ \A i \in 1 .. Len(inbox') : i + 1 \in 1 .. Len(inbox) /\ inbox'[i] = inbox[i + 1]
      /\ inbox' = <<>> => Len(inbox) = 1 /\ inbox[Len(inbox)] = Head(inbox)
      /\ inbox' # <<>> => inbox'[Len(inbox')] = inbox[Len(inbox)]
  BY <1>1, HeadOfInbox DEF Types
<1>3. OnlyLastUnderWay'
  <2> SUFFICES ASSUME order' # "lost"
               PROVE  /\ strays' = {}
                      /\ \A i \in 1 .. Len(inbox') : UnderWay(inbox'[i]) => i = Len(inbox')
    BY DEF OnlyLastUnderWay, UnderWay
  <2>1. strays = {} /\ \A i \in 1 .. Len(inbox) : UnderWay(inbox[i]) => i = Len(inbox)
    BY DEF IInv, Upstream, OnlyLastUnderWay
  <2>2. ASSUME NEW i \in 1 .. Len(inbox'), UnderWay(inbox'[i]) PROVE i = Len(inbox')
    <3>1. i + 1 \in 1 .. Len(inbox) /\ UnderWay(inbox[i + 1])
      BY <1>2, <2>2
    <3>2. i + 1 = Len(inbox)
      BY <2>1, <3>1
    <3>3. Len(inbox') = Len(inbox) - 1 /\ Len(inbox) \in Nat
      BY <1>2
    <3>4. i \in Int
      BY <3>3
    <3> QED
      BY <3>2, <3>3, <3>4
  <2> QED
    BY <2>1, <2>2
<1>4. StoredIsFile'
  BY <1>2 DEF IInv, Upstream, StoredIsFile, LastIs
<1>5. LastIs("stored")' \/ ~ LastIs("stored")
  BY <1>2 DEF LastIs
<1>6. \A i \in 1 .. Len(inbox') : IsAccepted(i)' = IsAccepted(i + 1)
  BY <1>2 DEF IsAccepted
<1>7. \A i \in 1 .. Len(inbox) : i # 1 =>
        i - 1 \in 1 .. Len(inbox') /\ IsAccepted(i - 1)' = IsAccepted(i)
  BY <1>2 DEF IsAccepted
<1>8. ASSUME NewestIsFile, NEW i \in 1 .. Len(inbox'), IsAccepted(i)',
             \A j \in i + 1 .. Len(inbox') : ~ IsAccepted(j)'
      PROVE  inbox'[i].root = file'
  <2>1. ASSUME NEW j \in (i + 1) + 1 .. Len(inbox) PROVE ~ IsAccepted(j)
    <3>1. j - 1 \in i + 1 .. Len(inbox') /\ j \in 1 .. Len(inbox) /\ j # 1
      BY <1>2
    <3> QED
      BY <1>7, <1>8, <3>1
  <2> QED
    BY <1>2, <1>6, <1>8, <2>1 DEF NewestIsFile
<1>9. NewestIsFile => NewestIsFile'
  BY <1>8 DEF NewestIsFile
<1> QED
  BY <1>3, <1>4, <1>5, <1>7, <1>9

LEMMA PassIInv == IInv /\ PassSkipped => IInv'
<1> SUFFICES ASSUME IInv, PassSkipped PROVE IInv'
  OBVIOUS
<1> USE DEF serverVars, pageVars, bootVars
<1>1. /\ inbox # <<>> /\ inbox' = Tail(inbox) /\ Head(inbox).status = "skipped"
      /\ UNCHANGED <<file, strays, broken, order, serverVars, pageVars, bootVars, saves>>
  BY DEF PassSkipped
<1>2. /\ inbox' \in Seq(Writes) /\ Len(inbox') <= Len(inbox) /\ Len(inbox) \in Nat
      /\ ~ IsAccepted(1)
      /\ \A i \in 1 .. Len(inbox') : i + 1 \in 1 .. Len(inbox) /\ inbox'[i] = inbox[i + 1]
  BY <1>1, HeadOfInbox DEF IInv, Types, IsAccepted
<1>3. \A i \in 1 .. Len(inbox') : inbox'[i] \in Writes
  BY <1>2, ElementOfSeq
<1>4. Types'
  BY <1>1, <1>2, <1>3, MaxSavesAssumption DEF IInv, Types, TypeOK, Copies, Writes, Statuses
<1>5. LoadedFirst'
  BY <1>1, <1>2 DEF IInv, LoadedFirst
<1>6. CopyIsFile => CopyIsFile'
  <2>1. (\A i \in 1 .. Len(inbox') : ~ IsAccepted(i)')
          => \A i \in 1 .. Len(inbox) : ~ IsAccepted(i)
    BY <1>1, <1>2, Dequeue
  <2> QED
    BY <1>1, <2>1 DEF CopyIsFile
<1>7. Upstream'
  BY <1>1, <1>6, Dequeue DEF IInv, Upstream, KeptIsFile
<1> QED
  BY <1>4, <1>5, <1>7 DEF IInv

LEMMA ProcessIInv == IInv /\ ProcessDbWrite => IInv'
<1> SUFFICES ASSUME IInv, ProcessDbWrite PROVE IInv'
  OBVIOUS
<1> DEFINE w == Head(inbox)
<1>1. /\ w \in Writes /\ w.sender \in Clients /\ w.root \in Roots
      /\ inbox # <<>> /\ inbox' = Tail(inbox)
      /\ Initialize(w) \/ Unchanged(w) \/ Compare(w)
      /\ saved' = [saved EXCEPT ![w.sender] = w.root]
      /\ UNCHANGED <<file, strays, broken, order, link, fresh, db, booted, snapshot, saves>>
      /\ w.status = "accepted"
      /\ overtaken' = FALSE
  BY HeadOfInbox DEF IInv, ProcessDbWrite, Writes
<1> HIDE DEF w
<1>2. root' = w.root
  BY <1>1 DEF Initialize, Unchanged, Compare
<1>3. rootCache' \in [Clients -> Copies]
  BY <1>1 DEF Initialize, Unchanged, Compare, IInv, Types, TypeOK, Copies
<1>4. cached' \subseteq Chars
  BY <1>1 DEF Initialize, Unchanged, Compare, IInv, Types, TypeOK
<1>5. /\ pending' \in [Clients -> SUBSET Keys]
      /\ \A c \in Clients : pending'[c] # {} => db[c] # NoRoot
  <2>1. CASE UNCHANGED pending
    BY <2>1 DEF IInv, Types, LoadedFirst
  <2>2. CASE Compare(w)
    <3> DEFINE n == [added |-> w.root.dir \ root.dir,
                     deleted |-> Deleted(w.sender, w.root),
                     changed |-> Changed(w.sender, w.root)]
    <3>1. n.changed \subseteq Keys
      BY DEF Changed, KeysChanged
    <3>2. Announce(w.sender, n)
      BY <2>2 DEF Compare
    <3> HIDE DEF n
    <3> QED
      BY <1>1, <3>1, <3>2, AnnounceTypes DEF IInv
  <2> QED
    BY <1>1, <2>1, <2>2 DEF Initialize, Unchanged
<1>6. Types'
  <2>1. inbox' \in Seq(Writes) /\ Len(inbox') <= saves
    BY <1>1, HeadOfInbox DEF IInv, Types
  <2>4. \A i \in 1 .. Len(inbox') : inbox'[i] \in Writes
    BY <2>1, ElementOfSeq
  <2>2. saved' \in [Clients -> Copies]
    BY <1>1 DEF IInv, Types, Copies
  <2>3. {booted', overtaken'} \subseteq BOOLEAN
    BY <1>1 DEF IInv, Types, TypeOK
  <2> QED
    BY <1>1, <1>2, <1>3, <1>4, <1>5, <2>1, <2>2, <2>3, <2>4, MaxSavesAssumption
       DEF IInv, Types, TypeOK, Copies, Writes, Statuses
<1>7. LoadedFirst'
  <2>1. \A c \in Clients : saved'[c] = saved[c] \/ saved'[c] # NoRoot
    BY <1>1, NoRootAssumption DEF IInv, Types
  <2>2. \A i \in 1 .. Len(inbox') : db'[inbox'[i].sender] # NoRoot
    BY <1>1, HeadOfInbox DEF IInv, LoadedFirst
  <2> QED
    BY <1>1, <1>5, <2>1, <2>2 DEF IInv, LoadedFirst
<1>8. Upstream'
  <2>1. w = inbox[1] /\ IsAccepted(1) /\ 1 \in 1 .. Len(inbox)
    BY <1>1, HeadOfInbox DEF IInv, IsAccepted, w
  <2>2. Head(inbox).status # "stored"
    BY <1>1 DEF w
  <2>3. /\ OnlyLastUnderWay' /\ StoredIsFile'
        /\ LastIs("stored")' \/ ~ LastIs("stored")
        /\ NewestIsFile => NewestIsFile'
        /\ \A i \in 1 .. Len(inbox) : IsAccepted(i) =>
             i = 1 \/ \E j \in 1 .. Len(inbox') : IsAccepted(j)'
    BY <1>1, <2>2, Dequeue
  <2>4. ASSUME NewestIsFile, \A i \in 1 .. Len(inbox') : ~ IsAccepted(i)'
        PROVE  root' = file'
    <3>1. \A j \in 1 + 1 .. Len(inbox) : j \in 1 .. Len(inbox) /\ j # 1
      OBVIOUS
    <3>2. \A j \in 1 + 1 .. Len(inbox) : ~ IsAccepted(j)
      BY <2>3, <2>4, <3>1
    <3>3. inbox[1].root = file
      BY <2>1, <2>4, <3>2 DEF NewestIsFile
    <3> QED
      BY <1>1, <1>2, <2>1, <3>3
  <2>5. NewestIsFile => CopyIsFile'
    BY <1>1, <1>2, <2>4, NoRootAssumption DEF CopyIsFile
  <2> QED
    BY <1>1, <2>3, <2>5 DEF IInv, Upstream, KeptIsFile
<1> QED
  BY <1>6, <1>7, <1>8 DEF IInv

LEMMA BootIInv == IInv /\ (BootRead \/ BootFill) => IInv'
<1> USE DEF upstreamVars, serverVars, pageVars
<1>1. ASSUME IInv, UNCHANGED upstreamVars, CopyIsFile => CopyIsFile'
      PROVE  Upstream'
  BY <1>1 DEF IInv, Upstream, OnlyLastUnderWay, StoredIsFile, KeptIsFile, LastIs,
              NewestIsFile, IsAccepted, UnderWay
<1>2. ASSUME IInv, BootRead PROVE IInv'
  <2>1. Types' /\ LoadedFirst'
    BY <1>2 DEF IInv, BootRead, Types, TypeOK, LoadedFirst
  <2>2. CopyIsFile => CopyIsFile'
    BY <1>2 DEF BootRead, CopyIsFile, IsAccepted
  <2> QED
    BY <1>1, <1>2, <2>1, <2>2 DEF IInv, BootRead
<1>3. ASSUME IInv, BootFill PROVE IInv'
  <2>1. overtaken' \in BOOLEAN /\ overtaken' = (root # NoRoot)
    BY <1>3, Zenon DEF BootFill
  <2>2. Types' /\ LoadedFirst'
    BY <1>3, <2>1 DEF IInv, BootFill, Types, TypeOK, LoadedFirst
  <2>3. CopyIsFile => CopyIsFile'
    BY <1>3, <2>1 DEF BootFill, CopyIsFile, IsAccepted
  <2> QED
    BY <1>1, <1>3, <2>2, <2>3 DEF IInv, BootFill
<1> QED
  BY <1>2, <1>3

LEMMA CharacterIInv == ASSUME IInv, NEW x \in Chars, CacheCharacter(x) PROVE IInv'
<1>1. Types' /\ LoadedFirst'
  BY DEF IInv, Types, TypeOK, LoadedFirst, CacheCharacter, upstreamVars, pageVars, bootVars
<1> QED
  BY <1>1, QuietIInv DEF CacheCharacter

LEMMA NextIInv == IInv /\ [Next]_vars => IInv'
<1> SUFFICES ASSUME IInv, [Next]_vars PROVE IInv'
  OBVIOUS
<1>1. ASSUME NEW c \in Clients, Load(c) \/ ApplyKeys(c) PROVE IInv'
  BY <1>1, PageIInv
<1>2. ASSUME NEW c \in Clients, NEW d \in Roots, Save(c, d) PROVE IInv'
  BY <1>2, SaveIInv
<1>3. ASSUME NEW i \in 1 .. Len(inbox),
             \/ UpstreamStores(i) \/ OnSuccess(i) \/ OnRejected(i)
             \/ OnError(i) \/ AnswerBreaks(i)
      PROVE  IInv'
  BY <1>3, StoresIInv, SuccessIInv, RejectedIInv, BreaksIInv
<1>4. ASSUME NEW r \in strays, StrayStores(r) PROVE IInv'
  BY <1>4, StrayIInv
<1>5. ASSUME NEW c \in Clients,
             \/ Connect(c) \/ HeartbeatTerminate(c) \/ CaughtUp(c)
             \/ Disconnect(c) \/ Expire(c)
      PROVE  IInv'
  BY <1>5, LinkIInv
<1>6. ASSUME NEW x \in Chars, CacheCharacter(x) PROVE IInv'
  BY <1>6, CharacterIInv
<1>7. CASE PassSkipped \/ ProcessDbWrite
  BY <1>7, PassIInv, ProcessIInv
<1>8. CASE BootRead \/ BootFill
  BY <1>8, BootIInv
<1>9. CASE UNCHANGED vars
  <2>1. Types' /\ LoadedFirst'
    BY <1>9 DEF IInv, Types, TypeOK, LoadedFirst, vars, upstreamVars, serverVars,
                pageVars, bootVars
  <2> QED
    BY <1>9, <2>1, QuietIInv DEF vars, serverVars
<1> QED
  BY <1>1, <1>2, <1>3, <1>4, <1>5, <1>6, <1>7, <1>8, <1>9 DEF Next

\* The inductive invariant holds in every reachable state.
THEOREM Invariance == Spec => []IInv
BY InitIInv, NextIInv, PTL DEF Spec


\* The caches, the copies per client and the queue of accepted saves have their
\* types, for any clients, characters and keys (processDbWrite).
THEOREM DbTypeOK == Spec => []TypeOK
<1>1. IInv => TypeOK
  BY DEF IInv, Types
<1> QED
  BY <1>1, Invariance, PTL

\* When the queue is empty the server's copy is the file, in every order of
\* storing, answering and processing, unless the upstream may have stored writes
\* in another order than the numbers' and no undisturbed save was accepted
\* since, or the read at start overtook a write and none was processed since
\* (processDbWrite, sendUpstreamWithRetry, the read at start).
THEOREM CacheIsFile == Spec => []CacheFollowsFile
<1>1. IInv => CacheFollowsFile
  <2> SUFFICES ASSUME IInv, inbox = <<>>, root # NoRoot, order = "kept", ~ overtaken
               PROVE  root = file
    BY DEF CacheFollowsFile
  <2>1. Len(inbox) = 0 /\ ~ LastIs("stored")
    BY DEF LastIs
  <2> QED
    BY <2>1 DEF IInv, Upstream, KeptIsFile, CopyIsFile
<1> QED
  BY <1>1, Invariance, PTL

-----------------------------------------------------------------------------
(* Deletions                                                                *)

\* Only processDbWrite takes an accepted write out of the queue.
LEMMA OnlyProcess ==
  ASSUME IInv, [Next]_vars, NEW c \in Clients, Processes(c)
  PROVE  ProcessDbWrite
<1>1. /\ inbox \in Seq(Writes) /\ inbox # <<>> /\ Head(inbox).status = "accepted"
      /\ inbox' # inbox /\ Len(inbox') = Len(inbox) - 1 /\ Len(inbox) \in Nat
  BY HeadOfInbox DEF IInv, Types, Processes
<1>2. ASSUME NEW e \in Clients, NEW d \in Roots, Save(e, d) PROVE FALSE
  BY <1>1, <1>2 DEF Save
<1>3. ASSUME NEW d \in Clients,
             \/ Load(d) \/ ApplyKeys(d) \/ Connect(d) \/ HeartbeatTerminate(d)
             \/ CaughtUp(d) \/ Disconnect(d) \/ Expire(d)
      PROVE  FALSE
  BY <1>1, <1>3 DEF Load, ApplyKeys, Connect, HeartbeatTerminate, CaughtUp,
                    Disconnect, Expire, upstreamVars
<1>4. ASSUME NEW i \in 1 .. Len(inbox),
             \/ UpstreamStores(i) \/ OnSuccess(i) \/ OnRejected(i)
             \/ OnError(i) \/ AnswerBreaks(i)
      PROVE  FALSE
  <2>1. PICK s \in Statuses : SetStatus(i, s) \/ UNCHANGED inbox
    BY <1>4 DEF UpstreamStores, OnSuccess, OnRejected, OnError, AnswerBreaks, Statuses
  <2>2. Len(inbox') = Len(inbox)
    BY <1>1, <2>1 DEF SetStatus
  <2> QED
    BY <1>1, <2>2
<1>5. ASSUME NEW r \in strays, StrayStores(r) PROVE FALSE
  BY <1>1, <1>5 DEF StrayStores
<1>6. ASSUME NEW x \in Chars, CacheCharacter(x) PROVE FALSE
  BY <1>1, <1>6 DEF CacheCharacter, upstreamVars
<1>7. ~ PassSkipped /\ ~ BootRead /\ ~ BootFill /\ ~ UNCHANGED vars
  BY <1>1 DEF PassSkipped, BootRead, BootFill, vars, upstreamVars
<1> QED
  BY <1>2, <1>3, <1>4, <1>5, <1>6, <1>7 DEF Next

\* What the processing of a write of c reports and drops is what c's copy at
\* the server has and the write has not, and nothing unless c is fresh.
LEMMA ReportedIsDeleted ==
  ASSUME IInv, NEW c \in Clients, Processes(c), ProcessDbWrite
  PROVE  /\ reported' \cup (cached \ cached') \subseteq Deleted(c, Head(inbox).root)
         /\ root \notin {NoRoot, Head(inbox).root} =>
              reported' = Deleted(c, Head(inbox).root)
<1>1. PICK w : /\ w = Head(inbox) /\ w.sender = c
               /\ Initialize(w) \/ Unchanged(w) \/ Compare(w)
  BY DEF Processes, ProcessDbWrite
<1>2. CASE Initialize(w)
  BY <1>1, <1>2 DEF Initialize
<1>3. CASE Unchanged(w)
  BY <1>1, <1>3 DEF Unchanged
<1>4. CASE Compare(w)
  <2>1. reported' = Deleted(c, w.root) /\ cached' = cached \ Deleted(c, w.root)
    BY <1>1, <1>4 DEF Compare, Announce
  <2> QED
    BY <1>1, <2>1
<1> QED
  BY <1>1, <1>2, <1>3, <1>4

\* A deletion is reported, and a block dropped, only for a character that the
\* sender itself removed, as long as the server's copy of the sender is right
\* (processDbWrite, clientRootCache).
THEOREM DeletionsAreReal == Spec => NoDeletionInvented
<1> DEFINE Real ==
      \A c \in Clients :
        Processes(c) /\ CopyIsSendersOwn(c) =>
          reported' \cup (cached \ cached') \subseteq saved[c].dir \ Head(inbox).root.dir
<1>1. IInv /\ [Next]_vars => [Real]_vars
  <2> SUFFICES ASSUME IInv, [Next]_vars, NEW c \in Clients,
                      Processes(c), CopyIsSendersOwn(c)
               PROVE  reported' \cup (cached \ cached')
                        \subseteq saved[c].dir \ Head(inbox).root.dir
    OBVIOUS
  <2>1. Deleted(c, Head(inbox).root) \subseteq saved[c].dir \ Head(inbox).root.dir
    BY DEF Deleted, CopyIsSendersOwn
  <2> QED
    BY <2>1, OnlyProcess, ReportedIsDeleted
<1> QED
  BY <1>1, Invariance, PTL DEF Spec, NoDeletionInvented

\* What a fresh client removed is reported to the others, unless it was off
\* the server's list already (processDbWrite).
THEOREM DeletionsAreReported == Spec => RemovalsReported
<1> DEFINE Told ==
      \A c \in Clients :
        (/\ Processes(c)
         /\ CopyIsSendersOwn(c)
         /\ IsClientFresh(c)
         /\ root # NoRoot) =>
          (saved[c].dir \ Head(inbox).root.dir) \cap root.dir \subseteq reported'
<1>1. IInv /\ [Next]_vars => [Told]_vars
  <2> SUFFICES ASSUME IInv, [Next]_vars, NEW c \in Clients, Processes(c),
                      CopyIsSendersOwn(c), IsClientFresh(c), root # NoRoot
               PROVE  (saved[c].dir \ Head(inbox).root.dir) \cap root.dir
                        \subseteq reported'
    OBVIOUS
  <2>1. CASE root = Head(inbox).root
    BY <2>1
  <2>2. CASE root # Head(inbox).root
    <3>1. reported' = Deleted(c, Head(inbox).root)
      BY <2>2, OnlyProcess, ReportedIsDeleted
    <3>2. saved[c] # NoRoot
      BY HeadOfInbox DEF IInv, LoadedFirst, Processes
    <3>3. Deleted(c, Head(inbox).root) = saved[c].dir \ Head(inbox).root.dir
      BY <3>2 DEF Deleted, CopyIsSendersOwn
    <3> QED
      BY <3>1, <3>3
  <2> QED
    BY <2>1, <2>2
<1> QED
  BY <1>1, Invariance, PTL DEF Spec, RemovalsReported
=============================================================================
