------------------------------ MODULE DbWrite ------------------------------
(***************************************************************************)
(* What the server makes of a write to database.bin: it compares the root  *)
(* block with its own copy and with the copy it keeps for the sender, and  *)
(* announces the characters added and deleted and the root keys changed.   *)
(* Models processDbWrite, diffDirectory, diffRootKeys and the per-client   *)
(* root cache (initClientRootCache, removeClientCache, its expiry).        *)
(*                                                                         *)
(* A write carries the root block only, as an incremental save does.  It   *)
(* gets its number when it arrives, and is sent to the upstream, which     *)
(* keeps the file and stores the writes under way in any order, also when  *)
(* the connection of an attempt has failed and it is sent again.  Accepted *)
(* writes are processed in the order of the numbers (WriteOrderQueue).     *)
(* Pages load the file, apply announced keys to their copy and save it as  *)
(* the user has edited it (RisuAI and the client).                         *)
(***************************************************************************)
EXTENDS Integers, Sequences, FiniteSets

CONSTANTS
  Clients,
  Chars,     \* characters the directory can list
  Keys,      \* root keys that are announced, and that pages apply in place
  Ignored,   \* root keys whose changes are never announced
  NoRoot,    \* no copy
  MaxSaves,  \* bound on the saves of all pages together
  MaxBroken  \* bound on the attempts whose connection fails

VARIABLES
  file,       \* database.bin as the upstream has it
  inbox,      \* writes the server has not processed yet, by their numbers
  strays,     \* writes that an attempt given up by the server will store yet
  broken,     \* number of attempts whose connection failed so far
  order,      \* history: "kept" if the last write stored is the last accepted,
              \* "lost" if it may not be, "mending" if it will be once the write
              \* under way is accepted
  root,       \* dataCache "root"; hashCache holds its hash
  rootCache,  \* clientRootCache
  link,       \* per client: "open" (in clients), "away" (closed, its clock
              \* runs), "off" (neither)
  fresh,      \* freshClients
  cached,     \* characters with a block of their own in hashCache
  reported,   \* history: characters the last processed write reported deleted
  db,         \* per client: the root the page holds
  saved,      \* history: per client, what it loaded or last had processed
  pending,    \* per client: announced keys it has yet to apply
  booted,     \* the read of the file at start was sent
  snapshot,   \* its answer, until the cache is filled from it
  overtaken,  \* history: it filled the cache after a write had, and no write
              \* was processed since
  saves       \* number of saves so far

serverVars == <<root, rootCache, link, fresh, cached, reported>>
pageVars == <<db, saved, pending>>
bootVars == <<booted, snapshot, overtaken>>
upstreamVars == <<file, inbox, strays, broken, order>>
vars == <<upstreamVars, serverVars, pageVars, bootVars, saves>>

Values == {0, 1}
Roots == [dir : SUBSET Chars, keys : [Keys \cup Ignored -> Values]]

ASSUME MaxSavesAssumption == MaxSaves \in Nat /\ MaxBroken \in Nat

\* The absence of a copy is no root block.
ASSUME NoRootAssumption == \A r \in Roots : r # NoRoot

FirstRoot == [dir |-> {}, keys |-> [k \in Keys \cup Ignored |-> 0]]
NoNews == [added |-> {}, deleted |-> {}, changed |-> {}]

Init ==
  /\ file = FirstRoot
  /\ inbox = <<>>
  /\ strays = {}
  /\ broken = 0
  /\ order = "kept"
  /\ root = NoRoot
  /\ rootCache = [c \in Clients |-> NoRoot]
  /\ link = [c \in Clients |-> "off"]
  /\ fresh = {}
  /\ cached = {}
  /\ reported = {}
  /\ db = [c \in Clients |-> NoRoot]
  /\ saved = [c \in Clients |-> NoRoot]
  /\ pending = [c \in Clients |-> {}]
  /\ booted = FALSE
  /\ snapshot = NoRoot
  /\ overtaken = FALSE
  /\ saves = 0

-----------------------------------------------------------------------------
(* The pages                                                               *)

\* RisuAI reads the file, some time before the page connects.
Load(c) ==
  /\ db[c] = NoRoot
  /\ db' = [db EXCEPT ![c] = file]
  /\ saved' = [saved EXCEPT ![c] = file]
  /\ UNCHANGED <<upstreamVars, serverVars, pending, bootVars, saves>>

\* handleBlocksChanged: fetch the root, take the announced keys over.
ApplyKeys(c) ==
  /\ pending[c] # {}
  /\ root # NoRoot
  /\ pending' = [pending EXCEPT ![c] = {}]
  /\ db' = [db EXCEPT ![c].keys =
              [k \in DOMAIN @ |->
                 IF k \in pending[c] THEN root.keys[k] ELSE @[k]]]
  /\ UNCHANGED <<upstreamVars, serverVars, saved, bootVars, saves>>

-----------------------------------------------------------------------------
(* The way of a write to the upstream and back                             *)

UnderWay(w) == w.status \in {"sent", "stored"}

\* Nothing can reach the file but the next write.
Calm == strays = {} /\ \A i \in 1 .. Len(inbox) : ~ UnderWay(inbox[i])

SetStatus(i, status) == inbox' = [inbox EXCEPT ![i].status = status]

\* POST /api/write: the number is given out, the write is sent.  Since it last
\* loaded, saved or applied something the user has made d of the page's copy,
\* adding and removing characters and setting keys, or has changed nothing.
Save(c, d) ==
  /\ db[c] # NoRoot
  /\ saves < MaxSaves
  /\ saves' = saves + 1
  /\ db' = [db EXCEPT ![c] = d]
  /\ inbox' = Append(inbox, [sender |-> c, root |-> d, status |-> "sent"])
  /\ order' = CASE ~ Calm -> "lost"
                [] Calm /\ order = "kept" -> "kept"
                [] OTHER -> "mending"
  /\ UNCHANGED <<file, strays, broken, serverVars, saved, pending, bootVars>>

\* The upstream stores a write that was sent.
UpstreamStores(i) ==
  /\ inbox[i].status = "sent"
  /\ file' = inbox[i].root
  /\ SetStatus(i, "stored")
  /\ UNCHANGED <<strays, broken, order, serverVars, pageVars, bootVars, saves>>

\* A 2xx answer: the callback goes to the queue.
OnSuccess(i) ==
  /\ inbox[i].status = "stored"
  /\ SetStatus(i, "accepted")
  /\ order' = IF order = "mending" THEN "kept" ELSE order
  /\ UNCHANGED <<file, strays, broken, serverVars, pageVars, bootVars, saves>>

\* Another status: the number is given up.
OnRejected(i) ==
  /\ UnderWay(inbox[i])
  /\ SetStatus(i, "skipped")
  /\ order' = IF inbox[i].status = "stored" THEN "lost" ELSE order
  /\ UNCHANGED <<file, strays, broken, serverVars, pageVars, bootVars, saves>>

\* What an attempt sent whose connection failed is stored later, or never.
Breaks(w) ==
  /\ broken < MaxBroken
  /\ broken' = broken + 1
  /\ strays' \in {strays, strays \cup {w.root}}
  /\ order' = "lost"
  /\ UNCHANGED <<file, serverVars, pageVars, bootVars, saves>>

\* The connection of an attempt fails before the answer.  The write is sent
\* again, or given up after the last attempt.
OnError(i) ==
  /\ UnderWay(inbox[i])
  /\ SetStatus(i, "sent") \/ SetStatus(i, "skipped")
  /\ Breaks(inbox[i])

\* The connection fails after the answer has begun.  The write is sent again
\* all the same; when that fails too the number is given up, if its turn has
\* not come (RemoteBlockWrites, where a second answer ends the process).  It
\* fails before the write is processed: had it failed later, what is stored and
\* processed would be the same, and order lost no sooner.
AnswerBreaks(i) ==
  /\ inbox[i].status = "accepted"
  /\ UNCHANGED inbox \/ SetStatus(i, "skipped")
  /\ Breaks(inbox[i])

StrayStores(r) ==
  /\ file' = r
  /\ strays' = strays \ {r}
  /\ UNCHANGED <<inbox, broken, order, serverVars, pageVars, bootVars, saves>>

\* The loop of the queue passes a number that was given up.
PassSkipped ==
  /\ inbox # <<>>
  /\ Head(inbox).status = "skipped"
  /\ inbox' = Tail(inbox)
  /\ UNCHANGED <<file, strays, broken, order, serverVars, pageVars, bootVars, saves>>

-----------------------------------------------------------------------------
(* Connections                                                             *)

\* The page is registered, and its init message handled: initClientRootCache.
Connect(c) ==
  /\ db[c] # NoRoot
  /\ link[c] # "open"
  /\ link' = [link EXCEPT ![c] = "open"]
  /\ rootCache' = IF rootCache[c] = NoRoot THEN [rootCache EXCEPT ![c] = root]
                                           ELSE rootCache
  /\ UNCHANGED <<upstreamVars, root, fresh, cached, reported,
                 pageVars, bootVars, saves>>

\* The heartbeat drops the connection from clients; the close event that
\* follows finds nothing of its own to clear.
HeartbeatTerminate(c) ==
  /\ link[c] = "open"
  /\ link' = [link EXCEPT ![c] = "off"]
  /\ UNCHANGED <<upstreamVars, root, rootCache, fresh, cached, reported,
                 pageVars, bootVars, saves>>

CaughtUp(c) ==
  /\ link[c] = "open"
  /\ fresh' = fresh \cup {c}
  /\ UNCHANGED <<upstreamVars, root, rootCache, link, cached, reported,
                 pageVars, bootVars, saves>>

\* The close event: removeClientCache starts the clock of the cached root.
Disconnect(c) ==
  /\ link[c] = "open"
  /\ link' = [link EXCEPT ![c] = "away"]
  /\ fresh' = fresh \ {c}
  /\ UNCHANGED <<upstreamVars, root, rootCache, cached, reported,
                 pageVars, bootVars, saves>>

\* The cleanup timer: CLIENT_CACHE_TTL_MS after the close.
Expire(c) ==
  /\ link[c] = "away"
  /\ rootCache[c] # NoRoot
  /\ rootCache' = [rootCache EXCEPT ![c] = NoRoot]
  /\ UNCHANGED <<upstreamVars, root, link, fresh, cached, reported,
                 pageVars, bootVars, saves>>

\* A write of x's own file was processed (RemoteBlockWrites).
CacheCharacter(x) ==
  /\ root # NoRoot
  /\ x \in root.dir \ cached
  /\ cached' = cached \cup {x}
  /\ UNCHANGED <<upstreamVars, root, rootCache, link, fresh, reported,
                 pageVars, bootVars, saves>>

-----------------------------------------------------------------------------
(* processDbWrite                                                          *)

\* diffRootKeys
KeysChanged(old, new) == {k \in Keys : old.keys[k] # new.keys[k]}

\* Slip: deletions are judged by the server's own copy.
DeletedGlobally(sender, new) == root.dir \ new.dir

\* Slip: deletions are never announced.
DeletedNever(sender, new) == {}

IsClientFresh(c) == link[c] = "open" /\ c \in fresh

\* diffDirectory against the sender's own copy, for a fresh sender only.
Deleted(sender, new) ==
  IF rootCache[sender] # NoRoot /\ IsClientFresh(sender)
    THEN rootCache[sender].dir \ new.dir
    ELSE {}

\* The keys that changed for the server and for the sender.
Changed(sender, new) ==
  IF rootCache[sender] # NoRoot
    THEN KeysChanged(root, new) \cap KeysChanged(rootCache[sender], new)
    ELSE KeysChanged(root, new)

\* The pages a broadcast reaches.
Others(sender) == {c \in Clients : c # sender /\ link[c] = "open"}

\* Slip: every name in the message is taken for a key.
AnnounceMixed(sender, n) ==
  /\ reported' = n.deleted
  /\ pending' = [c \in Clients |->
       IF c \in Others(sender) THEN pending[c] \cup n.changed \cup n.added
                               ELSE pending[c]]

\* broadcast: the pages fetch what is announced when they get to it.  Where
\* characters come or go they ask the user to reload, and apply no key.
Announce(sender, n) ==
  /\ reported' = n.deleted
  /\ pending' = [c \in Clients |->
       IF c \in Others(sender) /\ n.added = {} /\ n.deleted = {}
         THEN pending[c] \cup n.changed ELSE pending[c]]

\* The first write only fills the cache; no copy is kept for its sender.
Initialize(w) ==
  /\ root = NoRoot
  /\ root' = w.root
  /\ reported' = {}
  /\ UNCHANGED <<rootCache, cached, pending>>

\* The root's hash is the one cached: only the sender's copy is set.
Unchanged(w) ==
  /\ root = w.root
  /\ rootCache' = [rootCache EXCEPT ![w.sender] = w.root]
  /\ reported' = {}
  /\ UNCHANGED <<root, cached, pending>>

\* Slip: the copies are left alone when nothing is announced.
CompareReturnsEarly(w) ==
  /\ root \notin {NoRoot, w.root}
  /\ LET n == [added |-> w.root.dir \ root.dir,
               deleted |-> Deleted(w.sender, w.root),
               changed |-> Changed(w.sender, w.root)] IN
     /\ cached' = cached \ n.deleted
     /\ Announce(w.sender, n)
     /\ IF n = NoNews THEN UNCHANGED <<root, rootCache>>
          ELSE /\ root' = w.root
               /\ rootCache' = [rootCache EXCEPT ![w.sender] = w.root]

Compare(w) ==
  /\ root \notin {NoRoot, w.root}
  /\ LET n == [added |-> w.root.dir \ root.dir,
               deleted |-> Deleted(w.sender, w.root),
               changed |-> Changed(w.sender, w.root)] IN
     /\ cached' = cached \ n.deleted
     /\ Announce(w.sender, n)
  /\ root' = w.root
  /\ rootCache' = [rootCache EXCEPT ![w.sender] = w.root]

ProcessDbWrite ==
  /\ inbox # <<>>
  /\ Head(inbox).status = "accepted"
  /\ LET w == Head(inbox) IN
     /\ Initialize(w) \/ Unchanged(w) \/ Compare(w)
     /\ saved' = [saved EXCEPT ![w.sender] = w.root]
  /\ inbox' = Tail(inbox)
  /\ overtaken' = FALSE
  /\ UNCHANGED <<file, strays, broken, order, link, fresh, db, booted, snapshot, saves>>

-----------------------------------------------------------------------------
(* The read of the file at start, while requests are served already        *)

BootRead ==
  /\ ~ booted
  /\ booted' = TRUE
  /\ snapshot' = file
  /\ UNCHANGED <<upstreamVars, serverVars, pageVars, overtaken, saves>>

\* The blocks are stored whatever the cache holds by now.
BootFill ==
  /\ snapshot # NoRoot
  /\ root' = snapshot
  /\ snapshot' = NoRoot
  /\ overtaken' = (root # NoRoot)
  /\ UNCHANGED <<upstreamVars, rootCache, link, fresh, cached, reported,
                 pageVars, booted, saves>>

Next ==
  \/ \E c \in Clients : \/ Load(c)
                        \/ ApplyKeys(c)
                        \/ \E d \in Roots : Save(c, d)
                        \/ Connect(c)
                        \/ HeartbeatTerminate(c)
                        \/ CaughtUp(c)
                        \/ Disconnect(c)
                        \/ Expire(c)
  \/ \E i \in 1 .. Len(inbox) : \/ UpstreamStores(i)
                               \/ OnSuccess(i)
                               \/ OnRejected(i)
                               \/ OnError(i)
                               \/ AnswerBreaks(i)
  \/ \E r \in strays : StrayStores(r)
  \/ \E x \in Chars : CacheCharacter(x)
  \/ PassSkipped
  \/ ProcessDbWrite
  \/ BootRead
  \/ BootFill

Spec == Init /\ [][Next]_vars

-----------------------------------------------------------------------------
TypeOK ==
  /\ file \in Roots
  /\ root \in Roots \cup {NoRoot}
  /\ rootCache \in [Clients -> Roots \cup {NoRoot}]
  /\ link \in [Clients -> {"open", "away", "off"}]
  /\ fresh \subseteq Clients
  /\ cached \subseteq Chars
  /\ db \in [Clients -> Roots \cup {NoRoot}]
  /\ \A c \in Clients : pending[c] \subseteq Keys
  /\ Len(inbox) <= MaxSaves
  /\ \A i \in 1 .. Len(inbox) :
       inbox[i] \in [sender : Clients, root : Roots,
                    status : {"sent", "stored", "accepted", "skipped"}]
  /\ strays \subseteq Roots
  /\ broken \in 0 .. MaxBroken
  /\ order \in {"kept", "lost", "mending"}
  /\ {booted, overtaken} \subseteq BOOLEAN
  /\ snapshot \in Roots \cup {NoRoot}

\* When every write has been processed the server's copy is the file, also after
\* changes that are not announced to anybody, and whatever came first, a write
\* or the answer of the read at start.  There are two exceptions.  The order of
\* the numbers is not the one in which the upstream stores: after saves that
\* were under way together, one that was stored but not accepted, or one whose
\* connection failed, until a save that nothing overlaps is accepted.  And
\* BootFill does not look: between an answer of the read that overtook a write
\* and the next write.
CacheFollowsFile ==
  (inbox = <<>> /\ root # NoRoot /\ order = "kept" /\ ~ overtaken) => root = file

\* The server's idea of what sender c holds is right: "the client has just
\* loaded it" (initClientRootCache.ts), or it is what c last saved.
CopyIsSendersOwn(c) == rootCache[c] = saved[c]

\* The step processes a write of c.
Processes(c) ==
  /\ inbox # <<>>
  /\ Head(inbox).status = "accepted" /\ Head(inbox).sender = c
  /\ inbox' = Tail(inbox)

\* A character is reported as deleted, or its block dropped, only if the sender
\* itself removed it, so long as the copy kept for the sender is its own.
NoDeletionInvented ==
  [][\A c \in Clients :
       Processes(c) /\ CopyIsSendersOwn(c) =>
         reported' \cup (cached \ cached')
           \subseteq saved[c].dir \ Head(inbox).root.dir]_vars

\* What a fresh client removed is reported to the others, unless another write
\* took it off the server's list already.
RemovalsReported ==
  [][\A c \in Clients :
       (/\ Processes(c)
        /\ CopyIsSendersOwn(c)
        /\ IsClientFresh(c)
        /\ root # NoRoot) =>
         (saved[c].dir \ Head(inbox).root.dir) \cap root.dir
           \subseteq reported']_vars

\* The same as NoDeletionInvented without the condition: deletions are judged
\* by the sender's own previous directory, "to prevent false deletes"
\* (processDbWrite.ts:66-67).
NoFalseDelete ==
  [][\A c \in Clients :
       Processes(c) => reported' \subseteq saved[c].dir]_vars
=============================================================================
