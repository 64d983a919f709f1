----------------------------- MODULE ChangeLog -----------------------------
(***************************************************************************)
(* The change log of the server (cache.ts): every accepted change gets the *)
(* next version, the table keeps the newest MaxLogEntries of them, and a   *)
(* client that was away asks for what followed the version it last saw.    *)
(* The payload of an entry (blocks changed and deleted) is opaque here.    *)
(***************************************************************************)
EXTENDS Integers, FiniteSets

CONSTANTS
  MaxLogEntries,  \* config.MAX_LOG_ENTRIES
  MaxVersion,     \* bound on currentVersion
  Clients,        \* client ids
  NoClient,       \* the null sender of a change no client made
  Changes         \* payloads of an entry

ASSUME LogAssumption ==
  /\ MaxLogEntries \in Nat \ {0}
  /\ MaxVersion \in Nat
  /\ NoClient \notin Clients

VARIABLES
  currentVersion,
  log,      \* the changelog table: version -> entry
  history   \* history: every entry ever added

vars == <<currentVersion, log, history>>

Senders == Clients \cup {NoClient}
Versions == 1 .. MaxVersion
Entries == [sender : Senders, change : Changes]

Init ==
  /\ currentVersion = 0
  /\ log = [v \in {} |-> v]
  /\ history = [v \in {} |-> v]

-----------------------------------------------------------------------------
Keep(f, S) == [v \in S |-> f[v]]

Add(f, v, entry) == [w \in DOMAIN f \cup {v} |-> IF w = v THEN entry ELSE f[w]]

\* Slip: ORDER BY without DESC: the oldest rows stay.
TrimOldest(f) ==
  IF Cardinality(DOMAIN f) > MaxLogEntries
    THEN Keep(f, {v \in DOMAIN f :
                    Cardinality({w \in DOMAIN f : w < v}) < MaxLogEntries})
    ELSE f

\* Slip: one row too few is kept.
TrimOneMore(f) == Keep(f, {v \in DOMAIN f :
                    Cardinality({w \in DOMAIN f : w >= v}) < MaxLogEntries})

\* trimChangelog: delete all but the newest rows, when there are too many.
Trim(f) ==
  IF Cardinality(DOMAIN f) > MaxLogEntries
    THEN Keep(f, {v \in DOMAIN f :
                    Cardinality({w \in DOMAIN f : w > v}) < MaxLogEntries})
    ELSE f

\* Slip: the counter starts again when the table is full.
AddChangeLogEntryWraps(sender, change) ==
  /\ currentVersion < MaxVersion
  /\ currentVersion' = (currentVersion % MaxLogEntries) + 1
  /\ LET entry == [sender |-> sender, change |-> change] IN
     /\ log' = Trim(Add(log, currentVersion', entry))
     /\ history' = Add(history, currentVersion', entry)

AddChangeLogEntry(sender, change) ==
  /\ currentVersion < MaxVersion
  /\ currentVersion' = currentVersion + 1
  /\ LET entry == [sender |-> sender, change |-> change] IN
     /\ log' = Trim(Add(log, currentVersion + 1, entry))
     /\ history' = Add(history, currentVersion + 1, entry)

Expired == [status |-> 410, version |-> currentVersion]
Answer(entries) ==
  [status |-> 200, version |-> currentVersion, changes |-> entries]

NothingSince(since) == DOMAIN log = {} \/ since >= currentVersion

\* since precedes the oldest row
TooOld(since) == \A v \in DOMAIN log : since < v

\* Slip: the test for an expired version is missing.
GetChangesSinceNever410(since, exclude) ==
  IF NothingSince(since) THEN Answer({})
  ELSE Answer({v \in DOMAIN log : v > since /\ log[v].sender # exclude})

\* GET /sync/changes: the rows after since, without the asking client's own.
GetChangesSince(since, exclude) ==
  IF NothingSince(since) THEN Answer({})
  ELSE IF since > 0 /\ TooOld(since) THEN Expired
  ELSE Answer({v \in DOMAIN log : v > since /\ log[v].sender # exclude})

Next == \E s \in Senders, c \in Changes : AddChangeLogEntry(s, c)

Spec == Init /\ [][Next]_vars

-----------------------------------------------------------------------------
TypeOK ==
  /\ currentVersion \in 0 .. MaxVersion
  /\ DOMAIN log \subseteq Versions
  /\ log \in [DOMAIN log -> Entries]
  /\ history \in [1 .. currentVersion -> Entries]

\* The table is the end of the history, unbroken and unchanged: as many rows
\* as fit, none missing in the middle, none of them altered by a trim.
LogIsNewest ==
  /\ DOMAIN log =
       {v \in 1 .. currentVersion : v > currentVersion - MaxLogEntries}
  /\ \A v \in DOMAIN log : log[v] = history[v]

\* A client that names a version it has seen is told everything that followed
\* from others, or told to reload; it never gets an answer with a hole in it.
AnswersAreComplete ==
  \A since \in Versions, c \in Clients :
    LET a == GetChangesSince(since, c) IN
      a.status = 200 =>
        a.changes = {v \in 1 .. currentVersion :
                       v > since /\ history[v].sender # c}

\* A client that is no more than MaxLogEntries - 1 changes behind is never
\* made to reload the page.
RecentClientsNeedNoReload ==
  \A since \in Versions, c \in Clients :
    since > currentVersion - MaxLogEntries =>
      GetChangesSince(since, c).status = 200
=============================================================================
