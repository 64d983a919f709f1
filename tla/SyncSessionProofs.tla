------------------------- MODULE SyncSessionProofs -------------------------
(***************************************************************************)
(* Proofs about SyncSession, for any bounds on versions, connections,      *)
(* requests and failures.  That the page's version has no hole below it    *)
(* rests on four facts: a connection greets before it tells anything, it   *)
(* tells the versions one by one while it is registered, a request asks    *)
(* from a version below which nothing is missing, and what a change has    *)
(* reached once it reaches for good.                                       *)
(***************************************************************************)
EXTENDS SyncSession, SequenceTheorems, TLAPS

LogFacts == INSTANCE ChangeLogProofs
              WITH Clients <- {Me, Other}, NoClient <- "none"

Versions == 0 .. MaxVersion
Messages == [type : {"auth-result", "blocks-changed", "version-update"},
             version : Versions]
Answers == [status : {200}, version : Versions, changes : SUBSET Versions]
             \cup [status : {410}, version : Versions]
Requests == [first : BOOLEAN, since : Versions, answered : BOOLEAN,
             answer : Answers]

Types ==
  /\ LogFacts!IInv
  /\ currentVersion >= 1
  /\ TypeOK
  /\ down \in [Conns -> Seq(Messages)]
  /\ up \in [Conns -> Seq({"auth", "caught-up"})]
  /\ requests \in Seq(Requests)

-----------------------------------------------------------------------------
(* The connections                                                          *)

\* One connection is registered: the last that was, and it is held open.
Registered ==
  /\ clients # 0 => clients = lastAuth /\ server[clients] = "open"
  /\ RegistrationLasts

\* The token is sent once, first, and until it is read nothing is sent back.
Handshake ==
  \A i \in Conns :
    /\ server[i] \in {"none", "unauth"} => down[i] = <<>>
    /\ \A k \in 1 .. Len(up[i]) : up[i][k] = "auth" => k = 1 /\ server[i] = "unauth"

\* The greeting is the first message; the others are about changes, and the
\* kind of the message says whose change it is.
MessageIsTrue(m) ==
  m.type # "auth-result" =>
    /\ m.version \in 1 .. currentVersion
    /\ m.type = "version-update" <=> history[m.version].sender = Me

DownIsTrue ==
  \A i \in Conns : \A k \in 1 .. Len(down[i]) :
    /\ down[i][k].type = "auth-result" => k = 1
    /\ MessageIsTrue(down[i][k])

-----------------------------------------------------------------------------
(* The requests                                                             *)

AnswerIsTrue(a) ==
  /\ a.version <= currentVersion
  /\ a.status = 200 =>
       a.changes \subseteq {v \in 1 .. a.version : history[v].sender # Me}

AnswersAreTrue ==
  \A r \in 1 .. Len(requests) : AnswerIsTrue(requests[r].answer)

\* The page is ahead of nothing.
NotAhead ==
  /\ lastVersion <= currentVersion
  /\ \A r \in 1 .. Len(requests) : requests[r].since <= currentVersion

\* Everything is asked for once, before any answer set the base.
FirstIsFirst ==
  /\ isFirstConnect => base = -1
  /\ \A r \in 1 .. Len(requests) : requests[r].first =>
       /\ ~ isFirstConnect
       /\ base = -1
       /\ requests[r].answer.status = 200
       /\ requests[r].since = 0
       /\ \A q \in 1 .. Len(requests) : requests[q].first => q = r

-----------------------------------------------------------------------------
(* What reaches the page                                                    *)

\* The changes that are never left out of an answer (Covered).
Kept == {v \in 1 .. currentVersion : history[v].change # "page"}

\* The page has handled the greeting of its connection.
Greeted == ws # 0 /\ \A k \in 1 .. Len(down[ws]) : down[ws][k].type # "auth-result"

\* Change v reaches the page, at the latest by a message before the k-th.
ReachesBefore(v, k) ==
  Reaches(v) \/ \E j \in 1 .. k - 1 : down[ws][j].version = v

\* What a request does not ask for, or an answer does not bring, reaches.
AskedFromComplete(q) ==
  ~ q.first =>
    \A v \in Kept :
      \/ Reaches(v)
      \/ ~ q.answered /\ v > q.since
      \/ q.answered /\ (v > q.answer.version \/ q.answer.status = 410)

NothingMissing ==
  page = "loaded" =>
    /\ \A v \in Kept : v <= lastVersion => Reaches(v)
    /\ \A r \in 1 .. Len(requests) : AskedFromComplete(requests[r])
    /\ Greeted =>
         \A k \in 1 .. Len(down[ws]) : \A v \in Kept :
           v < down[ws][k].version => ReachesBefore(v, k)
    /\ Greeted /\ Connected =>
         \A v \in Kept : ReachesBefore(v, Len(down[ws]) + 1)

Safe == Registered /\ Handshake /\ DownIsTrue /\ AnswersAreTrue /\ NotAhead
          /\ FirstIsFirst /\ NoEcho

IInv == Types /\ Safe /\ NothingMissing

-----------------------------------------------------------------------------
(* The log                                                                  *)

LEMMA LogAssumed == LogFacts!LogAssumption
BY BoundsAssumption DEF LogFacts!LogAssumption, Me, Other

LEMMA LogTyped == LogFacts!IInv => Log!TypeOK
<1> USE DEF LogFacts!IInv, LogFacts!TypeOK, Log!TypeOK, LogFacts!Versions,
            Log!Versions, LogFacts!Entries, Log!Entries, LogFacts!Senders, Log!Senders
<1> QED
  OBVIOUS

LEMMA LogStays ==
  ASSUME LogFacts!IInv, UNCHANGED logVars
  PROVE  LogFacts!IInv' /\ Log!TypeOK'
<1>1. LogFacts!IInv'
  BY LogAssumed, LogFacts!NextIInv DEF logVars, LogFacts!vars, LogFacts!LogAssumption
<1> QED
  BY <1>1, LogTyped, PTL

LEMMA LogGrows ==
  ASSUME LogFacts!IInv, NEW s \in {Me, Other}, NEW c \in Changes,
         Log!AddChangeLogEntry(s, c)
  PROVE  /\ LogFacts!IInv' /\ Log!TypeOK'
         /\ currentVersion' = currentVersion + 1
         /\ currentVersion' \in 1 .. MaxVersion
         /\ \A v \in 1 .. currentVersion : history'[v] = history[v]
         /\ history'[currentVersion + 1].sender = s
<1>1. LogFacts!AddChangeLogEntry(s, c)
  <2>1. \A f : LogFacts!Trim(f) = Log!Trim(f)
    BY Zenon DEF LogFacts!Trim, Log!Trim, LogFacts!Keep, Log!Keep,
                 LogFacts!Cardinality, Log!Cardinality
  <2>2. \A f, v, e : LogFacts!Add(f, v, e) = Log!Add(f, v, e)
    BY DEF LogFacts!Add, Log!Add
  <2> QED
    BY <2>1, <2>2, Zenon DEF LogFacts!AddChangeLogEntry, Log!AddChangeLogEntry
<1>2. LogFacts!IInv'
  BY <1>1, LogAssumed, LogFacts!AddKeepsIInv
     DEF LogFacts!LogAssumption, LogFacts!Senders
<1>3. Log!TypeOK'
  BY <1>2, LogTyped, PTL
<1>4. /\ currentVersion \in Nat
      /\ DOMAIN history = 1 .. currentVersion
      /\ currentVersion < MaxVersion
      /\ currentVersion' = currentVersion + 1
      /\ history' = Log!Add(history, currentVersion + 1, [sender |-> s, change |-> c])
  BY DEF LogFacts!IInv, LogFacts!TypeOK, Log!AddChangeLogEntry
<1>5. currentVersion' \in 1 .. MaxVersion
  BY <1>4, BoundsAssumption
<1>6. /\ \A v \in 1 .. currentVersion : history'[v] = history[v]
      /\ history'[currentVersion + 1].sender = s
  BY <1>4 DEF Log!Add
<1> QED
  BY <1>2, <1>3, <1>4, <1>5, <1>6

LEMMA AnswerFacts ==
  ASSUME LogFacts!IInv, currentVersion >= 1, NEW since \in Versions
  PROVE  LET a == Log!GetChangesSince(since, Me) IN
         /\ a \in Answers /\ a.version = currentVersion /\ AnswerIsTrue(a)
         /\ since = 0 => a.status = 200
         /\ a.status = 200 => \A v \in 1 .. currentVersion :
              \/ v <= since
              \/ history[v].sender = Me
              \/ v \in a.changes
              \/ since = 0 /\ v \notin DOMAIN log
<1> DEFINE a == Log!GetChangesSince(since, Me)
<1>1. /\ currentVersion \in Versions /\ currentVersion \in 1 .. MaxVersion
      /\ DOMAIN log = {v \in 1 .. currentVersion : v > currentVersion - MaxLogEntries}
      /\ \A v \in DOMAIN log : log[v] = history[v]
  BY DEF LogFacts!IInv, LogFacts!TypeOK, LogFacts!LogIsNewest, Versions
<1>2. DOMAIN log # {} /\ since \in Nat /\ MaxLogEntries \in Nat
  <2>1. currentVersion \in DOMAIN log
    BY <1>1, BoundsAssumption
  <2> QED
    BY <2>1, BoundsAssumption DEF Versions
<1>3. CASE since >= currentVersion
  <2>1. a = [status |-> 200, version |-> currentVersion, changes |-> {}]
    BY <1>3 DEF Log!GetChangesSince, Log!NothingSince, Log!Answer
  <2> QED
    BY <1>1, <1>2, <1>3, <2>1 DEF Answers, AnswerIsTrue
<1>4. CASE ~ (since >= currentVersion) /\ since > 0 /\ Log!TooOld(since)
  <2>1. a = [status |-> 410, version |-> currentVersion]
    BY <1>2, <1>4 DEF Log!GetChangesSince, Log!NothingSince, Log!Expired
  <2> QED
    BY <1>1, <1>2, <1>4, <2>1 DEF Answers, AnswerIsTrue
<1>5. CASE ~ (since >= currentVersion) /\ ~ (since > 0 /\ Log!TooOld(since))
  <2> DEFINE new == {v \in DOMAIN log : v > since /\ log[v].sender # Me}
  <2>1. a = [status |-> 200, version |-> currentVersion, changes |-> new]
    BY <1>2, <1>5 DEF Log!GetChangesSince, Log!NothingSince, Log!Answer
  <2>2. new \subseteq {v \in 1 .. currentVersion : history[v].sender # Me}
    BY <1>1
  <2>3. since > 0 => \A v \in 1 .. currentVersion : v > since => v \in DOMAIN log
    BY <1>1, <1>2, <1>5, BoundsAssumption DEF Log!TooOld
  <2>4. a \in Answers
    <3>1. new \in SUBSET Versions
      BY <1>1, <2>2, BoundsAssumption DEF Versions
    <3> QED
      BY <1>1, <2>1, <3>1 DEF Answers
  <2>5. AnswerIsTrue(a)
    BY <1>1, <2>1, <2>2 DEF AnswerIsTrue
  <2>6. \A v \in 1 .. currentVersion :
          v <= since \/ history[v].sender = Me \/ v \in new
            \/ (since = 0 /\ v \notin DOMAIN log)
    BY <1>1, <1>2, <2>3
  <2> QED
    BY <2>1, <2>4, <2>5, <2>6
<1> QED
  BY <1>3, <1>4, <1>5

-----------------------------------------------------------------------------
(* Lemmas about what reaches the page                                       *)

\* Of the changes that are never left out, a request brings what it asked for
\* or what its answer lists.
Carries(q, v) ==
  IF q.answered
    THEN \/ q.first /\ v <= q.answer.version
         \/ q.answer.status = 410
         \/ v \in q.answer.changes
    ELSE q.first \/ q.since < v

LEMMA KeptBrings ==
  /\ \A q : \A v \in Kept : Brings(q, v) <=> Carries(q, v)
  /\ (\A q : \A v \in Kept : Brings(q, v) <=> Carries(q, v))'
<1>1. \A S : \A v \in Kept : v \in Covered(S) <=> v \in S
  BY DEF Kept, Covered
<1>2. (\A S : \A v \in Kept : v \in Covered(S) <=> v \in S)'
  BY DEF Kept, Covered
<1>3. \A q : \A v \in Kept : Brings(q, v) <=> Carries(q, v)
  BY <1>1 DEF Brings, Carries
<1>4. (\A q : \A v \in Kept : Brings(q, v) <=> Carries(q, v))'
  BY <1>2 DEF Brings, Carries
<1> QED
  BY <1>3, <1>4

\* A change that reaches the page goes on to, if what carries it is replaced.
LEMMA ReachesStays ==
  ASSUME Types, requests' \in Seq(Requests), NEW v \in Kept, Reaches(v), v \in Kept',
         DoneOrOwed(v) => DoneOrOwed(v)',
         \A r \in 1 .. Len(requests) : Carries(requests[r], v) =>
           \/ DoneOrOwed(v)'
           \/ \E q \in 1 .. Len(requests') : Carries(requests'[q], v)
  PROVE  Reaches(v)'
<1>1. /\ DOMAIN requests = 1 .. Len(requests)
      /\ DOMAIN requests' = 1 .. Len(requests')
  BY DEF Types
<1> QED
  BY <1>1, KeptBrings DEF Reaches

-----------------------------------------------------------------------------
LEMMA InitIInv == Init => IInv
<1> SUFFICES ASSUME Init PROVE IInv
  OBVIOUS
<1> USE BoundsAssumption
<1>1. LogFacts!IInv
  <2>1. /\ currentVersion = 1 /\ log = history /\ history = <<FirstEntry>>
        /\ DOMAIN history = {1} /\ history[1] = FirstEntry
    BY DEF Init
  <2>2. FirstEntry \in LogFacts!Entries
    BY KindsAssumption DEF FirstEntry, LogFacts!Entries, LogFacts!Senders
  <2>3. history \in [{1} -> LogFacts!Entries]
    BY <2>1, <2>2
  <2>4. LogFacts!TypeOK
    BY <2>1, <2>3 DEF LogFacts!TypeOK, LogFacts!Versions
  <2>5. LogFacts!LogIsNewest
    BY <2>1 DEF LogFacts!LogIsNewest
  <2> QED
    BY <2>4, <2>5 DEF LogFacts!IInv
<1>2. Types
  <2>1. Log!TypeOK
    BY <1>1, LogTyped
  <2>2. down \in [Conns -> Seq(Messages)] /\ up \in [Conns -> Seq({"auth", "caught-up"})]
    BY DEF Init
  <2>3. requests \in Seq(Requests) /\ Len(requests) = 0
    BY DEF Init
  <2>4. /\ {clients, lastAuth} \subseteq 0 .. MaxConns /\ ws \in 0 .. MaxConns
        /\ lastVersion \in 0 .. MaxVersion /\ base \in -1 .. MaxVersion
        /\ failures \in 0 .. MaxFailures /\ returns \in 0 .. MaxReturns
        /\ Len(requests) <= MaxRequests
    BY <2>3 DEF Init
  <2>5. {told, owed} \subseteq SUBSET (1 .. currentVersion)
    BY DEF Init
  <2>6. TypeOK
    BY <2>1, <2>4, <2>5 DEF Init, TypeOK
  <2> QED
    BY <1>1, <2>2, <2>3, <2>6 DEF Types, Init
<1>3. Safe
  BY DEF Init, Safe, Registered, RegistrationLasts, Handshake, DownIsTrue,
         AnswersAreTrue, NotAhead, FirstIsFirst, NoEcho, Conns
<1>4. NothingMissing
  <2>1. \A v \in Kept : ~ (v <= lastVersion)
    BY DEF Kept, Init
  <2>2. Len(requests) = 0 /\ ~ Greeted
    BY DEF Init, Greeted
  <2> QED
    BY <2>1, <2>2 DEF NothingMissing
<1> QED
  BY <1>2, <1>3, <1>4 DEF IInv

-----------------------------------------------------------------------------
(* Connections that open, break and close: nothing the page knows changes   *)

Links == {"none", "unauth", "open", "closing", "closed"}

knownVars == <<logVars, page, lastVersion, isFirstConnect, returns, requests,
               base, owed, failures, told>>

LEMMA QuietTypes ==
  ASSUME Types, UNCHANGED knownVars,
         clients' \in 0 .. MaxConns, lastAuth' \in 0 .. MaxConns, ws' \in 0 .. MaxConns,
         fresh' \in BOOLEAN, server' \in [Conns -> Links],
         broken' \subseteq Conns, caughtUp' \subseteq Conns,
         down' \in [Conns -> Seq(Messages)],
         up' \in [Conns -> Seq({"auth", "caught-up"})]
  PROVE  Types'
<1>1. LogFacts!IInv' /\ Log!TypeOK'
  BY LogStays DEF Types, knownVars
<1>2. currentVersion' = currentVersion
  BY DEF knownVars, logVars
<1>3. TypeOK'
  BY <1>1, <1>2 DEF Types, TypeOK, knownVars, Links
<1> QED
  BY <1>1, <1>2, <1>3 DEF Types, knownVars

LEMMA QuietMissing ==
  ASSUME IInv, UNCHANGED knownVars,
         Greeted' => \/ down'[ws'] = <<>>
                     \/ ws' = ws /\ down'[ws] = down[ws] /\ Greeted,
         (Greeted /\ Connected)' =>
           Greeted /\ Connected /\ ws' = ws /\ down'[ws] = down[ws]
  PROVE  NothingMissing'
<1>1. Kept' = Kept
  BY DEF Kept, knownVars, logVars
<1>2. \A v : Reaches(v)' <=> Reaches(v)
  BY DEF Reaches, DoneOrOwed, Done, Brings, Covered, Prompts, RootChanges, knownVars, logVars
<1>3. SUFFICES ASSUME page = "loaded"
      PROVE  /\ (\A v \in Kept : v <= lastVersion => Reaches(v))'
             /\ (\A r \in 1 .. Len(requests) : AskedFromComplete(requests[r]))'
             /\ (Greeted =>
                   \A k \in 1 .. Len(down[ws]) : \A v \in Kept :
                     v < down[ws][k].version => ReachesBefore(v, k))'
             /\ (Greeted /\ Connected =>
                   \A v \in Kept : ReachesBefore(v, Len(down[ws]) + 1))'
  BY DEF NothingMissing, knownVars
<1>4. (\A v \in Kept : v <= lastVersion => Reaches(v))'
  BY <1>1, <1>2, <1>3 DEF IInv, NothingMissing, knownVars
<1>5. (\A r \in 1 .. Len(requests) : AskedFromComplete(requests[r]))'
  BY <1>1, <1>2, <1>3 DEF IInv, NothingMissing, AskedFromComplete, knownVars
<1>6. ASSUME Greeted', NEW k \in 1 .. Len(down'[ws']), NEW v \in Kept,
             v < down'[ws'][k].version
      PROVE  ReachesBefore(v, k)'
  <2>1. down'[ws'] # <<>>
    BY <1>6
  <2> QED
    BY <1>2, <1>3, <1>6, <2>1 DEF IInv, NothingMissing, ReachesBefore
<1>7. ASSUME (Greeted /\ Connected)', NEW v \in Kept
      PROVE  ReachesBefore(v, Len(down[ws]) + 1)'
  BY <1>2, <1>3, <1>7 DEF IInv, NothingMissing, ReachesBefore
<1> QED
  BY <1>1, <1>4, <1>5, <1>6, <1>7

\* What of Safe is not about connections.
LEMMA QuietSafe ==
  ASSUME IInv, UNCHANGED knownVars, Registered', Handshake',
         \A i \in Conns : \A k \in 1 .. Len(down'[i]) :
           \/ k \in 1 .. Len(down[i]) /\ down'[i][k] = down[i][k]
           \/ k = 1 /\ down'[i][k].type = "auth-result"
  PROVE  Safe'
<1> USE DEF knownVars, logVars
<1>1. \A m : MessageIsTrue(m)' <=> MessageIsTrue(m)
  BY DEF MessageIsTrue
<1>2. DownIsTrue'
  BY <1>1 DEF IInv, Safe, DownIsTrue, MessageIsTrue
<1>3. AnswersAreTrue' /\ NotAhead' /\ FirstIsFirst' /\ NoEcho'
  BY DEF IInv, Safe, AnswersAreTrue, AnswerIsTrue, NotAhead, FirstIsFirst, NoEcho
<1> QED
  BY <1>2, <1>3 DEF Safe

LEMMA Wires ==
  ASSUME IInv
  PROVE  /\ clients \in 0 .. MaxConns /\ lastAuth \in 0 .. MaxConns
         /\ ws \in 0 .. MaxConns /\ MaxConns \in Nat
         /\ Conns = 1 .. MaxConns
         /\ fresh \in BOOLEAN /\ server \in [Conns -> Links]
         /\ broken \subseteq Conns /\ caughtUp \subseteq Conns
         /\ down \in [Conns -> Seq(Messages)]
         /\ up \in [Conns -> Seq({"auth", "caught-up"})]
         /\ Registered /\ Handshake
BY BoundsAssumption DEF IInv, Types, TypeOK, Safe, Links, Conns

LEMMA OnAuthIInv == ASSUME IInv, NEW i \in Conns, OnAuth(i) PROVE IInv'
<1> DEFINE greeting == [type |-> "auth-result", version |-> 0]
<1>1. /\ server[i] = "unauth" /\ down[i] = <<>>
      /\ up[i] \in Seq({"auth", "caught-up"}) /\ up[i] # <<>>
      /\ up' = [up EXCEPT ![i] = Tail(up[i])]
      /\ \A k \in 1 .. Len(up[i]) : up[i][k] = "auth" => k = 1
  <2>1. up[i] \in Seq({"auth", "caught-up"}) /\ up[i] # <<>> /\ Head(up[i]) = "auth"
    BY Wires DEF OnAuth, Receives
  <2>2. 1 \in 1 .. Len(up[i]) /\ up[i][1] = "auth"
    BY <2>1
  <2> QED
    BY <2>1, <2>2, Wires DEF OnAuth, Receives, Handshake
<1>2. UNCHANGED knownVars /\ UNCHANGED <<ws, broken>>
  BY DEF OnAuth, pageVars, knownVars
<1>3. /\ down' \in [Conns -> Seq(Messages)]
      /\ \A j \in Conns : j # i => down'[j] = down[j]
      /\ down'[i] = <<>> \/ (Len(down'[i]) = 1 /\ down'[i][1] = greeting)
      /\ i \notin broken => Len(down'[i]) = 1 /\ down'[i][1] = greeting
  <2>1. greeting \in Messages
    BY BoundsAssumption DEF Messages, Versions
  <2>2. Append(down[i], greeting) \in Seq(Messages)
        /\ Len(Append(down[i], greeting)) = 1
        /\ Append(down[i], greeting)[1] = greeting
    BY <1>1, <2>1
  <2> QED
    BY <1>1, <2>2, Wires DEF OnAuth, Send
<1>4. up' \in [Conns -> Seq({"auth", "caught-up"})]
  BY <1>1, Wires
<1>5. Types'
  <2>1. server' \in [Conns -> Links] /\ clients' \in 0 .. MaxConns /\ lastAuth' \in 0 .. MaxConns
    BY Wires DEF OnAuth, Links
  <2> QED
    BY <1>2, <1>3, <1>4, <2>1, QuietTypes, Wires DEF IInv, OnAuth
<1>6. Registered'
  BY Wires DEF OnAuth, Registered, RegistrationLasts
<1>7. Handshake'
  <2>1. \A k \in 1 .. Len(up'[i]) : up'[i][k] # "auth"
    <3>1. up'[i] = Tail(up[i])
      BY <1>1, Wires
    <3>2. \A k \in 1 .. Len(Tail(up[i])) :
            /\ k + 1 \in 1 .. Len(up[i]) /\ k + 1 # 1
            /\ Tail(up[i])[k] = up[i][k + 1]
      BY <1>1
    <3> QED
      BY <1>1, <3>1, <3>2
  <2>2. server'[i] = "open"
    BY Wires DEF OnAuth
  <2>3. \A j \in Conns : j # i => /\ server'[j] = server[j] /\ up'[j] = up[j]
                                  /\ down'[j] = down[j]
    BY <1>1, <1>3, Wires DEF OnAuth
  <2> QED
    BY SMTT(30), <2>1, <2>2, <2>3, Wires DEF Handshake
<1>8. Safe'
  <2>1. \A j \in Conns : \A k \in 1 .. Len(down'[j]) :
          \/ k \in 1 .. Len(down[j]) /\ down'[j][k] = down[j][k]
          \/ k = 1 /\ down'[j][k].type = "auth-result"
    BY <1>3
  <2> QED
    BY <1>2, <1>6, <1>7, <2>1, QuietSafe
<1>9. NothingMissing'
  <2>1. CASE ws = i
    <3>1. Greeted' => down'[ws'] = <<>> /\ i \in broken
      BY <1>2, <1>3, <2>1 DEF Greeted
    <3>2. ~ (Greeted /\ Connected)'
      BY <1>2, <2>1, <3>1 DEF Connected
    <3> QED
      BY <1>2, <3>1, <3>2, QuietMissing
  <2>2. CASE ws # i
    <3>1. ~ Connected'
      BY <1>2, <2>2 DEF OnAuth, Connected
    <3>2. Greeted' => Greeted /\ down'[ws] = down[ws]
      BY <1>2, <1>3, <2>2, Wires DEF Greeted
    <3> QED
      BY <1>2, <3>1, <3>2, QuietMissing
  <2> QED
    BY <2>1, <2>2
<1> QED
  BY <1>5, <1>8, <1>9 DEF IInv

\* Steps after which the page's connection says what it said before.
LEMMA LineIInv ==
  ASSUME IInv, UNCHANGED <<knownVars, ws, down, lastAuth>>, clients' \in {0, clients},
         fresh' \in BOOLEAN, server' \in [Conns -> Links],
         caughtUp' \subseteq Conns, broken \subseteq broken', broken' \subseteq Conns,
         up' \in [Conns -> Seq({"auth", "caught-up"})],
         Registered', Handshake'
  PROVE  IInv'
<1>1. Types'
  BY Wires, QuietTypes DEF IInv
<1>2. Safe'
  BY QuietSafe
<1>3. (Greeted' <=> Greeted) /\ (Connected' => Connected)
  BY DEF Greeted, Connected
<1>4. NothingMissing'
  BY <1>3, QuietMissing
<1> QED
  BY <1>1, <1>2, <1>4 DEF IInv

LEMMA HandshakeStays ==
  ASSUME IInv, UNCHANGED down, NEW i \in Conns, NEW s \in Links, NEW u,
         server' = [server EXCEPT ![i] = s] \/ (server' = server /\ s = server[i]),
         up' = [up EXCEPT ![i] = u], s \in {"none", "unauth"} => server[i] = s,
         u \in Seq({"auth", "caught-up"}),
         \A k \in 1 .. Len(u) : u[k] = "auth" => k = 1 /\ s = "unauth"
  PROVE  /\ Handshake' /\ server' \in [Conns -> Links]
         /\ up' \in [Conns -> Seq({"auth", "caught-up"})]
<1>1. \A j \in Conns : j # i => server'[j] = server[j] /\ up'[j] = up[j]
  BY Wires
<1>2. server'[i] = s /\ up'[i] = u
  BY Wires
<1>3. server' \in [Conns -> Links] /\ up' \in [Conns -> Seq({"auth", "caught-up"})]
  BY Wires
<1> QED
  BY <1>1, <1>2, <1>3, Wires DEF Handshake

\* What is left of what the page sent, after a message was read.
LEMMA RestOfUp ==
  ASSUME IInv, NEW i \in Conns, up[i] # <<>>, Head(up[i]) # "auth" \/ server[i] # "unauth"
  PROVE  /\ Tail(up[i]) \in Seq({"auth", "caught-up"})
         /\ \A k \in 1 .. Len(Tail(up[i])) : Tail(up[i])[k] # "auth"
<1>1. up[i] \in Seq({"auth", "caught-up"})
  BY Wires
<1>2. \A k \in 1 .. Len(Tail(up[i])) :
        /\ k + 1 \in 1 .. Len(up[i]) /\ k + 1 # 1
        /\ Tail(up[i])[k] = up[i][k + 1]
  BY <1>1
<1> QED
  BY <1>1, <1>2, Wires DEF Handshake

LEMMA ReadIInv ==
  ASSUME IInv, NEW i \in Conns, OnCaughtUp(i) \/ OnIgnored(i)
  PROVE  IInv'
<1>1. /\ up[i] # <<>> /\ Head(up[i]) = "caught-up"
      /\ up' = [up EXCEPT ![i] = Tail(up[i])]
      /\ UNCHANGED <<knownVars, ws, down, lastAuth, clients, server, broken>>
      /\ fresh' \in BOOLEAN /\ caughtUp' \subseteq Conns
  BY Wires DEF OnCaughtUp, OnIgnored, Receives, serverVars, pageVars, knownVars
<1>2. /\ Tail(up[i]) \in Seq({"auth", "caught-up"})
      /\ \A k \in 1 .. Len(Tail(up[i])) : Tail(up[i])[k] # "auth"
  BY <1>1, RestOfUp
<1>3. /\ Handshake' /\ server' \in [Conns -> Links]
      /\ up' \in [Conns -> Seq({"auth", "caught-up"})]
  <2> DEFINE s == server[i]
  <2>1. s \in Links
    BY Wires
  <2> HIDE DEF s
  <2>2. server' = server /\ s = server[i]
    BY <1>1 DEF s
  <2> QED
    BY <1>1, <1>2, <2>1, <2>2, HandshakeStays
<1>4. Registered'
  BY <1>1, Wires DEF Registered, RegistrationLasts
<1> QED
  BY <1>1, <1>3, <1>4, LineIInv, Wires

\* The server gives a connection up, or notices that it is gone.
LEMMA DropIInv ==
  ASSUME IInv, NEW i \in Conns,
         \/ OnAuthRefused(i)
         \/ OnServerClose(i)
         \/ HeartbeatTerminate /\ i = clients
  PROVE  IInv'
<1>1. PICK s \in {"closing", "closed"} :
        /\ server' = [server EXCEPT ![i] = s]
        /\ up' = [up EXCEPT ![i] = <<>>]
  BY DEF OnAuthRefused, OnServerClose, CloseEvent, HeartbeatTerminate
<1>2. /\ UNCHANGED <<knownVars, ws, down, lastAuth>>
      /\ clients' \in {0, clients}
      /\ clients = i => clients' = 0 \/ server[i] = "unauth"
      /\ clients # i => clients' = clients
      /\ broken \subseteq broken' /\ broken' \subseteq Conns
      /\ caughtUp' \subseteq Conns /\ fresh' \in BOOLEAN
  BY Wires DEF OnAuthRefused, OnServerClose, CloseEvent, HeartbeatTerminate, Cut,
               pageVars, knownVars
<1>3. /\ Handshake' /\ server' \in [Conns -> Links]
      /\ up' \in [Conns -> Seq({"auth", "caught-up"})]
  <2> DEFINE u == <<>>
  <2>1. /\ s \in Links /\ s \notin {"none", "unauth"}
        /\ u \in Seq({"auth", "caught-up"})
        /\ \A k \in 1 .. Len(u) : u[k] = "auth" => k = 1 /\ s = "unauth"
    BY DEF Links
  <2>2. up' = [up EXCEPT ![i] = u] /\ UNCHANGED down
    BY <1>1, <1>2
  <2> HIDE DEF u
  <2> QED
    BY <1>1, <2>1, <2>2, HandshakeStays
<1>4. Registered'
  BY <1>1, <1>2, Wires DEF Registered, RegistrationLasts
<1> QED
  BY <1>2, <1>3, <1>4, LineIInv

LEMMA BreakIInv == ASSUME IInv, NEW i \in Conns, Break(i) PROVE IInv'
<1> DEFINE u == IF "auth" \in Range(up[i]) THEN <<"auth">> ELSE <<>>
<1>1. /\ up' = [up EXCEPT ![i] = u]
      /\ UNCHANGED <<knownVars, ws, down, lastAuth, clients, server, fresh, caughtUp>>
      /\ broken \subseteq broken' /\ broken' \subseteq Conns
  BY Wires DEF Break, Cut, serverVars, pageVars, knownVars
<1>2. "auth" \in Range(up[i]) => server[i] = "unauth"
  <2>1. up[i] \in Seq({"auth", "caught-up"})
    BY Wires
  <2>2. DOMAIN up[i] = 1 .. Len(up[i])
    BY <2>1
  <2> QED
    BY <2>2, Wires DEF Range, Handshake
<1>3. u \in Seq({"auth", "caught-up"})
      /\ \A k \in 1 .. Len(u) : u[k] = "auth" => k = 1 /\ server[i] = "unauth"
  <2>1. CASE "auth" \in Range(up[i])
    <3>1. u = <<"auth">>
      BY <2>1
    <3> HIDE DEF u
    <3> QED
      BY <1>2, <2>1, <3>1
  <2>2. CASE "auth" \notin Range(up[i])
    <3>1. u = <<>>
      BY <2>2
    <3> HIDE DEF u
    <3> QED
      BY <3>1
  <2> QED
    BY <2>1, <2>2
<1> HIDE DEF u
<1>4. /\ Handshake' /\ server' \in [Conns -> Links]
      /\ up' \in [Conns -> Seq({"auth", "caught-up"})]
  <2> DEFINE s == server[i]
  <2>1. s \in Links
    BY Wires
  <2>2. \A k \in 1 .. Len(u) : u[k] = "auth" => k = 1 /\ s = "unauth"
    BY <1>3
  <2> HIDE DEF s
  <2>3. server' = server /\ s = server[i]
    BY <1>1 DEF s
  <2> QED
    BY <1>1, <1>3, <2>1, <2>2, <2>3, HandshakeStays
<1>5. Registered'
  BY <1>1, Wires DEF Registered, RegistrationLasts
<1> QED
  BY <1>1, <1>4, <1>5, LineIInv, Wires

\* The page opens a connection, or notices that it lost one.
LEMMA ConnectIInv == ASSUME IInv, NEW i \in Conns, Connect(i) PROVE IInv'
<1>1. /\ UNCHANGED <<knownVars, down, lastAuth, clients, fresh, caughtUp, broken>>
      /\ ws' = i /\ server[i] = "none"
      /\ server' = [server EXCEPT ![i] = "unauth"]
      /\ up' = [up EXCEPT ![i] = <<"auth">>]
  BY DEF Connect, knownVars
<1>2. server' \in [Conns -> Links] /\ up' \in [Conns -> Seq({"auth", "caught-up"})]
  BY <1>1, Wires DEF Links
<1>3. Types'
  BY <1>1, <1>2, QuietTypes, Wires DEF IInv
<1>4. down[i] = <<>> /\ clients # i
  BY <1>1, Wires DEF Handshake, Registered
<1>5. Registered'
  BY <1>1, Wires DEF Registered, RegistrationLasts
<1>6. Handshake'
  <2>1. /\ server'[i] = "unauth" /\ Len(up'[i]) = 1 /\ down'[i] = <<>>
        /\ \A j \in Conns : j # i => server'[j] = server[j] /\ up'[j] = up[j]
    BY <1>1, <1>4, Wires
  <2> QED
    BY SMTT(30), <1>1, <2>1, Wires DEF Handshake
<1>7. Safe'
  BY <1>1, <1>5, <1>6, QuietSafe
<1>8. NothingMissing'
  <2>1. down'[ws'] = <<>> /\ ~ Connected'
    BY <1>1, <1>4 DEF Connected
  <2> QED
    BY <1>1, <2>1, QuietMissing
<1> QED
  BY <1>3, <1>7, <1>8 DEF IInv

LEMMA ClientCloseIInv == IInv /\ OnClientClose => IInv'
<1> SUFFICES ASSUME IInv, OnClientClose PROVE IInv'
  OBVIOUS
<1>1. /\ UNCHANGED <<knownVars, lastAuth, clients, fresh, caughtUp, broken, server, up>>
      /\ ws' = 0 /\ ws \in Conns
      /\ down' = [down EXCEPT ![ws] = <<>>]
  BY Wires DEF OnClientClose, knownVars, serverVars
<1>2. /\ down' \in [Conns -> Seq(Messages)]
      /\ \A j \in Conns : down'[j] = down[j] \/ down'[j] = <<>>
  BY <1>1, Wires
<1>3. Types'
  BY <1>1, <1>2, QuietTypes, Wires DEF IInv
<1>4. Registered' /\ Handshake'
  BY <1>1, <1>2, Wires DEF Registered, RegistrationLasts, Handshake
<1>5. Safe'
  <2>1. \A i \in Conns : \A k \in 1 .. Len(down'[i]) :
          k \in 1 .. Len(down[i]) /\ down'[i][k] = down[i][k]
    BY <1>2
  <2> QED
    BY <1>1, <1>4, <2>1, QuietSafe
<1>6. NothingMissing'
  <2>1. ~ Greeted'
    BY <1>1 DEF Greeted
  <2> QED
    BY <1>1, <2>1, QuietMissing
<1> QED
  BY <1>3, <1>5, <1>6 DEF IInv

-----------------------------------------------------------------------------
(* A write                                                                  *)

LEMMA Numbers ==
  ASSUME Types
  PROVE  /\ currentVersion \in Nat /\ lastVersion \in Nat /\ Len(requests) \in Nat
         /\ base \in Int
         /\ DOMAIN requests = 1 .. Len(requests)
         /\ \A r \in 1 .. Len(requests) :
              /\ requests[r] \in Requests /\ requests[r].since \in Nat
              /\ requests[r].answer \in Answers /\ requests[r].answer.version \in Nat
<1>1. currentVersion \in Nat
  BY DEF Types, LogFacts!IInv, LogFacts!TypeOK
<1>2. requests \in Seq(Requests) /\ lastVersion \in Nat /\ base \in Int
  BY DEF Types, TypeOK
<1>3. \A r \in 1 .. Len(requests) : requests[r] \in Requests
  BY <1>2, ElementOfSeq
<1>4. \A q \in Requests : q.since \in Nat /\ q.answer \in Answers
  BY DEF Requests, Versions
<1>5. \A a \in Answers : a.version \in Nat
  BY DEF Answers, Versions
<1> QED
  BY <1>1, <1>2, <1>3, <1>4, <1>5

LEMMA WriteIInv ==
  ASSUME IInv, NEW s \in {Me, Other}, NEW c \in Changes, page = "loaded", Write(s, c)
  PROVE  IInv'
<1> DEFINE n == currentVersion
<1> DEFINE m == [type |-> IF s = Me THEN "version-update" ELSE "blocks-changed",
                 version |-> n + 1]
<1>1. /\ LogFacts!IInv' /\ Log!TypeOK'
      /\ currentVersion' = n + 1 /\ n + 1 \in 1 .. MaxVersion /\ n \in Nat
      /\ \A v \in 1 .. n : history'[v] = history[v]
      /\ history'[n + 1].sender = s
  <2>1. n \in Nat
    BY DEF IInv, Types, LogFacts!IInv, LogFacts!TypeOK
  <2> QED
    BY <2>1, LogGrows DEF IInv, Types, Write
<1>2. UNCHANGED <<serverVars, broken, up, pageVars>>
  BY DEF Write
<1>3. \/ UNCHANGED down /\ (clients = 0 \/ clients \in broken)
      \/ /\ clients \in Conns /\ clients \notin broken
         /\ down' = [down EXCEPT ![clients] = Append(down[clients], m)]
  <2>1. clients # 0 => server[clients] = "open" /\ clients \in Conns
    BY Wires DEF Registered
  <2> QED
    BY <2>1 DEF Write, Broadcast, Send
<1>4. m \in Messages /\ m.version = n + 1 /\ m.type # "auth-result"
      /\ (m.type = "version-update" <=> s = Me)
  BY <1>1 DEF Messages, Versions
<1> HIDE DEF m
\* One message more at most, on the registered connection.
<1>5. /\ down' \in [Conns -> Seq(Messages)]
      /\ \A i \in Conns :
           \/ down'[i] = down[i]
           \/ /\ i = clients /\ i \notin broken
              /\ Len(down'[i]) = Len(down[i]) + 1
              /\ down'[i][Len(down[i]) + 1] = m
              /\ \A k \in 1 .. Len(down[i]) : down'[i][k] = down[i][k]
      /\ clients # 0 /\ clients \notin broken => down'[clients] # down[clients]
  <2>1. CASE UNCHANGED down /\ (clients = 0 \/ clients \in broken)
    BY <2>1, Wires
  <2>2. CASE /\ clients \in Conns /\ clients \notin broken
             /\ down' = [down EXCEPT ![clients] = Append(down[clients], m)]
    <3> DEFINE d == Append(down[clients], m)
    <3>1. down[clients] \in Seq(Messages)
      BY <2>2, Wires
    <3>2. /\ d \in Seq(Messages) /\ Len(d) = Len(down[clients]) + 1
          /\ d[Len(down[clients]) + 1] = m
          /\ \A k \in 1 .. Len(down[clients]) : d[k] = down[clients][k]
      BY <1>4, <3>1
    <3>3. d # down[clients]
      <4> SUFFICES ASSUME d = down[clients] PROVE FALSE
        OBVIOUS
      <4>1. Len(d) = Len(down[clients])
        BY Zenon
      <4>2. Len(down[clients]) \in Nat
        BY <3>1
      <4> HIDE DEF d
      <4> QED
        BY <3>2, <4>1, <4>2
    <3> HIDE DEF d
    <3>4. down' = [down EXCEPT ![clients] = d]
      BY <2>2 DEF d
    <3> QED
      BY <2>2, <3>2, <3>3, <3>4, Wires
  <2> QED
    BY <1>3, <2>1, <2>2
<1>6. Types'
  <2>1. {told', owed'} \subseteq SUBSET (1 .. currentVersion')
    BY <1>1, <1>2 DEF IInv, Types, TypeOK, pageVars
  <2>2. TypeOK'
    BY <1>1, <1>2, <2>1 DEF IInv, Types, TypeOK, serverVars, pageVars
  <2> QED
    BY <1>1, <1>2, <1>5, <2>2 DEF IInv, Types, pageVars
<1>7. Registered' /\ Handshake'
  <2>1. Registered'
    BY <1>2, Wires DEF Registered, RegistrationLasts, serverVars
  <2>2. Handshake'
    BY SMTT(30), <1>2, <1>5, Wires DEF Handshake, Registered, serverVars
  <2> QED
    BY <2>1, <2>2
<1>8. DownIsTrue'
  <2> SUFFICES ASSUME NEW i \in Conns, NEW k \in 1 .. Len(down'[i])
               PROVE  /\ down'[i][k].type = "auth-result" => k = 1
                      /\ MessageIsTrue(down[i][k])'
    BY DEF DownIsTrue
  <2>1. CASE k \in 1 .. Len(down[i]) /\ down'[i][k] = down[i][k]
    BY <1>1, <2>1 DEF IInv, Safe, DownIsTrue, MessageIsTrue
  <2>2. CASE down'[i][k] = m
    BY <1>1, <1>4, <2>2 DEF MessageIsTrue
  <2> QED
    BY SMTT(30), <1>5, <2>1, <2>2, Wires
<1>9. AnswersAreTrue' /\ NotAhead' /\ FirstIsFirst' /\ NoEcho'
  <2>1. AnswersAreTrue'
    <3> SUFFICES ASSUME NEW r \in 1 .. Len(requests)
                 PROVE  AnswerIsTrue(requests[r].answer)'
      BY <1>2 DEF AnswersAreTrue, pageVars
    <3>1. AnswerIsTrue(requests[r].answer) /\ requests[r].answer.version \in Nat
      BY Numbers DEF IInv, Safe, AnswersAreTrue
    <3> QED
      BY <1>1, <1>2, <3>1 DEF AnswerIsTrue, pageVars
  <2>2. NotAhead' /\ FirstIsFirst'
    BY <1>1, <1>2, Numbers DEF IInv, Safe, NotAhead, FirstIsFirst, pageVars
  <2>3. NoEcho'
    BY <1>1, <1>2 DEF IInv, Safe, Types, TypeOK, NoEcho, pageVars
  <2> QED
    BY <2>1, <2>2, <2>3
<1>10. \A v \in Kept' : v \in Kept \/ v = n + 1
  BY <1>1 DEF Kept
<1>11. \A v \in Kept : v \in 1 .. n /\ (Reaches(v) => Reaches(v)')
  <2> SUFFICES ASSUME NEW v \in Kept, Reaches(v) PROVE Reaches(v)'
    BY DEF Kept
  <2>1. v \in Kept' /\ v \in 1 .. n
    BY <1>1 DEF Kept
  <2>2. DoneOrOwed(v) => DoneOrOwed(v)'
    BY <1>1, <1>2, <2>1 DEF DoneOrOwed, Done, pageVars
  <2> QED
    BY <1>2, <2>1, <2>2, ReachesStays DEF IInv, Types, pageVars
<1>12. NothingMissing'
  <2>1. ASSUME NEW v \in Kept', v <= lastVersion' PROVE Reaches(v)'
    <3>1. v \in Kept
      BY <1>1, <1>2, <1>10, <2>1, Numbers DEF IInv, Safe, NotAhead, pageVars
    <3> QED
      BY <1>2, <1>11, <2>1, <3>1 DEF IInv, NothingMissing, pageVars
  <2>2. ASSUME NEW r \in 1 .. Len(requests) PROVE AskedFromComplete(requests[r])'
    <3>1. /\ requests[r].since <= n /\ requests[r].answer.version <= n
          /\ requests[r].since \in Nat /\ requests[r].answer.version \in Nat
          /\ AskedFromComplete(requests[r])
      BY Numbers DEF IInv, Safe, NotAhead, AnswersAreTrue, AnswerIsTrue, NothingMissing
    <3> QED
      BY <1>1, <1>2, <1>10, <1>11, <3>1 DEF AskedFromComplete, pageVars
  <2>3. Greeted' => Greeted
    BY <1>2, <1>4, <1>5, Wires DEF Greeted, pageVars
  <2>4. (Greeted /\ Connected)' => Greeted /\ Connected
    BY <1>2, <2>3 DEF Connected, serverVars, pageVars
  <2>5. ASSUME Greeted', NEW k \in 1 .. Len(down'[ws]), NEW v \in Kept',
               v < down'[ws][k].version
        PROVE  ReachesBefore(v, k)'
    <3>1. ws \in Conns /\ Greeted /\ Len(down[ws]) \in Nat
      BY <2>3, <2>5, Wires DEF Greeted
    <3>2. CASE k \in 1 .. Len(down[ws]) /\ down'[ws][k] = down[ws][k]
      <4>1. down[ws][k].version \in 1 .. n
        BY <3>1, <3>2, Wires DEF IInv, Safe, DownIsTrue, MessageIsTrue, Greeted
      <4>2. v \in Kept
        BY <1>1, <1>10, <2>5, <3>2, <4>1
      <4>3. ReachesBefore(v, k)
        BY <2>5, <3>1, <3>2, <4>2 DEF IInv, NothingMissing
      <4> QED
        <5>1. \A j \in 1 .. k - 1 : down'[ws][j] = down[ws][j]
          BY <1>5, <3>1, <3>2
        <5>2. ws' = ws /\ (Reaches(v) => Reaches(v)')
          BY <1>2, <1>11, <4>2 DEF pageVars
        <5> QED
          BY <4>3, <5>1, <5>2 DEF ReachesBefore
    <3>3. CASE k = Len(down[ws]) + 1 /\ down'[ws][k] = m /\ ws = clients /\ ws \notin broken
      <4>1. v \in Kept /\ Connected
        BY <1>1, <1>4, <1>10, <2>5, <3>1, <3>3 DEF Connected, Greeted
      <4>2. ReachesBefore(v, k)
        BY <3>1, <3>3, <4>1 DEF IInv, NothingMissing
      <4> QED
        <5>1. \A j \in 1 .. k - 1 : down'[ws][j] = down[ws][j]
          BY <1>5, <3>1, <3>3
        <5>2. ws' = ws /\ (Reaches(v) => Reaches(v)')
          BY <1>2, <1>11, <4>1 DEF pageVars
        <5> QED
          BY <4>2, <5>1, <5>2 DEF ReachesBefore
    <3> QED
      BY <1>5, <2>5, <3>1, <3>2, <3>3
  <2>6. ASSUME (Greeted /\ Connected)', NEW v \in Kept'
        PROVE  ReachesBefore(v, Len(down[ws]) + 1)'
    <3>1. /\ ws \in Conns /\ Greeted /\ Connected /\ Len(down[ws]) \in Nat
          /\ ws = clients /\ ws \notin broken /\ ws # 0
      BY <2>4, <2>6, Wires DEF Greeted, Connected
    <3>2. /\ Len(down'[ws]) = Len(down[ws]) + 1
          /\ down'[ws][Len(down[ws]) + 1] = m
          /\ \A k \in 1 .. Len(down[ws]) : down'[ws][k] = down[ws][k]
      BY <1>5, <3>1
    <3>3. CASE v = n + 1
      BY <1>2, <1>4, <3>1, <3>2, <3>3 DEF ReachesBefore, pageVars
    <3>4. CASE v \in Kept
      <4>1. ReachesBefore(v, Len(down[ws]) + 1)
        BY <3>1, <3>4 DEF IInv, NothingMissing
      <4> QED
        BY SMTT(30), <1>2, <1>11, <3>1, <3>2, <3>4, <4>1 DEF ReachesBefore, pageVars
    <3> QED
      BY <1>10, <3>3, <3>4
  <2> QED
    BY <1>2, <2>1, <2>2, <2>5, <2>6 DEF NothingMissing, pageVars
<1> QED
  BY <1>6, <1>7, <1>8, <1>9, <1>12 DEF IInv, Safe

-----------------------------------------------------------------------------
(* The page asks                                                            *)

LEMMA PageTypes ==
  ASSUME Types, UNCHANGED <<logVars, serverVars>>,
         broken' \subseteq Conns, down' \in [Conns -> Seq(Messages)],
         up' \in [Conns -> Seq({"auth", "caught-up"})],
         requests' \in Seq(Requests), Len(requests') <= MaxRequests,
         page' \in {"loaded", "reloading"}, ws' \in 0 .. MaxConns,
         lastVersion' \in Versions, isFirstConnect' \in BOOLEAN,
         failures' \in 0 .. MaxFailures, returns' \in 0 .. MaxReturns,
         base' \in -1 .. MaxVersion,
         told' \subseteq 1 .. currentVersion, owed' \subseteq 1 .. currentVersion
  PROVE  Types'
<1>1. LogFacts!IInv' /\ Log!TypeOK'
  BY LogStays DEF Types
<1>2. currentVersion' = currentVersion
  BY DEF logVars
<1>3. TypeOK'
  BY <1>1, <1>2 DEF Types, TypeOK, serverVars, Versions
<1> QED
  BY <1>1, <1>2, <1>3 DEF Types

\* The types of what the page keeps.
LEMMA PageTyped ==
  ASSUME Types
  PROVE  /\ requests \in Seq(Requests) /\ Len(requests) <= MaxRequests
         /\ page \in {"loaded", "reloading"} /\ lastVersion \in Versions
         /\ isFirstConnect \in BOOLEAN /\ base \in -1 .. MaxVersion
         /\ failures \in 0 .. MaxFailures /\ returns \in 0 .. MaxReturns
         /\ told \subseteq 1 .. currentVersion /\ owed \subseteq 1 .. currentVersion
         /\ currentVersion \in Versions /\ currentVersion >= 1
BY DEF Types, TypeOK, Versions, LogFacts!IInv, LogFacts!TypeOK

\* A request that is sent brings every change that has not reached the page.
LEMMA Asked ==
  ASSUME IInv, page = "loaded", NEW first \in BOOLEAN, NEW since \in Versions,
         Ask(first, since), UNCHANGED <<logVars, base, told, owed, lastVersion>>,
         first => isFirstConnect /\ ~ isFirstConnect' /\ since = 0,
         ~ first => since = lastVersion,
         isFirstConnect' => isFirstConnect
  PROVE  /\ requests' \in Seq(Requests) /\ Len(requests') <= MaxRequests
         /\ AnswersAreTrue' /\ NotAhead' /\ FirstIsFirst'
         /\ Kept' = Kept
         /\ \A v \in Kept : Reaches(v)'
         /\ \A r \in 1 .. Len(requests') : AskedFromComplete(requests[r])'
<1> DEFINE a == [status |-> 200, version |-> currentVersion, changes |-> {}]
           q == [first |-> first, since |-> since, answered |-> FALSE, answer |-> a]
           n == Len(requests)
<1>1. /\ requests \in Seq(Requests) /\ currentVersion \in Versions
      /\ n < MaxRequests /\ n \in Nat /\ MaxRequests \in Nat
      /\ requests' = Append(requests, q)
  BY PageTyped, BoundsAssumption DEF IInv, Ask, Log!Answer
<1>2. a \in Answers
  BY <1>1 DEF Answers
<1>3. /\ q \in Requests
      /\ q.since = since /\ q.answer = a
  BY <1>2 DEF Requests
<1>4. (q.first <=> first) /\ ~ q.answered
  BY Zenon
<1>5. a.version <= currentVersion' /\ a.status = 200 /\ a.changes = {}
  BY <1>1 DEF logVars, Versions
<1> HIDE DEF q, a
<1>6. /\ requests' \in Seq(Requests) /\ Len(requests') = n + 1
      /\ requests'[n + 1] = q /\ n + 1 \in 1 .. Len(requests')
      /\ \A r \in 1 .. n : requests'[r] = requests[r] /\ r \in 1 .. Len(requests')
      /\ \A r \in 1 .. Len(requests') : r \in 1 .. n \/ r = n + 1
  BY <1>1, <1>3
<1>7. AnswersAreTrue'
  <2> SUFFICES ASSUME NEW r \in 1 .. Len(requests')
               PROVE  AnswerIsTrue(requests[r].answer)'
    BY DEF AnswersAreTrue
  <2>1. CASE r \in 1 .. n
    BY <1>6, <2>1 DEF IInv, Safe, AnswersAreTrue, AnswerIsTrue, logVars
  <2>2. CASE r = n + 1
    BY <1>3, <1>5, <1>6, <2>2 DEF AnswerIsTrue
  <2> QED
    BY <1>6, <2>1, <2>2
<1>8. NotAhead'
  <2>1. since <= currentVersion
    BY Numbers DEF IInv, Safe, NotAhead, Types
  <2> QED
    BY <1>3, <1>6, <2>1 DEF IInv, Safe, NotAhead, logVars
<1>9. FirstIsFirst'
  <2>1. \A r \in 1 .. n : (requests'[r].first <=> requests[r].first)
    BY <1>6, Zenon
  <2>2. requests'[n + 1].first <=> first
    BY <1>4, <1>6, Zenon
  <2> QED
    BY <1>3, <1>5, <1>6, <2>1, <2>2 DEF IInv, Safe, FirstIsFirst
<1>10. Kept' = Kept
  BY DEF Kept, logVars
<1>11. ASSUME NEW v \in Kept PROVE Reaches(v)'
  <2>1. CASE first \/ since < v
    <3>1. Carries(requests'[n + 1], v)
      BY <1>3, <1>4, <1>6, <2>1 DEF Carries
    <3>2. DOMAIN requests' = 1 .. Len(requests')
      BY <1>6
    <3> QED
      BY <1>6, <1>10, <3>1, <3>2, KeptBrings DEF Reaches
  <2>2. CASE ~ first /\ ~ (since < v)
    <3>1. Reaches(v)
      BY <2>2, Numbers DEF IInv, NothingMissing, Kept
    <3>2. DoneOrOwed(v) => DoneOrOwed(v)'
      BY DEF DoneOrOwed, Done, logVars
    <3>3. \A r \in 1 .. Len(requests) : Carries(requests[r], v) => Carries(requests'[r], v)
      BY <1>6
    <3> QED
      BY <1>6, <1>10, <3>1, <3>2, <3>3, ReachesStays DEF IInv
  <2> QED
    BY <2>1, <2>2
<1>12. \A r \in 1 .. Len(requests') : AskedFromComplete(requests[r])'
  BY <1>10, <1>11 DEF AskedFromComplete
<1> QED
  BY <1>1, <1>6, <1>7, <1>8, <1>9, <1>10, <1>11, <1>12

LEMMA OnVisibleIInv == IInv /\ OnVisible => IInv'
<1> SUFFICES ASSUME IInv, OnVisible PROVE IInv'
  OBVIOUS
<1>1. /\ page = "loaded" /\ Ask(FALSE, lastVersion)
      /\ returns' \in 0 .. MaxReturns
      /\ UNCHANGED <<logVars, serverVars, wireVars, page, ws, lastVersion,
                     isFirstConnect, base, told, owed, failures>>
  <2>1. Ask(FALSE, lastVersion)
    BY Zenon DEF OnVisible
  <2>2. returns' \in 0 .. MaxReturns
    BY PageTyped, BoundsAssumption DEF OnVisible, IInv
  <2> QED
    BY <2>1, <2>2 DEF OnVisible
<1>2. /\ requests' \in Seq(Requests) /\ Len(requests') <= MaxRequests
      /\ AnswersAreTrue' /\ NotAhead' /\ FirstIsFirst'
      /\ Kept' = Kept
      /\ \A v \in Kept : Reaches(v)'
      /\ \A r \in 1 .. Len(requests') : AskedFromComplete(requests[r])'
  BY <1>1, Asked, PageTyped DEF IInv
<1>3. Types'
  BY <1>1, <1>2, PageTypes, PageTyped, Wires DEF IInv, wireVars
<1>4. Safe'
  <2>1. Registered' /\ Handshake'
    BY <1>1, Wires DEF Registered, RegistrationLasts, Handshake, wireVars, serverVars
  <2>2. DownIsTrue' /\ NoEcho'
    BY <1>1 DEF IInv, Safe, DownIsTrue, MessageIsTrue, NoEcho, wireVars, logVars
  <2> QED
    BY <1>2, <2>1, <2>2 DEF Safe
<1>5. NothingMissing'
  BY <1>2 DEF NothingMissing, ReachesBefore
<1> QED
  BY <1>3, <1>4, <1>5 DEF IInv

-----------------------------------------------------------------------------
(* The page reads a message                                                 *)

LEMMA Delivered ==
  ASSUME IInv, NEW type, Delivers(type)
  PROVE  /\ page = "loaded" /\ ws \in Conns /\ ws # 0
         /\ down' \in [Conns -> Seq(Messages)]
         /\ Len(down[ws]) \in Nat /\ 1 \in 1 .. Len(down[ws])
         /\ down[ws][1] = Head(down[ws]) /\ Head(down[ws]) \in Messages
         /\ Head(down[ws]).type = type
         /\ Len(down'[ws]) = Len(down[ws]) - 1
         /\ \A k \in 1 .. Len(down'[ws]) :
              /\ k + 1 \in 1 .. Len(down[ws])
              /\ down'[ws][k] = down[ws][k + 1]
              /\ down'[ws][k].type # "auth-result"
         /\ \A i \in Conns : i # ws => down'[i] = down[i]
<1>1. /\ page = "loaded" /\ ws \in Conns /\ ws # 0
      /\ down[ws] \in Seq(Messages) /\ down[ws] # <<>>
      /\ down' = [down EXCEPT ![ws] = Tail(down[ws])]
      /\ Head(down[ws]).type = type
  BY Wires DEF Delivers
<1>2. /\ Tail(down[ws]) \in Seq(Messages)
      /\ Len(Tail(down[ws])) = Len(down[ws]) - 1 /\ Len(down[ws]) \in Nat
      /\ 1 \in 1 .. Len(down[ws]) /\ down[ws][1] = Head(down[ws])
      /\ Head(down[ws]) \in Messages
      /\ \A k \in 1 .. Len(Tail(down[ws])) :
           /\ k + 1 \in 1 .. Len(down[ws]) /\ k + 1 # 1
           /\ Tail(down[ws])[k] = down[ws][k + 1]
  BY <1>1
<1>3. down'[ws] = Tail(down[ws])
  BY <1>1, Wires
<1>4. down' \in [Conns -> Seq(Messages)] /\ \A i \in Conns : i # ws => down'[i] = down[i]
  BY <1>1, <1>2, Wires
<1>5. \A k \in 1 .. Len(down[ws]) : down[ws][k].type = "auth-result" => k = 1
  BY <1>1 DEF IInv, Safe, DownIsTrue
<1> QED
  BY <1>1, <1>2, <1>3, <1>4, <1>5

LEMMA DeliveredSafe ==
  ASSUME IInv, NEW type, Delivers(type), UNCHANGED <<logVars, serverVars, broken, up>>
  PROVE  Registered' /\ Handshake' /\ DownIsTrue'
<1>1. Registered'
  BY Wires DEF Registered, RegistrationLasts, serverVars
<1>2. Handshake'
  <2>1. \A i \in Conns : down[i] = <<>> => down'[i] = <<>>
    <3>1. down[ws] # <<>>
      BY DEF Delivers
    <3> QED
      BY <3>1, Delivered
  <2> QED
    BY <2>1, Wires DEF Handshake, serverVars
<1>3. DownIsTrue'
  <2> SUFFICES ASSUME NEW i \in Conns, NEW k \in 1 .. Len(down'[i])
               PROVE  /\ down'[i][k].type = "auth-result" => k = 1
                      /\ MessageIsTrue(down[i][k])'
    BY DEF DownIsTrue
  <2>1. CASE i = ws
    <3>1. /\ down'[i][k].type # "auth-result" /\ k + 1 \in 1 .. Len(down[ws])
          /\ down'[i][k] = down[ws][k + 1] /\ ws \in Conns
      BY <2>1, Delivered
    <3>2. MessageIsTrue(down[ws][k + 1])
      BY <3>1 DEF IInv, Safe, DownIsTrue
    <3> QED
      BY <3>1, <3>2 DEF MessageIsTrue, logVars
  <2>2. CASE i # ws
    <3>1. down'[i] = down[i]
      BY <2>2, Delivered
    <3> QED
      BY <3>1 DEF IInv, Safe, DownIsTrue, MessageIsTrue, logVars
  <2> QED
    BY <2>1, <2>2
<1> QED
  BY <1>1, <1>2, <1>3

LEMMA OnAuthResultIInv == IInv /\ OnAuthResult => IInv'
<1> SUFFICES ASSUME IInv, OnAuthResult PROVE IInv'
  OBVIOUS
<1>1. /\ Delivers("auth-result") /\ isFirstConnect' = FALSE /\ page = "loaded"
      /\ UNCHANGED <<logVars, serverVars, broken, up, page, ws, lastVersion, base,
                     told, owed, failures, returns>>
  BY DEF OnAuthResult, Delivers
<1>2. /\ requests' \in Seq(Requests) /\ Len(requests') <= MaxRequests
      /\ AnswersAreTrue' /\ NotAhead' /\ FirstIsFirst'
      /\ Kept' = Kept
      /\ \A v \in Kept : Reaches(v)'
      /\ \A r \in 1 .. Len(requests') : AskedFromComplete(requests[r])'
  <2>1. CASE isFirstConnect
    <3>1. Ask(TRUE, 0)
      BY <2>1, Zenon DEF OnAuthResult
    <3>2. 0 \in Versions
      BY BoundsAssumption DEF Versions
    <3> QED
      BY <1>1, <2>1, <3>1, <3>2, Asked
  <2>2. CASE ~ isFirstConnect
    <3>1. Ask(FALSE, lastVersion) /\ lastVersion \in Versions
      BY <2>2, PageTyped DEF OnAuthResult, IInv
    <3> QED
      BY <1>1, <3>1, Asked
  <2> QED
    BY <2>1, <2>2
<1>3. Types'
  <2>1. down' \in [Conns -> Seq(Messages)]
    BY <1>1, Delivered
  <2> QED
    BY <1>1, <1>2, <2>1, PageTypes, PageTyped, Wires DEF IInv
<1>4. Safe'
  <2>1. NoEcho'
    BY <1>1 DEF IInv, Safe, NoEcho, logVars
  <2> QED
    BY <1>1, <1>2, <2>1, DeliveredSafe DEF Safe
<1>5. NothingMissing'
  BY <1>2 DEF NothingMissing, ReachesBefore
<1> QED
  BY <1>3, <1>4, <1>5 DEF IInv

\* A message about a change: everything below its version has reached the page.
LEMMA OnChangeIInv ==
  ASSUME IInv, OnBlocksChanged \/ OnVersionUpdate
  PROVE  IInv'
<1>1. PICK type, m, w :
        /\ type \in {"blocks-changed", "version-update"}
        /\ m = Head(down[ws]) /\ w = m.version
        /\ Delivers(type)
        /\ lastVersion' = w
        /\ told' = IF type = "blocks-changed" THEN told \cup {w} ELSE told
        /\ UNCHANGED <<logVars, serverVars, broken, up, page, ws, isFirstConnect,
                       requests, base, owed, failures, returns>>
  BY DEF OnBlocksChanged, OnVersionUpdate
<1>2. /\ page = "loaded" /\ ws \in Conns /\ ws # 0
      /\ down' \in [Conns -> Seq(Messages)]
      /\ Len(down[ws]) \in Nat /\ 1 \in 1 .. Len(down[ws])
      /\ down[ws][1] = m /\ m \in Messages /\ m.type = type
      /\ Len(down'[ws]) = Len(down[ws]) - 1
      /\ \A k \in 1 .. Len(down'[ws]) :
           /\ k + 1 \in 1 .. Len(down[ws])
           /\ down'[ws][k] = down[ws][k + 1]
  BY <1>1, Delivered
<1>3. /\ w \in 1 .. currentVersion /\ w \in Versions
      /\ type = "version-update" <=> history[w].sender = Me
  <2>1. MessageIsTrue(m)
    BY <1>2 DEF IInv, Safe, DownIsTrue
  <2> QED
    BY <1>1, <1>2, <2>1, Numbers DEF MessageIsTrue, IInv, Messages
<1>4. Types'
  <2>1. told' \subseteq 1 .. currentVersion
    BY <1>1, <1>3, PageTyped DEF IInv
  <2> QED
    BY <1>1, <1>2, <1>3, <2>1, PageTypes, PageTyped, Wires DEF IInv
<1>5. Safe'
  <2>1. Registered' /\ Handshake' /\ DownIsTrue'
    BY <1>1, DeliveredSafe
  <2>2. AnswersAreTrue' /\ NotAhead' /\ FirstIsFirst'
    BY <1>1, <1>3, Numbers DEF IInv, Safe, AnswersAreTrue, AnswerIsTrue, NotAhead,
                               FirstIsFirst, logVars
  <2>3. NoEcho'
    BY <1>1, <1>3 DEF IInv, Safe, NoEcho, logVars
  <2> QED
    BY <2>1, <2>2, <2>3 DEF Safe
<1>6. Greeted
  BY <1>1, <1>2 DEF Greeted, IInv, Safe, DownIsTrue
<1>7. Kept' = Kept /\ currentVersion' = currentVersion
  BY <1>1 DEF Kept, logVars
<1>8. \A v \in Kept : Reaches(v) => Reaches(v)'
  <2> SUFFICES ASSUME NEW v \in Kept, Reaches(v) PROVE Reaches(v)'
    OBVIOUS
  <2>1. DoneOrOwed(v) => DoneOrOwed(v)'
    BY <1>1 DEF DoneOrOwed, Done, logVars
  <2> QED
    BY <1>1, <1>4, <1>7, <2>1, ReachesStays DEF IInv, Types
<1>9. Reaches(w)'
  BY <1>1, <1>3 DEF Reaches, DoneOrOwed, Done, logVars
\* What reached the page before a message does so before the next one is read.
<1>10. ASSUME NEW k \in 1 .. Len(down'[ws]) + 1, NEW v \in Kept, ReachesBefore(v, k + 1)
       PROVE  ReachesBefore(v, k)'
  <2>1. CASE Reaches(v)
    BY <1>8, <2>1 DEF ReachesBefore
  <2>2. ASSUME NEW j \in 1 .. k, down[ws][j].version = v PROVE ReachesBefore(v, k)'
    <3>1. CASE j = 1
      BY <1>1, <1>2, <1>9, <2>2, <3>1 DEF ReachesBefore
    <3>2. CASE j # 1
      <4>1. j - 1 \in 1 .. k - 1 /\ j - 1 \in 1 .. Len(down'[ws])
        BY <1>2, <3>2
      <4>2. down'[ws][j - 1] = down[ws][j]
        BY SMTT(30), <1>2, <4>1
      <4> QED
        BY <1>1, <2>2, <4>1, <4>2 DEF ReachesBefore
    <3> QED
      BY <3>1, <3>2
  <2> QED
    BY <1>2, <1>10, <2>1, <2>2 DEF ReachesBefore
<1>11. NothingMissing'
  <2>1. ASSUME NEW v \in Kept, v <= w PROVE Reaches(v)'
    <3>1. CASE v = w
      BY <1>9, <3>1
    <3>2. CASE v < w
      <4>1. ReachesBefore(v, 1)
        BY <1>1, <1>2, <1>6, <3>2 DEF IInv, NothingMissing
      <4> QED
        BY <1>8, <4>1 DEF ReachesBefore
    <3> QED
      BY <1>3, <2>1, <3>1, <3>2 DEF Kept
  <2>2. \A r \in 1 .. Len(requests) : AskedFromComplete(requests[r])'
    BY <1>1, <1>2, <1>7, <1>8 DEF IInv, NothingMissing, AskedFromComplete
  <2>3. ASSUME NEW k \in 1 .. Len(down'[ws]), NEW v \in Kept,
               v < down'[ws][k].version
        PROVE  ReachesBefore(v, k)'
    <3>1. ReachesBefore(v, k + 1)
      BY <1>2, <1>6, <2>3 DEF IInv, NothingMissing
    <3> QED
      BY <1>2, <1>10, <3>1
  <2>4. ASSUME Connected', NEW v \in Kept
        PROVE  ReachesBefore(v, Len(down[ws]) + 1)'
    <3>1. Connected
      BY <1>1, <2>4 DEF Connected, serverVars
    <3>2. ReachesBefore(v, Len(down[ws]) + 1)
      BY <1>2, <1>6, <3>1 DEF IInv, NothingMissing
    <3>3. PICK k : k = Len(down'[ws]) + 1
      OBVIOUS
    <3>4. k \in 1 .. Len(down'[ws]) + 1 /\ k + 1 = Len(down[ws]) + 1
      BY <1>2, <3>3
    <3>5. ReachesBefore(v, k)'
      BY <1>10, <3>2, <3>4
    <3> QED
      BY <1>1, <3>3, <3>5 DEF ReachesBefore
  <2> QED
    BY <1>1, <1>7, <2>1, <2>2, <2>3, <2>4 DEF NothingMissing
<1> QED
  BY <1>4, <1>5, <1>11 DEF IInv

-----------------------------------------------------------------------------
(* The server answers                                                       *)

LEMMA ServerAnswersIInv ==
  ASSUME IInv, page = "loaded", NEW r \in 1 .. Len(requests), ServerAnswers(r)
  PROVE  IInv'
<1>1. PICK q, a :
        /\ q = requests[r] /\ a = Log!GetChangesSince(q.since, Me)
        /\ ~ q.answered
        /\ requests' = [requests EXCEPT ![r].answered = TRUE, ![r].since = 0, ![r].answer = a]
        /\ owed' = IF q.since = 0 /\ ~ q.first
                     THEN owed \cup (1 .. currentVersion \ DOMAIN log) ELSE owed
        /\ UNCHANGED <<logVars, serverVars, wireVars, page, ws, lastVersion,
                       isFirstConnect, base, told, returns, failures>>
  BY DEF ServerAnswers
<1>2. /\ requests \in Seq(Requests) /\ q \in Requests /\ q.since \in Versions
      /\ Len(requests) \in Nat /\ Len(requests) <= MaxRequests
  BY <1>1, Numbers, PageTyped DEF IInv, Requests
<1>3. /\ a \in Answers /\ a.version = currentVersion /\ AnswerIsTrue(a)
      /\ q.since = 0 => a.status = 200
      /\ a.status = 200 => \A v \in 1 .. currentVersion :
           \/ v <= q.since
           \/ history[v].sender = Me
           \/ v \in a.changes
           \/ q.since = 0 /\ v \notin DOMAIN log
  BY <1>1, <1>2, AnswerFacts DEF IInv, Types
<1> DEFINE p == [q EXCEPT !.answered = TRUE, !.since = 0, !.answer = a]
<1>4. /\ p \in Requests /\ p.since = 0 /\ p.answer = a
  <2>1. [q EXCEPT !.answered = TRUE] \in Requests
    BY <1>2 DEF Requests
  <2>2. 0 \in Versions
    BY BoundsAssumption DEF Versions
  <2>3. p = [[q EXCEPT !.answered = TRUE] EXCEPT !.since = 0, !.answer = a]
    BY <1>2 DEF Requests
  <2>4. p \in Requests
    BY <1>3, <2>1, <2>2, <2>3 DEF Requests
  <2>5. p.since = 0 /\ p.answer = a
    BY <1>2 DEF Requests
  <2> QED
    BY <2>4, <2>5
<1>5. p.answered /\ (p.first <=> q.first)
  BY <1>2 DEF Requests
<1>6. requests' = [requests EXCEPT ![r] = p]
  BY <1>1, <1>2
<1> HIDE DEF p
<1>7. /\ requests' \in Seq(Requests) /\ Len(requests') = Len(requests)
      /\ requests'[r] = p
      /\ \A i \in 1 .. Len(requests) : i # r => requests'[i] = requests[i]
  BY <1>2, <1>4, <1>6
<1>8. Types'
  <2>1. owed' \subseteq 1 .. currentVersion
    BY <1>1, PageTyped DEF IInv
  <2> QED
    BY <1>1, <1>2, <1>7, <2>1, PageTypes, PageTyped, Wires DEF IInv, wireVars
<1>9. Safe'
  <2>1. Registered' /\ Handshake'
    BY <1>1, Wires DEF Registered, RegistrationLasts, Handshake, wireVars, serverVars
  <2>2. DownIsTrue' /\ NoEcho'
    BY <1>1 DEF IInv, Safe, DownIsTrue, MessageIsTrue, NoEcho, wireVars, logVars
  <2>3. AnswersAreTrue'
    <3> SUFFICES ASSUME NEW i \in 1 .. Len(requests) PROVE AnswerIsTrue(requests[i].answer)'
      BY <1>7 DEF AnswersAreTrue
    <3>1. AnswerIsTrue(requests[i].answer) \/ i = r
      BY DEF IInv, Safe, AnswersAreTrue
    <3> QED
      BY <1>1, <1>3, <1>4, <1>7, <3>1 DEF IInv, Safe, AnswersAreTrue, AnswerIsTrue, logVars
  <2>4. NotAhead'
    BY <1>1, <1>4, <1>7, Numbers DEF IInv, Safe, NotAhead, logVars
  <2>5. FirstIsFirst'
    <3>1. \A i \in 1 .. Len(requests) : requests'[i].first => requests[i].first
      BY <1>1, <1>5, <1>7
    <3>2. q.first => a.status = 200
      BY <1>1, <1>3 DEF IInv, Safe, FirstIsFirst
    <3> QED
      BY <1>1, <1>4, <1>5, <1>7, <3>1, <3>2 DEF IInv, Safe, FirstIsFirst
  <2> QED
    BY <2>1, <2>2, <2>3, <2>4, <2>5 DEF Safe
<1>10. Kept' = Kept /\ \A v \in Kept : v \in 1 .. currentVersion
  BY <1>1 DEF Kept, logVars
\* What was asked for is brought, needs nothing, or is owed.
<1>11. ASSUME NEW v \in Kept, Carries(q, v)
       PROVE  DoneOrOwed(v)' \/ Carries(p, v)
  <2>1. v \in 1 .. currentVersion /\ (q.first \/ q.since < v)
    BY <1>1, <1>10, <1>11 DEF Carries
  <2>2. CASE a.status = 410
    BY <1>4, <1>5, <2>2 DEF Carries
  <2>3. CASE q.first
    BY <1>3, <1>4, <1>5, <2>1, <2>3, Numbers DEF Carries, IInv
  <2>4. CASE a.status = 200 /\ ~ q.first
    <3>1. CASE history[v].sender = Me
      BY <1>1, <3>1 DEF DoneOrOwed, Done, logVars
    <3>2. CASE v \in a.changes
      BY <1>4, <1>5, <3>2 DEF Carries
    <3>3. CASE q.since = 0 /\ v \notin DOMAIN log
      BY <1>1, <2>1, <2>4, <3>3 DEF DoneOrOwed
    <3> QED
      BY <1>2, <1>3, <2>1, <2>4, <3>1, <3>2, <3>3 DEF Versions
  <2> QED
    BY <1>3, <2>2, <2>3, <2>4 DEF Answers
<1>12. \A v \in Kept : Reaches(v) => Reaches(v)'
  <2> SUFFICES ASSUME NEW v \in Kept, Reaches(v) PROVE Reaches(v)'
    OBVIOUS
  <2>1. DoneOrOwed(v) => DoneOrOwed(v)'
    BY <1>1 DEF DoneOrOwed, Done, logVars
  <2>2. \A i \in 1 .. Len(requests) : Carries(requests[i], v) =>
          DoneOrOwed(v)' \/ \E j \in 1 .. Len(requests') : Carries(requests'[j], v)
    BY <1>1, <1>7, <1>11
  <2> QED
    BY <1>7, <1>10, <2>1, <2>2, ReachesStays DEF IInv
<1>13. \A v \in Kept : Carries(q, v) => Reaches(v)
  BY <1>1, Numbers, KeptBrings DEF Reaches, IInv
<1>14. NothingMissing'
  <2>1. ASSUME NEW i \in 1 .. Len(requests) PROVE AskedFromComplete(requests[i])'
    <3>1. CASE i # r
      BY <1>7, <1>10, <1>12, <3>1 DEF IInv, NothingMissing, AskedFromComplete
    <3>2. CASE i = r
      <4>1. \A v \in Kept : ~ q.first => Reaches(v)
        <5>1. \A v \in Kept : v > q.since => Carries(q, v)
          BY <1>1, <1>2, <1>10 DEF Carries, Versions
        <5> QED
          BY <1>1, <1>13, <5>1 DEF IInv, NothingMissing, AskedFromComplete
      <4> QED
        BY <1>5, <1>7, <1>10, <1>12, <3>2, <4>1 DEF AskedFromComplete
    <3> QED
      BY <3>1, <3>2
  <2>2. /\ Greeted' <=> Greeted
        /\ Connected' <=> Connected
        /\ \A v \in Kept, k \in 1 .. Len(down[ws]) + 1 : ReachesBefore(v, k) => ReachesBefore(v, k)'
    BY <1>1, <1>12 DEF Greeted, Connected, ReachesBefore, wireVars, serverVars
  <2> QED
    BY <1>1, <1>7, <1>10, <1>12, <2>1, <2>2 DEF IInv, NothingMissing, wireVars
<1> QED
  BY <1>8, <1>9, <1>14 DEF IInv

-----------------------------------------------------------------------------
(* The page handles an answer, or a failure                                 *)

LEMMA Removed ==
  ASSUME IInv, NEW r \in 1 .. Len(requests), requests' = Remove(r)
  PROVE  /\ requests' \in Seq(Requests)
         /\ Len(requests') = Len(requests) - 1 /\ Len(requests') <= MaxRequests
         /\ \A j \in 1 .. Len(requests') :
              /\ j \in 1 .. Len(requests) /\ j + 1 \in 1 .. Len(requests)
              /\ requests'[j] = IF j < r THEN requests[j] ELSE requests[j + 1]
         /\ \A j \in 1 .. Len(requests') : \E i \in 1 .. Len(requests) :
              i # r /\ requests'[j] = requests[i]
         /\ \A i \in 1 .. Len(requests) : i # r =>
              \E j \in 1 .. Len(requests') : requests'[j] = requests[i]
<1> DEFINE n == Len(requests)
           f == [i \in 1 .. n - 1 |-> IF i < r THEN requests[i] ELSE requests[i + 1]]
<1>1. /\ n \in Nat /\ n <= MaxRequests /\ \A i \in 1 .. n : requests[i] \in Requests
      /\ MaxRequests \in Nat
  BY Numbers, PageTyped, BoundsAssumption DEF IInv
<1>2. requests' = f /\ r \in 1 .. n
  BY DEF Remove
<1>3. f \in Seq(Requests) /\ Len(f) = n - 1
  <2>1. n - 1 \in Nat /\ \A i \in 1 .. n - 1 : f[i] \in Requests
    BY <1>1
  <2>2. f \in [1 .. n - 1 -> Requests]
    BY <2>1
  <2> HIDE DEF f
  <2> QED
    BY <2>1, <2>2, SeqDef, LenProperties
<1>4. \A j \in 1 .. n - 1 : f[j] = IF j < r THEN requests[j] ELSE requests[j + 1]
  OBVIOUS
<1> HIDE DEF f, n
<1>5. \A j \in 1 .. n - 1 :
        /\ j \in 1 .. n /\ j + 1 \in 1 .. n
        /\ (j < r \/ j + 1 # r)
        /\ (j < r => j # r)
  BY <1>1, <1>2
<1>6. \A j \in 1 .. n - 1 : \E i \in 1 .. n : i # r /\ f[j] = requests[i]
  BY <1>4, <1>5
<1>7. ASSUME NEW i \in 1 .. n, i # r PROVE \E j \in 1 .. n - 1 : f[j] = requests[i]
  <2>1. CASE i < r
    <3>1. i \in 1 .. n - 1
      BY <1>1, <1>2, <2>1
    <3> QED
      BY <1>4, <2>1, <3>1
  <2>2. CASE ~ (i < r)
    <3>1. i - 1 \in 1 .. n - 1 /\ ~ (i - 1 < r) /\ (i - 1) + 1 = i
      BY <1>1, <1>2, <1>7, <2>2
    <3> QED
      BY <1>4, <3>1
  <2> QED
    BY <2>1, <2>2
<1> QED
  BY SMTT(30), <1>1, <1>2, <1>3, <1>4, <1>5, <1>6, <1>7 DEF n

LEMMA RemovedSafe ==
  ASSUME IInv, NEW r \in 1 .. Len(requests), requests' = Remove(r),
         UNCHANGED <<logVars, serverVars, down, isFirstConnect>>,
         up' = up \/ (ws \in Conns /\ up' = [up EXCEPT ![ws] = Append(@, "caught-up")])
  PROVE  /\ Registered' /\ Handshake' /\ DownIsTrue' /\ AnswersAreTrue'
         /\ \A j \in 1 .. Len(requests') : requests'[j].since <= currentVersion
         /\ base' = base \/ requests[r].first => FirstIsFirst'
         /\ up' \in [Conns -> Seq({"auth", "caught-up"})]
<1>1. Registered'
  BY Wires DEF Registered, RegistrationLasts, serverVars
<1>2. up' \in [Conns -> Seq({"auth", "caught-up"})] /\ Handshake'
  <2>1. CASE up' = up
    BY <2>1, Wires DEF Handshake, serverVars
  <2>2. CASE ws \in Conns /\ up' = [up EXCEPT ![ws] = Append(@, "caught-up")]
    <3> DEFINE u == Append(up[ws], "caught-up")
    <3>1. up[ws] \in Seq({"auth", "caught-up"})
      BY <2>2, Wires
    <3>2. /\ u \in Seq({"auth", "caught-up"})
          /\ \A k \in 1 .. Len(u) : u[k] = "caught-up"
                                      \/ (k \in 1 .. Len(up[ws]) /\ u[k] = up[ws][k])
      BY <3>1
    <3> HIDE DEF u
    <3>3. up' = [up EXCEPT ![ws] = u]
      BY <2>2 DEF u
    <3>4. up'[ws] = u /\ \A i \in Conns : i # ws => up'[i] = up[i]
      BY <2>2, <3>3, Wires
    <3>5. up' \in [Conns -> Seq({"auth", "caught-up"})]
      BY <3>2, <3>3, Wires
    <3>6. \A k \in 1 .. Len(u) : u[k] = "auth" => k = 1 /\ server[ws] = "unauth"
      BY <2>2, <3>2, Wires DEF Handshake
    <3>7. ASSUME NEW i \in Conns
          PROVE  \A k \in 1 .. Len(up'[i]) : up'[i][k] = "auth" => k = 1 /\ server[i] = "unauth"
      BY <3>4, <3>6, Wires DEF Handshake
    <3> QED
      BY <3>5, <3>7, Wires DEF Handshake, serverVars
  <2> QED
    BY <2>1, <2>2
<1>3. DownIsTrue'
  BY DEF IInv, Safe, DownIsTrue, MessageIsTrue, logVars
<1>4. AnswersAreTrue'
  <2> SUFFICES ASSUME NEW j \in 1 .. Len(requests') PROVE AnswerIsTrue(requests[j].answer)'
    BY DEF AnswersAreTrue
  <2>1. PICK i \in 1 .. Len(requests) : requests'[j] = requests[i]
    BY Removed
  <2>2. AnswerIsTrue(requests[i].answer)
    BY DEF IInv, Safe, AnswersAreTrue
  <2> QED
    BY <2>1, <2>2 DEF AnswerIsTrue, logVars
<1>5. \A j \in 1 .. Len(requests') : requests'[j].since <= currentVersion
  BY Removed DEF IInv, Safe, NotAhead
<1>6. ASSUME base' = base \/ requests[r].first PROVE FirstIsFirst'
  <2>1. CASE requests[r].first
    <3>1. \A j \in 1 .. Len(requests') : ~ requests'[j].first
      <4> SUFFICES ASSUME NEW j \in 1 .. Len(requests'), requests'[j].first PROVE FALSE
        OBVIOUS
      <4>1. PICK i \in 1 .. Len(requests) : i # r /\ requests'[j] = requests[i]
        BY Removed
      <4>2. requests[i].first
        BY <4>1
      <4> QED
        BY <2>1, <4>1, <4>2 DEF IInv, Safe, FirstIsFirst
    <3>2. ~ isFirstConnect'
      BY <2>1 DEF IInv, Safe, FirstIsFirst
    <3> QED
      BY <3>1, <3>2 DEF FirstIsFirst
  <2>2. CASE ~ requests[r].first
    <3>1. base' = base /\ isFirstConnect' = isFirstConnect
      BY <1>6, <2>2
    <3> SUFFICES ASSUME NEW j \in 1 .. Len(requests'), requests'[j].first
                 PROVE  /\ ~ isFirstConnect
                        /\ base = -1
                        /\ requests'[j].answer.status = 200
                        /\ requests'[j].since = 0
                        /\ \A k \in 1 .. Len(requests') : requests'[k].first => k = j
      BY <3>1 DEF FirstIsFirst, IInv, Safe
    <3>2. PICK i \in 1 .. Len(requests) : requests'[j] = requests[i] /\ i # r
      BY Removed
    <3>3. ASSUME NEW k \in 1 .. Len(requests'), requests'[k].first PROVE k = j
      <4> DEFINE At(x) == IF x < r THEN x ELSE x + 1
      <4>1. /\ At(j) \in 1 .. Len(requests) /\ requests'[j] = requests[At(j)]
            /\ At(k) \in 1 .. Len(requests) /\ requests'[k] = requests[At(k)]
        BY ZenonT(40), Removed
      <4>2. At(j) = At(k)
        <5> HIDE DEF At
        <5> QED
          BY <3>3, <4>1 DEF IInv, Safe, FirstIsFirst
      <4>3. j \in Nat /\ k \in Nat /\ r \in Nat
        <5>1. Len(requests) \in Nat
          BY Numbers DEF IInv
        <5>2. j \in 1 .. Len(requests) /\ k \in 1 .. Len(requests)
          BY Removed
        <5> QED
          BY <5>1, <5>2
      <4> QED
        BY <4>2, <4>3
    <3> QED
      BY <3>2, <3>3 DEF IInv, Safe, FirstIsFirst
  <2> QED
    BY <2>1, <2>2
<1> QED
  BY <1>1, <1>2, <1>3, <1>4, <1>5, <1>6

\* Nothing gets lost with a request that is dropped once what it carried is
\* told, loaded or owed.
LEMMA RemovedMissing ==
  ASSUME IInv, page = "loaded", NEW r \in 1 .. Len(requests), requests' = Remove(r),
         UNCHANGED <<logVars, clients, broken, down, page, ws>>,
         \A v \in Kept : DoneOrOwed(v) => DoneOrOwed(v)',
         \A v \in Kept : Carries(requests[r], v) => DoneOrOwed(v)',
         \A v \in Kept : v <= lastVersion' => Reaches(v) \/ DoneOrOwed(v)'
  PROVE  NothingMissing'
<1>1. Kept' = Kept
  BY DEF Kept, logVars
<1>2. \A v \in Kept : Reaches(v) => Reaches(v)'
  <2> SUFFICES ASSUME NEW v \in Kept, Reaches(v) PROVE Reaches(v)'
    OBVIOUS
  <2>1. \A i \in 1 .. Len(requests) : Carries(requests[i], v) =>
          DoneOrOwed(v)' \/ \E j \in 1 .. Len(requests') : Carries(requests'[j], v)
    BY Removed
  <2>2. requests' \in Seq(Requests)
    BY Removed
  <2> QED
    BY <1>1, <2>1, <2>2, ReachesStays DEF IInv
<1>3. \A v \in Kept : v <= lastVersion' => Reaches(v)'
  BY <1>2 DEF Reaches
<1>4. ASSUME NEW j \in 1 .. Len(requests') PROVE AskedFromComplete(requests[j])'
  <2>1. PICK i \in 1 .. Len(requests) : requests'[j] = requests[i]
    BY Removed
  <2>2. AskedFromComplete(requests[i])
    BY DEF IInv, NothingMissing
  <2> QED
    BY <1>1, <1>2, <2>1, <2>2 DEF AskedFromComplete
<1>5. /\ Greeted' <=> Greeted
      /\ Connected' <=> Connected
      /\ \A v \in Kept, k \in 1 .. Len(down[ws]) + 1 : ReachesBefore(v, k) => ReachesBefore(v, k)'
  BY <1>2 DEF Greeted, Connected, ReachesBefore
<1> QED
  BY <1>1, <1>2, <1>3, <1>4, <1>5 DEF IInv, NothingMissing

\* caught-up goes out behind what was sent before.
LEMMA CaughtUpSent ==
  ASSUME IInv, SendCaughtUp
  PROVE  up' = up \/ (ws \in Conns /\ up' = [up EXCEPT ![ws] = Append(@, "caught-up")])
BY Wires DEF SendCaughtUp

LEMMA OnFirstAnswerIInv ==
  ASSUME IInv, NEW r \in 1 .. Len(requests), OnFirstAnswer(r)
  PROVE  IInv'
<1>1. PICK a :
      /\ a = requests[r].answer /\ requests[r].first /\ requests[r].answered
      /\ page = "loaded" /\ requests' = Remove(r)
      /\ lastVersion' = a.version /\ base' = a.version
      /\ up' = up \/ (ws \in Conns /\ up' = [up EXCEPT ![ws] = Append(@, "caught-up")])
      /\ UNCHANGED <<logVars, serverVars, broken, down, page, ws, isFirstConnect,
                     told, owed, failures, returns>>
  BY CaughtUpSent DEF OnFirstAnswer, Returns
<1>2. /\ a.status = 200 /\ base = -1 /\ a.version \in Nat
      /\ a.version <= currentVersion /\ a.version \in Versions
      /\ a.changes \subseteq {v \in 1 .. a.version : history[v].sender # Me}
  <2>1. a \in Answers /\ AnswerIsTrue(a) /\ a.status = 200 /\ base = -1 /\ a.version \in Nat
    BY <1>1, Numbers DEF IInv, Safe, AnswersAreTrue, FirstIsFirst
  <2>2. a.version \in Versions
    BY <2>1 DEF Answers
  <2> QED
    BY <2>1, <2>2 DEF AnswerIsTrue
<1>3. /\ Registered' /\ Handshake' /\ DownIsTrue' /\ AnswersAreTrue' /\ FirstIsFirst'
      /\ \A j \in 1 .. Len(requests') : requests'[j].since <= currentVersion
      /\ up' \in [Conns -> Seq({"auth", "caught-up"})]
  BY <1>1, RemovedSafe
<1>4. Types'
  <2>1. requests' \in Seq(Requests) /\ Len(requests') <= MaxRequests
    BY <1>1, Removed
  <2>2. base' \in -1 .. MaxVersion
    BY <1>1, <1>2 DEF Versions
  <2> QED
    BY <1>1, <1>2, <1>3, <2>1, <2>2, PageTypes, PageTyped, Wires DEF IInv
<1>5. Safe'
  BY <1>1, <1>2, <1>3 DEF IInv, Safe, NotAhead, NoEcho, logVars
<1>6. NothingMissing'
  <2>1. \A v \in Kept : v \in Nat /\ ~ (v <= base)
    BY <1>2 DEF Kept
  <2>2. \A v \in Kept : DoneOrOwed(v) => DoneOrOwed(v)'
    BY <1>1, <2>1 DEF DoneOrOwed, Done, logVars
  <2>3. \A v \in Kept : Carries(requests[r], v) => v <= a.version
    BY <1>1, <1>2, <2>1 DEF Carries
  <2>4. \A v \in Kept : v <= a.version => DoneOrOwed(v)'
    BY <1>1 DEF DoneOrOwed, Done
  <2> QED
    BY <1>1, <2>2, <2>3, <2>4, RemovedMissing DEF serverVars
<1> QED
  BY <1>4, <1>5, <1>6 DEF IInv

LEMMA OnAnswerIInv ==
  ASSUME IInv, NEW r \in 1 .. Len(requests), OnAnswer(r)
  PROVE  IInv'
<1>1. PICK a, S :
      /\ a = requests[r].answer /\ ~ requests[r].first /\ requests[r].answered
      /\ a.status = 200 /\ S = Covered(a.changes)
      /\ page = "loaded" /\ requests' = Remove(r)
      /\ lastVersion' = a.version /\ told' = told \cup S
      /\ up' = up \/ (ws \in Conns /\ up' = [up EXCEPT ![ws] = Append(@, "caught-up")])
      /\ UNCHANGED <<logVars, serverVars, broken, down, page, ws, isFirstConnect,
                     base, owed, failures, returns>>
  BY CaughtUpSent DEF OnAnswer, Returns
<1>2. /\ a.version \in Nat /\ a.version <= currentVersion /\ a.version \in Versions
      /\ a.changes \subseteq {v \in 1 .. a.version : history[v].sender # Me}
  <2>1. a \in Answers /\ AnswerIsTrue(a) /\ a.version \in Nat
    BY <1>1, Numbers DEF IInv, Safe, AnswersAreTrue
  <2>2. a.version \in Versions
    BY <2>1 DEF Answers
  <2> QED
    BY <1>1, <2>1, <2>2 DEF AnswerIsTrue
<1>3. /\ S \subseteq a.changes
      /\ \A v \in Kept : v \in a.changes => v \in S
  BY <1>1 DEF Covered, Kept
<1>4. /\ Registered' /\ Handshake' /\ DownIsTrue' /\ AnswersAreTrue' /\ FirstIsFirst'
      /\ \A j \in 1 .. Len(requests') : requests'[j].since <= currentVersion
      /\ up' \in [Conns -> Seq({"auth", "caught-up"})]
  BY <1>1, RemovedSafe
<1>5. Types'
  <2>1. requests' \in Seq(Requests) /\ Len(requests') <= MaxRequests
    BY <1>1, Removed
  <2>2. told' \subseteq 1 .. currentVersion
    BY <1>1, <1>2, <1>3, Numbers, PageTyped DEF IInv
  <2> QED
    BY <1>1, <1>2, <1>4, <2>1, <2>2, PageTypes, PageTyped, Wires DEF IInv
<1>6. Safe'
  <2>1. NoEcho'
    BY <1>1, <1>2, <1>3 DEF IInv, Safe, NoEcho, logVars
  <2>2. NotAhead'
    BY <1>1, <1>2, <1>4 DEF NotAhead, logVars
  <2> QED
    BY <1>4, <2>1, <2>2 DEF Safe
<1>7. NothingMissing'
  <2>1. \A v \in Kept : DoneOrOwed(v) => DoneOrOwed(v)'
    BY <1>1 DEF DoneOrOwed, Done, logVars
  <2>2. \A v \in Kept : Carries(requests[r], v) => DoneOrOwed(v)'
    BY <1>1, <1>3 DEF Carries, DoneOrOwed, Done
  <2>3. \A v \in Kept : v <= a.version => Reaches(v)
    <3>1. AskedFromComplete(requests[r])
      BY <1>1 DEF IInv, NothingMissing
    <3> QED
      BY <1>1, <1>2, <3>1 DEF AskedFromComplete, Kept
  <2> QED
    BY <1>1, <2>1, <2>2, <2>3, RemovedMissing DEF serverVars
<1> QED
  BY <1>5, <1>6, <1>7 DEF IInv

LEMMA OnRequestFailedIInv ==
  ASSUME IInv, NEW r \in 1 .. Len(requests), OnRequestFailed(r)
  PROVE  IInv'
<1>1. /\ page = "loaded" /\ requests' = Remove(r) /\ failures' \in 0 .. MaxFailures
      /\ owed' = owed \cup {v \in 1 .. currentVersion : Brings(requests[r], v)}
      /\ UNCHANGED <<logVars, serverVars, wireVars, page, ws, lastVersion,
                     isFirstConnect, base, told, returns>>
  BY PageTyped, BoundsAssumption DEF OnRequestFailed, IInv
<1>2. /\ Registered' /\ Handshake' /\ DownIsTrue' /\ AnswersAreTrue' /\ FirstIsFirst'
      /\ \A j \in 1 .. Len(requests') : requests'[j].since <= currentVersion
  BY <1>1, RemovedSafe DEF wireVars
<1>3. Types'
  <2>1. requests' \in Seq(Requests) /\ Len(requests') <= MaxRequests
    BY <1>1, Removed
  <2>2. owed' \subseteq 1 .. currentVersion
    BY <1>1, PageTyped DEF IInv
  <2> QED
    BY <1>1, <2>1, <2>2, PageTypes, PageTyped, Wires DEF IInv, wireVars
<1>4. Safe'
  BY <1>1, <1>2 DEF IInv, Safe, NotAhead, NoEcho, logVars
<1>5. NothingMissing'
  <2>1. \A v \in Kept : DoneOrOwed(v) => DoneOrOwed(v)'
    BY <1>1 DEF DoneOrOwed, Done, logVars
  <2>2. \A v \in Kept : Carries(requests[r], v) => DoneOrOwed(v)'
    BY <1>1, KeptBrings DEF Kept, DoneOrOwed
  <2>3. \A v \in Kept : v <= lastVersion' => Reaches(v)
    BY <1>1 DEF IInv, NothingMissing
  <2> QED
    BY <1>1, <2>1, <2>2, <2>3, RemovedMissing DEF serverVars, wireVars
<1> QED
  BY <1>3, <1>4, <1>5 DEF IInv

LEMMA OnExpiredIInv ==
  ASSUME IInv, NEW r \in 1 .. Len(requests), OnExpired(r)
  PROVE  IInv'
<1>1. /\ page' = "reloading" /\ ws' = 0 /\ requests' = <<>>
      /\ broken' = IF ws = 0 THEN broken ELSE broken \cup {ws}
      /\ down' = IF ws = 0 THEN down ELSE [down EXCEPT ![ws] = <<>>]
      /\ UNCHANGED <<logVars, serverVars, up, lastVersion, isFirstConnect, base,
                     told, owed, failures, returns>>
  BY DEF OnExpired
<1>2. /\ requests' \in Seq(Requests) /\ Len(requests') = 0 /\ 0 <= MaxRequests
      /\ broken' \subseteq Conns
      /\ down' \in [Conns -> Seq(Messages)]
      /\ \A i \in Conns : down'[i] = down[i] \/ down'[i] = <<>>
  <2>1. <<>> \in Seq(Messages) /\ <<>> \in Seq(Requests) /\ Len(<<>>) = 0
    BY EmptySeq
  <2>2. 0 <= MaxRequests
    BY BoundsAssumption
  <2>3. broken' \subseteq Conns
    BY <1>1, Wires
  <2>4. CASE ws = 0
    BY <1>1, <2>1, <2>2, <2>3, <2>4, Wires
  <2>5. CASE ws # 0
    BY <1>1, <2>1, <2>2, <2>3, <2>5, Wires
  <2> QED
    BY <2>4, <2>5
<1>3. Types'
  BY <1>1, <1>2, PageTypes, PageTyped, Wires DEF IInv
<1>4. Safe'
  <2>1. Registered' /\ Handshake'
    BY <1>1, <1>2, Wires DEF Registered, RegistrationLasts, Handshake, serverVars
  <2>2. DownIsTrue'
    <3>1. \A i \in Conns : \A k \in 1 .. Len(down'[i]) :
            k \in 1 .. Len(down[i]) /\ down'[i][k] = down[i][k]
      BY <1>2
    <3> QED
      BY <1>1, <3>1 DEF IInv, Safe, DownIsTrue, MessageIsTrue, logVars
  <2>3. AnswersAreTrue' /\ NotAhead' /\ FirstIsFirst' /\ NoEcho'
    BY <1>1, <1>2 DEF IInv, Safe, AnswersAreTrue, NotAhead, FirstIsFirst, NoEcho, logVars
  <2> QED
    BY <2>1, <2>2, <2>3 DEF Safe
<1>5. NothingMissing'
  BY <1>1 DEF NothingMissing
<1> QED
  BY <1>3, <1>4, <1>5 DEF IInv

-----------------------------------------------------------------------------
LEMMA StepIInv == IInv /\ page = "loaded" /\ Step => IInv'
<1> SUFFICES ASSUME IInv, page = "loaded", Step PROVE IInv'
  OBVIOUS
<1>1. ASSUME NEW s \in {Me, Other}, NEW c \in Changes, Write(s, c) PROVE IInv'
  BY <1>1, WriteIInv
<1>2. ASSUME NEW i \in Conns, OnAuth(i) PROVE IInv'
  BY <1>2, OnAuthIInv
<1>3. ASSUME NEW i \in Conns, OnCaughtUp(i) \/ OnIgnored(i) PROVE IInv'
  BY <1>3, ReadIInv
<1>4. ASSUME NEW i \in Conns, OnAuthRefused(i) \/ OnServerClose(i) PROVE IInv'
  BY <1>4, DropIInv
<1>5. ASSUME NEW i \in Conns, Break(i) PROVE IInv'
  BY <1>5, BreakIInv
<1>6. ASSUME NEW i \in Conns, Connect(i) PROVE IInv'
  BY <1>6, ConnectIInv
<1>7. CASE HeartbeatTerminate
  <2>1. clients \in Conns
    BY <1>7, Wires DEF HeartbeatTerminate
  <2> QED
    BY <1>7, <2>1, DropIInv
<1>8. CASE OnClientClose
  BY <1>8, ClientCloseIInv
<1>9. CASE OnAuthResult
  BY <1>9, OnAuthResultIInv
<1>10. CASE OnBlocksChanged \/ OnVersionUpdate
  BY <1>10, OnChangeIInv
<1>11. CASE OnVisible
  BY <1>11, OnVisibleIInv
<1>12. ASSUME NEW r \in DOMAIN requests,
              \/ ServerAnswers(r) \/ OnFirstAnswer(r) \/ OnAnswer(r)
              \/ OnExpired(r) \/ OnRequestFailed(r)
       PROVE  IInv'
  <2>1. r \in 1 .. Len(requests)
    BY Numbers DEF IInv
  <2> QED
    BY <1>12, <2>1, ServerAnswersIInv, OnFirstAnswerIInv, OnAnswerIInv, OnExpiredIInv,
       OnRequestFailedIInv
<1> QED
  BY <1>1, <1>2, <1>3, <1>4, <1>5, <1>6, <1>7, <1>8, <1>9, <1>10, <1>11, <1>12 DEF Step

LEMMA NextIInv == IInv /\ [Next]_vars => IInv'
<1>1. ASSUME IInv, UNCHANGED vars PROVE IInv'
  <2>1. UNCHANGED <<knownVars, ws, down, lastAuth, clients, fresh, server, caughtUp,
                    broken, up>>
    BY <1>1 DEF vars, serverVars, wireVars, pageVars, knownVars
  <2>2. Registered' /\ Handshake'
    BY <1>1, <2>1, Wires DEF Registered, RegistrationLasts, Handshake
  <2> QED
    BY <1>1, <2>1, <2>2, LineIInv, Wires
<1> QED
  BY <1>1, StepIInv DEF Next

\* The inductive invariant holds in every reachable state.
THEOREM Invariance == Spec => []IInv
BY InitIInv, NextIInv, PTL DEF Spec

\* Registrations, messages, requests and the page's version have their types,
\* for any bounds (index.ts, ws.ts, catchUpFromServer).
THEOREM SessionTypeOK == Spec => []TypeOK
<1>1. IInv => TypeOK
  BY DEF IInv, Types
<1> QED
  BY <1>1, Invariance, PTL

\* No event of an older connection, however late, takes away the registration
\* of a newer one that is held open (registerAuthenticatedClient and the
\* close handler of the connection).
THEOREM LastRegistrationLasts == Spec => []RegistrationLasts
<1>1. IInv => RegistrationLasts
  BY DEF IInv, Safe, Registered
<1> QED
  BY <1>1, Invariance, PTL

\* The page is told of no change of its own, by no message and by no answer
\* (broadcast, getChangesSince).
THEOREM PageHearsNoEcho == Spec => []NoEcho
<1>1. IInv => NoEcho
  BY DEF IInv, Safe
<1> QED
  BY <1>1, Invariance, PTL

\* There is no hole below the version the page reports: a change of somebody
\* else up to it was told, is owed by a failed request or an answer to since=0,
\* or is on its way (ws.onmessage, catchUpFromServer, getChangesSince).
THEOREM NoHoleBelowVersion == Spec => []CharactersComplete
<1>1. IInv => CharactersComplete
  BY DEF IInv, NothingMissing, CharactersComplete, Complete, Kept
<1> QED
  BY <1>1, Invariance, PTL
=============================================================================
