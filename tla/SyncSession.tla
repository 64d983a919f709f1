---------------------------- MODULE SyncSession ----------------------------
(***************************************************************************)
(* One browser page and the server's change log: the WebSocket the page    *)
(* opens, loses and opens again, the broadcasts it receives on it, and the *)
(* HTTP catch-up for what it missed.  Composes ChangeLog with the          *)
(* connection handlers of index.ts, broadcast and notifySenderVersion on   *)
(* the server, and with ws.ts and catchUpFromServer.ts in the page.        *)
(*                                                                         *)
(* The page is the client Me; every other client is Other.  A change is    *)
(* told when the page has called handleBlocksChanged for it: it starts to  *)
(* fetch the block, or asks the user to reload.  What the page loaded      *)
(* before its first catch-up answer counts as told.  The init message and  *)
(* the stream messages belong to other modules.                            *)
(***************************************************************************)
EXTENDS Integers, Sequences, FiniteSets, FiniteSetsExt, Functions

CONSTANTS
  MaxLogEntries, MaxVersion,  \* ChangeLog
  Changes,      \* kinds of change, among those below
  MaxConns,     \* bound on the WebSockets the page opens
  MaxRequests,  \* bound on catch-up requests under way at a time
  MaxReturns,   \* bound on the times the user comes back to the tab
  MaxFailures   \* bound on the catch-up requests that fail

VARIABLES
  currentVersion, log, history,  \* ChangeLog
  clients,     \* clients.get(Me): the registered connection, or 0
  fresh,       \* freshClients.has(Me)
  server,      \* the server's end of each connection
  broken,      \* connections that carry nothing any more
  down, up,    \* messages under way on each connection
  lastAuth,    \* history: the connection registered last, 0 before
  caughtUp,    \* history: open connections on which caught-up was handled
  page,        \* "loaded", or "reloading": this client id is gone
  ws,          \* state.ws: the page's connection, or 0
  lastVersion, isFirstConnect,   \* state.* of the page
  returns,     \* times the user came back to the tab
  requests,    \* catch-up requests under way, oldest first
  base,        \* history: version of the first answer, -1 before it
  owed,        \* history: changes a failed request should have brought, and
               \* those a since=0 answer left out because their rows are gone
  failures,    \* catch-up requests that failed
  told         \* history: the changes the page was told of

logVars == <<currentVersion, log, history>>
serverVars == <<clients, fresh, server, lastAuth, caughtUp>>
wireVars == <<broken, down, up>>
pageVars == <<page, ws, lastVersion, isFirstConnect, returns, requests, base,
              owed, failures, told>>
vars == <<logVars, serverVars, wireVars, pageVars>>

Me == "me"
Other == "other"
Conns == 1 .. MaxConns

Log == INSTANCE ChangeLog WITH Clients <- {Me, Other}, NoClient <- "none"

\* A character's block, a root key the page applies in place, a root key it
\* must reload for, a character removed.
Kinds == {"char", "live", "page", "deleted"}
ASSUME KindsAssumption == "char" \in Changes /\ Changes \subseteq Kinds

ASSUME BoundsAssumption ==
  /\ {MaxLogEntries, MaxVersion} \subseteq Nat \ {0}
  /\ {MaxConns, MaxRequests, MaxReturns, MaxFailures} \subseteq Nat

\* The page opens on a server that has processed one change.
FirstEntry == [sender |-> Other, change |-> "char"]

Init ==
  /\ currentVersion = 1
  /\ log = <<FirstEntry>>
  /\ history = <<FirstEntry>>
  /\ clients = 0 /\ fresh = FALSE /\ lastAuth = 0 /\ caughtUp = {}
  /\ server = [i \in Conns |-> "none"]
  /\ broken = {}
  /\ down = [i \in Conns |-> <<>>]
  /\ up = [i \in Conns |-> <<>>]
  /\ page = "loaded" /\ ws = 0
  /\ lastVersion = 0 /\ isFirstConnect = TRUE
  /\ returns = 0 /\ requests = <<>> /\ base = -1
  /\ owed = {} /\ failures = 0 /\ told = {}

-----------------------------------------------------------------------------
(* The server                                                              *)

\* ws.send: nothing arrives through a connection that is broken unnoticed.
Send(i, msg) ==
  down' = IF i \in broken THEN down ELSE [down EXCEPT ![i] = Append(@, msg)]

\* Slip: the sender is not left out.
BroadcastToAll(v, sender) ==
  IF clients # 0 /\ server[clients] = "open"
    THEN Send(clients, [type |-> "blocks-changed", version |-> v])
    ELSE UNCHANGED down

\* broadcast to the others, notifySenderVersion to the sender.
Broadcast(v, sender) ==
  IF clients # 0 /\ server[clients] = "open"
    THEN Send(clients, [type |-> IF sender = Me THEN "version-update"
                                                ELSE "blocks-changed",
                        version |-> v])
    ELSE UNCHANGED down

\* A write was processed and changed a block.
Write(sender, change) ==
  /\ sender = Me => page = "loaded"
  /\ Log!AddChangeLogEntry(sender, change)
  /\ Broadcast(currentVersion + 1, sender)
  /\ UNCHANGED <<serverVars, broken, up, pageVars>>

Cut(i) == broken' = broken \cup {i}

Receives(i, msg) ==
  /\ server[i] \in {"unauth", "open"}
  /\ up[i] # <<>>
  /\ Head(up[i]) = msg
  /\ up' = [up EXCEPT ![i] = Tail(@)]

\* The token is valid, or the client id trusted: registerAuthenticatedClient.
OnAuth(i) ==
  /\ Receives(i, "auth")
  /\ Send(i, [type |-> "auth-result", version |-> 0])
  /\ server' = [server EXCEPT ![i] = "open"]
  /\ clients' = i
  /\ lastAuth' = i
  /\ UNCHANGED <<logVars, fresh, caughtUp, broken, pageVars>>

\* The token is refused, or the auth timer fires: ws.close.
OnAuthRefused(i) ==
  /\ server[i] = "unauth"
  /\ server' = [server EXCEPT ![i] = "closing"]
  /\ Cut(i)
  /\ up' = [up EXCEPT ![i] = <<>>]
  /\ UNCHANGED <<logVars, clients, fresh, lastAuth, caughtUp, down, pageVars>>

OnCaughtUp(i) ==
  /\ server[i] = "open"
  /\ Receives(i, "caught-up")
  /\ fresh' = TRUE
  /\ caughtUp' = caughtUp \cup {i}
  /\ UNCHANGED <<logVars, clients, server, lastAuth, broken, down, pageVars>>

\* Before authentication every other message is ignored.
OnIgnored(i) ==
  /\ server[i] = "unauth"
  /\ Receives(i, "caught-up")
  /\ UNCHANGED <<logVars, serverVars, broken, down, pageVars>>

\* No pong since the last ping: terminate, and forget the connection at once.
HeartbeatTerminate ==
  /\ clients # 0
  /\ server' = [server EXCEPT ![clients] = "closing"]
  /\ Cut(clients)
  /\ up' = [up EXCEPT ![clients] = <<>>]
  /\ clients' = 0
  /\ UNCHANGED <<logVars, fresh, lastAuth, caughtUp, down, pageVars>>

CloseEvent(i) ==
  /\ \/ server[i] = "closing"
     \/ server[i] \in {"unauth", "open"} /\ i \in broken
  /\ server' = [server EXCEPT ![i] = "closed"]
  /\ up' = [up EXCEPT ![i] = <<>>]
  /\ caughtUp' = caughtUp \ {i}

\* Slip: the close handler does not ask whose connection is registered.
OnServerCloseUnconditional(i) ==
  /\ CloseEvent(i)
  /\ clients' = 0
  /\ fresh' = FALSE
  /\ UNCHANGED <<logVars, lastAuth, broken, down, pageVars>>

\* The close event, after a terminate or because the peer is gone.
OnServerClose(i) ==
  /\ CloseEvent(i)
  /\ IF clients = i THEN clients' = 0 /\ fresh' = FALSE
                    ELSE UNCHANGED <<clients, fresh>>
  /\ UNCHANGED <<logVars, lastAuth, broken, down, pageVars>>

\* GET /sync/changes.
ServerAnswers(r) ==
  /\ ~ requests[r].answered
  /\ requests' = [requests EXCEPT
       ![r].answered = TRUE, ![r].since = 0,
       ![r].answer = Log!GetChangesSince(requests[r].since, Me)]
  /\ owed' = IF requests[r].since = 0 /\ ~ requests[r].first
               THEN owed \cup (1 .. currentVersion \ DOMAIN log) ELSE owed
  /\ UNCHANGED <<logVars, serverVars, wireVars, page, ws, lastVersion,
                 isFirstConnect, base, told, returns, failures>>

-----------------------------------------------------------------------------
(* The network                                                             *)

\* The connection is lost; neither end has noticed.  An auth message may have
\* arrived before and be under verification.
Break(i) ==
  /\ server[i] \in {"unauth", "open"}
  /\ i \notin broken
  /\ Cut(i)
  /\ up' = [up EXCEPT ![i] = IF "auth" \in Range(@) THEN <<"auth">> ELSE <<>>]
  /\ UNCHANGED <<logVars, serverVars, down, pageVars>>

-----------------------------------------------------------------------------
(* The page                                                                *)

\* connect(), from the start of the page or the reconnect timer.
Connect(i) ==
  /\ page = "loaded"
  /\ ws = 0
  /\ server[i] = "none" /\ \A j \in 1 .. i - 1 : server[j] # "none"
  /\ ws' = i
  /\ server' = [server EXCEPT ![i] = "unauth"]
  /\ up' = [up EXCEPT ![i] = <<"auth">>]
  /\ UNCHANGED <<logVars, clients, fresh, lastAuth, caughtUp, broken, down,
                 page, lastVersion, isFirstConnect, requests, base, told,
                 owed, failures, returns>>

\* onclose: what was still under way is lost.
OnClientClose ==
  /\ ws # 0
  /\ ws \in broken
  /\ down' = [down EXCEPT ![ws] = <<>>]
  /\ ws' = 0
  /\ UNCHANGED <<logVars, serverVars, broken, up, page, lastVersion,
                 isFirstConnect, requests, base, told, owed, failures,
                 returns>>

Ask(first, since) ==
  /\ Len(requests) < MaxRequests
  /\ requests' = Append(requests,
                        [first |-> first, since |-> since,
                         answered |-> FALSE, answer |-> Log!Answer({})])

Delivers(type) ==
  /\ page = "loaded"
  /\ ws # 0
  /\ down[ws] # <<>>
  /\ Head(down[ws]).type = type
  /\ down' = [down EXCEPT ![ws] = Tail(@)]

\* Slip: catch-up is left out on reconnection.
OnAuthResultWithoutCatchUp ==
  /\ Delivers("auth-result")
  /\ IF isFirstConnect THEN Ask(TRUE, 0) ELSE UNCHANGED requests
  /\ isFirstConnect' = FALSE
  /\ UNCHANGED <<logVars, serverVars, broken, up, page, ws, lastVersion, base,
                 told, owed, failures, returns>>

\* auth-result: the first time ask for everything, later for what is missing.
OnAuthResult ==
  /\ Delivers("auth-result")
  /\ IF isFirstConnect THEN Ask(TRUE, 0) ELSE Ask(FALSE, lastVersion)
  /\ isFirstConnect' = FALSE
  /\ UNCHANGED <<logVars, serverVars, broken, up, page, ws, lastVersion, base,
                 told, owed, failures, returns>>

\* Slip: the page counts the version it expects next.
OnBlocksChangedCountsNext ==
  /\ Delivers("blocks-changed")
  /\ lastVersion' = Head(down[ws]).version + 1
  /\ told' = told \cup {Head(down[ws]).version}
  /\ UNCHANGED <<logVars, serverVars, broken, up, page, ws, isFirstConnect,
                 requests, base, owed, failures, returns>>

OnBlocksChanged ==
  /\ Delivers("blocks-changed")
  /\ lastVersion' = Head(down[ws]).version
  /\ told' = told \cup {lastVersion'}
  /\ UNCHANGED <<logVars, serverVars, broken, up, page, ws, isFirstConnect,
                 requests, base, owed, failures, returns>>

OnVersionUpdate ==
  /\ Delivers("version-update")
  /\ lastVersion' = Head(down[ws]).version
  /\ UNCHANGED <<logVars, serverVars, broken, up, page, ws, isFirstConnect,
                 requests, base, told, owed, failures, returns>>

\* visibilitychange: the tab is shown again.
OnVisible ==
  /\ page = "loaded"
  /\ lastVersion > 0
  /\ returns < MaxReturns
  /\ returns' = returns + 1
  /\ Ask(FALSE, lastVersion)
  /\ UNCHANGED <<logVars, serverVars, wireVars, page, ws, lastVersion,
                 isFirstConnect, base, told, owed, failures>>

RootChanges(vs) == {v \in vs : history[v].change \in {"live", "page"}}

\* The user is asked to reload: a removal, or the last change of the root.
Prompts(vs) ==
  \/ \E v \in vs : history[v].change = "deleted"
  \/ RootChanges(vs) # {} /\ history[Max(RootChanges(vs))].change = "page"

\* lastOp keeps, of each block, the last change only; a character is fetched
\* whole, of the root only the keys of the change that was kept.
Covered(vs) ==
  IF Prompts(vs) THEN vs ELSE {v \in vs : history[v].change # "page"}

Remove(r) == [i \in 1 .. Len(requests) - 1 |->
                IF i < r THEN requests[i] ELSE requests[i + 1]]

\* A second caught-up right behind a first does nothing more: it is left out.
SendCaughtUp ==
  up' = IF ws = 0 \/ ws \in broken \/ "caught-up" \in Range(up[ws]) THEN up
          ELSE [up EXCEPT ![ws] = Append(@, "caught-up")]

Returns(r) ==
  /\ page = "loaded"
  /\ requests[r].answered

\* The answer to the first request: take its version, apply nothing.
OnFirstAnswer(r) ==
  /\ Returns(r)
  /\ requests[r].first
  /\ requests' = Remove(r)
  /\ lastVersion' = requests[r].answer.version
  /\ base' = requests[r].answer.version
  /\ SendCaughtUp
  /\ UNCHANGED <<logVars, serverVars, broken, down, page, ws, isFirstConnect,
                 told, owed, failures, returns>>

\* Slip: the version is taken over, the changes are not applied.
OnAnswerIgnoresChanges(r) ==
  /\ Returns(r)
  /\ ~ requests[r].first
  /\ requests[r].answer.status = 200
  /\ requests' = Remove(r)
  /\ lastVersion' = requests[r].answer.version
  /\ SendCaughtUp
  /\ UNCHANGED <<logVars, serverVars, broken, down, page, ws, isFirstConnect,
                 base, told, owed, failures, returns>>

OnAnswer(r) ==
  /\ Returns(r)
  /\ ~ requests[r].first
  /\ requests[r].answer.status = 200
  /\ requests' = Remove(r)
  /\ lastVersion' = requests[r].answer.version
  /\ told' = told \cup Covered(requests[r].answer.changes)
  /\ SendCaughtUp
  /\ UNCHANGED <<logVars, serverVars, broken, down, page, ws, isFirstConnect,
                 base, owed, failures, returns>>

\* 410: location.reload.  The new page is a client of its own.
OnExpired(r) ==
  /\ Returns(r)
  /\ ~ requests[r].first
  /\ requests[r].answer.status = 410
  /\ page' = "reloading"
  /\ ws' = 0
  /\ requests' = <<>>
  /\ broken' = IF ws = 0 THEN broken ELSE broken \cup {ws}
  /\ down' = IF ws = 0 THEN down ELSE [down EXCEPT ![ws] = <<>>]
  /\ UNCHANGED <<logVars, serverVars, up, lastVersion, isFirstConnect, base,
                 told, owed, failures, returns>>

\* The answer of a request under way brings v.
Brings(request, v) ==
  IF request.answered
    THEN \/ request.first /\ v <= request.answer.version
         \/ request.answer.status = 410
         \/ v \in Covered(request.answer.changes)
    ELSE request.first \/ request.since < v

\* A network error, or a status that is neither 2xx nor 410: logged, and no
\* caught-up.  The page does not try again by itself.
OnRequestFailed(r) ==
  /\ page = "loaded"
  /\ failures < MaxFailures
  /\ failures' = failures + 1
  /\ requests' = Remove(r)
  /\ owed' = owed \cup {v \in 1 .. currentVersion : Brings(requests[r], v)}
  /\ UNCHANGED <<logVars, serverVars, wireVars, page, ws, lastVersion,
                 isFirstConnect, base, told, returns>>

-----------------------------------------------------------------------------
Step ==
  \/ \E s \in {Me, Other}, c \in Changes : Write(s, c)
  \/ \E i \in Conns : \/ OnAuth(i)
                      \/ OnAuthRefused(i)
                      \/ OnCaughtUp(i)
                      \/ OnIgnored(i)
                      \/ OnServerClose(i)
                      \/ Break(i)
                      \/ Connect(i)
  \/ HeartbeatTerminate
  \/ OnClientClose
  \/ OnAuthResult
  \/ OnBlocksChanged
  \/ OnVersionUpdate
  \/ OnVisible
  \/ \E r \in DOMAIN requests : \/ ServerAnswers(r)
                                \/ OnFirstAnswer(r)
                                \/ OnAnswer(r)
                                \/ OnExpired(r)
                                \/ OnRequestFailed(r)

\* Once the page reloads its client id is gone, and nothing more is modelled.
Next == page = "loaded" /\ Step

\* The network delivers, the event loops run, requests are answered; nothing
\* makes a connection break, a client write or a user come back to the tab.
Advance ==
  \/ \E i \in Conns : \/ OnAuth(i)
                      \/ OnCaughtUp(i)
                      \/ OnIgnored(i)
                      \/ OnServerClose(i)
                      \/ Connect(i)
  \/ OnClientClose
  \/ OnAuthResult
  \/ OnBlocksChanged
  \/ OnVersionUpdate
  \/ \E r \in DOMAIN requests : \/ ServerAnswers(r)
                                \/ OnFirstAnswer(r)
                                \/ OnAnswer(r)
                                \/ OnExpired(r)

Spec == Init /\ [][Next]_vars /\ WF_vars(page = "loaded" /\ Advance)

-----------------------------------------------------------------------------
TypeOK ==
  /\ Log!TypeOK
  /\ {clients, lastAuth} \subseteq 0 .. MaxConns
  /\ fresh \in BOOLEAN
  /\ server \in [Conns -> {"none", "unauth", "open", "closing", "closed"}]
  /\ broken \subseteq Conns
  /\ caughtUp \subseteq Conns
  /\ page \in {"loaded", "reloading"}
  /\ ws \in 0 .. MaxConns
  /\ lastVersion \in 0 .. MaxVersion
  /\ isFirstConnect \in BOOLEAN
  /\ failures \in 0 .. MaxFailures
  /\ returns \in 0 .. MaxReturns
  /\ Len(requests) <= MaxRequests
  /\ base \in -1 .. MaxVersion
  /\ {told, owed} \subseteq SUBSET (1 .. currentVersion)

\* Change v needs nothing more: the page made it, loaded it or was told.
Done(v) == v <= base \/ history[v].sender = Me \/ v \in told

\* The exceptions the code makes: a request that failed is not repeated, and
\* since=0 is answered, not refused, when rows it needs are gone.
DoneOrOwed(v) == Done(v) \/ v \in owed

Reaches(v) ==
  DoneOrOwed(v) \/ \E r \in DOMAIN requests : Brings(requests[r], v)

\* The version the page reports has no hole below it, whatever order the
\* broadcasts and the catch-up answers came in: a change of somebody else up
\* to lastVersion was told, or an answer under way brings it.  A hole would be
\* lost for good, as the next catch-up starts at lastVersion.
Complete(vs) ==
  page = "loaded" => \A v \in vs : v <= lastVersion => Reaches(v)

CharactersComplete ==
  Complete({v \in 1 .. currentVersion : history[v].change # "page"})

\* The same for every change: missed changes are applied together on
\* reconnection (README.md:113-115).
ChangesComplete == Complete(1 .. currentVersion)

\* The page is never told of its own change (README.md:115), on no connection
\* and by no catch-up: it would overwrite newer edits of its user.
NoEcho == \A v \in told : history[v].sender # Me

\* The connection registered last stays registered for as long as the server
\* holds it open: no event of an older connection, however late, removes it.
RegistrationLasts ==
  (lastAuth # 0 /\ server[lastAuth] = "open") => clients = lastAuth

\* The map of clients holds the live connections (serverState.ts:5): where the
\* server has authenticated the page's present connection, broadcasts go to it.
BroadcastsReachThePage ==
  (ws # 0 /\ ws \notin broken /\ server[ws] = "open") => clients = ws

\* A client counts as fresh only after it has caught up on its present
\* connection ("fresh clients: catch-up completed", serverState.ts:11).
FreshMeansCaughtUp == (clients # 0 /\ fresh) => clients \in caughtUp

Connected == ws # 0 /\ ws \notin broken /\ clients = ws

\* A page that stays connected and registered is told of every change in the
\* end, or reloads.
EventuallyTold ==
  <>[]Connected =>
    \A v \in 1 .. MaxVersion :
      v \in DOMAIN history /\ history[v].change # "page"
        ~> (v \in DOMAIN history /\ DoneOrOwed(v)) \/ page = "reloading"
=============================================================================
