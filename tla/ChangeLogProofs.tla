-------------------------- MODULE ChangeLogProofs --------------------------
(***************************************************************************)
(* Proofs about ChangeLog, for every log size and every number of changes. *)
(* The inductive invariant is IInv: the table's versions are a window of   *)
(* the history that ends at currentVersion.  What trimming leaves is a     *)
(* matter of counting the rows above a row, hence FiniteSetTheorems.       *)
(***************************************************************************)
EXTENDS ChangeLog, FiniteSetTheorems, TLAPS

\* The versions a log at version n holds.
Window(n) == {v \in 1 .. n : v > n - MaxLogEntries}

IInv == TypeOK /\ LogIsNewest

-----------------------------------------------------------------------------
\* Counting the rows above a row of a log that has one row too many.
LEMMA RowsAbove ==
  ASSUME NEW n \in Nat, NEW v \in 1 .. n + 1, v > n - MaxLogEntries
  PROVE  Cardinality({w \in Window(n) \cup {n + 1} : w > v}) = n + 1 - v
<1> USE LogAssumption
<1>1. {w \in Window(n) \cup {n + 1} : w > v} = (v + 1) .. (n + 1)
  BY DEF Window
<1>2. Cardinality((v + 1) .. (n + 1)) = n + 1 - v
  <2>1. v + 1 \in Int /\ n + 1 \in Int
    OBVIOUS
  <2>2. Cardinality((v + 1) .. (n + 1))
          = IF v + 1 > n + 1 THEN 0 ELSE (n + 1) - (v + 1) + 1
    BY <2>1, FS_Interval
  <2> QED
    BY <2>2
<1> QED
  BY <1>1, <1>2

\* Adding a row to the window and trimming gives the next window; the rows
\* that stay are not touched.
LEMMA TrimIsWindow ==
  ASSUME NEW n \in Nat, NEW f, DOMAIN f = Window(n) \cup {n + 1}
  PROVE  /\ DOMAIN Trim(f) = Window(n + 1)
         /\ \A v \in Window(n + 1) : Trim(f)[v] = f[v]
<1> USE LogAssumption
<1> DEFINE D == Window(n) \cup {n + 1}
<1> DEFINE Newest == {v \in D : Cardinality({w \in D : w > v}) < MaxLogEntries}
<1>1. \A v \in D : v \in 1 .. n + 1 /\ v > n - MaxLogEntries
  BY DEF Window
<1>2. \A v \in D : Cardinality({w \in D : w > v}) = n + 1 - v
  BY <1>1, RowsAbove
<1>3. Newest = Window(n + 1)
  <2>1. \A v \in D : Cardinality({w \in D : w > v}) < MaxLogEntries
                       <=> v > n + 1 - MaxLogEntries
    <3> HIDE DEF D
    <3> QED
      BY <1>1, <1>2
  <2>2. Newest = {v \in D : v > n + 1 - MaxLogEntries}
    <3> HIDE DEF D
    <3> QED
      BY <2>1
  <2>3. {v \in D : v > n + 1 - MaxLogEntries} = Window(n + 1)
    BY DEF Window
  <2> QED
    BY <2>2, <2>3
<1>4. CASE Cardinality(D) > MaxLogEntries
  <2>1. Trim(f) = [v \in Newest |-> f[v]]
    BY <1>4 DEF Trim, Keep
  <2> HIDE DEF Newest
  <2> QED
    BY <2>1, <1>3
<1>5. CASE ~ (Cardinality(D) > MaxLogEntries)
  <2>1. Trim(f) = f
    BY <1>5 DEF Trim
  <2>2. D = Window(n + 1)
    <3> DEFINE lo == IF n - MaxLogEntries + 1 < 1 THEN 1 ELSE n - MaxLogEntries + 1
    <3>1. D = lo .. (n + 1)
      BY DEF Window
    <3>2. lo \in Int /\ n + 1 \in Int /\ lo <= n + 1
      OBVIOUS
    <3>3. Cardinality(lo .. (n + 1)) = (n + 1) - lo + 1
      <4> HIDE DEF lo
      <4>1. Cardinality(lo .. (n + 1)) = IF lo > n + 1 THEN 0 ELSE (n + 1) - lo + 1
        BY <3>2, FS_Interval
      <4> QED
        BY <4>1, <3>2
    <3>4. (n + 1) - lo + 1 <= MaxLogEntries
      <4>1. Cardinality(D) = (n + 1) - lo + 1
        BY <3>1, <3>3
      <4>2. (n + 1) - lo + 1 \in Int
        BY <3>2
      <4> HIDE DEF D, lo
      <4> QED
        BY <4>1, <4>2, <1>5
    <3>5. lo = 1 /\ n + 1 <= MaxLogEntries
      BY <3>4
    <3> QED
      BY <3>1, <3>5 DEF Window
  <2> QED
    BY <2>1, <2>2
<1> QED
  BY <1>4, <1>5

-----------------------------------------------------------------------------
LEMMA InitIInv == Init => IInv
  BY LogAssumption DEF Init, IInv, TypeOK, LogIsNewest, Versions

LEMMA AddKeepsIInv ==
  ASSUME IInv, NEW s \in Senders, NEW c \in Changes, AddChangeLogEntry(s, c)
  PROVE  IInv'
<1> USE LogAssumption
<1> DEFINE n == currentVersion
<1> DEFINE entry == [sender |-> s, change |-> c]
<1> DEFINE g == Add(log, n + 1, entry)
<1>1. /\ n \in Nat
      /\ n + 1 <= MaxVersion
      /\ currentVersion' = n + 1
      /\ log' = Trim(g)
      /\ history' = Add(history, n + 1, entry)
  BY DEF AddChangeLogEntry, IInv, TypeOK
<1>2. entry \in Entries
  BY DEF Entries
<1>3. DOMAIN log = Window(n) /\ \A v \in DOMAIN log : log[v] = history[v]
  BY DEF IInv, LogIsNewest, Window
<1>4. DOMAIN history = 1 .. n /\ \A v \in 1 .. n : history[v] \in Entries
  BY DEF IInv, TypeOK
<1>5. /\ DOMAIN g = Window(n) \cup {n + 1}
      /\ \A v \in DOMAIN g : g[v] = IF v = n + 1 THEN entry ELSE log[v]
  BY <1>3 DEF Add
<1>6. history' \in [1 .. n + 1 -> Entries]
  <2>1. DOMAIN history \cup {n + 1} = 1 .. n + 1
    BY <1>1, <1>4
  <2>2. history' = [v \in 1 .. n + 1 |-> IF v = n + 1 THEN entry ELSE history[v]]
    BY <1>1, <2>1 DEF Add
  <2>3. \A v \in 1 .. n + 1 : (IF v = n + 1 THEN entry ELSE history[v]) \in Entries
    BY <1>1, <1>2, <1>4
  <2> HIDE DEF entry, n
  <2> QED
    BY <2>2, <2>3
<1>7. /\ history'[n + 1] = entry
      /\ \A v \in 1 .. n : history'[v] = history[v]
  BY <1>1, <1>4 DEF Add
<1>8. /\ DOMAIN log' = Window(n + 1)
      /\ \A v \in Window(n + 1) : log'[v] = g[v]
  <2> HIDE DEF g, n
  <2> QED
    BY <1>1, <1>5, TrimIsWindow
<1>9. Window(n + 1) \subseteq DOMAIN g
  BY <1>1, <1>5 DEF Window
<1>10. \A v \in DOMAIN log' : log'[v] = history'[v]
  <2> SUFFICES ASSUME NEW v \in Window(n + 1)
               PROVE  g[v] = history'[v]
    BY <1>8
  <2>1. CASE v = n + 1
    BY <1>5, <1>7, <1>9, <2>1
  <2>2. CASE v # n + 1
    <3>1. v \in Window(n) /\ v \in 1 .. n
      BY <1>1, <2>2 DEF Window
    <3> QED
      BY <1>3, <1>5, <1>7, <1>9, <3>1, <2>2
  <2> QED
    BY <2>1, <2>2
<1>11. DOMAIN log' \subseteq 1 .. n + 1
  BY <1>8 DEF Window
<1>12. log' \in [DOMAIN log' -> Entries]
  <2>1. log' = [v \in DOMAIN log' |-> log'[v]]
    BY <1>1, <1>8 DEF Trim, Keep, Add
  <2>2. \A v \in DOMAIN log' : log'[v] \in Entries
    BY <1>6, <1>10, <1>11
  <2> QED
    BY <2>1, <2>2
<1>13. TypeOK'
  BY <1>1, <1>6, <1>11, <1>12 DEF TypeOK, Versions
<1>14. LogIsNewest'
  BY <1>1, <1>8, <1>10 DEF LogIsNewest, Window
<1> QED
  BY <1>13, <1>14 DEF IInv

LEMMA NextIInv == IInv /\ [Next]_vars => IInv'
<1> SUFFICES ASSUME IInv, [Next]_vars PROVE IInv'
  OBVIOUS
<1>1. CASE Next
  BY <1>1, AddKeepsIInv DEF Next
<1>2. CASE UNCHANGED vars
  BY <1>2 DEF vars, IInv, TypeOK, LogIsNewest
<1> QED
  BY <1>1, <1>2

\* The inductive invariant holds in every reachable state.
THEOREM LogInvariance == Spec => []IInv
  BY InitIInv, NextIInv, PTL DEF Spec

\* Versions, rows and entries keep their types (addChangeLogEntry).
THEOREM LogTypeOK == Spec => []TypeOK
<1>1. IInv => TypeOK
  BY DEF IInv
<1> QED
  BY <1>1, LogInvariance, PTL

\* The table is always the unbroken, unaltered end of the history, for every
\* MAX_LOG_ENTRIES (addChangeLogEntry and its trim).
THEOREM LogWindow == Spec => []LogIsNewest
<1>1. IInv => LogIsNewest
  BY DEF IInv
<1> QED
  BY <1>1, LogInvariance, PTL

\* getChangesSince never answers 200 with a change of somebody else missing, to
\* any client that names a version above zero.
THEOREM CompleteAnswers == Spec => []AnswersAreComplete
<1>1. ASSUME IInv, NEW since \in Versions, NEW c \in Clients,
             GetChangesSince(since, c).status = 200
      PROVE  GetChangesSince(since, c).changes
               = {v \in 1 .. currentVersion : v > since /\ history[v].sender # c}
  <2> USE LogAssumption DEF Versions
  <2>1. currentVersion \in Nat
    BY <1>1 DEF IInv, TypeOK
  <2>2. DOMAIN log = Window(currentVersion)
    BY <1>1 DEF IInv, LogIsNewest, Window
  <2>3. \A v \in DOMAIN log : log[v] = history[v]
    BY <1>1 DEF IInv, LogIsNewest
  <2>4. CASE NothingSince(since)
    <3>1. GetChangesSince(since, c).changes = {}
      BY <2>4 DEF GetChangesSince, Answer
    <3>2. since >= currentVersion
      <4>1. CASE DOMAIN log = {}
        <5>1. currentVersion \notin Window(currentVersion)
          BY <2>2, <4>1
        <5> QED
          BY <5>1, <2>1 DEF Window
      <4> QED
        BY <2>4, <4>1 DEF NothingSince
    <3> QED
      BY <3>1, <3>2, <2>1
  <2>5. CASE ~ NothingSince(since)
    <3>1. ~ TooOld(since)
      <4>1. since > 0
        OBVIOUS
      <4> QED
        BY <1>1, <2>5, <4>1 DEF GetChangesSince, Expired
    <3>2. GetChangesSince(since, c).changes
            = {v \in DOMAIN log : v > since /\ log[v].sender # c}
      BY <2>5, <3>1 DEF GetChangesSince, Answer
    <3>3. \A v \in 1 .. currentVersion : v > since => v \in DOMAIN log
      <4>1. PICK w \in DOMAIN log : ~ (since < w)
        BY <3>1 DEF TooOld
      <4> QED
        BY <4>1, <2>1, <2>2 DEF Window
    <3>4. DOMAIN log \subseteq 1 .. currentVersion
      BY <2>2 DEF Window
    <3> QED
      BY <3>2, <3>3, <3>4, <2>3
  <2> QED
    BY <2>4, <2>5
<1>2. IInv => AnswersAreComplete
  BY <1>1 DEF AnswersAreComplete
<1> QED
  BY <1>2, LogInvariance, PTL

\* A client fewer than MAX_LOG_ENTRIES changes behind is never told to reload.
THEOREM RecentClients == Spec => []RecentClientsNeedNoReload
<1>1. ASSUME IInv, NEW since \in Versions, NEW c \in Clients,
             since > currentVersion - MaxLogEntries
      PROVE  GetChangesSince(since, c).status = 200
  <2> USE LogAssumption DEF Versions
  <2>1. currentVersion \in Nat
    BY <1>1 DEF IInv, TypeOK
  <2>2. CASE NothingSince(since)
    BY <2>2 DEF GetChangesSince, Answer
  <2>3. CASE ~ NothingSince(since)
    <3>1. since < currentVersion
      BY <2>3, <2>1 DEF NothingSince
    <3>2. since \in DOMAIN log
      BY <1>1, <3>1, <2>1 DEF IInv, LogIsNewest
    <3>3. ~ TooOld(since)
      BY <3>2 DEF TooOld
    <3> QED
      BY <2>3, <3>3 DEF GetChangesSince, Answer
  <2> QED
    BY <2>2, <2>3
<1>2. IInv => RecentClientsNeedNoReload
  BY <1>1 DEF RecentClientsNeedNoReload
<1> QED
  BY <1>2, LogInvariance, PTL
=============================================================================
