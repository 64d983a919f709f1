-------------------------- MODULE StreamSyncProofs --------------------------
(***************************************************************************)
(* For any number of answers, pieces of text, saves, lost connections and  *)
(* requests under way: the variables of StreamSync have their types, and   *)
(* what the page has heard of an answer it follows is what it shows.       *)
(***************************************************************************)
EXTENDS StreamSync, SequenceTheorems, WellFoundedInduction, TLAPS

-----------------------------------------------------------------------------
(* Numbers and sequences                                                    *)

LEMMA StreamsAreNumbers == Streams \subseteq Nat \ {0}
  BY DEF Streams

\* The last of several streams.
LEMMA NewestIsThere ==
  ASSUME NEW S \in SUBSET Streams, S # {}
  PROVE  Newest(S) \in S /\ \A r \in S : r <= Newest(S)
<1> DEFINE T == {n \in Nat : NumStreams - n \in S}
           Less == OpToRel(<, Nat)
<1>0. NumStreams \in Nat
  BY BoundsAssumption
<1>1. T # {} /\ T \subseteq Nat
  <2>1. PICK s \in S : TRUE
    OBVIOUS
  <2>2. s \in 1 .. NumStreams
    BY <2>1 DEF Streams
  <2>3. NumStreams - s \in Nat /\ NumStreams - (NumStreams - s) = s
    BY <1>0, <2>2
  <2>4. NumStreams - s \in T
    BY <2>1, <2>3
  <2> QED BY <2>4
<1>2. PICK n \in T : \A m \in T : ~ (<<m, n>> \in Less)
  <2> HIDE DEF T, Less
  <2>1. IsWellFoundedOn(Less, Nat)
    BY NatLessThanWellFounded DEF Less
  <2> QED BY <1>1, <2>1, WFMin
<1>3. \A m \in T : ~ (m < n)
  BY <1>1, <1>2 DEF OpToRel
<1>4. ASSUME NEW r \in S PROVE r <= NumStreams - n
  <2>1. r \in 1 .. NumStreams
    BY DEF Streams
  <2>2. NumStreams - r \in Nat /\ NumStreams - (NumStreams - r) = r
    BY <1>0, <2>1
  <2>3. NumStreams - r \in T
    BY <1>4, <2>2
  <2>4. n \in Nat /\ ~ (NumStreams - r < n)
    BY <1>3, <2>3
  <2> QED BY <1>0, <2>1, <2>4
<1>5. NumStreams - n \in S
  OBVIOUS
<1>6. \E x \in S : \A r \in S : r <= x
  BY <1>4, <1>5
<1> QED BY <1>6, Zenon DEF Newest

\* Which streams are known to be the last is known of each of them.
LEMMA NewestIsUnique ==
  ASSUME NEW S \in SUBSET Streams, NEW s \in S, \A r \in S : r <= s
  PROVE  Newest(S) = s
<1>1. Newest(S) \in S /\ \A r \in S : r <= Newest(S)
  BY NewestIsThere
<1>2. s <= Newest(S) /\ Newest(S) <= s
  BY <1>1
<1>3. s \in Nat /\ Newest(S) \in Nat
  BY <1>1, StreamsAreNumbers
<1> QED BY <1>2, <1>3

\* A sequence without one of its elements has the others.
LEMMA RemoveAtKeeps ==
  ASSUME NEW T, NEW q \in Seq(T), NEW i \in 1 .. Len(q)
  PROVE  /\ RemoveAt(q, i) \in Seq(T)
         /\ Len(RemoveAt(q, i)) = Len(q) - 1
         /\ \A j \in 1 .. Len(RemoveAt(q, i)) : \E k \in 1 .. Len(q) : RemoveAt(q, i)[j] = q[k]
<1> DEFINE a == SubSeq(q, 1, i - 1)
           b == SubSeq(q, i + 1, Len(q))
<1>0. Len(q) \in Nat /\ i \in Nat /\ i >= 1 /\ i <= Len(q)
  OBVIOUS
<1>1. a \in Seq(T) /\ Len(a) = i - 1 /\ \A j \in 1 .. i - 1 : a[j] = q[j]
  <2>1. i - 1 \in Int /\ \A j \in 1 .. i - 1 : q[j] \in T /\ 1 + j - 1 = j
    BY <1>0
  <2>2. Len(a) = (IF 1 <= i - 1 THEN (i - 1) - 1 + 1 ELSE 0)
        /\ a \in Seq(T) /\ \A j \in 1 .. (i - 1) - 1 + 1 : a[j] = q[1 + j - 1]
    BY <2>1, SubSeqProperties
  <2> QED BY <1>0, <2>1, <2>2
<1>2. b \in Seq(T) /\ Len(b) = Len(q) - i /\ \A j \in 1 .. Len(q) - i : b[j] = q[i + j]
  <2>1. /\ i + 1 \in Int /\ Len(q) \in Int
        /\ \A j \in i + 1 .. Len(q) : q[j] \in T
        /\ \A j \in 1 .. Len(q) - i : (i + 1) + j - 1 = i + j
        /\ Len(q) - (i + 1) + 1 = Len(q) - i
    BY <1>0
  <2>2. /\ b \in Seq(T)
        /\ Len(b) = (IF i + 1 <= Len(q) THEN Len(q) - (i + 1) + 1 ELSE 0)
        /\ \A j \in 1 .. Len(q) - (i + 1) + 1 : b[j] = q[(i + 1) + j - 1]
    BY <2>1, SubSeqProperties
  <2> HIDE DEF b
  <2>3. Len(b) = Len(q) - i
    BY <1>0, <2>2
  <2>4. \A j \in 1 .. Len(q) - i : b[j] = q[i + j]
    BY <2>1, <2>2
  <2> QED BY <2>2, <2>3, <2>4
<1> HIDE DEF a, b
<1>3. /\ a \o b \in Seq(T) /\ Len(a \o b) = Len(q) - 1
      /\ \A j \in 1 .. Len(q) - 1 : (a \o b)[j] = IF j <= i - 1 THEN q[j] ELSE q[j + 1]
  <2>1. /\ a \o b \in Seq(T) /\ Len(a \o b) = Len(a) + Len(b)
        /\ \A j \in 1 .. Len(a) + Len(b) :
             (a \o b)[j] = IF j <= Len(a) THEN a[j] ELSE b[j - Len(a)]
    BY <1>1, <1>2, ConcatProperties
  <2>2. ASSUME NEW j \in 1 .. Len(q) - 1
        PROVE  (a \o b)[j] = IF j <= i - 1 THEN q[j] ELSE q[j + 1]
    <3>1. (a \o b)[j] = IF j <= i - 1 THEN a[j] ELSE b[j - (i - 1)]
      BY <1>0, <1>1, <1>2, <2>1
    <3>2. CASE j <= i - 1
      BY <1>0, <1>1, <3>1, <3>2
    <3>3. CASE ~ (j <= i - 1)
      <4>1. j - (i - 1) \in 1 .. Len(q) - i /\ i + (j - (i - 1)) = j + 1
        BY <1>0, <3>3
      <4> QED BY <1>2, <3>1, <3>3, <4>1
    <3> QED BY <3>2, <3>3
  <2> QED BY <1>0, <1>1, <1>2, <2>1, <2>2
<1>4. RemoveAt(q, i) = a \o b
  BY DEF RemoveAt, a, b
<1>5. ASSUME NEW j \in 1 .. Len(q) - 1
      PROVE  \E k \in 1 .. Len(q) : (a \o b)[j] = q[k]
  <2>1. j \in 1 .. Len(q) /\ j + 1 \in 1 .. Len(q)
    BY <1>0
  <2> QED BY <1>3, <2>1
<1> QED BY <1>3, <1>4, <1>5

-----------------------------------------------------------------------------
(* Chats                                                                    *)

Texts == 0 .. FullText

LEMMA UserIsMessage == ASSUME NEW s \in Streams PROVE User(s) \in Messages
<1>1. s \in 1 .. NumStreams /\ NumStreams \in Nat /\ FullText \in Nat
  BY BoundsAssumption DEF Streams
<1>2. - s \in - NumStreams .. NumStreams /\ FullText \in 0 .. FullText
  BY <1>1
<1> QED BY <1>2 DEF User, Messages

LEMMA AnswerIsMessage ==
  ASSUME NEW s \in Streams \cup {0}, NEW n \in Texts
  PROVE  Answer(s, n) \in Messages
<1>1. s \in 0 .. NumStreams /\ NumStreams \in Nat
  BY BoundsAssumption DEF Streams
<1>2. s \in - NumStreams .. NumStreams
  BY <1>1
<1> QED BY <1>2 DEF Answer, Messages, Texts

LEMMA ChatFields ==
  ASSUME NEW d \in Chats
  PROVE  /\ d.said \in Seq(Messages) /\ d.live \in BOOLEAN /\ Len(d.said) \in Nat
         /\ \A i \in 1 .. Len(d.said) : d.said[i] \in Messages
<1>1. d.said \in Seq(Messages) /\ d.live \in BOOLEAN
  BY DEF Chats
<1> QED BY <1>1

LEMMA AppendedChat ==
  ASSUME NEW d \in Chats, NEW m \in Messages, NEW l \in BOOLEAN
  PROVE  [said |-> Append(d.said, m), live |-> l] \in Chats
<1>1. Append(d.said, m) \in Seq(Messages)
  BY ChatFields, AppendProperties
<1> QED BY <1>1 DEF Chats

\* The messages of a chat with the answer of a stream in one of them.
Put(q, at, s, text) == [q EXCEPT ![at].of = s, ![at].text = text]

LEMMA ChangedSaid ==
  ASSUME NEW q \in Seq(Messages), NEW at \in 1 .. Len(q),
         NEW s \in Streams, NEW text \in Texts
  PROVE  LET r == Put(q, at, s, text) IN
         /\ r \in Seq(Messages) /\ Len(r) = Len(q)
         /\ r[at] \in Messages /\ r[at].of = s /\ r[at].text = text
         /\ \A i \in 1 .. Len(q) : i # at => r[i] = q[i]
<1> DEFINE e == [q[at] EXCEPT !.of = s, !.text = text]
           r == [q EXCEPT ![at] = e]
<1>1. q \in [1 .. Len(q) -> Messages] /\ Len(q) \in Nat
  BY LenProperties
<1>2. q[at] \in Messages
  BY <1>1
<1>3. s \in - NumStreams .. NumStreams
  BY BoundsAssumption DEF Streams
<1>4. e \in Messages /\ e.of = s /\ e.text = text
  BY <1>2, <1>3 DEF Messages, Texts
<1>5. Put(q, at, s, text) = r
  BY <1>1, <1>2 DEF Messages, Put
<1> HIDE DEF e
<1>6. r \in Seq(Messages) /\ Len(r) = Len(q)
  BY <1>4, ExceptSeq
<1>7. r[at] = e /\ \A i \in 1 .. Len(q) : i # at => r[i] = q[i]
  BY <1>1
<1> QED BY <1>4, <1>5, <1>6, <1>7

\* resolveStreamTarget leaves the messages there are, and there is one.
LEMMA ResolveKeeps ==
  ASSUME NEW d \in Chats
  PROVE  /\ Resolve(d) \in Chats
         /\ Len(Resolve(d).said) >= Len(d.said) /\ Len(Resolve(d).said) >= 1
         /\ \A i \in 1 .. Len(d.said) : Resolve(d).said[i] = d.said[i]
<1>1. d.said \in Seq(Messages) /\ Len(d.said) \in Nat
  BY ChatFields
<1>2. CASE LastIsAnswer(d)
  <2>1. Resolve(d) = [said |-> d.said, live |-> TRUE] /\ d.said # <<>>
    BY <1>2 DEF Resolve, LastIsAnswer
  <2>2. Len(d.said) >= 1
    BY <1>1, <2>1, EmptySeq
  <2> QED BY <1>1, <2>1, <2>2 DEF Chats
<1>3. CASE ~ LastIsAnswer(d)
  <2> DEFINE a == Append(d.said, Answer(0, 0))
  <2>1. Resolve(d) = [said |-> a, live |-> TRUE]
    BY <1>3 DEF Resolve
  <2>2. Answer(0, 0) \in Messages
    BY AnswerIsMessage, BoundsAssumption DEF Texts
  <2>3. /\ a \in Seq(Messages) /\ Len(a) = Len(d.said) + 1
        /\ \A i \in 1 .. Len(d.said) : a[i] = d.said[i]
    BY <1>1, <2>2, AppendProperties
  <2> HIDE DEF a
  <2> QED BY <1>1, <2>1, <2>3 DEF Chats
<1> QED BY <1>2, <1>3

\* applyStreamText changes one message.
LEMMA ShowKeeps ==
  ASSUME NEW d \in Chats, NEW at \in Nat, NEW s \in Streams, NEW text \in Texts
  PROVE  LET e == Show(d, at, s, text) IN
         /\ e \in Chats /\ Len(e.said) = Len(d.said)
         /\ \A i \in 1 .. Len(d.said) : i # at => e.said[i] = d.said[i]
         /\ at \in 1 .. Len(d.said) => e.said[at].of = s /\ e.said[at].text = text
<1> DEFINE q == d.said
           r == Put(q, at, s, text)
<1>1. q \in Seq(Messages) /\ d = [said |-> q, live |-> d.live] /\ d.live \in BOOLEAN
  BY DEF Chats
<1>2. CASE at \in 1 .. Len(q)
  <2>1. Show(d, at, s, text) = [said |-> r, live |-> d.live]
    BY <1>1, <1>2 DEF Show, Put
  <2>2. /\ r \in Seq(Messages) /\ Len(r) = Len(q)
        /\ r[at].of = s /\ r[at].text = text
        /\ \A i \in 1 .. Len(q) : i # at => r[i] = q[i]
    BY <1>1, <1>2, ChangedSaid
  <2> HIDE DEF q, r
  <2>3. [said |-> r, live |-> d.live] \in Chats
    BY <1>1, <2>2 DEF Chats
  <2>4. d.said = q
    BY DEF q
  <2> QED BY <2>1, <2>2, <2>3, <2>4
<1>3. CASE at \notin 1 .. Len(q)
  BY <1>3 DEF Show
<1> QED BY <1>2, <1>3

LEMMA ReleaseKeeps ==
  ASSUME NEW d \in Chats PROVE Release(d) \in Chats /\ Release(d).said = d.said
  BY DEF Release, Chats

\* applyFinalText takes no message away.
LEMMA FinalTextKeeps ==
  ASSUME NEW d \in Chats, NEW s \in Streams, NEW text \in Texts
  PROVE  FinalText(d, s, text) \in Chats /\ Len(FinalText(d, s, text).said) >= Len(d.said)
<1> DEFINE r == Resolve(d)
           e == Show(r, Len(r.said), s, text)
<1>1. r \in Chats /\ Len(r.said) >= Len(d.said)
  BY ResolveKeeps
<1>2. Len(r.said) \in Nat
  BY <1>1, ChatFields
<1>3. FinalText(d, s, text) = Release(e)
  BY DEF FinalText
<1> HIDE DEF r
<1>4. e \in Chats /\ Len(e.said) = Len(r.said)
  BY <1>1, <1>2, ShowKeeps
<1> HIDE DEF e
<1> QED BY <1>1, <1>3, <1>4, ReleaseKeeps

-----------------------------------------------------------------------------
(* The invariant                                                            *)

Signals ==
  [type : {"stream-start"}, id : Streams]
    \cup [type : {"stream-data", "stream-end"}, id : Streams, text : Texts]
    \cup [type : {"blocks-changed"}, version : Nat]
Pendings == {NoText} \cup [id : Streams, text : Texts]
Bodies == [ids : SUBSET Streams, chat : Chats, version : Nat, pending : Pendings,
           changes : BOOLEAN]
Requests == [kind : {"active", "block", "changes"}, since : Nat, done : BOOLEAN, body : Bodies]
Pasts == [saves : Nat, returns : Nat, pended : BOOLEAN, crossed : BOOLEAN,
          missed : BOOLEAN, heard : SUBSET Streams]
States == [Streams -> [state : {"none", "streaming", "completed"}, text : Texts]]

IsStream(m) == m.type # "blocks-changed"
IsEnd(m, s) == m.type = "stream-end" /\ m.id = s
Begun(s) == stream[s].state # "none"

Types ==
  /\ TypeOK /\ chat \in Chats
  /\ wire \in Seq(Signals) /\ asks \in Seq(Requests) /\ past \in Pasts

\* What is under way speaks of changes and streams there are, and the page
\* follows no other.
Timely ==
  /\ \A i \in 1 .. Len(wire) : wire[i].type = "blocks-changed" => wire[i].version <= log
  /\ \A i \in 1 .. Len(asks) : asks[i].body.version <= log
Known ==
  /\ \A s \in Streams : act[s].on => Begun(s)
  /\ \A i \in 1 .. Len(wire) : IsStream(wire[i]) => Begun(wire[i].id)
  /\ \A i \in 1 .. Len(asks) : \A s \in asks[i].body.ids : Begun(s)

\* An entry that has a text has its message.
Entries ==
  \A s \in Streams :
    /\ ~ act[s].on => act[s] = NoEntry
    /\ act[s].text > 0 => act[s].at > 0

\* One stream at a time, and their messages come in that order.
InTurn == \A s \in Streams : Begun(s) => \A r \in 1 .. s - 1 : Over(r)
InOrder ==
  \A i, j \in 1 .. Len(wire) :
    i < j /\ IsStream(wire[i]) /\ IsStream(wire[j]) => wire[i].id <= wire[j].id
TextIsNew ==
  \A i \in 1 .. Len(wire) : \A r \in Streams :
    IsStream(wire[i]) /\ act[r].text > 0 => r <= wire[i].id

\* A stream that is over and that the page follows, or will follow, has its
\* end under way.
StartHasEnd ==
  \A i \in 1 .. Len(wire) : wire[i].type = "stream-start" /\ Over(wire[i].id) =>
    \E j \in i + 1 .. Len(wire) : IsEnd(wire[j], wire[i].id)
OverHasEnd ==
  ~ past.missed => \A r \in Streams : Over(r) /\ act[r].on =>
    \E i \in 1 .. Len(wire) : IsEnd(wire[i], r)

IInv ==
  /\ Types /\ Timely /\ Known /\ Entries /\ InTurn /\ InOrder /\ TextIsNew
  /\ StartHasEnd /\ OverHasEnd /\ HeardIsShown

LEMMA Typed ==
  ASSUME Types
  PROVE  /\ chat \in Chats /\ block \in Chats /\ doc \in Chats /\ Len(doc.said) \in Nat
         /\ stream \in States /\ log \in Nat /\ version \in 0 .. log
         /\ act \in [Streams -> [on : BOOLEAN, at : 0 .. Len(doc.said), text : Texts]]
         /\ linked \in BOOLEAN /\ (~ linked => wire = <<>>) /\ Len(asks) <= MaxFetches
         /\ wire \in Seq(Signals) /\ asks \in Seq(Requests) /\ past \in Pasts
         /\ Len(wire) \in Nat /\ Len(asks) \in Nat
<1>1. /\ block \in Chats /\ doc \in Chats
      /\ stream \in States /\ log \in Nat /\ version \in 0 .. log
      /\ act \in [Streams -> [on : BOOLEAN, at : 0 .. Len(doc.said), text : Texts]]
      /\ linked \in BOOLEAN /\ (~ linked => wire = <<>>) /\ Len(asks) <= MaxFetches
  BY DEF Types, TypeOK, States, Texts
<1>2. Len(doc.said) \in Nat
  BY <1>1, ChatFields
<1>3. wire \in Seq(Signals) /\ asks \in Seq(Requests) /\ past \in Pasts /\ chat \in Chats
  BY DEF Types
<1> QED BY <1>1, <1>2, <1>3

LEMMA SignalFields ==
  ASSUME NEW m \in Signals
  PROVE  /\ m.type \in {"stream-start", "stream-data", "stream-end", "blocks-changed"}
         /\ IsStream(m) => m.id \in Streams
         /\ m.type \in {"stream-data", "stream-end"} => m.text \in Texts
         /\ m.type = "blocks-changed" => m.version \in Nat
  BY DEF Signals, IsStream

LEMMA OnTheWire ==
  ASSUME Types, NEW i \in 1 .. Len(wire)
  PROVE  wire[i] \in Signals /\ (IsStream(wire[i]) => wire[i].id \in Streams)
<1>1. wire[i] \in Signals
  BY Typed
<1> QED BY <1>1, SignalFields

\* If the next message is of a stream, no other stream can be one that the
\* page shows the text of.
LEMMA OnlyTheHead ==
  ASSUME IInv, wire # <<>>, IsStream(Head(wire)), NEW r \in Streams,
         act[r].on, act[r].text > 0, past.missed => stream[r].state = "streaming"
  PROVE  r = Head(wire).id
<1> DEFINE s == wire[1].id
<1>1. 1 \in 1 .. Len(wire) /\ Head(wire) = wire[1] /\ Types
  BY Typed, EmptySeq DEF IInv
<1>2. s \in Streams /\ s \in Nat /\ r \in Nat \ {0}
  BY <1>1, OnTheWire, StreamsAreNumbers
<1>3. r <= s
  BY <1>1 DEF IInv, TextIsNew
<1> SUFFICES ASSUME r < s PROVE FALSE
  BY <1>1, <1>2, <1>3
<1>4. Over(r)
  <2>1. Begun(s) /\ r \in 1 .. s - 1
    BY <1>1, <1>2 DEF IInv, Known
  <2> QED BY <1>2, <2>1 DEF IInv, InTurn
<1>5. ~ past.missed
  BY <1>4 DEF Over
<1>6. PICK i \in 1 .. Len(wire) : IsEnd(wire[i], r)
  BY <1>4, <1>5 DEF IInv, OverHasEnd
<1>7. i # 1 /\ IsStream(wire[i]) /\ wire[i].id = r
  BY <1>2, <1>6 DEF IsEnd, IsStream
<1>8. s <= r
  BY <1>1, <1>7 DEF IInv, InOrder
<1> QED BY <1>2, <1>8

LEMMA InitIInv == Init => IInv
<1> SUFFICES ASSUME Init PROVE IInv
  OBVIOUS
<1>0. <<>> \in Seq(Messages) /\ Len(<<>>) = 0 /\ <<>> \in Seq(Signals) /\ <<>> \in Seq(Requests)
  BY EmptySeq
<1>1. chat \in Chats /\ block \in Chats /\ doc \in Chats /\ Len(doc.said) = 0
  BY <1>0 DEF Init, Chats
<1>2. act \in [Streams -> [on : BOOLEAN, at : 0 .. 0, text : Texts]]
  BY BoundsAssumption DEF Init, NoEntry, Texts
<1>3. stream \in States
  BY BoundsAssumption DEF Init, States, Texts
<1>4. TypeOK
  BY <1>0, <1>1, <1>2, <1>3, BoundsAssumption DEF Init, TypeOK, States, Texts
<1>5. Types
  BY <1>0, <1>1, <1>4 DEF Init, Types, Pasts
<1>6. Timely /\ Known /\ InOrder /\ TextIsNew /\ StartHasEnd /\ InTurn /\ OverHasEnd
  BY <1>0 DEF Init, Timely, Known, InOrder, TextIsNew, StartHasEnd, InTurn, OverHasEnd,
     NoEntry, Begun, Over
<1>7. Entries /\ HeardIsShown
  BY DEF Init, Entries, HeardIsShown, NoEntry
<1> QED BY <1>5, <1>6, <1>7 DEF IInv

-----------------------------------------------------------------------------
(* Steps of the server                                                      *)

\* A message is sent: to a page that is not there it is lost.
LEMMA SentOrLost ==
  ASSUME IInv, NEW m \in Signals, Broadcast(m)
  PROVE  /\ wire' \in Seq(Signals) /\ Len(wire') \in Nat /\ (~ linked => wire' = <<>>)
         /\ linked => Len(wire') = Len(wire) + 1 /\ wire'[Len(wire) + 1] = m
         /\ ~ linked => Len(wire') = Len(wire)
         /\ \A i \in 1 .. Len(wire) : i \in 1 .. Len(wire') /\ wire'[i] = wire[i]
         /\ \A i \in 1 .. Len(wire') :
              (i \in 1 .. Len(wire) /\ wire'[i] = wire[i])
                \/ (linked /\ i = Len(wire) + 1 /\ wire'[i] = m)
<1>0. /\ wire \in Seq(Signals) /\ Len(wire) \in Nat /\ (~ linked => wire = <<>>)
      /\ linked \in BOOLEAN
  BY Typed DEF IInv
<1>1. CASE linked
  <2> DEFINE q == Append(wire, m)
  <2>1. /\ q \in Seq(Signals) /\ Len(q) = Len(wire) + 1
        /\ \A i \in 1 .. Len(wire) : q[i] = wire[i]
        /\ q[Len(wire) + 1] = m
    BY <1>0, AppendProperties
  <2>2. wire' = q
    BY <1>1 DEF Broadcast
  <2> HIDE DEF q
  <2> QED BY <1>0, <1>1, <2>1, <2>2
<1>2. CASE ~ linked
  <2>1. wire' = wire
    BY <1>2 DEF Broadcast
  <2> QED BY <1>0, <1>2, <2>1
<1> QED BY <1>1, <1>2

\* What the message of a step of the server must be: of the stream that runs
\* last, its end if the stream is over with this step.
LEMMA SentKeeps ==
  ASSUME IInv, NEW m \in Signals, Broadcast(m), UNCHANGED <<pageVars, linked, asks>>,
         chat' \in Chats, block' \in Chats, stream' \in States,
         log' \in Nat, log' >= log, past' \in Pasts, past'.pended = past.pended,
         past'.missed = (past.missed \/ (m.type = "stream-end" /\ ~ linked)),
         \A s \in Streams : Begun(s) => Begun(s)',
         \A s \in Streams : Over(s) => Over(s)',
         \A s \in Streams : Over(s)' /\ ~ Over(s) => IsEnd(m, s),
         InTurn',
         m.type = "blocks-changed" => m.version <= log',
         IsStream(m) => Begun(m.id)' /\ \A r \in Streams : Begun(r)' => r <= m.id,
         m.type = "stream-start" => ~ Over(m.id)'
  PROVE  IInv'
<1>0. /\ doc' = doc /\ act' = act /\ version' = version /\ linked' = linked /\ asks' = asks
  BY DEF pageVars
<1>1. Types
  BY DEF IInv
<1>2. /\ wire' \in Seq(Signals) /\ Len(wire') \in Nat /\ (~ linked => wire' = <<>>)
      /\ linked => wire'[Len(wire) + 1] = m /\ Len(wire') = Len(wire) + 1
      /\ \A i \in 1 .. Len(wire) : i \in 1 .. Len(wire') /\ wire'[i] = wire[i]
      /\ \A i \in 1 .. Len(wire') :
           (i \in 1 .. Len(wire) /\ wire'[i] = wire[i])
             \/ (linked /\ i = Len(wire) + 1 /\ wire'[i] = m)
  BY SentOrLost
<1>3. Len(wire) \in Nat /\ log \in Nat
  BY <1>1, Typed
<1>4. Types'
  <2>1. version \in 0 .. log'
    BY <1>1, Typed
  <2>2. TypeOK'
    BY <1>0, <1>1, <1>2, <2>1, Typed DEF TypeOK, States, Texts
  <2> QED BY <1>0, <1>1, <1>2, <2>2, Typed DEF Types
<1>5. Timely'
  <2>1. ASSUME NEW i \in 1 .. Len(wire'), wire'[i].type = "blocks-changed"
        PROVE  wire'[i].version <= log'
    <3>1. CASE i \in 1 .. Len(wire) /\ wire'[i] = wire[i]
      <4>1. wire[i].version <= log
        BY <2>1, <3>1 DEF IInv, Timely
      <4>2. wire[i].version \in Nat
        BY <1>1, <2>1, <3>1, OnTheWire, SignalFields
      <4> QED BY <1>3, <3>1, <4>1, <4>2
    <3>2. CASE wire'[i] = m
      BY <2>1, <3>2
    <3> QED BY <1>2, <3>1, <3>2
  <2>2. ASSUME NEW i \in 1 .. Len(asks) PROVE asks[i].body.version <= log'
    <3>1. asks[i].body.version <= log
      BY DEF IInv, Timely
    <3>2. asks[i].body.version \in Nat
      <4>1. asks[i] \in Requests
        BY <1>1, Typed
      <4> QED BY <4>1 DEF Requests, Bodies
    <3> QED BY <1>3, <3>1, <3>2
  <2> QED BY <1>0, <2>1, <2>2 DEF Timely
<1>6. Known'
  <2>1. \A s \in Streams : act[s].on => Begun(s)'
    BY DEF IInv, Known
  <2>2. ASSUME NEW i \in 1 .. Len(wire'), IsStream(wire'[i])
        PROVE  stream'[wire'[i].id].state # "none"
    <3>1. CASE i \in 1 .. Len(wire) /\ wire'[i] = wire[i]
      <4>1. wire[i].id \in Streams /\ Begun(wire[i].id)
        BY <1>1, <2>2, <3>1, OnTheWire DEF IInv, Known
      <4> QED BY <3>1, <4>1 DEF Begun
    <3>2. CASE wire'[i] = m
      BY <2>2, <3>2 DEF Begun
    <3> QED BY <1>2, <3>1, <3>2
  <2>3. ASSUME NEW i \in 1 .. Len(asks), NEW s \in asks[i].body.ids PROVE Begun(s)'
    <3>1. asks[i] \in Requests
      BY <1>1, Typed
    <3>2. s \in Streams
      BY <3>1 DEF Requests, Bodies
    <3> QED BY <3>2 DEF IInv, Known
  <2> QED BY <1>0, <2>1, <2>2, <2>3 DEF Known, Begun, IsStream
<1>7. Entries'
  BY <1>0 DEF IInv, Entries
<1>8. \A i \in 1 .. Len(wire) : IsStream(wire[i]) /\ IsStream(m) => wire[i].id <= m.id
  BY <1>1, OnTheWire DEF IInv, Known
<1>9. InOrder'
  <2> SUFFICES ASSUME NEW i \in 1 .. Len(wire'), NEW j \in 1 .. Len(wire'), i < j,
                      IsStream(wire'[i]), IsStream(wire'[j])
               PROVE  wire'[i].id <= wire'[j].id
    BY DEF InOrder, IsStream
  <2>1. i \in 1 .. Len(wire) /\ wire'[i] = wire[i]
    BY <1>2, <1>3
  <2>2. CASE j \in 1 .. Len(wire) /\ wire'[j] = wire[j]
    BY <2>1, <2>2 DEF IInv, InOrder
  <2>3. CASE wire'[j] = m
    BY <1>8, <2>1, <2>3
  <2> QED BY <1>2, <2>2, <2>3
<1>10. TextIsNew'
  <2> SUFFICES ASSUME NEW i \in 1 .. Len(wire'), NEW r \in Streams,
                      IsStream(wire'[i]), act[r].text > 0
               PROVE  r <= wire'[i].id
    BY <1>0 DEF TextIsNew, IsStream
  <2>1. CASE i \in 1 .. Len(wire) /\ wire'[i] = wire[i]
    BY <2>1 DEF IInv, TextIsNew
  <2>2. CASE wire'[i] = m
    <3>1. act[r].on
      <4>1. ~ act[r].on => act[r] = NoEntry
        BY DEF IInv, Entries
      <4>2. NoEntry.text = 0
        BY DEF NoEntry
      <4> QED BY <4>1, <4>2
    <3>2. Begun(r)'
      BY <3>1 DEF IInv, Known
    <3> QED BY <2>2, <3>2
  <2> QED BY <1>2, <2>1, <2>2
<1>11. StartHasEnd'
  <2> SUFFICES ASSUME NEW i \in 1 .. Len(wire'), wire'[i].type = "stream-start",
                      stream'[wire'[i].id].state = "completed"
               PROVE  \E j \in i + 1 .. Len(wire') : IsEnd(wire'[j], wire'[i].id)
    BY DEF StartHasEnd, Over, IsEnd
  <2>1. CASE wire'[i] = m
    BY <2>1 DEF Over
  <2>2. CASE i \in 1 .. Len(wire) /\ wire'[i] = wire[i]
    <3>1. PICK s \in Streams : s = wire[i].id
      BY <1>1, <2>2, OnTheWire DEF IsStream
    <3>2. Over(s)'
      BY <2>2, <3>1 DEF Over
    <3>3. CASE Over(s)
      <4>1. PICK j \in i + 1 .. Len(wire) : IsEnd(wire[j], s)
        BY <2>2, <3>1, <3>3 DEF IInv, StartHasEnd
      <4>2. j \in i + 1 .. Len(wire') /\ wire'[j] = wire[j]
        BY <1>2, <1>3, <2>2
      <4> QED BY <2>2, <3>1, <4>1, <4>2
    <3>4. CASE ~ Over(s)
      <4>1. IsEnd(m, s)
        BY <3>2, <3>4
      <4>2. linked
        BY <1>1, <2>2, Typed, EmptySeq
      <4>3. Len(wire) + 1 \in i + 1 .. Len(wire') /\ wire'[Len(wire) + 1] = m
        BY <1>2, <1>3, <2>2, <4>2
      <4> QED BY <2>2, <3>1, <4>1, <4>3
    <3> QED BY <3>3, <3>4
  <2> QED BY <1>2, <2>1, <2>2
<1>12. OverHasEnd'
  <2> SUFFICES ASSUME ~ past'.missed, NEW r \in Streams, Over(r)', act[r].on
               PROVE  \E i \in 1 .. Len(wire') : IsEnd(wire'[i], r)
    BY <1>0 DEF OverHasEnd, Over, IsEnd
  <2>1. CASE Over(r)
    <3>1. PICK i \in 1 .. Len(wire) : IsEnd(wire[i], r)
      BY <2>1 DEF IInv, OverHasEnd
    <3> QED BY <1>2, <3>1
  <2>2. CASE ~ Over(r)
    <3>1. IsEnd(m, r)
      BY <2>2
    <3>2. linked
      BY <3>1 DEF IsEnd
    <3> QED BY <1>2, <1>3, <3>1, <3>2
  <2> QED BY <2>1, <2>2
<1>13. HeardIsShown'
  <2> SUFFICES ASSUME ~ past.pended, NEW s \in Streams, act[s].on, act[s].at > 0, act[s].text > 0,
                      past'.missed => stream'[s].state = "streaming"
               PROVE  act[s].at <= Len(doc.said) /\ doc.said[act[s].at].of = s
                      /\ doc.said[act[s].at].text = act[s].text
    BY <1>0 DEF HeardIsShown
  <2>1. past.missed => stream[s].state = "streaming"
    <3> SUFFICES ASSUME past.missed PROVE stream[s].state = "streaming"
      OBVIOUS
    <3>1. ~ Over(s)'
      BY DEF Over
    <3>2. ~ Over(s) /\ Begun(s)
      BY <3>1 DEF IInv, Known
    <3>3. stream[s] \in [state : {"none", "streaming", "completed"}, text : Texts]
      BY <1>1, Typed DEF States
    <3> QED BY <3>2, <3>3 DEF Over, Begun
  <2> QED BY <2>1 DEF IInv, HeardIsShown
<1> QED BY <1>4, <1>5, <1>6, <1>7, <1>9, <1>10, <1>11, <1>12, <1>13 DEF IInv

\* One stream moves on: those before it are over, and there is none after it.
LEMMA StreamMoves ==
  ASSUME IInv, NEW s \in Streams, ~ Over(s), \A r \in 1 .. s - 1 : Over(r),
         stream' \in States, stream'[s].state # "none",
         \A r \in Streams : r # s => stream'[r] = stream[r]
  PROVE  /\ \A r \in Streams : Begun(r) => Begun(r)'
         /\ \A r \in Streams : Over(r) => Over(r)'
         /\ \A r \in Streams : Over(r)' /\ ~ Over(r) => r = s
         /\ Begun(s)' /\ \A r \in Streams : Begun(r)' => r <= s
         /\ InTurn'
<1>1. s \in Nat \ {0} /\ s \in 1 .. NumStreams /\ NumStreams \in Nat
  BY BoundsAssumption DEF Streams
<1>2. \A r \in Streams : r # s => (Begun(r) <=> Begun(r)') /\ (Over(r) <=> Over(r)')
  BY DEF Begun, Over
<1>3. Begun(s)'
  BY DEF Begun
<1>4. ASSUME NEW r \in Streams, Begun(r)' PROVE r <= s
  <2> SUFFICES ASSUME ~ (r <= s) PROVE FALSE
    OBVIOUS
  <2>1. r \in Nat /\ r # s /\ s \in 1 .. r - 1
    BY <1>1, StreamsAreNumbers
  <2>2. Begun(r)
    BY <1>2, <1>4, <2>1
  <2>3. Over(s)
    BY <2>1, <2>2 DEF IInv, InTurn
  <2> QED BY <2>3
<1>5. InTurn'
  <2> SUFFICES ASSUME NEW x \in Streams, Begun(x)', NEW r \in 1 .. x - 1 PROVE Over(r)'
    BY DEF InTurn, Begun, Over
  <2>1. x <= s /\ x \in Nat
    BY <1>4, StreamsAreNumbers
  <2>2. r \in 1 .. s - 1 /\ r \in Streams /\ r # s
    BY <1>1, <2>1 DEF Streams
  <2>3. Over(r)
    BY <2>2
  <2> QED BY <1>2, <2>2, <2>3
<1> QED BY <1>2, <1>3, <1>4, <1>5

LEMMA PastTyped ==
  ASSUME Types
  PROVE  /\ past \in Pasts /\ past.missed \in BOOLEAN /\ past.saves \in Nat
         /\ \A b \in BOOLEAN : [past EXCEPT !.missed = b] \in Pasts
         /\ [past EXCEPT !.saves = @ + 1] \in Pasts
         /\ [past EXCEPT !.returns = @ + 1] \in Pasts
<1>1. /\ past \in Pasts /\ past.missed \in BOOLEAN
      /\ past.saves \in Nat /\ past.returns \in Nat
  BY Typed DEF Pasts
<1>2. past.saves + 1 \in Nat /\ past.returns + 1 \in Nat
  BY <1>1
<1>3. \A b \in BOOLEAN : [past EXCEPT !.missed = b] \in Pasts
  BY <1>1 DEF Pasts
<1>4. \A n \in Nat : [past EXCEPT !.saves = n] \in Pasts
  BY <1>1 DEF Pasts
<1>5. \A n \in Nat : [past EXCEPT !.returns = n] \in Pasts
  BY <1>1 DEF Pasts
<1> QED BY <1>1, <1>2, <1>3, <1>4, <1>5

LEMMA AskKeeps == ASSUME IInv, NEW s \in Streams, Ask(s) PROVE IInv'
<1> DEFINE m == [type |-> "stream-start", id |-> s]
<1>1. /\ stream[s].state = "none" /\ (\A r \in 1 .. s - 1 : Over(r))
      /\ stream' = [stream EXCEPT ![s].state = "streaming"]
      /\ chat' = [said |-> Append(chat.said, User(s)), live |-> TRUE]
      /\ Broadcast(m) /\ block' = block /\ log' = log /\ past' = past
      /\ UNCHANGED <<pageVars, linked, asks>>
  BY DEF Ask
<1>2. Types
  BY DEF IInv
<1>3. m \in Signals /\ IsStream(m) /\ m.id = s /\ m.type = "stream-start"
  BY DEF Signals, IsStream
<1>4. /\ stream' \in States /\ stream'[s].state = "streaming"
      /\ \A r \in Streams : r # s => stream'[r] = stream[r]
  BY <1>1, <1>2, Typed DEF States
<1>5. ~ Over(s) /\ ~ Over(s)'
  BY <1>1, <1>4 DEF Over
<1>6. /\ \A r \in Streams : Begun(r) => Begun(r)'
      /\ \A r \in Streams : Over(r) => Over(r)'
      /\ \A r \in Streams : Over(r)' /\ ~ Over(r) => r = s
      /\ Begun(s)' /\ \A r \in Streams : Begun(r)' => r <= s
      /\ InTurn'
  BY <1>1, <1>4, <1>5, StreamMoves
<1>7. chat' \in Chats
  BY <1>1, <1>2, Typed, AppendedChat, UserIsMessage
<1>8. /\ block' \in Chats /\ log' \in Nat /\ log' >= log /\ past' \in Pasts
      /\ past'.missed = (past.missed \/ (m.type = "stream-end" /\ ~ linked))
  BY <1>1, <1>2, Typed, PastTyped
<1> HIDE DEF m
<1> QED BY <1>1, <1>3, <1>4, <1>5, <1>6, <1>7, <1>8, SentKeeps

LEMMA ChunkKeeps == ASSUME IInv, NEW s \in Streams, Chunk(s) PROVE IInv'
<1> DEFINE n == stream[s].text + 1
           m == [type |-> "stream-data", id |-> s, text |-> n]
<1>1. /\ stream[s].state = "streaming" /\ stream[s].text < FullText
      /\ stream' = [stream EXCEPT ![s].text = @ + 1]
      /\ chat' = [chat EXCEPT !.said = IF stream[s].text = 0 THEN Append(@, Answer(s, 1))
                                       ELSE [@ EXCEPT ![Len(@)].text = n]]
      /\ Broadcast(m) /\ block' = block /\ log' = log /\ past' = past
      /\ UNCHANGED <<pageVars, linked, asks>>
  BY DEF Chunk
<1>2. Types
  BY DEF IInv
<1>3. stream[s] \in [state : {"none", "streaming", "completed"}, text : Texts]
  BY <1>2, Typed DEF States
<1>4. n \in Texts /\ (stream[s].text = 0 => n = 1)
  BY <1>1, <1>3, BoundsAssumption DEF Texts
<1>5. m \in Signals /\ IsStream(m) /\ m.id = s /\ m.type = "stream-data"
  BY <1>4 DEF Signals, IsStream
<1>6. /\ stream' \in States /\ stream'[s].state = "streaming"
      /\ \A r \in Streams : r # s => stream'[r] = stream[r]
  BY <1>1, <1>2, <1>4, Typed DEF States
<1>7. ~ Over(s) /\ ~ Over(s)' /\ Begun(s)
  BY <1>1, <1>6 DEF Over, Begun
<1>8. \A r \in 1 .. s - 1 : Over(r)
  BY <1>7 DEF IInv, InTurn
<1>9. /\ \A r \in Streams : Begun(r) => Begun(r)'
      /\ \A r \in Streams : Over(r) => Over(r)'
      /\ \A r \in Streams : Over(r)' /\ ~ Over(r) => r = s
      /\ Begun(s)' /\ \A r \in Streams : Begun(r)' => r <= s
      /\ InTurn'
  BY <1>6, <1>7, <1>8, StreamMoves
<1>10. chat' \in Chats
  <2> DEFINE q == chat.said
  <2>1. q \in Seq(Messages) /\ chat.live \in BOOLEAN /\ Len(q) \in Nat /\ chat \in Chats
    BY <1>2, Typed, ChatFields
  <2>2. CASE stream[s].text = 0
    <3>1. Answer(s, 1) \in Messages
      BY <1>4, <2>2, AnswerIsMessage
    <3>2. Append(q, Answer(s, 1)) \in Seq(Messages)
      BY <2>1, <3>1, AppendProperties
    <3> QED BY <1>1, <2>1, <2>2, <3>2 DEF Chats
  <2>3. CASE stream[s].text # 0
    <3> DEFINE e == [q EXCEPT ![Len(q)].text = n]
    <3>1. e \in Seq(Messages)
      <4>1. CASE q = <<>>
        <5>1. Len(q) = 0 /\ q \in [1 .. 0 -> Messages]
          BY <2>1, <4>1, LenProperties
        <5>2. e \in [1 .. 0 -> Messages]
          <6>1. 1 .. 0 = {} /\ DOMAIN q = {}
            BY <5>1
          <6>2. DOMAIN e = {} /\ e = [i \in DOMAIN e |-> e[i]]
            BY <6>1
          <6> HIDE DEF e
          <6> QED BY <6>1, <6>2
        <5> HIDE DEF e
        <5> QED BY <5>2, SeqDef
      <4>2. CASE q # <<>>
        <5>1. Len(q) \in 1 .. Len(q) /\ q[Len(q)] \in Messages
          BY <2>1, <4>2, EmptySeq, ElementOfSeq
        <5>2. [q[Len(q)] EXCEPT !.text = n] \in Messages
          BY <1>4, <5>1 DEF Messages, Texts
        <5> QED BY <2>1, <5>1, <5>2, ExceptSeq
      <4> QED BY <4>1, <4>2
    <3>2. chat' = [chat EXCEPT !.said = e]
      BY <1>1, <2>3
    <3> HIDE DEF e
    <3> QED BY <2>1, <3>1, <3>2 DEF Chats
  <2> QED BY <2>2, <2>3
<1>11. /\ block' \in Chats /\ log' \in Nat /\ log' >= log /\ past' \in Pasts
       /\ past'.missed = (past.missed \/ (m.type = "stream-end" /\ ~ linked))
  BY <1>1, <1>2, Typed, PastTyped
<1> HIDE DEF m
<1> QED BY <1>1, <1>5, <1>6, <1>7, <1>9, <1>10, <1>11, SentKeeps

LEMMA FinishKeeps == ASSUME IInv, NEW s \in Streams, Finish(s) PROVE IInv'
<1> DEFINE m == [type |-> "stream-end", id |-> s, text |-> stream[s].text]
<1>1. /\ stream[s].state = "streaming"
      /\ stream' = [stream EXCEPT ![s].state = "completed"]
      /\ chat' = [chat EXCEPT !.live = FALSE]
      /\ past' = [past EXCEPT !.missed = @ \/ ~ linked]
      /\ Broadcast(m) /\ block' = block /\ log' = log
      /\ UNCHANGED <<pageVars, linked, asks>>
  BY DEF Finish
<1>2. Types
  BY DEF IInv
<1>3. stream[s] \in [state : {"none", "streaming", "completed"}, text : Texts]
  BY <1>2, Typed DEF States
<1>4. m \in Signals /\ IsStream(m) /\ m.id = s /\ m.type = "stream-end"
  BY <1>3 DEF Signals, IsStream
<1>5. /\ stream' \in States /\ stream'[s].state = "completed"
      /\ \A r \in Streams : r # s => stream'[r] = stream[r]
  BY <1>1, <1>2, Typed DEF States
<1>6. ~ Over(s) /\ Begun(s)
  BY <1>1 DEF Over, Begun
<1>7. \A r \in 1 .. s - 1 : Over(r)
  BY <1>6 DEF IInv, InTurn
<1>8. /\ \A r \in Streams : Begun(r) => Begun(r)'
      /\ \A r \in Streams : Over(r) => Over(r)'
      /\ \A r \in Streams : Over(r)' /\ ~ Over(r) => r = s
      /\ Begun(s)' /\ \A r \in Streams : Begun(r)' => r <= s
      /\ InTurn'
  BY <1>5, <1>6, <1>7, StreamMoves
<1>9. chat' \in Chats /\ block' \in Chats /\ log' \in Nat /\ log' >= log
  <2>1. chat \in Chats /\ block \in Chats /\ log \in Nat
    BY <1>2, Typed
  <2>2. chat' \in Chats
    BY <1>1, <2>1 DEF Chats
  <2> QED BY <1>1, <2>1, <2>2
<1>10. /\ past' \in Pasts /\ past'.pended = past.pended
       /\ past'.missed = (past.missed \/ (m.type = "stream-end" /\ ~ linked))
  <2> DEFINE b == past.missed \/ ~ linked
  <2>1. past' = [past EXCEPT !.missed = b] /\ b \in BOOLEAN /\ past \in Pasts
    BY <1>1, <1>2, Typed
  <2> HIDE DEF b
  <2>2. past' \in Pasts /\ past'.pended = past.pended /\ past'.missed = b
    BY <2>1 DEF Pasts
  <2> QED BY <1>4, <2>2 DEF b
<1>11. \A r \in Streams : Over(r)' /\ ~ Over(r) => IsEnd(m, r)
  BY <1>4, <1>8 DEF IsEnd
<1> HIDE DEF m
<1> QED BY <1>1, <1>4, <1>5, <1>8, <1>9, <1>10, <1>11, SentKeeps

LEMMA SaveKeeps == ASSUME IInv, Save PROVE IInv'
<1> DEFINE m == [type |-> "blocks-changed", version |-> log + 1]
<1>1. /\ block' = chat /\ log' = log + 1 /\ Broadcast(m) /\ chat' = chat /\ stream' = stream
      /\ past' = IF AllOver THEN past ELSE [past EXCEPT !.saves = @ + 1]
      /\ UNCHANGED <<pageVars, linked, asks>>
  BY DEF Save
<1>2. Types
  BY DEF IInv
<1>3. m \in Signals /\ m.type = "blocks-changed" /\ ~ IsStream(m) /\ m.version = log'
  BY <1>1, <1>2, Typed DEF Signals, IsStream
<1>4. chat' \in Chats /\ block' \in Chats /\ stream' \in States /\ log' \in Nat /\ log' >= log
  BY <1>1, <1>2, Typed
<1>5. past' \in Pasts /\ past'.missed = past.missed /\ past'.pended = past.pended
  <2>1. past \in Pasts /\ [past EXCEPT !.saves = @ + 1] \in Pasts
    BY <1>2, PastTyped
  <2> QED BY <1>1, <2>1 DEF Pasts
<1>6. \A s \in Streams : (Begun(s) <=> Begun(s)') /\ (Over(s) <=> Over(s)')
  BY <1>1 DEF Begun, Over
<1>7. InTurn'
  BY <1>1 DEF IInv, InTurn, Begun, Over
<1> HIDE DEF m
<1> QED BY <1>1, <1>2, <1>3, <1>4, <1>5, <1>6, <1>7, PastTyped, SentKeeps

-----------------------------------------------------------------------------
(* The page handles a message                                               *)

LEMMA HeadTaken ==
  ASSUME IInv, wire # <<>>, wire' = Tail(wire), stream' = stream
  PROVE  /\ wire' \in Seq(Signals) /\ Len(wire') \in Nat /\ linked
         /\ 1 \in 1 .. Len(wire) /\ Head(wire) = wire[1] /\ wire[1] \in Signals
         /\ \A i \in 1 .. Len(wire') : i + 1 \in 2 .. Len(wire) /\ wire'[i] = wire[i + 1]
         /\ \A i \in 2 .. Len(wire) : \E k \in 1 .. Len(wire') : wire'[k] = wire[i]
         /\ InOrder' /\ StartHasEnd'
         /\ \A i \in 1 .. Len(wire') :
              IF IsStream(wire'[i]) THEN Begun(wire[i + 1].id) ELSE wire'[i].version <= log
<1>1. /\ Types /\ wire \in Seq(Signals) /\ Len(wire) \in Nat /\ linked
  BY Typed DEF IInv
<1>2. /\ wire' \in Seq(Signals) /\ Len(wire') = Len(wire) - 1 /\ Len(wire) >= 1
      /\ \A i \in 1 .. Len(wire') : wire'[i] = wire[i + 1]
  BY <1>1, HeadTailProperties, EmptySeq
<1>3. 1 \in 1 .. Len(wire) /\ Head(wire) = wire[1] /\ wire[1] \in Signals
  BY <1>1, <1>2
<1>4. \A i \in 1 .. Len(wire') : i + 1 \in 2 .. Len(wire) /\ i + 1 \in 1 .. Len(wire)
                                 /\ wire'[i] = wire[i + 1]
  BY <1>1, <1>2
<1>5. ASSUME NEW i \in 2 .. Len(wire) PROVE \E k \in 1 .. Len(wire') : wire'[k] = wire[i]
  <2>1. i - 1 \in 1 .. Len(wire') /\ (i - 1) + 1 = i
    BY <1>1, <1>2
  <2> QED BY <1>2, <2>1
<1>6. InOrder'
  <2> SUFFICES ASSUME NEW i \in 1 .. Len(wire'), NEW j \in 1 .. Len(wire'), i < j,
                      IsStream(wire'[i]), IsStream(wire'[j])
               PROVE  wire'[i].id <= wire'[j].id
    BY DEF InOrder, IsStream
  <2>1. i + 1 < j + 1
    BY <1>1, <1>2
  <2> QED BY <1>4, <2>1 DEF IInv, InOrder
<1>7. StartHasEnd'
  <2> SUFFICES ASSUME NEW i \in 1 .. Len(wire'), wire'[i].type = "stream-start",
                      stream'[wire'[i].id].state = "completed"
               PROVE  \E j \in i + 1 .. Len(wire') : IsEnd(wire'[j], wire'[i].id)
    BY DEF StartHasEnd, Over, IsEnd
  <2>1. wire[i + 1].type = "stream-start" /\ Over(wire[i + 1].id)
    BY <1>4 DEF Over
  <2>2. PICK j \in (i + 1) + 1 .. Len(wire) : IsEnd(wire[j], wire[i + 1].id)
    BY <1>4, <2>1 DEF IInv, StartHasEnd
  <2>3. j - 1 \in i + 1 .. Len(wire') /\ j - 1 \in 1 .. Len(wire') /\ (j - 1) + 1 = j
    BY <1>1, <1>2
  <2>4. wire'[j - 1] = wire[j]
    BY <1>2, <2>3
  <2> QED BY <1>4, <2>2, <2>3, <2>4
<1>8. \A i \in 1 .. Len(wire') :
        IF IsStream(wire'[i]) THEN Begun(wire[i + 1].id) ELSE wire'[i].version <= log
  BY <1>4 DEF IInv, Known, Timely, IsStream
<1> QED BY <1>1, <1>2, <1>3, <1>4, <1>5, <1>6, <1>7, <1>8

\* What the handlers of stream messages do to the entry of the stream and to
\* the chat.
Handled(p, m) ==
  /\ p.doc \in Chats /\ Len(p.doc.said) >= Len(doc.said)
  /\ p.act \in [Streams -> [on : BOOLEAN, at : 0 .. Len(p.doc.said), text : Texts]]
  /\ \A r \in Streams : r # m.id => p.act[r] = act[r]
  /\ LET e == p.act[m.id] IN
     /\ ~ e.on => e = NoEntry
     /\ e.on => act[m.id].on \/ m.type = "stream-start"
     /\ m.type = "stream-end" => ~ e.on
     /\ e.text > 0 => e.at > 0 /\ p.doc.said[e.at].of = m.id /\ p.doc.said[e.at].text = e.text

\* The page has changed the entry of s, and its chat has not become shorter.
LEMMA EntryChanged ==
  ASSUME Types, NEW s \in Streams, NEW d \in Chats, Len(d.said) >= Len(doc.said),
         NEW e \in [on : BOOLEAN, at : 0 .. Len(d.said), text : Texts]
  PROVE  LET a == [act EXCEPT ![s] = e] IN
         /\ a \in [Streams -> [on : BOOLEAN, at : 0 .. Len(d.said), text : Texts]]
         /\ a[s] = e /\ \A r \in Streams : r # s => a[r] = act[r]
<1>1. /\ Len(doc.said) \in Nat /\ Len(d.said) \in Nat
      /\ act \in [Streams -> [on : BOOLEAN, at : 0 .. Len(doc.said), text : Texts]]
  BY Typed, ChatFields
<1>2. 0 .. Len(doc.said) \subseteq 0 .. Len(d.said)
  BY <1>1
<1>3. act \in [Streams -> [on : BOOLEAN, at : 0 .. Len(d.said), text : Texts]]
  BY <1>1, <1>2
<1> QED BY <1>3

LEMMA NoEntryTyped ==
  ASSUME NEW n \in Nat PROVE NoEntry \in [on : BOOLEAN, at : 0 .. n, text : Texts]
  BY BoundsAssumption DEF NoEntry, Texts

LEMMA EntryTyped ==
  ASSUME Types, NEW s \in Streams
  PROVE  /\ act[s].on \in BOOLEAN /\ act[s].at \in 0 .. Len(doc.said) /\ act[s].at \in Nat
         /\ act[s].text \in Texts /\ act[s].text \in Nat
<1>1. /\ Len(doc.said) \in Nat
      /\ act \in [Streams -> [on : BOOLEAN, at : 0 .. Len(doc.said), text : Texts]]
  BY Typed
<1>2. act[s].on \in BOOLEAN /\ act[s].at \in 0 .. Len(doc.said) /\ act[s].text \in Texts
  BY <1>1
<1> QED BY <1>1, <1>2, BoundsAssumption DEF Texts

LEMMA StartHandled ==
  ASSUME IInv, NEW m \in Signals, m.type = "stream-start"
  PROVE  Handled(OnStreamStart(Here, m.id), m)
<1> DEFINE d == Resolve(doc)
           e == [on |-> TRUE, at |-> Len(d.said), text |-> 0]
           a == [act EXCEPT ![m.id] = e]
<1>1. Types /\ m.id \in Streams /\ doc \in Chats /\ Len(doc.said) \in Nat
  BY SignalFields, Typed DEF IInv, IsStream
<1>2. d \in Chats /\ Len(d.said) >= Len(doc.said) /\ Len(d.said) >= 1 /\ Len(d.said) \in Nat
  BY <1>1, ResolveKeeps, ChatFields
<1>3. OnStreamStart(Here, m.id) = Page(d, a)
  BY DEF OnStreamStart, Here, Page
<1> HIDE DEF d
<1>4. e \in [on : BOOLEAN, at : 0 .. Len(d.said), text : Texts]
  BY <1>2, BoundsAssumption DEF Texts
<1>5. e.on /\ ~ (e.text > 0)
  OBVIOUS
<1> HIDE DEF e
<1>6. /\ a \in [Streams -> [on : BOOLEAN, at : 0 .. Len(d.said), text : Texts]]
      /\ a[m.id] = e /\ \A r \in Streams : r # m.id => a[r] = act[r]
  BY <1>1, <1>2, <1>4, EntryChanged
<1> HIDE DEF a
<1> QED BY <1>2, <1>3, <1>5, <1>6 DEF Handled, Page

LEMMA DataHandled ==
  ASSUME IInv, NEW m \in Signals, m.type = "stream-data"
  PROVE  Handled(OnStreamData(Here, m.id, m.text), m)
<1>1. /\ Types /\ m.id \in Streams /\ m.text \in Texts /\ doc \in Chats /\ Len(doc.said) \in Nat
      /\ act \in [Streams -> [on : BOOLEAN, at : 0 .. Len(doc.said), text : Texts]]
  BY SignalFields, Typed DEF IInv, IsStream
<1>2. CASE ~ act[m.id].on
  <2>1. OnStreamData(Here, m.id, m.text) = Here
    BY <1>2 DEF OnStreamData, Here, Page
  <2>2. act[m.id] = NoEntry
    BY <1>1, <1>2 DEF IInv, Entries
  <2>3. ~ (NoEntry.text > 0)
    BY DEF NoEntry
  <2>4. /\ Here.doc = doc /\ Here.act = act
        /\ Len(doc.said) >= Len(doc.said)
    BY <1>1 DEF Here, Page
  <2> QED BY <1>1, <1>2, <2>1, <2>2, <2>3, <2>4 DEF Handled
<1>3. CASE act[m.id].on
  <2> DEFINE old == act[m.id].at
             d == IF old = 0 THEN Resolve(doc) ELSE doc
             at == IF old = 0 THEN Len(d.said) ELSE old
             new == Show(d, at, m.id, m.text)
             e == [on |-> TRUE, at |-> at, text |-> m.text]
             a == [act EXCEPT ![m.id] = e]
  <2>1. OnStreamData(Here, m.id, m.text) = Page(new, a)
    BY <1>3 DEF OnStreamData, Here, Page
  <2>2. d \in Chats /\ Len(d.said) >= Len(doc.said) /\ at \in 1 .. Len(d.said) /\ at \in Nat
    <3>1. CASE old = 0
      <4>1. /\ Resolve(doc) \in Chats /\ Len(Resolve(doc).said) >= Len(doc.said)
            /\ Len(Resolve(doc).said) >= 1 /\ Len(Resolve(doc).said) \in Nat
        BY <1>1, ResolveKeeps, ChatFields
      <4> QED BY <3>1, <4>1
    <3>2. CASE old # 0
      BY <1>1, <3>2, EntryTyped
    <3> QED BY <3>1, <3>2
  <2> HIDE DEF d, at
  <2>3. /\ new \in Chats /\ Len(new.said) = Len(d.said)
        /\ new.said[at].of = m.id /\ new.said[at].text = m.text
    <3>1. m.id \in Streams /\ m.text \in Texts
      BY <1>1
    <3>2. LET x == Show(d, at, m.id, m.text) IN
          /\ x \in Chats /\ Len(x.said) = Len(d.said)
          /\ \A i \in 1 .. Len(d.said) : i # at => x.said[i] = d.said[i]
          /\ at \in 1 .. Len(d.said) => x.said[at].of = m.id /\ x.said[at].text = m.text
      BY <2>2, <3>1, ShowKeeps
    <3> QED BY <2>2, <3>2
  <2> HIDE DEF new
  <2>4. Len(new.said) >= Len(doc.said) /\ Len(new.said) \in Nat /\ at \in 0 .. Len(new.said)
    BY <1>1, <2>2, <2>3, ChatFields
  <2>5. e \in [on : BOOLEAN, at : 0 .. Len(new.said), text : Texts]
    BY <1>1, <2>4
  <2>6. e.on /\ e.at = at /\ e.text = m.text /\ at > 0
    BY <2>2
  <2> HIDE DEF e
  <2>7. /\ a \in [Streams -> [on : BOOLEAN, at : 0 .. Len(new.said), text : Texts]]
        /\ a[m.id] = e /\ \A r \in Streams : r # m.id => a[r] = act[r]
    BY <1>1, <2>3, <2>4, <2>5, EntryChanged
  <2> HIDE DEF a
  <2> QED BY <1>3, <2>1, <2>3, <2>4, <2>6, <2>7 DEF Handled, Page
<1> QED BY <1>2, <1>3

LEMMA EndHandled ==
  ASSUME IInv, NEW m \in Signals, m.type = "stream-end"
  PROVE  Handled(OnStreamEnd(Here, m.id, m.text), m)
<1> DEFINE at == act[m.id].at
           d == IF at > 0
                THEN Release(IF m.text > 0 THEN Show(doc, at, m.id, m.text) ELSE doc)
                ELSE IF m.text > 0 THEN FinalText(doc, m.id, m.text) ELSE doc
           a == [act EXCEPT ![m.id] = NoEntry]
<1>1. /\ Types /\ m.id \in Streams /\ m.text \in Texts /\ doc \in Chats /\ Len(doc.said) \in Nat
  BY SignalFields, Typed DEF IInv, IsStream
<1>2. OnStreamEnd(Here, m.id, m.text) = Page(d, a)
  BY DEF OnStreamEnd, Here, Page
<1>3. d \in Chats /\ Len(d.said) >= Len(doc.said)
  <2>1. CASE at > 0
    <3> DEFINE c == IF m.text > 0 THEN Show(doc, at, m.id, m.text) ELSE doc
    <3>1. at \in Nat
      BY <1>1, EntryTyped
    <3> HIDE DEF at
    <3>2. c \in Chats /\ Len(c.said) = Len(doc.said)
      BY <1>1, <3>1, ShowKeeps
    <3>3. d = Release(c)
      BY <2>1
    <3> HIDE DEF c, d
    <3> QED BY <1>1, <3>2, <3>3, ReleaseKeeps
  <2>2. CASE ~ (at > 0) /\ m.text > 0
    <3>1. d = FinalText(doc, m.id, m.text)
      BY <2>2
    <3> QED BY <1>1, <3>1, FinalTextKeeps
  <2>3. CASE ~ (at > 0) /\ ~ (m.text > 0)
    BY <1>1, <2>3
  <2> QED BY <2>1, <2>2, <2>3
<1> HIDE DEF d
<1>4. Len(d.said) \in Nat
  BY <1>3, ChatFields
<1>5. /\ a \in [Streams -> [on : BOOLEAN, at : 0 .. Len(d.said), text : Texts]]
      /\ a[m.id] = NoEntry /\ \A r \in Streams : r # m.id => a[r] = act[r]
  BY <1>1, <1>3, <1>4, NoEntryTyped, EntryChanged
<1>6. ~ NoEntry.on /\ ~ (NoEntry.text > 0)
  BY DEF NoEntry
<1> HIDE DEF a
<1> QED BY <1>2, <1>3, <1>5, <1>6 DEF Handled, Page

LEMMA MessageHandled ==
  ASSUME IInv, NEW m \in Signals, IsStream(m) PROVE Handled(Follow(m), m)
<1>1. CASE m.type = "stream-start"
  BY <1>1, StartHandled DEF Follow
<1>2. CASE m.type = "stream-data"
  BY <1>2, DataHandled DEF Follow
<1>3. CASE m.type = "stream-end"
  BY <1>3, EndHandled DEF Follow
<1> QED BY <1>1, <1>2, <1>3, SignalFields DEF IsStream

LEMMA StreamMessageKeeps == ASSUME IInv, OnStreamMessage PROVE IInv'
<1> DEFINE p == Follow(Head(wire))
<1>1. /\ wire # <<>> /\ IsStream(Head(wire)) /\ doc' = p.doc /\ act' = p.act /\ wire' = Tail(wire)
      /\ past' = IF Head(wire).type = "stream-end"
                 THEN [past EXCEPT !.heard = @ \cup {Head(wire).id}] ELSE past
      /\ chat' = chat /\ block' = block /\ stream' = stream /\ log' = log
      /\ version' = version /\ linked' = linked /\ asks' = asks
  BY DEF OnStreamMessage, Become, IsStream, serverVars
<1>2. /\ wire' \in Seq(Signals) /\ Len(wire') \in Nat /\ linked
      /\ 1 \in 1 .. Len(wire) /\ Head(wire) = wire[1] /\ wire[1] \in Signals
      /\ \A i \in 1 .. Len(wire') : i + 1 \in 2 .. Len(wire) /\ wire'[i] = wire[i + 1]
      /\ \A i \in 2 .. Len(wire) : \E k \in 1 .. Len(wire') : wire'[k] = wire[i]
      /\ InOrder' /\ StartHasEnd'
      /\ \A i \in 1 .. Len(wire') :
           IF IsStream(wire'[i]) THEN Begun(wire[i + 1].id) ELSE wire'[i].version <= log
  BY <1>1, HeadTaken
<1>3. PICK m \in Signals : m = Head(wire)
  BY <1>2
<1>4. IsStream(m) /\ m.id \in Streams /\ m = wire[1]
  BY <1>1, <1>2, <1>3, SignalFields
<1>5. Handled(p, m)
  BY <1>3, <1>4, MessageHandled
<1>6. /\ doc' \in Chats /\ Len(doc'.said) >= Len(doc.said)
      /\ act' \in [Streams -> [on : BOOLEAN, at : 0 .. Len(doc'.said), text : Texts]]
      /\ \A r \in Streams : r # m.id => act'[r] = act[r]
      /\ ~ act'[m.id].on => act'[m.id] = NoEntry
      /\ act'[m.id].on => act[m.id].on \/ m.type = "stream-start"
      /\ m.type = "stream-end" => ~ act'[m.id].on
      /\ act'[m.id].text > 0 => /\ act'[m.id].at > 0
                                /\ doc'.said[act'[m.id].at].of = m.id
                                /\ doc'.said[act'[m.id].at].text = act'[m.id].text
  BY <1>1, <1>5 DEF Handled
<1> HIDE DEF p
<1>7. Types
  BY DEF IInv
<1>8. past' \in Pasts /\ past'.missed = past.missed /\ past'.pended = past.pended
  <2>1. past \in Pasts
    BY <1>7, Typed
  <2>2. CASE m.type = "stream-end"
    <3>1. past' = [past EXCEPT !.heard = past.heard \cup {m.id}]
      BY <1>1, <1>3, <2>2
    <3>2. past.heard \cup {m.id} \in SUBSET Streams
      BY <1>4, <2>1 DEF Pasts
    <3> QED BY <2>1, <3>1, <3>2 DEF Pasts
  <2>3. CASE m.type # "stream-end"
    BY <1>1, <1>3, <2>1, <2>3
  <2> QED BY <2>2, <2>3
<1>9. Types'
  <2>1. TypeOK'
    BY <1>1, <1>2, <1>6, <1>7, Typed DEF TypeOK, States, Texts
  <2> QED BY <1>1, <1>2, <1>7, <1>8, <2>1, Typed DEF Types
<1>10. Known'
  <2>1. ASSUME NEW r \in Streams, act'[r].on PROVE Begun(r)
    <3>1. CASE r = m.id
      BY <1>2, <1>4, <3>1 DEF IInv, Known
    <3>2. CASE r # m.id
      BY <1>6, <2>1, <3>2 DEF IInv, Known
    <3> QED BY <3>1, <3>2
  <2>2. \A i \in 1 .. Len(wire') : IsStream(wire'[i]) => stream[wire'[i].id].state # "none"
    BY <1>2 DEF Begun
  <2>3. \A i \in 1 .. Len(asks) : \A s \in asks[i].body.ids : Begun(s)
    BY DEF IInv, Known
  <2> QED BY <1>1, <2>1, <2>2, <2>3 DEF Known, Begun, IsStream
<1>11. Entries'
  BY <1>6 DEF IInv, Entries
<1>12. InTurn'
  BY <1>1 DEF IInv, InTurn, Begun, Over
<1>13. TextIsNew'
  <2> SUFFICES ASSUME NEW i \in 1 .. Len(wire'), NEW r \in Streams,
                      IsStream(wire'[i]), act'[r].text > 0
               PROVE  r <= wire'[i].id
    BY DEF TextIsNew, IsStream
  <2>1. i + 1 \in 1 .. Len(wire) /\ 1 < i + 1 /\ wire'[i] = wire[i + 1]
    <3>1. i + 1 \in 2 .. Len(wire) /\ wire'[i] = wire[i + 1]
      BY <1>2, Zenon
    <3> QED BY <3>1
  <2>2. CASE r = m.id
    BY <1>2, <1>4, <2>1, <2>2 DEF IInv, InOrder
  <2>3. CASE r # m.id
    BY <1>6, <2>1, <2>3 DEF IInv, TextIsNew
  <2> QED BY <2>2, <2>3
<1>14. OverHasEnd'
  <2> SUFFICES ASSUME ~ past.missed, NEW r \in Streams, Over(r), act'[r].on
               PROVE  \E i \in 1 .. Len(wire') : IsEnd(wire'[i], r)
    BY <1>1, <1>8 DEF OverHasEnd, Over, IsEnd
  <2>1. \E i \in 2 .. Len(wire) : IsEnd(wire[i], r)
    <3>1. CASE act[r].on
      <4>1. PICK i \in 1 .. Len(wire) : IsEnd(wire[i], r)
        BY <3>1 DEF IInv, OverHasEnd
      <4>2. i # 1
        BY <1>4, <1>6, <4>1 DEF IsEnd
      <4>3. i \in 2 .. Len(wire)
        BY <1>2, <4>1, <4>2
      <4> QED BY <4>1, <4>3
    <3>2. CASE ~ act[r].on
      <4>1. r = m.id /\ m.type = "stream-start"
        BY <1>6, <3>2
      <4>2. wire[1].type = "stream-start" /\ wire[1].id = r
        BY <1>4, <4>1
      <4>3. \E j \in 1 + 1 .. Len(wire) : IsEnd(wire[j], r)
        BY <1>2, <4>2 DEF IInv, StartHasEnd
      <4> QED BY <4>3
    <3> QED BY <3>1, <3>2
  <2> QED BY <1>2, <2>1
<1>15. HeardIsShown'
  <2> SUFFICES ASSUME ~ past.pended, NEW r \in Streams,
                      act'[r].on, act'[r].at > 0, act'[r].text > 0,
                      past.missed => stream[r].state = "streaming"
               PROVE  /\ act'[r].at <= Len(doc'.said) /\ doc'.said[act'[r].at].of = r
                      /\ doc'.said[act'[r].at].text = act'[r].text
    BY <1>1, <1>8 DEF HeardIsShown
  <2>1. r = m.id
    <3> SUFFICES ASSUME r # m.id PROVE FALSE
      OBVIOUS
    <3>1. act'[r] = act[r]
      BY <1>6
    <3> QED BY <1>1, <1>3, <3>1, OnlyTheHead
  <2>2. Len(doc'.said) \in Nat
    BY <1>6, ChatFields
  <2>3. act'[r].at \in 0 .. Len(doc'.said)
    BY <1>6
  <2> QED BY <1>6, <2>1, <2>2, <2>3
<1>16. Timely'
  BY <1>1, <1>2 DEF IInv, Timely, IsStream
<1> QED BY <1>2, <1>9, <1>10, <1>11, <1>12, <1>13, <1>14, <1>15, <1>16 DEF IInv

-----------------------------------------------------------------------------
(* Requests                                                                 *)

LEMMA RequestTyped ==
  ASSUME Types, NEW kind \in {"active", "block", "changes"}
  PROVE  Request(kind) \in Requests /\ Request(kind).body = NoBody
<1>1. version \in Nat
  BY Typed
<1>2. [said |-> <<>>, live |-> FALSE] \in Chats
  BY EmptySeq DEF Chats
<1>3. NoBody \in Bodies
  BY <1>2 DEF NoBody, Bodies, Pendings
<1> HIDE DEF NoBody
<1> QED BY <1>1, <1>3 DEF Request, Requests

LEMMA NoBodySaysNothing == NoBody.ids = {} /\ NoBody.version = 0
  BY DEF NoBody

\* A step that changes requests only is right if the bodies of the new ones
\* are true.
LEMMA AskedKeeps ==
  ASSUME IInv, asks' \in Seq(Requests), Len(asks') <= MaxFetches,
         UNCHANGED <<chat, serverVars, pageVars, wire>>, linked' \in {linked, TRUE},
         past' \in Pasts, past'.pended = past.pended, past'.missed = past.missed,
         \A i \in 1 .. Len(asks') :
            /\ asks'[i].body.version <= log
            /\ \A s \in asks'[i].body.ids : Begun(s)
  PROVE  IInv'
<1>0. /\ chat' = chat /\ block' = block /\ stream' = stream /\ log' = log /\ doc' = doc
      /\ act' = act /\ version' = version /\ wire' = wire
  BY DEF serverVars, pageVars
<1>1. Types
  BY DEF IInv
<1>2. Types'
  <2>0. linked' \in BOOLEAN /\ (~ linked' => wire = <<>>)
    <3>1. CASE linked' = TRUE
      BY <3>1
    <3>2. CASE linked' = linked
      BY <1>1, <3>2, Typed
    <3> QED BY <3>1, <3>2
  <2>1. TypeOK'
    BY <1>0, <1>1, <2>0, Typed DEF TypeOK, States, Texts
  <2> QED BY <1>0, <1>1, <2>1, Typed DEF Types
<1>3. Timely'
  BY <1>0 DEF IInv, Timely
<1>4. Known'
  BY <1>0 DEF IInv, Known, Begun, IsStream
<1>5. Entries' /\ InTurn' /\ InOrder' /\ TextIsNew'
  BY <1>0 DEF IInv, Entries, InTurn, InOrder, TextIsNew, Begun, Over, IsStream
<1>6. StartHasEnd' /\ OverHasEnd'
  BY <1>0 DEF IInv, StartHasEnd, OverHasEnd, Over, IsEnd
<1>7. HeardIsShown'
  BY <1>0 DEF IInv, HeardIsShown
<1> QED BY <1>2, <1>3, <1>4, <1>5, <1>6, <1>7 DEF IInv

LEMMA AskedTrue ==
  ASSUME IInv, NEW i \in 1 .. Len(asks)
  PROVE  /\ asks[i] \in Requests /\ asks[i].body \in Bodies
         /\ asks[i].body.version <= log /\ asks[i].body.version \in 0 .. log
         /\ \A s \in asks[i].body.ids : s \in Streams /\ Begun(s)
<1>1. Types /\ asks[i] \in Requests
  BY Typed DEF IInv
<1>2. asks[i].body \in Bodies
  BY <1>1 DEF Requests
<1>3. asks[i].body.version \in Nat /\ asks[i].body.ids \subseteq Streams
  BY <1>2 DEF Bodies
<1>4. asks[i].body.version <= log /\ \A s \in asks[i].body.ids : Begun(s)
  BY DEF IInv, Timely, Known
<1> QED BY <1>1, <1>2, <1>3, <1>4, Typed

LEMMA AppendedRequest ==
  ASSUME IInv, NEW q \in Seq(Requests), NEW kind \in {"active", "block", "changes"},
         \A i \in 1 .. Len(q) :
            q[i].body.version <= log /\ \A s \in q[i].body.ids : Begun(s)
  PROVE  LET a == Append(q, Request(kind)) IN
         /\ a \in Seq(Requests) /\ Len(a) = Len(q) + 1
         /\ \A i \in 1 .. Len(a) :
              a[i].body.version <= log /\ \A s \in a[i].body.ids : Begun(s)
<1> DEFINE a == Append(q, Request(kind))
<1>1. Types /\ log \in Nat
  BY Typed DEF IInv
<1>2. Request(kind) \in Requests /\ Request(kind).body = NoBody
  BY <1>1, RequestTyped
<1>3. /\ a \in Seq(Requests) /\ Len(a) = Len(q) + 1 /\ Len(q) \in Nat
      /\ \A i \in 1 .. Len(q) : a[i] = q[i]
      /\ a[Len(q) + 1].body = NoBody
  BY <1>2, AppendProperties
<1> HIDE DEF a
<1>4. ASSUME NEW i \in 1 .. Len(a)
      PROVE  a[i].body.version <= log /\ \A s \in a[i].body.ids : Begun(s)
  <2>1. CASE i \in 1 .. Len(q)
    BY <1>3, <2>1
  <2>2. CASE i = Len(q) + 1
    BY <1>1, <1>3, <2>2, NoBodySaysNothing
  <2> QED BY <1>3, <2>1, <2>2
<1> QED BY <1>3, <1>4 DEF a

LEMMA CatchUpAsks ==
  ASSUME IInv, CatchUp, Len(asks) + 2 <= MaxFetches
  PROVE  /\ asks' \in Seq(Requests) /\ Len(asks') <= MaxFetches
         /\ \A i \in 1 .. Len(asks') :
              asks'[i].body.version <= log /\ \A s \in asks'[i].body.ids : Begun(s)
<1> DEFINE q == Append(asks, Request("active"))
<1>1. Types /\ asks \in Seq(Requests) /\ Len(asks) \in Nat
  BY Typed DEF IInv
<1>2. /\ q \in Seq(Requests) /\ Len(q) = Len(asks) + 1
      /\ \A i \in 1 .. Len(q) : q[i].body.version <= log /\ \A s \in q[i].body.ids : Begun(s)
  BY <1>1, AskedTrue, AppendedRequest
<1>3. asks' = Append(q, Request("changes"))
  <2>1. /\ Request("active") \in Requests /\ Request("changes") \in Requests
    BY <1>1, RequestTyped
  <2>2. asks' = asks \o <<Request("active"), Request("changes")>>
    BY DEF CatchUp
  <2> QED BY <1>1, <2>1, <2>2
<1> HIDE DEF q
<1> QED BY <1>1, <1>2, <1>3, AppendedRequest

LEMMA ReturnKeeps == ASSUME IInv, Return PROVE IInv'
<1>1. /\ Len(asks) + 2 <= MaxFetches /\ CatchUp /\ past' = [past EXCEPT !.returns = @ + 1]
      /\ UNCHANGED <<chat, serverVars, pageVars, linked, wire>>
  BY DEF Return
<1>2. past' \in Pasts /\ past'.pended = past.pended /\ past'.missed = past.missed
  <2>1. past \in Pasts /\ [past EXCEPT !.returns = @ + 1] \in Pasts
    BY PastTyped DEF IInv
  <2> QED BY <1>1, <2>1 DEF Pasts
<1> QED BY <1>1, <1>2, CatchUpAsks, AskedKeeps

LEMMA ReconnectKeeps == ASSUME IInv, Reconnect PROVE IInv'
<1>1. /\ Len(asks) + 2 <= MaxFetches /\ CatchUp /\ past' = past /\ linked' = TRUE
      /\ UNCHANGED <<chat, serverVars, pageVars, wire>>
  BY DEF Reconnect
<1>2. past' \in Pasts
  BY <1>1, PastTyped DEF IInv
<1> QED BY <1>1, <1>2, CatchUpAsks, AskedKeeps

LEMMA BreakKeeps == ASSUME IInv, Break PROVE IInv'
<1> DEFINE lost == \E i \in DOMAIN wire : wire[i].type = "stream-end"
           b == past.missed \/ lost
<1>1. /\ linked' = FALSE /\ wire' = <<>>
      /\ past' = [past EXCEPT !.returns = @ + 1, !.missed = b]
      /\ chat' = chat /\ block' = block /\ stream' = stream /\ log' = log /\ doc' = doc
      /\ act' = act /\ version' = version /\ asks' = asks
  BY DEF Break, serverVars, pageVars
<1>2. Types /\ Len(<<>>) = 0 /\ DOMAIN wire = 1 .. Len(wire)
  BY Typed DEF IInv
<1>3. past' \in Pasts /\ past'.missed = b /\ past'.pended = past.pended
  <2>1. past \in Pasts /\ b \in BOOLEAN /\ past.returns + 1 \in Nat
    BY <1>2, Typed DEF Pasts
  <2> HIDE DEF b
  <2> QED BY <1>1, <2>1 DEF Pasts
<1>4. Types'
  <2>1. TypeOK'
    BY <1>1, <1>2, Typed DEF TypeOK, States, Texts
  <2> QED BY <1>1, <1>2, <1>3, <2>1, Typed, EmptySeq DEF Types
<1>5. Timely' /\ InOrder' /\ TextIsNew' /\ StartHasEnd'
  BY <1>1, <1>2 DEF IInv, Timely, InOrder, TextIsNew, StartHasEnd
<1>6. Known'
  BY <1>1, <1>2 DEF IInv, Known, Begun
<1>7. Entries' /\ InTurn'
  BY <1>1 DEF IInv, Entries, InTurn, Begun, Over
<1>8. OverHasEnd'
  <2> SUFFICES ASSUME ~ past.missed, ~ lost, NEW r \in Streams, Over(r), act[r].on PROVE FALSE
    BY <1>1, <1>3 DEF OverHasEnd, Over
  <2>1. PICK i \in 1 .. Len(wire) : IsEnd(wire[i], r)
    BY DEF IInv, OverHasEnd
  <2> QED BY <1>2, <2>1 DEF IsEnd
<1>9. HeardIsShown'
  <2> HIDE DEF lost
  <2> QED BY <1>1, <1>3 DEF IInv, HeardIsShown
<1> QED BY <1>4, <1>5, <1>6, <1>7, <1>8, <1>9 DEF IInv

LEMMA BlocksChangedKeeps == ASSUME IInv, OnBlocksChanged PROVE IInv'
<1>1. /\ wire # <<>> /\ Head(wire).type = "blocks-changed" /\ Len(asks) < MaxFetches
      /\ version' = Head(wire).version /\ wire' = Tail(wire)
      /\ asks' = Append(asks, Request("block")) /\ past' = past
      /\ chat' = chat /\ block' = block /\ stream' = stream /\ log' = log
      /\ doc' = doc /\ act' = act /\ linked' = linked
  BY DEF OnBlocksChanged, serverVars
<1>2. /\ wire' \in Seq(Signals) /\ Len(wire') \in Nat /\ linked
      /\ 1 \in 1 .. Len(wire) /\ Head(wire) = wire[1] /\ wire[1] \in Signals
      /\ \A i \in 1 .. Len(wire') : i + 1 \in 2 .. Len(wire) /\ wire'[i] = wire[i + 1]
      /\ \A i \in 2 .. Len(wire) : \E k \in 1 .. Len(wire') : wire'[k] = wire[i]
      /\ InOrder' /\ StartHasEnd'
      /\ \A i \in 1 .. Len(wire') :
           IF IsStream(wire'[i]) THEN Begun(wire[i + 1].id) ELSE wire'[i].version <= log
  BY <1>1, HeadTaken
<1>3. Types /\ asks \in Seq(Requests) /\ Len(asks) \in Nat /\ MaxFetches \in Nat /\ log \in Nat
  BY Typed, BoundsAssumption DEF IInv
<1>4. /\ asks' \in Seq(Requests) /\ Len(asks') = Len(asks) + 1
      /\ \A i \in 1 .. Len(asks') :
           asks'[i].body.version <= log /\ \A s \in asks'[i].body.ids : Begun(s)
  BY <1>1, <1>3, AskedTrue, AppendedRequest
<1>5. version' \in 0 .. log
  <2>1. wire[1].version \in Nat /\ wire[1].version <= log
    BY <1>1, <1>2, SignalFields DEF IInv, Timely
  <2> QED BY <1>1, <1>2, <1>3, <2>1
<1>6. Types'
  <2>1. TypeOK'
    BY <1>1, <1>2, <1>3, <1>4, <1>5, Typed DEF TypeOK, States, Texts
  <2> QED BY <1>1, <1>2, <1>3, <1>4, <2>1, Typed DEF Types
<1>7. Timely'
  BY <1>1, <1>2, <1>4 DEF Timely, IsStream
<1>8. Known'
  <2>1. \A s \in Streams : act[s].on => Begun(s)
    BY DEF IInv, Known
  <2>2. \A i \in 1 .. Len(wire') : IsStream(wire'[i]) => stream[wire'[i].id].state # "none"
    BY <1>2 DEF Begun
  <2> QED BY <1>1, <1>4, <2>1, <2>2 DEF Known, Begun, IsStream
<1>9. Entries' /\ InTurn'
  BY <1>1 DEF IInv, Entries, InTurn, Begun, Over
<1>10. TextIsNew'
  BY <1>1, <1>2 DEF IInv, TextIsNew, IsStream
<1>11. OverHasEnd'
  <2> SUFFICES ASSUME ~ past.missed, NEW r \in Streams, Over(r), act[r].on
               PROVE  \E i \in 1 .. Len(wire') : IsEnd(wire'[i], r)
    BY <1>1 DEF OverHasEnd, Over, IsEnd
  <2>1. PICK i \in 1 .. Len(wire) : IsEnd(wire[i], r)
    BY DEF IInv, OverHasEnd
  <2>2. i \in 2 .. Len(wire)
    BY <1>1, <1>2, <2>1 DEF IsEnd
  <2> QED BY <1>2, <2>1, <2>2
<1>12. HeardIsShown'
  BY <1>1 DEF IInv, HeardIsShown
<1> QED BY <1>2, <1>6, <1>7, <1>8, <1>9, <1>10, <1>11, <1>12 DEF IInv

\* The answers of the server are true when it gives them.
LEMMA RepliesAreTrue ==
  ASSUME IInv, NEW a \in Requests, NEW b \in Replies(a)
  PROVE  b \in Bodies /\ b.version <= log /\ \A s \in b.ids : s \in Streams /\ Begun(s)
<1>1. Types /\ log \in Nat /\ block \in Chats /\ stream \in States
  BY Typed DEF IInv
<1>2. NoBody \in Bodies /\ NoBody.ids = {} /\ NoBody.version = 0
  <2>1. [said |-> <<>>, live |-> FALSE] \in Chats
    BY EmptySeq DEF Chats
  <2> QED BY <2>1 DEF NoBody, Bodies, Pendings
<1>3. CASE a.kind = "active"
  <2> DEFINE open == {s \in Streams : stream[s].state = "streaming"}
  <2>1. b = [NoBody EXCEPT !.ids = open]
    BY <1>3 DEF Replies
  <2>2. open \in SUBSET Streams /\ \A s \in open : Begun(s)
    BY DEF Begun
  <2> HIDE DEF open
  <2>3. b \in Bodies /\ b.ids = open /\ b.version = 0
    BY <1>2, <2>1, <2>2 DEF Bodies
  <2> QED BY <1>1, <2>2, <2>3
<1>4. CASE a.kind = "block"
  <2>1. b = [NoBody EXCEPT !.chat = block]
    BY <1>4 DEF Replies
  <2>2. b \in Bodies /\ b.ids = {} /\ b.version = 0
    BY <1>1, <1>2, <2>1 DEF Bodies
  <2> QED BY <1>1, <2>2
<1>5. CASE a.kind = "changes"
  <2>1. PICK last \in {NoText} \cup LastCompleted :
          b = [NoBody EXCEPT !.version = log, !.pending = last, !.changes = log > a.since]
    BY <1>5 DEF Replies
  <2>2. last \in Pendings
    <3>1. ASSUME NEW s \in Streams
          PROVE  [id |-> s, text |-> stream[s].text] \in [id : Streams, text : Texts]
      <4>1. stream[s].text \in Texts
        BY <1>1 DEF States
      <4> QED BY <4>1
    <3> QED BY <2>1, <3>1 DEF LastCompleted, Completed, Pendings
  <2>3. (log > a.since) \in BOOLEAN
    OBVIOUS
  <2>4. b \in Bodies /\ b.ids = {} /\ b.version = log
    BY <1>1, <1>2, <2>1, <2>2, <2>3 DEF Bodies
  <2> QED BY <1>1, <2>4
<1> QED BY <1>3, <1>4, <1>5 DEF Requests

LEMMA ServeKeeps == ASSUME IInv, NEW i, Serve(i) PROVE IInv'
<1>1. Types /\ asks \in Seq(Requests) /\ DOMAIN asks = 1 .. Len(asks) /\ Len(asks) <= MaxFetches
  BY Typed DEF IInv
<1>2. i \in 1 .. Len(asks)
  BY <1>1 DEF Serve
<1>3. PICK b \in Replies(asks[i]) : asks' = [asks EXCEPT ![i].done = TRUE, ![i].body = b]
  BY DEF Serve
<1> DEFINE e == [asks[i] EXCEPT !.done = TRUE, !.body = b]
<1>4. asks[i] \in Requests
  BY <1>2, AskedTrue
<1>5. b \in Bodies /\ b.version <= log /\ \A s \in b.ids : Begun(s)
  BY <1>4, RepliesAreTrue
<1>6. e \in Requests /\ e.body = b
  BY <1>4, <1>5 DEF Requests
<1>7. asks' = [asks EXCEPT ![i] = e]
  BY <1>1, <1>2, <1>3, <1>4 DEF Requests
<1> HIDE DEF e
<1>8. asks' \in Seq(Requests) /\ Len(asks') = Len(asks)
  BY <1>1, <1>2, <1>6, <1>7, ExceptSeq
<1>9. \A j \in 1 .. Len(asks') : asks'[j] = IF j = i THEN e ELSE asks[j]
  BY <1>1, <1>2, <1>7, <1>8
<1>10. \A j \in 1 .. Len(asks') :
         asks'[j].body.version <= log /\ \A s \in asks'[j].body.ids : Begun(s)
  BY <1>5, <1>6, <1>8, <1>9, AskedTrue
<1>11. past' = past /\ UNCHANGED <<chat, serverVars, pageVars, wire>> /\ linked' = linked
  BY DEF Serve
<1>12. past' \in Pasts
  BY <1>11, PastTyped DEF IInv
<1> QED BY <1>1, <1>8, <1>10, <1>11, <1>12, AskedKeeps

-----------------------------------------------------------------------------
(* The page handles an answer                                               *)

\* What an answer may do: it changes no text, and starts to follow a stream
\* that is over only if its end was missed.
LEMMA AnswerKeeps ==
  ASSUME IInv, UNCHANGED <<chat, serverVars, linked, wire>>,
         asks' \in Seq(Requests), Len(asks') <= MaxFetches,
         \A i \in 1 .. Len(asks') :
            /\ asks'[i].body.version <= log
            /\ \A s \in asks'[i].body.ids : Begun(s),
         doc' \in Chats, version' \in 0 .. log, past' \in Pasts,
         act' \in [Streams -> [on : BOOLEAN, at : 0 .. Len(doc'.said), text : Texts]],
         past.missed => past'.missed,
         \A s \in Streams : ~ act'[s].on => act'[s] = NoEntry,
         \A s \in Streams : act'[s].text = act[s].text,
         \A s \in Streams : act[s].at > 0 => act'[s].at = act[s].at,
         \A s \in Streams : act'[s].on => Begun(s),
         \A s \in Streams : act'[s].on /\ ~ act[s].on => past'.missed \/ ~ Over(s),
         HeardIsShown'
  PROVE  IInv'
<1>0. /\ chat' = chat /\ block' = block /\ stream' = stream /\ log' = log
      /\ linked' = linked /\ wire' = wire
  BY DEF serverVars
<1>1. Types
  BY DEF IInv
<1>2. Types'
  <2>1. TypeOK'
    BY <1>0, <1>1, Typed DEF TypeOK, States, Texts
  <2> QED BY <1>0, <1>1, <2>1, Typed DEF Types
<1>3. Timely'
  BY <1>0 DEF IInv, Timely
<1>4. Known'
  BY <1>0 DEF IInv, Known, Begun, IsStream
<1>5. Entries'
  BY DEF IInv, Entries
<1>6. InTurn' /\ InOrder' /\ TextIsNew' /\ StartHasEnd'
  BY <1>0 DEF IInv, InTurn, InOrder, TextIsNew, StartHasEnd, Begun, Over, IsStream, IsEnd
<1>7. OverHasEnd'
  <2> SUFFICES ASSUME ~ past'.missed, NEW r \in Streams, Over(r), act'[r].on
               PROVE  \E i \in 1 .. Len(wire) : IsEnd(wire[i], r)
    BY <1>0 DEF OverHasEnd, Over, IsEnd
  <2>1. ~ past.missed /\ act[r].on
    OBVIOUS
  <2> QED BY <2>1 DEF IInv, OverHasEnd
<1> QED BY <1>2, <1>3, <1>4, <1>5, <1>6, <1>7 DEF IInv

\* restoreActiveStreams
LEMMA ActiveKeeps ==
  ASSUME IInv, NEW a \in Requests, OnActiveAnswer(a),
         UNCHANGED <<chat, serverVars, linked, wire>>,
         asks' \in Seq(Requests), Len(asks') <= MaxFetches,
         \A i \in 1 .. Len(asks') :
            /\ asks'[i].body.version <= log
            /\ \A s \in asks'[i].body.ids : Begun(s),
         \A s \in a.body.ids : s \in Streams /\ Begun(s)
  PROVE  IInv'
<1> DEFINE ids == a.body.ids
           late == \E s \in ids : Over(s)
           new == [NoEntry EXCEPT !.on = TRUE]
<1>1. /\ doc' = doc /\ version' = version
      /\ act' = [s \in Streams |-> IF s \in ids /\ ~ act[s].on THEN new ELSE act[s]]
      /\ past' = [past EXCEPT !.missed = @ \/ late]
  BY DEF OnActiveAnswer, OnActive, Become, Here, Page
<1>2. /\ Types /\ doc \in Chats /\ Len(doc.said) \in Nat /\ version \in 0 .. log
      /\ act \in [Streams -> [on : BOOLEAN, at : 0 .. Len(doc.said), text : Texts]]
  BY Typed DEF IInv
<1>3. /\ new \in [on : BOOLEAN, at : 0 .. Len(doc.said), text : Texts]
      /\ new.on /\ new.at = 0 /\ new.text = 0 /\ NoEntry.at = 0 /\ NoEntry.text = 0
  <2> DEFINE Z == [on : BOOLEAN, at : {0}, text : {0}]
  <2>1. NoEntry \in Z
    BY DEF NoEntry
  <2>2. new \in Z /\ new.on
    BY <2>1
  <2>3. 0 \in 0 .. Len(doc.said) /\ 0 \in Texts
    BY <1>2, BoundsAssumption DEF Texts
  <2> HIDE DEF new
  <2> QED BY <2>1, <2>2, <2>3
<1> HIDE DEF new
<1>4. act' \in [Streams -> [on : BOOLEAN, at : 0 .. Len(doc.said), text : Texts]]
  BY <1>1, <1>2, <1>3
<1>5. \A s \in Streams : ~ act[s].on => act[s] = NoEntry
  BY DEF IInv, Entries
<1>6. ASSUME NEW s \in Streams
      PROVE  /\ ~ act'[s].on => act'[s] = NoEntry
             /\ act'[s].text = act[s].text
             /\ act[s].at > 0 => act'[s].at = act[s].at
             /\ act'[s].on => Begun(s)
             /\ act'[s].on /\ ~ act[s].on => s \in ids
  <2>1. CASE s \in ids /\ ~ act[s].on
    BY <1>1, <1>3, <1>5, <2>1
  <2>2. CASE ~ (s \in ids /\ ~ act[s].on)
    BY <1>1, <1>5, <2>2 DEF IInv, Known
  <2> QED BY <2>1, <2>2
<1>7. past' \in Pasts /\ past'.missed = (past.missed \/ late) /\ past'.pended = past.pended
  <2>1. past \in Pasts /\ (past.missed \/ late) \in BOOLEAN
    BY <1>2, Typed
  <2> HIDE DEF late
  <2> QED BY <1>1, <2>1 DEF Pasts
<1>8. \A s \in Streams : act'[s].on /\ ~ act[s].on => past'.missed \/ ~ Over(s)
  BY <1>6, <1>7
<1>9. HeardIsShown'
  <2> SUFFICES ASSUME ~ past.pended, NEW s \in Streams,
                      act'[s].on, act'[s].at > 0, act'[s].text > 0,
                      past.missed \/ late => stream[s].state = "streaming"
               PROVE  /\ act'[s].at <= Len(doc.said) /\ doc.said[act'[s].at].of = s
                      /\ doc.said[act'[s].at].text = act'[s].text
    BY <1>1, <1>7 DEF HeardIsShown, serverVars
  <2>1. act'[s] = act[s]
    BY <1>1, <1>3
  <2> QED BY <2>1 DEF IInv, HeardIsShown
<1> QED BY <1>1, <1>2, <1>4, <1>6, <1>7, <1>8, <1>9, AnswerKeeps

\* processPendingStreams
LEMMA ChangesKeeps ==
  ASSUME IInv, NEW a \in Requests, OnChangesAnswer(a),
         UNCHANGED <<chat, serverVars, linked, wire>>,
         asks' \in Seq(Requests), Len(asks') <= MaxFetches,
         \A i \in 1 .. Len(asks') :
            /\ asks'[i].body.version <= log
            /\ \A s \in asks'[i].body.ids : Begun(s),
         a.body.version \in 0 .. log
  PROVE  IInv'
<1> DEFINE last == a.body.pending
<1>1. /\ Types /\ doc \in Chats /\ Len(doc.said) \in Nat /\ past \in Pasts
      /\ act \in [Streams -> [on : BOOLEAN, at : 0 .. Len(doc.said), text : Texts]]
  BY Typed DEF IInv
<1>2. act' = act /\ version' \in 0 .. log
  BY DEF OnChangesAnswer, OnPending, Become, Here, Page
<1>3. /\ past' \in Pasts /\ (past.missed => past'.missed) /\ past'.missed = past.missed
      /\ doc' \in Chats /\ Len(doc'.said) >= Len(doc.said)
      /\ (doc' = doc /\ past'.pended = past.pended) \/ past'.pended
  <2>1. CASE ~ a.body.changes
    BY <1>1, <2>1 DEF OnChangesAnswer
  <2>2. CASE a.body.changes /\ last = NoText
    <3>1. doc' = doc /\ past' = [past EXCEPT !.pended = @ \/ FALSE]
      BY <2>2 DEF OnChangesAnswer, OnPending, Become, Here, Page
    <3> QED BY <1>1, <3>1 DEF Pasts
  <2>3. CASE a.body.changes /\ last # NoText
    <3>1. last \in [id : Streams, text : Texts]
      BY <2>3 DEF Requests, Bodies, Pendings
    <3>2. doc' = FinalText(doc, last.id, last.text) /\ past' = [past EXCEPT !.pended = @ \/ TRUE]
      BY <2>3 DEF OnChangesAnswer, OnPending, Become, Here, Page
    <3>3. doc' \in Chats /\ Len(doc'.said) >= Len(doc.said)
      BY <1>1, <3>1, <3>2, FinalTextKeeps
    <3> QED BY <1>1, <3>2, <3>3 DEF Pasts
  <2> QED BY <2>1, <2>2, <2>3
<1> HIDE DEF last
<1>4. Len(doc'.said) \in Nat /\ 0 .. Len(doc.said) \subseteq 0 .. Len(doc'.said)
  BY <1>1, <1>3, ChatFields
<1>5. act' \in [Streams -> [on : BOOLEAN, at : 0 .. Len(doc'.said), text : Texts]]
  BY <1>1, <1>2, <1>4
<1>6. HeardIsShown'
  <2>1. CASE doc' = doc /\ past'.pended = past.pended
    BY <1>2, <1>3, <2>1 DEF IInv, HeardIsShown, serverVars
  <2>2. CASE past'.pended
    BY <2>2 DEF HeardIsShown
  <2> QED BY <1>3, <2>1, <2>2
<1>7. \A s \in Streams : (~ act[s].on => act[s] = NoEntry) /\ (act[s].on => Begun(s))
  BY DEF IInv, Entries, Known
<1> QED BY <1>2, <1>3, <1>5, <1>6, <1>7, AnswerKeeps

\* Several streams may have shown their text at one position: the last of them
\* is shown again.
LEMMA AgainKeeps ==
  ASSUME NEW d \in Chats, NEW i \in 1 .. Len(d.said),
         NEW a \in [Streams -> [on : BOOLEAN, at : 0 .. Len(d.said), text : Texts]]
  PROVE  /\ Again(d, a, i) \in Messages
         /\ ShownAt(a, i) = {} => Again(d, a, i) = d.said[i]
         /\ \A s \in ShownAt(a, i) : (\A r \in ShownAt(a, i) : r <= s) =>
              Again(d, a, i).of = s /\ Again(d, a, i).text = a[s].text
<1> DEFINE S == ShownAt(a, i)
<1>1. S \in SUBSET Streams
  BY DEF ShownAt
<1>2. d.said[i] \in Messages
  BY ChatFields
<1>3. CASE S = {}
  BY <1>2, <1>3 DEF Again
<1>4. CASE S # {}
  <2> DEFINE x == Newest(S)
  <2> HIDE DEF S
  <2>1. x \in S /\ x \in Streams
    BY <1>1, <1>4, NewestIsThere
  <2>2. \A s \in S : (\A r \in S : r <= s) => x = s
    BY <1>1, NewestIsUnique
  <2> HIDE DEF x
  <2>3. Again(d, a, i) = [d.said[i] EXCEPT !.of = x, !.text = a[x].text]
    BY <1>4 DEF Again, S, x
  <2>4. x \in - NumStreams .. NumStreams /\ a[x].text \in Texts
    <3>1. x \in 1 .. NumStreams /\ NumStreams \in Nat
      BY <2>1, BoundsAssumption DEF Streams
    <3> QED BY <2>1, <3>1
  <2>5. /\ Again(d, a, i) \in Messages
        /\ Again(d, a, i).of = x /\ Again(d, a, i).text = a[x].text
    BY <1>2, <2>3, <2>4 DEF Messages, Texts
  <2> QED BY <1>4, <2>2, <2>5 DEF S
<1> QED BY <1>3, <1>4

\* resolveStreamFromDb gives an entry its message, if it has none.
LEMMA FromDbKeeps ==
  ASSUME NEW d \in Chats, NEW e \in [on : BOOLEAN, at : 0 .. Len(d.said), text : Texts]
  PROVE  /\ FromDb(d, e) \in [on : BOOLEAN, at : 0 .. Len(d.said), text : Texts]
         /\ FromDb(d, e).on = e.on /\ FromDb(d, e).text = e.text
         /\ e.at > 0 => FromDb(d, e).at = e.at
         /\ ~ e.on => FromDb(d, e) = e
<1>1. Len(d.said) \in Nat
  BY ChatFields
<1>2. Len(d.said) \in 0 .. Len(d.said)
  BY <1>1
<1>3. CASE e.on /\ e.at = 0 /\ d.live /\ d.said # <<>>
  <2>1. PICK n \in 0 .. Len(d.said) : n = Len(d.said)
    BY <1>2
  <2>2. FromDb(d, e) = [e EXCEPT !.at = n]
    BY <1>3, <2>1 DEF FromDb
  <2> DEFINE x == [e EXCEPT !.at = n]
  <2>3. x \in [on : BOOLEAN, at : 0 .. Len(d.said), text : Texts]
    OBVIOUS
  <2>4. x.on = e.on /\ x.text = e.text
    OBVIOUS
  <2> HIDE DEF x
  <2>5. FromDb(d, e) = x
    BY <2>2 DEF x
  <2>6. e.on /\ ~ (e.at > 0)
    BY <1>3
  <2> QED BY <2>3, <2>4, <2>5, <2>6
<1>4. CASE ~ (e.on /\ e.at = 0 /\ d.live /\ d.said # <<>>)
  BY <1>4 DEF FromDb
<1> QED BY <1>3, <1>4

\* handleBlocksChanged
LEMMA BlocksKeeps ==
  ASSUME IInv, NEW a \in Requests, NEW older, OnBlockAnswer(a, older),
         UNCHANGED <<chat, serverVars, linked, wire>>,
         asks' \in Seq(Requests), Len(asks') <= MaxFetches,
         \A i \in 1 .. Len(asks') :
            /\ asks'[i].body.version <= log
            /\ \A s \in asks'[i].body.ids : Begun(s)
  PROVE  IInv'
<1> DEFINE d == Replace(Here, a.body.chat)
           b == [s \in Streams |-> FromDb(d, act[s])]
           said == [i \in 1 .. Len(d.said) |-> Again(d, b, i)]
           over == \E j \in DOMAIN older : older[j].kind = "block"
<1>1. /\ doc' = [d EXCEPT !.said = said] /\ act' = b /\ version' = version
      /\ past' = [past EXCEPT !.crossed = @ \/ over]
  BY DEF OnBlockAnswer, OnBlocks, Become, Here, Page
<1>2. /\ Types /\ doc \in Chats /\ Len(doc.said) \in Nat /\ version \in 0 .. log /\ past \in Pasts
      /\ act \in [Streams -> [on : BOOLEAN, at : 0 .. Len(doc.said), text : Texts]]
  BY Typed DEF IInv
<1>3. \A s \in Streams : /\ ~ act[s].on => act[s] = NoEntry
                         /\ act[s].text > 0 => act[s].at > 0
                         /\ act[s].on => Begun(s)
  BY DEF IInv, Entries, Known
<1>4. /\ d \in Chats
      /\ act \in [Streams -> [on : BOOLEAN, at : 0 .. Len(d.said), text : Texts]]
      /\ d = doc \/ \A s \in Streams : ~ act[s].on
  <2>1. CASE \E s \in Streams : act[s].on
    <3>1. d = doc
      BY <2>1 DEF Replace, Here, Page
    <3> HIDE DEF d
    <3> QED BY <1>2, <3>1
  <2>2. CASE ~ \E s \in Streams : act[s].on
    <3>1. d = a.body.chat /\ d \in Chats
      BY <2>2 DEF Replace, Here, Page, Requests, Bodies
    <3> HIDE DEF d
    <3>2. Len(d.said) \in Nat
      BY <3>1, ChatFields
    <3>3. \A s \in Streams : act[s] \in [on : BOOLEAN, at : 0 .. Len(d.said), text : Texts]
      BY <1>3, <2>2, <3>2, NoEntryTyped
    <3>4. act = [s \in Streams |-> act[s]]
      BY <1>2
    <3> QED BY <2>2, <3>1, <3>3, <3>4
  <2> QED BY <2>1, <2>2
<1> HIDE DEF d
<1>5. /\ b \in [Streams -> [on : BOOLEAN, at : 0 .. Len(d.said), text : Texts]]
      /\ \A s \in Streams : /\ b[s].on = act[s].on /\ b[s].text = act[s].text
                            /\ act[s].at > 0 => b[s].at = act[s].at
                            /\ ~ act[s].on => b[s] = act[s]
  <2>1. ASSUME NEW s \in Streams
        PROVE  /\ b[s] \in [on : BOOLEAN, at : 0 .. Len(d.said), text : Texts]
               /\ b[s].on = act[s].on /\ b[s].text = act[s].text
               /\ act[s].at > 0 => b[s].at = act[s].at
               /\ ~ act[s].on => b[s] = act[s]
    <3>1. act[s] \in [on : BOOLEAN, at : 0 .. Len(d.said), text : Texts]
      BY <1>4
    <3>2. b[s] = FromDb(d, act[s])
      OBVIOUS
    <3> QED BY <1>4, <3>1, <3>2, FromDbKeeps
  <2> QED BY <2>1
<1> HIDE DEF b
<1>6. /\ doc' \in Chats /\ Len(doc'.said) = Len(d.said)
      /\ \A i \in 1 .. Len(d.said) : doc'.said[i] = Again(d, b, i)
  <2>1. Len(d.said) \in Nat /\ \A i \in 1 .. Len(d.said) : Again(d, b, i) \in Messages
    BY <1>4, <1>5, ChatFields, AgainKeeps
  <2>2. said \in [1 .. Len(d.said) -> Messages]
    BY <2>1
  <2>3. \A i \in 1 .. Len(d.said) : said[i] = Again(d, b, i)
    OBVIOUS
  <2> HIDE DEF said
  <2>4. said \in Seq(Messages) /\ Len(said) = Len(d.said)
    BY <2>1, <2>2, SeqDef, LenProperties
  <2> QED BY <1>1, <1>4, <2>3, <2>4 DEF Chats
<1> HIDE DEF said
<1>7. past' \in Pasts /\ past'.missed = past.missed /\ past'.pended = past.pended
  <2>1. (past.crossed \/ over) \in BOOLEAN
    BY <1>2 DEF Pasts
  <2> HIDE DEF over
  <2> QED BY <1>1, <1>2, <2>1 DEF Pasts
<1>8. HeardIsShown'
  <2> SUFFICES ASSUME ~ past.pended, NEW s \in Streams, b[s].on, b[s].at > 0, b[s].text > 0,
                      past.missed => stream[s].state = "streaming"
               PROVE  /\ b[s].at <= Len(doc'.said) /\ doc'.said[b[s].at].of = s
                      /\ doc'.said[b[s].at].text = b[s].text
    BY <1>1, <1>7 DEF HeardIsShown, serverVars
  <2>1. act[s].on /\ act[s].text > 0 /\ act[s].at > 0 /\ b[s].at = act[s].at /\ d = doc
    BY <1>3, <1>4, <1>5
  <2>2. PICK i \in Nat : i = b[s].at
    BY <1>2, <2>1
  <2>3. i \in 1 .. Len(d.said)
    BY <1>2, <2>1, <2>2
  <2>4. s \in ShownAt(b, i)
    BY <2>2 DEF ShownAt
  <2>5. ASSUME NEW r \in ShownAt(b, i) PROVE r <= s
    <3> SUFFICES ASSUME r # s, ~ (r <= s) PROVE FALSE
      BY StreamsAreNumbers
    <3>1. r \in Streams /\ act[r].on /\ act[r].text > 0 /\ act[r].at = i /\ act[r].at > 0
      BY <1>3, <1>5, <2>5 DEF ShownAt
    <3>2. CASE past.missed
      <4>1. s \in 1 .. r - 1 /\ Begun(r)
        BY <1>3, <3>1, StreamsAreNumbers
      <4>2. Over(s)
        BY <3>1, <4>1 DEF IInv, InTurn
      <4> QED BY <3>2, <4>2 DEF Over
    <3>3. CASE ~ past.missed
      <4>1. doc.said[i].of = r
        BY <3>1, <3>3 DEF IInv, HeardIsShown
      <4>2. doc.said[i].of = s
        BY <2>1, <2>2, <3>3 DEF IInv, HeardIsShown
      <4> QED BY <4>1, <4>2
    <3> QED BY <3>2, <3>3
  <2>6. Again(d, b, i).of = s /\ Again(d, b, i).text = b[s].text
    <3>1. \A x \in ShownAt(b, i) : (\A r \in ShownAt(b, i) : r <= x) =>
            Again(d, b, i).of = x /\ Again(d, b, i).text = b[x].text
      BY <1>4, <1>5, <2>3, AgainKeeps
    <3> QED BY <2>4, <2>5, <3>1
  <2> QED BY <1>6, <2>2, <2>3, <2>6
<1>9. act' \in [Streams -> [on : BOOLEAN, at : 0 .. Len(doc'.said), text : Texts]]
  BY <1>1, <1>5, <1>6
<1> QED BY <1>1, <1>2, <1>3, <1>5, <1>6, <1>7, <1>8, <1>9, AnswerKeeps

LEMMA DeliverKeeps == ASSUME IInv, NEW i, Deliver(i) PROVE IInv'
<1> DEFINE a == asks[i]
           rest == RemoveAt(asks, i)
<1>1. /\ i \in DOMAIN asks
      /\ OnActiveAnswer(a) \/ OnBlockAnswer(a, SubSeq(asks, 1, i - 1)) \/ OnChangesAnswer(a)
      /\ asks' = IF a.body.changes THEN Append(rest, Request("block")) ELSE rest
      /\ UNCHANGED <<chat, serverVars, linked, wire>>
  BY DEF Deliver
<1>2. /\ Types /\ asks \in Seq(Requests) /\ DOMAIN asks = 1 .. Len(asks) /\ Len(asks) \in Nat
      /\ Len(asks) <= MaxFetches /\ MaxFetches \in Nat
  BY Typed, BoundsAssumption DEF IInv
<1>3. /\ a \in Requests /\ a.body.version \in 0 .. log
      /\ \A s \in a.body.ids : s \in Streams /\ Begun(s)
  BY <1>1, <1>2, AskedTrue
<1>4. /\ rest \in Seq(Requests) /\ Len(rest) = Len(asks) - 1
      /\ \A j \in 1 .. Len(rest) : \E k \in 1 .. Len(asks) : rest[j] = asks[k]
  <2>1. i \in 1 .. Len(asks)
    BY <1>1, <1>2
  <2>2. asks \in Seq(Requests)
    BY <1>2
  <2>3. RemoveAt(asks, i) \in Seq(Requests)
    BY <2>1, <2>2, RemoveAtKeeps
  <2>4. Len(RemoveAt(asks, i)) = Len(asks) - 1
    BY <2>1, <2>2, RemoveAtKeeps
  <2>5. \A j \in 1 .. Len(RemoveAt(asks, i)) :
          \E k \in 1 .. Len(asks) : RemoveAt(asks, i)[j] = asks[k]
    BY <2>1, <2>2, RemoveAtKeeps
  <2> QED BY <2>3, <2>4, <2>5
<1> HIDE DEF rest
<1>5. \A j \in 1 .. Len(rest) :
        rest[j].body.version <= log /\ \A s \in rest[j].body.ids : Begun(s)
  BY <1>4, AskedTrue
<1>6. /\ asks' \in Seq(Requests) /\ Len(asks') <= MaxFetches
      /\ \A j \in 1 .. Len(asks') :
           asks'[j].body.version <= log /\ \A s \in asks'[j].body.ids : Begun(s)
  <2>1. CASE a.body.changes
    <3> DEFINE q == Append(rest, Request("block"))
    <3>1. /\ q \in Seq(Requests) /\ Len(q) = Len(rest) + 1
          /\ \A j \in 1 .. Len(q) :
               q[j].body.version <= log /\ \A s \in q[j].body.ids : Begun(s)
      BY <1>4, <1>5, AppendedRequest
    <3>2. asks' = q
      BY <1>1, <2>1
    <3> HIDE DEF q
    <3> QED BY <1>2, <1>4, <3>1, <3>2
  <2>2. CASE ~ a.body.changes
    BY <1>1, <1>2, <1>4, <1>5, <2>2
  <2> QED BY <2>1, <2>2
<1>7. CASE OnActiveAnswer(a)
  BY <1>1, <1>3, <1>6, <1>7, ActiveKeeps
<1>8. CASE OnBlockAnswer(a, SubSeq(asks, 1, i - 1))
  BY <1>1, <1>3, <1>6, <1>8, BlocksKeeps
<1>9. CASE OnChangesAnswer(a)
  BY <1>1, <1>3, <1>6, <1>9, ChangesKeeps
<1> QED BY <1>1, <1>7, <1>8, <1>9

-----------------------------------------------------------------------------
(* The theorems                                                             *)

LEMMA NextKeeps == ASSUME IInv, [Next]_vars PROVE IInv'
<1>1. CASE UNCHANGED vars
  BY <1>1 DEF IInv, Types, TypeOK, Timely, Known, Entries, InTurn, InOrder, TextIsNew,
     StartHasEnd, OverHasEnd, HeardIsShown, Begun, Over, vars, serverVars, pageVars
<1>2. CASE \E s \in Streams : Ask(s) \/ Chunk(s) \/ Finish(s)
  BY <1>2, AskKeeps, ChunkKeeps, FinishKeeps
<1>3. CASE Save
  BY <1>3, SaveKeeps
<1>4. CASE OnStreamMessage
  BY <1>4, StreamMessageKeeps
<1>5. CASE OnBlocksChanged
  BY <1>5, BlocksChangedKeeps
<1>6. CASE Return
  BY <1>6, ReturnKeeps
<1>7. CASE Break
  BY <1>7, BreakKeeps
<1>8. CASE Reconnect
  BY <1>8, ReconnectKeeps
<1>9. CASE \E i \in 1 .. MaxFetches : Serve(i) \/ Deliver(i)
  BY <1>9, ServeKeeps, DeliverKeeps
<1> QED BY <1>1, <1>2, <1>3, <1>4, <1>5, <1>6, <1>7, <1>8, <1>9 DEF Next

\* The invariant holds in every reachable state.
THEOREM Invariance == Spec => []IInv
<1>1. Init => IInv
  BY InitIInv
<1>2. IInv /\ [Next]_vars => IInv'
  BY NextKeeps
<1> QED BY <1>1, <1>2, PTL DEF Spec

\* Every variable has its type: above all a page that follows a stream knows a
\* message that is there (handleBlocksChanged, resolveStreamFromDb).
THEOREM Typing == Spec => []TypeOK
<1>1. IInv => TypeOK
  BY DEF IInv, Types
<1> QED BY <1>1, Invariance, PTL

\* What the page has heard of an answer it follows is what it shows
\* (handleBlocksChanged, restoreActiveStreams, resolveStreamFromDb).
THEOREM HeardStays == Spec => []HeardIsShown
<1>1. IInv => HeardIsShown
  BY DEF IInv
<1> QED BY <1>1, Invariance, PTL
=============================================================================
