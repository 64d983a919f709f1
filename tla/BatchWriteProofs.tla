-------------------------- MODULE BatchWriteProofs --------------------------
(***************************************************************************)
(* For any number of writes of any sizes, any retries and broken           *)
(* connections: splitIntoChunks cuts the buffer into chunks that keep to   *)
(* the limit, share no write and leave none out; no write is forgotten on  *)
(* its way; a write that the page reports as saved was stored; and what    *)
(* was alone on its file is what the file holds.                           *)
(*                                                                         *)
(* The first part is about the folds of the model: induction over the      *)
(* natural numbers is the library's well-founded minimum, and a fold over  *)
(* a sequence is a function of how many of its elements have been taken.   *)
(***************************************************************************)
EXTENDS BatchWrite, SequenceTheorems, FiniteSetTheorems, TLAPS

-----------------------------------------------------------------------------
(* Folds                                                                    *)

Less == {p \in Nat \X Nat : p[1] < p[2]}

\* Induction: the least number that is not in S has a predecessor in S.
LEMMA NatInd ==
  ASSUME NEW S, 0 \in S, \A n \in Nat : n \in S => n + 1 \in S
  PROVE  \A n \in Nat : n \in S
<1> SUFFICES ASSUME Nat \ S # {} PROVE FALSE
  OBVIOUS
<1>0. IsWellFoundedOn(Less, Nat)
  BY NatLessThanWellFounded DEF OpToRel, Less
<1>1. PICK n \in Nat \ S : \A m \in Nat \ S : ~ (<<m, n>> \in Less)
  BY <1>0, WFMin
<1>2. \A m \in Nat : m < n => m \in S
  BY <1>1 DEF Less
<1>3. n - 1 \in Nat /\ n - 1 < n
  BY <1>1
<1>4. n - 1 \in S
  BY <1>2, <1>3
<1> QED BY <1>1, <1>3, <1>4

\* The library's Max, which its folds take elements by.
LEMMA MaxExists ==
  \A n \in Nat : \A s \in SUBSET (1 .. n) :
    s # {} => \E x \in s : \A y \in s : x >= y
<1> DEFINE HasMax(s) == \E x \in s : \A y \in s : x >= y
           P == {n \in Nat : \A s \in SUBSET (1 .. n) : s # {} => HasMax(s)}
<1>1. 0 \in P
  BY 1 .. 0 = {}
<1>2. ASSUME NEW n \in Nat, n \in P PROVE n + 1 \in P
  <2> SUFFICES ASSUME NEW s \in SUBSET (1 .. n + 1), s # {} PROVE HasMax(s)
    BY <1>2
  <2>1. CASE n + 1 \in s
    <3>1. \A y \in s : n + 1 >= y
      OBVIOUS
    <3> QED BY <2>1, <3>1
  <2>2. CASE n + 1 \notin s
    <3>1. s \in SUBSET (1 .. n)
      BY <2>2
    <3> QED BY <3>1, <1>2
  <2> QED BY <2>1, <2>2
<1>3. \A n \in Nat : n \in P
  <2> HIDE DEF P
  <2> QED BY <1>1, <1>2, NatInd
<1> QED BY <1>3

LEMMA MaxProperties ==
  ASSUME NEW n \in Nat, NEW s \in SUBSET (1 .. n), s # {}
  PROVE  Max(s) \in s /\ \A y \in s : Max(s) >= y
<1>1. \E x \in s : \A y \in s : x >= y
  BY MaxExists
<1> QED BY <1>1, Zenon DEF Max

LEMMA MaxInterval == ASSUME NEW n \in Nat \ {0} PROVE Max(1 .. n) = n
<1>1. 1 .. n \in SUBSET (1 .. n) /\ n \in 1 .. n
  OBVIOUS
<1>2. Max(1 .. n) \in 1 .. n /\ Max(1 .. n) >= n
  BY <1>1, MaxProperties
<1> QED BY <1>2

\* A fold over 1 .. n, which takes the largest of the rest at each step, has a
\* value for every set of positions.
FoldStep(it, x0, F, s) == IF s = {} THEN x0 ELSE F[<<Max(s), it[s \ {Max(s)}]>>]

IsFold(it, n, X, x0, F) ==
  /\ it \in [SUBSET (1 .. n) -> X]
  /\ \A s \in SUBSET (1 .. n) : it[s] = FoldStep(it, x0, F, s)

LEMMA FoldExists ==
  ASSUME NEW n \in Nat, NEW X, NEW x0 \in X, NEW F \in [(1 .. n) \X X -> X]
  PROVE  \E it : IsFold(it, n, X, x0, F)
<1> DEFINE Is(it, m) == IsFold(it, m, X, x0, F)
           Exists(m) == \E it : Is(it, m)
           P == {m \in Nat : m <= n => Exists(m)}
<1>1. 0 \in P
  <2>1. Is([s \in SUBSET (1 .. 0) |-> x0], 0)
    BY DEF IsFold, FoldStep
  <2> QED BY <2>1
<1>2. ASSUME NEW m \in Nat, m \in P PROVE m + 1 \in P
  <2> HIDE DEF Exists
  <2> SUFFICES ASSUME m + 1 <= n PROVE Exists(m + 1)
    OBVIOUS
  <2>0. Exists(m)
    BY <1>2
  <2> HIDE DEF P
  <2>1. PICK g : Is(g, m)
    BY <2>0 DEF Exists
  <2> DEFINE h == [s \in SUBSET (1 .. m + 1) |->
                     IF m + 1 \in s THEN F[<<m + 1, g[s \ {m + 1}]>>] ELSE g[s]]
  <2>2. \A s \in SUBSET (1 .. m + 1) : (s \ {m + 1}) \in SUBSET (1 .. m)
    OBVIOUS
  <2>3. h \in [SUBSET (1 .. m + 1) -> X]
    <3>1. ASSUME NEW s \in SUBSET (1 .. m + 1), m + 1 \in s
          PROVE  F[<<m + 1, g[s \ {m + 1}]>>] \in X
      <4>1. g[s \ {m + 1}] \in X
        BY <2>1, <2>2 DEF IsFold
      <4>2. m + 1 \in 1 .. n
        OBVIOUS
      <4> QED BY <4>1, <4>2
    <3>2. ASSUME NEW s \in SUBSET (1 .. m + 1), m + 1 \notin s PROVE g[s] \in X
      BY <2>1, <2>2, <3>2, s = s \ {m + 1} DEF IsFold
    <3> QED BY <3>1, <3>2
  <2>4. ASSUME NEW s \in SUBSET (1 .. m + 1) PROVE h[s] = FoldStep(h, x0, F, s)
    <3>1. CASE m + 1 \in s
      <4>1. Max(s) = m + 1
        <5>0. m + 1 \in Nat /\ s # {}
          BY <3>1
        <5>1. Max(s) \in s /\ Max(s) >= m + 1
          BY <3>1, <5>0, MaxProperties
        <5>2. Max(s) \in 1 .. m + 1
          BY <5>1
        <5> QED BY <5>1, <5>2
      <4>2. h[s \ {m + 1}] = g[s \ {m + 1}]
        BY <2>2
      <4> QED BY <3>1, <4>1, <4>2 DEF IsFold, FoldStep
    <3>2. CASE m + 1 \notin s
      <4>1. s \in SUBSET (1 .. m)
        BY <3>2
      <4>2. g[s] = FoldStep(g, x0, F, s) /\ h[s] = g[s]
        BY <2>1, <4>1, <3>2 DEF IsFold
      <4>3. (s \ {Max(s)}) \in SUBSET (1 .. m) /\ m + 1 \notin (s \ {Max(s)})
        BY <4>1, <3>2
      <4>4. h[s \ {Max(s)}] = g[s \ {Max(s)}]
        BY <4>3
      <4> QED BY <4>2, <4>4 DEF IsFold, FoldStep
    <3> QED BY <3>1, <3>2
  <2> HIDE DEF h
  <2> QED BY <2>3, <2>4 DEF Exists, IsFold
<1>3. n \in P
  <2> HIDE DEF P
  <2> QED BY <1>1, <1>2, NatInd
<1>4. Exists(n)
  <2> HIDE DEF Exists
  <2> QED BY <1>3
<1> QED BY <1>4

-----------------------------------------------------------------------------
(* The bytes of a chunk                                                     *)

\* Bytes with the sizes as a parameter.
BytesOf(sz, c) == FoldLeft(LAMBDA n, w : n + sz[w], 0, c)

LEMMA BytesIsBytesOf == ASSUME NEW c PROVE Bytes(c) = BytesOf(size, c)
BY DEF Bytes, BytesOf, FoldLeft, MapThenFoldSet

BytesFold(it, sz, c) ==
  it = [s \in SUBSET DOMAIN c |->
          IF s = {} THEN 0 ELSE it[s \ {Max(s)}] + sz[c[Max(s)]]]

LEMMA BytesFoldExists ==
  ASSUME NEW sz \in [Writes -> Nat], NEW c \in Seq(Writes)
  PROVE  \E it \in [SUBSET (1 .. Len(c)) -> Nat] : BytesFold(it, sz, c)
<1> DEFINE F == [p \in (1 .. Len(c)) \X Nat |-> p[2] + sz[c[p[1]]]]
<1>1. F \in [(1 .. Len(c)) \X Nat -> Nat]
  OBVIOUS
<1>2. \A i \in 1 .. Len(c), x \in Nat : F[<<i, x>>] = x + sz[c[i]]
  OBVIOUS
<1>3. Len(c) \in Nat /\ DOMAIN c = 1 .. Len(c)
  OBVIOUS
<1> HIDE DEF F
<1>4. PICK it : IsFold(it, Len(c), Nat, 0, F)
  <2>1. 0 \in Nat
    OBVIOUS
  <2> QED BY <1>1, <1>3, <2>1, FoldExists
<1>5. ASSUME NEW s \in SUBSET (1 .. Len(c)), s # {}
      PROVE  it[s] = it[s \ {Max(s)}] + sz[c[Max(s)]]
  <2>1. Max(s) \in 1 .. Len(c)
    BY <1>3, <1>5, MaxProperties
  <2>2. it[s \ {Max(s)}] \in Nat
    BY <1>4 DEF IsFold
  <2> QED BY <1>2, <1>4, <1>5, <2>1, <2>2 DEF IsFold, FoldStep
<1>6. \A s \in SUBSET (1 .. Len(c)) :
        it[s] = IF s = {} THEN 0 ELSE it[s \ {Max(s)}] + sz[c[Max(s)]]
  BY <1>4, <1>5 DEF IsFold, FoldStep
<1> QED BY <1>3, <1>4, <1>6 DEF IsFold, BytesFold

\* Bytes as a function of how many writes of the chunk are counted.
BytesTo(sz, c) == CHOOSE it : BytesFold(it, sz, c)

LEMMA BytesToStep ==
  ASSUME NEW sz \in [Writes -> Nat], NEW c \in Seq(Writes)
  PROVE  /\ BytesOf(sz, c) = BytesTo(sz, c)[1 .. Len(c)]
         /\ BytesTo(sz, c)[1 .. 0] = 0
         /\ \A n \in 1 .. Len(c) :
              BytesTo(sz, c)[1 .. n] = BytesTo(sz, c)[1 .. n - 1] + sz[c[n]]
<1>1. BytesFold(BytesTo(sz, c), sz, c)
  BY BytesFoldExists DEF BytesTo
<1>2. DOMAIN c = 1 .. Len(c) /\ Len(c) \in Nat
  OBVIOUS
<1>3. BytesOf(sz, c) = BytesTo(sz, c)[1 .. Len(c)]
  BY <1>2 DEF BytesOf, FoldLeft, MapThenFoldSet, BytesTo, BytesFold
<1>4. \A s \in SUBSET (1 .. Len(c)) :
        BytesTo(sz, c)[s] = IF s = {} THEN 0
                        ELSE BytesTo(sz, c)[s \ {Max(s)}] + sz[c[Max(s)]]
  BY <1>1, <1>2 DEF BytesFold
<1>5. BytesTo(sz, c)[1 .. 0] = 0
  BY <1>4, 1 .. 0 = {}
<1>6. ASSUME NEW n \in 1 .. Len(c)
      PROVE  BytesTo(sz, c)[1 .. n] = BytesTo(sz, c)[1 .. n - 1] + sz[c[n]]
  <2>1. n \in Nat \ {0} /\ 1 .. n \in SUBSET (1 .. Len(c)) /\ 1 .. n # {}
    <3>1. n \in Nat \ {0} /\ n <= Len(c) /\ n \in 1 .. n
      BY <1>2
    <3>2. 1 .. n \in SUBSET (1 .. Len(c))
      BY <1>2, <3>1
    <3> QED BY <3>1, <3>2
  <2>2. Max(1 .. n) = n
    BY <2>1, MaxInterval
  <2>3. (1 .. n) \ {n} = 1 .. n - 1
    OBVIOUS
  <2> QED BY <1>4, <2>1, <2>2, <2>3
<1> QED BY <1>3, <1>5, <1>6

\* A write added to a chunk adds its size.
LEMMA BytesAppend ==
  ASSUME NEW sz \in [Writes -> Nat], NEW c \in Seq(Writes), NEW w \in Writes
  PROVE  BytesOf(sz, Append(c, w)) = BytesOf(sz, c) + sz[w]
<1> DEFINE d == Append(c, w)
           P == {n \in Nat : n <= Len(c) => BytesTo(sz, d)[1 .. n] = BytesTo(sz, c)[1 .. n]}
<1>1. /\ d \in Seq(Writes) /\ Len(d) = Len(c) + 1 /\ d[Len(c) + 1] = w
      /\ Len(c) \in Nat /\ \A n \in 1 .. Len(c) : d[n] = c[n]
  BY AppendProperties
<1> HIDE DEF d
<1>2. 0 \in P
  BY <1>1, BytesToStep
<1>3. ASSUME NEW n \in Nat, n \in P PROVE n + 1 \in P
  <2> SUFFICES ASSUME n + 1 <= Len(c)
               PROVE  BytesTo(sz, d)[1 .. n + 1] = BytesTo(sz, c)[1 .. n + 1]
    OBVIOUS
  <2>1. n + 1 \in 1 .. Len(c) /\ n + 1 \in 1 .. Len(d) /\ (n + 1) - 1 = n /\ n <= Len(c)
    BY <1>1
  <2>2. BytesTo(sz, d)[1 .. n] = BytesTo(sz, c)[1 .. n]
    BY <1>3, <2>1
  <2>3. BytesTo(sz, d)[1 .. n + 1] = BytesTo(sz, d)[1 .. n] + sz[d[n + 1]]
    <3>1. \A k \in 1 .. Len(d) :
            BytesTo(sz, d)[1 .. k] = BytesTo(sz, d)[1 .. k - 1] + sz[d[k]]
      BY <1>1, BytesToStep
    <3> QED BY <2>1, <3>1
  <2>4. BytesTo(sz, c)[1 .. n + 1] = BytesTo(sz, c)[1 .. n] + sz[c[n + 1]]
    BY <2>1, BytesToStep
  <2>5. d[n + 1] = c[n + 1]
    BY <1>1, <2>1
  <2> HIDE DEF P
  <2> QED BY <2>2, <2>3, <2>4, <2>5
<1>4. Len(c) \in P
  <2> HIDE DEF P
  <2> QED BY <1>1, <1>2, <1>3, NatInd
<1>5. BytesTo(sz, d)[1 .. Len(c)] = BytesTo(sz, c)[1 .. Len(c)]
  BY <1>1, <1>4
<1>6. BytesOf(sz, d) = BytesTo(sz, d)[1 .. Len(c)] + sz[w]
  <2>1. Len(c) + 1 \in 1 .. Len(d) /\ (Len(c) + 1) - 1 = Len(c)
    BY <1>1
  <2> QED BY <1>1, <2>1, BytesToStep
<1>7. BytesOf(sz, c) = BytesTo(sz, c)[1 .. Len(c)]
  BY BytesToStep
<1> QED BY <1>5, <1>6, <1>7 DEF d

-----------------------------------------------------------------------------
(* splitIntoChunks                                                          *)

\* One write of the buffer is put into its chunk.
PutInto(cs, w) ==
  IF cs # <<>> /\ BytesOf(size, Last(cs)) + size[w] <= ChunkMaxBytes
  THEN [cs EXCEPT ![Len(cs)] = Append(@, w)] ELSE Append(cs, <<w>>)

SplitFold(it, s) ==
  it = [u \in SUBSET DOMAIN s |->
          IF u = {} THEN <<>> ELSE PutInto(it[u \ {Max(u)}], s[Max(u)])]

SplitTo(s) == CHOOSE it : SplitFold(it, s)

LEMMA PutIntoType ==
  ASSUME NEW cs \in Seq(Seq(Writes)), NEW w \in Writes
  PROVE  PutInto(cs, w) \in Seq(Seq(Writes))
<1>1. <<w>> \in Seq(Writes)
  OBVIOUS
<1>2. ASSUME cs # <<>> PROVE [cs EXCEPT ![Len(cs)] = Append(@, w)] \in Seq(Seq(Writes))
  <2>1. Len(cs) \in 1 .. Len(cs) /\ cs[Len(cs)] \in Seq(Writes)
    BY <1>2
  <2>2. Append(cs[Len(cs)], w) \in Seq(Writes)
    BY <2>1
  <2> QED BY <2>1, <2>2, ExceptSeq
<1> QED BY <1>1, <1>2 DEF PutInto

LEMMA SplitFoldExists ==
  ASSUME NEW s \in Seq(Writes)
  PROVE  \E it \in [SUBSET (1 .. Len(s)) -> Seq(Seq(Writes))] : SplitFold(it, s)
<1> DEFINE X == Seq(Seq(Writes))
           F == [p \in (1 .. Len(s)) \X X |-> PutInto(p[2], s[p[1]])]
<1>1. F \in [(1 .. Len(s)) \X X -> X]
  <2>1. ASSUME NEW p \in (1 .. Len(s)) \X X PROVE PutInto(p[2], s[p[1]]) \in X
    <3>1. p[2] \in X /\ s[p[1]] \in Writes
      OBVIOUS
    <3> QED BY <3>1, PutIntoType
  <2> QED BY <2>1
<1>2. \A i \in 1 .. Len(s), x \in X : F[<<i, x>>] = PutInto(x, s[i])
  OBVIOUS
<1>3. Len(s) \in Nat /\ DOMAIN s = 1 .. Len(s) /\ <<>> \in X
  OBVIOUS
<1> HIDE DEF F, X
<1>4. PICK it : IsFold(it, Len(s), X, <<>>, F)
  BY <1>1, <1>3, FoldExists
<1>5. ASSUME NEW u \in SUBSET (1 .. Len(s)), u # {}
      PROVE  it[u] = PutInto(it[u \ {Max(u)}], s[Max(u)])
  <2>1. Max(u) \in 1 .. Len(s)
    BY <1>3, <1>5, MaxProperties
  <2>2. it[u \ {Max(u)}] \in X
    BY <1>4 DEF IsFold
  <2> QED BY <1>2, <1>4, <1>5, <2>1, <2>2 DEF IsFold, FoldStep
<1>6. \A u \in SUBSET (1 .. Len(s)) :
        it[u] = IF u = {} THEN <<>> ELSE PutInto(it[u \ {Max(u)}], s[Max(u)])
  BY <1>4, <1>5 DEF IsFold, FoldStep
<1> QED BY <1>3, <1>4, <1>6 DEF IsFold, SplitFold, X

LEMMA SplitToStep ==
  ASSUME NEW s \in Seq(Writes)
  PROVE  /\ SplitIntoChunks(s) = SplitTo(s)[1 .. Len(s)]
         /\ SplitTo(s)[1 .. 0] = <<>>
         /\ \A n \in 1 .. Len(s) :
              SplitTo(s)[1 .. n] = PutInto(SplitTo(s)[1 .. n - 1], s[n])
<1>1. SplitFold(SplitTo(s), s)
  BY SplitFoldExists DEF SplitTo
<1>2. DOMAIN s = 1 .. Len(s) /\ Len(s) \in Nat
  OBVIOUS
<1>3. SplitIntoChunks(s) = SplitTo(s)[1 .. Len(s)]
  BY <1>2 DEF SplitIntoChunks, FoldLeft, MapThenFoldSet, SplitTo, SplitFold, PutInto,
              Bytes, BytesOf
<1>4. \A u \in SUBSET (1 .. Len(s)) :
        SplitTo(s)[u] = IF u = {} THEN <<>>
                        ELSE PutInto(SplitTo(s)[u \ {Max(u)}], s[Max(u)])
  BY <1>1, <1>2 DEF SplitFold
<1>5. SplitTo(s)[1 .. 0] = <<>>
  BY <1>4, 1 .. 0 = {}
<1>6. ASSUME NEW n \in 1 .. Len(s)
      PROVE  SplitTo(s)[1 .. n] = PutInto(SplitTo(s)[1 .. n - 1], s[n])
  <2>1. n \in Nat \ {0} /\ 1 .. n \in SUBSET (1 .. Len(s)) /\ 1 .. n # {}
    <3>1. n \in Nat \ {0} /\ n <= Len(s) /\ n \in 1 .. n
      BY <1>2
    <3>2. 1 .. n \in SUBSET (1 .. Len(s))
      BY <1>2, <3>1
    <3> QED BY <3>1, <3>2
  <2>2. Max(1 .. n) = n
    BY <2>1, MaxInterval
  <2>3. (1 .. n) \ {n} = 1 .. n - 1
    OBVIOUS
  <2> QED BY <1>4, <2>1, <2>2, <2>3
<1> QED BY <1>3, <1>5, <1>6

\* Chunks that hold the first n writes of s, each once, and keep to the limit.
Cut(n, s, cs) ==
  /\ cs \in Seq(Seq(Writes))
  /\ \A i \in 1 .. Len(cs) :
       /\ cs[i] # <<>>
       /\ ToSet(cs[i]) \subseteq {s[j] : j \in 1 .. n}
       /\ Len(cs[i]) > 1 => BytesOf(size, cs[i]) <= ChunkMaxBytes
  /\ \A i, k \in 1 .. Len(cs) : ToSet(cs[i]) \cap ToSet(cs[k]) # {} => i = k
  /\ \A j \in 1 .. n : \E i \in 1 .. Len(cs) : s[j] \in ToSet(cs[i])

LEMMA ToSetAppend ==
  ASSUME NEW S, NEW c \in Seq(S), NEW w \in S
  PROVE  ToSet(Append(c, w)) = ToSet(c) \cup {w}
<1> DEFINE d == Append(c, w)
<1>1. /\ Len(c) \in Nat /\ Len(d) = Len(c) + 1 /\ d[Len(c) + 1] = w
      /\ \A i \in 1 .. Len(c) : d[i] = c[i]
      /\ DOMAIN d = 1 .. Len(d) /\ DOMAIN c = 1 .. Len(c)
  BY AppendProperties, LenProperties
<1> HIDE DEF d
<1>2. DOMAIN d = DOMAIN c \cup {Len(c) + 1}
  BY <1>1
<1>3. {d[i] : i \in DOMAIN d} = {c[i] : i \in DOMAIN c} \cup {w}
  BY <1>1, <1>2
<1> QED BY <1>3 DEF ToSet, d

LEMMA ToSetSeq ==
  ASSUME NEW S, NEW c \in Seq(S)
  PROVE  ToSet(c) = {c[i] : i \in 1 .. Len(c)} /\ ToSet(c) \subseteq S
BY DEF ToSet

LEMMA CutStep ==
  ASSUME size \in [Writes -> Nat], ChunkMaxBytes \in Nat, NEW s \in Seq(Writes),
         \A i, j \in 1 .. Len(s) : s[i] = s[j] => i = j,
         NEW n \in Nat, n + 1 <= Len(s), NEW cs, Cut(n, s, cs)
  PROVE  Cut(n + 1, s, PutInto(cs, s[n + 1]))
<1> DEFINE w == s[n + 1]
           L == Len(cs)
           ds == PutInto(cs, w)
<1>1. w \in Writes /\ L \in Nat /\ cs \in Seq(Seq(Writes)) /\ <<w>> \in Seq(Writes)
  BY DEF Cut
<1>2. \A i \in 1 .. L : w \notin ToSet(cs[i])
  <2>1. w \notin {s[j] : j \in 1 .. n}
    <3>1. ASSUME NEW j \in 1 .. n PROVE w # s[j]
      <4>1. j \in 1 .. Len(s) /\ n + 1 \in 1 .. Len(s) /\ j # n + 1
        OBVIOUS
      <4> QED BY <4>1
    <3> QED BY <3>1
  <2> QED BY <2>1 DEF Cut
<1>3. {s[j] : j \in 1 .. n + 1} = {s[j] : j \in 1 .. n} \cup {w}
  OBVIOUS
<1>4. CASE cs # <<>> /\ BytesOf(size, Last(cs)) + size[w] <= ChunkMaxBytes
  <2> DEFINE c == cs[L]
             e == Append(c, w)
  <2>1. L \in 1 .. L /\ c \in Seq(Writes) /\ c # <<>>
    BY <1>1, <1>4 DEF Cut
  <2>2. /\ e \in Seq(Writes) /\ e # <<>> /\ ToSet(e) = ToSet(c) \cup {w}
        /\ BytesOf(size, e) = BytesOf(size, c) + size[w]
    <3> HIDE DEF c, w, L
    <3>1. ToSet(e) = ToSet(c) \cup {w}
      BY <1>1, <2>1, ToSetAppend
    <3>2. BytesOf(size, e) = BytesOf(size, c) + size[w]
      BY <1>1, <2>1, BytesAppend
    <3>3. e \in Seq(Writes) /\ e # <<>>
      <4> HIDE DEF ds
      <4>1. c \in Seq(Writes) /\ w \in Writes
        BY <1>1, <2>1
      <4>2. e \in Seq(Writes) /\ Len(e) = Len(c) + 1 /\ Len(c) \in Nat
        BY <4>1
      <4> HIDE DEF e
      <4>3. e # <<>>
        BY <4>2, EmptySeq
      <4> QED BY <4>2, <4>3
    <3> QED BY <3>1, <3>2, <3>3
  <2>3. BytesOf(size, e) <= ChunkMaxBytes
    BY <1>4, <2>2 DEF Last
  <2> HIDE DEF e
  <2>4. ds = [cs EXCEPT ![L] = e]
    BY <1>4 DEF PutInto, e
  <2>5. /\ ds \in Seq(Seq(Writes)) /\ Len(ds) = L
        /\ \A i \in 1 .. L : ds[i] = IF i = L THEN e ELSE cs[i]
    BY <1>1, <2>1, <2>2, <2>4, ExceptSeq
  <2> HIDE DEF ds, w, L
  <2>6. ASSUME NEW i \in 1 .. L
        PROVE  /\ ds[i] # <<>>
               /\ ToSet(ds[i]) \subseteq {s[j] : j \in 1 .. n + 1}
               /\ Len(ds[i]) > 1 => BytesOf(size, ds[i]) <= ChunkMaxBytes
    BY <1>3, <2>1, <2>2, <2>3, <2>5 DEF Cut, L
  <2>7. ASSUME NEW i \in 1 .. L, NEW k \in 1 .. L, ToSet(ds[i]) \cap ToSet(ds[k]) # {}
        PROVE  i = k
    <3> SUFFICES ASSUME i # k PROVE FALSE
      OBVIOUS
    <3>1. PICK x : x \in ToSet(ds[i]) /\ x \in ToSet(ds[k])
      BY <2>7
    <3>2. x \in ToSet(cs[i]) /\ x \in ToSet(cs[k])
      BY <1>2, <2>1, <2>2, <2>5, <3>1
    <3> QED BY <3>2 DEF Cut, L
  <2>8. ASSUME NEW j \in 1 .. n + 1
        PROVE  \E i \in 1 .. L : s[j] \in ToSet(ds[i])
    <3>1. CASE j = n + 1
      BY <2>1, <2>2, <2>5, <3>1 DEF w
    <3>2. CASE j # n + 1
      <4>1. j \in 1 .. n
        BY <3>2
      <4>2. PICK i \in 1 .. L : s[j] \in ToSet(cs[i])
        BY <4>1 DEF Cut, L
      <4> QED BY <4>2, <2>2, <2>5
    <3> QED BY <3>1, <3>2
  <2> QED BY <2>5, <2>6, <2>7, <2>8 DEF Cut, ds, w
<1>5. CASE ~ (cs # <<>> /\ BytesOf(size, Last(cs)) + size[w] <= ChunkMaxBytes)
  <2>1. ds = Append(cs, <<w>>)
    BY <1>5 DEF PutInto
  <2>2. /\ ds \in Seq(Seq(Writes)) /\ Len(ds) = L + 1
        /\ \A i \in 1 .. L : ds[i] = cs[i]
        /\ ds[L + 1] = <<w>>
    BY <1>1, <2>1, AppendProperties
  <2>3. ToSet(<<w>>) = {w} /\ <<w>> # <<>> /\ ~ (Len(<<w>>) > 1)
    BY DEF ToSet
  <2> HIDE DEF ds, w, L
  <2>4. \A i \in 1 .. L + 1 : i \in 1 .. L \/ i = L + 1
    BY <1>1
  <2>5. ASSUME NEW i \in 1 .. L + 1
        PROVE  /\ ds[i] # <<>>
               /\ ToSet(ds[i]) \subseteq {s[j] : j \in 1 .. n + 1}
               /\ Len(ds[i]) > 1 => BytesOf(size, ds[i]) <= ChunkMaxBytes
    <3>1. CASE i \in 1 .. L
      BY <1>3, <2>2, <3>1 DEF Cut, L
    <3>2. CASE i = L + 1
      BY <1>3, <2>2, <2>3, <3>2
    <3> QED BY <2>4, <3>1, <3>2
  <2>6. ASSUME NEW i \in 1 .. L + 1, NEW k \in 1 .. L + 1,
               ToSet(ds[i]) \cap ToSet(ds[k]) # {}
        PROVE  i = k
    <3>1. CASE i \in 1 .. L /\ k \in 1 .. L
      BY <2>2, <2>6, <3>1 DEF Cut, L
    <3>2. PICK x : x \in ToSet(ds[i]) /\ x \in ToSet(ds[k])
      BY <2>6
    <3>3. CASE i = L + 1 /\ k \in 1 .. L
      BY <1>2, <2>2, <2>3, <3>2, <3>3
    <3>4. CASE k = L + 1 /\ i \in 1 .. L
      BY <1>2, <2>2, <2>3, <3>2, <3>4
    <3> QED BY <2>4, <3>1, <3>3, <3>4
  <2>7. ASSUME NEW j \in 1 .. n + 1
        PROVE  \E i \in 1 .. L + 1 : s[j] \in ToSet(ds[i])
    <3>1. CASE j = n + 1
      <4>1. L + 1 \in 1 .. L + 1 /\ s[j] = w
        BY <1>1, <3>1 DEF w
      <4> QED BY <2>2, <2>3, <4>1
    <3>2. CASE j # n + 1
      <4>1. j \in 1 .. n
        BY <3>2
      <4>2. PICK i \in 1 .. L : s[j] \in ToSet(cs[i])
        BY <4>1 DEF Cut, L
      <4>3. i \in 1 .. L + 1
        BY <1>1
      <4> QED BY <4>2, <4>3, <2>2
    <3> QED BY <3>1, <3>2
  <2> QED BY <2>2, <2>5, <2>6, <2>7 DEF Cut, ds, w
<1> QED BY <1>4, <1>5

\* splitIntoChunks puts every write of the buffer into one chunk, and only one,
\* opens no empty chunk, and keeps a chunk of several writes to the limit.
THEOREM SplitIsCut ==
  ASSUME size \in [Writes -> Nat], ChunkMaxBytes \in Nat, NEW s \in Seq(Writes),
         \A i, j \in 1 .. Len(s) : s[i] = s[j] => i = j
  PROVE  Cut(Len(s), s, SplitIntoChunks(s))
<1> DEFINE P == {n \in Nat : n <= Len(s) => Cut(n, s, SplitTo(s)[1 .. n])}
<1>1. 0 \in P
  <2>1. Cut(0, s, <<>>)
    BY DEF Cut
  <2> QED BY <2>1, SplitToStep
<1>2. ASSUME NEW n \in Nat, n \in P PROVE n + 1 \in P
  <2> SUFFICES ASSUME n + 1 <= Len(s) PROVE Cut(n + 1, s, SplitTo(s)[1 .. n + 1])
    OBVIOUS
  <2>1. n + 1 \in 1 .. Len(s) /\ (n + 1) - 1 = n /\ n <= Len(s)
    OBVIOUS
  <2>2. Cut(n, s, SplitTo(s)[1 .. n])
    BY <1>2, <2>1
  <2>3. SplitTo(s)[1 .. n + 1] = PutInto(SplitTo(s)[1 .. n], s[n + 1])
    <3>1. \A k \in 1 .. Len(s) :
            SplitTo(s)[1 .. k] = PutInto(SplitTo(s)[1 .. k - 1], s[k])
      BY SplitToStep
    <3> QED BY <2>1, <3>1
  <2> HIDE DEF P
  <2> QED BY <2>2, <2>3, CutStep
<1>3. Len(s) \in P
  <2> HIDE DEF P
  <2> QED BY <1>1, <1>2, NatInd, Len(s) \in Nat
<1> QED BY <1>3, SplitToStep

-----------------------------------------------------------------------------
(* The course of a write, from the buffer to its answer                     *)

UploadRecords == [of : Writes, via : {"batch", "single"}, try : Nat, landed : BOOLEAN]
Phases == {"none", "waiting", "batch", "single"} \cup Settled

Types ==
  /\ path \in [Writes -> Files] /\ size \in [Writes -> Nat]
  /\ phase \in [Writes -> Phases]
  /\ tries \in [Writes -> 0 .. WriteMaxRetries]
  /\ pending \in Seq(Writes) /\ chunk \in [Writes -> Seq(Writes)]
  /\ req \in [Writes -> {"none", "sent", "serving", "over"}]
  /\ result \in [Writes -> {"none", "ok", "bad"}]
  /\ uploads \subseteq UploadRecords
  /\ file \in [Files -> Nat]
  /\ past \in [stored : SUBSET Writes, alone : SUBSET Writes, abandoned : Nat]

\* The buffer holds each write that waits, once.
Queued ==
  /\ \A i, j \in 1 .. Len(pending) : pending[i] = pending[j] => i = j
  /\ ToSet(pending) = {w \in Writes : phase[w] = "waiting"}

\* Nothing has happened to a write that is not in a batch yet.
NotBegun ==
  \A w \in Writes :
    /\ phase[w] \in {"none", "waiting"} => result[w] = "none" /\ w \notin past.stored
    /\ phase[w] \in {"none", "waiting", "batch"} => tries[w] = 0

\* A chunk keeps to the limit, shares no write with another, and its writes
\* are on their way in it as long as its request is.
Chunked ==
  \A h \in Writes :
    /\ Len(chunk[h]) > 1 => BytesOf(size, chunk[h]) <= ChunkMaxBytes
    /\ \A g \in Writes : Members(h) \cap Members(g) # {} => h = g
    /\ \A w \in Members(h) :
         /\ phase[w] \notin {"none", "waiting"}
         /\ req[h] \in {"sent", "serving"} => phase[w] = "batch"
         /\ req[h] = "sent" => result[w] = "none"

\* A chunk goes by a write of its own.
Headed == \A h \in Writes : req[h] # "none" => h \in Members(h)

\* An upload has attempts left, and what it is for has begun.
Uploading ==
  \A u \in uploads :
    /\ u.try <= IF u.via = "batch" THEN RetryMaxAttempts ELSE WriteMaxRetries
    /\ u.via = "batch" => \E h \in Writes : u.of \in Members(h) /\ req[h] \in {"serving", "over"}
    /\ u.via = "single" => phase[u.of] \in {"single"} \cup Settled

\* Until a request is given up, an upload is the only one of its write, and
\* somebody waits for it.
Calm ==
  past.abandoned = 0 =>
    /\ \A u \in uploads : IF u.via = "batch" THEN phase[u.of] = "batch" /\ result[u.of] = "none"
                          ELSE Current(u)
    /\ \A u, v \in uploads : u.of = v.of => u = v

\* A write that was alone on its file when it began: those before it are
\* settled, and once it is stored the file holds it until another one begins.
AloneHolds ==
  past.abandoned = 0 =>
    \A w \in past.alone :
      /\ phase[w] # "none"
      /\ \A v \in 1 .. w - 1 : path[v] = path[w] => phase[v] \in Settled
      /\ w \in past.stored
         /\ (\A v \in w + 1 .. NumWrites : path[v] = path[w] => phase[v] = "none")
         => file[path[w]] = w

\* The inductive invariant of a write's course.
Course ==
  /\ Types /\ Queued /\ NotBegun /\ Chunked /\ Headed /\ Uploading /\ Calm
  /\ AloneHolds
  /\ NobodyIsForgotten

LEMMA InitCourse == Init => Course
<1> SUFFICES ASSUME Init PROVE Course
  OBVIOUS
<1> USE DEF Init
<1>1. Types
  <2>1. size \in [Writes -> Nat]
    BY LimitsAssumption
  <2>2. <<>> \in Seq(Writes) /\ 0 \in 0 .. WriteMaxRetries
    BY LimitsAssumption
  <2>3. /\ phase \in [Writes -> Phases] /\ req \in [Writes -> {"none", "sent", "serving", "over"}]
        /\ result \in [Writes -> {"none", "ok", "bad"}]
        /\ tries \in [Writes -> 0 .. WriteMaxRetries]
        /\ chunk \in [Writes -> Seq(Writes)] /\ pending \in Seq(Writes)
    BY <2>2 DEF Phases
  <2>4. /\ path \in [Writes -> Files] /\ uploads \subseteq UploadRecords
        /\ file \in [Files -> Nat]
        /\ past \in [stored : SUBSET Writes, alone : SUBSET Writes, abandoned : Nat]
    OBVIOUS
  <2> QED BY <2>1, <2>3, <2>4 DEF Types
<1>2. Queued
  <2>1. ToSet(<<>>) = {}
    BY DEF ToSet
  <2> QED BY <2>1 DEF Queued
<1>3. \A h \in Writes : Members(h) = {} /\ ~ (Len(chunk[h]) > 1)
  <2>1. ToSet(<<>>) = {}
    BY DEF ToSet
  <2> QED BY <2>1 DEF Members
<1>4. /\ NotBegun /\ Chunked /\ Headed /\ Uploading /\ Calm /\ AloneHolds
      /\ NobodyIsForgotten
  BY <1>3 DEF NotBegun, Chunked, Headed, Uploading, Calm, AloneHolds, NobodyIsForgotten
<1> QED BY <1>1, <1>2, <1>4 DEF Course

\* What a step leaves alone.
LEMMA SameMembers == chunk' = chunk => \A h : Members(h)' = Members(h)
BY DEF Members

LEMMA EnqueueCourse == ASSUME Course, NEW w \in Writes, Enqueue(w) PROVE Course'
<1> USE DEF Course
<1>1. /\ phase[w] = "none" /\ phase' = [phase EXCEPT ![w] = "waiting"]
      /\ \A v \in 1 .. w - 1 : phase[v] # "none"
      /\ pending' = Append(pending, w)
      /\ past' = past \/ (/\ past' = [past EXCEPT !.alone = @ \cup {w}]
                          /\ \A v \in 1 .. w - 1 : path[v] = path[w] => phase[v] \in Settled)
      /\ UNCHANGED <<path, size, tries, chunk, req, result, uploads, file>>
  BY DEF Enqueue
<1>2. Types'
  <2>1. phase' \in [Writes -> Phases]
    BY <1>1 DEF Types, Phases
  <2>2. pending' \in Seq(Writes)
    BY <1>1 DEF Types
  <2>3. past' \in [stored : SUBSET Writes, alone : SUBSET Writes, abandoned : Nat]
    <3>1. past \in [stored : SUBSET Writes, alone : SUBSET Writes, abandoned : Nat]
      BY DEF Types
    <3>2. [past EXCEPT !.alone = @ \cup {w}]
            \in [stored : SUBSET Writes, alone : SUBSET Writes, abandoned : Nat]
      BY <3>1
    <3> QED BY <1>1, <3>1, <3>2
  <2> QED BY <1>1, <2>1, <2>2, <2>3 DEF Types
<1>3. \A h : Members(h)' = Members(h)
  BY <1>1, SameMembers
<1>4. Queued'
  <2>1. w \notin ToSet(pending) /\ ToSet(pending') = ToSet(pending) \cup {w}
    BY <1>1, ToSetAppend DEF Types, Queued
  <2>2. /\ Len(pending') = Len(pending) + 1 /\ Len(pending) \in Nat
        /\ \A i \in 1 .. Len(pending) : pending'[i] = pending[i] /\ pending[i] # w
        /\ pending'[Len(pending) + 1] = w
    <3>1. pending \in Seq(Writes) /\ w \in Writes
      BY DEF Types
    <3>2. \A i \in 1 .. Len(pending) : pending[i] \in ToSet(pending)
      BY <3>1, ToSetSeq
    <3> QED BY <1>1, <2>1, <3>1, <3>2, AppendProperties
  <2>3. \A i \in 1 .. Len(pending') : i \in 1 .. Len(pending) \/ i = Len(pending) + 1
    BY <2>2
  <2>4. \A i, j \in 1 .. Len(pending') : pending'[i] = pending'[j] => i = j
    BY <2>2, <2>3 DEF Queued
  <2>5. ToSet(pending') = {v \in Writes : phase'[v] = "waiting"}
    BY <1>1, <2>1 DEF Queued, Types
  <2> QED BY <2>4, <2>5 DEF Queued
<1>5. past'.stored = past.stored /\ past'.abandoned = past.abandoned
  BY <1>1 DEF Types
<1>6. NotBegun'
  BY <1>1, <1>5 DEF NotBegun, Types
<1>7. Chunked' /\ Headed'
  BY <1>1, <1>3 DEF Chunked, Headed, Types
<1>8. Uploading'
  BY <1>1, <1>3 DEF Uploading, Types, Settled, UploadRecords
<1>9. Calm'
  BY <1>1, <1>5 DEF Calm, Types, Current, UploadRecords
<1>10. AloneHolds'
  <2> SUFFICES ASSUME past.abandoned = 0, NEW x \in past'.alone
               PROVE  /\ phase'[x] # "none"
                      /\ \A v \in 1 .. x - 1 : path[v] = path[x] => phase'[v] \in Settled
                      /\ x \in past.stored
                         /\ (\A v \in x + 1 .. NumWrites :
                               path[v] = path[x] => phase'[v] = "none")
                         => file[path[x]] = x
    BY <1>1, <1>5 DEF AloneHolds
  <2>1. CASE x = w
    BY <1>1, <2>1 DEF Types, AloneHolds, NotBegun, Writes, Settled
  <2>2. CASE x # w
    <3>1. x \in past.alone /\ x \in Writes
      BY <1>1, <2>2 DEF Types
    <3>2. /\ phase[x] # "none"
          /\ \A v \in 1 .. x - 1 : path[v] = path[x] => phase[v] \in Settled
          /\ x \in past.stored
             /\ (\A v \in x + 1 .. NumWrites : path[v] = path[x] => phase[v] = "none")
             => file[path[x]] = x
      BY <3>1 DEF AloneHolds
    <3>3. \A v \in Writes : phase'[v] # phase[v] => v = w
      BY <1>1 DEF Types
    <3>4. \A v \in 1 .. x - 1 : v \in Writes
      BY <3>1, LimitsAssumption DEF Writes
    <3>5. \A v \in x + 1 .. NumWrites : v \in Writes
      BY <3>1, LimitsAssumption DEF Writes
    <3>6. phase'[x] # "none"
      BY <2>2, <3>1, <3>2, <3>3
    <3>7. \A v \in 1 .. x - 1 : path[v] = path[x] => phase'[v] \in Settled
      BY <1>1, <3>2, <3>3, <3>4 DEF Settled
    <3>8. (\A v \in x + 1 .. NumWrites : path[v] = path[x] => phase'[v] = "none")
          => (\A v \in x + 1 .. NumWrites : path[v] = path[x] => phase[v] = "none")
      BY <1>1, <3>3, <3>5
    <3> QED BY <3>2, <3>6, <3>7, <3>8
  <2> QED BY <2>1, <2>2
<1>11. NobodyIsForgotten'
  BY <1>1, <1>3 DEF NobodyIsForgotten, Types, Current, UploadRecords
<1> QED BY <1>2, <1>4, <1>6, <1>7, <1>8, <1>9, <1>10, <1>11

-----------------------------------------------------------------------------
\* A write of a chunk has an upload only once its request is served.
LEMMA SentHasNoUploads ==
  ASSUME Course, NEW h \in Writes, req[h] = "sent"
  PROVE  \A u \in uploads : u.of \notin Members(h)
<1> SUFFICES ASSUME NEW u \in uploads, u.of \in Members(h) PROVE FALSE
  OBVIOUS
<1>1. phase[u.of] = "batch"
  BY DEF Course, Chunked
<1>2. u.via = "batch"
  BY <1>1 DEF Course, Types, UploadRecords, Uploading, Settled
<1>3. PICK g \in Writes : u.of \in Members(g) /\ req[g] \in {"serving", "over"}
  BY <1>2 DEF Course, Uploading
<1>4. g = h
  BY <1>3 DEF Course, Chunked
<1> QED BY <1>3, <1>4

\* The chunk h is over: its writes W go alone, its other writes are saved.
LEMMA FallbackCourse ==
  ASSUME Course, NEW h \in Writes, req[h] \in {"sent", "serving"},
         NEW W \in SUBSET Members(h), Over(h), Fallback(Members(h), W),
         past' = [past EXCEPT !.abandoned = past'.abandoned], past'.abandoned \in Nat,
         past'.abandoned = 0 =>
           past.abandoned = 0 /\ \A u \in uploads : u.of \notin Members(h),
         UNCHANGED <<path, size, tries, pending, chunk, result, file>>
  PROVE  Course'
<1> USE DEF Course
<1>1. /\ phase' = [w \in Writes |-> IF w \in W THEN "single"
                                    ELSE IF w \in Members(h) THEN "ok" ELSE phase[w]]
      /\ uploads' = uploads \cup {Upload(w, "single", 0) : w \in W}
      /\ req' = [req EXCEPT ![h] = "over"]
  BY DEF Fallback, Over
<1>2. /\ Members(h) \subseteq Writes
      /\ \A w \in Members(h) : phase[w] = "batch" /\ tries[w] = 0
  <2>1. Members(h) \subseteq Writes
    BY ToSetSeq DEF Types, Members
  <2> QED BY <2>1 DEF Chunked, NotBegun
<1>3. \A g : Members(g)' = Members(g)
  BY SameMembers
<1>4. \A w \in Writes : w \notin Members(h) => phase'[w] = phase[w]
  BY <1>1
<1>5. \A w \in Members(h) : phase'[w] = IF w \in W THEN "single" ELSE "ok"
  BY <1>1, <1>2
<1>6. /\ past'.stored = past.stored /\ past'.alone = past.alone
      /\ past' \in [stored : SUBSET Writes, alone : SUBSET Writes, abandoned : Nat]
  BY DEF Types
<1>7. \A x \in uploads' : x \in uploads \/ \E w \in W : x = Upload(w, "single", 0)
  BY <1>1
<1>8. \A w : /\ Upload(w, "single", 0).of = w /\ Upload(w, "single", 0).via = "single"
             /\ Upload(w, "single", 0).try = 0
  BY DEF Upload
<1>9. \A u \in uploads : u.of \in Writes /\ u.via \in {"batch", "single"}
  BY DEF Types, UploadRecords
<1>10. Types'
  <2>1. \A w \in W : Upload(w, "single", 0) \in UploadRecords
    BY <1>2 DEF Upload, UploadRecords
  <2>2. uploads' \subseteq UploadRecords
    BY <1>1, <2>1 DEF Types
  <2>3. phase' \in [Writes -> Phases]
    BY <1>1 DEF Types, Phases, Settled
  <2>4. req' \in [Writes -> {"none", "sent", "serving", "over"}]
    BY <1>1 DEF Types
  <2> QED BY <1>6, <2>2, <2>3, <2>4 DEF Types
<1>11. Queued'
  BY <1>2, <1>4, <1>5 DEF Queued
<1>12. NotBegun'
  BY <1>4, <1>5, <1>6 DEF NotBegun
<1>13. Chunked'
  <2> SUFFICES ASSUME NEW g \in Writes
               PROVE  /\ Len(chunk[g]) > 1 => BytesOf(size, chunk[g]) <= ChunkMaxBytes
                      /\ \A k \in Writes : Members(g) \cap Members(k) # {} => g = k
                      /\ \A w \in Members(g) :
                           /\ phase'[w] \notin {"none", "waiting"}
                           /\ req'[g] \in {"sent", "serving"} => phase'[w] = "batch"
                           /\ req'[g] = "sent" => result[w] = "none"
    BY <1>3 DEF Chunked
  <2>1. CASE g = h
    <3>1. req'[h] = "over"
      BY <1>1 DEF Types
    <3> QED BY <1>5, <2>1, <3>1 DEF Chunked
  <2>2. CASE g # h
    <3>0. Members(g) \subseteq Writes
      BY ToSetSeq DEF Types, Members
    <3>1. \A w \in Members(g) : w \in Writes /\ w \notin Members(h)
      BY <2>2, <3>0 DEF Chunked
    <3> QED BY <1>1, <1>4, <2>2, <3>1 DEF Chunked, Types
  <2> QED BY <2>1, <2>2
<1>18. Headed'
  BY <1>1, <1>3 DEF Headed, Types
<1>14. Uploading'
  <2>1. ASSUME NEW x \in uploads'
        PROVE  /\ x.try <= IF x.via = "batch" THEN RetryMaxAttempts ELSE WriteMaxRetries
               /\ x.via = "batch" => \E g \in Writes : x.of \in Members(g) /\ req'[g] \in {"serving", "over"}
               /\ x.via = "single" => phase'[x.of] \in {"single"} \cup Settled
    <3>1. CASE x \in uploads
      <4>1. x.via = "single" => x.of \notin Members(h)
        BY <1>2, <3>1 DEF Uploading, Settled
      <4> QED BY <1>1, <1>4, <1>9, <3>1, <4>1 DEF Uploading, Types
    <3>2. ASSUME NEW w \in W, x = Upload(w, "single", 0)
          PROVE  /\ x.try <= IF x.via = "batch" THEN RetryMaxAttempts ELSE WriteMaxRetries
                 /\ x.via = "single" /\ phase'[x.of] = "single"
      BY <1>5, <1>8, <3>2, LimitsAssumption
    <3> QED BY <1>7, <3>1, <3>2
  <2> QED BY <1>3, <2>1 DEF Uploading
<1>15. Calm'
  <2> SUFFICES ASSUME past'.abandoned = 0
               PROVE  /\ \A x \in uploads' :
                           IF x.via = "batch" THEN phase'[x.of] = "batch" /\ result[x.of] = "none"
                           ELSE x.via = "single" /\ phase'[x.of] = "single" /\ x.try = tries[x.of]
                      /\ \A x, y \in uploads' : x.of = y.of => x = y
    BY DEF Calm, Current
  <2>1. past.abandoned = 0 /\ \A u \in uploads : u.of \notin Members(h)
    OBVIOUS
  <2>2. \A x \in uploads : phase'[x.of] = phase[x.of]
    BY <1>4, <1>9, <2>1
  <2>3. \A x \in uploads :
          IF x.via = "batch" THEN phase'[x.of] = "batch" /\ result[x.of] = "none"
          ELSE x.via = "single" /\ phase'[x.of] = "single" /\ x.try = tries[x.of]
    BY <2>1, <2>2 DEF Calm, Current
  <2>4. \A w \in W : phase'[w] = "single" /\ tries[w] = 0
    BY <1>2, <1>5
  <2>5. \A x \in uploads' :
          IF x.via = "batch" THEN phase'[x.of] = "batch" /\ result[x.of] = "none"
          ELSE x.via = "single" /\ phase'[x.of] = "single" /\ x.try = tries[x.of]
    BY <1>7, <1>8, <2>3, <2>4
  <2>6. \A x, y \in uploads' : x.of = y.of => x = y
    BY <1>7, <1>8, <2>1 DEF Calm
  <2> QED BY <2>5, <2>6
<1>16. AloneHolds'
  <2>1. \A w \in Writes : phase[w] \in Settled => phase'[w] \in Settled
    BY <1>2, <1>4 DEF Settled
  <2>2. \A w \in Writes : phase'[w] = "none" <=> phase[w] = "none"
    BY <1>2, <1>4, <1>5
  <2>0. past.alone \subseteq Writes /\ NumWrites \in Nat
    BY LimitsAssumption DEF Types
  <2>3. \A w \in past.alone : /\ w \in Writes /\ \A v \in 1 .. w - 1 : v \in Writes
                              /\ \A v \in w + 1 .. NumWrites : v \in Writes
    BY <2>0 DEF Writes
  <2> QED BY <1>6, <2>1, <2>2, <2>3 DEF AloneHolds
<1>17. NobodyIsForgotten'
  <2>1. ASSUME NEW w \in Writes, phase'[w] = "batch"
        PROVE  \E g \in Writes :
                 /\ w \in Members(g)
                 /\ \/ req'[g] = "sent"
                    \/ /\ req'[g] = "serving"
                       /\ result[w] # "none" \/ \E u \in uploads' : u.of = w /\ u.via = "batch"
    <3>1. w \notin Members(h) /\ phase[w] = "batch"
      BY <1>4, <1>5, <2>1
    <3>2. PICK g \in Writes :
                 /\ w \in Members(g)
                 /\ \/ req[g] = "sent"
                    \/ /\ req[g] = "serving"
                       /\ result[w] # "none" \/ \E u \in uploads : u.of = w /\ u.via = "batch"
      BY <3>1 DEF NobodyIsForgotten
    <3>3. req'[g] = req[g]
      BY <1>1, <3>1, <3>2 DEF Types
    <3> QED BY <1>1, <3>2, <3>3
  <2>2. ASSUME NEW w \in Writes, phase'[w] = "single"
        PROVE  \E u \in uploads' : u.of = w /\ u.via = "single" /\ u.try = tries[w]
    <3>1. CASE w \in Members(h)
      BY <1>1, <1>2, <1>5, <1>8, <2>2, <3>1
    <3>2. CASE w \notin Members(h)
      BY <1>1, <1>4, <2>2, <3>2 DEF NobodyIsForgotten, Current
    <3> QED BY <3>1, <3>2
  <2> QED BY <1>3, <2>1, <2>2 DEF NobodyIsForgotten, Current
<1> QED BY <1>10, <1>11, <1>12, <1>13, <1>14, <1>15, <1>16, <1>17, <1>18

LEMMA AnswerCourse ==
  ASSUME Course, NEW h \in Writes, Refuse(h) \/ Break(h) \/ ChunkAnswered(h)
  PROVE  Course'
<1>1. past \in [stored : SUBSET Writes, alone : SUBSET Writes, abandoned : Nat]
  BY DEF Course, Types
<1>2. CASE Refuse(h)
  <2>1. /\ req[h] = "sent" /\ Over(h) /\ Fallback(Members(h), Members(h))
        /\ UNCHANGED <<path, size, tries, pending, chunk, result, file, past>>
    BY <1>2 DEF Refuse
  <2>2. past' = [past EXCEPT !.abandoned = past'.abandoned] /\ past'.abandoned \in Nat
    BY <1>1, <2>1
  <2> QED BY <2>1, <2>2, SentHasNoUploads, FallbackCourse
<1>3. CASE Break(h)
  <2>1. /\ req[h] = "serving" /\ Over(h) /\ Fallback(Members(h), Members(h))
        /\ past' = [past EXCEPT !.abandoned = @ + 1]
        /\ UNCHANGED <<path, size, tries, pending, chunk, result, file>>
    BY <1>3 DEF Break
  <2>2. /\ past' = [past EXCEPT !.abandoned = past'.abandoned] /\ past'.abandoned \in Nat
        /\ past'.abandoned # 0
    BY <1>1, <2>1
  <2> QED BY <2>1, <2>2, FallbackCourse
<1>4. CASE ChunkAnswered(h)
  <2> DEFINE W == {w \in Members(h) : ~ Accepted(w)}
  <2>1. /\ req[h] = "serving" /\ Over(h) /\ Fallback(Members(h), W)
        /\ \A w \in Members(h) : result[w] # "none"
        /\ UNCHANGED <<path, size, tries, pending, chunk, result, file, past>>
        /\ W \in SUBSET Members(h)
    BY <1>4 DEF ChunkAnswered
  <2> HIDE DEF W
  <2>2. past' = [past EXCEPT !.abandoned = past'.abandoned] /\ past'.abandoned \in Nat
    BY <1>1, <2>1
  <2>3. past.abandoned = 0 => \A u \in uploads : u.of \notin Members(h)
    BY <2>1 DEF Course, Calm, Current, Chunked
  <2> QED BY <2>1, <2>2, <2>3, FallbackCourse
<1> QED BY <1>2, <1>3, <1>4

-----------------------------------------------------------------------------
\* handleBatchWrite: every write of the chunk has an upload.
LEMMA ReceiveCourse == ASSUME Course, NEW h \in Writes, Receive(h) PROVE Course'
<1> USE DEF Course
<1>1. /\ req[h] = "sent" /\ req' = [req EXCEPT ![h] = "serving"]
      /\ uploads' = uploads \cup {Upload(w, "batch", 0) : w \in Members(h)}
      /\ UNCHANGED <<path, size, phase, tries, pending, chunk, result, file, past>>
  BY DEF Receive
<1>2. /\ Members(h) \subseteq Writes
      /\ \A w \in Members(h) : phase[w] = "batch" /\ result[w] = "none"
  <2>1. Members(h) \subseteq Writes
    BY ToSetSeq DEF Types, Members
  <2> QED BY <1>1, <2>1 DEF Chunked
<1>3. \A g : Members(g)' = Members(g)
  BY <1>1, SameMembers
<1>4. \A u \in uploads : u.of \notin Members(h)
  BY <1>1, SentHasNoUploads
<1>5. \A x \in uploads' : x \in uploads \/ \E w \in Members(h) : x = Upload(w, "batch", 0)
  BY <1>1
<1>6. \A w : /\ Upload(w, "batch", 0).of = w /\ Upload(w, "batch", 0).via = "batch"
             /\ Upload(w, "batch", 0).try = 0
  BY DEF Upload
<1>7. Types'
  <2>1. \A w \in Members(h) : Upload(w, "batch", 0) \in UploadRecords
    BY <1>2 DEF Upload, UploadRecords
  <2>2. uploads' \subseteq UploadRecords
    BY <1>1, <2>1 DEF Types
  <2>3. req' \in [Writes -> {"none", "sent", "serving", "over"}]
    BY <1>1 DEF Types
  <2> QED BY <1>1, <2>2, <2>3 DEF Types
<1>8. Queued' /\ NotBegun'
  BY <1>1 DEF Queued, NotBegun
<1>9. Chunked' /\ Headed'
  BY <1>1, <1>2, <1>3 DEF Chunked, Headed, Types
<1>10. Uploading'
  <2>1. ASSUME NEW x \in uploads'
        PROVE  /\ x.try <= IF x.via = "batch" THEN RetryMaxAttempts ELSE WriteMaxRetries
               /\ x.via = "batch" => \E g \in Writes : x.of \in Members(g) /\ req'[g] \in {"serving", "over"}
               /\ x.via = "single" => phase[x.of] \in {"single"} \cup Settled
    <3>1. CASE x \in uploads
      BY <1>1, <3>1 DEF Uploading, Types
    <3>2. ASSUME NEW w \in Members(h), x = Upload(w, "batch", 0)
          PROVE  /\ x.try <= IF x.via = "batch" THEN RetryMaxAttempts ELSE WriteMaxRetries
                 /\ x.via = "batch" /\ x.of \in Members(h) /\ req'[h] = "serving"
      BY <1>1, <1>6, <3>2, LimitsAssumption DEF Types
    <3> QED BY <1>5, <3>1, <3>2
  <2> QED BY <1>1, <1>3, <2>1 DEF Uploading
<1>11. Calm'
  <2> SUFFICES ASSUME past.abandoned = 0
               PROVE  /\ \A x \in uploads' :
                           IF x.via = "batch" THEN phase[x.of] = "batch" /\ result[x.of] = "none"
                           ELSE Current(x)
                      /\ \A x, y \in uploads' : x.of = y.of => x = y
    BY <1>1 DEF Calm, Current
  <2>1. \A x \in uploads' :
          IF x.via = "batch" THEN phase[x.of] = "batch" /\ result[x.of] = "none"
          ELSE Current(x)
    BY <1>2, <1>5, <1>6 DEF Calm
  <2>2. \A x, y \in uploads' : x.of = y.of => x = y
    BY <1>4, <1>5, <1>6 DEF Calm
  <2> QED BY <2>1, <2>2
<1>12. AloneHolds'
  BY <1>1 DEF AloneHolds
<1>13. NobodyIsForgotten'
  <2>1. ASSUME NEW w \in Writes, phase[w] = "batch"
        PROVE  \E g \in Writes :
                 /\ w \in Members(g)
                 /\ \/ req'[g] = "sent"
                    \/ /\ req'[g] = "serving"
                       /\ result[w] # "none" \/ \E u \in uploads' : u.of = w /\ u.via = "batch"
    <3>1. PICK g \in Writes :
                 /\ w \in Members(g)
                 /\ \/ req[g] = "sent"
                    \/ /\ req[g] = "serving"
                       /\ result[w] # "none" \/ \E u \in uploads : u.of = w /\ u.via = "batch"
      BY <2>1 DEF NobodyIsForgotten
    <3>2. CASE g = h
      <4>1. Upload(w, "batch", 0) \in uploads'
        BY <1>1, <3>1, <3>2
      <4>2. req'[g] = "serving"
        BY <1>1, <3>2 DEF Types
      <4> QED BY <1>6, <3>1, <4>1, <4>2
    <3>3. CASE g # h
      BY <1>1, <3>1, <3>3 DEF Types
    <3> QED BY <3>2, <3>3
  <2> QED BY <1>1, <1>3, <2>1 DEF NobodyIsForgotten, Current
<1> QED BY <1>7, <1>8, <1>9, <1>10, <1>11, <1>12, <1>13

-----------------------------------------------------------------------------
\* A chunk of the split opens with a write that waits, and all its writes do.
LEMMA FlushCourse == ASSUME Course, Flush PROVE Course'
<1> USE DEF Course
<1> DEFINE cs == ToSet(SplitIntoChunks(pending))
           Opens(w) == \E c \in cs : c[1] = w
<1>1. /\ chunk' = [w \in Writes |-> IF Opens(w) THEN CHOOSE c \in cs : c[1] = w ELSE chunk[w]]
      /\ req' = [w \in Writes |-> IF Opens(w) THEN "sent" ELSE req[w]]
      /\ phase' = [w \in Writes |-> IF w \in ToSet(pending) THEN "batch" ELSE phase[w]]
      /\ pending' = <<>>
      /\ UNCHANGED <<path, size, tries, result, uploads, file, past>>
  BY DEF Flush
<1>2. Cut(Len(pending), pending, SplitIntoChunks(pending))
  <2>1. size \in [Writes -> Nat] /\ ChunkMaxBytes \in Nat /\ pending \in Seq(Writes)
    BY LimitsAssumption DEF Types
  <2>2. \A i, j \in 1 .. Len(pending) : pending[i] = pending[j] => i = j
    BY DEF Queued
  <2> QED BY <2>1, <2>2, SplitIsCut
<1>3. /\ \A c \in cs : /\ c \in Seq(Writes) /\ c # <<>>
                       /\ ToSet(c) \subseteq ToSet(pending)
                       /\ Len(c) > 1 => BytesOf(size, c) <= ChunkMaxBytes
      /\ \A c, d \in cs : ToSet(c) \cap ToSet(d) # {} => c = d
      /\ \A w \in ToSet(pending) : \E c \in cs : w \in ToSet(c)
  <2> DEFINE S == SplitIntoChunks(pending)
  <2>1. S \in Seq(Seq(Writes)) /\ cs = {S[i] : i \in 1 .. Len(S)}
    <3>1. S \in Seq(Seq(Writes))
      BY <1>2 DEF Cut
    <3>2. cs = ToSet(S)
      OBVIOUS
    <3> HIDE DEF S, cs
    <3> QED BY <3>1, <3>2, ToSetSeq
  <2>2. ToSet(pending) = {pending[j] : j \in 1 .. Len(pending)}
    BY ToSetSeq DEF Types
  <2> HIDE DEF S, cs
  <2>3. Cut(Len(pending), pending, S)
    BY <1>2 DEF S
  <2>4. ASSUME NEW i \in 1 .. Len(S)
        PROVE  /\ S[i] \in Seq(Writes) /\ S[i] # <<>>
               /\ ToSet(S[i]) \subseteq ToSet(pending)
               /\ Len(S[i]) > 1 => BytesOf(size, S[i]) <= ChunkMaxBytes
    <3>1. S[i] \in Seq(Writes)
      BY <2>1
    <3> QED BY <2>2, <2>3, <3>1 DEF Cut
  <2>5. \A i, k \in 1 .. Len(S) : ToSet(S[i]) \cap ToSet(S[k]) # {} => i = k
    BY <2>3 DEF Cut
  <2>6. \A w \in ToSet(pending) : \E i \in 1 .. Len(S) : w \in ToSet(S[i])
    BY <2>2, <2>3 DEF Cut
  <2> QED BY <2>1, <2>4, <2>5, <2>6
<1> HIDE DEF cs
<1>4. \A c \in cs : c[1] \in ToSet(c) /\ ToSet(c) \subseteq Writes
  <2> SUFFICES ASSUME NEW c \in cs PROVE c[1] \in ToSet(c) /\ ToSet(c) \subseteq Writes
    OBVIOUS
  <2>1. c \in Seq(Writes) /\ c # <<>>
    BY <1>3
  <2>2. 1 \in 1 .. Len(c)
    BY <2>1
  <2> QED BY <2>1, <2>2, ToSetSeq
<1>5. \A w \in Writes : Opens(w) =>
        /\ chunk'[w] \in cs /\ chunk'[w][1] = w /\ w \in ToSet(chunk'[w])
        /\ req'[w] = "sent"
  BY <1>1, <1>4
<1>6. \A w \in Writes : ~ Opens(w) => chunk'[w] = chunk[w] /\ req'[w] = req[w]
  BY <1>1
<1>7. \A w \in ToSet(pending) : w \in Writes /\ phase[w] = "waiting" /\ phase'[w] = "batch"
  BY <1>1 DEF Queued
<1>8. \A w \in Writes : phase'[w] # phase[w] => w \in ToSet(pending)
  BY <1>1
<1>9. \A w \in Writes : Opens(w) =>
        /\ Members(w)' \subseteq ToSet(pending)
        /\ \A v \in Members(w)' : phase'[v] = "batch" /\ result[v] = "none"
  BY <1>1, <1>3, <1>5, <1>7 DEF Members, NotBegun
<1>10. \A w \in Writes : ~ Opens(w) =>
        Members(w)' = Members(w) /\ Members(w) \cap ToSet(pending) = {}
  BY <1>6, <1>7 DEF Members, Chunked
<1>11. \A c \in cs : c[1] \in Writes /\ Opens(c[1]) /\ chunk'[c[1]] = c
  <2> SUFFICES ASSUME NEW c \in cs PROVE c[1] \in Writes /\ Opens(c[1]) /\ chunk'[c[1]] = c
    OBVIOUS
  <2>1. c[1] \in Writes /\ Opens(c[1]) /\ c[1] \in ToSet(c)
    BY <1>4
  <2>2. chunk'[c[1]] \in cs /\ c[1] \in ToSet(chunk'[c[1]])
    BY <1>5, <2>1
  <2> QED BY <1>3, <2>1, <2>2
<1> HIDE DEF Opens
<1>12. Types'
  <2>1. chunk' \in [Writes -> Seq(Writes)]
    <3>1. \A w \in Writes : chunk'[w] \in Seq(Writes)
      BY <1>3, <1>5, <1>6 DEF Types
    <3>2. chunk' = [w \in Writes |-> chunk'[w]]
      BY <1>1
    <3> QED BY <3>1, <3>2
  <2>2. req' \in [Writes -> {"none", "sent", "serving", "over"}]
    BY <1>1 DEF Types
  <2>3. phase' \in [Writes -> Phases]
    BY <1>1 DEF Types, Phases
  <2>4. pending' \in Seq(Writes)
    BY <1>1
  <2> QED BY <1>1, <2>1, <2>2, <2>3, <2>4 DEF Types
<1>13. Queued'
  <2>1. ToSet(<<>>) = {}
    BY DEF ToSet
  <2>2. \A w \in Writes : phase'[w] # "waiting"
    BY <1>1, <1>7, <1>8 DEF Queued
  <2> QED BY <1>1, <2>1, <2>2 DEF Queued
<1>14. NotBegun'
  BY <1>1, <1>7, <1>8 DEF NotBegun
<1>15. Chunked'
  <2>1. ASSUME NEW g \in Writes
        PROVE  /\ Len(chunk'[g]) > 1 => BytesOf(size, chunk'[g]) <= ChunkMaxBytes
               /\ \A w \in Members(g)' :
                    /\ phase'[w] \notin {"none", "waiting"}
                    /\ req'[g] \in {"sent", "serving"} => phase'[w] = "batch"
                    /\ req'[g] = "sent" => result[w] = "none"
    <3>1. CASE Opens(g)
      BY <1>3, <1>5, <1>9, <3>1
    <3>2. CASE ~ Opens(g)
      <4>1. Members(g) \subseteq Writes
        BY ToSetSeq DEF Types, Members
      <4>2. \A w \in Members(g) : phase'[w] = phase[w]
        BY <1>8, <1>10, <3>2, <4>1
      <4> QED BY <1>6, <1>10, <3>2, <4>2 DEF Chunked
    <3> QED BY <3>1, <3>2
  <2>2. ASSUME NEW g \in Writes, NEW k \in Writes, Members(g)' \cap Members(k)' # {}
        PROVE  g = k
    <3>1. CASE Opens(g) /\ Opens(k)
      <4>1. chunk'[g] = chunk'[k]
        BY <1>3, <1>5, <2>2, <3>1 DEF Members
      <4> QED BY <1>5, <3>1, <4>1
    <3>2. CASE ~ Opens(g) /\ ~ Opens(k)
      BY <1>10, <2>2, <3>2 DEF Chunked
    <3>3. PICK x : x \in Members(g)' /\ x \in Members(k)'
      BY <2>2
    <3>4. CASE Opens(g) /\ ~ Opens(k)
      BY <1>9, <1>10, <3>3, <3>4
    <3>5. CASE Opens(k) /\ ~ Opens(g)
      BY <1>9, <1>10, <3>3, <3>5
    <3> QED BY <3>1, <3>2, <3>4, <3>5
  <2> QED BY <1>1, <2>1, <2>2 DEF Chunked
<1>20. Headed'
  BY <1>1, <1>5, <1>6, <1>10 DEF Headed, Members
<1>16. Uploading'
  <2>1. ASSUME NEW u \in uploads
        PROVE  /\ u.via = "batch" => \E g \in Writes : u.of \in Members(g)' /\ req'[g] \in {"serving", "over"}
               /\ u.via = "single" => phase'[u.of] \in {"single"} \cup Settled
    <3>0. u.of \in Writes
      BY DEF Types, UploadRecords
    <3>1. ASSUME u.via = "batch"
          PROVE  \E g \in Writes : u.of \in Members(g)' /\ req'[g] \in {"serving", "over"}
      <4>1. PICK g \in Writes : u.of \in Members(g) /\ req[g] \in {"serving", "over"}
        BY <3>1 DEF Uploading
      <4>2. ~ Opens(g)
        <5> SUFFICES ASSUME Opens(g) PROVE FALSE
          OBVIOUS
        <5>1. PICK c \in cs : c[1] = g
          BY DEF Opens
        <5>2. g \in ToSet(pending) /\ phase[g] = "waiting"
          BY <1>3, <1>4, <1>7, <5>1
        <5>3. req[g] = "none"
          BY <5>2 DEF Headed, Chunked
        <5> QED BY <4>1, <5>3
      <4> QED BY <1>6, <1>10, <4>1, <4>2
    <3>2. u.via = "single" => phase'[u.of] \in {"single"} \cup Settled
      BY <1>7, <1>8, <3>0 DEF Uploading, Settled
    <3> QED BY <3>1, <3>2
  <2> QED BY <1>1, <2>1 DEF Uploading
<1>17. Calm'
  BY <1>1, <1>7, <1>8 DEF Calm, Current, Types, UploadRecords
<1>18. AloneHolds'
  <2>0. past.alone \subseteq Writes /\ NumWrites \in Nat
    BY LimitsAssumption DEF Types
  <2>1. \A w \in past.alone : /\ w \in Writes /\ \A v \in 1 .. w - 1 : v \in Writes
                              /\ \A v \in w + 1 .. NumWrites : v \in Writes
    BY <2>0 DEF Writes
  <2>2. \A w \in Writes : /\ phase[w] \in Settled => phase'[w] \in Settled
                          /\ phase'[w] = "none" <=> phase[w] = "none"
    BY <1>7, <1>8 DEF Settled
  <2>3. UNCHANGED <<path, file, past>>
    BY <1>1
  <2> SUFFICES ASSUME past.abandoned = 0, NEW x \in past.alone
               PROVE  /\ phase'[x] # "none"
                      /\ \A v \in 1 .. x - 1 : path[v] = path[x] => phase'[v] \in Settled
                      /\ x \in past.stored
                         /\ (\A v \in x + 1 .. NumWrites :
                               path[v] = path[x] => phase'[v] = "none")
                         => file[path[x]] = x
    BY <2>3 DEF AloneHolds
  <2>4. /\ x \in Writes /\ phase[x] # "none"
        /\ \A v \in 1 .. x - 1 : v \in Writes /\ (path[v] = path[x] => phase[v] \in Settled)
        /\ x \in past.stored
           /\ (\A v \in x + 1 .. NumWrites : path[v] = path[x] => phase[v] = "none")
           => file[path[x]] = x
        /\ \A v \in x + 1 .. NumWrites : v \in Writes
    BY <2>1 DEF AloneHolds
  <2>5. \A v \in 1 .. x - 1 : path[v] = path[x] => phase'[v] \in Settled
    BY <2>2, <2>4
  <2>6. (\A v \in x + 1 .. NumWrites : path[v] = path[x] => phase'[v] = "none")
        => (\A v \in x + 1 .. NumWrites : path[v] = path[x] => phase[v] = "none")
    BY <2>2, <2>4
  <2> QED BY <2>2, <2>4, <2>5, <2>6
<1>19. NobodyIsForgotten'
  <2>1. ASSUME NEW w \in Writes, phase'[w] = "batch"
        PROVE  \E g \in Writes :
                 /\ w \in Members(g)'
                 /\ \/ req'[g] = "sent"
                    \/ /\ req'[g] = "serving"
                       /\ result[w] # "none" \/ \E u \in uploads : u.of = w /\ u.via = "batch"
    <3>1. CASE w \in ToSet(pending)
      <4>1. PICK c \in cs : w \in ToSet(c)
        BY <1>3, <3>1
      <4>2. c[1] \in Writes /\ req'[c[1]] = "sent" /\ w \in Members(c[1])'
        BY <1>5, <1>11, <4>1 DEF Members
      <4> QED BY <4>2
    <3>2. CASE w \notin ToSet(pending)
      <4>1. phase[w] = "batch"
        BY <1>8, <2>1, <3>2
      <4>2. PICK g \in Writes :
                 /\ w \in Members(g)
                 /\ \/ req[g] = "sent"
                    \/ /\ req[g] = "serving"
                       /\ result[w] # "none" \/ \E u \in uploads : u.of = w /\ u.via = "batch"
        BY <4>1 DEF NobodyIsForgotten
      <4>3. ~ Opens(g)
        <5> SUFFICES ASSUME Opens(g) PROVE FALSE
          OBVIOUS
        <5>1. PICK c \in cs : c[1] = g
          BY DEF Opens
        <5>2. g \in ToSet(pending) /\ phase[g] = "waiting"
          BY <1>3, <1>4, <1>7, <5>1
        <5>3. req[g] = "none"
          BY <5>2 DEF Headed, Chunked
        <5> QED BY <4>2, <5>3
      <4> QED BY <1>6, <1>10, <4>2, <4>3
    <3> QED BY <3>1, <3>2
  <2>2. ASSUME NEW w \in Writes, phase'[w] = "single"
        PROVE  \E u \in uploads : u.of = w /\ u.via = "single" /\ u.try = tries[w]
    BY <1>7, <1>8, <2>2 DEF NobodyIsForgotten, Current
  <2>3. \A w \in Writes : phase'[w] = "single" =>
          \E u \in uploads' : u.of = w /\ Current(u)'
    BY <1>1, <2>2 DEF Current
  <2> QED BY <1>1, <2>1, <2>3 DEF NobodyIsForgotten
<1> QED BY <1>12, <1>13, <1>14, <1>15, <1>16, <1>17, <1>18, <1>19, <1>20

-----------------------------------------------------------------------------
\* An upload of a write has begun, so the write has.
LEMMA UploadedHasBegun ==
  ASSUME Course, NEW u \in uploads
  PROVE  u.of \in Writes /\ phase[u.of] \notin {"none", "waiting"}
<1>1. u.of \in Writes /\ u.via \in {"batch", "single"}
  BY DEF Course, Types, UploadRecords
<1>2. CASE u.via = "batch"
  <2>1. PICK h \in Writes : u.of \in Members(h)
    BY <1>2 DEF Course, Uploading
  <2> QED BY <1>1, <2>1 DEF Course, Chunked
<1>3. CASE u.via = "single"
  BY <1>1, <1>3 DEF Course, Uploading, Settled
<1> QED BY <1>1, <1>2, <1>3

\* Of three writes of a file, one before the write that was alone is settled,
\* and one after it has not begun: the upload that lands is its own.
LEMMA LandCourse == ASSUME Course, NEW u \in uploads, Land(u) PROVE Course'
<1> USE DEF Course
<1> DEFINE v == [u EXCEPT !.landed = TRUE]
<1>1. /\ uploads' = (uploads \ {u}) \cup {v}
      /\ file' = [file EXCEPT ![path[u.of]] = u.of]
      /\ past' = [past EXCEPT !.stored = @ \cup {u.of}]
      /\ UNCHANGED <<path, size, phase, tries, pending, chunk, req, result>>
  BY DEF Land
<1>2. /\ v \in UploadRecords /\ v.of = u.of /\ v.via = u.via /\ v.try = u.try
      /\ u \in UploadRecords /\ u.of \in Writes
  BY DEF Types, UploadRecords
<1> HIDE DEF v
<1>3. phase[u.of] \notin {"none", "waiting"}
  BY UploadedHasBegun
<1>4. \A g : Members(g)' = Members(g)
  BY <1>1, SameMembers
<1>5. /\ past' \in [stored : SUBSET Writes, alone : SUBSET Writes, abandoned : Nat]
      /\ past'.stored = past.stored \cup {u.of}
      /\ past'.alone = past.alone /\ past'.abandoned = past.abandoned
  BY <1>1, <1>2 DEF Types
<1>6. Types'
  <2>1. uploads' \subseteq UploadRecords
    BY <1>1, <1>2 DEF Types
  <2>2. file' \in [Files -> Nat]
    BY <1>1, <1>2 DEF Types, Writes
  <2> QED BY <1>1, <1>5, <2>1, <2>2 DEF Types
<1>7. Queued' /\ Chunked' /\ Headed'
  BY <1>1, <1>4 DEF Queued, Chunked, Headed
<1>8. NotBegun'
  BY <1>1, <1>3, <1>5 DEF NotBegun
<1>9. Uploading'
  BY <1>1, <1>2, <1>4 DEF Uploading
<1>10. Calm'
  BY <1>1, <1>2, <1>5 DEF Calm, Current
<1>11. AloneHolds'
  <2> SUFFICES ASSUME past.abandoned = 0, NEW x \in past.alone, x \in past'.stored,
                      \A y \in x + 1 .. NumWrites : path[y] = path[x] => phase[y] = "none"
               PROVE  file'[path[x]] = x
    BY <1>1, <1>5 DEF AloneHolds
  <2>0. past.alone \subseteq Writes /\ NumWrites \in Nat
    BY LimitsAssumption DEF Types
  <2>1. x \in Writes /\ path[x] \in Files /\ path[u.of] \in Files
    BY <1>2, <2>0 DEF Types
  <2>2. CASE x = u.of
    BY <1>1, <2>1, <2>2 DEF Types
  <2>3. CASE path[x] # path[u.of]
    BY <1>1, <1>5, <2>1, <2>3 DEF Types, AloneHolds
  <2>4. CASE x # u.of /\ path[x] = path[u.of]
    <3>1. phase[u.of] \notin Settled
      BY DEF Calm, Current, Settled
    <3>2. u.of \in 1 .. x - 1 \/ u.of \in x + 1 .. NumWrites
      BY <1>2, <2>0, <2>1, <2>4 DEF Writes
    <3> QED BY <1>3, <2>4, <3>1, <3>2 DEF AloneHolds
  <2> QED BY <2>2, <2>3, <2>4
<1>12. NobodyIsForgotten'
  BY <1>1, <1>2, <1>4 DEF NobodyIsForgotten, Current
<1> QED BY <1>6, <1>7, <1>8, <1>9, <1>10, <1>11, <1>12

\* forwardOne: the server notes a result, or tries again.
LEMMA BatchUploadEndsCourse ==
  ASSUME Course, NEW u \in uploads, NEW how, BatchUploadEnds(u, how)
  PROVE  Course'
<1> USE DEF Course
<1> DEFINE again == how = "error" /\ u.try < RetryMaxAttempts
           n == Upload(u.of, "batch", u.try + 1)
<1>1. /\ u.via = "batch"
      /\ uploads' = (uploads \ {u}) \cup (IF again THEN {n} ELSE {})
      /\ result' = IF again THEN result
                   ELSE [result EXCEPT ![u.of] = IF how = "ok" THEN "ok" ELSE "bad"]
      /\ UNCHANGED <<path, size, phase, tries, pending, chunk, req, file, past>>
  BY DEF BatchUploadEnds
<1>2. /\ u.of \in Writes /\ u.try \in Nat
      /\ n \in UploadRecords /\ n.of = u.of /\ n.via = "batch" /\ n.try = u.try + 1
  BY DEF Types, UploadRecords, Upload
<1>3. again => n.try <= RetryMaxAttempts
  BY <1>2, LimitsAssumption
<1>4. \/ /\ again /\ uploads' = (uploads \ {u}) \cup {n} /\ result' = result
      \/ /\ ~ again /\ uploads' = uploads \ {u} /\ result'[u.of] # "none"
         /\ result' \in [Writes -> {"none", "ok", "bad"}]
         /\ \A w \in Writes : w # u.of => result'[w] = result[w]
  BY <1>1, <1>2 DEF Types
<1> HIDE DEF n, again
<1>5. phase[u.of] \notin {"none", "waiting"}
  BY UploadedHasBegun
<1>6. \A g : Members(g)' = Members(g)
  BY <1>1, SameMembers
<1>7. Types'
  <2>1. uploads' \subseteq UploadRecords
    BY <1>2, <1>4 DEF Types
  <2>2. result' \in [Writes -> {"none", "ok", "bad"}]
    BY <1>4 DEF Types
  <2> QED BY <1>1, <2>1, <2>2 DEF Types
<1>8. Queued' /\ Headed' /\ AloneHolds'
  BY <1>1, <1>6 DEF Queued, Headed, AloneHolds
<1>9. NotBegun'
  BY <1>1, <1>4, <1>5 DEF NotBegun
<1>10. Chunked'
  <2>1. ASSUME NEW h \in Writes, req[h] = "sent", NEW w \in Members(h)
        PROVE  result'[w] = "none"
    <3>1. w \in Writes
      BY ToSetSeq DEF Types, Members
    <3>2. u.of # w
      BY <2>1, SentHasNoUploads
    <3> QED BY <1>4, <2>1, <3>1, <3>2 DEF Chunked
  <2> QED BY <1>1, <1>6, <2>1 DEF Chunked
<1>11. Uploading'
  <2>1. \E h \in Writes : u.of \in Members(h) /\ req[h] \in {"serving", "over"}
    BY <1>1 DEF Uploading
  <2> QED BY <1>1, <1>2, <1>3, <1>4, <1>6, <2>1 DEF Uploading
<1>12. Calm'
  <2> SUFFICES ASSUME past.abandoned = 0
               PROVE  /\ \A x \in uploads' :
                           IF x.via = "batch" THEN phase[x.of] = "batch" /\ result'[x.of] = "none"
                           ELSE Current(x)
                      /\ \A x, y \in uploads' : x.of = y.of => x = y
    BY <1>1 DEF Calm, Current
  <2>1. phase[u.of] = "batch" /\ result[u.of] = "none"
    BY <1>1 DEF Calm
  <2>2. \A x \in uploads : x # u => x.of # u.of
    BY DEF Calm
  <2>3. \A x \in uploads : x # u => result'[x.of] = result[x.of]
    BY <1>4, <2>2 DEF Types, UploadRecords
  <2>4. \A x \in uploads' : (x \in uploads /\ x # u) \/ (x = n /\ again)
    BY <1>4
  <2>5. \A x \in uploads' :
          IF x.via = "batch" THEN phase[x.of] = "batch" /\ result'[x.of] = "none"
          ELSE Current(x)
    BY <1>2, <1>4, <2>1, <2>3, <2>4 DEF Calm
  <2>6. \A x, y \in uploads' : x.of = y.of => x = y
    BY <1>2, <2>2, <2>4 DEF Calm
  <2> QED BY <2>5, <2>6
<1>13. NobodyIsForgotten'
  <2>1. ASSUME NEW w \in Writes, result[w] # "none" \/ \E x \in uploads : x.of = w /\ x.via = "batch"
        PROVE  result'[w] # "none" \/ \E x \in uploads' : x.of = w /\ x.via = "batch"
    <3>1. CASE w = u.of
      BY <1>2, <1>4, <3>1
    <3>2. CASE w # u.of
      BY <1>4, <2>1, <3>2
    <3> QED BY <3>1, <3>2
  <2>2. \A x \in uploads : Current(x) => x \in uploads' /\ Current(x)'
    BY <1>1 DEF Current
  <2> QED BY <1>1, <1>6, <2>1, <2>2 DEF NobodyIsForgotten
<1> QED BY <1>7, <1>8, <1>9, <1>10, <1>11, <1>12, <1>13

\* A write that goes alone comes to an end; no request is left that it waits for.
LEMMA SettleCourse ==
  ASSUME Course, NEW w \in Writes, phase[w] = "single", NEW p \in Settled,
         phase' = [phase EXCEPT ![w] = p], uploads' \subseteq uploads,
         \A u \in uploads : u.of # w => u \in uploads',
         past' = [past EXCEPT !.abandoned = past'.abandoned], past'.abandoned \in Nat,
         past'.abandoned = 0 =>
           past.abandoned = 0 /\ \A u \in uploads' : u.of # w,
         UNCHANGED <<path, size, tries, pending, chunk, req, result, file>>
  PROVE  Course'
<1> USE DEF Course
<1>1. \A x \in Writes : phase'[x] = IF x = w THEN p ELSE phase[x]
  BY DEF Types
<1>2. p \notin {"none", "waiting", "batch", "single"}
  BY DEF Settled
<1>3. \A g : Members(g)' = Members(g)
  BY SameMembers
<1>4. /\ past'.stored = past.stored /\ past'.alone = past.alone
      /\ past' \in [stored : SUBSET Writes, alone : SUBSET Writes, abandoned : Nat]
  BY DEF Types
<1>5. \A u \in uploads : u.of \in Writes /\ u.via \in {"batch", "single"}
  BY DEF Types, UploadRecords
<1>6. Types'
  <2>1. phase' \in [Writes -> Phases] /\ uploads' \subseteq UploadRecords
    BY DEF Types, Phases
  <2> QED BY <1>4, <2>1 DEF Types
<1>7. Queued'
  BY <1>1, <1>2 DEF Queued
<1>8. NotBegun'
  BY <1>1, <1>2, <1>4 DEF NotBegun
<1>9. Chunked' /\ Headed'
  <2>1. \A g \in Writes : Members(g) \subseteq Writes
    BY ToSetSeq DEF Types, Members
  <2>2. \A g \in Writes : w \in Members(g) => req[g] \notin {"sent", "serving"}
    BY DEF Chunked
  <2>3. ASSUME NEW g \in Writes, NEW v \in Members(g)
        PROVE  /\ phase'[v] \notin {"none", "waiting"}
               /\ req[g] \in {"sent", "serving"} => phase'[v] = "batch"
               /\ req[g] = "sent" => result[v] = "none"
    BY <1>1, <1>2, <2>1, <2>2 DEF Chunked
  <2> QED BY <1>3, <2>3 DEF Chunked, Headed
<1>10. Uploading'
  <2>1. \A u \in uploads' : u.via = "single" => phase'[u.of] \in {"single"} \cup Settled
    BY <1>1, <1>5 DEF Uploading
  <2> QED BY <1>3, <2>1 DEF Uploading
<1>11. Calm'
  BY <1>1, <1>5 DEF Calm, Current
<1>12. AloneHolds'
  <2>0. past.alone \subseteq Writes /\ NumWrites \in Nat
    BY LimitsAssumption DEF Types
  <2>1. \A x \in past.alone : /\ x \in Writes /\ \A v \in 1 .. x - 1 : v \in Writes
                              /\ \A v \in x + 1 .. NumWrites : v \in Writes
    BY <2>0 DEF Writes
  <2>2. \A x \in Writes : phase[x] \in Settled => phase'[x] \in Settled
    BY <1>1
  <2>3. \A x \in Writes : phase'[x] = "none" <=> phase[x] = "none"
    BY <1>1, <1>2
  <2> QED BY <1>4, <2>1, <2>2, <2>3 DEF AloneHolds
<1>13. NobodyIsForgotten'
  <2>1. \A x \in Writes : phase'[x] \in {"batch", "single"} => x # w /\ phase'[x] = phase[x]
    BY <1>1, <1>2
  <2>2. \A x \in Writes : phase'[x] = "batch" =>
          \E g \in Writes :
            /\ x \in Members(g)
            /\ \/ req[g] = "sent"
               \/ /\ req[g] = "serving"
                  /\ result[x] # "none" \/ \E u \in uploads' : u.of = x /\ u.via = "batch"
    BY <2>1 DEF NobodyIsForgotten
  <2>3. \A x \in Writes : phase'[x] = "single" => \E u \in uploads' : u.of = x /\ Current(u)'
    BY <2>1 DEF NobodyIsForgotten, Current
  <2> QED BY <1>3, <2>2, <2>3 DEF NobodyIsForgotten
<1> QED BY <1>6, <1>7, <1>8, <1>9, <1>10, <1>11, <1>12, <1>13

\* fetchWriteWithRetry sends a write once more.
LEMMA AgainCourse ==
  ASSUME Course, NEW w \in Writes, phase[w] = "single", tries[w] < WriteMaxRetries,
         tries' = [tries EXCEPT ![w] = @ + 1], NEW U \in SUBSET uploads,
         uploads' = U \cup {Upload(w, "single", tries[w] + 1)},
         \A u \in uploads : u.of # w => u \in U,
         past' = [past EXCEPT !.abandoned = past'.abandoned], past'.abandoned \in Nat,
         past'.abandoned = 0 =>
           past.abandoned = 0 /\ \A u \in U : u.of # w,
         UNCHANGED <<path, size, phase, pending, chunk, req, result, file>>
  PROVE  Course'
<1> USE DEF Course
<1> DEFINE n == Upload(w, "single", tries[w] + 1)
<1>1. tries[w] \in Nat /\ tries[w] + 1 \in 0 .. WriteMaxRetries
  <2>1. tries[w] \in 0 .. WriteMaxRetries /\ WriteMaxRetries \in Nat
    BY LimitsAssumption DEF Types
  <2> QED BY <2>1
<1>2. /\ n \in UploadRecords /\ n.of = w /\ n.via = "single" /\ n.try = tries[w] + 1
      /\ uploads' = U \cup {n}
  BY <1>1 DEF UploadRecords, Upload
<1> HIDE DEF n
<1>3. \A g : Members(g)' = Members(g)
  BY SameMembers
<1>4. /\ past'.stored = past.stored /\ past'.alone = past.alone
      /\ past' \in [stored : SUBSET Writes, alone : SUBSET Writes, abandoned : Nat]
  BY DEF Types
<1>5. \A x \in Writes : tries'[x] = IF x = w THEN tries[w] + 1 ELSE tries[x]
  BY DEF Types
<1>6. Types'
  <2>1. uploads' \subseteq UploadRecords
    BY <1>2 DEF Types
  <2>2. tries' \in [Writes -> 0 .. WriteMaxRetries]
    BY <1>1 DEF Types
  <2> QED BY <1>4, <2>1, <2>2 DEF Types
<1>7. Queued' /\ Chunked' /\ Headed' /\ AloneHolds'
  BY <1>3, <1>4 DEF Queued, Chunked, Headed, AloneHolds
<1>8. NotBegun'
  BY <1>4, <1>5 DEF NotBegun
<1>9. Uploading'
  <2>1. n.try <= WriteMaxRetries
    BY <1>1, <1>2
  <2> QED BY <1>2, <1>3, <2>1 DEF Uploading
<1>10. Calm'
  <2> SUFFICES ASSUME past'.abandoned = 0
               PROVE  /\ \A x \in uploads' :
                           IF x.via = "batch" THEN phase[x.of] = "batch" /\ result[x.of] = "none"
                           ELSE x.via = "single" /\ phase[x.of] = "single" /\ x.try = tries'[x.of]
                      /\ \A x, y \in uploads' : x.of = y.of => x = y
    BY DEF Calm, Current
  <2>1. \A x \in U : x.of # w /\ x.of \in Writes
    BY DEF Types, UploadRecords
  <2>2. \A x \in U : IF x.via = "batch" THEN phase[x.of] = "batch" /\ result[x.of] = "none"
                      ELSE x.via = "single" /\ phase[x.of] = "single" /\ x.try = tries'[x.of]
    BY <1>5, <2>1 DEF Calm, Current
  <2>3. phase[n.of] = "single" /\ n.try = tries'[n.of]
    BY <1>2, <1>5
  <2>4. \A x, y \in uploads' : x.of = y.of => x = y
    BY <1>2, <2>1 DEF Calm
  <2> QED BY <1>2, <2>2, <2>3, <2>4
<1>11. NobodyIsForgotten'
  <2>1. \A x \in Writes : phase[x] = "batch" =>
          \E g \in Writes :
            /\ x \in Members(g)
            /\ \/ req[g] = "sent"
               \/ /\ req[g] = "serving"
                  /\ result[x] # "none" \/ \E u \in uploads' : u.of = x /\ u.via = "batch"
    <3>1. \A x \in Writes : phase[x] = "batch" => x # w
      OBVIOUS
    <3> QED BY <1>2, <3>1 DEF NobodyIsForgotten
  <2>2. \A x \in Writes : phase[x] = "single" => \E u \in uploads' : u.of = x /\ Current(u)'
    <3> SUFFICES ASSUME NEW x \in Writes, phase[x] = "single"
                 PROVE  \E u \in uploads' : u.of = x /\ Current(u)'
      OBVIOUS
    <3>1. CASE x = w
      BY <1>2, <1>5, <3>1 DEF Current
    <3>2. CASE x # w
      <4>1. PICK u \in uploads : u.of = x /\ u.via = "single" /\ u.try = tries[x]
        BY DEF NobodyIsForgotten, Current
      <4>2. u \in uploads' /\ Current(u)'
        BY <1>2, <1>5, <3>2, <4>1 DEF Current
      <4> QED BY <4>1, <4>2
    <3> QED BY <3>1, <3>2
  <2> QED BY <1>2, <1>3, <2>1, <2>2 DEF NobodyIsForgotten
<1> QED BY <1>6, <1>7, <1>8, <1>9, <1>10, <1>11

LEMMA RetryCourse ==
  ASSUME Course, NEW w \in Writes, phase[w] = "single", NEW U \in SUBSET uploads,
         Retry(w, U), \A u \in uploads : u.of # w => u \in U,
         past' = [past EXCEPT !.abandoned = past'.abandoned], past'.abandoned \in Nat,
         past'.abandoned = 0 =>
           past.abandoned = 0 /\ \A u \in U : u.of # w,
         UNCHANGED <<path, size, pending, chunk, req, result, file>>
  PROVE  Course'
<1>1. CASE tries[w] < WriteMaxRetries
  <2>1. /\ tries' = [tries EXCEPT ![w] = @ + 1] /\ UNCHANGED phase
        /\ uploads' = U \cup {Upload(w, "single", tries[w] + 1)}
    BY <1>1 DEF Retry
  <2> QED BY <1>1, <2>1, AgainCourse
<1>2. CASE ~ (tries[w] < WriteMaxRetries)
  <2>1. phase' = [phase EXCEPT ![w] = "failed"] /\ uploads' = U /\ UNCHANGED tries
    BY <1>2 DEF Retry
  <2>2. "failed" \in Settled
    BY DEF Settled
  <2> QED BY <2>1, <2>2, SettleCourse
<1> QED BY <1>1, <1>2

LEMMA SingleCourse ==
  ASSUME Course, NEW u \in uploads,
         \/ \E how \in {"ok", "refused", "error"} : SingleEnds(u, how)
         \/ LoseSingle(u) \/ Drop(u)
  PROVE  Course'
<1> DEFINE U == uploads \ {u}
<1>1. /\ u.of \in Writes /\ U \in SUBSET uploads
      /\ past \in [stored : SUBSET Writes, alone : SUBSET Writes, abandoned : Nat]
      /\ \A x \in uploads : x.of # u.of => x \in U
      /\ past.abandoned = 0 => \A x \in U : x.of # u.of
  BY DEF Course, Types, UploadRecords, Calm
<1> HIDE DEF U
<1>2. ASSUME NEW how \in {"ok", "refused", "error"}, SingleEnds(u, how) PROVE Course'
  <2>1. /\ phase[u.of] = "single"
        /\ UNCHANGED <<path, size, pending, chunk, req, result, file, past>>
    BY <1>2 DEF SingleEnds, Current
  <2>2. /\ past' = [past EXCEPT !.abandoned = past'.abandoned] /\ past'.abandoned \in Nat
        /\ past'.abandoned = 0 => past.abandoned = 0 /\ \A x \in U : x.of # u.of
    BY <1>1, <2>1
  <2>3. CASE how = "error"
    <3>1. Retry(u.of, U)
      BY <1>2, <2>3 DEF SingleEnds, U
    <3> QED BY <1>1, <2>1, <2>2, <3>1, RetryCourse
  <2>4. CASE how # "error"
    <3>1. phase' = [phase EXCEPT ![u.of] = how] /\ uploads' = U /\ UNCHANGED tries
      BY <1>2, <2>4 DEF SingleEnds, U
    <3>2. how \in Settled
      BY <2>4 DEF Settled
    <3> QED BY <1>1, <2>1, <2>2, <3>1, <3>2, SettleCourse
  <2> QED BY <2>3, <2>4
<1>3. CASE LoseSingle(u)
  <2>1. /\ phase[u.of] = "single" /\ Retry(u.of, uploads)
        /\ past' = [past EXCEPT !.abandoned = @ + 1]
        /\ UNCHANGED <<path, size, pending, chunk, req, result, file>>
    BY <1>3 DEF LoseSingle, Current
  <2>2. /\ past' = [past EXCEPT !.abandoned = past'.abandoned] /\ past'.abandoned \in Nat
        /\ past'.abandoned # 0
    BY <1>1, <2>1
  <2> QED BY <1>1, <2>1, <2>2, RetryCourse
<1>4. CASE Drop(u)
  <2>1. /\ u.via = "single" /\ ~ Current(u) /\ uploads' = U
        /\ UNCHANGED <<path, size, phase, tries, pending, chunk, req, result, file, past>>
    BY <1>4 DEF Drop, U
  <2>2. \A g : Members(g)' = Members(g)
    BY <2>1, SameMembers
  <2>3. \A x \in uploads : x.via = "batch" \/ Current(x) => x \in uploads'
    BY <2>1 DEF U
  <2>4. uploads' \subseteq uploads
    BY <1>1, <2>1
  <2>5. Types' /\ Queued' /\ NotBegun' /\ Chunked' /\ Headed' /\ AloneHolds'
    BY <2>1, <2>2, <2>4 DEF Course, Types, Queued, NotBegun, Chunked, Headed, AloneHolds
  <2>6. Uploading' /\ Calm'
    BY <2>1, <2>2, <2>4 DEF Course, Uploading, Calm, Current
  <2>7. NobodyIsForgotten'
    BY <2>1, <2>2, <2>3 DEF Course, NobodyIsForgotten, Current
  <2> QED BY <2>5, <2>6, <2>7 DEF Course
<1> QED BY <1>2, <1>3, <1>4

-----------------------------------------------------------------------------
LEMMA NextCourse == Course /\ [Next]_vars => Course'
<1> SUFFICES ASSUME Course, [Next]_vars PROVE Course'
  OBVIOUS
<1>1. CASE Progress
  <2>1. ASSUME NEW u \in uploads, NEW how, BatchUploadEnds(u, how) PROVE Course'
    BY <2>1, BatchUploadEndsCourse
  <2>2. ASSUME NEW u \in uploads,
               \/ \E how \in {"ok", "refused", "error"} : SingleEnds(u, how)
               \/ Drop(u)
        PROVE  Course'
    BY <2>2, SingleCourse
  <2> QED
    BY <1>1, <2>1, <2>2, FlushCourse, ReceiveCourse, AnswerCourse, LandCourse DEF Progress
<1>2. CASE UNCHANGED vars
  <2>1. /\ UNCHANGED <<path, size, phase, tries, pending, chunk, req, result>>
        /\ UNCHANGED <<uploads, file, past>>
    BY <1>2 DEF vars
  <2>2. \A g : Members(g)' = Members(g)
    BY <2>1, SameMembers
  <2>3. Types' /\ Queued' /\ NotBegun' /\ Chunked' /\ Headed' /\ AloneHolds'
    BY <2>1, <2>2 DEF Course, Types, Queued, NotBegun, Chunked, Headed, AloneHolds
  <2>4. Uploading' /\ Calm' /\ NobodyIsForgotten'
    BY <2>1, <2>2 DEF Course, Uploading, Calm, Current, NobodyIsForgotten
  <2> QED BY <2>3, <2>4 DEF Course
<1> QED
  BY <1>1, <1>2, EnqueueCourse, AnswerCourse, SingleCourse DEF Next

-----------------------------------------------------------------------------
(* The word "ok" comes from the upload that was stored, through the result  *)
(* that the server keeps for the answer of the chunk, or straight to a      *)
(* write alone.                                                             *)

\* The variables that the steps below change.
Shapes ==
  /\ phase \in [Writes -> {"none", "waiting", "batch", "single"} \cup Settled]
  /\ result \in [Writes -> {"none", "ok", "bad"}]
  /\ \A u \in uploads : u = [of |-> u.of, via |-> u.via, try |-> u.try, landed |-> u.landed]
  /\ past = [stored |-> past.stored, alone |-> past.alone, abandoned |-> past.abandoned]

\* An upload that the upstream has stored.
LandedIsStored == \A u \in uploads : u.landed = TRUE => u.of \in past.stored

\* What the server will say of a write of a chunk.
ResultIsTrue == \A w \in Writes : result[w] = "ok" => w \in past.stored

IInv == Shapes /\ LandedIsStored /\ ResultIsTrue /\ SavedWasStored

-----------------------------------------------------------------------------
LEMMA InitIInv == Init => IInv
BY DEF Init, IInv, Shapes, LandedIsStored, ResultIsTrue, SavedWasStored

\* Uploads that are added have not begun.
OnlyNew == \A u \in uploads' : u \in uploads \/ \E w, via, n : u = Upload(w, via, n)

\* Nothing is forgotten that was stored, and new uploads have not landed.
LEMMA UploadsIInv ==
  ASSUME IInv, OnlyNew,
         past' = [past EXCEPT !.alone = past'.alone, !.abandoned = past'.abandoned]
  PROVE  /\ \A u \in uploads' :
              u = [of |-> u.of, via |-> u.via, try |-> u.try, landed |-> u.landed]
         /\ past' = [stored |-> past'.stored, alone |-> past'.alone,
                     abandoned |-> past'.abandoned]
         /\ past'.stored = past.stored
         /\ LandedIsStored'
<1>1. past' = [stored |-> past.stored, alone |-> past'.alone, abandoned |-> past'.abandoned]
  BY DEF IInv, Shapes
<1>2. past'.stored = past.stored
  BY <1>1
<1>3. ASSUME NEW u \in uploads'
      PROVE  /\ u = [of |-> u.of, via |-> u.via, try |-> u.try, landed |-> u.landed]
             /\ u.landed = TRUE => u.of \in past'.stored
  <2>1. CASE u \in uploads
    BY <1>2, <2>1 DEF IInv, Shapes, LandedIsStored
  <2>2. CASE u \notin uploads
    <3>1. PICK w, via, n : u = Upload(w, via, n)
      BY <1>3, <2>2 DEF OnlyNew
    <3> QED
      BY <3>1 DEF Upload
  <2> QED
    BY <2>1, <2>2
<1> QED
  BY <1>1, <1>2, <1>3 DEF LandedIsStored

\* Fallback says "ok" of the writes of S that are not among those of W.
LEMMA FallbackIInv ==
  ASSUME IInv, NEW S, NEW W, Fallback(S, W), UNCHANGED result,
         past' = [past EXCEPT !.abandoned = past'.abandoned],
         \A w \in Writes : w \in S \ W => result[w] = "ok"
  PROVE  IInv'
<1>1. phase' = [w \in Writes |-> IF w \in W THEN "single"
                                 ELSE IF w \in S THEN "ok" ELSE phase[w]]
  BY DEF Fallback
<1>2. OnlyNew
  BY DEF Fallback, OnlyNew
<1>3. past' = [past EXCEPT !.alone = past'.alone, !.abandoned = past'.abandoned]
  BY DEF IInv, Shapes
<1>4. /\ \A u \in uploads' :
           u = [of |-> u.of, via |-> u.via, try |-> u.try, landed |-> u.landed]
      /\ past' = [stored |-> past'.stored, alone |-> past'.alone,
                  abandoned |-> past'.abandoned]
      /\ past'.stored = past.stored
      /\ LandedIsStored'
  BY <1>2, <1>3, UploadsIInv
<1>5. Shapes'
  BY <1>1, <1>4 DEF IInv, Shapes, Settled
<1>6. ResultIsTrue' /\ SavedWasStored'
  BY <1>1, <1>4 DEF IInv, ResultIsTrue, SavedWasStored
<1> QED
  BY <1>4, <1>5, <1>6 DEF IInv


-----------------------------------------------------------------------------
(* The steps                                                                *)

\* A step that says "ok" of no write, and of no write of a chunk.
LEMMA QuietIInv ==
  ASSUME IInv, OnlyNew,
         past' = [past EXCEPT !.alone = past'.alone, !.abandoned = past'.abandoned],
         UNCHANGED result,
         phase' \in [Writes -> {"none", "waiting", "batch", "single"} \cup Settled],
         \A w \in Writes : phase'[w] = "ok" => phase[w] = "ok"
  PROVE  IInv'
<1>1. /\ \A u \in uploads' :
           u = [of |-> u.of, via |-> u.via, try |-> u.try, landed |-> u.landed]
      /\ past' = [stored |-> past'.stored, alone |-> past'.alone,
                  abandoned |-> past'.abandoned]
      /\ past'.stored = past.stored
      /\ LandedIsStored'
  BY UploadsIInv
<1>2. Shapes'
  BY <1>1 DEF IInv, Shapes
<1>3. ResultIsTrue' /\ SavedWasStored'
  BY <1>1 DEF IInv, ResultIsTrue, SavedWasStored
<1> QED
  BY <1>1, <1>2, <1>3 DEF IInv

\* The request of a write that goes alone is repeated, or given up.
LEMMA RetryIInv ==
  ASSUME IInv, NEW w, NEW U \in SUBSET uploads, Retry(w, U), UNCHANGED result,
         past' = [past EXCEPT !.abandoned = past'.abandoned]
  PROVE  IInv'
<1>1. past' = [past EXCEPT !.alone = past'.alone, !.abandoned = past'.abandoned]
  BY DEF IInv, Shapes
<1>2. CASE tries[w] < WriteMaxRetries
  <2>1. UNCHANGED phase /\ OnlyNew
    BY <1>2 DEF Retry, OnlyNew
  <2> QED
    BY <1>1, <2>1, QuietIInv DEF IInv, Shapes
<1>3. CASE ~ (tries[w] < WriteMaxRetries)
  <2>1. phase' = [phase EXCEPT ![w] = "failed"] /\ OnlyNew
    BY <1>3 DEF Retry, OnlyNew
  <2>2. /\ phase' \in [Writes -> {"none", "waiting", "batch", "single"} \cup Settled]
        /\ \A v \in Writes : phase'[v] = "ok" => phase[v] = "ok"
    BY <2>1 DEF IInv, Shapes, Settled
  <2> QED
    BY <1>1, <2>1, <2>2, QuietIInv
<1> QED
  BY <1>2, <1>3

LEMMA EnqueueIInv == ASSUME IInv, NEW w \in Writes, Enqueue(w) PROVE IInv'
<1>1. /\ phase' = [phase EXCEPT ![w] = "waiting"]
      /\ UNCHANGED <<result, uploads>>
      /\ past' = [past EXCEPT !.alone = @ \cup {w}] \/ past' = past
  BY DEF Enqueue
<1>2. past' = [past EXCEPT !.alone = past'.alone, !.abandoned = past'.abandoned]
  BY <1>1 DEF IInv, Shapes
<1>3. /\ phase' \in [Writes -> {"none", "waiting", "batch", "single"} \cup Settled]
      /\ \A v \in Writes : phase'[v] = "ok" => phase[v] = "ok"
  BY <1>1 DEF IInv, Shapes
<1>4. OnlyNew
  BY <1>1 DEF OnlyNew
<1> QED
  BY <1>1, <1>2, <1>3, <1>4, QuietIInv

LEMMA FlushIInv == ASSUME IInv, Flush PROVE IInv'
<1>1. /\ phase' = [w \in Writes |-> IF w \in ToSet(pending) THEN "batch" ELSE phase[w]]
      /\ UNCHANGED <<result, uploads, past>>
  BY DEF Flush
<1>2. past' = [past EXCEPT !.alone = past'.alone, !.abandoned = past'.abandoned]
  BY <1>1 DEF IInv, Shapes
<1>3. /\ phase' \in [Writes -> {"none", "waiting", "batch", "single"} \cup Settled]
      /\ \A v \in Writes : phase'[v] = "ok" => phase[v] = "ok"
  BY <1>1 DEF IInv, Shapes
<1>4. OnlyNew
  BY <1>1 DEF OnlyNew
<1> QED
  BY <1>1, <1>2, <1>3, <1>4, QuietIInv

LEMMA ChunkIInv ==
  ASSUME IInv, NEW h \in Writes,
         Receive(h) \/ Refuse(h) \/ ChunkAnswered(h) \/ Break(h)
  PROVE  IInv'
<1>1. CASE Receive(h)
  <2>1. UNCHANGED <<phase, result, past>> /\ OnlyNew
    BY <1>1 DEF Receive, OnlyNew
  <2>2. past' = [past EXCEPT !.alone = past'.alone, !.abandoned = past'.abandoned]
    BY <2>1 DEF IInv, Shapes
  <2>3. /\ phase' \in [Writes -> {"none", "waiting", "batch", "single"} \cup Settled]
        /\ \A v \in Writes : phase'[v] = "ok" => phase[v] = "ok"
    BY <2>1 DEF IInv, Shapes
  <2> QED
    BY <2>1, <2>2, <2>3, QuietIInv
<1>2. CASE Refuse(h) \/ Break(h)
  <2>1. Fallback(Members(h), Members(h)) /\ UNCHANGED result
    BY <1>2 DEF Refuse, Break
  <2>2. past' = [past EXCEPT !.abandoned = past'.abandoned]
    BY <1>2 DEF Refuse, Break, IInv, Shapes
  <2>3. \A w \in Writes : w \in Members(h) \ Members(h) => result[w] = "ok"
    OBVIOUS
  <2> QED
    BY <2>1, <2>2, <2>3, FallbackIInv
<1>3. CASE ChunkAnswered(h)
  <2> DEFINE W == {w \in Members(h) : ~ Accepted(w)}
  <2>1. Fallback(Members(h), W) /\ UNCHANGED <<result, past>>
    BY <1>3 DEF ChunkAnswered
  <2>2. past' = [past EXCEPT !.abandoned = past'.abandoned]
    BY <2>1 DEF IInv, Shapes
  <2>3. \A w \in Writes : w \in Members(h) \ W => result[w] = "ok"
    BY DEF Accepted
  <2> HIDE DEF W
  <2> QED
    BY <2>1, <2>2, <2>3, FallbackIInv
<1> QED
  BY <1>1, <1>2, <1>3

\* The upstream stores a write: the upload has landed, and it is stored.
LEMMA LandIInv == ASSUME IInv, NEW u \in uploads, Land(u) PROVE IInv'
<1> DEFINE v == [u EXCEPT !.landed = TRUE]
<1>1. /\ uploads' = (uploads \ {u}) \cup {v}
      /\ past' = [past EXCEPT !.stored = @ \cup {u.of}]
      /\ UNCHANGED <<phase, result>>
  BY DEF Land
<1>2. v = [of |-> u.of, via |-> u.via, try |-> u.try, landed |-> TRUE]
  <2>1. u \in [of : {u.of}, via : {u.via}, try : {u.try}, landed : {u.landed}]
    BY DEF IInv, Shapes
  <2>2. v \in [of : {u.of}, via : {u.via}, try : {u.try}, landed : {TRUE}]
    BY <2>1
  <2> HIDE DEF v
  <2> QED
    BY <2>2
<1> HIDE DEF v
<1>3. /\ past' = [stored |-> past'.stored, alone |-> past'.alone,
                  abandoned |-> past'.abandoned]
      /\ past'.stored = past.stored \cup {u.of}
  BY <1>1 DEF IInv, Shapes
<1>4. ASSUME NEW x \in uploads'
      PROVE  /\ x = [of |-> x.of, via |-> x.via, try |-> x.try, landed |-> x.landed]
             /\ x.landed = TRUE => x.of \in past'.stored
  <2>1. CASE x \in uploads
    BY <1>3, <2>1 DEF IInv, Shapes, LandedIsStored
  <2>2. CASE x = v
    BY <1>2, <1>3, <2>2
  <2> QED
    BY <1>1, <1>4, <2>1, <2>2
<1>5. Shapes' /\ LandedIsStored'
  BY <1>1, <1>3, <1>4 DEF IInv, Shapes, LandedIsStored
<1>6. ResultIsTrue' /\ SavedWasStored'
  BY <1>1, <1>3 DEF IInv, ResultIsTrue, SavedWasStored
<1> QED
  BY <1>5, <1>6 DEF IInv

\* The server notes the result of a write of a chunk.
LEMMA BatchUploadEndsIInv ==
  ASSUME IInv, NEW u \in uploads, NEW how, BatchUploadEnds(u, how)
  PROVE  IInv'
<1>1. UNCHANGED <<phase, past>> /\ OnlyNew /\ (how = "ok" => u.landed)
  BY DEF BatchUploadEnds, OnlyNew
<1>2. past' = [past EXCEPT !.alone = past'.alone, !.abandoned = past'.abandoned]
  BY <1>1 DEF IInv, Shapes
<1>3. /\ \A x \in uploads' :
           x = [of |-> x.of, via |-> x.via, try |-> x.try, landed |-> x.landed]
      /\ past' = [stored |-> past'.stored, alone |-> past'.alone,
                  abandoned |-> past'.abandoned]
      /\ past'.stored = past.stored
      /\ LandedIsStored'
  BY <1>1, <1>2, UploadsIInv
<1>4. \/ result' = result
      \/ result' = [result EXCEPT ![u.of] = "bad"]
      \/ result' = [result EXCEPT ![u.of] = "ok"] /\ u.landed
  BY <1>1 DEF BatchUploadEnds
<1>5. Shapes' /\ SavedWasStored'
  BY <1>1, <1>3, <1>4 DEF IInv, Shapes, SavedWasStored
<1>6. ResultIsTrue'
  <2>1. u.landed => u.of \in past.stored
    BY DEF IInv, LandedIsStored, Shapes
  <2> QED
    BY <1>3, <1>4, <2>1 DEF IInv, Shapes, ResultIsTrue
<1> QED
  BY <1>3, <1>5, <1>6 DEF IInv

LEMMA SingleIInv ==
  ASSUME IInv, NEW u \in uploads,
         \/ \E how \in {"ok", "refused", "error"} : SingleEnds(u, how)
         \/ LoseSingle(u) \/ Drop(u)
  PROVE  IInv'
<1>1. ASSUME SingleEnds(u, "error") PROVE IInv'
  <2>1. Retry(u.of, uploads \ {u}) /\ UNCHANGED <<result, past>>
    BY <1>1 DEF SingleEnds
  <2>2. past' = [past EXCEPT !.abandoned = past'.abandoned]
    BY <2>1 DEF IInv, Shapes
  <2> QED
    BY <2>1, <2>2, RetryIInv
<1>2. ASSUME NEW how \in {"ok", "refused"}, SingleEnds(u, how) PROVE IInv'
  <2>1. /\ phase' = [phase EXCEPT ![u.of] = how]
        /\ OnlyNew /\ UNCHANGED <<result, past>>
        /\ how = "ok" => u.landed
    BY <1>2 DEF SingleEnds, OnlyNew
  <2>2. past' = [past EXCEPT !.alone = past'.alone, !.abandoned = past'.abandoned]
    BY <2>1 DEF IInv, Shapes
  <2>3. /\ \A x \in uploads' :
             x = [of |-> x.of, via |-> x.via, try |-> x.try, landed |-> x.landed]
        /\ past' = [stored |-> past'.stored, alone |-> past'.alone,
                    abandoned |-> past'.abandoned]
        /\ past'.stored = past.stored
        /\ LandedIsStored'
    BY <2>1, <2>2, UploadsIInv
  <2>4. Shapes' /\ ResultIsTrue'
    BY <2>1, <2>3 DEF IInv, Shapes, ResultIsTrue, Settled
  <2>5. SavedWasStored'
    <3>1. how = "ok" => u.of \in past.stored
      BY <2>1 DEF IInv, LandedIsStored, Shapes
    <3> QED
      BY <2>1, <2>3, <3>1 DEF IInv, Shapes, SavedWasStored
  <2> QED
    BY <2>3, <2>4, <2>5 DEF IInv
<1>3. CASE LoseSingle(u)
  <2>1. Retry(u.of, uploads) /\ UNCHANGED result
    BY <1>3 DEF LoseSingle
  <2>2. past' = [past EXCEPT !.abandoned = past'.abandoned]
    BY <1>3 DEF LoseSingle, IInv, Shapes
  <2> QED
    BY <2>1, <2>2, RetryIInv
<1>4. CASE Drop(u)
  <2>1. UNCHANGED <<phase, result, past>> /\ OnlyNew
    BY <1>4 DEF Drop, OnlyNew
  <2>2. past' = [past EXCEPT !.alone = past'.alone, !.abandoned = past'.abandoned]
    BY <2>1 DEF IInv, Shapes
  <2>3. /\ phase' \in [Writes -> {"none", "waiting", "batch", "single"} \cup Settled]
        /\ \A v \in Writes : phase'[v] = "ok" => phase[v] = "ok"
    BY <2>1 DEF IInv, Shapes
  <2> QED
    BY <2>1, <2>2, <2>3, QuietIInv
<1> QED
  BY <1>1, <1>2, <1>3, <1>4

LEMMA NextIInv == IInv /\ [Next]_vars => IInv'
<1> SUFFICES ASSUME IInv, [Next]_vars PROVE IInv'
  OBVIOUS
<1>1. CASE Progress
  <2>1. ASSUME NEW u \in uploads, NEW how, BatchUploadEnds(u, how) PROVE IInv'
    BY <2>1, BatchUploadEndsIInv
  <2>2. ASSUME NEW u \in uploads,
               \/ \E how \in {"ok", "refused", "error"} : SingleEnds(u, how)
               \/ Drop(u)
        PROVE  IInv'
    BY <2>2, SingleIInv
  <2> QED
    BY <1>1, <2>1, <2>2, FlushIInv, ChunkIInv, LandIInv DEF Progress
<1>2. CASE UNCHANGED vars
  BY <1>2 DEF vars, IInv, Shapes, LandedIsStored, ResultIsTrue, SavedWasStored
<1> QED
  BY <1>1, <1>2, EnqueueIInv, ChunkIInv, SingleIInv DEF Next

\* What is reported comes from what was stored, in every reachable state.
THEOREM Invariance == Spec => []IInv
BY InitIInv, NextIInv, PTL DEF Spec

\* A write that the page reports as saved was stored, also when others of its
\* chunk failed, or it was written alone after that (sendChunk,
\* handleBatchWrite, fetchWriteWithRetry).
THEOREM SavedWrites == Spec => []SavedWasStored
<1>1. IInv => SavedWasStored
  BY DEF IInv
<1> QED
  BY <1>1, Invariance, PTL

-----------------------------------------------------------------------------
(* The theorems                                                             *)

\* The inductive invariant of a write's course holds in every reachable state.
THEOREM CourseHolds == Spec => []Course
BY InitCourse, NextCourse, PTL DEF Spec

\* Every variable has its type; a chunk of several writes keeps to the limit, and
\* no write is in two chunks, nor in a chunk and in the buffer (flush,
\* splitIntoChunks).
THEOREM Typing == Spec => []TypeOK
<1>1. Course => TypeOK
  <2> SUFFICES ASSUME Course PROVE TypeOK
    OBVIOUS
  <2>1. /\ phase \in [Writes -> {"none", "waiting", "batch", "single"} \cup Settled]
        /\ tries \in [Writes -> 0 .. WriteMaxRetries]
        /\ \A h \in Writes : req[h] \in {"none", "sent", "serving", "over"}
    BY DEF Course, Types, Phases
  <2>2. ToSet(pending) = {w \in Writes : phase[w] = "waiting"}
    BY DEF Course, Queued
  <2>3. \A h \in Writes : Len(chunk[h]) > 1 => Bytes(chunk[h]) <= ChunkMaxBytes
    BY BytesIsBytesOf DEF Course, Chunked
  <2>4. \A h, g \in Writes : Members(h) \cap Members(g) # {} => h = g
    BY DEF Course, Chunked
  <2>5. \A u \in uploads : u.try \in 0 .. IF u.via = "batch" THEN RetryMaxAttempts
                                          ELSE WriteMaxRetries
    BY LimitsAssumption DEF Course, Types, UploadRecords, Uploading
  <2> QED BY <2>1, <2>2, <2>3, <2>4, <2>5 DEF TypeOK
<1> QED BY <1>1, CourseHolds, PTL

\* A write of a batch is in an open request, and has its result or an upload; a
\* write that goes alone has a request that the page waits for (sendChunk,
\* fallbackOne, forwardOne, fetchWriteWithRetry).
THEOREM Forgotten == Spec => []NobodyIsForgotten
<1>1. Course => NobodyIsForgotten
  BY DEF Course
<1> QED BY <1>1, CourseHolds, PTL

\* What an upload that was alone on its file has stored, the file holds.
LEMMA AloneIsStored == Course /\ SavedWasStored => SavedIsStored
<1> SUFFICES ASSUME Course, SavedWasStored PROVE SavedIsStored
  OBVIOUS
<1>1. past.alone \subseteq Writes
  BY DEF Course, Types
<1> QED BY <1>1 DEF Course, AloneHolds, SavedWasStored, SavedIsStored

\* A write that is saved was stored, and is what its file holds unless another
\* write of the file was under way or began since, or a request was given up
\* that was being served.
THEOREM SavedIsKept == Spec => []SavedIsStored
<1>1. IInv => SavedWasStored
  BY DEF IInv
<1> QED
  BY <1>1, AloneIsStored, Invariance, CourseHolds, PTL
=============================================================================
