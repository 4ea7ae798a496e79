--------------------------- MODULE TransferProofs ---------------------------
(* Theorems about Transfer, for every address space, every set of options,    *)
(* heap dump, limits and archives of other servers.                           *)
(* They rest on four facts about tar streams: a piece of a stream that reads *)
(* to its end reads as the stream does (ReadingOfPrefix); an archive Write    *)
(* makes is read to its last unit, the dump being its last member             *)
(* (CapturedIsArchive), its members being those Write wrote (Pieces); and an   *)
(* Open extracts at most one dump.                                            *)
EXTENDS Transfer, FiniteSetTheorems, SequenceTheorems, TLAPS

-----------------------------------------------------------------------------
(* Induction and sequences of sequences *)

\* Induction over the naturals, for the set of those that have a property.
LEMMA SetInduction ==
  ASSUME NEW S, 0 \in S, \A n \in Nat : n \in S => n + 1 \in S
  PROVE  Nat \subseteq S
<1>1. SUFFICES ASSUME NEW m \in Nat, m \notin S PROVE FALSE
  OBVIOUS
<1> DEFINE F == {T \in SUBSET (0 .. m) : \E i \in 0 .. m : T = 0 .. i /\ i \notin S}
<1>2. 0 .. m \in F
  BY <1>1
<1>3. F \subseteq FiniteSubsetsOf(0 .. m)
  BY FS_Interval, FS_FiniteSubsetsOfFinite
<1>4. PICK T \in F : \A U \in F : ~ (<<U, T>> \in StrictSubsetOrdering(0 .. m))
  <2> HIDE DEF F
  <2> QED BY <1>2, <1>3, FS_StrictSubsetOrderingWellFounded, WFMin
<1>5. PICK i \in 0 .. m : T = 0 .. i /\ i \notin S
  BY <1>4
<1>6. i # 0 /\ i - 1 \in Nat /\ i - 1 \notin S
  BY <1>5
<1>7. 0 .. (i - 1) \in F
  BY <1>5, <1>6
<1>8. <<0 .. (i - 1), T>> \in StrictSubsetOrdering(0 .. m)
  BY <1>5, <1>6 DEF StrictSubsetOrdering
<1> QED BY <1>4, <1>7, <1>8

\* Induction over 1 .. n from its end.
LEMMA Backwards ==
  ASSUME NEW n \in Nat, NEW S,
         \A p \in 1 .. n : (\A q \in p + 1 .. n : q \in S) => p \in S
  PROVE  \A p \in 1 .. n : p \in S
<1> DEFINE Q == {k \in Nat : \A p \in 1 .. n : p > n - k => p \in S}
<1>1. 0 \in Q
  OBVIOUS
<1>2. ASSUME NEW k \in Nat, k \in Q PROVE k + 1 \in Q
  <2> SUFFICES ASSUME NEW p \in 1 .. n, p > n - (k + 1) PROVE p \in S
    OBVIOUS
  <2>1. \A q \in p + 1 .. n : q \in S
    BY <1>2
  <2> QED BY <2>1
<1>3. n \in Q
  <2> HIDE DEF Q
  <2> QED BY <1>1, <1>2, SetInduction
<1> QED BY <1>3

\* What FlattenSeq goes through: the concatenation of each prefix of ss.
Flattens(g, ss) ==
  /\ g[0] = <<>>
  /\ \A i \in 1 .. Len(ss) : g[i] = g[i - 1] \o ss[i]

\* The function FlattenSeq is defined by exists, and only starts at 1.
LEMMA FlattenPrefixes ==
  ASSUME NEW T, NEW ss \in Seq(Seq(T))
  PROVE  \E g \in [0 .. Len(ss) -> Seq(T)] : Flattens(g, ss) /\ FlattenSeq(ss) = g[Len(ss)]
<1> DEFINE n == Len(ss)
           Fits(g, k) == g[0] = <<>> /\ \A i \in 1 .. k : g[i] = g[i - 1] \o ss[i]
           S == {k \in Nat : k <= n => \E g \in [0 .. n -> Seq(T)] : Fits(g, k)}
<1>0. n \in Nat /\ \A i \in 1 .. n : ss[i] \in Seq(T)
  OBVIOUS
<1> HIDE DEF n
<1>1. 0 \in S
  <2> DEFINE g == [i \in 0 .. n |-> <<>>]
  <2>1. g \in [0 .. n -> Seq(T)] /\ g[0] = <<>>
    BY <1>0
  <2>2. Fits(g, 0)
    <3> HIDE DEF g
    <3> QED BY <2>1
  <2> QED BY <2>1, <2>2
<1>2. ASSUME NEW k \in Nat, k \in S PROVE k + 1 \in S
  <2> SUFFICES ASSUME k + 1 <= n PROVE \E g \in [0 .. n -> Seq(T)] : Fits(g, k + 1)
    <3> HIDE DEF Fits
    <3> QED OBVIOUS
  <2>0. k <= n
    BY <1>0
  <2>1. PICK g \in [0 .. n -> Seq(T)] : Fits(g, k)
    <3> HIDE DEF Fits
    <3> QED BY <1>2, <2>0
  <2>2. g[k] \in Seq(T) /\ ss[k + 1] \in Seq(T)
    BY <1>0
  <2> DEFINE c == g[k] \o ss[k + 1]
             h == [g EXCEPT ![k + 1] = c]
  <2>3. c \in Seq(T)
    BY <2>2
  <2> HIDE DEF c
  <2>4. h \in [0 .. n -> Seq(T)] /\ h[k + 1] = c /\ \A i \in 0 .. k : h[i] = g[i]
    BY <1>0, <2>3
  <2> HIDE DEF h
  <2>5. Fits(h, k + 1)
    <3>1. h[0] = <<>>
      BY <2>1, <2>4
    <3>2. ASSUME NEW i \in 1 .. k + 1 PROVE h[i] = h[i - 1] \o ss[i]
      <4>1. CASE i = k + 1
        <5>1. i - 1 = k /\ k \in 0 .. k
          BY <4>1
        <5>2. h[i - 1] = g[k]
          BY <2>4, <5>1
        <5> QED BY <2>4, <4>1, <5>2 DEF c
      <4>2. CASE i # k + 1
        <5>1. i \in 1 .. k /\ i \in 0 .. k /\ i - 1 \in 0 .. k
          BY <4>2
        <5> QED BY <2>1, <2>4, <5>1
      <4> QED BY <4>1, <4>2
    <3> QED BY <3>1, <3>2
  <2> QED BY <2>4, <2>5
<1>3. PICK g \in [0 .. n -> Seq(T)] : Fits(g, n)
  <2>1. n \in S
    <3> HIDE DEF S
    <3> QED BY <1>0, <1>1, <1>2, SetInduction
  <2> HIDE DEF Fits
  <2> QED BY <1>0, <2>1
<1> DEFINE Iter(f) == f = [i \in 1 .. n |-> IF i = 1 THEN ss[i] ELSE f[i - 1] \o ss[i]]
           iter == CHOOSE f : Iter(f)
<1>4. FlattenSeq(ss) = IF n = 0 THEN ss ELSE iter[n]
  BY DEF FlattenSeq, n
<1>5. Iter([i \in 1 .. n |-> g[i]])
  <2> DEFINE f == [i \in 1 .. n |-> g[i]]
  <2>1. \A i \in 1 .. n : f[i] = IF i = 1 THEN ss[i] ELSE f[i - 1] \o ss[i]
    <3> TAKE i \in 1 .. n
    <3>1. f[i] = g[i - 1] \o ss[i] /\ ss[i] \in Seq(T)
      BY <1>0, <1>3
    <3>2. CASE i = 1
      <4>1. g[i - 1] = <<>>
        BY <1>3, <3>2
      <4> HIDE DEF f
      <4> QED BY <3>1, <3>2, <4>1
    <3>3. CASE i # 1
      <4>1. i - 1 \in 1 .. n
        BY <1>0, <3>3
      <4> QED BY <3>1, <3>3, <4>1
    <3> QED BY <3>2, <3>3
  <2>2. f = [i \in 1 .. n |-> f[i]]
    OBVIOUS
  <2>3. Iter(f)
    <3> HIDE DEF f
    <3> QED BY <2>1, <2>2, ZenonT(30)
  <2> QED BY <2>3
<1>6. Iter(iter)
  <2> HIDE DEF Iter
  <2> QED BY <1>5
<1>7. FlattenSeq(ss) = g[n]
  <2>1. CASE n = 0
    <3>1. ss = <<>>
      BY <2>1 DEF n
    <3> QED BY <1>3, <1>4, <2>1, <3>1
  <2>2. CASE n # 0
    <3> HIDE DEF iter
    <3> DEFINE Q == {k \in Nat : k + 1 <= n => iter[k + 1] = g[k + 1]}
    <3>1. \A i \in 1 .. n : iter[i] = IF i = 1 THEN ss[i] ELSE iter[i - 1] \o ss[i]
      BY <1>6
    <3>2. 0 \in Q
      <4>1. ASSUME 1 <= n PROVE iter[1] = g[1]
        <5>0. 1 \in 1 .. n /\ 1 - 1 = 0
          BY <1>0, <4>1
        <5>1. iter[1] = ss[1] /\ g[1] = g[0] \o ss[1] /\ ss[1] \in Seq(T)
          BY <1>0, <1>3, <3>1, <5>0
        <5>2. g[0] = <<>>
          BY <1>3
        <5> QED BY <5>1, <5>2
      <4> QED BY <4>1
    <3>3. ASSUME NEW k \in Nat, k \in Q PROVE k + 1 \in Q
      <4> SUFFICES ASSUME (k + 1) + 1 <= n PROVE iter[(k + 1) + 1] = g[(k + 1) + 1]
        OBVIOUS
      <4>1. (k + 1) + 1 \in 1 .. n /\ (k + 1) + 1 # 1 /\ ((k + 1) + 1) - 1 = k + 1 /\ k + 1 <= n
        BY <1>0
      <4>2. iter[k + 1] = g[k + 1]
        BY <3>3, <4>1
      <4>3. iter[(k + 1) + 1] = iter[k + 1] \o ss[(k + 1) + 1]
        BY <3>1, <4>1
      <4>4. g[(k + 1) + 1] = g[k + 1] \o ss[(k + 1) + 1]
        BY <1>3, <4>1
      <4> QED BY <4>2, <4>3, <4>4
    <3>4. n - 1 \in Q
      <4> HIDE DEF Q
      <4>1. n - 1 \in Nat
        BY <1>0, <2>2
      <4> QED BY <3>2, <3>3, <4>1, SetInduction
    <3>5. iter[n] = g[n]
      BY <1>0, <2>2, <3>4
    <3> QED BY <1>4, <2>2, <3>5
  <2> QED BY <2>1, <2>2
<1> QED BY <1>3, <1>7 DEF n, Flattens

LEMMA Associative == \A S : \A x, y, z \in Seq(S) : (x \o y) \o z = x \o (y \o z)
BY ConcatAssociative

LEMMA Values == \A n \in Nat : \A V : \A g \in [0 .. n -> V] : g[n] \in V /\ \A j \in 0 .. n : g[j] \in V
OBVIOUS

\* Flattening one after another.
LEMMA FlattenConcat ==
  ASSUME NEW T, NEW a \in Seq(Seq(T)), NEW b \in Seq(Seq(T))
  PROVE  /\ FlattenSeq(a) \in Seq(T) /\ FlattenSeq(b) \in Seq(T)
         /\ FlattenSeq(a \o b) = FlattenSeq(a) \o FlattenSeq(b)
<1>00. \A x, y, z \in Seq(T) : (x \o y) \o z = x \o (y \o z)
  BY Associative, SMTT(30)
<1> DEFINE W == Seq(T)
<1>0. a \in Seq(W) /\ b \in Seq(W) /\ Len(a) \in Nat /\ Len(b) \in Nat
  OBVIOUS
<1>1. /\ a \o b \in Seq(W) /\ Len(a \o b) = Len(a) + Len(b)
      /\ \A i \in 1 .. Len(a) : (a \o b)[i] = a[i]
      /\ \A j \in 1 .. Len(b) : (a \o b)[Len(a) + j] = b[j]
      /\ \A j \in 1 .. Len(b) : b[j] \in W
  <2> HIDE DEF W
  <2> QED BY <1>0
<1>2. PICK ga \in [0 .. Len(a) -> W] : Flattens(ga, a) /\ FlattenSeq(a) = ga[Len(a)]
  BY FlattenPrefixes
<1>3. PICK gb \in [0 .. Len(b) -> W] : Flattens(gb, b) /\ FlattenSeq(b) = gb[Len(b)]
  BY FlattenPrefixes
<1>4. PICK g \in [0 .. Len(a \o b) -> W] :
        Flattens(g, a \o b) /\ FlattenSeq(a \o b) = g[Len(a \o b)]
  BY <1>1, FlattenPrefixes
<1> HIDE DEF W
<1>40. ga[Len(a)] \in W /\ gb[Len(b)] \in W /\ \A j \in 0 .. Len(b) : gb[j] \in W
  BY <1>0, <1>2, <1>3, Values, Zenon
<1> DEFINE P == {i \in Nat : i <= Len(a) => g[i] = ga[i]}
           Good(j) == j <= Len(b) => g[Len(a) + j] = ga[Len(a)] \o gb[j]
           Q == {j \in Nat : Good(j)}
<1>5. Len(a) \in P
  <2>1. 0 \in P
    BY <1>2, <1>4 DEF Flattens
  <2>2. ASSUME NEW i \in Nat, i \in P PROVE i + 1 \in P
    <3> SUFFICES ASSUME i + 1 <= Len(a) PROVE g[i + 1] = ga[i + 1]
      OBVIOUS
    <3>1. /\ i + 1 \in 1 .. Len(a) /\ i + 1 \in 1 .. Len(a \o b) /\ (i + 1) - 1 = i
          /\ i <= Len(a)
      BY <1>0, <1>1
    <3>2. g[i + 1] = g[i] \o (a \o b)[i + 1] /\ ga[i + 1] = ga[i] \o a[i + 1]
      BY <1>2, <1>4, <3>1 DEF Flattens
    <3>3. (a \o b)[i + 1] = a[i + 1] /\ g[i] = ga[i]
      BY <1>1, <2>2, <3>1
    <3> QED BY <3>2, <3>3
  <2> HIDE DEF P
  <2> QED BY <1>0, <2>1, <2>2, SetInduction
<1>6. Len(b) \in Q
  <2>0. ga[Len(a)] \in Seq(T) /\ \A j \in 0 .. Len(b) : gb[j] \in Seq(T)
    BY <1>40 DEF W
  <2>1. 0 \in Q
    <3>1. g[Len(a)] = ga[Len(a)] /\ Len(a) + 0 = Len(a) /\ gb[0] = <<>>
      BY <1>0, <1>3, <1>5 DEF Flattens
    <3>2. ga[Len(a)] \o <<>> = ga[Len(a)]
      BY <2>0
    <3> QED BY <3>1, <3>2
  <2>2. ASSUME NEW j \in Nat, j \in Q PROVE j + 1 \in Q
    <3> SUFFICES Good(j + 1)
      <4> HIDE DEF Good
      <4> QED OBVIOUS
    <3> SUFFICES ASSUME j + 1 <= Len(b)
                 PROVE  g[Len(a) + (j + 1)] = ga[Len(a)] \o gb[j + 1]
      OBVIOUS
    <3>1. /\ j + 1 \in 1 .. Len(b) /\ Len(a) + (j + 1) \in 1 .. Len(a \o b)
          /\ (Len(a) + (j + 1)) - 1 = Len(a) + j /\ j <= Len(b) /\ (j + 1) - 1 = j
          /\ j \in 0 .. Len(b)
      BY <1>0, <1>1
    <3>2. /\ g[Len(a) + (j + 1)] = g[Len(a) + j] \o (a \o b)[Len(a) + (j + 1)]
          /\ gb[j + 1] = gb[j] \o b[j + 1]
      BY <1>3, <1>4, <3>1 DEF Flattens
    <3>3. (a \o b)[Len(a) + (j + 1)] = b[j + 1] /\ g[Len(a) + j] = ga[Len(a)] \o gb[j]
      BY <1>1, <2>2, <3>1
    <3>4. gb[j] \in Seq(T) /\ b[j + 1] \in Seq(T)
      BY <1>1, <2>0, <3>1 DEF W
    <3>5. (ga[Len(a)] \o gb[j]) \o b[j + 1] = ga[Len(a)] \o (gb[j] \o b[j + 1])
      BY <1>00, <1>40, <3>1, <3>4 DEF W
    <3> QED BY <3>2, <3>3, <3>5
  <2> HIDE DEF Q
  <2> QED BY <1>0, <2>1, <2>2, SetInduction
<1>7. FlattenSeq(a \o b) = ga[Len(a)] \o gb[Len(b)]
  BY <1>0, <1>1, <1>4, <1>6
<1>8. ga[Len(a)] \in Seq(T) /\ gb[Len(b)] \in Seq(T)
  BY <1>40 DEF W
<1> QED BY <1>2, <1>3, <1>7, <1>8

LEMMA FlattenOne ==
  ASSUME NEW T, NEW s \in Seq(T)
  PROVE  FlattenSeq(<<s>>) = s /\ FlattenSeq(<<>>) = <<>> /\ <<s>> \in Seq(Seq(T))
<1> DEFINE W == Seq(T)
<1>1. <<s>> \in Seq(W) /\ Len(<<s>>) = 1 /\ <<s>>[1] = s
  OBVIOUS
<1>2. PICK g \in [0 .. 1 -> Seq(T)] : Flattens(g, <<s>>) /\ FlattenSeq(<<s>>) = g[1]
  BY <1>1, FlattenPrefixes
<1>3. g[1] = g[0] \o s /\ g[0] = <<>>
  <2>1. 1 \in 1 .. Len(<<s>>) /\ 1 - 1 = 0
    BY <1>1
  <2> QED BY <1>1, <1>2, <2>1 DEF Flattens
<1>4. FlattenSeq(<<>>) = <<>>
  BY DEF FlattenSeq
<1> QED BY <1>1, <1>2, <1>3, <1>4

\* A part of a sequence of sequences flattens to a prefix of the whole.
LEMMA FlattenSplit ==
  ASSUME NEW T, NEW ss \in Seq(Seq(T)), NEW n \in 0 .. Len(ss)
  PROVE  LET part == FlattenSeq(SubSeq(ss, 1, n))
             rest == FlattenSeq(SubSeq(ss, n + 1, Len(ss)))
         IN /\ part \in Seq(T) /\ rest \in Seq(T) /\ FlattenSeq(ss) = part \o rest
            /\ Len(part) \in 0 .. Len(FlattenSeq(ss))
            /\ part = SubSeq(FlattenSeq(ss), 1, Len(part))
<1> DEFINE W == Seq(T)
           a == SubSeq(ss, 1, n)
           b == SubSeq(ss, n + 1, Len(ss))
           part == FlattenSeq(a)
           rest == FlattenSeq(b)
<1>1. a \in Seq(W) /\ b \in Seq(W) /\ a \o b = ss
  <2>1. ss \in Seq(W) /\ Len(ss) \in Nat
    OBVIOUS
  <2> HIDE DEF W
  <2>2. /\ 1 \in 1 .. Len(ss) + 1 /\ n \in 1 - 1 .. Len(ss) /\ Len(ss) \in n .. Len(ss)
        /\ \A i \in 1 .. Len(ss) : ss[i] \in W
    BY <2>1
  <2>3. a \o b = SubSeq(ss, 1, Len(ss))
    BY <2>1, <2>2, ConcatAdjacentSubSeq
  <2>4. SubSeq(ss, 1, Len(ss)) = ss
    BY <2>1, SubSeqFull
  <2>5. a \in Seq(W) /\ b \in Seq(W)
    BY <2>1, <2>2, SubSeqProperties
  <2> QED BY <2>3, <2>4, <2>5
<1>2. part \in Seq(T) /\ rest \in Seq(T) /\ FlattenSeq(ss) = part \o rest
  <2> HIDE DEF a, b
  <2> QED BY <1>1, FlattenConcat
<1>3. part = SubSeq(part \o rest, 1, Len(part)) /\ Len(part) \in 0 .. Len(part \o rest)
  <2> HIDE DEF part, rest
  <2> QED BY <1>2
<1> QED BY <1>2, <1>3

LEMMA FlattenMore ==
  ASSUME NEW T, NEW ss \in Seq(Seq(T)), NEW n \in 0 .. Len(ss) - 1
  PROVE  FlattenSeq(SubSeq(ss, 1, n + 1)) = FlattenSeq(SubSeq(ss, 1, n)) \o ss[n + 1]
<1> DEFINE W == Seq(T)
           a == SubSeq(ss, 1, n)
           b == <<ss[n + 1]>>
<1>1. a \in Seq(W) /\ b \in Seq(W) /\ SubSeq(ss, 1, n + 1) = a \o b /\ ss[n + 1] \in W
  <2>1. ss \in Seq(W) /\ Len(ss) \in Nat
    OBVIOUS
  <2> HIDE DEF W
  <2>2. /\ 1 \in 1 .. Len(ss) /\ n + 1 \in 1 .. Len(ss) /\ (n + 1) - 1 = n
        /\ \A i \in 1 .. Len(ss) : ss[i] \in W
    BY <2>1
  <2>3. SubSeq(ss, 1, n + 1) = a \o b
    BY <2>1, <2>2, SubSeqRecursiveSecond
  <2>4. a \in Seq(W) /\ ss[n + 1] \in W
    BY <2>1, <2>2, SubSeqProperties
  <2>5. b \in Seq(W)
    BY <2>4
  <2> QED BY <2>3, <2>4, <2>5
<1>2. FlattenSeq(a \o b) = FlattenSeq(a) \o FlattenSeq(b) /\ FlattenSeq(b) = ss[n + 1]
  <2>1. FlattenSeq(b) = ss[n + 1]
    BY <1>1, FlattenOne
  <2> HIDE DEF a, b
  <2> QED BY <1>1, <2>1, FlattenConcat
<1> QED BY <1>1, <1>2

-----------------------------------------------------------------------------
(* Reading a tar stream *)

\* Streams are over sets of units whose headers give the size of a member.
Sized(T) == \A u \in T : u.k = "head" => u.v.size \in Nat

\* The parts of Scan: the end of the member that NextMember finds from p on,
\* that member, and the value at p of a function that Scan is defined by.
StopAt(s, p) == NextMember(s, p).pos + 2 + s[NextMember(s, p).pos].v.size
MemberAt(s, p) ==
  [name |-> s[NextMember(s, p).pos].v.name, type |-> s[NextMember(s, p).pos].v.type,
   size |-> s[NextMember(s, p).pos].v.size,
   body |-> SubSeq(s, NextMember(s, p).pos + 2,
                   IF StopAt(s, p) <= Len(s) + 1 THEN StopAt(s, p) - 1 ELSE Len(s))]
ScanAt(s, from, p) ==
  IF NextMember(s, p).kind # "member"
  THEN [members |-> <<>>, end |-> NextMember(s, p).kind, pos |-> NextMember(s, p).pos,
        last |-> NextMember(s, p).pos - p]
  ELSE IF StopAt(s, p) > Len(s) + 1
  THEN [members |-> <<MemberAt(s, p)>>, end |-> "error", pos |-> p, last |-> 0]
  ELSE [from[StopAt(s, p)] EXCEPT !.members = <<MemberAt(s, p)>> \o @]

IsReading(f, s) == f = [p \in 1 .. Len(s) + 1 |-> ScanAt(s, f, p)]
Reading(s) == CHOOSE f : IsReading(f, s)

LEMMA ScanIsReading == \A s : Scan(s) = Reading(s)[1]
BY DEF Scan, Reading, IsReading, ScanAt, MemberAt, StopAt

\* Where the next header is looked for.
At(p) == p + ((p - 1) % 2)

LEMMA AtIsNext ==
  ASSUME NEW p \in Nat \ {0}
  PROVE  At(p) \in Nat /\ At(p) >= p /\ At(p) <= p + 1 /\ At(p) % 2 = 1 /\ (p % 2 = 1 => At(p) = p)
BY DEF At

\* What Next finds, and where.
LEMMA NextFound ==
  ASSUME NEW T, NEW s \in Seq(T), NEW p \in 1 .. Len(s) + 1
  PROVE  LET next == NextMember(s, p) IN
         /\ next.kind \in {"member", "EOF", "error"}
         /\ next.pos \in Nat
         /\ next.kind = "member" <=>
              At(p) < Len(s) /\ s[At(p)].k = "head" /\ s[At(p) + 1].k = "tail"
         /\ next.kind = "member" => next.pos = At(p)
         /\ next.kind = "EOF" /\ next.pos - p >= 4 =>
              /\ next.pos = At(p) + 4 /\ At(p) + 3 <= Len(s)
              /\ \A i \in 0 .. 3 : s[At(p) + i] = Zero
         /\ At(p) + 3 <= Len(s) /\ (\A i \in 0 .. 3 : s[At(p) + i] = Zero) =>
              next = Verdict("EOF", At(p) + 4)
<1> DEFINE q == At(p)
<1>1. /\ Len(s) \in Nat /\ q \in Nat /\ q >= p /\ q <= p + 1
  <2>1. Len(s) \in Nat /\ p \in Nat \ {0}
    OBVIOUS
  <2> QED BY <2>1, AtIsNext
<1>2. Zero.k = "zero" /\ "zero" # "head"
  BY DEF Zero
<1>3. q = p + ((p - 1) % 2)
  BY DEF At
<1> HIDE DEF q
<1>4. NextMember(s, p) =
        CASE q > Len(s) -> Verdict("EOF", Len(s) + 1)
          [] q = Len(s) -> Verdict("error", q)
          [] q < Len(s) /\ s[q].k = "head" /\ s[q + 1].k = "tail" -> Verdict("member", q)
          [] q + 1 = Len(s) /\ (s[q] = Zero /\ s[q + 1] = Zero) -> Verdict("EOF", q + 2)
          [] q + 2 = Len(s) /\ (s[q] = Zero /\ s[q + 1] = Zero) -> Verdict("error", q)
          [] q + 3 <= Len(s) /\ (s[q] = Zero /\ s[q + 1] = Zero)
               /\ (s[q + 2] = Zero /\ s[(q + 2) + 1] = Zero) -> Verdict("EOF", q + 4)
          [] OTHER -> Verdict("error", q)
  BY <1>3 DEF NextMember
<1> DEFINE four == \A i \in 0 .. 3 : s[q + i] = Zero
<1>5. four <=> s[q] = Zero /\ s[q + 1] = Zero /\ s[q + 2] = Zero /\ s[(q + 2) + 1] = Zero
  <2>1. q + 0 = q /\ (q + 2) + 1 = q + 3 /\ 0 .. 3 = {0, 1, 2, 3}
    BY <1>1
  <2> QED BY <2>1
<1>6. \A k, n : Verdict(k, n).kind = k /\ Verdict(k, n).pos = n
  BY DEF Verdict
<1> HIDE DEF four
<1>7. CASE q > Len(s)
  <2>1. NextMember(s, p) = Verdict("EOF", Len(s) + 1)
    BY <1>1, <1>4, <1>7
  <2> QED BY <1>1, <1>6, <1>7, <2>1 DEF q, four
<1>8. CASE q = Len(s)
  <2>1. NextMember(s, p) = Verdict("error", q)
    BY <1>1, <1>4, <1>8
  <2> QED BY <1>1, <1>6, <1>8, <2>1 DEF q, four
<1>9. CASE q < Len(s) /\ s[q].k = "head" /\ s[q + 1].k = "tail"
  <2>1. NextMember(s, p) = Verdict("member", q) /\ ~ four
    BY <1>1, <1>2, <1>4, <1>5, <1>9
  <2> QED BY <1>1, <1>6, <1>9, <2>1 DEF q, four
<1>10. CASE q < Len(s) /\ ~ (s[q].k = "head" /\ s[q + 1].k = "tail")
  <2>1. CASE q + 1 = Len(s)
    <3>1. NextMember(s, p) \in {Verdict("EOF", q + 2), Verdict("error", q)}
      BY <1>1, <1>2, <1>4, <1>10, <2>1
    <3> QED BY <1>1, <1>6, <1>10, <2>1, <3>1 DEF q, four
  <2>2. CASE q + 2 = Len(s)
    <3>1. NextMember(s, p) = Verdict("error", q)
      BY <1>1, <1>2, <1>4, <1>10, <2>2
    <3> QED BY <1>1, <1>6, <1>10, <2>2, <3>1 DEF q, four
  <2>3. CASE q + 3 <= Len(s) /\ four
    <3>1. NextMember(s, p) = Verdict("EOF", q + 4)
      BY <1>1, <1>2, <1>4, <1>5, <1>10, <2>3
    <3>2. NextMember(s, p).kind = "EOF" /\ NextMember(s, p).pos = q + 4
      BY <1>6, <3>1
    <3>3. \A i \in 0 .. 3 : s[q + i] = Zero
      BY <2>3 DEF four
    <3>4. q + 4 \in Nat
      BY <1>1
    <3> QED BY <1>10, <2>3, <3>1, <3>2, <3>3, <3>4 DEF q
  <2>4. CASE q + 3 <= Len(s) /\ ~ four
    <3>1. NextMember(s, p) = Verdict("error", q)
      BY <1>1, <1>2, <1>4, <1>5, <1>10, <2>4
    <3> QED BY <1>1, <1>6, <1>10, <2>4, <3>1 DEF q, four
  <2> QED BY <1>1, <1>10, <2>1, <2>2, <2>3, <2>4
<1> QED BY <1>1, <1>7, <1>8, <1>9, <1>10

\* A member ends after its start, so Scan goes forward only.
LEMMA StopIsAhead ==
  ASSUME NEW T, Sized(T), NEW s \in Seq(T), NEW p \in 1 .. Len(s) + 1,
         NextMember(s, p).kind = "member"
  PROVE  /\ At(p) \in 1 .. Len(s) - 1 /\ At(p) >= p /\ s[At(p)].v.size \in Nat
         /\ StopAt(s, p) = At(p) + 2 + s[At(p)].v.size
         /\ StopAt(s, p) \in Nat /\ StopAt(s, p) > p + 1
<1>1. /\ At(p) < Len(s) /\ s[At(p)].k = "head" /\ NextMember(s, p).pos = At(p)
  BY NextFound
<1>2. Len(s) \in Nat /\ p \in Nat \ {0}
  OBVIOUS
<1>3. At(p) \in Nat /\ At(p) >= p
  BY <1>2, AtIsNext
<1>4. s[At(p)] \in T
  BY <1>1, <1>2, <1>3
<1>5. s[At(p)].v.size \in Nat
  BY <1>1, <1>4 DEF Sized
<1>6. StopAt(s, p) = At(p) + 2 + s[At(p)].v.size
  BY <1>1 DEF StopAt
<1>7. StopAt(s, p) \in Nat /\ StopAt(s, p) > p + 1
  BY <1>2, <1>3, <1>5, <1>6
<1>8. At(p) \in 1 .. Len(s) - 1
  BY <1>1, <1>2, <1>3
<1> QED BY <1>3, <1>5, <1>6, <1>7, <1>8

\* The value at p depends on those after p only.
LEMMA ScanAhead ==
  ASSUME NEW T, Sized(T), NEW s \in Seq(T), NEW p \in 1 .. Len(s) + 1, NEW f, NEW g,
         \A q \in p + 1 .. Len(s) + 1 : f[q] = g[q]
  PROVE  ScanAt(s, f, p) = ScanAt(s, g, p)
<1>1. CASE NextMember(s, p).kind # "member"
  BY <1>1 DEF ScanAt
<1>2. CASE NextMember(s, p).kind = "member" /\ StopAt(s, p) > Len(s) + 1
  BY <1>2 DEF ScanAt
<1>3. CASE NextMember(s, p).kind = "member" /\ ~ (StopAt(s, p) > Len(s) + 1)
  <2>1. StopAt(s, p) \in Nat /\ StopAt(s, p) > p + 1
    BY <1>3, StopIsAhead
  <2>2. StopAt(s, p) \in p + 1 .. Len(s) + 1
    BY <1>3, <2>1
  <2>3. f[StopAt(s, p)] = g[StopAt(s, p)]
    BY <2>2
  <2> QED BY <1>3, <2>3 DEF ScanAt
<1> QED BY <1>1, <1>2, <1>3

LEMMA ReadingExists ==
  ASSUME NEW T, Sized(T), NEW s \in Seq(T)
  PROVE  IsReading(Reading(s), s)
<1> DEFINE n == Len(s) + 1
           Fits(g, k) == \A p \in 1 .. n : p > n - k => g[p] = ScanAt(s, g, p)
           S == {k \in Nat : \E g : Fits(g, k)}
<1>0. n \in Nat
  OBVIOUS
<1>1. 0 \in S
  <2>1. Fits([p \in 1 .. n |-> 0], 0)
    BY <1>0
  <2> HIDE DEF Fits
  <2> QED BY <2>1
<1>2. ASSUME NEW k \in Nat, k \in S PROVE k + 1 \in S
  <2>1. PICK g : Fits(g, k)
    BY <1>2
  <2> DEFINE h == [p \in 1 .. n |-> IF p > n - k THEN g[p] ELSE ScanAt(s, g, p)]
  <2>2. \A p \in 1 .. n : p > n - k => h[p] = g[p]
    OBVIOUS
  <2>3. \A p \in 1 .. n : ~ (p > n - k) => h[p] = ScanAt(s, g, p)
    OBVIOUS
  <2> HIDE DEF h
  <2>4. ASSUME NEW p \in 1 .. n, p > n - (k + 1) PROVE h[p] = ScanAt(s, h, p)
    <3>1. \A q \in p + 1 .. Len(s) + 1 : h[q] = g[q]
      BY <1>0, <2>2, <2>4
    <3>2. ScanAt(s, h, p) = ScanAt(s, g, p)
      BY <3>1, ScanAhead
    <3>3. h[p] = ScanAt(s, g, p)
      <4>1. CASE p > n - k
        BY <2>1, <2>2, <4>1
      <4>2. CASE ~ (p > n - k)
        BY <2>3, <4>2
      <4> QED BY <4>1, <4>2
    <3> QED BY <3>2, <3>3
  <2>5. Fits(h, k + 1)
    BY <2>4
  <2> HIDE DEF Fits
  <2> QED BY <2>5
<1>3. PICK g : Fits(g, n)
  <2>1. n \in S
    <3> HIDE DEF S, n
    <3> QED BY <1>0, <1>1, <1>2, SetInduction
  <2> HIDE DEF Fits
  <2> QED BY <2>1
<1> DEFINE f == [p \in 1 .. n |-> g[p]]
<1>4. \A p \in 1 .. n : f[p] = ScanAt(s, f, p)
  <2> TAKE p \in 1 .. n
  <2>1. g[p] = ScanAt(s, g, p)
    BY <1>0, <1>3
  <2>2. \A q \in p + 1 .. Len(s) + 1 : f[q] = g[q]
    OBVIOUS
  <2>3. ScanAt(s, f, p) = ScanAt(s, g, p)
    <3> HIDE DEF f
    <3> QED BY <2>2, ScanAhead
  <2> QED BY <2>1, <2>3
<1>5. f = [p \in 1 .. n |-> f[p]]
  OBVIOUS
<1>6. IsReading(f, s)
  <2> HIDE DEF f
  <2> QED BY <1>4, <1>5 DEF IsReading
<1> HIDE DEF f
<1> QED BY <1>6 DEF Reading

\* The members of a stream over T.
MembersOf(T) ==
  {[name |-> u.v.name, type |-> u.v.type, size |-> u.v.size, body |-> b] : u \in T, b \in Seq(T)}
Scans(T) == [members : Seq(MembersOf(T)), end : {"EOF", "error"}, pos : Nat, last : Int]

\* The reading of s from position p on, one step of it.
LEMMA ReadingStep ==
  ASSUME NEW T, Sized(T), NEW s \in Seq(T), NEW p \in 1 .. Len(s) + 1
  PROVE  Reading(s)[p] = ScanAt(s, Reading(s), p)
BY ReadingExists DEF IsReading

LEMMA MemberType ==
  ASSUME NEW T, Sized(T), NEW s \in Seq(T), NEW p \in 1 .. Len(s) + 1,
         NextMember(s, p).kind = "member"
  PROVE  MemberAt(s, p) \in MembersOf(T)
<1>1. /\ At(p) \in 1 .. Len(s) - 1 /\ s[At(p)].v.size \in Nat
      /\ StopAt(s, p) = At(p) + 2 + s[At(p)].v.size /\ NextMember(s, p).pos = At(p)
  BY StopIsAhead, NextFound
<1>2. s[At(p)] \in T /\ Len(s) \in Nat /\ At(p) \in Nat
  BY <1>1
<1> DEFINE stop == IF StopAt(s, p) <= Len(s) + 1 THEN StopAt(s, p) - 1 ELSE Len(s)
<1>3. stop \in Int /\ stop <= Len(s)
  BY <1>1, <1>2
<1> HIDE DEF stop
<1>4. SubSeq(s, At(p) + 2, stop) \in Seq(T)
  <2>1. \A i \in At(p) + 2 .. stop : s[i] \in T
    BY <1>2, <1>3
  <2> QED BY <1>2, <1>3, <2>1, SubSeqProperties
<1>5. MemberAt(s, p) = [name |-> s[At(p)].v.name, type |-> s[At(p)].v.type,
                        size |-> s[At(p)].v.size, body |-> SubSeq(s, At(p) + 2, stop)]
  BY <1>1 DEF MemberAt, stop
<1> DEFINE u == s[At(p)]
           b == SubSeq(s, At(p) + 2, stop)
<1>6. u \in T /\ b \in Seq(T)
  BY <1>2, <1>4
<1>7. MemberAt(s, p) = [name |-> u.v.name, type |-> u.v.type, size |-> u.v.size, body |-> b]
  BY <1>5
<1> HIDE DEF u, b
<1> QED BY <1>6, <1>7 DEF MembersOf

LEMMA ReadingType ==
  ASSUME NEW T, Sized(T), NEW s \in Seq(T)
  PROVE  \A p \in 1 .. Len(s) + 1 : Reading(s)[p] \in Scans(T)
<1> DEFINE n == Len(s) + 1
           S == {p \in 1 .. n : Reading(s)[p] \in Scans(T)}
<1>0. n \in Nat
  OBVIOUS
<1>1. ASSUME NEW p \in 1 .. n, \A q \in p + 1 .. n : q \in S PROVE p \in S
  <2> DEFINE r == Reading(s)[p]
             next == NextMember(s, p)
             m == MemberAt(s, p)
             M == MembersOf(T)
  <2>1. r = ScanAt(s, Reading(s), p)
    BY ReadingStep
  <2>2. next.kind \in {"member", "EOF", "error"} /\ next.pos \in Nat
    BY NextFound
  <2>3. CASE next.kind # "member"
    <3>1. r = [members |-> <<>>, end |-> next.kind, pos |-> next.pos, last |-> next.pos - p]
      BY <2>1, <2>3 DEF ScanAt
    <3> HIDE DEF r, next, M
    <3>2. <<>> \in Seq(M) /\ next.kind \in {"EOF", "error"} /\ next.pos - p \in Int
      BY <2>2, <2>3
    <3>3. r \in Scans(T)
      BY <2>2, <3>1, <3>2 DEF Scans, M
    <3> QED BY <3>3 DEF r
  <2>4. CASE next.kind = "member" /\ StopAt(s, p) > n
    <3>1. r = [members |-> <<m>>, end |-> "error", pos |-> p, last |-> 0]
      BY <2>1, <2>4 DEF ScanAt
    <3>2. m \in M
      BY <2>4, MemberType
    <3> HIDE DEF r, M, m
    <3>3. <<m>> \in Seq(M) /\ p \in Nat
      BY <1>0, <3>2
    <3>4. r \in Scans(T)
      BY <3>1, <3>3 DEF Scans, M
    <3> QED BY <3>4 DEF r
  <2>5. CASE next.kind = "member" /\ ~ (StopAt(s, p) > n)
    <3> DEFINE rest == Reading(s)[StopAt(s, p)]
    <3>1. r = [rest EXCEPT !.members = <<m>> \o @]
      BY <2>1, <2>5 DEF ScanAt
    <3>2. m \in M
      BY <2>5, MemberType
    <3>3. StopAt(s, p) \in p + 1 .. n
      <4>1. StopAt(s, p) \in Nat /\ StopAt(s, p) > p + 1
        BY <2>5, StopIsAhead
      <4> QED BY <1>0, <2>5, <4>1
    <3>4. rest \in Scans(T)
      BY <1>1, <3>3
    <3> HIDE DEF r, M, m, rest
    <3>5. rest.members \in Seq(M) /\ <<m>> \o rest.members \in Seq(M)
      <4>1. rest.members \in Seq(M)
        BY <3>4 DEF Scans, M
      <4> QED BY <3>2, <4>1
    <3>6. r \in Scans(T)
      BY <3>1, <3>4, <3>5 DEF Scans, M
    <3> QED BY <3>6 DEF r
  <2> QED BY <2>3, <2>4, <2>5
<1>2. \A p \in 1 .. n : p \in S
  <2> HIDE DEF S, n
  <2> QED BY <1>0, <1>1, Backwards
<1> QED BY <1>2

\* Scan at a member that is all there.
LEMMA ReadingOn ==
  ASSUME NEW T, Sized(T), NEW s \in Seq(T), NEW p \in 1 .. Len(s) + 1,
         NextMember(s, p).kind = "member", StopAt(s, p) <= Len(s) + 1
  PROVE  LET rest == Reading(s)[StopAt(s, p)] IN
         /\ StopAt(s, p) \in p + 1 .. Len(s) + 1
         /\ rest \in Scans(T) /\ MemberAt(s, p) \in MembersOf(T)
         /\ Reading(s)[p].members = <<MemberAt(s, p)>> \o rest.members
         /\ Reading(s)[p].end = rest.end /\ Reading(s)[p].pos = rest.pos
         /\ Reading(s)[p].last = rest.last
<1> DEFINE r == Reading(s)[p]
           rest == Reading(s)[StopAt(s, p)]
           m == MemberAt(s, p)
<1>1. StopAt(s, p) \in p + 1 .. Len(s) + 1
  <2>1. StopAt(s, p) \in Nat /\ StopAt(s, p) > p + 1
    BY StopIsAhead
  <2> QED BY <2>1
<1>2. StopAt(s, p) \in 1 .. Len(s) + 1
  BY <1>1
<1>3. rest \in Scans(T) /\ m \in MembersOf(T)
  BY <1>2, ReadingType, MemberType
<1>4. ~ (StopAt(s, p) > Len(s) + 1)
  BY <1>1
<1>5. r = [rest EXCEPT !.members = <<m>> \o @]
  BY <1>4, ReadingStep DEF ScanAt
<1> HIDE DEF r, rest, m
<1>6. /\ r.members = <<m>> \o rest.members /\ r.end = rest.end /\ r.pos = rest.pos
      /\ r.last = rest.last
  BY <1>3, <1>5 DEF Scans
<1> QED BY <1>1, <1>3, <1>6 DEF r, rest, m

LEMMA SamePiece ==
  ASSUME NEW s, NEW t, NEW n \in Nat, \A i \in 1 .. n : t[i] = s[i],
         NEW a \in Int, NEW b \in Int, a >= 1, b <= n
  PROVE  SubSeq(s, a, b) = SubSeq(t, a, b)
OBVIOUS

\* A stream read to its end marker reads the same when more follows, and one
\* cut elsewhere reads as a part of the members.
LEMMA ReadingOfPrefix ==
  ASSUME NEW T, Sized(T), NEW s \in Seq(T), NEW n \in 0 .. Len(s)
  PROVE  LET t == SubSeq(s, 1, n) IN
         \A p \in 1 .. n + 1 :
           Reading(t)[p].end = "EOF" =>
             /\ Len(Reading(t)[p].members) <= Len(Reading(s)[p].members)
             /\ \A i \in 1 .. Len(Reading(t)[p].members) :
                  Reading(t)[p].members[i] = Reading(s)[p].members[i]
             /\ Reading(t)[p].last >= 4 => Reading(s)[p] = Reading(t)[p] /\ Reading(t)[p].pos <= n + 1
<1> DEFINE t == SubSeq(s, 1, n)
           Same(p) == Reading(t)[p].end = "EOF" =>
             /\ Len(Reading(t)[p].members) <= Len(Reading(s)[p].members)
             /\ \A i \in 1 .. Len(Reading(t)[p].members) :
                  Reading(t)[p].members[i] = Reading(s)[p].members[i]
             /\ Reading(t)[p].last >= 4 => Reading(s)[p] = Reading(t)[p] /\ Reading(t)[p].pos <= n + 1
           S == {p \in 1 .. n + 1 : Same(p)}
<1>1. /\ t \in Seq(T) /\ Len(t) = n /\ \A i \in 1 .. n : t[i] = s[i]
      /\ n \in Nat /\ Len(s) \in Nat /\ n <= Len(s)
  OBVIOUS
<1> HIDE DEF t
<1>2. ASSUME NEW p \in 1 .. n + 1, \A q \in p + 1 .. n + 1 : q \in S PROVE Same(p)
  <2> DEFINE rt == Reading(t)[p]
             rs == Reading(s)[p]
             M == MembersOf(T)
  <2>0. p \in 1 .. Len(t) + 1 /\ p \in 1 .. Len(s) + 1 /\ p \in Nat \ {0}
    BY <1>1
  <2>1. rt \in Scans(T) /\ rs \in Scans(T) /\ rt = ScanAt(t, Reading(t), p)
    BY <1>1, <2>0, ReadingType, ReadingStep
  <2>2. At(p) \in Nat /\ At(p) >= p
    BY <2>0, AtIsNext
  <2>3. CASE NextMember(t, p).kind # "member"
    <3>1. rt = [members |-> <<>>, end |-> NextMember(t, p).kind, pos |-> NextMember(t, p).pos,
                last |-> NextMember(t, p).pos - p]
      BY <2>1, <2>3 DEF ScanAt
    <3>2. ASSUME rt.end = "EOF" PROVE Len(rt.members) <= Len(rs.members) /\ Len(rt.members) = 0
      <4>1. Len(rs.members) \in Nat
        <5>1. rs.members \in Seq(M)
          BY <2>1 DEF Scans
        <5> HIDE DEF M, rs
        <5> QED BY <5>1
      <4>2. rt.members = <<>>
        BY <3>1
      <4> HIDE DEF rt, rs
      <4> QED BY <4>1, <4>2
    <3>3. ASSUME rt.end = "EOF", rt.last >= 4 PROVE rs = rt /\ rt.pos <= n + 1
      <4>1. /\ NextMember(t, p).pos = At(p) + 4 /\ At(p) + 3 <= Len(t)
            /\ \A i \in 0 .. 3 : t[At(p) + i] = Zero
        <5>1. NextMember(t, p).kind = "EOF" /\ NextMember(t, p).pos - p >= 4
          BY <3>1, <3>3
        <5> QED BY <1>1, <2>0, <5>1, NextFound
      <4>2. At(p) + 3 <= Len(s) /\ \A i \in 0 .. 3 : s[At(p) + i] = Zero
        <5>1. At(p) + 3 <= Len(s) /\ \A i \in 0 .. 3 : At(p) + i \in 1 .. n
          BY <1>1, <2>0, <2>2, <4>1
        <5>2. \A i \in 0 .. 3 : t[At(p) + i] = s[At(p) + i]
          BY <1>1, <5>1, Zenon
        <5> QED BY <4>1, <5>1, <5>2, Zenon
      <4>3. NextMember(s, p) = Verdict("EOF", At(p) + 4)
        BY <2>0, <4>2, NextFound
      <4>4. NextMember(s, p).kind = "EOF" /\ NextMember(s, p).pos = At(p) + 4
        BY <4>3 DEF Verdict
      <4>5. rs = ScanAt(s, Reading(s), p)
        BY <2>0, ReadingStep
      <4>6. rs = [members |-> <<>>, end |-> "EOF", pos |-> At(p) + 4, last |-> (At(p) + 4) - p]
        BY <4>4, <4>5 DEF ScanAt
      <4>7. NextMember(t, p).kind = "EOF"
        BY <3>1, <3>3
      <4>8. At(p) + 4 <= n + 1
        BY <1>1, <2>2, <4>1
      <4> QED BY <3>1, <4>1, <4>6, <4>7, <4>8
    <3> HIDE DEF rt, rs
    <3>4. Same(p)
      BY <3>2, <3>3 DEF rt, rs
    <3> QED BY <3>4
  <2>4. CASE NextMember(t, p).kind = "member" /\ StopAt(t, p) > Len(t) + 1
    <3>1. rt = [members |-> <<MemberAt(t, p)>>, end |-> "error", pos |-> p, last |-> 0]
      BY <2>1, <2>4 DEF ScanAt
    <3>2. rt.end # "EOF"
      BY <3>1
    <3> QED BY <3>2
  <2>5. CASE NextMember(t, p).kind = "member" /\ ~ (StopAt(t, p) > Len(t) + 1)
    <3>0. At(p) < Len(t) /\ t[At(p)].k = "head" /\ t[At(p) + 1].k = "tail"
      BY <1>1, <2>0, <2>5, NextFound
    <3>00. t[At(p)] = s[At(p)] /\ t[At(p) + 1] = s[At(p) + 1] /\ At(p) < Len(s)
      BY <1>1, <2>2, <2>0, <3>0
    <3>1. NextMember(s, p).kind = "member"
      BY <2>0, <3>0, <3>00, NextFound
    <3>2. /\ StopAt(t, p) = At(p) + 2 + t[At(p)].v.size /\ StopAt(t, p) \in Nat
          /\ t[At(p)].v.size \in Nat
          /\ NextMember(t, p).pos = At(p) /\ NextMember(s, p).pos = At(p)
      BY <1>1, <2>0, <2>5, <3>1, StopIsAhead, NextFound
    <3>3. StopAt(s, p) = StopAt(t, p) /\ StopAt(t, p) <= Len(t) + 1 /\ StopAt(s, p) <= Len(s) + 1
      <4>1. StopAt(s, p) = At(p) + 2 + s[At(p)].v.size
        BY <2>0, <3>1, StopIsAhead
      <4>2. StopAt(s, p) = StopAt(t, p)
        BY <3>00, <3>2, <4>1
      <4>3. StopAt(t, p) <= Len(t) + 1
        BY <1>1, <2>5, <3>2
      <4> QED BY <1>1, <3>2, <4>2, <4>3
    <3>4. MemberAt(s, p) = MemberAt(t, p)
      <4>1. SubSeq(s, At(p) + 2, StopAt(t, p) - 1) = SubSeq(t, At(p) + 2, StopAt(t, p) - 1)
        <5>1. At(p) + 2 \in Int /\ StopAt(t, p) - 1 \in Int /\ At(p) + 2 >= 1 /\ StopAt(t, p) - 1 <= n
          BY <1>1, <2>2, <3>2, <3>3
        <5> DEFINE a == At(p) + 2
                   b == StopAt(t, p) - 1
        <5>2. a \in Int /\ b \in Int /\ a >= 1 /\ b <= n
          BY <5>1
        <5> HIDE DEF a, b
        <5>3. SubSeq(s, a, b) = SubSeq(t, a, b)
          BY <1>1, <5>2, SamePiece
        <5> QED BY <5>3 DEF a, b
      <4> QED BY <3>00, <3>2, <3>3, <4>1 DEF MemberAt
    <3> DEFINE stop == StopAt(t, p)
               tt == Reading(t)[stop]
               ss == Reading(s)[stop]
               m == MemberAt(t, p)
    <3>5. /\ stop \in p + 1 .. Len(t) + 1
          /\ tt \in Scans(T) /\ m \in M
          /\ rt.members = <<m>> \o tt.members
          /\ rt.end = tt.end /\ rt.pos = tt.pos /\ rt.last = tt.last
      BY <1>1, <2>0, <2>5, <3>3, ReadingOn
    <3>6. /\ ss \in Scans(T)
          /\ rs.members = <<m>> \o ss.members
          /\ rs.end = ss.end /\ rs.pos = ss.pos /\ rs.last = ss.last
      BY <2>0, <3>1, <3>3, <3>4, ReadingOn
    <3>7. Same(stop)
      <4>1. stop \in S
        BY <1>1, <1>2, <3>5
      <4> QED BY <4>1
    <3>8. /\ tt.end = "EOF" =>
               /\ Len(tt.members) <= Len(ss.members)
               /\ \A i \in 1 .. Len(tt.members) : tt.members[i] = ss.members[i]
               /\ tt.last >= 4 => ss = tt /\ tt.pos <= n + 1
      BY <3>7
    <3> HIDE DEF rt, rs, tt, ss, m, M, stop, Same
    <3>9. tt.members \in Seq(M) /\ ss.members \in Seq(M)
      BY <3>5, <3>6 DEF Scans, M
    <3>10. ASSUME rt.end = "EOF"
           PROVE  /\ Len(rt.members) <= Len(rs.members)
                  /\ \A i \in 1 .. Len(rt.members) : rt.members[i] = rs.members[i]
      <4> DEFINE a == tt.members
                 b == ss.members
      <4>1. /\ a \in Seq(M) /\ b \in Seq(M) /\ Len(a) <= Len(b)
            /\ \A i \in 1 .. Len(a) : a[i] = b[i]
        BY <3>5, <3>8, <3>9, <3>10
      <4> HIDE DEF a, b
      <4>2. /\ Len(<<m>> \o a) <= Len(<<m>> \o b)
            /\ \A i \in 1 .. Len(<<m>> \o a) : (<<m>> \o a)[i] = (<<m>> \o b)[i]
        BY <3>5, <4>1
      <4> QED BY <3>5, <3>6, <4>2 DEF a, b
    <3>11. ASSUME rt.end = "EOF", rt.last >= 4 PROVE rs = rt /\ rt.pos <= n + 1
      <4>1. ss = tt /\ tt.pos <= n + 1
        BY <3>5, <3>8, <3>11
      <4>2. rs.members = rt.members /\ rs.end = rt.end /\ rs.pos = rt.pos /\ rs.last = rt.last
        BY <3>5, <3>6, <4>1
      <4>3. /\ rs = [members |-> rs.members, end |-> rs.end, pos |-> rs.pos, last |-> rs.last]
            /\ rt = [members |-> rt.members, end |-> rt.end, pos |-> rt.pos, last |-> rt.last]
        BY <2>1 DEF Scans
      <4>4. rs = rt
        BY <4>2, <4>3, Zenon
      <4> QED BY <3>5, <4>1, <4>4
    <3> QED BY <3>10, <3>11 DEF Same, rt, rs
  <2> QED BY <2>3, <2>4, <2>5
<1>3. \A p \in 1 .. n + 1 : p \in S
  <2>1. n + 1 \in Nat
    BY <1>1
  <2>2. \A p \in 1 .. n + 1 : (\A q \in p + 1 .. n + 1 : q \in S) => p \in S
    <3> HIDE DEF Same
    <3> QED BY <1>2
  <2> HIDE DEF S
  <2> QED BY <2>1, <2>2, Backwards
<1>4. \A p \in 1 .. n + 1 : Same(p)
  <2> HIDE DEF Same
  <2> QED BY <1>3
<1> QED BY <1>4 DEF t

-----------------------------------------------------------------------------
(* What is written is read back *)

HeadUnit(name, size) ==
  [k |-> "head", v |-> [name |-> name, type |-> "regular", size |-> size]]
TailUnit == [k |-> "tail", v |-> 0]

\* A set of units that members with names in N can be written with.
Tarry(T, N) ==
  /\ Sized(T) /\ Zero \in T /\ TailUnit \in T
  /\ \A name \in N, size \in Nat : HeadUnit(name, size) \in T

Written(name, units) == FlattenSeq(writeMember(name, units))

LEMMA FlattenSingles ==
  ASSUME NEW T, NEW units \in Seq(T)
  PROVE  LET ss == [i \in DOMAIN units |-> <<units[i]>>]
         IN ss \in Seq(Seq(T)) /\ FlattenSeq(ss) = units
<1> DEFINE n == Len(units)
           ss == [i \in DOMAIN units |-> <<units[i]>>]
           W == Seq(T)
<1>0. n \in Nat /\ DOMAIN units = 1 .. n /\ \A i \in 1 .. n : units[i] \in T
  OBVIOUS
<1>1. \A i \in 1 .. n : <<units[i]>> \in W
  BY <1>0
<1>2. ss \in Seq(W) /\ Len(ss) = n /\ \A i \in 1 .. n : ss[i] = <<units[i]>>
  <2> HIDE DEF W, n
  <2> QED BY <1>0, <1>1
<1>3. PICK g \in [0 .. n -> Seq(T)] : Flattens(g, ss) /\ FlattenSeq(ss) = g[n]
  <2> HIDE DEF ss, n
  <2> QED BY <1>2, FlattenPrefixes
<1> DEFINE Good(k) == k <= n => g[k] = SubSeq(units, 1, k)
           Q == {k \in Nat : Good(k)}
<1> HIDE DEF ss
<1>4. Good(0)
  BY <1>3 DEF Flattens
<1>5. ASSUME NEW k \in Nat, Good(k) PROVE Good(k + 1)
  <2> SUFFICES ASSUME k + 1 <= n PROVE g[k + 1] = SubSeq(units, 1, k + 1)
    OBVIOUS
  <2>1. k + 1 \in 1 .. n /\ (k + 1) - 1 = k /\ k <= n
    BY <1>0
  <2>2. g[k + 1] = g[k] \o <<units[k + 1]>>
    BY <1>2, <1>3, <2>1 DEF Flattens
  <2>3. SubSeq(units, 1, k + 1) = SubSeq(units, 1, k) \o <<units[k + 1]>>
    <3>1. 1 \in 1 .. Len(units) /\ k + 1 \in 1 .. Len(units)
      BY <2>1
    <3> QED BY <2>1, <3>1, SubSeqRecursiveSecond
  <2> QED BY <1>5, <2>1, <2>2, <2>3
<1>6. n \in Q
  <2>1. 0 \in Q /\ \A k \in Nat : k \in Q => k + 1 \in Q
    <3> HIDE DEF Good
    <3> QED BY <1>4, <1>5
  <2> HIDE DEF Q, n
  <2> QED BY <1>0, <2>1, SetInduction
<1>7. g[n] = SubSeq(units, 1, n)
  BY <1>0, <1>6
<1>8. SubSeq(units, 1, n) = units
  BY SubSeqFull
<1> QED BY <1>2, <1>3, <1>7, <1>8 DEF ss

\* j is x, y and z one after another.
IsJoined(j, x, y, z) ==
  /\ Len(j) = Len(x) + Len(y) + Len(z)
  /\ \A i \in 1 .. Len(x) : j[i] = x[i]
  /\ \A i \in 1 .. Len(y) : j[Len(x) + i] = y[i]
  /\ \A i \in 1 .. Len(z) : j[Len(x) + Len(y) + i] = z[i]

LEMMA Joined ==
  \A T : \A x, y, z \in Seq(T) : (x \o y) \o z \in Seq(T) /\ IsJoined((x \o y) \o z, x, y, z)
<1> SUFFICES ASSUME NEW T, NEW x \in Seq(T), NEW y \in Seq(T), NEW z \in Seq(T)
             PROVE  (x \o y) \o z \in Seq(T) /\ IsJoined((x \o y) \o z, x, y, z)
  OBVIOUS
<1> QED BY DEF IsJoined

LEMMA Parity ==
  \A l, n \in Nat : l % 2 = 0 => (l + n) % 2 = n % 2
OBVIOUS

\* A member as it is in the stream: an even number of units.
LEMMA WrittenStream ==
  ASSUME NEW T, NEW N, Tarry(T, N), NEW name \in N, NEW units \in Seq(T)
  PROVE  LET w == Written(name, units)
             z == Len(units)
         IN /\ writeMember(name, units) \in Seq(Seq(T))
            /\ w \in Seq(T) /\ Len(w) % 2 = 0 /\ Len(w) = 2 + z + (z % 2)
            /\ w[1] = HeadUnit(name, z) /\ w[2] = TailUnit
            /\ \A i \in 1 .. z : w[2 + i] = units[i]
<1> DEFINE z == Len(units)
           W == Seq(T)
           first == <<HeadUnit(name, z), TailUnit>>
           body == [i \in DOMAIN units |-> <<units[i]>>]
           pad == IF z % 2 = 1 THEN <<Zero>> ELSE <<>>
           padding == IF z % 2 = 1 THEN << <<Zero>> >> ELSE <<>>
<1>1. z \in Nat /\ Zero \in T /\ TailUnit \in T /\ HeadUnit(name, z) \in T
  BY DEF Tarry
<1>2. writeMember(name, units) = (<<first>> \o body) \o padding
  BY DEF writeMember, MemberChunks, HeadUnit, TailUnit
<1>3. body \in Seq(W) /\ FlattenSeq(body) = units
  BY FlattenSingles
<1>4. first \in W /\ <<first>> \in Seq(W) /\ FlattenSeq(<<first>>) = first
  <2>1. first \in W
    <3> HIDE DEF z
    <3> QED BY <1>1
  <2> HIDE DEF first
  <2> QED BY <2>1, FlattenOne
<1>5. padding \in Seq(W) /\ FlattenSeq(padding) = pad /\ pad \in W
  <2>1. CASE z % 2 = 1
    <3>1. <<Zero>> \in Seq(T)
      BY <1>1
    <3>2. << <<Zero>> >> \in Seq(Seq(T)) /\ FlattenSeq(<< <<Zero>> >>) = <<Zero>>
      BY <3>1, FlattenOne
    <3> QED BY <2>1, <3>1, <3>2
  <2>2. CASE z % 2 # 1
    <3>1. <<>> \in Seq(Seq(T)) /\ <<>> \in Seq(T) /\ FlattenSeq(<<>>) = <<>>
      BY EmptySeq DEF FlattenSeq
    <3> QED BY <2>2, <3>1
  <2> QED BY <2>1, <2>2
<1> HIDE DEF first, body, padding
<1>6. <<first>> \o body \in Seq(W) /\ FlattenSeq(<<first>> \o body) = first \o units
  <2>1. <<first>> \o body \in Seq(W)
    <3> HIDE DEF W
    <3> QED BY <1>3, <1>4
  <2> QED BY <1>3, <1>4, <2>1, FlattenConcat
<1>7. (<<first>> \o body) \o padding \in Seq(W)
  <2> HIDE DEF W
  <2> QED BY <1>5, <1>6
<1>8. FlattenSeq((<<first>> \o body) \o padding) = (first \o units) \o pad
  <2> DEFINE c == <<first>> \o body
  <2>1. c \in Seq(Seq(T)) /\ FlattenSeq(c) = first \o units /\ padding \in Seq(Seq(T))
    BY <1>5, <1>6
  <2> HIDE DEF c
  <2>2. FlattenSeq(c \o padding) = FlattenSeq(c) \o FlattenSeq(padding)
    BY <2>1, FlattenConcat
  <2> QED BY <1>5, <2>1, <2>2 DEF c
<1>9. /\ Len(first) = 2 /\ first[1] = HeadUnit(name, z) /\ first[2] = TailUnit
      /\ Len(pad) = z % 2 /\ z % 2 \in {0, 1}
  BY <1>1 DEF first
<1>10. first \in Seq(T) /\ pad \in Seq(T) /\ Len(units) = z
  BY <1>4, <1>5
<1> DEFINE w == (first \o units) \o pad
<1> HIDE DEF pad, z
<1>11. /\ w \in Seq(T) /\ Len(w) = 2 + z + (z % 2) /\ w[1] = first[1] /\ w[2] = first[2]
       /\ \A i \in 1 .. z : w[2 + i] = units[i]
  <2>1. /\ w \in Seq(T) /\ Len(w) = Len(first) + Len(units) + Len(pad)
        /\ \A i \in 1 .. Len(first) : w[i] = first[i]
        /\ \A i \in 1 .. Len(units) : w[Len(first) + i] = units[i]
    <3>1. w \in Seq(T) /\ IsJoined(w, first, units, pad)
      BY <1>10, Joined
    <3> HIDE DEF w
    <3> QED BY <3>1 DEF IsJoined
  <2> HIDE DEF w
  <2>2. 1 \in 1 .. Len(first) /\ 2 \in 1 .. Len(first)
    BY <1>9
  <2> QED BY <1>1, <1>9, <1>10, <2>1, <2>2
<1>12. (2 + z + (z % 2)) % 2 = 0
  BY <1>1
<1> HIDE DEF w
<1> QED BY <1>2, <1>7, <1>8, <1>9, <1>11, <1>12 DEF Written, w, z

\* A reading that starts in the padding finds what one after it finds.
LEMMA ReadingFromPadding ==
  ASSUME NEW T, Sized(T), NEW s \in Seq(T), NEW p \in 1 .. Len(s) + 1,
         NEW q \in 1 .. Len(s) + 1, At(p) = At(q)
  PROVE  /\ Reading(s)[p].members = Reading(s)[q].members
         /\ Reading(s)[p].end = Reading(s)[q].end
         /\ Reading(s)[p].end = "EOF" => Reading(s)[p].pos = Reading(s)[q].pos
<1>1. NextMember(s, p) = NextMember(s, q)
  BY DEF NextMember, At
<1>2. StopAt(s, p) = StopAt(s, q) /\ MemberAt(s, p) = MemberAt(s, q)
  BY <1>1 DEF StopAt, MemberAt
<1>3. Reading(s)[p] = ScanAt(s, Reading(s), p) /\ Reading(s)[q] = ScanAt(s, Reading(s), q)
  BY ReadingStep
<1>4. CASE NextMember(s, p).kind # "member"
  BY <1>1, <1>3, <1>4 DEF ScanAt
<1>5. CASE NextMember(s, p).kind = "member" /\ StopAt(s, p) > Len(s) + 1
  BY <1>1, <1>2, <1>3, <1>5 DEF ScanAt
<1>6. CASE NextMember(s, p).kind = "member" /\ ~ (StopAt(s, p) > Len(s) + 1)
  BY <1>1, <1>2, <1>3, <1>6 DEF ScanAt
<1> QED BY <1>4, <1>5, <1>6

\* A member as its writer meant it.
WholeMember(name, units) ==
  [name |-> name, type |-> "regular", size |-> Len(units), body |-> units]

\* Reading x finds the member m, and then what y finds.
OneMore(T, x, y, m) ==
  /\ x \in Scans(T) /\ y \in Scans(T) /\ x.end = y.end
  /\ x.end = "EOF" => x.pos = y.pos
  /\ m \in MembersOf(T) /\ x.members = <<m>> \o y.members

\* What is found unit by unit is found as a piece.
LEMMA FoundPiece ==
  ASSUME NEW T, NEW a \in Seq(T), NEW u \in Seq(T), NEW q \in Nat, q + Len(u) <= Len(a),
         \A i \in 1 .. Len(u) : a[q + i] = u[i]
  PROVE  SubSeq(a, q + 1, q + Len(u)) = u
<1> DEFINE n == Len(u)
<1>1. n \in Nat /\ q + n <= Len(a) /\ Len(a) \in Nat /\ \A i \in 1 .. n : a[q + i] = u[i]
  OBVIOUS
<1> HIDE DEF n
<1>2. SubSeq(a, q + 1, q + n) = [i \in 1 .. n |-> a[q + i]]
  <2>1. (q + n) - (q + 1) + 1 = n /\ \A i \in 1 .. n : (q + 1) + i - 1 = q + i
    BY <1>1
  <2> QED BY <1>1, <2>1
<1>3. u = [i \in 1 .. n |-> u[i]]
  BY DEF n
<1>4. [i \in 1 .. n |-> a[q + i]] = [i \in 1 .. n |-> u[i]]
  BY <1>1
<1> QED BY <1>2, <1>3, <1>4 DEF n

\* A member written after an even number of units is read where it is, as it
\* was written.
LEMMA WrittenIsRead ==
  ASSUME NEW T, NEW N, Tarry(T, N), NEW name \in N, NEW units \in Seq(T),
         NEW X \in Seq(T), NEW Y \in Seq(T), Len(X) % 2 = 0
  PROVE  LET w == Written(name, units)
             a == (X \o w) \o Y
         IN /\ a \in Seq(T) /\ (Len(X) + Len(w)) % 2 = 0
            /\ OneMore(T, Reading(a)[Len(X) + 1], Reading(a)[Len(X) + Len(w) + 1],
                       WholeMember(name, units))
<1> DEFINE w == Written(name, units)
           z == Len(units)
           l == Len(X)
           a == (X \o w) \o Y
           p == l + 1
           e == l + Len(w) + 1
<1>1. /\ w \in Seq(T) /\ Len(w) % 2 = 0 /\ Len(w) = 2 + z + (z % 2)
      /\ w[1] = HeadUnit(name, z) /\ w[2] = TailUnit
      /\ z \in Nat /\ l \in Nat /\ Len(w) \in Nat /\ Len(Y) \in Nat /\ Sized(T)
  <2>1. /\ w \in Seq(T) /\ Len(w) % 2 = 0 /\ Len(w) = 2 + z + (z % 2)
        /\ w[1] = HeadUnit(name, z) /\ w[2] = TailUnit
    BY WrittenStream
  <2> HIDE DEF w
  <2>2. z \in Nat /\ l \in Nat /\ Len(w) \in Nat /\ Len(Y) \in Nat
    BY <2>1
  <2> QED BY <2>1, <2>2 DEF Tarry
<1>22. \A i \in 1 .. z : w[2 + i] = units[i]
  BY WrittenStream
<1> HIDE DEF w
<1>2. /\ a \in Seq(T) /\ Len(a) = l + Len(w) + Len(Y) /\ a[l + 1] = w[1] /\ a[l + 2] = w[2]
  <2> HIDE DEF z
  <2>1. Len(w) >= 2
    BY <1>1
  <2>2. /\ a \in Seq(T) /\ Len(a) = Len(X) + Len(w) + Len(Y)
        /\ \A i \in 1 .. Len(w) : a[Len(X) + i] = w[i]
    <3>1. a \in Seq(T) /\ IsJoined(a, X, w, Y)
      BY <1>1, Joined
    <3> HIDE DEF a
    <3> QED BY <3>1 DEF IsJoined
  <2>3. 1 \in 1 .. Len(w) /\ 2 \in 1 .. Len(w)
    BY <1>1, <2>1
  <2> HIDE DEF a
  <2> QED BY <2>2, <2>3
<1>23. \A i \in 1 .. Len(w) : a[l + i] = w[i]
  <2>1. IsJoined(a, X, w, Y)
    BY <1>1, Joined
  <2> HIDE DEF a
  <2> QED BY <2>1 DEF IsJoined
<1> HIDE DEF a, l, z
<1>20. l % 2 = 0
  BY DEF l
<1>3. p \in Nat \ {0} /\ p % 2 = 1 /\ p \in 1 .. Len(a) + 1 /\ e \in 1 .. Len(a) + 1 /\ e \in Nat \ {0}
  <2>1. p % 2 = 1
    BY <1>1, <1>20
  <2> QED BY <1>1, <1>2, <2>1
<1>4. At(p) = p /\ p < Len(a)
  <2>1. At(p) = p
    BY <1>3, AtIsNext
  <2> QED BY <1>1, <1>2, <2>1
<1>5. a[p] = HeadUnit(name, z) /\ a[p + 1] = TailUnit
  <2>1. p + 1 = l + 2
    BY <1>1
  <2> QED BY <1>1, <1>2, <2>1
<1>6. /\ a[p].k = "head" /\ a[p].v.size = z /\ a[p].v.name = name /\ a[p].v.type = "regular"
      /\ a[p + 1].k = "tail"
  BY <1>5 DEF HeadUnit, TailUnit
<1>21. SubSeq(a, p + 2, p + 1 + z) = units
  <2>1. units \in Seq(T) /\ Len(units) = z
    BY DEF z
  <2>2. \A i \in 1 .. z : a[p + 1 + i] = units[i]
    <3> TAKE i \in 1 .. z
    <3>1. 2 + i \in 1 .. Len(w) /\ p + 1 + i = l + (2 + i)
      <4>1. z % 2 \in Nat
        BY <1>1
      <4> QED BY <1>1, <4>1
    <3>2. a[l + (2 + i)] = w[2 + i] /\ w[2 + i] = units[i]
      BY <1>22, <1>23, <3>1
    <3> QED BY <3>1, <3>2, Zenon
  <2>3. p \in Nat /\ p + 1 + z <= Len(a) /\ Len(a) \in Nat
    <3>1. z % 2 \in Nat
      BY <1>1
    <3> QED BY <1>1, <1>2, <3>1
  <2> HIDE DEF p
  <2> DEFINE q == p + 1
  <2>4. q \in Nat /\ q + Len(units) <= Len(a) /\ q + 1 = p + 2 /\ a \in Seq(T)
    BY <1>2, <2>1, <2>3
  <2>5. \A i \in 1 .. Len(units) : a[q + i] = units[i]
    BY <2>1, <2>2
  <2> HIDE DEF q
  <2>6. SubSeq(a, q + 1, q + Len(units)) = units
    BY <2>4, <2>5, FoundPiece
  <2>7. q + Len(units) = p + 1 + z
    BY <2>1 DEF q
  <2> QED BY <2>4, <2>6, <2>7
<1> HIDE DEF p, e
<1>7. NextMember(a, p).kind = "member" /\ NextMember(a, p).pos = p
  BY <1>2, <1>3, <1>4, <1>6, NextFound
<1>8. StopAt(a, p) = p + 2 + z
  BY <1>1, <1>2, <1>3, <1>4, <1>6, <1>7, StopIsAhead
<1>9. StopAt(a, p) <= Len(a) + 1
  BY <1>1, <1>2, <1>8 DEF p
<1> DEFINE stop == StopAt(a, p)
           here == Reading(a)[p]
           mid == Reading(a)[stop]
           m == MemberAt(a, p)
<1>10. /\ stop \in p + 1 .. Len(a) + 1
       /\ mid \in Scans(T) /\ m \in MembersOf(T)
       /\ here.members = <<m>> \o mid.members
       /\ here.end = mid.end /\ here.pos = mid.pos
  BY <1>1, <1>2, <1>3, <1>7, <1>9, ReadingOn
<1>11. m = WholeMember(name, units)
  <2>1. MemberAt(a, p) = [name |-> a[p].v.name, type |-> a[p].v.type, size |-> a[p].v.size,
                          body |-> SubSeq(a, p + 2, StopAt(a, p) - 1)]
    BY <1>7, <1>9 DEF MemberAt
  <2>2. StopAt(a, p) - 1 = p + 1 + z
    BY <1>1, <1>3, <1>8
  <2> QED BY <1>6, <1>21, <2>1, <2>2 DEF WholeMember, z
<1>12. stop \in 1 .. Len(a) + 1
  BY <1>3, <1>10
<1>13. At(stop) = At(e)
  <2>1. stop = p + 2 + z /\ p = l + 1 /\ e = l + Len(w) + 1
    BY <1>8 DEF p, e
  <2> HIDE DEF stop
  <2>2. At(stop) = stop + ((stop - 1) % 2) /\ At(e) = e + ((e - 1) % 2)
    BY DEF At
  <2>3. (e - 1) % 2 = 0
    <3>1. e - 1 = l + Len(w)
      BY <1>1, <2>1
    <3> QED BY <1>1, <1>20, <3>1, Parity
  <2>4. (stop - 1) % 2 = z % 2
    <3>1. stop - 1 = l + (2 + z)
      BY <1>1, <2>1
    <3>2. (l + (2 + z)) % 2 = (2 + z) % 2
      <4>1. 2 + z \in Nat
        BY <1>1
      <4> QED BY <1>1, <1>20, <4>1, Parity
    <3>3. (2 + z) % 2 = z % 2
      BY <1>1
    <3> QED BY <3>1, <3>2, <3>3
  <2> DEFINE d == z % 2
  <2>5. d \in Nat /\ At(stop) = stop + d /\ At(e) = e + 0 /\ Len(w) = 2 + z + d
    BY <1>1, <2>2, <2>3, <2>4
  <2>6. l \in Nat /\ z \in Nat
    BY <1>1
  <2> HIDE DEF d
  <2>7. e = l + (2 + z + d) + 1 /\ stop = (l + 1) + 2 + z
    BY <2>1, <2>5
  <2> QED BY <2>5, <2>6, <2>7
<1> HIDE DEF stop
<1>14. /\ mid.members = Reading(a)[e].members /\ mid.end = Reading(a)[e].end
       /\ mid.end = "EOF" => mid.pos = Reading(a)[e].pos
  BY <1>1, <1>2, <1>3, <1>12, <1>13, ReadingFromPadding
<1>15. here \in Scans(T) /\ Reading(a)[e] \in Scans(T)
  BY <1>1, <1>2, <1>3, ReadingType
<1>16. (l + Len(w)) % 2 = 0
  BY <1>1, <1>20
<1> HIDE DEF here, mid, m
<1>17. here.end = Reading(a)[e].end /\ (here.end = "EOF" => here.pos = Reading(a)[e].pos)
  BY <1>10, <1>14
<1>18. m \in MembersOf(T) /\ here.members = <<m>> \o Reading(a)[e].members
  BY <1>10, <1>14
<1>19. OneMore(T, here, Reading(a)[e], m)
  <2> DEFINE y == Reading(a)[e]
  <2> HIDE DEF y
  <2>1. here \in Scans(T) /\ y \in Scans(T) /\ here.end = y.end /\ (here.end = "EOF" => here.pos = y.pos)
    BY <1>15, <1>17 DEF y
  <2>2. m \in MembersOf(T) /\ here.members = <<m>> \o y.members
    BY <1>18 DEF y
  <2>3. OneMore(T, here, y, m)
    BY <2>1, <2>2 DEF OneMore
  <2> QED BY <2>3 DEF y
<1> QED BY <1>2, <1>11, <1>16, <1>19 DEF here, a, p, e, l, w

\* A dump is the last of the members, and the only one of its name.
DumpLast(ms) ==
  Len(ms) > 0 /\ \A i \in 1 .. Len(ms) : ms[i].name = HeapDumpMember <=> i = Len(ms)

AllIn(ms, G) == \A i \in 1 .. Len(ms) : ms[i] \in G

\* From l units on, a is read to its last unit, it has members in G only, and
\* the dump comes last.
SoundFrom(G, a, l) ==
  /\ Reading(a)[l + 1].end = "EOF" /\ Reading(a)[l + 1].pos = Len(a) + 1
  /\ DumpLast(Reading(a)[l + 1].members) /\ AllIn(Reading(a)[l + 1].members, G)

LEMMA PrependOne ==
  ASSUME NEW G, NEW T, NEW N, Tarry(T, N), NEW name \in N, name # HeapDumpMember, NEW units \in Seq(T),
         WholeMember(name, units) \in G,
         NEW X \in Seq(T), NEW Y \in Seq(T), Len(X) % 2 = 0,
         SoundFrom(G, (X \o Written(name, units)) \o Y, Len(X) + Len(Written(name, units)))
  PROVE  SoundFrom(G, (X \o Written(name, units)) \o Y, Len(X))
<1> DEFINE w == Written(name, units)
           a == (X \o w) \o Y
           here == Reading(a)[Len(X) + 1]
           rest == Reading(a)[Len(X) + Len(w) + 1]
           m == WholeMember(name, units)
<1>1. OneMore(T, here, rest, m)
  BY WrittenIsRead
<1>2. /\ rest.end = "EOF" /\ rest.pos = Len(a) + 1 /\ DumpLast(rest.members)
      /\ AllIn(rest.members, G)
  BY DEF SoundFrom
<1> HIDE DEF w, a, here, rest
<1>3. m \in MembersOf(T) /\ m.name = name /\ m \in G /\ here.members = <<m>> \o rest.members
  BY <1>1 DEF OneMore, WholeMember
<1> HIDE DEF m
<1> DEFINE ms == rest.members
           M == MembersOf(T)
<1>4. ms \in Seq(M)
  BY <1>1 DEF Scans, OneMore
<1> HIDE DEF ms, M
<1>5. DumpLast(<<m>> \o ms) /\ AllIn(<<m>> \o ms, G)
  <2>1. /\ m \in M /\ DumpLast(ms) /\ m.name # HeapDumpMember
    BY <1>2, <1>3 DEF ms, M
  <2>2. /\ Len(ms) \in Nat /\ Len(<<m>> \o ms) = Len(ms) + 1 /\ (<<m>> \o ms)[1] = m
        /\ \A i \in 2 .. Len(ms) + 1 : (<<m>> \o ms)[i] = ms[i - 1]
    BY <1>4, <2>1
  <2> DEFINE c == <<m>> \o ms
  <2> HIDE DEF c
  <2>3. Len(ms) > 0 /\ \A i \in 1 .. Len(ms) : ms[i].name = HeapDumpMember <=> i = Len(ms)
    BY <2>1 DEF DumpLast
  <2>4. ASSUME NEW i \in 1 .. Len(c) PROVE c[i].name = HeapDumpMember <=> i = Len(c)
    <3>1. CASE i = 1
      BY <2>1, <2>2, <2>3, <3>1 DEF c
    <3>2. CASE i # 1
      <4>1. i - 1 \in 1 .. Len(ms) /\ i \in 2 .. Len(ms) + 1
        BY <2>2, <3>2 DEF c
      <4>2. c[i] = ms[i - 1]
        BY <2>2, <4>1 DEF c
      <4>3. ms[i - 1].name = HeapDumpMember <=> i - 1 = Len(ms)
        BY <2>3, <4>1
      <4>4. i - 1 = Len(ms) <=> i = Len(c)
        BY <2>2, <4>1 DEF c
      <4> QED BY <4>2, <4>3, <4>4
    <3> QED BY <3>1, <3>2
  <2>5. Len(c) > 0
    BY <2>2 DEF c
  <2>6. DumpLast(c)
    BY <2>4, <2>5 DEF DumpLast
  <2>7. AllIn(c, G)
    <3>1. ASSUME NEW i \in 1 .. Len(c) PROVE c[i] \in G
      <4>1. CASE i = 1
        BY <1>3, <2>2, <4>1 DEF c
      <4>2. CASE i # 1
        <5>1. i - 1 \in 1 .. Len(ms) /\ i \in 2 .. Len(ms) + 1
          BY <2>2, <4>2 DEF c
        <5> QED BY <1>2, <2>2, <5>1 DEF c, AllIn, ms
      <4> QED BY <4>1, <4>2
    <3> QED BY <3>1 DEF AllIn
  <2> QED BY <2>6, <2>7 DEF c
<1>6. DumpLast(here.members) /\ AllIn(here.members, G)
  BY <1>3, <1>5 DEF ms
<1>7. here.end = "EOF" /\ here.pos = Len(a) + 1
  BY <1>1, <1>2 DEF OneMore
<1> QED BY <1>6, <1>7 DEF SoundFrom, here, a, w

\* The dump and the end marker.
LEMMA DumpAndMarker ==
  ASSUME NEW G, NEW T, NEW N, Tarry(T, N), HeapDumpMember \in N, NEW units \in Seq(T),
         WholeMember(HeapDumpMember, units) \in G, NEW X \in Seq(T), Len(X) % 2 = 0
  PROVE  SoundFrom(G, (X \o Written(HeapDumpMember, units)) \o EndMarker, Len(X))
<1> DEFINE w == Written(HeapDumpMember, units)
           a == (X \o w) \o EndMarker
           here == Reading(a)[Len(X) + 1]
           l == Len(X) + Len(w)
           p == l + 1
           rest == Reading(a)[p]
           m == WholeMember(HeapDumpMember, units)
<1>0. Zero \in T /\ Sized(T)
  BY DEF Tarry
<1>1. EndMarker \in Seq(T) /\ Len(EndMarker) = 4 /\ \A i \in 1 .. 4 : EndMarker[i] = Zero
  BY <1>0 DEF EndMarker
<1>2. a \in Seq(T) /\ l % 2 = 0 /\ OneMore(T, here, rest, m)
  BY <1>1, WrittenIsRead
<1>3. w \in Seq(T)
  BY WrittenStream
<1>4. /\ Len(a) = l + 4 /\ \A i \in 1 .. 4 : a[l + i] = Zero
  <2> HIDE DEF w
  <2>1. IsJoined(a, X, w, EndMarker)
    BY <1>1, <1>3, Joined
  <2> HIDE DEF a
  <2> QED BY <1>1, <2>1 DEF IsJoined
<1>5. Len(X) \in Nat /\ Len(w) \in Nat
  <2> HIDE DEF w
  <2> QED BY <1>3
<1>6. l \in Nat
  BY <1>5
<1> HIDE DEF w, a, l
<1>7. p \in Nat \ {0} /\ p \in 1 .. Len(a) + 1 /\ p % 2 = 1
  <2>1. p = l + 1 /\ l % 2 = 0
    BY <1>2
  <2>2. p % 2 = 1
    BY <1>6, <2>1
  <2> QED BY <1>4, <1>6, <2>2
<1>8. At(p) = p
  BY <1>7, AtIsNext
<1>9. At(p) + 3 <= Len(a) /\ \A i \in 0 .. 3 : a[At(p) + i] = Zero
  <2>1. At(p) + 3 <= Len(a)
    BY <1>4, <1>6, <1>8
  <2>2. ASSUME NEW i \in 0 .. 3 PROVE a[At(p) + i] = Zero
    <3>1. At(p) + i = l + (i + 1) /\ i + 1 \in 1 .. 4
      BY <1>6, <1>8
    <3> QED BY <1>4, <3>1
  <2> QED BY <2>1, <2>2
<1>10. NextMember(a, p) = Verdict("EOF", At(p) + 4)
  BY <1>2, <1>7, <1>9, NextFound
<1>11. NextMember(a, p).kind = "EOF" /\ NextMember(a, p).pos = p + 4
  BY <1>8, <1>10 DEF Verdict
<1>12. rest = ScanAt(a, Reading(a), p)
  BY <1>0, <1>2, <1>7, ReadingStep
<1>13. rest.members = <<>> /\ rest.end = "EOF" /\ rest.pos = p + 4
  BY <1>11, <1>12 DEF ScanAt
<1>14. /\ m \in MembersOf(T) /\ m \in G /\ m.name = HeapDumpMember
       /\ here.members = <<m>> \o rest.members
  BY <1>2 DEF OneMore, WholeMember
<1> HIDE DEF m
<1>15. here.members = <<m>>
  BY <1>13, <1>14
<1>16. DumpLast(here.members) /\ AllIn(here.members, G)
  <2>1. DumpLast(<<m>>) /\ AllIn(<<m>>, G)
    BY <1>14 DEF DumpLast, AllIn
  <2> QED BY <1>15, <2>1
<1>17. here.end = "EOF" /\ here.pos = Len(a) + 1
  <2>1. p + 4 = Len(a) + 1
    BY <1>4, <1>6
  <2> QED BY <1>2, <1>13, <2>1 DEF OneMore
<1> QED BY <1>16, <1>17 DEF SoundFrom, a, w


-----------------------------------------------------------------------------
(* A whole archive                                                           *)

\* A stream that is sound after X and W is sound from W on.
Back(G, T, X, W) ==
  \A Y \in Seq(T) :
    SoundFrom(G, (X \o W) \o Y, Len(X) + Len(W)) => SoundFrom(G, (X \o W) \o Y, Len(X))

LEMMA BackNothing == ASSUME NEW G, NEW T, NEW X \in Seq(T) PROVE Back(G, T, X, <<>>)
<1>1. X \o <<>> = X /\ Len(X) + Len(<<>>) = Len(X)
  OBVIOUS
<1> QED BY <1>1 DEF Back

LEMMA BackOne ==
  ASSUME NEW G, NEW T, NEW N, Tarry(T, N), NEW name \in N, name # HeapDumpMember, NEW units \in Seq(T),
         WholeMember(name, units) \in G, NEW X \in Seq(T), Len(X) % 2 = 0
  PROVE  Back(G, T, X, Written(name, units))
BY PrependOne DEF Back

Associates(x, y, z) == (x \o y) \o z = x \o (y \o z)

LEMMA AssociativeOf ==
  ASSUME NEW S, NEW x \in Seq(S), NEW y \in Seq(S), NEW z \in Seq(S)
  PROVE  Associates(x, y, z)
BY Associative DEF Associates

Regroups(x, y, z, w) ==
  /\ (x \o (y \o z)) \o w = ((x \o y) \o z) \o w
  /\ (x \o (y \o z)) \o w = (x \o y) \o (z \o w)

LEMMA Regrouped ==
  ASSUME NEW S, NEW x \in Seq(S), NEW y \in Seq(S), NEW z \in Seq(S), NEW w \in Seq(S)
  PROVE  Regroups(x, y, z, w)
<1>0. x \o y \in Seq(S)
  OBVIOUS
<1>1. PICK v \in Seq(S) : v = x \o y
  BY <1>0, Zenon
<1>2. (v \o z) \o w = v \o (z \o w)
  <2>1. Associates(v, z, w)
    BY AssociativeOf
  <2> QED BY <2>1, Zenon DEF Associates
<1>3. v \o z = x \o (y \o z)
  <2>1. Associates(x, y, z)
    BY AssociativeOf
  <2> QED BY <1>1, <2>1, Zenon DEF Associates
<1> QED BY <1>1, <1>2, <1>3 DEF Regroups

LEMMA BackBoth ==
  ASSUME NEW G, NEW T, NEW X \in Seq(T), NEW V \in Seq(T), NEW W \in Seq(T),
         Back(G, T, X, V), Back(G, T, X \o V, W)
  PROVE  Back(G, T, X, V \o W)
<1> SUFFICES ASSUME NEW Y \in Seq(T),
                    SoundFrom(G, (X \o (V \o W)) \o Y, Len(X) + Len(V \o W))
             PROVE  SoundFrom(G, (X \o (V \o W)) \o Y, Len(X))
  BY DEF Back
<1> DEFINE a == (X \o (V \o W)) \o Y
           XV == X \o V
           WY == W \o Y
<1>1. XV \in Seq(T) /\ WY \in Seq(T)
  OBVIOUS
<1>2. a = (XV \o W) \o Y /\ a = XV \o WY
  <2>1. Regroups(X, V, W, Y)
    BY Regrouped
  <2> QED BY <2>1, Zenon DEF Regroups
<1>4. /\ Len(XV) = Len(X) + Len(V) /\ Len(V \o W) = Len(V) + Len(W)
      /\ Len(X) \in Nat /\ Len(V) \in Nat /\ Len(W) \in Nat
  OBVIOUS
<1>5. Len(X) + Len(V \o W) = Len(XV) + Len(W)
  BY <1>4
<1> HIDE DEF a, XV, WY
<1>6. SoundFrom(G, a, Len(XV) + Len(W))
  BY <1>5 DEF a
<1>7. SoundFrom(G, a, Len(XV))
  <2>1. SoundFrom(G, (XV \o W) \o Y, Len(XV) + Len(W)) => SoundFrom(G, (XV \o W) \o Y, Len(XV))
    BY DEF Back, XV
  <2> QED BY <1>2, <1>6, <2>1
<1>8. SoundFrom(G, (X \o V) \o WY, Len(X) + Len(V))
  BY <1>2, <1>4, <1>7 DEF XV
<1>9. SoundFrom(G, (X \o V) \o WY, Len(X))
  BY <1>1, <1>8 DEF Back
<1> QED BY <1>2, <1>9 DEF XV, a

\* The chunks of n members with these names and contents, and their units.
ChunksOf(n, f, g) == FlattenSeq([i \in 1 .. n |-> writeMember(f[i], g[i])])
StreamOf(n, f, g) == FlattenSeq(ChunksOf(n, f, g))

LEMMA StreamStarts ==
  ASSUME NEW T, NEW f, NEW g
  PROVE  ChunksOf(0, f, g) = <<>> /\ StreamOf(0, f, g) = <<>>
<1>1. [i \in 1 .. 0 |-> writeMember(f[i], g[i])] = <<>>
  OBVIOUS
<1>2. FlattenSeq(<<>>) = <<>>
  <2>1. <<>> \in Seq({})
    OBVIOUS
  <2> QED BY <2>1, FlattenOne
<1> QED BY <1>1, <1>2 DEF ChunksOf, StreamOf

LEMMA WrittenIsEven ==
  ASSUME NEW T, NEW N, Tarry(T, N), NEW name \in N, NEW units \in Seq(T)
  PROVE  Written(name, units) \in Seq(T) /\ Len(Written(name, units)) % 2 = 0
BY WrittenStream

Grows(T, f, g, n) ==
  /\ ChunksOf(n, f, g) \in Seq(Seq(T)) /\ ChunksOf(n + 1, f, g) \in Seq(Seq(T))
  /\ StreamOf(n, f, g) \in Seq(T)
  /\ StreamOf(n + 1, f, g) = StreamOf(n, f, g) \o Written(f[n + 1], g[n + 1])

LEMMA StreamStep ==
  ASSUME NEW T, NEW N, Tarry(T, N), NEW m \in Nat, NEW f \in [1 .. m -> N],
         NEW g \in [1 .. m -> Seq(T)], NEW n \in 0 .. m - 1
  PROVE  Grows(T, f, g, n)
<1> DEFINE one(i) == writeMember(f[i], g[i])
           ss == [i \in 1 .. m |-> one(i)]
           C == Seq(T)
<1>1. \A i \in 1 .. m : one(i) \in Seq(C)
  <2> SUFFICES ASSUME NEW i \in 1 .. m PROVE one(i) \in Seq(C)
    OBVIOUS
  <2>1. f[i] \in N /\ g[i] \in Seq(T)
    OBVIOUS
  <2> QED BY <2>1, WrittenStream
<1> HIDE DEF one
<1>2. ss \in Seq(Seq(C)) /\ Len(ss) = m
  BY <1>1
<1>3. \A k \in 0 .. m : SubSeq(ss, 1, k) = [i \in 1 .. k |-> one(i)] /\ SubSeq(ss, 1, k) \in Seq(Seq(C))
  BY <1>1
<1>4. \A k \in 0 .. m : ChunksOf(k, f, g) = FlattenSeq(SubSeq(ss, 1, k))
  BY <1>3 DEF ChunksOf, one
<1>5. n + 1 \in 1 .. m /\ n \in 0 .. m /\ n + 1 \in 0 .. m /\ n \in 0 .. Len(ss) - 1
  BY <1>2
<1>6. ss[n + 1] = one(n + 1) /\ one(n + 1) \in Seq(C)
  BY <1>1, <1>5
<1> HIDE DEF ss, C
<1>7. ChunksOf(n + 1, f, g) = ChunksOf(n, f, g) \o one(n + 1)
  <2>1. FlattenSeq(SubSeq(ss, 1, n + 1)) = FlattenSeq(SubSeq(ss, 1, n)) \o ss[n + 1]
    BY <1>2, <1>5, FlattenMore
  <2> QED BY <1>4, <1>5, <1>6, <2>1
<1>8. ChunksOf(n, f, g) \in Seq(C)
  <2>1. FlattenSeq(SubSeq(ss, 1, n)) \in Seq(C)
    BY <1>3, <1>5, FlattenConcat
  <2> QED BY <1>4, <1>5, <2>1
<1> DEFINE c == ChunksOf(n, f, g)
           d == one(n + 1)
<1>9. c \in Seq(Seq(T)) /\ d \in Seq(Seq(T))
  BY <1>6, <1>8 DEF C
<1>10. FlattenSeq(c \o d) = FlattenSeq(c) \o FlattenSeq(d) /\ FlattenSeq(c) \in Seq(T) /\ c \o d \in Seq(Seq(T))
  <2> HIDE DEF c, d
  <2>1. c \o d \in Seq(Seq(T))
    BY <1>9
  <2> QED BY <1>9, <2>1, FlattenConcat
<1> QED BY <1>7, <1>9, <1>10 DEF Grows, StreamOf, Written, one

\* None of m members is the dump, and all of them are in G.
Allotted(G, m, f, g) ==
  \A i \in 1 .. m : f[i] # HeapDumpMember /\ WholeMember(f[i], g[i]) \in G

LEMMA Lengths ==
  \A S : \A x, y \in Seq(S) :
    /\ x \o y \in Seq(S) /\ Len(x \o y) = Len(x) + Len(y) /\ Len(x) \in Nat /\ Len(y) \in Nat
  OBVIOUS

LEMMA BackAll ==
  ASSUME NEW G, NEW T, NEW N, Tarry(T, N), NEW m \in Nat, NEW f \in [1 .. m -> N],
         NEW g \in [1 .. m -> Seq(T)],
         Allotted(G, m, f, g),
         NEW X \in Seq(T), Len(X) % 2 = 0
  PROVE  /\ ChunksOf(m, f, g) \in Seq(Seq(T)) /\ StreamOf(m, f, g) \in Seq(T)
         /\ Len(StreamOf(m, f, g)) % 2 = 0 /\ Back(G, T, X, StreamOf(m, f, g))
<1> DEFINE s(k) == StreamOf(k, f, g)
           Good(k) == /\ ChunksOf(k, f, g) \in Seq(Seq(T)) /\ s(k) \in Seq(T)
                      /\ Len(s(k)) % 2 = 0 /\ Back(G, T, X, s(k))
           S == {k \in Nat : k <= m => Good(k)}
<1>1. Good(0)
  <2>1. ChunksOf(0, f, g) = <<>> /\ s(0) = <<>>
    BY StreamStarts
  <2>2. <<>> \in Seq(Seq(T)) /\ <<>> \in Seq(T) /\ Len(<<>>) % 2 = 0
    OBVIOUS
  <2> QED BY <2>1, <2>2, BackNothing
<1>2. ASSUME NEW k \in Nat, k \in S PROVE k + 1 \in S
  <2> SUFFICES ASSUME k + 1 <= m PROVE Good(k + 1)
    OBVIOUS
  <2>1. Good(k) /\ k \in 0 .. m - 1 /\ k + 1 \in 1 .. m
    BY <1>2
  <2> DEFINE w == Written(f[k + 1], g[k + 1])
  <2>2. /\ f[k + 1] \in N /\ g[k + 1] \in Seq(T) /\ f[k + 1] # HeapDumpMember
        /\ WholeMember(f[k + 1], g[k + 1]) \in G
    BY <2>1 DEF Allotted
  <2>3. w \in Seq(T) /\ Len(w) % 2 = 0
    BY <2>2, WrittenIsEven
  <2>4. s(k + 1) = s(k) \o w /\ ChunksOf(k + 1, f, g) \in Seq(Seq(T))
    <3>1. Grows(T, f, g, k)
      BY <2>1, StreamStep
    <3> QED BY <3>1 DEF Grows
  <2>10. s(k) \in Seq(T) /\ Len(s(k)) % 2 = 0
    BY <2>1
  <2> HIDE DEF w, s
  <2>5. /\ X \o s(k) \in Seq(T) /\ Len(X \o s(k)) = Len(X) + Len(s(k))
        /\ Len(s(k) \o w) = Len(s(k)) + Len(w) /\ s(k) \o w \in Seq(T)
        /\ Len(X) \in Nat /\ Len(s(k)) \in Nat /\ Len(w) \in Nat
    BY <2>3, <2>10, Lengths
  <2>6. Len(X \o s(k)) % 2 = 0 /\ Len(s(k) \o w) % 2 = 0
    <3>1. (Len(X) + Len(s(k))) % 2 = Len(s(k)) % 2 /\ (Len(s(k)) + Len(w)) % 2 = Len(w) % 2
      BY <2>1, <2>5, Parity
    <3> QED BY <2>3, <2>5, <2>10, <3>1
  <2>7. Back(G, T, X \o s(k), w)
    BY <2>2, <2>5, <2>6, BackOne DEF w
  <2>8. Back(G, T, X, s(k) \o w)
    BY <2>1, <2>3, <2>7, BackBoth
  <2> QED BY <2>4, <2>5, <2>6, <2>8
<1>3. m \in S
  <2>1. 0 \in S
    BY <1>1
  <2> HIDE DEF S
  <2> QED BY <1>2, <2>1, SetInduction
<1>4. Good(m)
  <2>1. m <= m
    OBVIOUS
  <2> HIDE DEF Good
  <2> QED BY <1>3, <2>1
<1> QED BY <1>4

\* Z is the front of an archive: whatever is sound after it is sound with it.
IsFront(G, T, Z) ==
  /\ Z \in Seq(T) /\ Len(Z) % 2 = 0
  /\ \A Y \in Seq(T) : SoundFrom(G, Z \o Y, Len(Z)) => SoundFrom(G, Z \o Y, 0)

LEMMA FrontNothing == ASSUME NEW G, NEW T PROVE IsFront(G, T, <<>>)
<1>1. <<>> \in Seq(T) /\ Len(<<>>) = 0
  OBVIOUS
<1> QED BY <1>1 DEF IsFront

LEMMA FrontMore ==
  ASSUME NEW G, NEW T, NEW Z, IsFront(G, T, Z), NEW W \in Seq(T), Len(W) % 2 = 0, Back(G, T, Z, W)
  PROVE  IsFront(G, T, Z \o W)
<1>1. Z \in Seq(T) /\ Len(Z) % 2 = 0
  BY DEF IsFront
<1>2. Z \o W \in Seq(T) /\ Len(Z \o W) = Len(Z) + Len(W) /\ Len(Z) \in Nat /\ Len(W) \in Nat
  BY <1>1
<1>3. Len(Z \o W) % 2 = 0
  <2>1. (Len(Z) + Len(W)) % 2 = Len(W) % 2
    BY <1>1, <1>2, Parity
  <2> QED BY <1>2, <2>1
<1>4. ASSUME NEW Y \in Seq(T), SoundFrom(G, (Z \o W) \o Y, Len(Z \o W))
      PROVE  SoundFrom(G, (Z \o W) \o Y, 0)
  <2>1. SoundFrom(G, (Z \o W) \o Y, Len(Z) + Len(W))
    <3>1. Len(Z \o W) = Len(Z) + Len(W)
      BY <1>2
    <3> QED BY <1>4, <3>1, Zenon
  <2>2. SoundFrom(G, (Z \o W) \o Y, Len(Z))
    BY <2>1, Zenon DEF Back
  <2>3. (Z \o W) \o Y = Z \o (W \o Y)
    <3>1. Associates(Z, W, Y)
      BY <1>1, AssociativeOf
    <3> QED BY <3>1, Zenon DEF Associates
  <2>4. W \o Y \in Seq(T)
    OBVIOUS
  <2> QED BY <2>2, <2>3, <2>4, Zenon DEF IsFront
<1> QED BY <1>2, <1>3, <1>4, Zenon DEF IsFront

LEMMA FrontOne ==
  ASSUME NEW G, NEW T, NEW N, Tarry(T, N), NEW name \in N, name # HeapDumpMember, NEW units \in Seq(T),
         WholeMember(name, units) \in G, NEW Z, IsFront(G, T, Z)
  PROVE  IsFront(G, T, Z \o Written(name, units))
<1>1. Z \in Seq(T) /\ Len(Z) % 2 = 0
  BY DEF IsFront
<1>2. Back(G, T, Z, Written(name, units))
  BY <1>1, BackOne
<1>3. Written(name, units) \in Seq(T) /\ Len(Written(name, units)) % 2 = 0
  BY WrittenIsEven
<1> QED BY <1>2, <1>3, FrontMore

LEMMA FrontAll ==
  ASSUME NEW G, NEW T, NEW N, Tarry(T, N), NEW m \in Nat, NEW f \in [1 .. m -> N],
         NEW g \in [1 .. m -> Seq(T)],
         Allotted(G, m, f, g),
         NEW Z, IsFront(G, T, Z)
  PROVE  IsFront(G, T, Z \o StreamOf(m, f, g))
<1>1. Z \in Seq(T) /\ Len(Z) % 2 = 0
  BY DEF IsFront
<1>2. /\ StreamOf(m, f, g) \in Seq(T) /\ Len(StreamOf(m, f, g)) % 2 = 0
      /\ Back(G, T, Z, StreamOf(m, f, g))
  BY <1>1, BackAll
<1> QED BY <1>2, FrontMore

LEMMA FrontWhole ==
  ASSUME NEW G, NEW T, NEW N, Tarry(T, N), HeapDumpMember \in N, NEW units \in Seq(T),
         WholeMember(HeapDumpMember, units) \in G, NEW Z, IsFront(G, T, Z)
  PROVE  /\ (Z \o Written(HeapDumpMember, units)) \o EndMarker \in Seq(T)
         /\ SoundFrom(G, (Z \o Written(HeapDumpMember, units)) \o EndMarker, 0)
<1> DEFINE w == Written(HeapDumpMember, units)
<1>1. Z \in Seq(T) /\ Len(Z) % 2 = 0
  BY DEF IsFront
<1>2. w \in Seq(T)
  BY WrittenIsEven
<1>3. EndMarker \in Seq(T)
  BY DEF EndMarker, Tarry
<1>4. SoundFrom(G, (Z \o w) \o EndMarker, Len(Z))
  BY <1>1, DumpAndMarker
<1> HIDE DEF w
<1>5. (Z \o w) \o EndMarker = Z \o (w \o EndMarker)
  <2>1. Associates(Z, w, EndMarker)
    BY <1>1, <1>2, <1>3, AssociativeOf
  <2> QED BY <2>1, Zenon DEF Associates
<1>6. w \o EndMarker \in Seq(T) /\ (Z \o w) \o EndMarker \in Seq(T)
  <2>1. Z \o w \in Seq(T)
    BY <1>1, <1>2
  <2> QED BY <1>2, <1>3, <2>1
<1>7. SoundFrom(G, (Z \o w) \o EndMarker, 0)
  BY <1>4, <1>5, <1>6, Zenon DEF IsFront
<1> QED BY <1>6, <1>7 DEF w

-----------------------------------------------------------------------------
(* A piece of a whole archive *)

IsTaking(f, members, limits, broken) ==
  f = [k \in 0 .. Len(members) |->
         IF k = 0 THEN Unopened ELSE TakeMember(f[k - 1], members[k], limits, broken)]
Taking(members, limits, broken) == CHOOSE f : IsTaking(f, members, limits, broken)

LEMMA TakeAllIsTaking ==
  \A members, limits, broken :
    TakeAll(members, limits, broken) = Taking(members, limits, broken)[Len(members)]
BY DEF TakeAll, Taking, IsTaking

TakesUpTo(g, members, limits, broken, k) ==
  /\ g[0] = Unopened
  /\ \A i \in 1 .. k : g[i] = TakeMember(g[i - 1], members[i], limits, broken)

LEMMA TakingExists ==
  ASSUME NEW V, NEW members \in Seq(V), NEW limits, NEW broken
  PROVE  IsTaking(Taking(members, limits, broken), members, limits, broken)
<1> DEFINE n == Len(members)
           Fits(g, k) == TakesUpTo(g, members, limits, broken, k)
           S == {k \in Nat : k <= n => \E g : DOMAIN g = 0 .. n /\ g = [i \in 0 .. n |-> g[i]] /\ Fits(g, k)}
<1>0. n \in Nat
  OBVIOUS
<1> HIDE DEF n
<1>1. 0 \in S
  <2> DEFINE g == [i \in 0 .. n |-> Unopened]
  <2>1. DOMAIN g = 0 .. n /\ g = [i \in 0 .. n |-> g[i]] /\ g[0] = Unopened
    BY <1>0
  <2> HIDE DEF g
  <2>2. Fits(g, 0)
    BY <2>1 DEF TakesUpTo
  <2> QED BY <2>1, <2>2
<1>2. ASSUME NEW k \in Nat, k \in S PROVE k + 1 \in S
  <2> SUFFICES ASSUME k + 1 <= n
               PROVE  \E g : DOMAIN g = 0 .. n /\ g = [i \in 0 .. n |-> g[i]] /\ Fits(g, k + 1)
    <3> HIDE DEF Fits
    <3> QED OBVIOUS
  <2>1. PICK g : DOMAIN g = 0 .. n /\ g = [i \in 0 .. n |-> g[i]] /\ Fits(g, k)
    <3> HIDE DEF Fits
    <3>1. k <= n
      BY <1>0
    <3> QED BY <1>2, <3>1
  <2> DEFINE c == TakeMember(g[k], members[k + 1], limits, broken)
             h == [i \in 0 .. n |-> IF i = k + 1 THEN c ELSE g[i]]
  <2> HIDE DEF c
  <2>2. /\ DOMAIN h = 0 .. n /\ h = [i \in 0 .. n |-> h[i]]
        /\ h[k + 1] = c /\ \A i \in 0 .. k : h[i] = g[i]
    BY <1>0
  <2> HIDE DEF h
  <2>3. h[0] = Unopened
    <3>1. 0 \in 0 .. k
      OBVIOUS
    <3>2. h[0] = g[0]
      BY <2>2, <3>1
    <3> QED BY <2>1, <3>2, Zenon DEF TakesUpTo
  <2>4. ASSUME NEW i \in 1 .. k + 1
        PROVE  h[i] = TakeMember(h[i - 1], members[i], limits, broken)
    <3>1. CASE i = k + 1
      <4>1. i - 1 = k /\ k \in 0 .. k
        BY <3>1
      <4>2. h[i - 1] = g[k]
        BY <2>2, <4>1
      <4> QED BY <2>2, <3>1, <4>2 DEF c
    <3>2. CASE i # k + 1
      <4>1. i \in 1 .. k /\ i \in 0 .. k /\ i - 1 \in 0 .. k
        BY <3>2
      <4>2. h[i] = g[i] /\ h[i - 1] = g[i - 1]
        BY <2>2, <4>1
      <4>3. g[i] = TakeMember(g[i - 1], members[i], limits, broken)
        BY <2>1, <4>1 DEF TakesUpTo
      <4> QED BY <4>2, <4>3, Zenon
    <3> QED BY <3>1, <3>2
  <2>5. Fits(h, k + 1)
    BY <2>3, <2>4, Zenon DEF TakesUpTo
  <2> QED BY <2>2, <2>5, Zenon
<1>3. PICK g : DOMAIN g = 0 .. n /\ g = [i \in 0 .. n |-> g[i]] /\ Fits(g, n)
  <2>1. n \in S
    <3> HIDE DEF S
    <3> QED BY <1>0, <1>1, <1>2, SetInduction
  <2> HIDE DEF Fits
  <2> QED BY <1>0, <2>1
<1>4. IsTaking(g, members, limits, broken)
  <2>1. \A i \in 0 .. n : g[i] = IF i = 0 THEN Unopened
                                 ELSE TakeMember(g[i - 1], members[i], limits, broken)
    <3> TAKE i \in 0 .. n
    <3>1. CASE i = 0
      BY <1>3, <3>1 DEF TakesUpTo
    <3>2. CASE i # 0
      <4>1. i \in 1 .. n
        BY <1>0, <3>2
      <4> QED BY <1>3, <3>2, <4>1 DEF TakesUpTo
    <3> QED BY <3>1, <3>2
  <2> QED BY <1>3, <2>1, ZenonT(30) DEF IsTaking, n
<1> QED BY <1>4 DEF Taking

\* An archive's dump was taken only if there is one.
LEMMA DumpIsAMember ==
  ASSUME NEW V, NEW members \in Seq(V), NEW limits, NEW broken,
         TakeAll(members, limits, broken).dump
  PROVE  \E i \in 1 .. Len(members) : members[i].name = HeapDumpMember
<1> SUFFICES ASSUME \A i \in 1 .. Len(members) : members[i].name # HeapDumpMember PROVE FALSE
  OBVIOUS
<1> DEFINE n == Len(members)
           f == Taking(members, limits, broken)
           Without(b) == "dump" \in DOMAIN b /\ ~ b.dump
           S == {k \in Nat : k <= n => Without(f[k])}
<1>0. n \in Nat
  OBVIOUS
<1>1. /\ f[0] = Unopened
      /\ \A k \in 1 .. n : f[k] = TakeMember(f[k - 1], members[k], limits, broken)
  <2>1. IsTaking(f, members, limits, broken)
    BY TakingExists
  <2> HIDE DEF f
  <2> QED BY <1>0, <2>1 DEF IsTaking
<1> HIDE DEF f, n
<1>2. 0 \in S
  BY <1>1 DEF Unopened
<1>3. ASSUME NEW k \in Nat, k \in S PROVE k + 1 \in S
  <2> SUFFICES ASSUME k + 1 <= n PROVE Without(f[k + 1])
    OBVIOUS
  <2> DEFINE m == members[k + 1]
             b == f[k]
  <2>1. k + 1 \in 1 .. n /\ k <= n /\ (k + 1) - 1 = k
    BY <1>0
  <2>2. Without(b) /\ m.name # HeapDumpMember /\ f[k + 1] = TakeMember(b, m, limits, broken)
    BY <1>1, <1>3, <2>1 DEF n
  <2> HIDE DEF m, b
  <2>3. Without(Abandon(b))
    BY <2>2 DEF Abandon
  <2> DEFINE seen == [b EXCEPT !.seen = @ \cup {m.name}]
  <2>4. Without(seen)
    BY <2>2
  <2> HIDE DEF seen
  <2>5. Without(Keep(seen, m))
    BY <2>4 DEF Keep
  <2>6. f[k + 1] \in {b, Abandon(b), Keep(seen, m)}
    <3> HIDE DEF Without
    <3> QED BY <2>2 DEF TakeMember, seen
  <2> HIDE DEF Without
  <2> QED BY <2>2, <2>3, <2>5, <2>6
<1>4. Without(f[n])
  <2>1. n \in S
    <3> HIDE DEF S
    <3> QED BY <1>0, <1>2, <1>3, SetInduction
  <2> QED BY <1>0, <2>1
<1> QED BY <1>4, TakeAllIsTaking DEF f, n

\* A is read to its end, its dump is there and its last member.
SoundStream(G, T, A) == Sized(T) /\ A \in Seq(T) /\ SoundFrom(G, A, 0)

\* What ValidateArchive asks of how the stream ends.
LEMMA ValidMeansEnded ==
  ASSUME NEW s, ValidateArchive(s)
  PROVE  Reading(s)[1].end = "EOF" /\ Reading(s)[1].last >= 4
BY ScanIsReading DEF ValidateArchive, CompleteMarker

LEMMA ValidIsWhole ==
  ASSUME NEW G, NEW T, NEW A, SoundStream(G, T, A), NEW n \in 0 .. Len(A), ValidateArchive(SubSeq(A, 1, n))
  PROVE  SubSeq(A, 1, n) = A
<1> DEFINE t == SubSeq(A, 1, n)
<1>0. A \in Seq(T) /\ Sized(T)
  BY DEF SoundStream
<1>1. Reading(t)[1].end = "EOF" /\ Reading(t)[1].last >= 4
  BY ValidMeansEnded
<1>2. Reading(A)[1] = Reading(t)[1] /\ Reading(t)[1].pos <= n + 1
  <2>1. 1 \in 1 .. n + 1
    BY <1>0
  <2> QED BY <1>0, <1>1, <2>1, ReadingOfPrefix
<1>3. Reading(A)[1].pos = Len(A) + 1
  <2>1. 0 + 1 = 1
    OBVIOUS
  <2> QED BY <2>1 DEF SoundStream, SoundFrom
<1>4. n = Len(A)
  <2>1. Len(A) + 1 <= n + 1
    BY <1>2, <1>3
  <2>2. Len(A) \in Nat
    BY <1>0
  <2> QED BY <2>1, <2>2
<1> QED BY <1>0, <1>4

\* Whatever is opened has a dump.
LEMMA OpenedHasDump ==
  ASSUME NEW s, NEW limits, NEW broken, Open(s, limits, broken).ok
  PROVE  Reading(s)[1].end = "EOF" /\ TakeAll(Reading(s)[1].members, limits, broken).dump
<1>1. Refused(TakeAll(Reading(s)[1].members, limits, broken)).ok = FALSE
  BY DEF Refused
<1> QED BY <1>1, ScanIsReading DEF Open, Complete

LEMMA SameReading ==
  ASSUME NEW s, NEW t, NEW limits, NEW broken, Reading(s)[1].end = Reading(t)[1].end,
         Reading(s)[1].members = Reading(t)[1].members
  PROVE  Open(s, limits, broken) = Open(t, limits, broken)
BY ScanIsReading, Zenon DEF Open

LEMMA PieceReadsAsWhole ==
  ASSUME NEW G, NEW T, NEW A, SoundStream(G, T, A), NEW n \in 0 .. Len(A), NEW limits, NEW broken,
         Open(SubSeq(A, 1, n), limits, broken).ok
  PROVE  Open(SubSeq(A, 1, n), limits, broken) = Open(A, limits, broken)
<1> DEFINE t == SubSeq(A, 1, n)
           here == Reading(t)[1].members
           all == Reading(A)[1].members
<1>0. A \in Seq(T) /\ Sized(T) /\ 1 \in 1 .. n + 1 /\ n + 1 <= Len(A) + 1 /\ Len(A) \in Nat
  BY DEF SoundStream
<1>1. t \in Seq(T) /\ Len(t) = n
  BY <1>0
<1>2. Reading(t)[1].end = "EOF" /\ TakeAll(here, limits, broken).dump
  BY OpenedHasDump
<1>3. Len(here) <= Len(all) /\ \A i \in 1 .. Len(here) : here[i] = all[i]
  BY <1>0, <1>2, ReadingOfPrefix
<1>4. here \in Seq(MembersOf(T)) /\ all \in Seq(MembersOf(T))
  <2>1. 1 \in 1 .. Len(t) + 1 /\ 1 \in 1 .. Len(A) + 1
    BY <1>0, <1>1
  <2> HIDE DEF t
  <2>2. Reading(t)[1] \in Scans(T) /\ Reading(A)[1] \in Scans(T)
    BY <1>0, <1>1, <2>1, ReadingType
  <2> QED BY <2>2 DEF Scans
<1>5. Reading(A)[1].end = "EOF" /\ DumpLast(all)
  <2>1. 0 + 1 = 1
    OBVIOUS
  <2> QED BY <2>1 DEF SoundStream, SoundFrom
<1> HIDE DEF t, here, all
<1>6. PICK i \in 1 .. Len(here) : here[i].name = HeapDumpMember
  BY <1>2, <1>4, DumpIsAMember
<1>7. i \in 1 .. Len(all) /\ all[i].name = HeapDumpMember
  BY <1>3, <1>4, <1>6
<1>8. i = Len(all)
  BY <1>5, <1>7 DEF DumpLast
<1>9. Len(here) = Len(all)
  BY <1>3, <1>4, <1>6, <1>8
<1>10. here = all
  BY <1>3, <1>4, <1>9
<1> QED BY <1>2, <1>5, <1>10, SameReading DEF t, here, all

-----------------------------------------------------------------------------
(* What Write writes *)

\* Chunks that are the front of an archive.
Fronted(G, T, c) == c \in Seq(Seq(T)) /\ IsFront(G, T, FlattenSeq(c))

FrontNext(G, T, c, d) == Fronted(G, T, c \o d)

LEMMA FrontedNothing == ASSUME NEW G, NEW T PROVE Fronted(G, T, <<>>)
<1>1. <<>> \in Seq(Seq(T)) /\ <<>> \in Seq(T)
  OBVIOUS
<1>2. FlattenSeq(<<>>) = <<>>
  BY <1>1, FlattenOne
<1> QED BY <1>1, <1>2, FrontNothing DEF Fronted

LEMMA FrontedMember ==
  ASSUME NEW G, NEW T, NEW N, Tarry(T, N), NEW name \in N, name # HeapDumpMember, NEW units \in Seq(T),
         WholeMember(name, units) \in G, NEW c, Fronted(G, T, c)
  PROVE  FrontNext(G, T, c, writeMember(name, units))
<1> DEFINE d == writeMember(name, units)
<1>1. c \in Seq(Seq(T)) /\ IsFront(G, T, FlattenSeq(c))
  BY DEF Fronted
<1>2. d \in Seq(Seq(T))
  BY WrittenStream
<1>3. IsFront(G, T, FlattenSeq(c) \o Written(name, units))
  BY <1>1, FrontOne
<1> HIDE DEF d
<1>4. c \o d \in Seq(Seq(T)) /\ FlattenSeq(c \o d) = FlattenSeq(c) \o FlattenSeq(d)
  <2>1. c \o d \in Seq(Seq(T))
    BY <1>1, <1>2
  <2> QED BY <1>1, <1>2, <2>1, FlattenConcat
<1> QED BY <1>3, <1>4, Zenon DEF Fronted, FrontNext, Written, d

LEMMA FrontedMembers ==
  ASSUME NEW G, NEW T, NEW N, Tarry(T, N), NEW m \in Nat, NEW f \in [1 .. m -> N],
         NEW g \in [1 .. m -> Seq(T)],
         Allotted(G, m, f, g),
         NEW c, Fronted(G, T, c)
  PROVE  FrontNext(G, T, c, ChunksOf(m, f, g))
<1> DEFINE d == ChunksOf(m, f, g)
<1>1. c \in Seq(Seq(T)) /\ IsFront(G, T, FlattenSeq(c))
  BY DEF Fronted
<1>2. d \in Seq(Seq(T))
  <2>1. <<>> \in Seq(T) /\ Len(<<>>) % 2 = 0
    OBVIOUS
  <2> QED BY <2>1, BackAll
<1>3. IsFront(G, T, FlattenSeq(c) \o StreamOf(m, f, g))
  BY <1>1, FrontAll
<1> HIDE DEF d
<1>4. c \o d \in Seq(Seq(T)) /\ FlattenSeq(c \o d) = FlattenSeq(c) \o FlattenSeq(d)
  <2>1. c \o d \in Seq(Seq(T))
    BY <1>1, <1>2
  <2> QED BY <1>1, <1>2, <2>1, FlattenConcat
<1> QED BY <1>3, <1>4, Zenon DEF Fronted, FrontNext, StreamOf, d

LEMMA LongerIsLong ==
  ASSUME NEW S, NEW x \in Seq(S), NEW y \in Seq(S), Len(y) > 0
  PROVE  Len(x \o y) > 0
OBVIOUS

\* These chunks are a whole archive.
IsArchive(G, T, chunks) ==
  /\ chunks \in Seq(Seq(T)) /\ Len(chunks) > 0
  /\ Sized(T) /\ SoundStream(G, T, FlattenSeq(chunks))

LEMMA ClosingIsMarker ==
  ASSUME NEW T, Zero \in T
  PROVE  ClosingChunks \in Seq(Seq(T)) /\ FlattenSeq(ClosingChunks) = EndMarker
<1> DEFINE z == <<Zero, Zero>>
<1>1. z \in Seq(T) /\ z \o z = EndMarker
  <2>1. z \in Seq(T) /\ Len(z) = 2 /\ z[1] = Zero /\ z[2] = Zero
    OBVIOUS
  <2>2. EndMarker \in Seq(T) /\ Len(EndMarker) = 4 /\ \A i \in 1 .. 4 : EndMarker[i] = Zero
    BY DEF EndMarker
  <2> HIDE DEF z
  <2>3. /\ z \o z \in Seq(T) /\ Len(z \o z) = Len(z) + Len(z)
        /\ \A i \in 1 .. Len(z) + Len(z) :
             (z \o z)[i] = IF i <= Len(z) THEN z[i] ELSE z[i - Len(z)]
    BY <2>1, ConcatProperties
  <2>4. ASSUME NEW i \in 1 .. 4 PROVE (z \o z)[i] = Zero
    <3>1. i \in 1 .. Len(z) + Len(z) /\ (i <= Len(z) => i \in 1 .. 2)
          /\ (~ i <= Len(z) => i - Len(z) \in 1 .. 2)
      BY <2>1
    <3>2. \A j \in 1 .. 2 : z[j] = Zero
      BY <2>1
    <3>3. (z \o z)[i] = IF i <= Len(z) THEN z[i] ELSE z[i - Len(z)]
      BY <2>3, <3>1
    <3> QED BY <3>1, <3>2, <3>3, Zenon
  <2> QED BY <2>1, <2>2, <2>3, <2>4
<1>2. ClosingChunks = <<z, z>>
  BY DEF ClosingChunks
<1> HIDE DEF z
<1>3. <<z>> \in Seq(Seq(T)) /\ ClosingChunks = <<z>> \o <<z>> /\ ClosingChunks \in Seq(Seq(T))
  BY <1>1, <1>2
<1>4. FlattenSeq(<<z>>) = z
  BY <1>1, FlattenOne
<1>5. FlattenSeq(<<z>> \o <<z>>) = FlattenSeq(<<z>>) \o FlattenSeq(<<z>>)
  BY <1>3, FlattenConcat
<1> QED BY <1>1, <1>3, <1>4, <1>5

LEMMA FrontedArchive ==
  ASSUME NEW G, NEW T, NEW N, Tarry(T, N), HeapDumpMember \in N, NEW units \in Seq(T),
         WholeMember(HeapDumpMember, units) \in G, NEW c, Fronted(G, T, c)
  PROVE  IsArchive(G, T, (c \o writeMember(HeapDumpMember, units)) \o ClosingChunks)
<1> DEFINE d == writeMember(HeapDumpMember, units)
           x == c \o d
<1>1. c \in Seq(Seq(T)) /\ IsFront(G, T, FlattenSeq(c)) /\ Sized(T) /\ Zero \in T
  BY DEF Fronted, Tarry
<1>2. d \in Seq(Seq(T))
  BY WrittenStream
<1>3. /\ (FlattenSeq(c) \o Written(HeapDumpMember, units)) \o EndMarker \in Seq(T)
      /\ SoundFrom(G, (FlattenSeq(c) \o Written(HeapDumpMember, units)) \o EndMarker, 0)
  BY <1>1, FrontWhole
<1>4. ClosingChunks \in Seq(Seq(T)) /\ FlattenSeq(ClosingChunks) = EndMarker
  BY <1>1, ClosingIsMarker
<1> HIDE DEF d
<1>5. x \in Seq(Seq(T)) /\ FlattenSeq(x) = FlattenSeq(c) \o FlattenSeq(d)
  <2>1. x \in Seq(Seq(T))
    BY <1>1, <1>2
  <2> QED BY <1>1, <1>2, <2>1, FlattenConcat
<1> HIDE DEF x
<1>6. /\ x \o ClosingChunks \in Seq(Seq(T))
      /\ FlattenSeq(x \o ClosingChunks) = FlattenSeq(x) \o FlattenSeq(ClosingChunks)
  <2>1. x \o ClosingChunks \in Seq(Seq(T))
    BY <1>4, <1>5
  <2> QED BY <1>4, <1>5, <2>1, FlattenConcat
<1>7. FlattenSeq(x \o ClosingChunks)
        = (FlattenSeq(c) \o Written(HeapDumpMember, units)) \o EndMarker
  BY <1>4, <1>5, <1>6, Zenon DEF Written, d
<1>8. Len(x \o ClosingChunks) > 0
  <2>1. Len(ClosingChunks) = 2
    BY DEF ClosingChunks
  <2>2. Len(ClosingChunks) > 0
    BY <2>1
  <2> QED BY <1>4, <1>5, <2>2, LongerIsLong, Zenon
<1> QED BY <1>1, <1>3, <1>6, <1>7, <1>8, Zenon DEF IsArchive, SoundStream, x, d

\* Names and units of the archive of what was collected.
ArchiveNames(collected) ==
  {MetaMember, SegmentsMember, HeapDumpMember} \cup ProfileKinds
    \cup {SegmentMemberName(i) : i \in DOMAIN collected.segments}
PlainUnits == [k : {"tail", "zero", "profile", "dump", "mem"}, v : Nat]
MetaUnit(collected) == [k |-> "meta", v |-> Metadata(collected)]
IndexUnit(collected) == [k |-> "index", v |-> Infos(collected.segments)]
ProfileUnit == [k |-> "profile", v |-> 0]
ArchiveUnits(collected) ==
  {HeadUnit(name, size) : name \in ArchiveNames(collected), size \in Nat}
    \cup PlainUnits \cup {MetaUnit(collected), IndexUnit(collected)}

\* What its members read back as.
Pieces(collected, dump) ==
  {WholeMember(MetaMember, <<MetaUnit(collected)>>),
   WholeMember(SegmentsMember, <<IndexUnit(collected)>>), WholeMember(HeapDumpMember, dump)}
    \cup {WholeMember(SegmentMemberName(i),
                      MemoryAt(collected.segments[i].start, collected.segments[i].size)) :
            i \in DOMAIN collected.segments}
    \cup {WholeMember(name, <<ProfileUnit>>) : name \in ProfileKinds}

MappingRecords == [start : Nat, size : Nat, read : BOOLEAN, write : BOOLEAN]

\* What Collected hands to Write.
IsCollection(collected) ==
  /\ collected.segments \in Seq(MappingRecords)
  /\ Len(collected.segments) <= Len(Mappings)

LEMMA ArchiveIsTarry ==
  ASSUME NEW collected
  PROVE  Tarry(ArchiveUnits(collected), ArchiveNames(collected))
<1> DEFINE T == ArchiveUnits(collected)
<1>1. Zero \in T /\ TailUnit \in T
  BY DEF Zero, TailUnit, ArchiveUnits, PlainUnits
<1>2. \A name \in ArchiveNames(collected), size \in Nat : HeadUnit(name, size) \in T
  BY DEF ArchiveUnits
<1>3. ASSUME NEW u \in T, u.k = "head" PROVE u.v.size \in Nat
  <2>1. MetaUnit(collected).k # "head" /\ IndexUnit(collected).k # "head"
    BY DEF MetaUnit, IndexUnit
  <2>2. \A w \in PlainUnits : w.k # "head"
    BY DEF PlainUnits
  <2>3. PICK name \in ArchiveNames(collected), size \in Nat : u = HeadUnit(name, size)
    BY <1>3, <2>1, <2>2 DEF ArchiveUnits
  <2> QED BY <2>3 DEF HeadUnit
<1> QED BY <1>1, <1>2, <1>3 DEF Tarry, Sized

LEMMA MemoryUnits ==
  ASSUME NEW addr \in Nat, NEW size \in Nat
  PROVE  MemoryAt(addr, size) \in Seq(PlainUnits)
<1>1. \A i \in 1 .. size : [k |-> "mem", v |-> addr + i - 1] \in PlainUnits
  BY DEF PlainUnits
<1> QED BY <1>1 DEF MemoryAt

\* Write's chunks, in the order of the code.
LEMMA WriteIsArchive ==
  ASSUME NEW collected, IsCollection(collected), NEW names \in Seq(ProfileKinds),
         NEW dump \in Seq([k : {"dump"}, v : Nat]),
         \A i \in 1 .. Len(Mappings) : SegmentNames[i] # HeapDumpMember, Len(Mappings) \in Nat
  PROVE  IsArchive(Pieces(collected, dump), ArchiveUnits(collected), Write(collected, names, dump))
<1> DEFINE G == Pieces(collected, dump)
           T == ArchiveUnits(collected)
           N == ArchiveNames(collected)
           segments == collected.segments
           n == Len(segments)
           infos == Infos(segments)
           f == [i \in 1 .. n |-> SegmentMemberName(i)]
           g == [i \in 1 .. n |-> MemoryAt(segments[i].start, segments[i].size)]
           h == [i \in 1 .. Len(names) |-> <<ProfileUnit>>]
           meta == MetaChunks(Metadata(collected))
           index == IndexChunks(infos)
<1>1. Tarry(T, N)
  BY ArchiveIsTarry
<1>2. n \in Nat /\ DOMAIN segments = 1 .. n /\ n <= Len(Mappings)
      /\ \A i \in 1 .. n : segments[i].start \in Nat /\ segments[i].size \in Nat
  <2>1. segments \in Seq(MappingRecords) /\ n <= Len(Mappings)
    BY DEF IsCollection
  <2>2. \A m \in MappingRecords : m.start \in Nat /\ m.size \in Nat
    BY DEF MappingRecords
  <2> HIDE DEF segments
  <2> QED BY <2>1, <2>2
<1>3. \A units \in Seq(PlainUnits) : units \in Seq(T)
  BY DEF ArchiveUnits
<1>4. Fronted(G, T, meta)
  <2> DEFINE u == <<MetaUnit(collected)>>
  <2>1. /\ u \in Seq(T) /\ MetaMember \in N /\ MetaMember # HeapDumpMember
        /\ WholeMember(MetaMember, u) \in G
    BY DEF ArchiveUnits, ArchiveNames, MetaMember, HeapDumpMember, Pieces
  <2>2. meta = writeMember(MetaMember, u)
    BY DEF MetaChunks, MetaUnit
  <2> HIDE DEF u, G, T, N, meta
  <2>3. FrontNext(G, T, <<>>, meta)
    BY <1>1, <2>1, <2>2, FrontedNothing, FrontedMember
  <2>4. meta \in Seq(Seq(T))
    BY <1>1, <2>1, <2>2, WrittenStream
  <2>5. <<>> \o meta = meta
    BY <2>4
  <2> QED BY <2>3, <2>5 DEF FrontNext
<1>5. FrontNext(G, T, meta, index)
  <2>1. CASE infos = <<>>
    <3>1. index = <<>>
      BY <2>1 DEF IndexChunks
    <3>2. meta \in Seq(Seq(T))
      BY <1>4 DEF Fronted
    <3> HIDE DEF T, N, meta, index
    <3>3. meta \o <<>> = meta
      BY <3>2
    <3> QED BY <1>4, <3>1, <3>3 DEF FrontNext
  <2>2. CASE infos # <<>>
    <3> DEFINE u == <<IndexUnit(collected)>>
    <3>1. /\ u \in Seq(T) /\ SegmentsMember \in N /\ SegmentsMember # HeapDumpMember
          /\ WholeMember(SegmentsMember, u) \in G
      BY DEF ArchiveUnits, ArchiveNames, SegmentsMember, HeapDumpMember, Pieces
    <3>2. index = writeMember(SegmentsMember, u)
      BY <2>2 DEF IndexChunks, IndexUnit
    <3> HIDE DEF u, G, T, N, meta, index
    <3> QED BY <1>1, <1>4, <3>1, <3>2, FrontedMember
  <2> QED BY <2>1, <2>2
<1>6. /\ f \in [1 .. n -> N] /\ g \in [1 .. n -> Seq(T)]
      /\ Allotted(G, n, f, g)
  <2>1. ASSUME NEW i \in 1 .. n
        PROVE  SegmentMemberName(i) \in N /\ SegmentMemberName(i) # HeapDumpMember
    <3>1. i \in DOMAIN collected.segments /\ i \in 1 .. Len(Mappings)
      BY <1>2
    <3> QED BY <3>1 DEF ArchiveNames, SegmentMemberName
  <2>2. ASSUME NEW i \in 1 .. n PROVE MemoryAt(segments[i].start, segments[i].size) \in Seq(T)
    <3> HIDE DEF T, segments
    <3> QED BY <1>2, <1>3, MemoryUnits
  <2>3. ASSUME NEW i \in 1 .. n
        PROVE  WholeMember(SegmentMemberName(i), MemoryAt(segments[i].start, segments[i].size)) \in G
    BY <1>2 DEF Pieces
  <2> HIDE DEF N, T, G, segments
  <2> QED BY <2>1, <2>2, <2>3 DEF Allotted
<1>7. SegmentChunks(infos) = ChunksOf(n, f, g)
  <2>1. DOMAIN infos = 1 .. n
    BY <1>2 DEF Infos
  <2>2. \A i \in 1 .. n : writeMember(infos[i].member, MemoryAt(infos[i].addr, infos[i].size))
                            = writeMember(f[i], g[i])
    BY <1>2 DEF Infos
  <2> HIDE DEF infos, f, g
  <2> QED BY <2>1, <2>2 DEF SegmentChunks, ChunksOf
<1>8. /\ names \in [1 .. Len(names) -> N] /\ h \in [1 .. Len(names) -> Seq(T)]
      /\ Len(names) \in Nat /\ Allotted(G, Len(names), names, h)
  <2>1. <<ProfileUnit>> \in Seq(T)
    BY DEF ArchiveUnits, ProfileUnit, PlainUnits
  <2>2. \A i \in 1 .. Len(names) : names[i] \in N /\ names[i] # HeapDumpMember
    BY DEF ArchiveNames, ProfileKinds, HeapDumpMember
  <2>3. \A i \in 1 .. Len(names) : WholeMember(names[i], <<ProfileUnit>>) \in G
    BY DEF Pieces
  <2> HIDE DEF T, N, G
  <2> QED BY <2>1, <2>2, <2>3 DEF Allotted
<1>9. ProfileChunks(names) = ChunksOf(Len(names), names, h)
  <2>1. DOMAIN names = 1 .. Len(names)
    OBVIOUS
  <2>2. \A i \in 1 .. Len(names) : writeMember(names[i], <<[k |-> "profile", v |-> 0]>>)
                                     = writeMember(names[i], h[i])
    BY DEF ProfileUnit
  <2> HIDE DEF h
  <2> QED BY <2>1, <2>2 DEF ProfileChunks, ChunksOf
<1>10. dump \in Seq(T) /\ HeapDumpMember \in N /\ WholeMember(HeapDumpMember, dump) \in G
  <2>1. dump \in Seq(PlainUnits)
    <3> DEFINE D == [k : {"dump"}, v : Nat]
    <3>1. dump \in Seq(D) /\ \A u \in D : u \in PlainUnits
      BY DEF PlainUnits
    <3> HIDE DEF D
    <3> QED BY <3>1
  <2> QED BY <1>3, <2>1 DEF ArchiveNames, Pieces
<1>11. Write(collected, names, dump)
         = ((((meta \o index) \o SegmentChunks(infos)) \o ProfileChunks(names))
             \o writeMember(HeapDumpMember, dump)) \o ClosingChunks
  BY DEF Write, DumpChunks
<1> HIDE DEF G, T, N, n, f, g, h, meta, index, infos, segments
<1>12. Fronted(G, T, meta \o index)
  BY <1>5 DEF FrontNext
<1>13. Fronted(G, T, (meta \o index) \o SegmentChunks(infos))
  <2>1. FrontNext(G, T, meta \o index, ChunksOf(n, f, g))
    BY <1>1, <1>2, <1>6, <1>12, FrontedMembers
  <2> QED BY <1>7, <2>1, Zenon DEF FrontNext
<1>14. Fronted(G, T, ((meta \o index) \o SegmentChunks(infos)) \o ProfileChunks(names))
  <2>1. FrontNext(G, T, (meta \o index) \o SegmentChunks(infos), ChunksOf(Len(names), names, h))
    BY <1>1, <1>8, <1>13, FrontedMembers
  <2> QED BY <1>9, <2>1, Zenon DEF FrontNext
<1>15. IsArchive(G, T, ((((meta \o index) \o SegmentChunks(infos)) \o ProfileChunks(names))
                     \o writeMember(HeapDumpMember, dump)) \o ClosingChunks)
  BY <1>1, <1>10, <1>14, FrontedArchive
<1> QED BY <1>11, <1>15, Zenon DEF G, T

-----------------------------------------------------------------------------
(* What the target collects *)

IsIterated(g, n, first, step) ==
  g[0] = first /\ \A i \in 1 .. n : g[i] = step[i][g[i - 1]]

\* A function defined by recursion on 0 .. n exists.
LEMMA Iterated ==
  ASSUME NEW V, NEW n \in Nat, NEW first \in V, NEW step \in [1 .. n -> [V -> V]]
  PROVE  \E g \in [0 .. n -> V] : IsIterated(g, n, first, step)
<1> DEFINE S == {k \in Nat : k <= n => \E g \in [0 .. n -> V] : IsIterated(g, k, first, step)}
<1>1. 0 \in S
  <2> DEFINE g == [i \in 0 .. n |-> first]
  <2>1. g \in [0 .. n -> V] /\ g[0] = first
    OBVIOUS
  <2> HIDE DEF g
  <2>2. IsIterated(g, 0, first, step)
    BY <2>1 DEF IsIterated
  <2> QED BY <2>1, <2>2
<1>2. ASSUME NEW k \in Nat, k \in S PROVE k + 1 \in S
  <2> SUFFICES ASSUME k + 1 <= n
               PROVE  \E g \in [0 .. n -> V] : IsIterated(g, k + 1, first, step)
    OBVIOUS
  <2>1. PICK g \in [0 .. n -> V] : IsIterated(g, k, first, step)
    BY <1>2
  <2> DEFINE c == step[k + 1][g[k]]
             h == [g EXCEPT ![k + 1] = c]
  <2>2. c \in V
    <3>1. k + 1 \in 1 .. n /\ k \in 0 .. n
      OBVIOUS
    <3> QED BY <2>1, <3>1
  <2> HIDE DEF c
  <2>3. h \in [0 .. n -> V] /\ h[k + 1] = c /\ \A i \in 0 .. k : h[i] = g[i]
    BY <2>1, <2>2
  <2> HIDE DEF h
  <2>4. h[0] = first
    BY <2>1, <2>3 DEF IsIterated
  <2>5. ASSUME NEW i \in 1 .. k + 1 PROVE h[i] = step[i][h[i - 1]]
    <3>1. i - 1 \in 0 .. k
      OBVIOUS
    <3>2. CASE i = k + 1
      <4>1. i - 1 = k
        BY <3>2
      <4> QED BY <2>3, <3>1, <3>2, <4>1 DEF c
    <3>3. CASE i # k + 1
      <4>1. i \in 1 .. k /\ i \in 0 .. k
        BY <3>3
      <4>2. h[i] = g[i] /\ h[i - 1] = g[i - 1]
        BY <2>3, <3>1, <4>1
      <4>3. g[i] = step[i][g[i - 1]]
        BY <2>1, <4>1 DEF IsIterated
      <4> QED BY <4>2, <4>3, Zenon
    <3> QED BY <3>2, <3>3
  <2>6. IsIterated(h, k + 1, first, step)
    BY <2>4, <2>5, Zenon DEF IsIterated
  <2> QED BY <2>3, <2>6, Zenon
<1>3. n \in S
  <2> HIDE DEF S
  <2> QED BY <1>1, <1>2, SetInduction
<1> QED BY <1>3

IsUpTo(f) ==
  f = [k \in 0 .. Len(Mappings) |->
         IF k = 0 THEN <<>>
         ELSE IF mappingEligibleForStringBody(Mappings[k]) THEN Append(f[k - 1], Mappings[k])
         ELSE f[k - 1]]
UpTo == CHOOSE f : IsUpTo(f)

LEMMA EligibleIsUpTo == EligibleStringRanges = UpTo[Len(Mappings)]
BY DEF EligibleStringRanges, UpTo, IsUpTo

LEMMA UpToExists ==
  ASSUME Mappings \in Seq(MappingRecords)
  PROVE  IsUpTo(UpTo)
<1> DEFINE n == Len(Mappings)
           V == Seq(MappingRecords)
           next(k, s) == IF mappingEligibleForStringBody(Mappings[k]) THEN Append(s, Mappings[k])
                         ELSE s
           step == [k \in 1 .. n |-> [s \in V |-> next(k, s)]]
<1>1. n \in Nat /\ <<>> \in V /\ \A k \in 1 .. n, s \in V : next(k, s) \in V
  OBVIOUS
<1>2. \E g \in [0 .. n -> V] : IsIterated(g, n, <<>>, step)
  <2> HIDE DEF n, V, next
  <2>1. step \in [1 .. n -> [V -> V]]
    BY <1>1
  <2> HIDE DEF step
  <2> QED BY <1>1, <2>1, Iterated
<1>3. PICK g \in [0 .. n -> V] : IsIterated(g, n, <<>>, step)
  BY <1>2
<1>4. \A k \in 0 .. n : g[k] = IF k = 0 THEN <<>> ELSE next(k, g[k - 1])
  <2> HIDE DEF n, V, next
  <2> TAKE k \in 0 .. n
  <2>1. CASE k = 0
    BY <1>3, <2>1 DEF IsIterated
  <2>2. CASE k # 0
    <3>1. k \in 1 .. n /\ k - 1 \in 0 .. n
      BY <1>1, <2>2
    <3>2. g[k - 1] \in V /\ step[k] = [s \in V |-> next(k, s)]
      BY <1>3, <3>1
    <3>3. g[k] = step[k][g[k - 1]]
      BY <1>3, <3>1 DEF IsIterated
    <3> HIDE DEF step
    <3> QED BY <2>2, <3>2, <3>3
  <2> QED BY <2>1, <2>2
<1>5. g = [k \in 0 .. n |-> IF k = 0 THEN <<>> ELSE next(k, g[k - 1])]
  <2> HIDE DEF n, V, next
  <2>1. g = [k \in 0 .. n |-> g[k]]
    OBVIOUS
  <2> QED BY <1>4, <2>1, Zenon
<1>6. IsUpTo(g)
  BY <1>5 DEF IsUpTo
<1> QED BY <1>6 DEF UpTo

\* The ranges read-only memory is taken from, no more than there are mappings.
LEMMA EligibleType ==
  ASSUME Mappings \in Seq(MappingRecords)
  PROVE  /\ EligibleStringRanges \in Seq(MappingRecords)
         /\ Len(EligibleStringRanges) <= Len(Mappings)
<1> DEFINE n == Len(Mappings)
           f == UpTo
           Good(k) == f[k] \in Seq(MappingRecords) /\ Len(f[k]) <= k
           S == {k \in Nat : k <= n => Good(k)}
<1>0. n \in Nat /\ \A k \in 1 .. n : Mappings[k] \in MappingRecords
  OBVIOUS
<1>1. /\ f[0] = <<>>
      /\ \A k \in 1 .. n : f[k] = f[k - 1] \/ f[k] = Append(f[k - 1], Mappings[k])
  <2>1. IsUpTo(f)
    BY UpToExists
  <2> DEFINE next(k) == IF mappingEligibleForStringBody(Mappings[k]) THEN Append(f[k - 1], Mappings[k])
                        ELSE f[k - 1]
  <2>2. f = [k \in 0 .. n |-> IF k = 0 THEN <<>> ELSE next(k)]
    BY <2>1, Zenon DEF IsUpTo
  <2>3. \A k \in 1 .. n : next(k) = f[k - 1] \/ next(k) = Append(f[k - 1], Mappings[k])
    BY Zenon
  <2> HIDE DEF f, next
  <2>4. f[0] = <<>> /\ \A k \in 1 .. n : f[k] = next(k)
    BY <1>0, <2>2
  <2> QED BY <2>3, <2>4, Zenon
<1> HIDE DEF f, n
<1>2. 0 \in S
  <2>1. <<>> \in Seq(MappingRecords) /\ Len(<<>>) = 0
    OBVIOUS
  <2>2. f[0] \in Seq(MappingRecords) /\ Len(f[0]) <= 0
    BY <1>1, <2>1
  <2> QED BY <2>2
<1>3. ASSUME NEW k \in Nat, k \in S PROVE k + 1 \in S
  <2> SUFFICES ASSUME k + 1 <= n PROVE Good(k + 1)
    OBVIOUS
  <2>1. k + 1 \in 1 .. n /\ (k + 1) - 1 = k /\ k <= n
    BY <1>0
  <2> DEFINE s == f[k]
             m == Mappings[k + 1]
  <2>2. s \in Seq(MappingRecords) /\ Len(s) <= k /\ m \in MappingRecords
    BY <1>0, <1>3, <2>1
  <2>3. f[k + 1] = s \/ f[k + 1] = Append(s, m)
    BY <1>1, <2>1
  <2> HIDE DEF s, m
  <2>4. Append(s, m) \in Seq(MappingRecords) /\ Len(Append(s, m)) = Len(s) + 1 /\ Len(s) \in Nat
    BY <2>2
  <2>5. CASE f[k + 1] = s
    <3>1. Len(s) <= k + 1
      BY <2>2, <2>4
    <3> QED BY <2>2, <2>5, <3>1, Zenon
  <2>6. CASE f[k + 1] = Append(s, m)
    <3>1. Len(Append(s, m)) <= k + 1
      BY <2>2, <2>4
    <3> QED BY <2>4, <2>6, <3>1, Zenon
  <2> QED BY <2>3, <2>5, <2>6
<1>4. Good(n)
  <2>1. n \in S
    <3> HIDE DEF S
    <3> QED BY <1>0, <1>2, <1>3, SetInduction
  <2> QED BY <1>0, <2>1
<1> QED BY <1>4, EligibleIsUpTo DEF f, n

Collections == [segments : Seq(MappingRecords), budget : Int, status : {"ok", "truncated"},
                skipped : BOOLEAN]

LEMMA CollectType ==
  ASSUME NEW sofar \in Collections, NEW m \in MappingRecords, NEW readable
  PROVE  /\ Collect(sofar, m, readable) \in Collections
         /\ Collect(sofar, m, readable).segments \in {sofar.segments, Append(sofar.segments, m)}
<1>1. m.size \in Int /\ sofar.budget - m.size \in Int
  BY DEF MappingRecords, Collections
<1>2. Append(sofar.segments, m) \in Seq(MappingRecords)
  BY DEF Collections
<1> DEFINE new == [sofar EXCEPT !.segments = Append(@, m), !.budget = @ - m.size]
           cut == [sofar EXCEPT !.status = "truncated"]
           skip == [sofar EXCEPT !.skipped = TRUE]
<1>3. new \in Collections /\ new.segments = Append(sofar.segments, m)
  BY <1>1, <1>2 DEF Collections
<1>4. cut \in Collections /\ cut.segments = sofar.segments
  BY DEF Collections
<1>5. skip \in Collections /\ skip.segments = sofar.segments
  BY DEF Collections
<1>6. Collect(sofar, m, readable) \in {sofar, new, cut, skip}
  BY Zenon DEF Collect
<1> HIDE DEF new, cut, skip
<1> QED BY <1>3, <1>4, <1>5, <1>6, Zenon

IsCollecting(f, readable, budget) ==
  f = [k \in 0 .. Len(EligibleStringRanges) |->
         IF k = 0 THEN NoSegments(budget)
         ELSE Collect(f[k - 1], EligibleStringRanges[k], readable)]
Collecting(readable, budget) == CHOOSE f : IsCollecting(f, readable, budget)

LEMMA CollectAllIsCollecting ==
  \A readable, budget :
    CollectAll(readable, budget) = Collecting(readable, budget)[Len(EligibleStringRanges)]
BY DEF CollectAll, Collecting, IsCollecting

LEMMA CollectingExists ==
  ASSUME Mappings \in Seq(MappingRecords), NEW readable, NEW budget \in Int
  PROVE  IsCollecting(Collecting(readable, budget), readable, budget)
<1> DEFINE ranges == EligibleStringRanges
           n == Len(ranges)
           V == Collections
           next(k, c) == Collect(c, ranges[k], readable)
           step == [k \in 1 .. n |-> [c \in V |-> next(k, c)]]
           first == NoSegments(budget)
<1>0. ranges \in Seq(MappingRecords)
  BY EligibleType
<1>1. n \in Nat /\ first \in V /\ \A k \in 1 .. n, c \in V : next(k, c) \in V
  <2> HIDE DEF ranges
  <2>1. n \in Nat /\ \A k \in 1 .. n : ranges[k] \in MappingRecords
    BY <1>0
  <2>2. first \in V
    BY DEF NoSegments, Collections
  <2> HIDE DEF n
  <2> QED BY <2>1, <2>2, CollectType
<1>2. \E g \in [0 .. n -> V] : IsIterated(g, n, first, step)
  <2> HIDE DEF n, V, next, first
  <2>1. step \in [1 .. n -> [V -> V]]
    BY <1>1
  <2> HIDE DEF step
  <2> QED BY <1>1, <2>1, Iterated
<1>3. PICK g \in [0 .. n -> V] : IsIterated(g, n, first, step)
  BY <1>2
<1>4. \A k \in 0 .. n : g[k] = IF k = 0 THEN first ELSE next(k, g[k - 1])
  <2> HIDE DEF n, V, next, first
  <2> TAKE k \in 0 .. n
  <2>1. CASE k = 0
    BY <1>3, <2>1 DEF IsIterated
  <2>2. CASE k # 0
    <3>1. k \in 1 .. n /\ k - 1 \in 0 .. n
      BY <1>1, <2>2
    <3>2. g[k - 1] \in V /\ step[k] = [c \in V |-> next(k, c)]
      BY <1>3, <3>1
    <3>3. g[k] = step[k][g[k - 1]]
      BY <1>3, <3>1 DEF IsIterated
    <3> HIDE DEF step
    <3> QED BY <2>2, <3>2, <3>3
  <2> QED BY <2>1, <2>2
<1>5. g = [k \in 0 .. n |-> IF k = 0 THEN first ELSE next(k, g[k - 1])]
  <2> HIDE DEF n, V, next, first
  <2>1. g = [k \in 0 .. n |-> g[k]]
    OBVIOUS
  <2> QED BY <1>4, <2>1, Zenon
<1>6. IsCollecting(g, readable, budget)
  BY <1>5 DEF IsCollecting
<1> QED BY <1>6 DEF Collecting

LEMMA CollectAllType ==
  ASSUME Mappings \in Seq(MappingRecords), NEW readable, NEW budget \in Int
  PROVE  CollectAll(readable, budget) \in Collections /\ IsCollection(CollectAll(readable, budget))
<1> DEFINE ranges == EligibleStringRanges
           n == Len(ranges)
           f == Collecting(readable, budget)
           Good(c, k) == c \in Collections /\ Len(c.segments) <= k
           S == {k \in Nat : k <= n => Good(f[k], k)}
<1>0. ranges \in Seq(MappingRecords) /\ n <= Len(Mappings)
  BY EligibleType
<1>1. n \in Nat /\ \A k \in 1 .. n : ranges[k] \in MappingRecords
  <2> HIDE DEF ranges
  <2> QED BY <1>0
<1>2. /\ f[0] = NoSegments(budget)
      /\ \A k \in 1 .. n : f[k] = Collect(f[k - 1], ranges[k], readable)
  <2>1. IsCollecting(f, readable, budget)
    BY CollectingExists
  <2> HIDE DEF f
  <2> QED BY <1>1, <2>1 DEF IsCollecting
<1> HIDE DEF f, n, ranges
<1>3. 0 \in S
  <2>1. NoSegments(budget) \in Collections /\ NoSegments(budget).segments = <<>>
    BY DEF NoSegments, Collections
  <2>2. Len(<<>>) <= 0
    OBVIOUS
  <2>3. Good(f[0], 0)
    BY <1>2, <2>1, <2>2, Zenon
  <2> HIDE DEF Good
  <2> QED BY <2>3
<1>4. ASSUME NEW k \in Nat, k \in S PROVE k + 1 \in S
  <2> SUFFICES ASSUME k + 1 <= n PROVE Good(f[k + 1], k + 1)
    <3> HIDE DEF Good
    <3> QED OBVIOUS
  <2>1. k + 1 \in 1 .. n /\ (k + 1) - 1 = k /\ k <= n
    BY <1>1
  <2> DEFINE c == f[k]
             m == ranges[k + 1]
             s == c.segments
             d == f[k + 1]
  <2>2. c \in Collections /\ Len(s) <= k /\ m \in MappingRecords
    BY <1>1, <1>4, <2>1
  <2>3. d = Collect(c, m, readable)
    BY <1>2, <2>1
  <2>4. s \in Seq(MappingRecords)
    BY <2>2 DEF Collections
  <2> HIDE DEF c, m, d
  <2>5. d \in Collections /\ d.segments \in {s, Append(s, m)}
    BY <2>2, <2>3, CollectType
  <2> HIDE DEF s
  <2>6. Len(Append(s, m)) = Len(s) + 1 /\ Len(s) \in Nat
    BY <2>2, <2>4
  <2>7. Len(s) <= k + 1 /\ Len(Append(s, m)) <= k + 1
    BY <2>2, <2>6
  <2>8. Len(d.segments) <= k + 1
    BY <2>5, <2>7, Zenon
  <2> QED BY <2>5, <2>8, Zenon DEF d
<1>5. Good(f[n], n)
  <2>1. n \in S
    <3> HIDE DEF S
    <3> QED BY <1>1, <1>3, <1>4, SetInduction
  <2> HIDE DEF Good
  <2> QED BY <1>1, <2>1
<1>6. CollectAll(readable, budget) = f[n]
  BY CollectAllIsCollecting DEF f, n, ranges
<1>7. f[n].segments \in Seq(MappingRecords)
  BY <1>5 DEF Collections
<1>8. Len(f[n].segments) <= Len(Mappings)
  <2> DEFINE l == Len(f[n].segments)
             q == Len(Mappings)
  <2>1. l <= n /\ l \in Nat /\ q \in Nat /\ n <= q
    BY <1>0, <1>5, <1>7
  <2> HIDE DEF l, q
  <2>2. l <= q
    BY <1>1, <2>1
  <2> QED BY <2>2 DEF l, q
<1> QED BY <1>5, <1>6, <1>7, <1>8 DEF IsCollection

\* The ranges a collection holds.
Held(c) == {c.segments[i] : i \in 1 .. Len(c.segments)}

\* The collection stands for all that was asked of it.
IsComplete(c) == c.status = "ok" /\ ~ c.skipped

\* One more range: if nothing is missing afterwards, nothing was missing before,
\* and the range is held unless it is empty.
LEMMA CollectHolds ==
  ASSUME NEW sofar \in Collections, NEW m \in MappingRecords, NEW readable,
         IsComplete(Collect(sofar, m, readable))
  PROVE  /\ IsComplete(sofar) /\ Held(sofar) \subseteq Held(Collect(sofar, m, readable))
         /\ m.size = 0 \/ m \in Held(Collect(sofar, m, readable))
<1> DEFINE new == [sofar EXCEPT !.segments = Append(@, m), !.budget = @ - m.size]
           cut == [sofar EXCEPT !.status = "truncated"]
           skip == [sofar EXCEPT !.skipped = TRUE]
           s == sofar.segments
<1>1. s \in Seq(MappingRecords)
  BY DEF Collections
<1>2. new.segments = Append(s, m) /\ new.status = sofar.status /\ new.skipped = sofar.skipped
  BY DEF Collections
<1>3. ~ IsComplete(cut) /\ ~ IsComplete(skip)
  BY DEF Collections, IsComplete
<1>4. \/ m.size = 0 /\ Collect(sofar, m, readable) = sofar
      \/ Collect(sofar, m, readable) \in {new, cut, skip}
  BY Zenon DEF Collect
<1> HIDE DEF new, cut, skip
<1>5. CASE m.size = 0 /\ Collect(sofar, m, readable) = sofar
  BY <1>5
<1>6. CASE Collect(sofar, m, readable) = new
  <2>1. IsComplete(sofar)
    BY <1>2, <1>6 DEF IsComplete
  <2> HIDE DEF s
  <2>2. /\ Len(s) \in Nat /\ Len(Append(s, m)) = Len(s) + 1 /\ Append(s, m)[Len(s) + 1] = m
        /\ \A i \in 1 .. Len(s) : Append(s, m)[i] = s[i]
    BY <1>1
  <2>3. Held(new) = {Append(s, m)[i] : i \in 1 .. Len(s) + 1} /\ Held(sofar) = {s[i] : i \in 1 .. Len(s)}
    BY <1>2, <2>2 DEF Held, s
  <2> DEFINE t == Append(s, m)
             l == Len(s)
  <2>4. /\ l \in Nat /\ t[l + 1] = m /\ \A i \in 1 .. l : t[i] = s[i]
        /\ Held(new) = {t[i] : i \in 1 .. l + 1} /\ Held(sofar) = {s[i] : i \in 1 .. l}
    BY <2>2, <2>3
  <2> HIDE DEF t, l
  <2>5. m \in Held(new)
    <3>1. l + 1 \in 1 .. l + 1
      BY <2>4
    <3> QED BY <2>4, <3>1
  <2>6. Held(sofar) \subseteq Held(new)
    <3>1. \A i \in 1 .. l : i \in 1 .. l + 1
      BY <2>4
    <3> QED BY <2>4, <3>1
  <2> QED BY <1>6, <2>1, <2>5, <2>6
<1> QED BY <1>3, <1>4, <1>5, <1>6

\* A collection without a warning holds every range that is not empty.
LEMMA CollectAllHolds ==
  ASSUME Mappings \in Seq(MappingRecords), NEW readable, NEW budget \in Int,
         IsComplete(CollectAll(readable, budget)),
         NEW j \in 1 .. Len(EligibleStringRanges)
  PROVE  \/ EligibleStringRanges[j].size = 0
         \/ EligibleStringRanges[j] \in Held(CollectAll(readable, budget))
<1> DEFINE ranges == EligibleStringRanges
           n == Len(ranges)
           f == Collecting(readable, budget)
           Holds(c, i) == ranges[i].size = 0 \/ ranges[i] \in Held(c)
           Good(c, k) == c \in Collections /\ (IsComplete(c) => \A i \in 1 .. k : Holds(c, i))
           S == {k \in Nat : k <= n => Good(f[k], k)}
<1>0. ranges \in Seq(MappingRecords)
  BY EligibleType
<1>1. n \in Nat /\ \A k \in 1 .. n : ranges[k] \in MappingRecords
  <2> HIDE DEF ranges
  <2> QED BY <1>0
<1>2. /\ f[0] = NoSegments(budget)
      /\ \A k \in 1 .. n : f[k] = Collect(f[k - 1], ranges[k], readable)
  <2>1. IsCollecting(f, readable, budget)
    BY CollectingExists
  <2> HIDE DEF f
  <2> QED BY <1>1, <2>1 DEF IsCollecting
<1>3. CollectAll(readable, budget) = f[n]
  BY CollectAllIsCollecting
<1> HIDE DEF f, n
<1>4. 0 \in S
  <2>1. NoSegments(budget) \in Collections
    BY DEF NoSegments, Collections
  <2> HIDE DEF Holds
  <2> QED BY <1>2, <2>1
<1>5. ASSUME NEW k \in Nat, k \in S PROVE k + 1 \in S
  <2> SUFFICES ASSUME k + 1 <= n PROVE Good(f[k + 1], k + 1)
    <3> HIDE DEF Good
    <3> QED OBVIOUS
  <2>1. k + 1 \in 1 .. n /\ (k + 1) - 1 = k /\ k <= n
    BY <1>1
  <2> DEFINE c == f[k]
             m == ranges[k + 1]
             d == f[k + 1]
  <2>2. Good(c, k) /\ m \in MappingRecords /\ d = Collect(c, m, readable)
    BY <1>1, <1>2, <1>5, <2>1
  <2> HIDE DEF c, d
  <2>3. d \in Collections
    BY <2>2, CollectType
  <2>4. ASSUME IsComplete(d), NEW i \in 1 .. k + 1 PROVE Holds(d, i)
    <3>1. IsComplete(c) /\ Held(c) \subseteq Held(d) /\ (m.size = 0 \/ m \in Held(d))
      BY <2>2, <2>4, CollectHolds
    <3>2. CASE i = k + 1
      BY <3>1, <3>2
    <3>3. CASE i # k + 1
      <4>1. i \in 1 .. k
        BY <3>3
      <4> QED BY <2>2, <3>1, <4>1
    <3> QED BY <3>2, <3>3
  <2> QED BY <2>3, <2>4 DEF d
<1>6. Good(f[n], n)
  <2>1. n \in S
    <3> HIDE DEF S
    <3> QED BY <1>1, <1>4, <1>5, SetInduction
  <2> HIDE DEF Good
  <2> QED BY <1>1, <2>1
<1>7. IsComplete(f[n]) /\ j \in 1 .. n
  BY <1>3 DEF n
<1>8. Holds(f[n], j)
  <2> HIDE DEF Holds
  <2> QED BY <1>6, <1>7
<1> QED BY <1>3, <1>8

Readers == {"disabled", "missing", "open"}

LEMMA CollectedType ==
  ASSUME Mappings \in Seq(MappingRecords), NEW readable, NEW budget \in Int, NEW reader \in Readers
  PROVE  IsCollection(Collected(readable, budget, reader))
<1> DEFINE all == CollectAll(readable, budget)
           none == NoSegments(budget)
<1>1. all \in Collections /\ IsCollection(all)
  BY CollectAllType
<1>2. none \in Collections /\ IsCollection(none)
  <2>1. <<>> \in Seq(MappingRecords) /\ Len(<<>>) = 0 /\ Len(Mappings) \in Nat
    OBVIOUS
  <2>2. none.segments = <<>>
    BY DEF NoSegments
  <2>3. none \in Collections
    BY DEF NoSegments, Collections
  <2> QED BY <2>1, <2>2, <2>3 DEF IsCollection
<1> HIDE DEF all, none
<1>3. ASSUME NEW c \in Collections, IsCollection(c), NEW how
      PROVE  IsCollection([c EXCEPT !.status = how])
  <2>1. [c EXCEPT !.status = how].segments = c.segments
    BY DEF Collections
  <2> QED BY <1>3, <2>1 DEF IsCollection
<1>4. IsCollection(collectSegments(readable, budget))
  <2>1. collectSegments(readable, budget) \in {all, [all EXCEPT !.status = "unavailable"]}
    BY Zenon DEF collectSegments, all
  <2> QED BY <1>1, <1>3, <2>1
<1>5. CASE reader = "disabled"
  BY <1>2, <1>3, <1>5 DEF Collected, none
<1>6. CASE reader = "missing"
  BY <1>2, <1>3, <1>6 DEF Collected, none
<1>7. CASE reader = "open"
  BY <1>4, <1>7 DEF Collected
<1> QED BY <1>5, <1>6, <1>7 DEF Readers

\* Every mapping has a name of its own for its segment.
LEMMA NamesApart ==
  ASSUME NEW i \in DOMAIN Mappings
  PROVE  /\ SegmentNames[i] \notin {MetaMember, SegmentsMember, HeapDumpMember} \cup ProfileKinds
         /\ \A j \in DOMAIN Mappings : SegmentNames[i] = SegmentNames[j] => i = j
BY CaptureAssumption, BundleAssumption DEF CaptureAssumption, BundleAssumption

\* Only a reader that found every range collects without a warning.
LEMMA CollectedHolds ==
  ASSUME Mappings \in Seq(MappingRecords), NEW readable, NEW budget \in Int, NEW reader \in Readers,
         IsComplete(Collected(readable, budget, reader)),
         NEW j \in 1 .. Len(EligibleStringRanges)
  PROVE  \/ EligibleStringRanges[j].size = 0
         \/ EligibleStringRanges[j] \in Held(Collected(readable, budget, reader))
<1> DEFINE all == CollectAll(readable, budget)
           none == NoSegments(budget)
<1>1. all \in Collections
  BY CollectAllType
<1>2. [none EXCEPT !.status = "disabled"].status # "ok" /\ [none EXCEPT !.status = "unavailable"].status # "ok"
  BY DEF NoSegments
<1> HIDE DEF all, none
<1>3. [all EXCEPT !.status = "unavailable"].status # "ok"
  BY <1>1 DEF Collections
<1>4. reader = "open"
  <2>1. CASE reader = "disabled"
    <3>1. Collected(readable, budget, reader) = [none EXCEPT !.status = "disabled"]
      BY <2>1 DEF Collected, none
    <3> QED BY <1>2, <3>1 DEF IsComplete
  <2>2. CASE reader = "missing"
    <3>1. Collected(readable, budget, reader) = [none EXCEPT !.status = "unavailable"]
      BY <2>2 DEF Collected, none
    <3> QED BY <1>2, <3>1 DEF IsComplete
  <2> QED BY <2>1, <2>2 DEF Readers
<1>5. Collected(readable, budget, reader) = collectSegments(readable, budget)
  BY <1>4 DEF Collected
<1>6. collectSegments(readable, budget) \in {all, [all EXCEPT !.status = "unavailable"]}
  BY Zenon DEF collectSegments, all
<1>7. Collected(readable, budget, reader) = all
  BY <1>3, <1>5, <1>6 DEF IsComplete
<1> QED BY <1>7, CollectAllHolds DEF all

\* Every archive this server sends is sound, whichever of its memory was
\* readable and however the endpoint was set up.
LEMMA CapturedIsArchive ==
  ASSUME NEW chunks \in Captured
  PROVE  \E P \in Readable, o \in Options :
           IsArchive(Pieces(Collected(P, o.budget, o.reader), DumpUnits),
                     ArchiveUnits(Collected(P, o.budget, o.reader)), chunks)
<1>1. PICK P \in Readable, o \in Options :
        chunks = Write(Collected(P, o.budget, o.reader), o.profiles, DumpUnits)
  BY DEF Captured
<1> DEFINE c == Collected(P, o.budget, o.reader)
<1>2. /\ o.budget \in Int /\ o.profiles \in Seq(ProfileKinds) /\ o.reader \in Readers
      /\ DumpUnits \in Seq([k : {"dump"}, v : Nat])
  BY TransferAssumption DEF Readers
<1>3. Mappings \in Seq(MappingRecords)
  BY CaptureAssumption DEF MappingRecords
<1>4. IsCollection(c)
  BY <1>2, <1>3, CollectedType
<1>5. Len(Mappings) \in Nat /\ \A i \in 1 .. Len(Mappings) : SegmentNames[i] # HeapDumpMember
  <2>1. Len(Mappings) \in Nat /\ DOMAIN Mappings = 1 .. Len(Mappings)
    BY <1>3
  <2> QED BY <2>1, NamesApart
<1> HIDE DEF c
<1>6. IsArchive(Pieces(c, DumpUnits), ArchiveUnits(c), Write(c, o.profiles, DumpUnits))
  BY <1>2, <1>4, <1>5, WriteIsArchive
<1> QED BY <1>1, <1>6 DEF c

LEMMA OwnIsSound ==
  ASSUME NEW archive \in OwnArchives
  PROVE  \E G, T : SoundStream(G, T, archive)
<1>1. PICK chunks \in Captured : archive = FlattenSeq(chunks)
  BY DEF OwnArchives
<1>2. PICK G, T : IsArchive(G, T, chunks)
  BY CapturedIsArchive
<1> QED BY <1>1, <1>2 DEF IsArchive

-----------------------------------------------------------------------------
(* Opening and its temporary file *)

\* A bundle being read that failed has no dump, and one that has it knows.
HasNoLeftover(b) ==
  /\ {"ok", "temp", "seen"} \subseteq DOMAIN b
  /\ b.ok \in BOOLEAN /\ b.temp \in BOOLEAN
  /\ ~ b.ok => ~ b.temp
  /\ b.temp => HeapDumpMember \in b.seen

LEMMA AbandonLeavesNothing ==
  ASSUME NEW b, HasNoLeftover(b)
  PROVE  HasNoLeftover(Abandon(b)) /\ Abandon(b).ok = FALSE /\ Abandon(b).temp = FALSE
BY DEF HasNoLeftover, Abandon

LEMMA KeepKeepsTemp ==
  ASSUME NEW b, HasNoLeftover(b), NEW m
  PROVE  HasNoLeftover(Keep(b, m))
BY DEF HasNoLeftover, Keep

\* The dump is extracted at most once, and removed when reading fails.
LEMMA TakeLeavesNothing ==
  ASSUME NEW b, HasNoLeftover(b), NEW m, NEW limits, NEW broken
  PROVE  HasNoLeftover(TakeMember(b, m, limits, broken))
<1> DEFINE seen == [b EXCEPT !.seen = @ \cup {m.name}]
<1>1. HasNoLeftover(seen) /\ m.name \in seen.seen /\ seen.temp = b.temp
  BY DEF HasNoLeftover
<1> HIDE DEF seen
<1>2. ASSUME Admissible(b, m, limits), m.name = HeapDumpMember, b.ok
      PROVE  HasNoLeftover(ExtractDump(seen, m, broken))
  <2>1. m.name \notin b.seen
    BY <1>2 DEF Admissible, Recognized
  <2>2. ~ b.temp
    BY <1>2, <2>1 DEF HasNoLeftover
  <2>3. HasNoLeftover([seen EXCEPT !.ok = FALSE])
    BY <1>1, <2>2 DEF HasNoLeftover
  <2>4. HasNoLeftover([seen EXCEPT !.temp = TRUE, !.dump = TRUE]) \/ ~ seen.ok
    BY <1>1, <1>2 DEF HasNoLeftover
  <2>5. HasNoLeftover(Abandon([seen EXCEPT !.temp = TRUE]))
    BY <1>1, <1>2 DEF HasNoLeftover, Abandon
  <2>6. seen.ok
    BY <1>2 DEF HasNoLeftover, seen
  <2>7. ExtractDump(seen, m, broken) \in
          {[seen EXCEPT !.ok = FALSE], [seen EXCEPT !.temp = TRUE, !.dump = TRUE],
           Abandon([seen EXCEPT !.temp = TRUE])}
    BY Zenon DEF ExtractDump
  <2> QED BY <2>3, <2>4, <2>5, <2>6, <2>7, Zenon
<1>3. HasNoLeftover(Abandon(b)) /\ HasNoLeftover(Keep(seen, m))
  BY <1>1, AbandonLeavesNothing, KeepKeepsTemp
<1>4. \/ TakeMember(b, m, limits, broken) \in {b, Abandon(b), Keep(seen, m)}
      \/ /\ b.ok /\ Admissible(b, m, limits) /\ m.name = HeapDumpMember
         /\ TakeMember(b, m, limits, broken) = ExtractDump(seen, m, broken)
  BY Zenon DEF TakeMember, seen
<1> QED BY <1>2, <1>3, <1>4, Zenon

LEMMA TakeAllLeavesNothing ==
  ASSUME NEW V, NEW members \in Seq(V), NEW limits, NEW broken
  PROVE  HasNoLeftover(TakeAll(members, limits, broken))
<1> DEFINE n == Len(members)
           f == Taking(members, limits, broken)
           S == {k \in Nat : k <= n => HasNoLeftover(f[k])}
<1>0. n \in Nat
  OBVIOUS
<1>1. /\ f[0] = Unopened
      /\ \A k \in 1 .. n : f[k] = TakeMember(f[k - 1], members[k], limits, broken)
  <2>1. IsTaking(f, members, limits, broken)
    BY TakingExists
  <2> HIDE DEF f
  <2> QED BY <1>0, <2>1 DEF IsTaking
<1> HIDE DEF f, n
<1>2. 0 \in S
  <2>1. HasNoLeftover(Unopened)
    BY DEF HasNoLeftover, Unopened
  <2> QED BY <1>1, <2>1
<1>3. ASSUME NEW k \in Nat, k \in S PROVE k + 1 \in S
  <2> SUFFICES ASSUME k + 1 <= n PROVE HasNoLeftover(f[k + 1])
    OBVIOUS
  <2>1. k + 1 \in 1 .. n /\ (k + 1) - 1 = k /\ k <= n
    BY <1>0
  <2>2. HasNoLeftover(f[k]) /\ f[k + 1] = TakeMember(f[k], members[k + 1], limits, broken)
    BY <1>1, <1>3, <2>1
  <2> QED BY <2>2, TakeLeavesNothing
<1>4. n \in S
  <2> HIDE DEF S
  <2> QED BY <1>0, <1>2, <1>3, SetInduction
<1> QED BY <1>0, <1>4, TakeAllIsTaking DEF f, n

\* Open hands out a dump with the bundle and leaves none when it fails.
LEMMA OpenLeavesNothing ==
  ASSUME NEW T, Sized(T), NEW s \in Seq(T), NEW limits, NEW broken
  PROVE  /\ Open(s, limits, broken).ok \in BOOLEAN
         /\ Open(s, limits, broken).temp = Open(s, limits, broken).ok
<1> DEFINE b == TakeAll(Reading(s)[1].members, limits, broken)
<1>1. HasNoLeftover(b)
  <2>1. 1 \in 1 .. Len(s) + 1
    OBVIOUS
  <2>2. Reading(s)[1] \in Scans(T)
    BY <2>1, ReadingType
  <2>3. Reading(s)[1].members \in Seq(MembersOf(T))
    BY <2>2 DEF Scans
  <2> QED BY <2>3, TakeAllLeavesNothing
<1> HIDE DEF b
<1>2. Abandon(b).temp = FALSE
  BY <1>1, AbandonLeavesNothing
<1>3. \/ ~ b.ok /\ Open(s, limits, broken) = [ok |-> FALSE, temp |-> b.temp]
      \/ Open(s, limits, broken) \in {Refused(b), Handed(b)}
  BY ScanIsReading, Zenon DEF Open, b
<1>4. Refused(b).ok = FALSE /\ Refused(b).temp = FALSE /\ Handed(b).ok = TRUE /\ Handed(b).temp = TRUE
  BY <1>2 DEF Refused, Handed
<1>5. ~ b.ok => b.temp = FALSE
  BY <1>1 DEF HasNoLeftover
<1>6. CASE ~ b.ok /\ Open(s, limits, broken) = [ok |-> FALSE, temp |-> b.temp]
  <2>1. b.temp = FALSE
    BY <1>5, <1>6, Zenon
  <2>2. Open(s, limits, broken).ok = FALSE /\ Open(s, limits, broken).temp = b.temp
    BY <1>6
  <2> QED BY <2>1, <2>2
<1>7. CASE Open(s, limits, broken) = Refused(b)
  BY <1>4, <1>7
<1>8. CASE Open(s, limits, broken) = Handed(b)
  BY <1>4, <1>8
<1> QED BY <1>3, <1>6, <1>7, <1>8, Zenon

-----------------------------------------------------------------------------
(* Reading segments back *)

\* A part of what memory holds is what memory holds there.
LEMMA MemoryPiece ==
  ASSUME NEW s \in Nat, NEW z \in Nat, NEW addr \in Nat, NEW size \in Nat,
         s <= addr, addr + size <= s + z
  PROVE  SubSeq(MemoryAt(s, z), addr - s + 1, addr - s + size) = MemoryAt(addr, size)
<1> DEFINE a == MemoryAt(s, z)
           u == MemoryAt(addr, size)
           q == addr - s
           T == [k : {"mem"}, v : Int]
<1>1. a \in Seq(T) /\ Len(a) = z /\ \A i \in 1 .. z : a[i] = [k |-> "mem", v |-> s + i - 1]
  BY DEF MemoryAt
<1>2. u \in Seq(T) /\ Len(u) = size /\ \A i \in 1 .. size : u[i] = [k |-> "mem", v |-> addr + i - 1]
  BY DEF MemoryAt
<1>3. q \in Nat /\ q + size <= z
  OBVIOUS
<1>4. ASSUME NEW i \in 1 .. size PROVE a[q + i] = u[i]
  <2>1. q + i \in 1 .. z /\ s + (q + i) - 1 = addr + i - 1
    OBVIOUS
  <2> HIDE DEF a, u, q
  <2> QED BY <1>1, <1>2, <2>1
<1> HIDE DEF a, u, q, T
<1>5. SubSeq(a, q + 1, q + Len(u)) = u
  BY <1>1, <1>2, <1>3, <1>4, FoundPiece
<1>6. SubSeq(a, q + 1, q + size) = u
  BY <1>2, <1>5
<1> QED BY <1>6 DEF a, u, q

\* A segment that holds memory.
HoldsMemory(segment) ==
  segment.addr \in Nat /\ \E z \in Nat : segment.units = MemoryAt(segment.addr, z)

LEMMA MemoryLength == ASSUME NEW s \in Nat, NEW z \in Nat PROVE Len(MemoryAt(s, z)) = z
BY DEF MemoryAt

\* SegmentsReader.ReadAtAddr hands out what memory held.
LEMMA SegmentReadsMemory ==
  ASSUME NEW segments, \A i \in DOMAIN segments : HoldsMemory(segments[i]),
         NEW addr \in Nat, NEW size \in Nat, SegmentRead(segments, addr, size).ok
  PROVE  SegmentRead(segments, addr, size).units = MemoryAt(addr, size)
<1> DEFINE holders == {i \in DOMAIN segments :
                         /\ segments[i].addr <= addr
                         /\ addr + size <= segments[i].addr + Len(segments[i].units)}
           h == CHOOSE i \in holders : TRUE
           s == segments[h].addr
           units == segments[h].units
           piece == SubSeq(units, addr - s + 1, addr - s + size)
<1>1. CASE size = 0
  <2>1. SegmentRead(segments, addr, size).units = <<>>
    BY <1>1 DEF SegmentRead
  <2>2. MemoryAt(addr, size) = <<>>
    BY <1>1 DEF MemoryAt
  <2> QED BY <2>1, <2>2
<1>2. CASE size # 0
  <2>1. holders # {} /\ SegmentRead(segments, addr, size).units = piece
    BY <1>2, Zenon DEF SegmentRead
  <2>2. h \in holders
    <3> HIDE DEF holders
    <3> QED BY <2>1
  <2>3. h \in DOMAIN segments /\ s <= addr /\ addr + size <= s + Len(units)
    BY <2>2, Zenon
  <2>4. HoldsMemory(segments[h])
    BY <2>3, Zenon
  <2> HIDE DEF h
  <2>5. PICK z \in Nat : s \in Nat /\ units = MemoryAt(s, z)
    BY <2>4 DEF HoldsMemory
  <2> HIDE DEF s, units
  <2>6. addr + size <= s + z
    BY <2>3, <2>5, MemoryLength
  <2>7. piece = MemoryAt(addr, size)
    BY <2>3, <2>5, <2>6, MemoryPiece
  <2> QED BY <2>1, <2>7
<1> QED BY <1>1, <1>2

\* What a bundle being read keeps comes from the members it has read.
KeepsOf(b, ms) ==
  /\ {"ok", "temp", "dump", "seen", "meta", "index", "data"} \subseteq DOMAIN b
  /\ b.meta # <<>> =>
       \E y \in ms : y.name = MetaMember /\ DecodesAs("meta", y.body) /\ b.meta = y.body
  /\ b.index # <<>> =>
       \E x \in ms : x.name = SegmentsMember /\ DecodesAs("index", x.body) /\ b.index = x.body[1].v
  /\ b.data \in Seq(ms)

\* Two states of a bundle that keep the same.
KeepsTheSame(b, c) ==
  /\ DOMAIN c = DOMAIN b
  /\ c.meta = b.meta /\ c.index = b.index /\ c.data = b.data

LEMMA KeepingTheSame ==
  ASSUME NEW ms, NEW b, KeepsOf(b, ms), NEW c, KeepsTheSame(b, c)
  PROVE  KeepsOf(c, ms)
BY DEF KeepsOf, KeepsTheSame

LEMMA AbandonKeeps ==
  ASSUME NEW ms, NEW b, KeepsOf(b, ms)
  PROVE  KeepsOf(Abandon(b), ms)
<1>1. KeepsTheSame(b, Abandon(b))
  BY DEF KeepsOf, KeepsTheSame, Abandon
<1> QED BY <1>1, KeepingTheSame

LEMMA ExtractKeeps ==
  ASSUME NEW ms, NEW b, KeepsOf(b, ms), NEW m, NEW broken
  PROVE  KeepsOf(ExtractDump(b, m, broken), ms)
<1> DEFINE temp == [b EXCEPT !.temp = TRUE]
           failed == [b EXCEPT !.ok = FALSE]
           done == [b EXCEPT !.temp = TRUE, !.dump = TRUE]
<1>1. KeepsTheSame(b, temp) /\ KeepsTheSame(b, failed) /\ KeepsTheSame(b, done)
  BY DEF KeepsOf, KeepsTheSame
<1>2. ExtractDump(b, m, broken) \in {failed, Abandon(temp), done}
  BY Zenon DEF ExtractDump
<1> HIDE DEF temp, failed, done
<1>3. KeepsOf(failed, ms) /\ KeepsOf(Abandon(temp), ms) /\ KeepsOf(done, ms)
  BY <1>1, KeepingTheSame, AbandonKeeps
<1> QED BY <1>2, <1>3

\* The contents kept under a name are those of a member of this name.
LEMMA KeepKeeps ==
  ASSUME NEW ms, NEW b, KeepsOf(b, ms), NEW m \in ms,
         m.name = MetaMember => DecodesAs("meta", m.body),
         m.name = SegmentsMember => DecodesAs("index", m.body)
  PROVE  KeepsOf(Keep(b, m), ms)
<1>9. /\ MetaMember # SegmentsMember /\ ~ IsProfile(MetaMember) /\ ~ IsProfile(SegmentsMember)
      /\ ~ IsSegment(MetaMember) /\ ~ IsSegment(SegmentsMember)
  BY BundleAssumption DEF MetaMember, SegmentsMember, IsProfile, ProfileKinds, IsSegment
<1>1. CASE m.name = MetaMember
  <2> DEFINE c == [b EXCEPT !.meta = m.body]
  <2>1. Keep(b, m) = c
    BY <1>1, <1>9, Zenon DEF Keep
  <2>2. DOMAIN c = DOMAIN b /\ c.meta = m.body /\ c.index = b.index /\ c.data = b.data
    BY DEF KeepsOf
  <2> HIDE DEF c
  <2>3. KeepsOf(c, ms)
    BY <1>1, <2>2 DEF KeepsOf
  <2> QED BY <2>1, <2>3
<1>2. CASE m.name = SegmentsMember
  <2> DEFINE c == [b EXCEPT !.index = m.body[1].v]
  <2>1. Keep(b, m) = c
    BY <1>2, <1>9, Zenon DEF Keep
  <2>2. DOMAIN c = DOMAIN b /\ c.meta = b.meta /\ c.index = m.body[1].v /\ c.data = b.data
    BY DEF KeepsOf
  <2> HIDE DEF c
  <2>3. KeepsOf(c, ms)
    BY <1>2, <2>2 DEF KeepsOf
  <2> QED BY <2>1, <2>3
<1>3. CASE m.name \notin {MetaMember, SegmentsMember}
  <2> DEFINE profiled == [b EXCEPT !.profiles = Append(@, m), !.profileUnits = @ + m.size]
             c == [b EXCEPT !.data = Append(@, m), !.rodata = @ + m.size]
  <2>1. Keep(b, m) \in {profiled, c, b}
    BY <1>3, Zenon DEF Keep
  <2>2. KeepsTheSame(b, profiled)
    BY DEF KeepsOf, KeepsTheSame
  <2>3. DOMAIN c = DOMAIN b /\ c.meta = b.meta /\ c.index = b.index /\ c.data = Append(b.data, m)
    BY DEF KeepsOf
  <2>4. Append(b.data, m) \in Seq(ms)
    BY DEF KeepsOf
  <2> HIDE DEF profiled, c
  <2>5. KeepsOf(c, ms)
    BY <2>3, <2>4, Zenon DEF KeepsOf
  <2>6. KeepsOf(profiled, ms)
    BY <2>2, KeepingTheSame
  <2> QED BY <2>1, <2>5, <2>6
<1> QED BY <1>1, <1>2, <1>3

LEMMA TakeKeeps ==
  ASSUME NEW ms, NEW b, KeepsOf(b, ms), NEW m \in ms, NEW limits, NEW broken
  PROVE  KeepsOf(TakeMember(b, m, limits, broken), ms)
<1> DEFINE seen == [b EXCEPT !.seen = @ \cup {m.name}]
<1>1. KeepsTheSame(b, seen)
  BY DEF KeepsOf, KeepsTheSame
<1> HIDE DEF seen
<1>2. KeepsOf(seen, ms)
  BY <1>1, KeepingTheSame
<1>3. \/ TakeMember(b, m, limits, broken) \in {b, Abandon(b), ExtractDump(seen, m, broken)}
      \/ /\ m.name = MetaMember => DecodesAs("meta", m.body)
         /\ m.name = SegmentsMember => DecodesAs("index", m.body)
         /\ TakeMember(b, m, limits, broken) = Keep(seen, m)
  BY Zenon DEF TakeMember, seen
<1>4. KeepsOf(Abandon(b), ms) /\ KeepsOf(ExtractDump(seen, m, broken), ms)
  BY <1>2, AbandonKeeps, ExtractKeeps
<1>5. CASE TakeMember(b, m, limits, broken) \in {b, Abandon(b), ExtractDump(seen, m, broken)}
  BY <1>4, <1>5
<1>6. CASE /\ m.name = MetaMember => DecodesAs("meta", m.body)
           /\ m.name = SegmentsMember => DecodesAs("index", m.body)
           /\ TakeMember(b, m, limits, broken) = Keep(seen, m)
  <2>1. KeepsOf(Keep(seen, m), ms)
    BY <1>2, <1>6, KeepKeeps
  <2> QED BY <1>6, <2>1
<1> QED BY <1>3, <1>5, <1>6

LEMMA TakeAllKeeps ==
  ASSUME NEW ms, NEW members \in Seq(ms), NEW limits, NEW broken
  PROVE  KeepsOf(TakeAll(members, limits, broken), ms)
<1> DEFINE n == Len(members)
           f == Taking(members, limits, broken)
           S == {k \in Nat : k <= n => KeepsOf(f[k], ms)}
<1>0. n \in Nat
  OBVIOUS
<1>1. /\ f[0] = Unopened
      /\ \A k \in 1 .. n : f[k] = TakeMember(f[k - 1], members[k], limits, broken)
  <2>1. IsTaking(f, members, limits, broken)
    BY TakingExists
  <2> HIDE DEF f
  <2> QED BY <1>0, <2>1 DEF IsTaking
<1> HIDE DEF f, n
<1>2. 0 \in S
  <2>1. KeepsOf(Unopened, ms)
    BY DEF KeepsOf, Unopened
  <2> QED BY <1>1, <2>1
<1>3. ASSUME NEW k \in Nat, k \in S PROVE k + 1 \in S
  <2> SUFFICES ASSUME k + 1 <= n PROVE KeepsOf(f[k + 1], ms)
    OBVIOUS
  <2>1. k + 1 \in 1 .. n /\ (k + 1) - 1 = k /\ k <= n
    BY <1>0
  <2>2. KeepsOf(f[k], ms) /\ f[k + 1] = TakeMember(f[k], members[k + 1], limits, broken)
    BY <1>1, <1>3, <2>1
  <2>3. members[k + 1] \in ms
    BY <2>1 DEF n
  <2> QED BY <2>2, <2>3, TakeKeeps
<1>4. n \in S
  <2> HIDE DEF S
  <2> QED BY <1>0, <1>2, <1>3, SetInduction
<1> QED BY <1>0, <1>4, TakeAllIsTaking DEF f, n

LEMMA AddressesAreNumbers == AllAddresses \subseteq Nat
<1>1. \A i \in DOMAIN Mappings : Mappings[i].start \in Nat /\ Mappings[i].size \in Nat
  <2>1. Mappings \in Seq(MappingRecords)
    BY CaptureAssumption DEF CaptureAssumption, MappingRecords
  <2>2. \A i \in DOMAIN Mappings : Mappings[i] \in MappingRecords
    BY <2>1
  <2> QED BY <2>2 DEF MappingRecords
<1> QED BY <1>1 DEF AllAddresses, Addresses

\* What a finished bundle keeps of its index: numbers, and memory under them.
LEMMA IndexedIsMemory ==
  ASSUME NEW ms, Truthful(ms), NEW b, KeepsOf(b, ms), Complete(b), NEW i \in DOMAIN b.index
  PROVE  /\ b.index[i].addr \in Nat /\ b.index[i].size \in Nat
         /\ DataFor(b, i) = MemoryAt(b.index[i].addr, b.index[i].size)
<1> DEFINE infos == b.index
           named == Named(b.data, infos[i].member)
           j == CHOOSE k \in named : TRUE
           m == b.data[j]
<1>1. b.index # <<>>
  OBVIOUS
<1>2. PICK x \in ms : x.name = SegmentsMember /\ DecodesAs("index", x.body) /\ b.index = x.body[1].v
  BY <1>1 DEF KeepsOf
<1>3. /\ infos[i].addr \in Nat /\ infos[i].size \in Nat
      /\ \A k \in ms : k.name = infos[i].member /\ Len(k.body) = infos[i].size
                         => k.body = MemoryAt(infos[i].addr, infos[i].size)
  <2> DEFINE w == x.body[1].v
  <2>1. \A k \in DOMAIN w :
          /\ w[k].addr \in Nat /\ w[k].size \in Nat
          /\ \A y \in ms : y.name = w[k].member /\ Len(y.body) = w[k].size
                            => y.body = MemoryAt(w[k].addr, w[k].size)
    BY <1>2, Zenon DEF Truthful
  <2>2. w = infos
    BY <1>2
  <2> HIDE DEF w, infos
  <2>3. i \in DOMAIN infos
    BY DEF infos
  <2> QED BY <2>1, <2>2, <2>3, Zenon
<1>4. named # {} /\ Len(DataFor(b, i)) = infos[i].size
  <2>1. named # {}
    BY Zenon DEF Complete
  <2>2. SegmentsFit(b.index, [k \in DOMAIN b.index |-> DataFor(b, k)])
    BY Zenon DEF Complete
  <2>3. Len([k \in DOMAIN b.index |-> DataFor(b, k)][i]) = b.index[i].size
    BY <2>2, Zenon DEF SegmentsFit
  <2> QED BY <2>1, <2>3
<1>5. j \in named
  <2> HIDE DEF named
  <2> QED BY <1>4
<1>6. j \in DOMAIN b.data /\ m.name = infos[i].member
  BY <1>5, Zenon DEF Named
<1>7. m \in ms
  <2>1. b.data \in Seq(ms)
    BY DEF KeepsOf
  <2> HIDE DEF j
  <2> QED BY <1>6, <2>1
<1>8. DataFor(b, i) = m.body
  BY DEF DataFor, BodyOf
<1> HIDE DEF m, j, named
<1> QED BY <1>3, <1>4, <1>6, <1>7, <1>8, Zenon

\* A bundle opened from truthful members reads back as memory.
LEMMA HandedReadsBack ==
  ASSUME NEW ms, Truthful(ms), NEW b, KeepsOf(b, ms), Complete(b)
  PROVE  ReadsBack(Handed(b))
<1> DEFINE segments == Handed(b).segments
<1>1. /\ DOMAIN segments = DOMAIN b.index
      /\ \A i \in DOMAIN b.index :
           segments[i].addr = b.index[i].addr /\ segments[i].units = DataFor(b, i)
  BY DEF Handed
<1> HIDE DEF segments
<1>2. ASSUME NEW i \in DOMAIN segments
      PROVE  /\ HoldsMemory(segments[i]) /\ segments[i].addr = b.index[i].addr
             /\ b.index[i].addr \in Nat /\ b.index[i].size \in Nat
             /\ Len(segments[i].units) = b.index[i].size
  <2>1. i \in DOMAIN b.index /\ segments[i].addr = b.index[i].addr /\ segments[i].units = DataFor(b, i)
    BY <1>1
  <2>2. /\ b.index[i].addr \in Nat /\ b.index[i].size \in Nat
        /\ DataFor(b, i) = MemoryAt(b.index[i].addr, b.index[i].size)
    BY <2>1, IndexedIsMemory
  <2>3. Len(segments[i].units) = b.index[i].size
    BY <2>1, <2>2, MemoryLength
  <2> QED BY <2>1, <2>2, <2>3 DEF HoldsMemory
<1>3. ASSUME NEW addr \in 0 .. TopAddr, NEW size \in 0 .. TopAddr, SegmentRead(segments, addr, size).ok
      PROVE  SegmentRead(segments, addr, size).units = MemoryAt(addr, size)
  <2>1. addr \in Nat /\ size \in Nat
    BY CaptureAssumption DEF CaptureAssumption
  <2> QED BY <1>2, <1>3, <2>1, SegmentReadsMemory
<1>4. ASSUME ~ Handed(b).warned, NEW addr \in Lasting PROVE SegmentRead(segments, addr, 1).ok
  <2>1. ~ Partial(b.meta[1].v) /\ b.index # <<>>
    BY <1>4 DEF Handed
  <2>2. PICK y \in ms : y.name = MetaMember /\ DecodesAs("meta", y.body) /\ b.meta = y.body
    BY Zenon DEF KeepsOf, Complete
  <2>3. PICK x \in ms : x.name = SegmentsMember /\ DecodesAs("index", x.body) /\ b.index = x.body[1].v
    BY <2>1, Zenon DEF KeepsOf
  <2>4. PICK i \in DOMAIN b.index : b.index[i].addr <= addr /\ addr < b.index[i].addr + b.index[i].size
    BY <2>1, <2>2, <2>3, Zenon DEF Truthful
  <2>5. /\ i \in DOMAIN segments /\ segments[i].addr = b.index[i].addr
        /\ b.index[i].addr \in Nat /\ b.index[i].size \in Nat
        /\ Len(segments[i].units) = b.index[i].size
    BY <1>1, <1>2, <2>4
  <2>6. addr \in Int /\ addr # 0 /\ addr <= TopAddr - 1
    <3>1. addr \in AllAddresses /\ CanRead(AllAddresses \ (Fragile \cup UNION Holes), addr, 1)
      BY DEF Lasting
    <3>2. addr # 0 /\ addr <= TopAddr - 1
      BY <3>1 DEF CanRead
    <3> QED BY <3>1, <3>2, AddressesAreNumbers
  <2> DEFINE holders == {k \in DOMAIN segments :
                           /\ segments[k].addr <= addr
                           /\ addr + 1 <= segments[k].addr + Len(segments[k].units)}
  <2>7. i \in holders
    <3>1. segments[i].addr <= addr /\ addr + 1 <= segments[i].addr + Len(segments[i].units)
      BY <2>4, <2>5, <2>6
    <3> QED BY <2>5, <3>1
  <2>8. holders # {} /\ ~ (addr = 0 \/ addr > TopAddr - 1) /\ 1 # 0
    <3>1. TopAddr \in Int
      BY CaptureAssumption DEF CaptureAssumption
    <3> QED BY <2>6, <2>7, <3>1
  <2> QED BY <2>8, Zenon DEF SegmentRead
<1> QED BY <1>3, <1>4 DEF ReadsBack, segments

\* OpenWithOptions finds the contents of each segment under the name the index
\* gives it, whatever the order of the members.
LEMMA OpenReadsBack ==
  ASSUME NEW T, Sized(T), NEW s \in Seq(T), NEW limits, NEW broken, Open(s, limits, broken).ok,
         Truthful(Range(Scan(s).members))
  PROVE  ReadsBack(Open(s, limits, broken))
<1> DEFINE ms == Range(Scan(s).members)
           b == TakeAll(Scan(s).members, limits, broken)
<1>1. Scan(s).members \in Seq(ms)
  <2>1. 1 \in 1 .. Len(s) + 1
    OBVIOUS
  <2>2. Reading(s)[1] \in Scans(T)
    BY <2>1, ReadingType
  <2>3. Scan(s).members \in Seq(MembersOf(T))
    BY <2>2, ScanIsReading DEF Scans
  <2> DEFINE members == Scan(s).members
  <2> HIDE DEF members
  <2>4. members \in Seq(Range(members))
    BY <2>3 DEF Range, members
  <2> QED BY <2>4 DEF members
<1>2. KeepsOf(b, ms)
  BY <1>1, TakeAllKeeps
<1> HIDE DEF b
<1>3. Refused(b).ok = FALSE
  BY DEF Refused
<1>4. Complete(b) /\ Open(s, limits, broken) = Handed(b)
  BY <1>3, Zenon DEF Open, b
<1> QED BY <1>2, <1>4, HandedReadsBack

\* What is written by one capture tells the truth about memory.
LEMMA PiecesAreTruthful ==
  ASSUME NEW P, NEW o \in Options
  PROVE  Truthful(Pieces(Collected(P, o.budget, o.reader), DumpUnits))
<1> DEFINE c == Collected(P, o.budget, o.reader)
           G == Pieces(c, DumpUnits)
           infos == Infos(c.segments)
<1>1. o.budget \in Int /\ o.reader \in Readers /\ Mappings \in Seq(MappingRecords)
  BY TransferAssumption, CaptureAssumption DEF Readers, TransferAssumption, CaptureAssumption, MappingRecords
<1>2. IsCollection(c)
  BY <1>1, CollectedType
<1>3. IsComplete(c) => \A j \in 1 .. Len(EligibleStringRanges) :
        EligibleStringRanges[j].size = 0 \/ EligibleStringRanges[j] \in Held(c)
  BY <1>1, CollectedHolds
<1> HIDE DEF c
<1>4. /\ DOMAIN c.segments = 1 .. Len(c.segments) /\ Len(c.segments) \in Nat
      /\ \A i \in DOMAIN c.segments :
           i \in DOMAIN Mappings /\ c.segments[i].start \in Nat /\ c.segments[i].size \in Nat
  <2>1. c.segments \in Seq(MappingRecords) /\ Len(c.segments) <= Len(Mappings)
    BY <1>2 DEF IsCollection
  <2>2. \A i \in DOMAIN c.segments : i \in DOMAIN Mappings /\ c.segments[i] \in MappingRecords
    BY <1>1, <2>1
  <2> QED BY <2>1, <2>2 DEF MappingRecords
<1>5. /\ DOMAIN infos = DOMAIN c.segments
      /\ \A i \in DOMAIN infos :
           /\ infos[i].member = SegmentMemberName(i) /\ infos[i].addr = c.segments[i].start
           /\ infos[i].size = c.segments[i].size
  BY DEF Infos
<1>6. \A i \in DOMAIN c.segments :
        SegmentMemberName(i) \notin {MetaMember, SegmentsMember, HeapDumpMember} \cup ProfileKinds
  BY <1>4, NamesApart DEF SegmentMemberName
<1>7. ASSUME NEW x \in G, x.name = SegmentsMember PROVE x.body[1].v = infos
  <2>1. SegmentsMember \notin {MetaMember, HeapDumpMember} \cup ProfileKinds
    BY DEF MetaMember, SegmentsMember, HeapDumpMember, ProfileKinds
  <2>2. x = WholeMember(SegmentsMember, <<IndexUnit(c)>>)
    BY <1>6, <1>7, <2>1 DEF Pieces, WholeMember
  <2> QED BY <2>2 DEF WholeMember, IndexUnit
<1>8. ASSUME NEW y \in G, y.name = MetaMember PROVE y.body[1].v = Metadata(c)
  <2>1. MetaMember \notin {SegmentsMember, HeapDumpMember} \cup ProfileKinds
    BY DEF MetaMember, SegmentsMember, HeapDumpMember, ProfileKinds
  <2>2. y = WholeMember(MetaMember, <<MetaUnit(c)>>)
    BY <1>6, <1>8, <2>1 DEF Pieces, WholeMember
  <2> QED BY <2>2 DEF WholeMember, MetaUnit
<1>9. ASSUME NEW i \in DOMAIN infos, NEW m \in G, m.name = infos[i].member
      PROVE  m.body = MemoryAt(infos[i].addr, infos[i].size)
  <2>1. m.name = SegmentMemberName(i) /\ i \in DOMAIN c.segments
    BY <1>5, <1>9
  <2>2. PICK j \in DOMAIN c.segments :
          m = WholeMember(SegmentMemberName(j), MemoryAt(c.segments[j].start, c.segments[j].size))
    BY <1>6, <2>1 DEF Pieces, WholeMember
  <2>3. i = j
    <3>1. SegmentNames[i] = SegmentNames[j]
      BY <2>1, <2>2 DEF WholeMember, SegmentMemberName
    <3> QED BY <1>4, <2>1, <3>1, NamesApart
  <2> QED BY <1>5, <2>2, <2>3 DEF WholeMember
<1>10. ASSUME ~ Partial(Metadata(c)), NEW a \in Lasting
       PROVE  \E i \in DOMAIN infos : infos[i].addr <= a /\ a < infos[i].addr + infos[i].size
  <2>1. IsComplete(c)
    BY <1>10 DEF Partial, Metadata, Meta, IsComplete
  <2>2. PICK j \in DOMAIN EligibleStringRanges : a .. a + 1 - 1 \subseteq Addresses(EligibleStringRanges[j])
    BY DEF Lasting, CanRead
  <2> DEFINE r == EligibleStringRanges[j]
  <2>3. r \in MappingRecords /\ j \in 1 .. Len(EligibleStringRanges)
    BY <1>1, EligibleType
  <2>4. a \in Int
    BY AddressesAreNumbers DEF Lasting
  <2>5. a \in Addresses(r)
    <3>1. a \in a .. a + 1 - 1
      BY <2>4
    <3> QED BY <2>2, <3>1
  <2> HIDE DEF r
  <2>6. r.start \in Nat /\ r.size \in Nat /\ r.start <= a /\ a < r.start + r.size
    BY <2>3, <2>4, <2>5 DEF Addresses, MappingRecords
  <2>7. r.size # 0
    BY <2>4, <2>6
  <2>8. r \in Held(c)
    BY <1>3, <2>1, <2>3, <2>7 DEF r
  <2>9. PICK i \in 1 .. Len(c.segments) : r = c.segments[i]
    BY <2>8 DEF Held
  <2> QED BY <1>4, <1>5, <2>6, <2>9
<1> HIDE DEF G, infos
<1> SUFFICES ASSUME NEW x \in G, x.name = SegmentsMember, DecodesAs("index", x.body)
             PROVE  LET seen == x.body[1].v
                    IN /\ \A i \in DOMAIN seen :
                            /\ seen[i].addr \in Nat /\ seen[i].size \in Nat
                            /\ \A m \in G :
                                 m.name = seen[i].member /\ Len(m.body) = seen[i].size
                                   => m.body = MemoryAt(seen[i].addr, seen[i].size)
                       /\ \A y \in G :
                            /\ y.name = MetaMember /\ DecodesAs("meta", y.body) /\ ~ Partial(y.body[1].v)
                            /\ seen # <<>>
                            => \A a \in Lasting : \E i \in DOMAIN seen :
                                 seen[i].addr <= a /\ a < seen[i].addr + seen[i].size
  BY Zenon DEF Truthful, G, c
<1>11. x.body[1].v = infos
  BY <1>7
<1>12. \A i \in DOMAIN infos : infos[i].addr \in Nat /\ infos[i].size \in Nat
  BY <1>4, <1>5
<1>13. ASSUME NEW y \in G, y.name = MetaMember, ~ Partial(y.body[1].v)
       PROVE  \A a \in Lasting : \E i \in DOMAIN infos :
                infos[i].addr <= a /\ a < infos[i].addr + infos[i].size
  <2>1. y.body[1].v = Metadata(c)
    BY <1>8, <1>13
  <2> QED BY <1>10, <1>13, <2>1
<1> QED BY <1>9, <1>11, <1>12, <1>13, Zenon

\* Fewer members tell no less of the truth.
LEMMA FewerAreTruthful ==
  ASSUME NEW G, Truthful(G), NEW ms, ms \subseteq G
  PROVE  Truthful(ms)
BY Zenon DEF Truthful

\* What this server sends reads back as pieces of one capture.
LEMMA OwnIsTruthful ==
  ASSUME NEW archive \in OwnArchives
  PROVE  Truthful(Range(Scan(archive).members))
<1>1. PICK chunks \in Captured : archive = FlattenSeq(chunks)
  BY DEF OwnArchives
<1>2. PICK P \in Readable, o \in Options :
        IsArchive(Pieces(Collected(P, o.budget, o.reader), DumpUnits),
                  ArchiveUnits(Collected(P, o.budget, o.reader)), chunks)
  BY CapturedIsArchive
<1> DEFINE G == Pieces(Collected(P, o.budget, o.reader), DumpUnits)
           members == Scan(archive).members
<1>3. Truthful(G)
  BY PiecesAreTruthful
<1>4. PICK T : SoundStream(G, T, archive)
  BY <1>1, <1>2 DEF IsArchive
<1> HIDE DEF G
<1>5. AllIn(members, G)
  <2>1. 0 + 1 = 1
    OBVIOUS
  <2> QED BY <1>4, <2>1, ScanIsReading DEF SoundStream, SoundFrom
<1>6. members \in Seq(MembersOf(T))
  <2>1. archive \in Seq(T) /\ Sized(T) /\ 1 \in 1 .. Len(archive) + 1
    BY <1>4 DEF SoundStream
  <2>2. Reading(archive)[1] \in Scans(T)
    BY <2>1, ReadingType
  <2> QED BY <2>2, ScanIsReading DEF Scans
<1> HIDE DEF members
<1>7. Range(members) \subseteq G
  BY <1>5, <1>6 DEF AllIn, Range
<1> QED BY <1>3, <1>7, FewerAreTruthful DEF members

-----------------------------------------------------------------------------
(* Streams *)

IsStream(s) == \E T : Sized(T) /\ s \in Seq(T)
IsPieceOf(t, s) == IsStream(t) /\ \E n \in 0 .. Len(s) : t = SubSeq(s, 1, n)

LEMMA NothingIsStream == IsStream(<<>>)
<1>1. Sized({}) /\ <<>> \in Seq({})
  BY DEF Sized
<1> QED BY <1>1, Zenon DEF IsStream

LEMMA PieceIsStream ==
  ASSUME NEW s, IsStream(s), NEW n \in 0 .. Len(s)
  PROVE  IsStream(SubSeq(s, 1, n)) /\ Len(SubSeq(s, 1, n)) = n
<1>1. PICK T : Sized(T) /\ s \in Seq(T)
  BY DEF IsStream
<1>2. SubSeq(s, 1, n) \in Seq(T) /\ Len(SubSeq(s, 1, n)) = n
  BY <1>1
<1> QED BY <1>1, <1>2 DEF IsStream

LEMMA WholeIsPiece ==
  ASSUME NEW s, IsStream(s)
  PROVE  Len(s) \in 0 .. Len(s) /\ SubSeq(s, 1, Len(s)) = s /\ IsPieceOf(s, s)
<1>1. PICK T : Sized(T) /\ s \in Seq(T)
  BY DEF IsStream
<1>2. Len(s) \in 0 .. Len(s) /\ SubSeq(s, 1, Len(s)) = s
  BY <1>1
<1> QED BY <1>2 DEF IsPieceOf

LEMMA EmptyPiece ==
  ASSUME NEW s, IsStream(s)
  PROVE  0 \in 0 .. Len(s) /\ SubSeq(s, 1, 0) = <<>> /\ IsPieceOf(<<>>, s)
<1>1. PICK T : Sized(T) /\ s \in Seq(T)
  BY DEF IsStream
<1>2. 0 \in 0 .. Len(s) /\ SubSeq(s, 1, 0) = <<>>
  BY <1>1
<1> QED BY <1>2, NothingIsStream DEF IsPieceOf

LEMMA OwnIsStream ==
  ASSUME NEW archive \in OwnArchives
  PROVE  IsStream(archive)
BY OwnIsSound DEF IsStream, SoundStream

LEMMA ForeignIsStream ==
  ASSUME NEW f \in Foreign
  PROVE  IsStream(f.stream)
<1>1. Sized(Range(f.stream)) /\ f.stream \in Seq(Range(f.stream))
  BY TransferAssumption DEF Sized
<1> QED BY <1>1 DEF IsStream

\* The chunks sent so far are a piece of the archive, and one more is a longer
\* piece.
LEMMA ChunksArePiece ==
  ASSUME NEW chunks \in Captured, NEW n \in 0 .. Len(chunks)
  PROVE  /\ FlattenSeq(chunks) \in OwnArchives
         /\ IsPieceOf(FlattenSeq(SubSeq(chunks, 1, n)), FlattenSeq(chunks))
<1>1. PICK G, T : IsArchive(G, T, chunks)
  BY CapturedIsArchive
<1>2. chunks \in Seq(Seq(T)) /\ Sized(T)
  BY <1>1 DEF IsArchive
<1> DEFINE part == FlattenSeq(SubSeq(chunks, 1, n))
<1>3. /\ part \in Seq(T) /\ Len(part) \in 0 .. Len(FlattenSeq(chunks))
      /\ part = SubSeq(FlattenSeq(chunks), 1, Len(part))
  BY <1>2, FlattenSplit
<1>4. FlattenSeq(chunks) \in OwnArchives
  BY DEF OwnArchives
<1> HIDE DEF part
<1> QED BY <1>2, <1>3, <1>4, Zenon DEF IsPieceOf, IsStream, part

\* One step of sending the chunks of an archive.
Advances(chunks, n) ==
  LET rest == SubSeq(chunks, n + 1, Len(chunks)) IN
  /\ FlattenSeq(SubSeq(chunks, 1, n + 1)) = FlattenSeq(SubSeq(chunks, 1, n)) \o Head(rest)
  /\ Tail(rest) = SubSeq(chunks, (n + 1) + 1, Len(chunks))
  /\ n + 1 \in 0 .. Len(chunks)
  /\ IF Tail(rest) = <<>> THEN n + 1 = Len(chunks) ELSE n + 1 \in 0 .. Len(chunks) - 1
  /\ \E T : FlattenSeq(SubSeq(chunks, 1, n)) \in Seq(T) /\ Head(rest) \in Seq(T)

LEMMA SendingAdvances ==
  ASSUME NEW chunks \in Captured, NEW n \in 0 .. Len(chunks) - 1
  PROVE  Advances(chunks, n)
<1>1. PICK G, T : IsArchive(G, T, chunks)
  BY CapturedIsArchive
<1>2. chunks \in Seq(Seq(T)) /\ Len(chunks) \in Nat
  BY <1>1 DEF IsArchive
<1> DEFINE rest == SubSeq(chunks, n + 1, Len(chunks))
           l == Len(chunks)
           S == Seq(T)
<1>3. FlattenSeq(SubSeq(chunks, 1, n + 1)) = FlattenSeq(SubSeq(chunks, 1, n)) \o chunks[n + 1]
  BY <1>2, FlattenMore
<1>4. l \in Nat /\ n \in 0 .. l /\ n + 1 \in 0 .. l /\ n + 1 \in 1 .. l
  BY <1>2
<1>5. FlattenSeq(SubSeq(chunks, 1, n)) \in S
  <2>1. n \in 0 .. Len(chunks)
    BY <1>4
  <2> QED BY <1>2, <2>1, FlattenSplit
<1>6. chunks \in Seq(S)
  BY <1>2
<1> HIDE DEF S
<1>7. /\ chunks[n + 1] \in S /\ Head(rest) = chunks[n + 1]
      /\ Tail(rest) = SubSeq(chunks, (n + 1) + 1, l) /\ Len(Tail(rest)) = l - (n + 1)
  BY <1>4, <1>6
<1>8. IF Tail(rest) = <<>> THEN n + 1 = l ELSE n + 1 \in 0 .. l - 1
  <2>1. CASE Tail(rest) = <<>>
    <3>0. Len(<<>>) = 0
      OBVIOUS
    <3>1. Len(Tail(rest)) = 0
      BY <2>1, <3>0, Zenon
    <3> QED BY <1>4, <1>7, <2>1, <3>1
  <2>2. CASE Tail(rest) # <<>>
    <3>1. n + 1 # l
      <4> SUFFICES ASSUME n + 1 = l PROVE FALSE
        OBVIOUS
      <4>1. Tail(rest) = <<>>
        BY <1>4, <1>6, <1>7
      <4> QED BY <2>2, <4>1
    <3> QED BY <1>4, <2>2, <3>1
  <2> QED BY <2>1, <2>2
<1> QED BY <1>3, <1>4, <1>5, <1>7, <1>8, Zenon DEF Advances, S

-----------------------------------------------------------------------------
(* The inductive invariant *)

LEMMA InitHolds == Init => IInv
<1> SUFFICES ASSUME Init PROVE IInv
  OBVIOUS
<1>1. TargetInv
  <2>1. present \in Readable
    BY DEF Init, Readable
  <2> QED BY <2>1 DEF Init, TargetInv
<1>2. SentInv /\ FetchInv /\ AnalysisInv
  BY DEF Init, SentInv, FetchInv, AnalysisInv
<1> QED BY <1>1, <1>2 DEF IInv

LEMMA UnmappedIsReadable ==
  ASSUME NEW P \in Readable
  PROVE  P \ Fragile \in Readable
<1>1. CASE \E hole \in Holes : P = AllAddresses \ hole
  BY <1>1 DEF Readable
<1>2. CASE \E hole \in Holes : P = (AllAddresses \ hole) \ Fragile
  <2>1. (P \ Fragile) = P
    BY <1>2
  <2> QED BY <2>1
<1> QED BY <1>1, <1>2 DEF Readable

LEMMA TargetHolds ==
  ASSUME TargetInv, [Next]_vars
  PROVE  TargetInv'
<1> USE DEF TargetInv, targetVars, fetchVars, analysisVars
<1>1. CASE CaptureFails
  BY <1>1 DEF CaptureFails
<1>2. CASE PlanBundle
  BY <1>2 DEF PlanBundle
<1>3. CASE SendChunk
  BY <1>3 DEF SendChunk
<1>4. CASE SendFails
  BY <1>4 DEF SendFails
<1>5. CASE Unmap
  BY <1>5, UnmappedIsReadable DEF Unmap
<1>6. CASE Disconnect
  BY <1>6 DEF Disconnect
<1>7. CASE Fetch
  BY <1>7 DEF Fetch
<1>8. ASSUME NEW how, Exit(how) PROVE TargetInv'
  BY <1>8 DEF Exit
<1>9. CASE TurnedDown \/ Timeout
  BY <1>8, <1>9 DEF TurnedDown, Timeout, FailFetch
<1>10. CASE CreateTemp
  BY <1>8, <1>10 DEF CreateTemp, FailFetch
<1>11. CASE Copy
  BY <1>8, <1>11 DEF Copy, FailFetch
<1>12. CASE EndCopy
  BY <1>8, <1>12 DEF EndCopy, Step, FailFetch
<1>13. CASE Probe
  BY <1>8, <1>13 DEF Probe, Step, FailFetch
<1>14. CASE Validate
  BY <1>8, <1>14 DEF Validate, Step, FailFetch
<1>15. CASE Rename
  BY <1>15 DEF Rename
<1>16. CASE Display
  BY <1>16 DEF Display
<1>17. CASE Leave \/ Kill
  BY <1>8, <1>17 DEF Leave, Kill
<1>18. CASE OpenBundle \/ LoadBundle
  BY <1>18 DEF OpenBundle, LoadBundle
<1>19. CASE UNCHANGED vars
  BY <1>19 DEF vars
<1> QED BY <1>1, <1>2, <1>3, <1>4, <1>5, <1>6, <1>7, <1>9, <1>10, <1>11, <1>12, <1>13, <1>14,
           <1>15, <1>16, <1>17, <1>18, <1>19
        DEF Next, TargetStep, FetchStep, AnalysisStep

LEMMA UnderwayIsPiece ==
  ASSUME Underway
  PROVE  OwnPiece /\ IsStream(sent)
<1>1. PICK chunks \in Captured : \E n \in 0 .. Len(chunks) - 1 :
        /\ offered = {FlattenSeq(chunks)}
        /\ sent = FlattenSeq(SubSeq(chunks, 1, n))
  BY DEF Underway
<1>2. PICK n \in 0 .. Len(chunks) - 1 :
        /\ offered = {FlattenSeq(chunks)}
        /\ sent = FlattenSeq(SubSeq(chunks, 1, n))
  BY <1>1
<1>3. n \in 0 .. Len(chunks)
  <2>1. Advances(chunks, n)
    BY SendingAdvances
  <2>2. PICK G, T : IsArchive(G, T, chunks)
    BY CapturedIsArchive
  <2>3. Len(chunks) \in Nat
    BY <2>2 DEF IsArchive
  <2> QED BY <2>3
<1>4. FlattenSeq(chunks) \in OwnArchives /\ IsPieceOf(sent, FlattenSeq(chunks))
  BY <1>2, <1>3, ChunksArePiece
<1> QED BY <1>2, <1>4 DEF OwnPiece, IsPieceOf

LEMMA OwnPieceIsStream ==
  ASSUME OwnPiece
  PROVE  IsStream(sent)
BY OwnIsStream, PieceIsStream DEF OwnPiece

\* Whatever has been sent is a stream.
LEMMA SentIsStream ==
  ASSUME TargetInv, SentInv
  PROVE  IsStream(sent)
<1>1. CASE target \in {"idle", "capturing"}
  BY <1>1, NothingIsStream DEF SentInv
<1>2. CASE target = "sending"
  BY <1>2, UnderwayIsPiece DEF SentInv
<1>3. CASE target = "over"
  <2>1. OthersStream => IsStream(sent)
    BY ForeignIsStream DEF OthersStream
  <2> QED BY <1>3, <2>1, NothingIsStream, OwnPieceIsStream DEF SentInv
<1> QED BY <1>1, <1>2, <1>3 DEF TargetInv

LEMMA FirstChunk ==
  ASSUME NEW chunks \in Captured
  PROVE  /\ 0 \in 0 .. Len(chunks) - 1 /\ FlattenSeq(SubSeq(chunks, 1, 0)) = <<>>
         /\ SubSeq(chunks, 0 + 1, Len(chunks)) = chunks
<1>1. PICK G, T : IsArchive(G, T, chunks)
  BY CapturedIsArchive
<1>2. chunks \in Seq(Seq(T)) /\ Len(chunks) > 0
  BY <1>1 DEF IsArchive
<1> DEFINE S == Seq(T)
<1>3. chunks \in Seq(S)
  BY <1>2
<1> HIDE DEF S
<1>4. 0 \in 0 .. Len(chunks) - 1 /\ SubSeq(chunks, 1, 0) = <<>>
  BY <1>2, <1>3
<1>5. SubSeq(chunks, 0 + 1, Len(chunks)) = chunks
  BY <1>3
<1>6. FlattenSeq(<<>>) = <<>>
  <2>1. <<>> \in Seq(T)
    OBVIOUS
  <2> QED BY <2>1, FlattenOne
<1> QED BY <1>4, <1>5, <1>6, Zenon

LEMMA SendChunkHolds ==
  ASSUME TargetInv, SentInv, SendChunk
  PROVE  SentInv'
<1>1. Underway
  BY DEF SentInv, SendChunk
<1>2. PICK chunks \in Captured : \E n \in 0 .. Len(chunks) - 1 :
        /\ offered = {FlattenSeq(chunks)}
        /\ sent = FlattenSeq(SubSeq(chunks, 1, n))
        /\ queue = SubSeq(chunks, n + 1, Len(chunks))
  BY <1>1 DEF Underway
<1>3. PICK n \in 0 .. Len(chunks) - 1 :
        /\ offered = {FlattenSeq(chunks)}
        /\ sent = FlattenSeq(SubSeq(chunks, 1, n))
        /\ queue = SubSeq(chunks, n + 1, Len(chunks))
  BY <1>2
<1> DEFINE part(k) == FlattenSeq(SubSeq(chunks, 1, k))
           from(k) == SubSeq(chunks, k, Len(chunks))
           archive == FlattenSeq(chunks)
<1>4. Advances(chunks, n)
  BY SendingAdvances
<1>5. /\ part(n + 1) = part(n) \o Head(queue) /\ Tail(queue) = from((n + 1) + 1)
      /\ n + 1 \in 0 .. Len(chunks)
      /\ IF Tail(queue) = <<>> THEN n + 1 = Len(chunks) ELSE n + 1 \in 0 .. Len(chunks) - 1
  BY <1>3, <1>4 DEF Advances
<1>6. sent' = part(n + 1) /\ queue' = from((n + 1) + 1) /\ offered' = {archive}
  BY <1>3, <1>5, Zenon DEF SendChunk
<1> HIDE DEF part, from, archive
<1>7. CASE Tail(queue) = <<>>
  <2>1. target' = "over" /\ n + 1 = Len(chunks)
    BY <1>5, <1>7, Zenon DEF SendChunk
  <2>2. archive \in OwnArchives /\ IsPieceOf(part(n + 1), archive)
    BY <1>5, ChunksArePiece DEF archive, part
  <2>3. \E m \in 0 .. Len(archive) : sent' = SubSeq(archive, 1, m)
    BY <1>6, <2>2 DEF IsPieceOf
  <2>4. OwnPiece'
    BY <1>6, <2>2, <2>3 DEF OwnPiece
  <2> QED BY <2>1, <2>4 DEF SentInv
<1>8. CASE Tail(queue) # <<>>
  <2>1. target' = "sending" /\ n + 1 \in 0 .. Len(chunks) - 1
    BY <1>5, <1>8, Zenon DEF SendChunk
  <2>2. Underway'
    BY <1>6, <2>1, Zenon DEF Underway, part, from, archive
  <2> QED BY <2>1, <2>2 DEF SentInv
<1> QED BY <1>7, <1>8

LEMMA SentHolds ==
  ASSUME TargetInv, SentInv, [Next]_vars
  PROVE  SentInv'
<1> USE DEF targetVars, fetchVars, analysisVars
<1>1. CASE CaptureFails
  BY <1>1 DEF CaptureFails, SentInv
<1>2. CASE PlanBundle
  <2>1. PICK o \in Options :
          LET chunks == Write(Collected(present, o.budget, o.reader), o.profiles, DumpUnits)
          IN queue' = chunks /\ offered' = {FlattenSeq(chunks)}
    BY <1>2 DEF PlanBundle
  <2> DEFINE chunks == Write(Collected(present, o.budget, o.reader), o.profiles, DumpUnits)
  <2>2. chunks \in Captured
    BY DEF Captured, TargetInv
  <2>3. sent = <<>> /\ sent' = sent /\ target' = "sending" /\ queue' = chunks
        /\ offered' = {FlattenSeq(chunks)}
    BY <1>2, <2>1 DEF PlanBundle, SentInv
  <2> HIDE DEF chunks
  <2>4. 0 \in 0 .. Len(chunks) - 1 /\ FlattenSeq(SubSeq(chunks, 1, 0)) = <<>>
        /\ SubSeq(chunks, 0 + 1, Len(chunks)) = chunks
    BY <2>2, FirstChunk
  <2>5. Underway'
    BY <2>2, <2>3, <2>4, Zenon DEF Underway
  <2> QED BY <2>3, <2>5 DEF SentInv
<1>3. CASE SendChunk
  BY <1>3, SendChunkHolds
<1>4. CASE SendFails \/ Disconnect
  <2>1. target' = "over" /\ UNCHANGED <<sent, offered>> /\ target \in {"capturing", "sending"}
    BY <1>4 DEF SendFails, Disconnect
  <2>2. sent = <<>> \/ OwnPiece
    BY <2>1, UnderwayIsPiece DEF SentInv
  <2>3. OwnPiece => OwnPiece'
    BY <2>1 DEF OwnPiece
  <2> QED BY <2>1, <2>2, <2>3 DEF SentInv
<1>5. CASE Fetch
  <2>1. target = "idle" /\ sent = <<>>
    BY <1>5 DEF Fetch, TargetInv, SentInv
  <2>2. CASE target' = "capturing" /\ UNCHANGED <<status, sent, net, offered>>
    BY <2>1, <2>2 DEF SentInv
  <2>3. CASE \E f \in Foreign :
               /\ target' = "over" /\ sent' = f.stream
               /\ offered' = IF f.whole THEN {f.stream} ELSE {}
    <3>1. OthersStream'
      BY <2>3 DEF OthersStream
    <3> QED BY <2>3, <3>1 DEF SentInv
  <2> QED BY <1>5, <2>2, <2>3 DEF Fetch
<1>6. ASSUME NEW how, Exit(how) PROVE SentInv'
  BY <1>6 DEF Exit, SentInv
<1>7. ASSUME UNCHANGED <<target, sent, offered, queue>> PROVE SentInv'
  <2>1. Underway' = Underway /\ OwnPiece' = OwnPiece /\ OthersStream' = OthersStream
    BY <1>7, Zenon DEF Underway, OwnPiece, OthersStream
  <2> QED BY <1>7, <2>1, Zenon DEF SentInv
<1>8. CASE TurnedDown \/ Timeout
  BY <1>6, <1>8 DEF TurnedDown, Timeout, FailFetch
<1>9. CASE CreateTemp
  BY <1>6, <1>7, <1>9 DEF CreateTemp, FailFetch
<1>10. CASE Copy
  BY <1>6, <1>7, <1>10 DEF Copy, FailFetch
<1>11. CASE EndCopy
  BY <1>6, <1>7, <1>11 DEF EndCopy, Step, FailFetch
<1>12. CASE Probe
  BY <1>6, <1>7, <1>12 DEF Probe, Step, FailFetch
<1>13. CASE Validate
  BY <1>6, <1>7, <1>13 DEF Validate, Step, FailFetch
<1>14. CASE Rename \/ Display
  BY <1>7, <1>14 DEF Rename, Display
<1>15. CASE Leave \/ Kill
  BY <1>6, <1>15 DEF Leave, Kill
<1>16. CASE Unmap \/ OpenBundle \/ LoadBundle \/ UNCHANGED vars
  BY <1>7, <1>16 DEF Unmap, OpenBundle, LoadBundle, vars
<1> QED BY <1>1, <1>2, <1>3, <1>4, <1>5, <1>8, <1>9, <1>10, <1>11, <1>12, <1>13, <1>14, <1>15,
           <1>16
        DEF Next, TargetStep, FetchStep, AnalysisStep

LEMMA NothingIsInvalid == ~ ValidateArchive(<<>>)
<1> SUFFICES ASSUME ValidateArchive(<<>>) PROVE FALSE
  OBVIOUS
<1> DEFINE s == <<>>
<1>1. Reading(s)[1].end = "EOF" /\ Reading(s)[1].last >= 4
  BY ValidMeansEnded
<1>2. s \in Seq({}) /\ Sized({}) /\ Len(s) = 0
  BY DEF Sized
<1> HIDE DEF s
<1>3. 1 \in 1 .. Len(s) + 1
  BY <1>2
<1>4. Reading(s)[1] = ScanAt(s, Reading(s), 1)
  BY <1>2, <1>3, ReadingStep
<1>5. NextMember(s, 1) = Verdict("EOF", 1)
  <2>1. 1 + ((1 - 1) % 2) = 1 /\ Len(s) + 1 = 1 /\ 1 > Len(s)
    BY <1>2
  <2> QED BY <1>2, <2>1 DEF NextMember
<1>6. NextMember(s, 1).kind = "EOF" /\ NextMember(s, 1).pos = 1
  BY <1>5 DEF Verdict
<1>7. Reading(s)[1].last = 1 - 1
  BY <1>4, <1>6 DEF ScanAt
<1> QED BY <1>1, <1>7

\* What arrived and validates is the whole of what the server sends.
LEMMA ValidIsOffered ==
  ASSUME SentInv, target = "over", ValidateArchive(sent), HonestServers
  PROVE  sent \in offered /\ (sent \in OwnArchives \/ \E f \in Foreign : sent = f.stream)
<1>1. sent # <<>>
  BY NothingIsInvalid
<1>2. CASE OwnPiece
  <2>1. PICK archive \in OwnArchives : \E n \in 0 .. Len(archive) :
          offered = {archive} /\ sent = SubSeq(archive, 1, n)
    BY <1>2 DEF OwnPiece
  <2>2. PICK n \in 0 .. Len(archive) : offered = {archive} /\ sent = SubSeq(archive, 1, n)
    BY <2>1
  <2>3. PICK G, T : SoundStream(G, T, archive)
    BY OwnIsSound
  <2>4. SubSeq(archive, 1, n) = archive
    BY <2>2, <2>3, ValidIsWhole
  <2> QED BY <2>2, <2>4
<1>3. CASE OthersStream
  BY <1>3 DEF OthersStream, HonestServers
<1> QED BY <1>1, <1>2, <1>3 DEF SentInv

LEMMA GrownPiece ==
  ASSUME NEW s, IsStream(s), NEW t, IsPieceOf(t, s), NEW c, NEW T, s \in Seq(T), c \in Seq(T)
  PROVE  \E n \in 0 .. Len(s \o c) : t = SubSeq(s \o c, 1, n)
<1>1. PICK n \in 0 .. Len(s) : t = SubSeq(s, 1, n)
  BY DEF IsPieceOf
<1>2. n \in 0 .. Len(s \o c) /\ SubSeq(s \o c, 1, n) = SubSeq(s, 1, n)
  OBVIOUS
<1> QED BY <1>1, <1>2

\* The chunk to be sent next follows what was sent.
LEMMA ChunkFollows ==
  ASSUME SentInv, SendChunk
  PROVE  \E T : sent \in Seq(T) /\ Head(queue) \in Seq(T)
<1>1. PICK chunks \in Captured : \E n \in 0 .. Len(chunks) - 1 :
        /\ sent = FlattenSeq(SubSeq(chunks, 1, n))
        /\ queue = SubSeq(chunks, n + 1, Len(chunks))
  BY DEF SentInv, SendChunk, Underway
<1>2. PICK n \in 0 .. Len(chunks) - 1 :
        /\ sent = FlattenSeq(SubSeq(chunks, 1, n))
        /\ queue = SubSeq(chunks, n + 1, Len(chunks))
  BY <1>1
<1>3. Advances(chunks, n)
  BY SendingAdvances
<1> QED BY <1>2, <1>3, Zenon DEF Advances

\* What the fetch has while it copies.
HasPiece == \E n \in 0 .. Len(sent) : spool = SubSeq(sent, 1, n)

LEMMA FetchHolds ==
  ASSUME TargetInv, SentInv, FetchInv, [Next]_vars, HonestServers
  PROVE  FetchInv'
<1> USE DEF targetVars, fetchVars, analysisVars
<1>0. IsStream(sent) /\ Len(sent) \in Nat
  <2>1. IsStream(sent)
    BY SentIsStream
  <2>2. PICK T : sent \in Seq(T)
    BY <2>1 DEF IsStream
  <2> QED BY <2>1, <2>2
<1>1. ASSUME NEW how, Exit(how), staging' = FALSE PROVE FetchInv'
  BY <1>1 DEF Exit, FetchInv
<1>2. CASE SendChunk
  <2>1. PICK T : sent \in Seq(T) /\ Head(queue) \in Seq(T)
    BY <1>2, ChunkFollows
  <2>2. sent' = sent \o Head(queue) /\ UNCHANGED fetchVars /\ target = "sending"
        /\ UNCHANGED offered
    BY <1>2 DEF SendChunk
  <2>3. pc \in {"copying", "probing"} => HasPiece'
    <3> SUFFICES ASSUME pc \in {"copying", "probing"} PROVE HasPiece'
      OBVIOUS
    <3>1. HasPiece
      BY DEF FetchInv, HasPiece
    <3>2. PICK n \in 0 .. Len(sent) : spool = SubSeq(sent, 1, n)
      BY <3>1 DEF HasPiece
    <3>3. IsPieceOf(spool, sent)
      BY <1>0, <3>2, PieceIsStream DEF IsPieceOf
    <3> DEFINE c == Head(queue)
    <3>4. c \in Seq(T)
      BY <2>1
    <3> HIDE DEF c
    <3>5. \E m \in 0 .. Len(sent \o c) : spool = SubSeq(sent \o c, 1, m)
      BY <1>0, <2>1, <3>3, <3>4, GrownPiece
    <3> QED BY <2>2, <3>5, Zenon DEF HasPiece, c
  <2>4. pc \notin {"staged", "validated", "leaving"}
    BY <2>2 DEF FetchInv
  <2> QED BY <2>2, <2>3, <2>4 DEF FetchInv, HasPiece
<1>3. CASE CaptureFails
  BY <1>3 DEF CaptureFails, FetchInv
<1>4. CASE PlanBundle
  BY <1>4 DEF PlanBundle, FetchInv, TargetInv
<1>5. CASE SendFails \/ Disconnect
  BY <1>5 DEF SendFails, Disconnect, FetchInv
<1>6. CASE Unmap \/ OpenBundle \/ LoadBundle \/ UNCHANGED vars
  <2>1. UNCHANGED <<target, sent, offered>> /\ UNCHANGED fetchVars
    BY <1>6 DEF Unmap, OpenBundle, LoadBundle, vars
  <2>2. HasPiece' = HasPiece
    BY <2>1, Zenon DEF HasPiece
  <2> QED BY <2>1, <2>2 DEF FetchInv, HasPiece
<1>7. CASE Fetch
  <2>1. PICK m \in Modes : maxBytes' = m.max
    BY <1>7 DEF Fetch
  <2>2. maxBytes' \in Nat
    BY <2>1, TransferAssumption
  <2> QED BY <1>7, <2>2 DEF Fetch, FetchInv
<1>8. CASE TurnedDown \/ Timeout
  BY <1>1, <1>8 DEF TurnedDown, Timeout, FailFetch
<1>9. CASE CreateTemp
  <2>1. CASE FailFetch
    BY <1>1, <2>1 DEF FailFetch
  <2>2. CASE ~ FailFetch
    <3>1. /\ pc = "waiting" /\ pc' = "copying" /\ staging' = TRUE
          /\ UNCHANGED <<maxBytes, spool, dest, stdout, result, sent, target, offered>>
      BY <1>9, <2>2 DEF CreateTemp
    <3>2. spool = <<>>
      BY <3>1 DEF FetchInv
    <3>3. HasPiece'
      BY <1>0, <3>1, <3>2, EmptyPiece DEF HasPiece
    <3> QED BY <3>1, <3>3 DEF FetchInv, HasPiece
  <2> QED BY <2>1, <2>2
<1>10. CASE Copy
  <2>1. CASE FailFetch
    BY <1>1, <2>1 DEF FailFetch
  <2>2. CASE ~ FailFetch
    <3>1. /\ pc = "copying" /\ UNCHANGED <<pc, maxBytes, staging, dest, stdout, result, sent,
                                           target, offered>>
          /\ spool' = IF maxBytes = 0 \/ Len(sent) <= maxBytes THEN sent
                      ELSE SubSeq(sent, 1, maxBytes)
      BY <1>10, <2>2 DEF Copy
    <3>2. maxBytes \in Nat
      BY DEF FetchInv
    <3>3. HasPiece'
      <4>1. CASE maxBytes = 0 \/ Len(sent) <= maxBytes
        BY <1>0, <3>1, <4>1, WholeIsPiece DEF HasPiece
      <4>2. CASE ~ (maxBytes = 0 \/ Len(sent) <= maxBytes)
        <5>1. maxBytes \in 0 .. Len(sent)
          BY <1>0, <3>2, <4>2
        <5> QED BY <3>1, <4>2, <5>1 DEF HasPiece
      <4> QED BY <4>1, <4>2
    <3> QED BY <3>1, <3>3 DEF FetchInv, HasPiece
  <2> QED BY <2>1, <2>2
<1>11. ASSUME NEW from, Step(from, "staged"), target = "over", spool = sent, pc = "copying" \/ pc = "probing"
       PROVE  FetchInv'
  BY <1>11 DEF Step, FetchInv
<1>12. CASE EndCopy
  <2>1. CASE FailFetch
    BY <1>1, <2>1 DEF FailFetch
  <2>2. CASE Full /\ Step("copying", "probing")
    <3>1. HasPiece
      BY <1>12 DEF EndCopy, FetchInv, HasPiece
    <3>2. HasPiece'
      BY <2>2, <3>1 DEF HasPiece, Step
    <3> QED BY <2>2, <3>2 DEF FetchInv, Full, Step, HasPiece
  <2>3. CASE spool = sent /\ net = "end" /\ Step("copying", "staged")
    <3>1. target = "over" /\ pc = "copying"
      BY <1>12, <2>3 DEF TargetInv, EndCopy
    <3> QED BY <1>11, <2>3, <3>1
  <2> QED BY <1>12, <2>1, <2>2, <2>3 DEF EndCopy
<1>13. CASE Probe
  <2>1. CASE FailFetch
    BY <1>1, <2>1 DEF FailFetch
  <2>2. CASE Len(sent) = maxBytes /\ net = "end" /\ Step("probing", "staged")
    <3>1. target = "over" /\ pc = "probing"
      BY <1>13, <2>2 DEF TargetInv, Probe
    <3>2. PICK n \in 0 .. Len(sent) : spool = SubSeq(sent, 1, n)
      BY <3>1 DEF FetchInv
    <3>3. Len(spool) = n /\ Len(spool) = Len(sent)
      BY <1>0, <2>2, <3>1, <3>2, PieceIsStream DEF FetchInv
    <3>4. spool = sent
      BY <1>0, <3>2, <3>3, WholeIsPiece
    <3> QED BY <1>11, <2>2, <3>1, <3>4
  <2> QED BY <1>13, <2>1, <2>2 DEF Probe
<1>14. CASE Validate
  BY <1>1, <1>14 DEF Validate, Step, FailFetch, FetchInv
<1>15. pc = "validated" => spool \in offered
  BY ValidIsOffered DEF FetchInv
<1>16. CASE Rename
  BY <1>15, <1>16 DEF Rename, FetchInv
<1>17. CASE Display
  BY <1>15, <1>17 DEF Display, FetchInv
<1>18. CASE Leave \/ Kill
  BY <1>1, <1>18 DEF Leave, Kill
<1> QED BY <1>2, <1>3, <1>4, <1>5, <1>6, <1>7, <1>8, <1>9, <1>10, <1>12, <1>13, <1>14,
           <1>16, <1>17, <1>18
        DEF Next, TargetStep, FetchStep, AnalysisStep

LEMMA AnalysisHolds ==
  ASSUME SentInv, FetchInv, AnalysisInv, [Next]_vars, HonestServers
  PROVE  AnalysisInv'
<1> USE DEF targetVars, fetchVars, analysisVars
<1>1. CASE Rename
  <2>1. /\ spool = sent /\ ValidateArchive(spool)
        /\ sent \in OwnArchives \/ \E f \in Foreign : sent = f.stream
    BY <1>1, ValidIsOffered DEF Rename, FetchInv
  <2>2. dest' \in {spool, dest} /\ UNCHANGED <<analysis, dumpFile>>
    BY <1>1 DEF Rename
  <2> QED BY <2>1, <2>2 DEF AnalysisInv
<1>2. CASE OpenBundle
  <2>1. dest # Nothing /\ UNCHANGED dest /\ analysis = "idle"
    BY <1>2 DEF OpenBundle
  <2>2. IsStream(dest)
    BY <2>1, OwnIsStream, ForeignIsStream DEF AnalysisInv
  <2>3. PICK limits \in ReadLimits, broken \in {"none", "create", "copy"} :
          LET b == Open(dest, limits, broken)
          IN /\ dumpFile' = b.temp
             /\ IF b.ok THEN analysis' = "opened" ELSE UNCHANGED analysis
    BY <1>2 DEF OpenBundle
  <2>4. PICK T : Sized(T) /\ dest \in Seq(T)
    BY <2>2 DEF IsStream
  <2> DEFINE b == Open(dest, limits, broken)
  <2>5. b.ok \in BOOLEAN /\ b.temp = b.ok
    BY <2>4, OpenLeavesNothing
  <2> HIDE DEF b
  <2>6. dumpFile' = b.temp /\ IF b.ok THEN analysis' = "opened" ELSE UNCHANGED analysis
    BY <2>3 DEF b
  <2> QED BY <2>1, <2>5, <2>6 DEF AnalysisInv
<1>3. CASE LoadBundle
  BY <1>3 DEF LoadBundle, AnalysisInv
<1>4. ASSUME UNCHANGED <<dest, analysis, dumpFile>> PROVE AnalysisInv'
  BY <1>4 DEF AnalysisInv
<1>5. CASE TargetStep \/ Fetch \/ UNCHANGED vars
  BY <1>4, <1>5
     DEF TargetStep, CaptureFails, PlanBundle, SendChunk, SendFails, Unmap, Disconnect, Fetch, vars
<1>6. CASE TurnedDown \/ Timeout \/ CreateTemp \/ Copy \/ EndCopy \/ Probe
  BY <1>4, <1>6
     DEF TurnedDown, Timeout, CreateTemp, Copy, EndCopy, Probe, Step, FailFetch
<1>7. CASE Validate \/ Display \/ Leave \/ Kill
  BY <1>4, <1>7 DEF Validate, Display, Leave, Kill, Step, FailFetch
<1> QED BY <1>1, <1>2, <1>3, <1>5, <1>6, <1>7 DEF Next, FetchStep, AnalysisStep

-----------------------------------------------------------------------------
(* The theorems *)

\* The parts of IInv lean on each other and are preserved together.
LEMMA Invariant == HonestServers => (Spec => []IInv)
<1> SUFFICES ASSUME HonestServers PROVE Spec => []IInv
  OBVIOUS
<1>1. IInv /\ [Next]_vars => IInv'
  BY TargetHolds, SentHolds, FetchHolds, AnalysisHolds DEF IInv
<1> QED BY <1>1, InitHolds, PTL DEF Spec

\* A proper piece of an own archive is short of its end marker, so it does not
\* validate; and as the dump is its last member, an Open that finds the dump
\* has read all the others.
LEMMA CutsHold ==
  ASSUME TargetInv, SentInv, FetchInv
  PROVE  CutsNeverOpen
<1> SUFFICES ASSUME NEW archive \in OwnArchives, pc = "copying", spool # archive,
                    IsPrefix(spool, archive)
             PROVE  /\ ~ ValidateArchive(spool)
                    /\ \A limits \in ReadLimits :
                         Open(spool, limits, "none").ok =>
                           Open(spool, limits, "none") = Open(archive, limits, "none")
  BY Zenon DEF CutsNeverOpen
<1>1. PICK G, T : SoundStream(G, T, archive)
  BY OwnIsSound
<1>2. PICK n \in 0 .. Len(archive) : spool = SubSeq(archive, 1, n)
  <2>1. PICK k \in 0 .. Len(sent) : spool = SubSeq(sent, 1, k)
    BY DEF FetchInv
  <2>2. IsStream(spool)
    BY <2>1, SentIsStream, PieceIsStream
  <2>3. Len(spool) \in Nat /\ SubSeq(spool, 1, Len(spool)) = spool
    BY <2>2, WholeIsPiece
  <2>4. Len(archive) \in Nat
    <3>1. archive \in Seq(T)
      BY <1>1 DEF SoundStream
    <3> QED BY <3>1
  <2>5. Len(spool) <= Len(archive) /\ SubSeq(spool, 1, Len(spool)) = SubSeq(archive, 1, Len(spool))
    BY DEF IsPrefix
  <2>6. Len(spool) \in 0 .. Len(archive)
    BY <2>3, <2>4, <2>5
  <2> QED BY <2>3, <2>5, <2>6, Zenon
<1>3. ~ ValidateArchive(spool)
  BY <1>1, <1>2, ValidIsWhole
<1>4. ASSUME NEW limits \in ReadLimits, Open(spool, limits, "none").ok
      PROVE  Open(spool, limits, "none") = Open(archive, limits, "none")
  BY <1>1, <1>2, <1>4, PieceReadsAsWhole
<1> QED BY <1>3, <1>4

\* bundle.Write puts the dump last and closes the tar with two zero blocks
\* (write.go), and ValidateArchive and OpenWithOptions rely on it: wherever the
\* stream of a capture breaks off, the piece that arrived does not validate and
\* does not read as a smaller bundle, for every address space, every set of
\* options and every heap dump.
THEOREM CutsAreNoticed ==
  ASSUME HonestServers PROVE Spec => []CutsNeverOpen
<1>1. IInv => CutsNeverOpen
  BY CutsHold DEF IInv
<1> QED BY <1>1, Invariant, PTL

\* Only Open hands a bundle to an analysis.
LEMMA ReadsBackHolds ==
  ASSUME AnalysisInv, [Next]_vars, TruthfulServers, SegmentsReadBack
  PROVE  SegmentsReadBack'
<1> USE DEF targetVars, fetchVars, analysisVars
<1>1. CASE OpenBundle
  <2>1. dest # Nothing
    BY <1>1 DEF OpenBundle
  <2>2. IsStream(dest) /\ Truthful(Range(Scan(dest).members))
    BY <2>1, OwnIsStream, ForeignIsStream, OwnIsTruthful DEF AnalysisInv, TruthfulServers
  <2>3. PICK T : Sized(T) /\ dest \in Seq(T)
    BY <2>2 DEF IsStream
  <2>4. PICK limits \in ReadLimits, broken \in {"none", "create", "copy"} :
          LET b == Open(dest, limits, broken)
          IN IF b.ok THEN bundle' = b ELSE UNCHANGED bundle
    BY <1>1 DEF OpenBundle
  <2> DEFINE b == Open(dest, limits, broken)
  <2>5. b.ok => ReadsBack(b)
    BY <2>2, <2>3, OpenReadsBack
  <2> HIDE DEF b
  <2>6. IF b.ok THEN bundle' = b ELSE UNCHANGED bundle
    BY <2>4 DEF b
  <2> QED BY <2>5, <2>6 DEF SegmentsReadBack, ReadsBack
<1>2. CASE LoadBundle
  BY <1>2 DEF LoadBundle, SegmentsReadBack
<1>3. ASSUME UNCHANGED bundle PROVE SegmentsReadBack'
  BY <1>3 DEF SegmentsReadBack, ReadsBack
<1>4. CASE TargetStep \/ Fetch \/ UNCHANGED vars
  BY <1>3, <1>4
     DEF TargetStep, CaptureFails, PlanBundle, SendChunk, SendFails, Unmap, Disconnect, Fetch, vars
<1>5. CASE TurnedDown \/ Timeout \/ CreateTemp \/ Copy \/ EndCopy \/ Probe
  BY <1>3, <1>5
     DEF TurnedDown, Timeout, CreateTemp, Copy, EndCopy, Probe, Step, FailFetch
<1>6. CASE Validate \/ Rename \/ Display \/ Leave \/ Kill
  BY <1>3, <1>6 DEF Validate, Rename, Display, Leave, Kill, Step, FailFetch
<1> QED BY <1>1, <1>2, <1>4, <1>5, <1>6 DEF Next, FetchStep, AnalysisStep

\* Whatever interrupts or reorders a transfer, what a session reads from the
\* segments of the bundle it opened (read.go, segreader.go) is what memory held
\* when the target wrote it, and a bundle without a warning (collectSegments) has
\* every address that can be read throughout the capture: for every address
\* space, every set of options and limits, and other servers whose archives,
\* if they validate, are whole and tell the truth about memory.
THEOREM SegmentsAreMemory ==
  ASSUME HonestServers, TruthfulServers
  PROVE  Spec => []SegmentsReadBack
<1>1. Init => SegmentsReadBack
  BY DEF Init, SegmentsReadBack
<1>2. IInv /\ SegmentsReadBack /\ [Next]_vars => SegmentsReadBack'
  BY ReadsBackHolds DEF IInv
<1>3. Spec => []IInv
  BY Invariant
<1> QED BY <1>1, <1>2, <1>3, PTL DEF Spec

\* A fetch that ends, with the staging file gone, ends as promised.
LEMMA ExitImplements ==
  ASSUME NEW how \in {"ok", "failed", "killed"}, Exit(how), staging' = FALSE,
         pc \notin {"idle", "over"}, UNCHANGED <<dest, stdout>>, UNCHANGED analysisVars,
         how = "ok" => dest \in offered \/ stdout \in offered
  PROVE  Promised!EndFetch
<1>1. AtWork' = AtWork \ {"fetch"} /\ "fetch" \in AtWork
  BY DEF AtWork, Exit, analysisVars
<1>2. TempFiles' = TempFiles \ {"staging"}
  BY DEF TempFiles, analysisVars
<1>3. Reported' = how /\ offered' = {}
  BY DEF Reported, Exit
<1> QED BY <1>1, <1>2, <1>3 DEF Promised!EndFetch

LEMMA FailImplements ==
  ASSUME FailFetch, pc \notin {"idle", "over"}, UNCHANGED analysisVars
  PROVE  Promised!EndFetch
BY ExitImplements DEF FailFetch

\* Nothing of the promise changes.
LEMMA Stutters ==
  ASSUME UNCHANGED <<dest, stdout, offered>>, UNCHANGED <<staging, dumpFile>>,
         UNCHANGED analysis,
         (pc \notin {"idle", "over"} /\ pc' \notin {"idle", "over"}) \/ UNCHANGED <<pc, result>>
  PROVE  UNCHANGED Promised!promiseVars
BY DEF AtWork, TempFiles, Reported, Promised!promiseVars

LEMMA PieceIsPrefix ==
  ASSUME NEW s, IsStream(s)
  PROVE  /\ IsPrefix(s, s) /\ IsPrefix(<<>>, s) /\ IsPrefix(<<>>, SubSeq(s, 1, Len(s) \div 2))
         /\ IsPrefix(SubSeq(s, 1, Len(s) \div 2), s)
<1>1. PICK T : s \in Seq(T)
  BY DEF IsStream
<1> DEFINE n == Len(s) \div 2
           t == SubSeq(s, 1, n)
<1>2. n \in 0 .. Len(s)
  BY <1>1
<1> HIDE DEF n
<1>3. t \in Seq(T) /\ Len(t) = n /\ SubSeq(t, 1, n) = t
  BY <1>1, <1>2
<1> HIDE DEF t
<1>4. IsPrefix(s, s)
  BY <1>1 DEF IsPrefix
<1>5. \A u \in Seq(T) : IsPrefix(<<>>, u)
  BY DEF IsPrefix
<1>6. IsPrefix(t, s)
  <2>1. Len(t) <= Len(s)
    BY <1>1, <1>2, <1>3
  <2>2. SubSeq(t, 1, Len(t)) = SubSeq(s, 1, Len(t))
    BY <1>3 DEF t
  <2> QED BY <2>1, <2>2 DEF IsPrefix
<1> QED BY <1>1, <1>3, <1>4, <1>5, <1>6, Zenon DEF t, n

LEMMA DisplayImplements ==
  ASSUME TargetInv, SentInv, FetchInv, Display, HonestServers
  PROVE  Promised!Display
<1>1. spool \in offered /\ IsStream(spool) /\ stdout = <<>>
  BY ValidIsOffered, SentIsStream DEF FetchInv, Display
<1>2. stdout' = spool \/ stdout' = SubSeq(spool, 1, Len(spool) \div 2)
  BY DEF Display
<1>3. IsPrefix(stdout', spool) /\ IsPrefix(stdout, stdout')
  BY <1>1, <1>2, PieceIsPrefix
<1>4. "fetch" \in AtWork
  BY DEF AtWork, Display
<1>5. UNCHANGED <<dest, offered, AtWork, TempFiles, Reported>>
  BY DEF Display, AtWork, TempFiles, Reported, targetVars, analysisVars
<1>6. \E archive \in offered : IsPrefix(stdout', archive) /\ IsPrefix(stdout, stdout')
  BY <1>1, <1>3, Zenon
<1> QED BY <1>4, <1>5, <1>6, Zenon DEF Promised!Display, Promised!IsPrefix, IsPrefix

LEMMA RenameImplements ==
  ASSUME SentInv, FetchInv, Rename, HonestServers
  PROVE  Promised!Replace \/ UNCHANGED Promised!promiseVars
<1> USE DEF targetVars, analysisVars
<1>1. spool \in offered /\ stdout = <<>>
  BY ValidIsOffered DEF FetchInv, Rename
<1>2. CASE dest' = spool /\ staging' = FALSE /\ UNCHANGED stdout
  <2>1. "fetch" \in AtWork /\ UNCHANGED <<AtWork, Reported, offered>>
    BY <1>2 DEF AtWork, Reported, Rename
  <2>2. TempFiles' = TempFiles \ {"staging"}
    BY <1>2 DEF TempFiles, Rename
  <2> QED BY <1>1, <1>2, <2>1, <2>2 DEF Promised!Replace
<1>3. CASE UNCHANGED <<staging, dest, stdout>>
  BY <1>3, Stutters DEF Rename
<1> QED BY <1>2, <1>3 DEF Rename

LEMMA CreateImplements ==
  ASSUME CreateTemp
  PROVE  Promised!Create("fetch") \/ Promised!EndFetch
<1> USE DEF targetVars, analysisVars
<1>1. CASE FailFetch
  BY <1>1, FailImplements DEF CreateTemp
<1>2. CASE ~ FailFetch
  <2>1. "fetch" \in AtWork /\ UNCHANGED <<AtWork, Reported, offered, dest, stdout>>
    BY <1>2 DEF AtWork, Reported, CreateTemp
  <2>2. TempFiles' = TempFiles \cup {"staging"}
    BY <1>2 DEF TempFiles, CreateTemp
  <2> QED BY <2>1, <2>2 DEF Promised!Create, Promised!TempFile
<1> QED BY <1>1, <1>2

LEMMA AnalysisImplements ==
  ASSUME AnalysisInv, AnalysisInv', OpenBundle \/ LoadBundle
  PROVE  Promised!StartAnalysis \/ Promised!EndAnalysis \/ UNCHANGED Promised!promiseVars
<1> USE DEF targetVars, fetchVars
<1>1. UNCHANGED <<dest, stdout, offered, pc, result, staging>>
  BY DEF OpenBundle, LoadBundle
<1>2. CASE LoadBundle
  <2>1. "analysis" \in AtWork /\ AtWork' = AtWork \ {"analysis"}
    BY <1>1, <1>2 DEF LoadBundle, AtWork
  <2>2. TempFiles' = TempFiles \ {"dump"} /\ UNCHANGED Reported
    BY <1>1, <1>2 DEF LoadBundle, TempFiles, Reported
  <2> QED BY <1>1, <2>1, <2>2 DEF Promised!EndAnalysis
<1>3. CASE OpenBundle /\ analysis' = "opened"
  <2>1. "analysis" \notin AtWork /\ AtWork' = AtWork \cup {"analysis"} /\ dest # Nothing
    BY <1>1, <1>3 DEF OpenBundle, AtWork
  <2>2. TempFiles' = TempFiles \cup {"dump"} /\ UNCHANGED Reported
    BY <1>1, <1>3 DEF OpenBundle, TempFiles, Reported, AnalysisInv
  <2> QED BY <1>1, <2>1, <2>2 DEF Promised!StartAnalysis
<1>4. CASE OpenBundle /\ analysis' # "opened"
  <2>1. UNCHANGED <<analysis, dumpFile>>
    BY <1>4 DEF OpenBundle, AnalysisInv
  <2> QED BY <1>1, <2>1, Stutters
<1> QED BY <1>2, <1>3, <1>4

LEMMA TargetImplements ==
  ASSUME FetchInv, TargetInv, TargetStep
  PROVE  Promised!Offer \/ UNCHANGED Promised!promiseVars
<1> USE DEF fetchVars, analysisVars
<1>1. CASE PlanBundle
  <2>1. pc = "waiting" /\ ~ staging /\ stdout = <<>>
    BY <1>1 DEF PlanBundle, TargetInv, FetchInv
  <2>2. UNCHANGED <<dest, stdout, AtWork, TempFiles, Reported>>
    BY <1>1 DEF PlanBundle, AtWork, TempFiles, Reported
  <2>3. "fetch" \in AtWork /\ "staging" \notin TempFiles
    BY <2>1 DEF AtWork, TempFiles
  <2> QED BY <2>1, <2>2, <2>3 DEF Promised!Offer
<1>2. CASE ~ PlanBundle
  <2>1. UNCHANGED <<dest, stdout, offered, staging, dumpFile, analysis, pc, result>>
    BY <1>2 DEF TargetStep, CaptureFails, SendChunk, SendFails, Unmap, Disconnect
  <2> QED BY <2>1, Stutters
<1> QED BY <1>1, <1>2

LEMMA FetchImplements ==
  ASSUME Fetch, FetchInv
  PROVE  Promised!StartFetch
<1> USE DEF analysisVars
<1>1. "fetch" \notin AtWork /\ AtWork' = AtWork \cup {"fetch"}
  BY DEF Fetch, AtWork
<1>2. UNCHANGED <<dest, TempFiles>> /\ Reported' = "none" /\ stdout' = <<>>
  BY DEF Fetch, TempFiles, Reported
<1> QED BY <1>1, <1>2 DEF Promised!StartFetch

\* Copying and checking show nothing; a failure ends the fetch.
LEMMA WorkImplements ==
  ASSUME TurnedDown \/ Timeout \/ Copy \/ EndCopy \/ Probe \/ Validate
  PROVE  Promised!EndFetch \/ UNCHANGED Promised!promiseVars
<1> USE DEF targetVars, analysisVars
<1>1. pc \in {"waiting", "copying", "probing", "staged"} /\ UNCHANGED analysisVars
  BY DEF TurnedDown, Timeout, Waiting, Copy, EndCopy, Probe, Validate
<1>2. CASE FailFetch
  BY <1>1, <1>2, FailImplements
<1>3. CASE ~ FailFetch
  <2>1. pc' \in {"copying", "probing", "staged", "validated"} /\ UNCHANGED <<dest, stdout, offered, staging>>
    BY <1>3 DEF TurnedDown, Timeout, Copy, EndCopy, Probe, Validate, Step
  <2> QED BY <1>1, <2>1, Stutters
<1> QED BY <1>2, <1>3

LEMMA LeaveImplements ==
  ASSUME FetchInv, Leave \/ Kill
  PROVE  Promised!EndFetch
<1>1. CASE Leave
  BY <1>1, ExitImplements DEF Leave, FetchInv
<1>2. CASE Kill
  BY <1>2, ExitImplements DEF Kill
<1> QED BY <1>1, <1>2

LEMMA StepImplements ==
  ASSUME HonestServers, IInv, IInv', [Next]_vars
  PROVE  [Promised!Next]_(Promised!promiseVars)
<1> USE DEF IInv
<1>1. CASE TargetStep
  BY <1>1, TargetImplements DEF Promised!Next
<1>2. CASE Fetch
  BY <1>2, FetchImplements DEF Promised!Next
<1>3. CASE TurnedDown \/ Timeout \/ Copy \/ EndCopy \/ Probe \/ Validate
  BY <1>3, WorkImplements DEF Promised!Next
<1>4. CASE CreateTemp
  <2>1. CASE Promised!Create("fetch")
    <3>1. "fetch" \in AtWork
      BY <2>1 DEF Promised!Create
    <3> QED BY <2>1, <3>1 DEF Promised!Next
  <2>2. CASE Promised!EndFetch
    BY <2>2 DEF Promised!Next
  <2> QED BY <1>4, <2>1, <2>2, CreateImplements
<1>5. CASE Rename
  BY <1>5, RenameImplements DEF Promised!Next
<1>6. CASE Display
  BY <1>6, DisplayImplements DEF Promised!Next
<1>7. CASE Leave \/ Kill
  BY <1>7, LeaveImplements DEF Promised!Next
<1>8. CASE OpenBundle \/ LoadBundle
  BY <1>8, AnalysisImplements DEF Promised!Next
<1>9. CASE UNCHANGED vars
  BY <1>9, Stutters DEF vars, targetVars, fetchVars, analysisVars
<1> QED BY <1>1, <1>2, <1>3, <1>4, <1>5, <1>6, <1>7, <1>8, <1>9 DEF Next, FetchStep, AnalysisStep

\* runFetch and downloadAtomic (fetch.go, download.go) replace the destination
\* only by an archive that its server sent whole, and report success only then;
\* no staging file and no extracted dump outlives its user, who may be killed.
\* Rename maps to the replacement, CreateTemp and OpenBundle to the creation of
\* a temporary file, everything that ends a fetch to its end; copying, probing
\* and validating are stutters.
THEOREM TransferImplementsPromise ==
  ASSUME HonestServers PROVE Spec => KeepsPromise
<1>1. Init => Promised!Init
  BY DEF Init, Promised!Init, AtWork, TempFiles, Reported
<1>2. IInv /\ IInv' /\ [Next]_vars => [Promised!Next]_(Promised!promiseVars)
  BY StepImplements
<1> QED BY Invariant, <1>1, <1>2, PTL DEF Spec, KeepsPromise, Promised!Spec
=============================================================================
