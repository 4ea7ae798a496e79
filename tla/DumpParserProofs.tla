-------------------------- MODULE DumpParserProofs --------------------------
(***************************************************************************)
(* Proofs about DumpParser, for dumps of any length, cut at any cell, of   *)
(* values of any size, under every combination of the options.             *)
(*                                                                         *)
(* First the codec (DumpReader): what Encode writes reads back, value by   *)
(* value, and a stream cut inside a value gives an end of input and no     *)
(* value.  So a parser at the start of record n + 1 reads that record, or  *)
(* finds the dump cut inside it, and never mistakes one for the other.     *)
(*                                                                         *)
(* Then the records.  IInv says of the snapshot, after n records and at    *)
(* the start of the next, that it is exactly that of the first n:          *)
(*   - ParamsKnown: the parameters at hand are those written last;         *)
(*   - Section: the goroutine that takes the next frame is the latest of   *)
(*     its section, and none once another section begins;                  *)
(*   - Accepted: the n records are sound, if the options refuse others;    *)
(*   - Collected: every list and every map holds what they hold;           *)
(*   - RefsAre: the payload references are those of the objects with one.  *)
(* A parse that returned stopped at the end record or at an unknown one,   *)
(* with all the records before it read (Result); one that failed had a     *)
(* reason, a cut or a fault of the runtime (Excused).                      *)
(*                                                                         *)
(* The six properties the parser's run checks follow, each from IInv and   *)
(* from what the records read amount to.                                   *)
(***************************************************************************)
EXTENDS DumpParser, FiniteSetTheorems, SequenceTheorems, TLAPS

-----------------------------------------------------------------------------
(* Induction                                                                *)

\* Induction over the naturals, for the set of those that have a property.
LEMMA SetInduction ==
  ASSUME NEW S, 0 \in S, \A n \in Nat : n \in S => n + 1 \in S
  PROVE  Nat \subseteq S
<1>1. SUFFICES ASSUME NEW m \in Nat, m \notin S PROVE FALSE
  OBVIOUS
<1> DEFINE F == {T \in SUBSET (0 .. m) : \E i \in 0 .. m : T = 0 .. i /\ i \notin S}
<1>2. 0 .. m \in F
  BY <1>1
<1>3. F \subseteq FiniteSubsetsOf(0 .. m)
  BY FS_Interval, FS_FiniteSubsetsOfFinite
<1>4. PICK T \in F : \A U \in F : ~ (<<U, T>> \in StrictSubsetOrdering(0 .. m))
  <2> HIDE DEF F
  <2> QED BY <1>2, <1>3, FS_StrictSubsetOrderingWellFounded, WFMin
<1>5. PICK i \in 0 .. m : T = 0 .. i /\ i \notin S
  BY <1>4
<1>6. i # 0 /\ i - 1 \in Nat /\ i - 1 \notin S
  BY <1>5
<1>7. 0 .. (i - 1) \in F
  BY <1>5, <1>6
<1>8. <<0 .. (i - 1), T>> \in StrictSubsetOrdering(0 .. m)
  BY <1>5, <1>6 DEF StrictSubsetOrdering
<1> QED BY <1>4, <1>7, <1>8

\* Induction from the last of some numbers down.
LEMMA DownwardInduction ==
  ASSUME NEW n \in Nat, NEW S, n \in S, \A k \in 0 .. n - 1 : k + 1 \in S => k \in S
  PROVE  0 .. n \subseteq S
<1> DEFINE D == {k \in Nat : k <= n => n - k \in S}
<1>1. 0 \in D
  OBVIOUS
<1>2. \A k \in Nat : k \in D => k + 1 \in D
  <2> TAKE k \in Nat
  <2> SUFFICES ASSUME k \in D, k + 1 <= n PROVE n - (k + 1) \in S
    OBVIOUS
  <2>1. n - k \in S /\ n - (k + 1) \in 0 .. n - 1 /\ n - (k + 1) + 1 = n - k
    OBVIOUS
  <2> QED BY <2>1
<1>3. Nat \subseteq D
  <2> HIDE DEF D
  <2> QED BY <1>1, <1>2, SetInduction
<1> SUFFICES ASSUME NEW k \in 0 .. n PROVE k \in S
  OBVIOUS
<1>4. n - k \in D /\ n - (n - k) = k /\ n - k <= n
  BY <1>3
<1> QED BY <1>4

LEMMA UpwardInduction ==
  ASSUME NEW n \in Nat, NEW S, 0 \in S, \A k \in 0 .. n - 1 : k \in S => k + 1 \in S
  PROVE  0 .. n \subseteq S
<1> DEFINE D == {k \in Nat : k <= n => k \in S}
<1>1. 0 \in D
  OBVIOUS
<1>2. \A k \in Nat : k \in D => k + 1 \in D
  OBVIOUS
<1>3. Nat \subseteq D
  <2> HIDE DEF D
  <2> QED BY <1>1, <1>2, SetInduction
<1> QED BY <1>3
-----------------------------------------------------------------------------
(* Integers                                                                 *)

LEMMA ReaderNumbers ==
  /\ Continue \in Nat /\ Continue > 1 /\ MaxGroups \in Nat /\ MaxGroups > 0
  /\ LastGroup \in Nat /\ LastGroup > 1 /\ LastGroup <= Continue
  /\ MaxStringBytes \in Nat /\ MaxMemRangeSize \in Nat /\ MaxLine \in Nat /\ MaxLine > 0
BY ReaderAssumption

\* One turn of Uvarint's loop, before a rest that has been read.
Turn(f, p, i, rest) ==
  IF i = MaxGroups THEN Broken("overflow")
  ELSE IF p + i > Len(f) THEN Broken(IF i = 0 THEN "EOF" ELSE "ErrUnexpectedEOF")
  ELSE IF f[p + i] >= Continue THEN Shifted(f[p + i] - Continue, rest)
  ELSE IF FitsLastGroup(i, f[p + i]) THEN Got(f[p + i], p + i + 1)
  ELSE Broken("overflow")

IsLoop(g, f, p) == g = [i \in 0 .. MaxGroups |-> Turn(f, p, i, g[i + 1])]

LEMMA LoopExists ==
  ASSUME NEW f, NEW p
  PROVE  \E g : IsLoop(g, f, p)
<1> DEFINE Fits(g, k) == \A i \in k .. MaxGroups : g[i] = Turn(f, p, i, g[i + 1])
           S == {k \in 0 .. MaxGroups : \E g : Fits(g, k)}
<1>1. MaxGroups \in S
  <2> DEFINE g == [i \in 0 .. MaxGroups |-> Broken("overflow")]
  <2>1. Fits(g, MaxGroups)
    BY ReaderNumbers DEF Turn
  <2> QED BY <2>1, ReaderNumbers
<1>2. ASSUME NEW k \in 0 .. MaxGroups - 1, k + 1 \in S PROVE k \in S
  <2>1. PICK g : Fits(g, k + 1)
    BY <1>2
  <2> DEFINE h == [i \in 0 .. MaxGroups |-> IF i = k THEN Turn(f, p, k, g[k + 1]) ELSE g[i]]
  <2>2. ASSUME NEW i \in k .. MaxGroups PROVE h[i] = Turn(f, p, i, h[i + 1])
    <3>1. CASE i = k
      BY <3>1, ReaderNumbers
    <3>2. CASE i = MaxGroups /\ i # k
      <4>1. h[i] = g[i] /\ g[i] = Turn(f, p, i, g[i + 1])
        BY <2>1, <3>2, ReaderNumbers
      <4> QED BY <4>1, <3>2 DEF Turn
    <3>3. CASE i # k /\ i # MaxGroups
      <4>1. h[i] = g[i] /\ g[i] = Turn(f, p, i, g[i + 1]) /\ h[i + 1] = g[i + 1]
        BY <2>1, <3>3, ReaderNumbers
      <4> QED BY <4>1
    <3> QED BY <3>1, <3>2, <3>3
  <2>3. Fits(h, k)
    <3> HIDE DEF h
    <3> QED BY <2>2
  <2> QED
    <3> HIDE DEF h, Fits
    <3> QED BY <2>3, ReaderNumbers
<1>3. 0 \in S
  <2> HIDE DEF S
  <2> QED BY <1>1, <1>2, DownwardInduction, ReaderNumbers
<1>4. PICK g : Fits(g, 0)
  BY <1>3
<1> DEFINE h == [i \in 0 .. MaxGroups |-> g[i]]
<1>5. ASSUME NEW i \in 0 .. MaxGroups PROVE h[i] = Turn(f, p, i, h[i + 1])
  <2>1. CASE i = MaxGroups
    <3>1. h[i] = Turn(f, p, i, g[i + 1])
      BY <1>4
    <3> QED BY <2>1, <3>1 DEF Turn
  <2>2. CASE i # MaxGroups
    <3>1. h[i] = Turn(f, p, i, g[i + 1]) /\ h[i + 1] = g[i + 1]
      BY <1>4, <2>2, ReaderNumbers
    <3> QED BY <3>1
  <2> QED BY <2>1, <2>2
<1>6. h = [i \in 0 .. MaxGroups |-> Turn(f, p, i, h[i + 1])]
  <2>1. h = [i \in 0 .. MaxGroups |-> h[i]]
    OBVIOUS
  <2> HIDE DEF h
  <2> QED BY <1>5, <2>1
<1> QED BY <1>6 DEF IsLoop

LEMMA UvarintLoops ==
  ASSUME NEW f, NEW p
  PROVE  \E g : /\ Uvarint(f, p) = g[0]
                /\ \A i \in 0 .. MaxGroups : g[i] = Turn(f, p, i, g[i + 1])
<1> DEFINE g == CHOOSE g : IsLoop(g, f, p)
<1>1. IsLoop(g, f, p)
  BY LoopExists
<1>2. Uvarint(f, p) = g[0]
  BY DEF Uvarint, IsLoop, Turn
<1> HIDE DEF g
<1>3. \A i \in 0 .. MaxGroups : g[i] = Turn(f, p, i, g[i + 1])
  BY <1>1 DEF IsLoop
<1> QED BY <1>2, <1>3

\* The numbers that k groups can hold.
LEMMA Capacities ==
  /\ \A k \in 1 .. MaxGroups : Capacity[k] \in Nat /\ Capacity[k] > 1
  /\ Capacity[1] = LastGroup
  /\ \A k \in 2 .. MaxGroups : Capacity[k] = Continue * Capacity[k - 1]
<1> DEFINE body(g, k) == IF k = 1 THEN LastGroup ELSE Continue * g[k - 1]
           Fits(g, n) == \A k \in 1 .. n : g[k] = body(g, k)
           S == {n \in 0 .. MaxGroups : \E g : Fits(g, n)}
<1>1. 0 \in S
  BY ReaderNumbers
<1>2. ASSUME NEW n \in 0 .. MaxGroups - 1, n \in S PROVE n + 1 \in S
  <2>1. PICK g : Fits(g, n)
    BY <1>2
  <2> DEFINE h == [k \in 1 .. MaxGroups |-> IF k = n + 1 THEN body(g, k) ELSE g[k]]
  <2>2. ASSUME NEW k \in 1 .. n + 1 PROVE h[k] = body(h, k)
    <3>1. h[k] = body(g, k)
      BY <2>1, ReaderNumbers
    <3>2. k # 1 => h[k - 1] = g[k - 1]
      BY ReaderNumbers
    <3> HIDE DEF h
    <3> QED BY <3>1, <3>2
  <2> QED
    <3> HIDE DEF h, body
    <3> QED BY <2>2, ReaderNumbers
<1>3. MaxGroups \in S
  <2> HIDE DEF S
  <2> QED BY <1>1, <1>2, UpwardInduction, ReaderNumbers
<1>4. PICK g : Fits(g, MaxGroups)
  BY <1>3
<1> DEFINE h == [k \in 1 .. MaxGroups |-> g[k]]
<1>5. ASSUME NEW k \in 1 .. MaxGroups PROVE h[k] = body(h, k)
  <2>1. h[k] = body(g, k) /\ (k # 1 => h[k - 1] = g[k - 1])
    BY <1>4, ReaderNumbers
  <2> HIDE DEF h
  <2> QED BY <2>1
<1>6. h = [k \in 1 .. MaxGroups |-> body(h, k)]
  <2>1. h = [k \in 1 .. MaxGroups |-> h[k]]
    OBVIOUS
  <2> HIDE DEF h, body
  <2> QED BY <1>5, <2>1
<1>7. Capacity = [k \in 1 .. MaxGroups |-> body(Capacity, k)]
  <2>1. \E c : c = [k \in 1 .. MaxGroups |-> body(c, k)]
    BY <1>6
  <2> QED BY <2>1 DEF Capacity
<1>8. \A k \in 1 .. MaxGroups : Capacity[k] = body(Capacity, k)
  <2> HIDE DEF body
  <2> QED BY <1>7
<1>9. Capacity[1] = LastGroup /\ \A k \in 2 .. MaxGroups : Capacity[k] = Continue * Capacity[k - 1]
  BY <1>8, ReaderNumbers
<1> DEFINE T == {n \in 0 .. MaxGroups : \A k \in 1 .. n : Capacity[k] \in Nat /\ Capacity[k] > 1}
<1>10. 0 \in T
  BY ReaderNumbers
<1>11. ASSUME NEW n \in 0 .. MaxGroups - 1, n \in T PROVE n + 1 \in T
  <2>1. Capacity[n + 1] \in Nat /\ Capacity[n + 1] > 1
    <3>1. CASE n = 0
      BY <3>1, <1>9, ReaderNumbers
    <3>2. CASE n # 0
      <4>1. Capacity[n] \in Nat /\ Capacity[n] > 1 /\ n + 1 - 1 = n
        BY <1>11, <3>2
      <4>2. Capacity[n + 1] = Continue * Capacity[n]
        BY <1>9, <3>2, <4>1, ReaderNumbers
      <4> DEFINE c == Capacity[n]
      <4>3. Continue * c \in Nat /\ Continue * c > 1
        <5> HIDE DEF c
        <5>1. c \in Nat /\ c > 1
          BY <4>1 DEF c
        <5> QED BY <5>1, ReaderNumbers
      <4> QED BY <4>2, <4>3
    <3> QED BY <3>1, <3>2
  <2> QED BY <1>11, <2>1, ReaderNumbers
<1>12. MaxGroups \in T
  <2> HIDE DEF T
  <2> QED BY <1>10, <1>11, UpwardInduction, ReaderNumbers
<1> QED BY <1>9, <1>12

LEMMA MaxUintIsNat == MaxUint \in Nat /\ MaxUint > 0 /\ MaxUint = Capacity[MaxGroups] - 1
BY Capacities, ReaderNumbers DEF MaxUint

\* A number is its low group and the rest.
LEMMA LowGroup ==
  ASSUME NEW n \in Nat, n >= Continue
  PROVE  /\ n % Continue \in 0 .. Continue - 1
         /\ n \div Continue \in Nat /\ n \div Continue < n
         /\ n = (n % Continue) + Continue * (n \div Continue)
<1>1. Continue \in Nat /\ Continue > 1
  BY ReaderNumbers
<1>2. n % Continue \in 0 .. Continue - 1
  BY <1>1
<1>3. n \div Continue \in Nat
  BY <1>1
<1>4. n = (n % Continue) + Continue * (n \div Continue)
  BY <1>1
<1>5. n \div Continue < n
  <2> DEFINE d == n \div Continue
             r == n % Continue
  <2>1. d \in Nat /\ r \in 0 .. Continue - 1 /\ n = r + Continue * d
    BY <1>2, <1>3, <1>4
  <2> HIDE DEF d, r
  <2>2. d > 0
    BY <2>1, <1>1
  <2>3. Continue * d >= 2 * d
    BY <2>1, <1>1
  <2>4. d < n
    <3>1. Continue * d \in Nat
      BY <2>1, <1>1
    <3> QED BY <2>1, <2>2, <2>3, <3>1, <1>1
  <2> QED BY <2>4 DEF d
<1> QED BY <1>2, <1>3, <1>4, <1>5

\* The cells of an integer.
LEMMA EncodedInteger ==
  \A n \in 0 .. MaxUint :
    /\ n < Continue => EncodeUint(n) = <<n>>
    /\ n >= Continue => /\ n \div Continue \in 0 .. MaxUint
                        /\ EncodeUint(n) = <<Continue + (n % Continue)>> \o EncodeUint(n \div Continue)
    /\ EncodeUint(n) \in Seq(Cells) /\ Len(EncodeUint(n)) > 0
<1> DEFINE body(g, m) == IF m < Continue THEN <<m>>
                         ELSE <<Continue + (m % Continue)>> \o g[m \div Continue]
           Fits(g, k) == \A m \in 0 .. k : g[m] = body(g, m)
           S == {k \in 0 .. MaxUint : \E g : Fits(g, k)}
<1>1. \A n \in 0 .. MaxUint : n >= Continue => n \div Continue \in 0 .. n - 1
  BY LowGroup, MaxUintIsNat, ReaderNumbers
<1>2. 0 \in S
  <2> DEFINE g == [m \in 0 .. MaxUint |-> <<m>>]
  <2>1. Fits(g, 0)
    BY MaxUintIsNat, ReaderNumbers
  <2> QED
    <3> HIDE DEF g, Fits
    <3> QED BY <2>1, MaxUintIsNat
<1>3. ASSUME NEW k \in 0 .. MaxUint - 1, k \in S PROVE k + 1 \in S
  <2>1. PICK g : Fits(g, k)
    BY <1>3
  <2> DEFINE h == [m \in 0 .. MaxUint |-> IF m = k + 1 THEN body(g, m) ELSE g[m]]
  <2>2. ASSUME NEW m \in 0 .. k + 1 PROVE h[m] = body(h, m)
    <3>1. h[m] = body(g, m)
      BY <2>1, MaxUintIsNat
    <3>2. m >= Continue => h[m \div Continue] = g[m \div Continue]
      <4> SUFFICES ASSUME m >= Continue PROVE h[m \div Continue] = g[m \div Continue]
        OBVIOUS
      <4>1. m \div Continue \in 0 .. m - 1
        BY <1>1, MaxUintIsNat
      <4> DEFINE d == m \div Continue
      <4> HIDE DEF d
      <4>2. d \in 0 .. m - 1
        BY <4>1 DEF d
      <4>3. h[d] = g[d]
        BY <4>2, MaxUintIsNat
      <4> QED BY <4>3 DEF d
    <3> HIDE DEF h
    <3>3. CASE m < Continue
      BY <3>1, <3>3
    <3>4. CASE ~ (m < Continue)
      BY <3>1, <3>2, <3>4, ReaderNumbers
    <3> QED BY <3>3, <3>4
  <2> QED
    <3> HIDE DEF h, body
    <3> QED BY <2>2, MaxUintIsNat
<1>4. MaxUint \in S
  <2> HIDE DEF S
  <2> QED BY <1>2, <1>3, UpwardInduction, MaxUintIsNat
<1>5. PICK g : Fits(g, MaxUint)
  BY <1>4
<1> DEFINE h == [m \in 0 .. MaxUint |-> g[m]]
<1>6. ASSUME NEW m \in 0 .. MaxUint PROVE h[m] = body(h, m)
  <2>1. h[m] = body(g, m)
    BY <1>5
  <2>2. m >= Continue => h[m \div Continue] = g[m \div Continue]
    <3> SUFFICES ASSUME m >= Continue PROVE h[m \div Continue] = g[m \div Continue]
      OBVIOUS
    <3> DEFINE d == m \div Continue
    <3>1. d \in 0 .. MaxUint
      BY <1>1, MaxUintIsNat
    <3> HIDE DEF d
    <3>2. h[d] = g[d]
      BY <3>1
    <3> QED BY <3>2 DEF d
  <2> HIDE DEF h
  <2>3. CASE m < Continue
    BY <2>1, <2>3
  <2>4. CASE ~ (m < Continue)
    BY <2>1, <2>2, <2>4, ReaderNumbers
  <2> QED BY <2>3, <2>4
<1>7. h = [m \in 0 .. MaxUint |-> body(h, m)]
  <2>1. h = [m \in 0 .. MaxUint |-> h[m]]
    OBVIOUS
  <2> HIDE DEF h, body
  <2> QED BY <1>6, <2>1
<1> DEFINE c == CHOOSE c : c = [m \in 0 .. MaxUint |-> body(c, m)]
<1>8. c = [m \in 0 .. MaxUint |-> body(c, m)]
  BY <1>7
<1>9. \A n : EncodeUint(n) = c[n]
  BY DEF EncodeUint
<1>10. \A n \in 0 .. MaxUint : c[n] = body(c, n)
  <2> HIDE DEF c, body
  <2> QED BY <1>8
<1>11. \A n \in 0 .. MaxUint :
         /\ n < Continue => EncodeUint(n) = <<n>>
         /\ n >= Continue => EncodeUint(n) = <<Continue + (n % Continue)>> \o EncodeUint(n \div Continue)
  <2> TAKE n \in 0 .. MaxUint
  <2> HIDE DEF c
  <2>1. c[n] = body(c, n) /\ EncodeUint(n) = c[n] /\ EncodeUint(n \div Continue) = c[n \div Continue]
    BY <1>9, <1>10
  <2>2. CASE n < Continue
    BY <2>1, <2>2, MaxUintIsNat, ReaderNumbers
  <2>3. CASE n >= Continue
    BY <2>1, <2>3, MaxUintIsNat, ReaderNumbers
  <2> QED BY <2>2, <2>3, MaxUintIsNat, ReaderNumbers
<1> DEFINE T == {k \in 0 .. MaxUint :
                   \A n \in 0 .. k : EncodeUint(n) \in Seq(Cells) /\ Len(EncodeUint(n)) > 0}
<1>12. ASSUME NEW n \in 0 .. MaxUint, n < Continue
       PROVE  EncodeUint(n) \in Seq(Cells) /\ Len(EncodeUint(n)) > 0
  <2>1. n \in Cells
    BY <1>12, ReaderNumbers, MaxUintIsNat DEF Cells
  <2>2. <<n>> \in Seq(Cells) /\ Len(<<n>>) > 0
    BY <2>1
  <2> QED BY <2>2, <1>11, <1>12
<1>13. 0 \in T
  BY <1>12, MaxUintIsNat, ReaderNumbers
<1>14. ASSUME NEW k \in 0 .. MaxUint - 1, k \in T PROVE k + 1 \in T
  <2> DEFINE n == k + 1
  <2>1. n \in 0 .. MaxUint
    BY MaxUintIsNat
  <2>2. EncodeUint(n) \in Seq(Cells) /\ Len(EncodeUint(n)) > 0
    <3>1. CASE n < Continue
      BY <3>1, <1>12, <2>1
    <3>2. CASE n >= Continue
      <4> DEFINE d == n \div Continue
                 r == n % Continue
      <4>1. d \in 0 .. k
        BY <1>1, <2>1, <3>2
      <4>2. r \in 0 .. Continue - 1
        BY LowGroup, <2>1, <3>2, MaxUintIsNat
      <4>3. EncodeUint(n) = <<Continue + r>> \o EncodeUint(d)
        BY <1>11, <2>1, <3>2
      <4> HIDE DEF n, d, r
      <4>4. EncodeUint(d) \in Seq(Cells) /\ Len(EncodeUint(d)) > 0
        BY <1>14, <4>1
      <4>5. Continue + r \in Cells
        BY <4>2, ReaderNumbers DEF Cells
      <4> DEFINE e == EncodeUint(d)
                 x == Continue + r
      <4> HIDE DEF e, x
      <4>6. <<x>> \o e \in Seq(Cells) /\ Len(<<x>> \o e) > 0
        BY <4>4, <4>5 DEF e, x
      <4> QED BY <4>3, <4>6 DEF e, x
    <3> QED BY <3>1, <3>2, <2>1, ReaderNumbers, MaxUintIsNat
  <2> QED BY <1>14, <2>1, <2>2, MaxUintIsNat
<1>15. MaxUint \in T
  <2> HIDE DEF T
  <2> QED BY <1>13, <1>14, UpwardInduction, MaxUintIsNat
<1>16. \A n \in 0 .. MaxUint : n >= Continue => n \div Continue \in 0 .. MaxUint
  BY <1>1, MaxUintIsNat
<1> QED BY <1>11, <1>15, <1>16

LEMMA CellsAreNat ==
  \A f \in Seq(Cells) : /\ Len(f) \in Nat
                        /\ \A i \in 1 .. Len(f) : f[i] \in Nat /\ f[i] \in Cells
<1>1. \A c \in Cells : c \in Nat
  BY ReaderNumbers DEF Cells
<1> QED BY <1>1

\* What Uvarint reads, it reads from the cells from p on.
LEMMA UvarintBounds ==
  ASSUME NEW f \in Seq(Cells), NEW p \in Nat \ {0}, Uvarint(f, p).err = "none"
  PROVE  Uvarint(f, p).val \in Nat /\ Uvarint(f, p).pos \in p + 1 .. Len(f) + 1
<1>1. PICK g : /\ Uvarint(f, p) = g[0]
               /\ \A i \in 0 .. MaxGroups : g[i] = Turn(f, p, i, g[i + 1])
  BY UvarintLoops
<1> DEFINE Right(r, i) == r.err = "none" => r.val \in Nat /\ r.pos \in p + i + 1 .. Len(f) + 1
           T == {i \in 0 .. MaxGroups : Right(g[i], i)}
<1>2. MaxGroups \in T
  <2>1. MaxGroups \in 0 .. MaxGroups /\ g[MaxGroups] = Turn(f, p, MaxGroups, g[MaxGroups + 1])
    BY <1>1, ReaderNumbers
  <2>2. g[MaxGroups].err # "none"
    BY <2>1 DEF Turn, Broken
  <2> QED BY <2>1, <2>2
<1>3. ASSUME NEW i \in 0 .. MaxGroups - 1, i + 1 \in T PROVE i \in T
  <2>1. g[i] = Turn(f, p, i, g[i + 1]) /\ i # MaxGroups
    BY <1>1, ReaderNumbers
  <2>2. Right(g[i + 1], i + 1)
    BY <1>3
  <2> DEFINE rest == g[i + 1]
  <2> HIDE DEF rest
  <2>3. i \in Nat /\ Len(f) \in Nat
    BY ReaderNumbers, CellsAreNat
  <2>4. CASE p + i > Len(f)
    <3>1. g[i].err # "none"
      BY <2>1, <2>4 DEF Turn, Broken
    <3> QED BY <3>1, ReaderNumbers
  <2>5. CASE p + i <= Len(f) /\ f[p + i] >= Continue
    <3>1. g[i] = Shifted(f[p + i] - Continue, rest)
      BY <2>1, <2>5, <2>3 DEF Turn, rest
    <3>2. CASE rest.err # "none"
      <4>1. g[i].err # "none"
        BY <3>1, <3>2 DEF Shifted
      <4> QED BY <4>1, ReaderNumbers
    <3>3. CASE rest.err = "none"
      <4>1. rest.val \in Nat /\ rest.pos \in p + i + 2 .. Len(f) + 1
        BY <2>2, <3>3, <2>3 DEF rest
      <4>2. f[p + i] - Continue \in Nat
        BY <2>5, <2>3, CellsAreNat, ReaderNumbers
      <4>3. g[i].val = f[p + i] - Continue + Continue * rest.val /\ g[i].pos = rest.pos
        BY <3>1, <3>3 DEF Shifted, Got
      <4>4. Continue * rest.val \in Nat
        BY <4>1, ReaderNumbers
      <4>5. g[i].val \in Nat
        BY <4>2, <4>3, <4>4
      <4>6. g[i].pos \in p + i + 1 .. Len(f) + 1
        BY <4>1, <4>3, <2>3
      <4> QED BY <4>5, <4>6, ReaderNumbers
    <3> QED BY <3>2, <3>3, ReaderNumbers
  <2>6. CASE p + i <= Len(f) /\ ~ (f[p + i] >= Continue)
    <3>1. g[i] = Got(f[p + i], p + i + 1) \/ g[i] = Broken("overflow")
      BY <2>1, <2>6, <2>3 DEF Turn
    <3>2. f[p + i] \in Nat
      BY <2>6, <2>3, CellsAreNat
    <3> QED BY <3>1, <3>2, <2>3, <2>6, ReaderNumbers DEF Got, Broken
  <2> QED BY <2>3, <2>4, <2>5, <2>6
<1>4. 0 \in T
  <2> HIDE DEF T
  <2> QED BY <1>2, <1>3, DownwardInduction, ReaderNumbers
<1> QED BY <1>1, <1>4

\* A file, which may end early, agrees with some cells from p on.
Agrees(f, p, w) == \A j \in 1 .. Len(w) : p + j - 1 <= Len(f) => f[p + j - 1] = w[j]

\* An integer that was written is read back, unless the file ends in it.
LEMMA UvarintReads ==
  ASSUME NEW f \in Seq(Cells), NEW p \in Nat \ {0}, NEW n \in 0 .. MaxUint,
         Agrees(f, p, EncodeUint(n))
  PROVE  /\ p + Len(EncodeUint(n)) - 1 <= Len(f) => Uvarint(f, p) = Got(n, p + Len(EncodeUint(n)))
         /\ p + Len(EncodeUint(n)) - 1 > Len(f) => Uvarint(f, p).err # "none"
<1>1. PICK g : /\ Uvarint(f, p) = g[0]
               /\ \A i \in 0 .. MaxGroups : g[i] = Turn(f, p, i, g[i + 1])
  BY UvarintLoops
<1> DEFINE Right(i, m) ==
             Agrees(f, p + i, EncodeUint(m)) =>
               /\ p + i + Len(EncodeUint(m)) - 1 <= Len(f)
                    => g[i] = Got(m, p + i + Len(EncodeUint(m)))
               /\ p + i + Len(EncodeUint(m)) - 1 > Len(f) => g[i].err # "none"
           Fits(m, k) == m <= MaxUint /\ m < Capacity[k]
           T == {k \in Nat : k < MaxGroups => \A m \in Nat : Fits(m, k + 1) => Right(MaxGroups - (k + 1), m)}
<1>2. Len(f) \in Nat
  BY CellsAreNat
\* An integer of one group.
<1>3. ASSUME NEW i \in 0 .. MaxGroups - 1, NEW m \in Nat, m <= MaxUint, m < Continue,
             FitsLastGroup(i, m), Agrees(f, p + i, EncodeUint(m))
      PROVE  Right(i, m)
  <2>1. EncodeUint(m) = <<m>>
    <3>1. m \in 0 .. MaxUint /\ m < Continue
      BY <1>3, MaxUintIsNat
    <3> QED BY ONLY <3>1, EncodedInteger, Zenon
  <2>2. Len(EncodeUint(m)) = 1 /\ (p + i <= Len(f) => f[p + i] = m)
    BY <1>3, <2>1, ReaderNumbers DEF Agrees
  <2>3. g[i] = Turn(f, p, i, g[i + 1]) /\ i # MaxGroups /\ i \in Nat
    BY <1>1, ReaderNumbers
  <2>4. CASE p + i <= Len(f)
    <3>1. g[i] = Got(m, p + i + 1)
      BY <2>2, <2>3, <2>4, <1>2, <1>3, ReaderNumbers DEF Turn
    <3> QED BY <3>1, <2>2, <2>3, <2>4, <1>2
  <2>5. CASE p + i > Len(f)
    <3>1. g[i].err # "none"
      BY <2>3, <2>5 DEF Turn, Broken
    <3> QED BY <3>1, <2>2, <2>3, <2>5, <1>2
  <2> QED BY <2>4, <2>5, <2>3, <1>2
<1>4. 0 \in T
  <2> SUFFICES ASSUME NEW m \in Nat, Fits(m, 1), Agrees(f, p + (MaxGroups - 1), EncodeUint(m))
               PROVE  Right(MaxGroups - 1, m)
    BY ReaderNumbers
  <2>1. m < LastGroup /\ m < Continue /\ m <= MaxUint
    BY Capacities, ReaderNumbers, MaxUintIsNat
  <2>2. FitsLastGroup(MaxGroups - 1, m)
    BY <2>1 DEF FitsLastGroup
  <2>3. MaxGroups - 1 \in 0 .. MaxGroups - 1
    BY ReaderNumbers
  <2> HIDE DEF Right
  <2> QED BY <1>3, <2>1, <2>2, <2>3
<1>5. ASSUME NEW k \in Nat, k \in T PROVE k + 1 \in T
  <2>0. k + 1 + 1 = k + 2 /\ k + 1 \in Nat
    OBVIOUS
  <2> SUFFICES ASSUME k + 1 < MaxGroups, NEW m \in Nat, Fits(m, k + 2)
               PROVE  Right(MaxGroups - (k + 2), m)
    <3> HIDE DEF Fits, Right
    <3> QED BY <2>0
  <2> SUFFICES ASSUME Agrees(f, p + (MaxGroups - (k + 2)), EncodeUint(m))
               PROVE  Right(MaxGroups - (k + 2), m)
    OBVIOUS
  <2> DEFINE i == MaxGroups - (k + 2)
  <2>1. i \in 0 .. MaxGroups - 2 /\ i + 1 = MaxGroups - (k + 1) /\ i \in Nat
    BY ReaderNumbers
  <2> HIDE DEF i
  <2>2. Agrees(f, p + i, EncodeUint(m))
    BY DEF i
  <2>3. CASE m < Continue
    <3>1. FitsLastGroup(i, m)
      BY <2>1, ReaderNumbers DEF FitsLastGroup
    <3>2. i \in 0 .. MaxGroups - 1 /\ m <= MaxUint
      BY <2>1, ReaderNumbers
    <3>3. Right(i, m)
      <4> HIDE DEF Right
      <4> QED BY <1>3, <2>2, <2>3, <3>1, <3>2
    <3> QED BY <3>3 DEF i
  <2>4. CASE m >= Continue
    <3> DEFINE d == m \div Continue
               r == m % Continue
               e == EncodeUint(d)
    <3>1. r \in 0 .. Continue - 1 /\ d \in Nat /\ d < m /\ m = r + Continue * d
      BY LowGroup, <2>4
    <3>2. EncodeUint(m) = <<Continue + r>> \o e /\ e \in Seq(Cells) /\ Len(e) > 0 /\ d \in 0 .. MaxUint
      <4>1. m \in 0 .. MaxUint
        BY MaxUintIsNat
      <4>2. EncodeUint(m) = <<Continue + r>> \o e /\ d \in 0 .. MaxUint
        BY <4>1, <2>4, EncodedInteger
      <4> HIDE DEF d
      <4>3. e \in Seq(Cells) /\ Len(e) > 0
        BY <4>2, EncodedInteger
      <4> QED BY <4>2, <4>3
    <3>3. Capacity[k + 2] = Continue * Capacity[k + 1] /\ Capacity[k + 1] \in Nat
      <4>1. k + 2 \in 2 .. MaxGroups /\ k + 2 - 1 = k + 1 /\ k + 1 \in 1 .. MaxGroups
        BY ReaderNumbers
      <4> QED BY <4>1, Capacities
    <3> HIDE DEF d, r
    <3>4. d < Capacity[k + 1]
      <4> DEFINE c == Capacity[k + 1]
      <4>1. m < Continue * c /\ c \in Nat
        BY <3>3
      <4> HIDE DEF c
      <4>2. d >= c => Continue * d >= Continue * c
        BY <4>1, <3>1, ReaderNumbers
      <4>3. Continue * d \in Nat /\ Continue * c \in Nat
        BY <4>1, <3>1, ReaderNumbers
      <4> QED BY <4>1, <4>2, <4>3, <3>1 DEF c
    <3>5. Right(i + 1, d)
      <4>1. Fits(d, k + 1) /\ k < MaxGroups
        BY <3>2, <3>4, ReaderNumbers, MaxUintIsNat
      <4> HIDE DEF Right, Fits
      <4> QED BY <1>5, <4>1, <3>1, <2>1
    <3> HIDE DEF e
    <3>6. /\ Len(EncodeUint(m)) = Len(e) + 1 /\ Len(e) \in Nat
          /\ EncodeUint(m)[1] = Continue + r
          /\ \A j \in 1 .. Len(e) : EncodeUint(m)[j + 1] = e[j]
      <4> DEFINE x == Continue + r
                 w == EncodeUint(m)
      <4>1. w = <<x>> \o e
        BY <3>2
      <4> HIDE DEF x, w
      <4>2. Len(w) = Len(e) + 1 /\ Len(e) \in Nat /\ w[1] = x /\ \A j \in 1 .. Len(e) : w[j + 1] = e[j]
        BY <4>1, <3>2
      <4> QED BY <4>2 DEF x, w
    <3>7. Agrees(f, p + i + 1, e)
      <4> SUFFICES ASSUME NEW j \in 1 .. Len(e), p + i + 1 + j - 1 <= Len(f)
                   PROVE  f[p + i + 1 + j - 1] = e[j]
        BY DEF Agrees
      <4>1. j + 1 \in 1 .. Len(EncodeUint(m)) /\ p + i + (j + 1) - 1 = p + i + 1 + j - 1
        BY <3>6, <2>1
      <4>2. f[p + i + (j + 1) - 1] = EncodeUint(m)[j + 1]
        BY <2>2, <4>1 DEF Agrees
      <4> QED BY <4>1, <4>2, <3>6
    <3>8. g[i] = Turn(f, p, i, g[i + 1]) /\ i # MaxGroups
      BY <1>1, <2>1, ReaderNumbers
    <3> DEFINE l == Len(e)
               rest == g[i + 1]
    <3>9. l \in Nat /\ l > 0 /\ Len(EncodeUint(m)) = l + 1
      BY <3>2, <3>6
    <3>10. /\ p + i + 1 + l - 1 <= Len(f) => rest = Got(d, p + i + 1 + l)
           /\ p + i + 1 + l - 1 > Len(f) => rest.err # "none"
      <4>1. p + (i + 1) = p + i + 1
        BY <2>1
      <4> QED BY <3>5, <3>7, <4>1 DEF e
    <3> HIDE DEF l, rest
    <3>11. CASE p + i > Len(f)
      <4>1. g[i].err # "none"
        BY <3>8, <3>11 DEF Turn, Broken
      <4>2. p + i + (l + 1) - 1 > Len(f)
        BY <3>11, <3>9, <2>1, <1>2
      <4>3. ~ (p + i + (l + 1) - 1 <= Len(f))
        BY <4>2, <3>9, <2>1, <1>2
      <4>4. Right(i, m)
        BY <4>1, <4>3, <3>9
      <4> QED BY <4>4 DEF i
    <3>12. CASE p + i <= Len(f)
      <4>1. f[p + i] = Continue + r
        <5>1. 1 \in 1 .. Len(EncodeUint(m)) /\ p + i + 1 - 1 = p + i
          BY <3>9, <2>1
        <5> QED BY <5>1, <2>2, <3>6, <3>12 DEF Agrees
      <4>2. g[i] = Shifted(r, rest)
        <5>1. f[p + i] >= Continue /\ f[p + i] - Continue = r /\ ~ (p + i > Len(f))
          BY <4>1, <3>1, <3>12, <2>1, <1>2, ReaderNumbers
        <5> QED BY <5>1, <3>8 DEF Turn, rest
      <4>3. p + i + (l + 1) - 1 <= Len(f) => g[i] = Got(m, p + i + (l + 1))
        <5> SUFFICES ASSUME p + i + (l + 1) - 1 <= Len(f) PROVE g[i] = Got(m, p + i + (l + 1))
          OBVIOUS
        <5>1. p + i + 1 + l - 1 <= Len(f) /\ p + i + 1 + l = p + i + (l + 1)
          BY <3>9, <2>1, <1>2
        <5>2. rest = Got(d, p + i + (l + 1))
          BY <5>1, <3>10
        <5>3. g[i] = Got(r + Continue * d, p + i + (l + 1))
          BY <4>2, <5>2 DEF Shifted, Got
        <5> QED BY <5>3, <3>1
      <4>4. p + i + (l + 1) - 1 > Len(f) => g[i].err # "none"
        <5> SUFFICES ASSUME p + i + (l + 1) - 1 > Len(f) PROVE g[i].err # "none"
          OBVIOUS
        <5>1. p + i + 1 + l - 1 > Len(f)
          BY <3>9, <2>1, <1>2
        <5> QED BY <5>1, <3>10, <4>2 DEF Shifted
      <4>5. Right(i, m)
        BY <4>3, <4>4, <3>9
      <4> QED BY <4>5 DEF i
    <3> QED BY <3>11, <3>12, <2>1, <1>2
  <2> QED BY <2>3, <2>4, ReaderNumbers
<1>6. MaxGroups - 1 \in T
  <2> HIDE DEF T
  <2> QED BY <1>4, <1>5, SetInduction, ReaderNumbers
<1>7. Right(0, n)
  <2>1. Fits(n, MaxGroups)
    BY MaxUintIsNat, Capacities, ReaderNumbers
  <2>2. MaxGroups - 1 + 1 = MaxGroups /\ MaxGroups - MaxGroups = 0 /\ MaxGroups - 1 < MaxGroups
    BY ReaderNumbers
  <2> HIDE DEF Right, Fits
  <2> QED BY <1>6, <2>1, <2>2, MaxUintIsNat
<1>8. p + 0 = p
  OBVIOUS
<1> QED BY <1>1, <1>7, <1>8
-----------------------------------------------------------------------------
(* Flattened sequences                                                      *)

\* The first i of some sequences, one after the other.
Upto(s, i) == FlattenSeq(SubSeq(s, 1, i))

IsFlat(g, s) == g = [i \in 1 .. Len(s) |-> IF i = 1 THEN s[i] ELSE g[i - 1] \o s[i]]

\* g holds the first k steps of flattening s.
Flattens(g, s, k) == g[1] = s[1] /\ \A i \in 2 .. k : g[i] = g[i - 1] \o s[i]

LEMMA FlatExists ==
  ASSUME NEW X, NEW s \in Seq(Seq(X)), Len(s) > 0
  PROVE  \E g : /\ FlattenSeq(s) = g[Len(s)]
                /\ g[1] = s[1]
                /\ \A i \in 2 .. Len(s) : g[i] = g[i - 1] \o s[i]
<1> DEFINE n == Len(s)
           body(g, i) == IF i = 1 THEN s[i] ELSE g[i - 1] \o s[i]
           Fits(g, k) == \A i \in 1 .. k : g[i] = body(g, i)
           S == {k \in 0 .. n : \E g : Fits(g, k)}
<1>0. n \in Nat /\ n > 0
  OBVIOUS
<1> HIDE DEF n
<1>1. 0 \in S
  BY <1>0
<1>2. ASSUME NEW k \in 0 .. n - 1, k \in S PROVE k + 1 \in S
  <2>1. PICK g : Fits(g, k)
    BY <1>2
  <2> DEFINE h == [i \in 1 .. n |-> IF i = k + 1 THEN body(g, i) ELSE g[i]]
  <2>2. ASSUME NEW i \in 1 .. k + 1 PROVE h[i] = body(h, i)
    <3>1. h[i] = body(g, i)
      <4>1. i \in 1 .. n
        BY <1>0
      <4>2. CASE i = k + 1
        BY <4>1, <4>2
      <4>3. CASE i # k + 1
        <5>1. i \in 1 .. k
          BY <4>3
        <5> HIDE DEF body
        <5> QED BY <5>1, <4>1, <4>3, <2>1
      <4> QED BY <4>2, <4>3
    <3>2. i # 1 => h[i - 1] = g[i - 1]
      BY <1>0
    <3> HIDE DEF h
    <3> QED BY <3>1, <3>2
  <2> QED
    <3> HIDE DEF h, body
    <3> QED BY <2>2, <1>0
<1>3. n \in S
  <2>1. 0 .. n \subseteq S
    <3> HIDE DEF S
    <3> QED BY <1>0, <1>1, <1>2, UpwardInduction
  <2>2. n \in 0 .. n
    BY <1>0
  <2> HIDE DEF S
  <2> QED BY <2>1, <2>2, Zenon
<1>4. PICK g : Fits(g, n)
  BY <1>3
<1> DEFINE h == [i \in 1 .. n |-> g[i]]
<1>5. ASSUME NEW i \in 1 .. n PROVE h[i] = body(h, i)
  <2>1. h[i] = body(g, i)
    <3> HIDE DEF body
    <3> QED BY <1>4
  <2>2. i # 1 => h[i - 1] = g[i - 1]
    BY <1>0
  <2> HIDE DEF h
  <2> QED BY <2>1, <2>2
<1>6. h = [i \in 1 .. n |-> body(h, i)]
  <2>1. h = [i \in 1 .. n |-> h[i]]
    OBVIOUS
  <2> HIDE DEF h, body
  <2> QED BY <1>5, <2>1
<1> DEFINE c == CHOOSE c : IsFlat(c, s)
<1>7. IsFlat(c, s)
  <2>1. IsFlat(h, s)
    BY <1>6 DEF IsFlat, n
  <2> HIDE DEF h
  <2> QED BY <2>1
<1>8. FlattenSeq(s) = c[Len(s)]
  BY <1>0 DEF FlattenSeq, IsFlat, n
<1> HIDE DEF c, body
<1>9. \A i \in 1 .. n : c[i] = IF i = 1 THEN s[i] ELSE c[i - 1] \o s[i]
  BY <1>7 DEF IsFlat, n
<1>10. c[1] = s[1]
  BY <1>9, <1>0
<1>11. \A i \in 2 .. n : c[i] = c[i - 1] \o s[i]
  <2>1. \A i \in 2 .. n : i \in 1 .. n /\ i # 1
    BY <1>0
  <2> QED BY <2>1, <1>9, Zenon
<1>12. FlattenSeq(s) = c[n]
  BY <1>8 DEF n
<1>13. \E u : FlattenSeq(s) = u[n] /\ u[1] = s[1] /\ \A i \in 2 .. n : u[i] = u[i - 1] \o s[i]
  BY <1>10, <1>11, <1>12, Zenon
<1> QED BY <1>13, Zenon DEF n

LEMMA UptoSteps ==
  ASSUME NEW X, NEW s \in Seq(Seq(X))
  PROVE  /\ Upto(s, 0) = <<>>
         /\ \A i \in 1 .. Len(s) : Upto(s, i) = Upto(s, i - 1) \o s[i]
         /\ \A i \in 0 .. Len(s) : Upto(s, i) \in Seq(X)
         /\ Upto(s, Len(s)) = FlattenSeq(s)
<1> DEFINE n == Len(s)
<1>0. n \in Nat /\ \A i \in 1 .. n : s[i] \in Seq(X)
  OBVIOUS
<1> HIDE DEF n
<1>1. Upto(s, 0) = <<>>
  <2>1. SubSeq(s, 1, 0) = <<>>
    OBVIOUS
  <2> QED BY <2>1 DEF Upto, FlattenSeq
<1>2. SubSeq(s, 1, Len(s)) = s
  OBVIOUS
<1>3. Upto(s, n) = FlattenSeq(s)
  BY <1>2 DEF Upto, n
\* The prefixes' own recursions agree.
<1>4. ASSUME NEW i \in 1 .. n, NEW k \in 1 .. n, i <= k,
             NEW g, Flattens(g, s, i), NEW h, Flattens(h, s, k)
      PROVE  g[i] = h[i]
  <2>0. /\ g[1] = s[1] /\ \A j \in 2 .. i : g[j] = g[j - 1] \o s[j]
        /\ h[1] = s[1] /\ \A j \in 2 .. k : h[j] = h[j - 1] \o s[j]
    BY <1>4, Zenon DEF Flattens
  <2> DEFINE S == {j \in 0 .. i : j # 0 => g[j] = h[j]}
  <2>1. 0 \in S
    BY <1>0
  <2>2. ASSUME NEW j \in 0 .. i - 1, j \in S PROVE j + 1 \in S
    <3>1. CASE j = 0
      BY <3>1, <2>0, <1>0
    <3>2. CASE j # 0
      <4>1. j + 1 \in 2 .. i /\ j + 1 \in 2 .. k
        BY <3>2, <1>4, <1>0
      <4>5. (j + 1) - 1 = j
        BY <1>0
      <4>2. g[j + 1] = g[(j + 1) - 1] \o s[j + 1] /\ h[j + 1] = h[(j + 1) - 1] \o s[j + 1]
        <5> DEFINE l == j + 1
        <5>1. l \in 2 .. i /\ l \in 2 .. k
          BY <4>1
        <5> HIDE DEF l
        <5>2. g[l] = g[l - 1] \o s[l] /\ h[l] = h[l - 1] \o s[l]
          BY <5>1, <2>0, Zenon
        <5> QED BY <5>2, Zenon DEF l
      <4>3. g[j] = h[j]
        BY <2>2, <3>2
      <4>4. g[j + 1] = h[j + 1]
        BY <4>5, <4>2, <4>3, Zenon
      <4> QED BY <4>1, <4>4, <1>0
    <3> QED BY <3>1, <3>2
  <2>3. 0 .. i \subseteq S
    <3>1. i \in Nat
      BY <1>0
    <3> HIDE DEF S
    <3> QED BY <2>1, <2>2, <3>1, UpwardInduction
  <2>4. i \in S /\ i # 0
    BY <2>3, <1>0
  <2> QED BY <2>4
<1>5. ASSUME NEW i \in 1 .. n
      PROVE  \E g : /\ Upto(s, i) = g[i] /\ g[1] = s[1]
                    /\ \A j \in 2 .. i : g[j] = g[j - 1] \o s[j]
  <2> DEFINE t == SubSeq(s, 1, i)
  <2>1. t \in Seq(Seq(X)) /\ Len(t) = i /\ \A j \in 1 .. i : t[j] = s[j]
    BY <1>0 DEF n
  <2> HIDE DEF t
  <2>2. i > 0 /\ i \in Nat
    BY <1>0
  <2>3. PICK g : FlattenSeq(t) = g[i] /\ g[1] = t[1] /\ \A j \in 2 .. i : g[j] = g[j - 1] \o t[j]
    <3>1. Len(t) > 0
      BY <2>1, <2>2
    <3>2. \E g : /\ FlattenSeq(t) = g[Len(t)] /\ g[1] = t[1]
                /\ \A j \in 2 .. Len(t) : g[j] = g[j - 1] \o t[j]
      BY <2>1, <3>1, FlatExists, Zenon
    <3> QED BY <2>1, <3>2, Zenon
  <2>4. g[1] = s[1] /\ \A j \in 2 .. i : g[j] = g[j - 1] \o s[j]
    <3>1. 1 \in 1 .. i /\ \A j \in 2 .. i : j \in 1 .. i
      BY <2>2
    <3> QED BY <2>1, <2>3, <3>1, Zenon
  <2>5. Upto(s, i) = g[i]
    BY <2>3 DEF Upto, t
  <2> QED BY <2>4, <2>5
<1>6. ASSUME NEW i \in 1 .. n PROVE Upto(s, i) = Upto(s, i - 1) \o s[i]
  <2>1. PICK h : /\ Upto(s, i) = h[i] /\ h[1] = s[1]
                 /\ \A j \in 2 .. i : h[j] = h[j - 1] \o s[j]
    BY <1>5
  <2>2. CASE i = 1
    <3>1. Upto(s, i) = s[i] /\ s[i] \in Seq(X) /\ Upto(s, i - 1) = <<>>
      BY <2>1, <2>2, <1>0, <1>1
    <3> DEFINE a == s[i]
               u == Upto(s, i)
               v == Upto(s, i - 1)
    <3>2. u = a /\ a \in Seq(X) /\ v = <<>>
      BY <3>1
    <3> HIDE DEF a, u, v
    <3>3. u = v \o a
      BY <3>2
    <3> QED BY <3>3 DEF a, u, v
  <2>3. CASE i # 1
    <3>1. i - 1 \in 1 .. n /\ i - 1 <= i /\ i \in 2 .. i
      BY <2>3, <1>0
    <3>2. PICK g : /\ Upto(s, i - 1) = g[i - 1] /\ g[1] = s[1]
                   /\ \A j \in 2 .. i - 1 : g[j] = g[j - 1] \o s[j]
      BY <3>1, <1>5
    <3>3. g[i - 1] = h[i - 1]
      <4>1. i \in 1 .. n
        OBVIOUS
      <4>2. /\ g[1] = s[1] /\ h[1] = s[1]
            /\ \A j \in 2 .. i - 1 : g[j] = g[j - 1] \o s[j]
            /\ \A j \in 2 .. i : h[j] = h[j - 1] \o s[j]
        BY <3>2, <2>1, Zenon
      <4>5. Flattens(h, s, i)
        BY <4>2, Zenon DEF Flattens
      <4> DEFINE l == i - 1
      <4>3. l \in 1 .. n /\ l <= i /\ Flattens(g, s, l)
        BY <3>1, <4>2, Zenon DEF Flattens
      <4> HIDE DEF l
      <4>4. g[l] = h[l]
        BY <4>1, <4>3, <4>5, <1>4, Zenon
      <4> QED BY <4>4, Zenon DEF l
    <3>4. h[i] = h[i - 1] \o s[i]
      BY <3>1, <2>1
    <3> QED BY <3>2, <3>3, <3>4, <2>1
  <2> QED BY <2>2, <2>3
<1>7. \A i \in 0 .. n : Upto(s, i) \in Seq(X)
  <2> DEFINE S == {i \in 0 .. n : Upto(s, i) \in Seq(X)}
  <2>1. 0 \in S
    <3>1. <<>> \in Seq(X) /\ 0 \in 0 .. n
      BY <1>0
    <3> QED BY <3>1, <1>1, Zenon
  <2>2. ASSUME NEW i \in 0 .. n - 1, i \in S PROVE i + 1 \in S
    <3>1. i + 1 \in 1 .. n
      BY <1>0
    <3>4. (i + 1) - 1 = i
      BY <1>0
    <3> DEFINE u == Upto(s, i)
               v == Upto(s, i + 1)
               a == s[i + 1]
    <3>2. v = u \o a /\ u \in Seq(X) /\ a \in Seq(X)
      <4>1. v = Upto(s, (i + 1) - 1) \o a
        <5> DEFINE l == i + 1
        <5>1. l \in 1 .. n
          BY <3>1
        <5> HIDE DEF l
        <5>2. Upto(s, l) = Upto(s, l - 1) \o s[l]
          BY <5>1, <1>6, Zenon
        <5> QED BY <5>2, Zenon DEF l
      <4>2. v = u \o a
        BY <4>1, <3>4, Zenon
      <4>3. a \in Seq(X)
        BY <3>1, <1>0, Zenon
      <4> QED BY <4>2, <4>3, <2>2, Zenon
    <3> HIDE DEF u, v, a
    <3>3. v \in Seq(X)
      BY <3>2
    <3> QED BY <3>1, <3>3, <1>0 DEF v
  <2>3. 0 .. n \subseteq S
    <3> HIDE DEF S
    <3> QED BY <2>1, <2>2, UpwardInduction, <1>0
  <2> QED BY <2>3
<1> QED BY <1>1, <1>3, <1>6, <1>7, Zenon DEF n

\* A longer prefix begins with a shorter one.
LEMMA UptoExtends ==
  ASSUME NEW X, NEW s \in Seq(Seq(X)), NEW i \in 0 .. Len(s), NEW k \in 0 .. Len(s), i <= k
  PROVE  /\ Len(Upto(s, i)) <= Len(Upto(s, k))
         /\ \A j \in 1 .. Len(Upto(s, i)) : Upto(s, k)[j] = Upto(s, i)[j]
<1> DEFINE u == Upto(s, i)
           n == Len(s)
           Ext(m) == LET v == Upto(s, m) IN Len(u) <= Len(v) /\ \A j \in 1 .. Len(u) : v[j] = u[j]
           S == {m \in 0 .. n : i <= m => Ext(m)}
<1>0. n \in Nat /\ u \in Seq(X) /\ i \in Nat
  <2>1. u \in Seq(X)
    BY UptoSteps, Zenon
  <2> QED BY <2>1
<1>1. 0 \in S
  BY <1>0
<1>2. ASSUME NEW m \in 0 .. n - 1, m \in S PROVE m + 1 \in S
  <2> DEFINE v == Upto(s, m)
             w == Upto(s, m + 1)
             a == s[m + 1]
  <2>1. m + 1 \in 1 .. n /\ m + 1 - 1 = m
    BY <1>0
  <2>2. w = v \o a /\ v \in Seq(X) /\ a \in Seq(X)
    <3>1. a \in Seq(X)
      BY <2>1
    <3>2. m \in 0 .. n
      BY <1>0
    <3> DEFINE l == m + 1
    <3>3. l \in 1 .. Len(s)
      BY <2>1
    <3>4. l - 1 = m
      BY <2>1
    <3> HIDE DEF l
    <3>5. Upto(s, l) = Upto(s, l - 1) \o s[l] /\ v \in Seq(X)
      BY <3>2, <3>3, UptoSteps, Zenon
    <3>6. w = v \o a
      BY <3>4, <3>5, Zenon DEF l
    <3> QED BY <3>1, <3>5, <3>6, Zenon
  <2>3. CASE m + 1 = i
    BY <2>1, <2>3, <1>0
  <2>4. CASE m + 1 # i
    <3>1. i <= m + 1 => Len(u) <= Len(v) /\ \A j \in 1 .. Len(u) : v[j] = u[j]
      BY <2>4, <1>2, <1>0
    <3> HIDE DEF u, v, w, a
    <3>2. i <= m + 1 => Len(u) <= Len(w) /\ \A j \in 1 .. Len(u) : w[j] = u[j]
      BY <3>1, <2>2, <1>0
    <3> QED BY <3>2, <2>1, <1>0 DEF u, w
  <2> QED BY <2>3, <2>4
<1>3. 0 .. n \subseteq S
  <2> HIDE DEF S
  <2> QED BY <1>0, <1>1, <1>2, UpwardInduction
<1> QED BY <1>3

\* What agrees with the whole agrees with each part at its place.
LEMMA PartsAgree ==
  ASSUME NEW f, NEW p \in Nat, NEW X, NEW s \in Seq(Seq(X)), Agrees(f, p, FlattenSeq(s)),
         NEW i \in 1 .. Len(s)
  PROVE  Agrees(f, p + Len(Upto(s, i - 1)), s[i])
<1> DEFINE u == Upto(s, i - 1)
           v == Upto(s, i)
           w == FlattenSeq(s)
           a == s[i]
<1>0. i - 1 \in 0 .. Len(s) /\ i \in 0 .. Len(s) /\ Len(s) \in 0 .. Len(s) /\ i <= Len(s)
  OBVIOUS
<1>1. v = u \o a /\ u \in Seq(X) /\ a \in Seq(X)
  <2>1. a \in Seq(X)
    OBVIOUS
  <2> QED BY <1>0, <2>1, UptoSteps, Zenon
<1>2. Len(v) <= Len(w) /\ (\A j \in 1 .. Len(v) : w[j] = v[j]) /\ w \in Seq(X)
  <2>1. w = Upto(s, Len(s))
    BY UptoSteps, Zenon
  <2>2. w \in Seq(X)
    BY <2>1, <1>0, UptoSteps, Zenon
  <2>3. Len(v) <= Len(Upto(s, Len(s))) /\ \A j \in 1 .. Len(v) : Upto(s, Len(s))[j] = v[j]
    BY <1>0, UptoExtends, Zenon
  <2> QED BY <2>1, <2>2, <2>3, Zenon
<1>3. Agrees(f, p, w)
  OBVIOUS
<1> HIDE DEF u, v, w, a
<1>4. \A j \in 1 .. Len(a) : Len(u) + j \in 1 .. Len(w) /\ w[Len(u) + j] = a[j]
  <2> TAKE j \in 1 .. Len(a)
  <2>1. Len(u) + j \in 1 .. Len(v) /\ v[Len(u) + j] = a[j]
    BY <1>1
  <2> QED BY <2>1, <1>1, <1>2
<1>5. Agrees(f, p + Len(u), a)
  <2> SUFFICES ASSUME NEW j \in 1 .. Len(a), p + Len(u) + j - 1 <= Len(f)
               PROVE  f[p + Len(u) + j - 1] = a[j]
    BY DEF Agrees
  <2>1. p + (Len(u) + j) - 1 = p + Len(u) + j - 1
    BY <1>1
  <2>2. Len(u) + j \in 1 .. Len(w) /\ w[Len(u) + j] = a[j]
    BY <1>4
  <2>3. f[p + (Len(u) + j) - 1] = w[Len(u) + j]
    BY <1>3, <2>1, <2>2 DEF Agrees
  <2> QED BY <2>1, <2>2, <2>3
<1> QED BY <1>5 DEF u, a
-----------------------------------------------------------------------------
(* What one read returns                                                    *)

ShapeNames == {"uint", "bool", "string", "bytes", "fields"}

\* A value read from f is the one written, and in its range; a memory range is
\* held with its place.
Matches(f, shape, got, val) ==
  /\ PartIsSound(shape, val)
  /\ IF shape = "bytes"
     THEN /\ got.cells = val
          /\ got.off \in Nat \ {0} /\ got.off + Len(val) - 1 <= Len(f)
          /\ got.cells = SubSeq(f, got.off, got.off + Len(val) - 1)
     ELSE got = val

\* r is what reading val at p gives: the value, or an error when the file
\* ends first, or when the value is out of its range.
Reads(f, p, shape, val, r) ==
  LET end == p + Len(EncodeOne(shape, val))
  IN /\ r.err = "none" => r.pos = end /\ end <= Len(f) + 1 /\ Matches(f, shape, r.val, val)
     /\ end <= Len(f) + 1 /\ PartIsSound(shape, val) => r.err = "none"

LEMMA AgreesSplit ==
  ASSUME NEW f, NEW p \in Nat, NEW X, NEW a \in Seq(X), NEW b \in Seq(X), Agrees(f, p, a \o b)
  PROVE  Agrees(f, p, a) /\ Agrees(f, p + Len(a), b)
<1> DEFINE w == a \o b
<1>1. /\ w \in Seq(X) /\ Len(w) = Len(a) + Len(b) /\ Len(a) \in Nat /\ Len(b) \in Nat
      /\ \A j \in 1 .. Len(a) : w[j] = a[j]
      /\ \A j \in 1 .. Len(b) : w[Len(a) + j] = b[j]
  OBVIOUS
<1>2. Agrees(f, p, w)
  OBVIOUS
<1> HIDE DEF w
<1>3. Agrees(f, p, a)
  BY <1>1, <1>2 DEF Agrees
<1>4. Agrees(f, p + Len(a), b)
  <2> SUFFICES ASSUME NEW j \in 1 .. Len(b), p + Len(a) + j - 1 <= Len(f)
               PROVE  f[p + Len(a) + j - 1] = b[j]
    BY DEF Agrees
  <2>1. p + (Len(a) + j) - 1 = p + Len(a) + j - 1 /\ Len(a) + j \in 1 .. Len(w)
    BY <1>1
  <2>2. f[p + (Len(a) + j) - 1] = w[Len(a) + j]
    BY <1>2, <2>1 DEF Agrees
  <2> QED BY <2>1, <2>2, <1>1
<1> QED BY <1>3, <1>4

LEMMA EncodedOne ==
  ASSUME NEW shape \in ShapeNames, NEW val, Encodable(shape, val)
  PROVE  EncodeOne(shape, val) \in Seq(Cells)
<1>1. CASE shape \in {"uint", "bool"}
  <2>1. EncodeOne(shape, val) = EncodeUint(val)
    BY <1>1 DEF EncodeOne
  <2> QED BY <2>1, <1>1, EncodedInteger DEF Encodable
<1>2. CASE shape \in {"string", "bytes"}
  <2>1. EncodeOne(shape, val) = EncodeUint(Len(val)) \o val
    BY <1>2 DEF EncodeOne
  <2>2. val \in Seq(Cells) /\ Len(val) \in 0 .. MaxUint
    <3>1. val \in Seq(Cells) /\ Len(val) <= MaxUint
      BY <1>2 DEF Encodable
    <3>2. Len(val) \in Nat
      BY <3>1
    <3> QED BY <3>1, <3>2, MaxUintIsNat
  <2>3. EncodeUint(Len(val)) \in Seq(Cells)
    BY <2>2, EncodedInteger
  <2> QED BY <2>1, <2>2, <2>3, ConcatProperties, Zenon
<1>3. CASE shape = "fields"
  <2> DEFINE F == [i \in DOMAIN val |-> EncodeUint(val[i].kind) \o EncodeUint(val[i].offset)]
  <2>1. EncodeOne(shape, val) = FlattenSeq(F) \o EncodeUint(FieldKindEol)
    BY <1>3 DEF EncodeOne
  <2>2. val \in Seq([kind : 1 .. MaxUint, offset : 0 .. MaxUint])
    BY <1>3 DEF Encodable
  <2>3. F \in Seq(Seq(Cells))
    <3>1. \A i \in 1 .. Len(val) : val[i].kind \in 0 .. MaxUint /\ val[i].offset \in 0 .. MaxUint
      <4>1. \A i \in 1 .. Len(val) : val[i] \in [kind : 1 .. MaxUint, offset : 0 .. MaxUint]
        BY <2>2, ElementOfSeq
      <4> QED BY <4>1, MaxUintIsNat
    <3>2. \A i \in 1 .. Len(val) : EncodeUint(val[i].kind) \o EncodeUint(val[i].offset) \in Seq(Cells)
      <4> TAKE i \in 1 .. Len(val)
      <4>1. EncodeUint(val[i].kind) \in Seq(Cells) /\ EncodeUint(val[i].offset) \in Seq(Cells)
        BY <3>1, EncodedInteger, Zenon
      <4> QED BY <4>1, ConcatProperties, Zenon
    <3>3. DOMAIN val = 1 .. Len(val) /\ Len(val) \in Nat
      BY <2>2
    <3>4. F \in [1 .. Len(val) -> Seq(Cells)]
      BY <3>2, <3>3, Zenon
    <3> HIDE DEF F
    <3> QED BY <3>3, <3>4
  <2>4. FlattenSeq(F) \in Seq(Cells)
    <3> HIDE DEF F
    <3>1. Len(F) \in 0 .. Len(F)
      BY <2>3
    <3> QED BY <2>3, <3>1, UptoSteps, Zenon
  <2>5. EncodeUint(FieldKindEol) \in Seq(Cells)
    <3>1. FieldKindEol \in 0 .. MaxUint
      BY MaxUintIsNat DEF FieldKindEol
    <3> QED BY <3>1, EncodedInteger, Zenon
  <2> QED BY <2>1, <2>4, <2>5, ConcatProperties, Zenon
<1> QED BY <1>1, <1>2, <1>3 DEF ShapeNames

LEMMA IntegerReads ==
  ASSUME NEW f \in Seq(Cells), NEW p \in Nat \ {0}, NEW shape \in {"uint", "bool"}, NEW val,
         Encodable(shape, val), Agrees(f, p, EncodeOne(shape, val))
  PROVE  Reads(f, p, shape, val, ReadOne(f, p, shape))
<1> DEFINE w == EncodeUint(val)
           v == Uvarint(f, p)
           r == ReadOne(f, p, shape)
<1>1. EncodeOne(shape, val) = w /\ val \in 0 .. MaxUint
  BY DEF EncodeOne, Encodable
<1>2. /\ p + Len(w) - 1 <= Len(f) => v = Got(val, p + Len(w))
      /\ p + Len(w) - 1 > Len(f) => v.err # "none"
  BY <1>1, UvarintReads
<1>3. Len(w) \in Nat /\ Len(f) \in Nat
  BY <1>1, EncodedInteger, CellsAreNat
<1>4. r = v \/ (r = Bool(f, p) /\ shape = "bool")
  <2>1. CASE shape = "uint"
    BY <2>1 DEF ReadOne
  <2>2. CASE shape = "bool"
    BY <2>2 DEF ReadOne
  <2> QED BY <2>1, <2>2
<1>5. Bool(f, p) = IF v.err # "none" \/ v.val \in {0, 1} THEN v ELSE Broken("invalidBool")
  BY DEF Bool
<1>6. PartIsSound(shape, val) <=> (shape = "bool" => val \in {0, 1})
  BY DEF PartIsSound
<1>7. PartIsSound(shape, val) => Matches(f, shape, val, val)
  BY DEF Matches
<1> DEFINE l == Len(w)
<1> HIDE DEF w, v, r
<1>8. CASE p + l - 1 <= Len(f)
  <2>1. v.err = "none" /\ v.val = val /\ v.pos = p + l
    BY <1>2, <1>8 DEF Got
  <2>2. r.err = "none" => r = v
    BY <1>4, <1>5 DEF Broken
  <2>3. PartIsSound(shape, val) => r = v
    BY <1>4, <1>5, <1>6, <2>1
  <2>4. p + l <= Len(f) + 1
    BY <1>8, <1>3
  <2>5. r.err = "none" => PartIsSound(shape, val)
    <3>1. CASE shape = "uint"
      BY <3>1, <1>6
    <3>2. CASE shape = "bool"
      <4>1. r = Bool(f, p)
        BY <3>2 DEF ReadOne, r
      <4>2. r.err = "none" => v.val \in {0, 1}
        BY <4>1, <1>5, <2>1 DEF Broken
      <4> QED BY <4>2, <2>1, <1>6
    <3> QED BY <3>1, <3>2
  <2> QED BY <2>1, <2>2, <2>3, <2>4, <2>5, <1>1, <1>7 DEF Reads, r
<1>9. CASE p + l - 1 > Len(f)
  <2>1. v.err # "none"
    BY <1>2, <1>9
  <2>2. r = v
    BY <2>1, <1>4, <1>5
  <2>3. ~ (p + l <= Len(f) + 1)
    BY <1>9, <1>3
  <2> QED BY <2>1, <2>2, <2>3, <1>1 DEF Reads, r
<1> QED BY <1>8, <1>9, <1>3

LEMMA PayloadReads ==
  ASSUME NEW f \in Seq(Cells), NEW p \in Nat \ {0}, NEW shape \in {"string", "bytes"}, NEW val,
         Encodable(shape, val), Agrees(f, p, EncodeOne(shape, val))
  PROVE  Reads(f, p, shape, val, ReadOne(f, p, shape))
<1> DEFINE m == Len(val)
           w == EncodeUint(m)
           n == Uvarint(f, p)
           r == ReadOne(f, p, shape)
           limit == IF shape = "string" THEN MaxStringBytes ELSE MaxMemRangeSize
           s == Sized(f, p, limit)
           end == p + Len(EncodeOne(shape, val))
<1>1. val \in Seq(Cells) /\ m \in 0 .. MaxUint
  <2>1. val \in Seq(Cells) /\ Len(val) <= MaxUint
    BY DEF Encodable
  <2>2. Len(val) \in Nat
    BY <2>1
  <2> QED BY <2>1, <2>2, MaxUintIsNat
<1>2. w \in Seq(Cells) /\ Len(w) > 0
  BY <1>1, EncodedInteger
<1>3. EncodeOne(shape, val) = w \o val
  BY DEF EncodeOne
<1>4. Agrees(f, p, w) /\ Agrees(f, p + Len(w), val)
  <2>1. Agrees(f, p, w \o val) /\ p \in Nat
    BY <1>3
  <2> HIDE DEF w
  <2> QED BY <1>1, <1>2, <2>1, AgreesSplit, Zenon
<1>5. /\ p + Len(w) - 1 <= Len(f) => n = Got(m, p + Len(w))
      /\ p + Len(w) - 1 > Len(f) => n.err # "none"
  BY <1>1, <1>4, UvarintReads
<1>6. s = IF n.err # "none" THEN n
          ELSE IF n.val > limit THEN Broken("limit")
          ELSE Payload(f, n.pos, n.val)
  BY DEF Sized
<1>13. r = IF shape = "string" THEN Plain(s) ELSE s
  <2>1. CASE shape = "string"
    <3>1. r = String(f, p) /\ limit = MaxStringBytes
      BY <2>1 DEF ReadOne
    <3> QED BY <2>1, <3>1 DEF String
  <2>2. CASE shape = "bytes"
    <3>1. r = Bytes(f, p) /\ limit = MaxMemRangeSize
      BY <2>2 DEF ReadOne
    <3> QED BY <2>2, <3>1 DEF Bytes
  <2> QED BY <2>1, <2>2
<1>14. s.err # "none" => r.err # "none"
  <2> HIDE DEF r, s
  <2> QED BY <1>13 DEF Plain
<1>15. s.err = "none" =>
         r.err = "none" /\ r.pos = s.pos /\ r.val = IF shape = "string" THEN s.val.cells ELSE s.val
  <2> HIDE DEF r, s
  <2> QED BY <1>13 DEF Plain, Got
<1>7. PartIsSound(shape, val) <=> m <= limit
  BY DEF PartIsSound
<1>8. Len(f) \in Nat /\ limit \in Nat
  BY CellsAreNat, ReaderNumbers
<1>9. end = p + Len(w) + m
  <2> HIDE DEF w, m
  <2>1. Len(w \o val) = Len(w) + Len(val)
    BY <1>1, <1>2
  <2>2. Len(w) \in Nat /\ Len(val) \in Nat
    BY <1>1, <1>2
  <2> QED BY <1>3, <2>1, <2>2 DEF m
<1> DEFINE q == p + Len(w)
<1>10. q \in Nat \ {0}
  BY <1>2
<1> HIDE DEF w, n, r, s, limit, end
<1>11. CASE q - 1 > Len(f)
  <2>1. r.err # "none"
    BY <1>11, <1>5, <1>6, <1>14
  <2>2. ~ (end <= Len(f) + 1)
    BY <1>9, <1>11, <1>10, <1>1, <1>8
  <2> QED BY <2>1, <2>2 DEF Reads, r, end
<1>12. CASE q - 1 <= Len(f)
  <2>1. n.err = "none" /\ n.val = m /\ n.pos = q
    BY <1>5, <1>12 DEF Got
  <2>2. s = IF m > limit THEN Broken("limit") ELSE Payload(f, q, m)
    BY <1>6, <2>1
  <2> HIDE DEF q
  <2>3. CASE q + m - 1 > Len(f)
    <3>1. r.err # "none"
      BY <2>2, <2>3, <1>14 DEF Payload, Broken
    <3>2. ~ (end <= Len(f) + 1)
      BY <1>9, <2>3, <1>10, <1>1, <1>8 DEF q
    <3> QED BY <3>1, <3>2 DEF Reads, r, end
  <2>4. CASE q + m - 1 <= Len(f)
    <3> DEFINE got == [cells |-> SubSeq(f, q, q + m - 1), off |-> q]
    <3>1. s = IF m > limit THEN Broken("limit") ELSE Got(got, q + m)
      BY <2>2, <2>4, <1>1, <1>8, <1>10 DEF Payload
    <3>2. SubSeq(f, q, q + m - 1) = val
      <4> DEFINE e == q + m - 1
                 t == SubSeq(f, q, e)
      <4>1. t \in Seq(Cells) /\ Len(t) = m /\ \A j \in 1 .. m : t[j] = f[q + j - 1]
        <5> DEFINE k == e - q + 1
        <5>1. \A j \in q .. e : f[j] \in Cells
          BY <1>10, <2>4, CellsAreNat
        <5>2. q \in Int /\ e \in Int /\ k = m /\ (q <= e <=> m # 0)
          BY <1>10, <1>1
        <5> HIDE DEF e, m
        <5>3. /\ t \in Seq(Cells)
              /\ Len(t) = IF q <= e THEN k ELSE 0
              /\ \A j \in 1 .. k : t[j] = f[q + j - 1]
          <6>1. q \in Int /\ e \in Int
            BY <5>2
          <6> QED BY ONLY <5>1, <6>1
        <5> HIDE DEF t, k
        <5> QED BY <5>2, <5>3
      <4> HIDE DEF t, e
      <4>2. \A j \in 1 .. m : f[q + j - 1] = val[j]
        <5>1. \A j \in 1 .. m : q + j - 1 <= Len(f)
          BY <2>4, <1>10, <1>1, <1>8
        <5> QED BY <5>1, <1>4, Zenon DEF Agrees, q
      <4>3. Len(val) = m /\ Len(t) = Len(val) /\ \A j \in 1 .. Len(t) : t[j] = val[j]
        BY <4>1, <4>2
      <4> QED BY <4>1, <4>3, <1>1, SeqEqual, Zenon DEF t, e
    <3> DEFINE kept == IF shape = "string" THEN got.cells ELSE got
    <3>3. m <= limit => Matches(f, shape, kept, val)
      BY <3>2, <1>7, <1>10, <2>4 DEF Matches
    <3>4. end = q + m /\ q + m <= Len(f) + 1
      BY <1>9, <2>4, <1>10, <1>1, <1>8 DEF q
    <3>5. r.err = "none" => r.pos = q + m /\ r.val = kept /\ m <= limit
      <4> HIDE DEF got
      <4>1. s.err = "none" => s.pos = q + m /\ s.val = got /\ m <= limit
        BY <3>1, <1>1, <1>8 DEF Broken, Got
      <4> QED BY <4>1, <1>14, <1>15
    <3>6. m <= limit => r.err = "none"
      <4> HIDE DEF got
      <4>1. m <= limit => s.err = "none"
        BY <3>1, <1>1, <1>8 DEF Got
      <4> QED BY <4>1, <1>15
    <3> HIDE DEF got, kept
    <3> QED BY <3>3, <3>4, <3>5, <3>6, <1>7 DEF Reads, r, end
  <2> QED BY <2>3, <2>4, <1>10, <1>1, <1>8
<1> QED BY <1>11, <1>12, <1>10, <1>8
-----------------------------------------------------------------------------
(* Field lists                                                              *)

\* One turn of FieldList's loop, before the rests in g.
FieldTurn(f, q, g) ==
  LET kind == Uvarint(f, q)
      offset == Uvarint(f, kind.pos)
  IN IF kind.err # "none" THEN kind
     ELSE IF kind.val = FieldKindEol THEN Got(<<>>, kind.pos)
     ELSE Listed(kind, offset, g[offset.pos])

IsFieldLoop(g, f) == g = [q \in 1 .. Len(f) + 1 |-> FieldTurn(f, q, g)]

\* A turn looks at what comes after it only.
LEMMA TurnsLookAhead ==
  ASSUME NEW f \in Seq(Cells), NEW q \in Nat \ {0}, NEW g, NEW h,
         \A r \in q + 1 .. Len(f) + 1 : g[r] = h[r]
  PROVE  FieldTurn(f, q, g) = FieldTurn(f, q, h)
<1> DEFINE kind == Uvarint(f, q)
           offset == Uvarint(f, kind.pos)
<1>1. CASE kind.err # "none" \/ kind.val = FieldKindEol
  BY <1>1, Zenon DEF FieldTurn
<1>2. CASE kind.err = "none" /\ kind.val # FieldKindEol /\ offset.err # "none"
  <2>1. Listed(kind, offset, g[offset.pos]) = Listed(kind, offset, h[offset.pos])
    BY <1>2, Zenon DEF Listed
  <2> QED BY <1>2, <2>1, Zenon DEF FieldTurn
<1>3. CASE kind.err = "none" /\ kind.val # FieldKindEol /\ offset.err = "none"
  <2>1. kind.pos \in q + 1 .. Len(f) + 1
    BY <1>3, UvarintBounds
  <2>2. kind.pos \in Nat \ {0} /\ Len(f) \in Nat
    BY <2>1, CellsAreNat
  <2>3. offset.pos \in kind.pos + 1 .. Len(f) + 1
    <3> DEFINE x == kind.pos
    <3>1. x \in Nat \ {0} /\ Uvarint(f, x).err = "none"
      BY <1>3, <2>2
    <3> HIDE DEF x
    <3>2. Uvarint(f, x).pos \in x + 1 .. Len(f) + 1
      BY <3>1, UvarintBounds
    <3> QED BY <3>2 DEF x
  <2> DEFINE x == kind.pos
             y == offset.pos
  <2>4. x \in q + 1 .. Len(f) + 1 /\ y \in x + 1 .. Len(f) + 1 /\ Len(f) \in Nat
    BY <2>1, <2>2, <2>3
  <2> HIDE DEF x, y
  <2>5. y \in q + 1 .. Len(f) + 1
    BY <2>4
  <2>6. g[y] = h[y]
    BY <2>5
  <2> QED BY <1>3, <2>6, Zenon DEF FieldTurn, y
<1> QED BY <1>1, <1>2, <1>3

LEMMA FieldLoopExists ==
  ASSUME NEW f \in Seq(Cells)
  PROVE  \E g : IsFieldLoop(g, f)
<1> DEFINE n == Len(f) + 1
           Fits(g, k) == \A q \in k + 1 .. n : g[q] = FieldTurn(f, q, g)
           S == {k \in 0 .. n : \E g : Fits(g, k)}
<1>0. n \in Nat /\ n > 0
  BY CellsAreNat
<1> HIDE DEF n
<1>1. n \in S
  <2>1. Fits(f, n)
    BY <1>0
  <2> HIDE DEF Fits
  <2> QED BY <2>1, <1>0
<1>2. ASSUME NEW k \in 0 .. n - 1, k + 1 \in S PROVE k \in S
  <2>1. PICK g : Fits(g, k + 1)
    BY <1>2
  <2> DEFINE h == [q \in 1 .. n |-> IF q = k + 1 THEN FieldTurn(f, q, g) ELSE g[q]]
  <2>2. ASSUME NEW q \in k + 1 .. n PROVE h[q] = FieldTurn(f, q, h)
    <3>1. h[q] = FieldTurn(f, q, g)
      <4>1. q \in 1 .. n
        BY <1>0
      <4>2. CASE q = k + 1
        BY <4>1, <4>2, Zenon
      <4>3. CASE q # k + 1
        <5>1. q \in k + 1 + 1 .. n
          BY <4>3, <1>0
        <5>2. h[q] = g[q]
          BY <4>1, <4>3, Zenon
        <5> HIDE DEF h
        <5> QED BY <5>1, <5>2, <2>1, Zenon
      <4> QED BY <4>2, <4>3
    <3>2. \A r \in q + 1 .. n : g[r] = h[r]
      <4>1. \A r \in q + 1 .. n : r \in 1 .. n /\ r # k + 1
        BY <1>0
      <4> QED BY <4>1, Zenon
    <3>3. FieldTurn(f, q, g) = FieldTurn(f, q, h)
      <4>1. q \in Nat \ {0}
        BY <1>0
      <4> HIDE DEF h
      <4> QED BY <4>1, <3>2, TurnsLookAhead, Zenon DEF n
    <3> QED BY <3>1, <3>3, Zenon
  <2>3. Fits(h, k)
    <3> HIDE DEF h
    <3> QED BY <2>2
  <2> QED
    <3> HIDE DEF h, Fits
    <3> QED BY <2>3, <1>0
<1>3. 0 \in S
  <2>1. 0 .. n \subseteq S
    <3> HIDE DEF S
    <3> QED BY <1>0, <1>1, <1>2, DownwardInduction
  <2>2. 0 \in 0 .. n
    BY <1>0
  <2> HIDE DEF S
  <2> QED BY <2>1, <2>2, Zenon
<1>4. PICK g : \A q \in 0 + 1 .. n : g[q] = FieldTurn(f, q, g)
  BY <1>3
<1> DEFINE h == [q \in 1 .. n |-> g[q]]
<1>5. ASSUME NEW q \in 1 .. n PROVE h[q] = FieldTurn(f, q, h)
  <2>1. q \in 0 + 1 .. n /\ q \in Nat \ {0} /\ \A r \in q + 1 .. n : r \in 1 .. n
    BY <1>0
  <2>2. h[q] = FieldTurn(f, q, g) /\ \A r \in q + 1 .. n : g[r] = h[r]
    BY <2>1, <1>4, Zenon
  <2> HIDE DEF h
  <2>3. FieldTurn(f, q, g) = FieldTurn(f, q, h)
    BY <2>1, <2>2, TurnsLookAhead, Zenon DEF n
  <2> QED BY <2>2, <2>3, Zenon
<1>6. h = [q \in 1 .. n |-> FieldTurn(f, q, h)]
  <2>1. h = [q \in 1 .. n |-> h[q]]
    BY Zenon
  <2> HIDE DEF h
  <2> QED BY <1>5, <2>1
<1>7. IsFieldLoop(h, f)
  <2> HIDE DEF h
  <2> QED BY <1>6, Zenon DEF IsFieldLoop, n
<1> QED BY <1>7, Zenon

LEMMA FieldListLoops ==
  ASSUME NEW f \in Seq(Cells), NEW p
  PROVE  \E g : /\ FieldList(f, p) = g[p]
                /\ \A q \in 1 .. Len(f) + 1 : g[q] = FieldTurn(f, q, g)
<1> DEFINE g == CHOOSE g : IsFieldLoop(g, f)
<1>1. IsFieldLoop(g, f)
  BY FieldLoopExists, Zenon
<1>2. FieldList(f, p) = g[p]
  BY Zenon DEF FieldList, IsFieldLoop, FieldTurn
<1> HIDE DEF g
<1>3. \A q \in 1 .. Len(f) + 1 : g[q] = FieldTurn(f, q, g)
  <2>1. g = [q \in 1 .. Len(f) + 1 |-> FieldTurn(f, q, g)]
    BY <1>1, Zenon DEF IsFieldLoop
  <2> TAKE q \in 1 .. Len(f) + 1
  <2> DEFINE h == [r \in 1 .. Len(f) + 1 |-> FieldTurn(f, r, g)]
  <2>2. h[q] = FieldTurn(f, q, g) /\ g = h
    BY <2>1, Zenon
  <2> HIDE DEF h
  <2> QED BY <2>2, Zenon
<1> QED BY <1>2, <1>3, Zenon

FieldCells(field) == EncodeUint(field.kind) \o EncodeUint(field.offset)
WrittenFields == [kind : 1 .. MaxUint, offset : 0 .. MaxUint]

\* What the loop returns at q is a field and what it returns at e.
StepsTo(f, g, q, e, field) ==
  /\ e <= Len(f) + 1 /\ g[e].err = "none" => g[q] = Got(<<field>> \o g[e].val, g[e].pos)
  /\ g[q].err = "none" => e <= Len(f) + 1 /\ g[e].err = "none"

LEMMA FieldStep ==
  ASSUME NEW f \in Seq(Cells), NEW q \in Nat \ {0}, NEW g, g[q] = FieldTurn(f, q, g),
         NEW field \in WrittenFields, NEW e,
         Agrees(f, q, FieldCells(field)), e = q + Len(FieldCells(field))
  PROVE  StepsTo(f, g, q, e, field)
<1> USE DEF FieldCells, WrittenFields
<1> SUFFICES /\ e <= Len(f) + 1 /\ g[e].err = "none" => g[q] = Got(<<field>> \o g[e].val, g[e].pos)
             /\ g[q].err = "none" => e <= Len(f) + 1 /\ g[e].err = "none"
  BY Zenon DEF StepsTo
<1> DEFINE a == EncodeUint(field.kind)
           b == EncodeUint(field.offset)
           kind == Uvarint(f, q)
           offset == Uvarint(f, kind.pos)
<1>0. Len(f) \in Nat /\ q \in Nat
  BY CellsAreNat
<1>1. field.kind \in 0 .. MaxUint /\ field.kind # FieldKindEol /\ field.offset \in 0 .. MaxUint
  BY MaxUintIsNat DEF FieldKindEol
<1>2. a \in Seq(Cells) /\ Len(a) > 0 /\ b \in Seq(Cells) /\ Len(b) > 0
  BY <1>1, EncodedInteger, Zenon
<1>3. Agrees(f, q, a) /\ Agrees(f, q + Len(a), b)
  <2>1. Agrees(f, q, a \o b)
    OBVIOUS
  <2> HIDE DEF a, b
  <2> QED BY <1>0, <1>2, <2>1, AgreesSplit, Zenon
<1> DEFINE x == q + Len(a)
<1>4. /\ q + Len(a) - 1 <= Len(f) => kind = Got(field.kind, q + Len(a))
      /\ q + Len(a) - 1 > Len(f) => kind.err # "none"
  BY <1>1, <1>3, UvarintReads
<1>5. x \in Nat \ {0}
  BY <1>2
<1>6. /\ x + Len(b) - 1 <= Len(f) => Uvarint(f, x) = Got(field.offset, x + Len(b))
      /\ x + Len(b) - 1 > Len(f) => Uvarint(f, x).err # "none"
  <2>1. Agrees(f, x, b)
    BY <1>3
  <2> HIDE DEF x
  <2> QED BY <1>1, <1>5, <2>1, UvarintReads
<1>7. e = x + Len(b)
  <2>1. e = q + Len(a \o b)
    OBVIOUS
  <2> HIDE DEF a, b
  <2>2. Len(a \o b) = Len(a) + Len(b) /\ Len(a) \in Nat /\ Len(b) \in Nat
    BY <1>2
  <2> QED BY <2>1, <2>2
<1>8. Len(a) \in Nat /\ Len(b) \in Nat /\ Len(b) > 0
  BY <1>2
<1>9. g[q] = FieldTurn(f, q, g)
  OBVIOUS
<1> DEFINE u == Uvarint(f, x)
           m == Len(b)
<1>10. x - 1 <= Len(f) => kind = Got(field.kind, x)
  BY <1>4, <1>0
<1>11. x - 1 > Len(f) => kind.err # "none"
  BY <1>4, <1>0
<1>12. m \in Nat /\ m > 0 /\ x \in Nat /\ e = x + m
  BY <1>5, <1>7, <1>8
<1>13. /\ e <= Len(f) + 1 => u = Got(field.offset, e)
       /\ e > Len(f) + 1 => u.err # "none"
  BY <1>6, <1>12, <1>0
<1> HIDE DEF a, b, x, m
<1>14. CASE x - 1 > Len(f)
  <2>1. g[q] = kind /\ kind.err # "none"
    BY <1>9, <1>11, <1>14, Zenon DEF FieldTurn
  <2>2. ~ (e <= Len(f) + 1)
    BY <1>12, <1>14, <1>0
  <2> QED BY <2>1, <2>2, Zenon
<1>15. CASE x - 1 <= Len(f)
  <2>1. kind.err = "none" /\ kind.val = field.kind /\ kind.pos = x
    <3> HIDE DEF kind
    <3> QED BY <1>10, <1>15 DEF Got
  <2>2. g[q] = Listed(kind, u, g[u.pos])
    BY <1>9, <2>1, <1>1, Zenon DEF FieldTurn
  <2> HIDE DEF kind, u
  <2>3. CASE e > Len(f) + 1
    <3>1. g[q].err # "none"
      BY <2>2, <2>3, <1>13 DEF Listed
    <3>2. ~ (e <= Len(f) + 1)
      BY <2>3, <1>12, <1>0
    <3> QED BY <3>1, <3>2
  <2>4. CASE e <= Len(f) + 1
    <3>1. u.err = "none" /\ u.val = field.offset /\ u.pos = e
      BY <1>13, <2>4 DEF Got
    <3>2. [kind |-> kind.val, offset |-> u.val] = field
      BY <2>1, <3>1
    <3>3. g[q] = Listed(kind, u, g[e])
      BY <2>2, <3>1
    <3>4. g[e].err # "none" => g[q] = g[e]
      BY <3>1, <3>3 DEF Listed
    <3>5. g[e].err = "none" => g[q] = Got(<<field>> \o g[e].val, g[e].pos)
      BY <3>1, <3>2, <3>3, Zenon DEF Listed
    <3> QED BY <3>4, <3>5, <2>4, Zenon
  <2> QED BY <2>3, <2>4, <1>12, <1>0
<1> QED BY <1>14, <1>15, <1>12, <1>0

LEMMA FieldsRead ==
  ASSUME NEW f \in Seq(Cells), NEW p \in 1 .. Len(f) + 1, NEW val,
         Encodable("fields", val), Agrees(f, p, EncodeOne("fields", val))
  PROVE  Reads(f, p, "fields", val, ReadOne(f, p, "fields"))
<1> DEFINE n == Len(val)
           Field == [kind : 1 .. MaxUint, offset : 0 .. MaxUint]
           F == [i \in DOMAIN val |-> EncodeUint(val[i].kind) \o EncodeUint(val[i].offset)]
           flat == FlattenSeq(F)
           eol == EncodeUint(FieldKindEol)
           At_(i) == p + Len(Upto(F, i))
           end == p + Len(EncodeOne("fields", val))
<1>1. val \in Seq(Field) /\ n \in Nat /\ DOMAIN val = 1 .. n
  <2>1. val \in Seq(Field)
    BY DEF Encodable
  <2> QED BY <2>1
<1>2. EncodeOne("fields", val) = flat \o eol
  BY DEF EncodeOne
<1>3. \A i \in 1 .. n : val[i] \in Field
  BY <1>1, ElementOfSeq, Zenon
<1>4. F \in Seq(Seq(Cells)) /\ Len(F) = n
  <2>1. \A i \in 1 .. n : val[i].kind \in 0 .. MaxUint /\ val[i].offset \in 0 .. MaxUint
    BY <1>3, MaxUintIsNat
  <2>2. \A i \in 1 .. n : EncodeUint(val[i].kind) \o EncodeUint(val[i].offset) \in Seq(Cells)
    <3> TAKE i \in 1 .. n
    <3>1. EncodeUint(val[i].kind) \in Seq(Cells) /\ EncodeUint(val[i].offset) \in Seq(Cells)
      BY <2>1, EncodedInteger, Zenon
    <3> QED BY <3>1, ConcatProperties, Zenon
  <2>3. F \in [1 .. n -> Seq(Cells)]
    BY <2>2, <1>1, Zenon
  <2> HIDE DEF F
  <2> QED BY <1>1, <2>3
<1>5. \A i \in 1 .. n : F[i] = EncodeUint(val[i].kind) \o EncodeUint(val[i].offset)
  BY <1>1, Zenon
<1>6. eol \in Seq(Cells) /\ FieldKindEol \in 0 .. MaxUint
  <2>1. FieldKindEol \in 0 .. MaxUint
    BY MaxUintIsNat DEF FieldKindEol
  <2> QED BY <2>1, EncodedInteger, Zenon
<1> HIDE DEF F
<1>7. flat \in Seq(Cells) /\ flat = Upto(F, n) /\ Upto(F, 0) = <<>>
  <2>1. Len(F) \in 0 .. Len(F)
    BY <1>4
  <2>2. Upto(F, Len(F)) = flat /\ Upto(F, Len(F)) \in Seq(Cells) /\ Upto(F, 0) = <<>>
    BY <1>4, <2>1, UptoSteps, Zenon
  <2> QED BY <2>2, <1>4, Zenon
<1>8. Agrees(f, p, flat) /\ Agrees(f, p + Len(flat), eol)
  <2>1. Agrees(f, p, flat \o eol)
    BY <1>2, Zenon
  <2>2. p \in Nat
    BY CellsAreNat
  <2> HIDE DEF flat, eol
  <2> QED BY <2>1, <2>2, <1>6, <1>7, AgreesSplit, Zenon
<1>9. PICK g : /\ FieldList(f, p) = g[p]
               /\ \A q \in 1 .. Len(f) + 1 : g[q] = FieldTurn(f, q, g)
  BY FieldListLoops, Zenon
<1>10. Len(f) \in Nat /\ p \in Nat \ {0}
  BY CellsAreNat
<1>11. \A i \in 0 .. n : At_(i) \in Nat \ {0} /\ At_(i) <= end /\ At_(n) + Len(eol) = end
  <2> TAKE i \in 0 .. n
  <2>1. i \in 0 .. Len(F) /\ n \in 0 .. Len(F) /\ i <= n
    BY <1>1, <1>4
  <2>2. Upto(F, i) \in Seq(Cells) /\ Len(Upto(F, i)) <= Len(Upto(F, n))
    BY <1>4, <2>1, UptoSteps, UptoExtends, Zenon
  <2>3. Len(flat \o eol) = Len(flat) + Len(eol)
    <3> HIDE DEF flat, eol
    <3> QED BY <1>6, <1>7
  <2>4. Len(flat) \in Nat /\ Len(eol) \in Nat /\ Len(Upto(F, i)) \in Nat
    <3> HIDE DEF flat, eol
    <3> QED BY <1>6, <1>7, <2>2
  <2> DEFINE x == Len(flat)
             y == Len(eol)
             z == Len(Upto(F, i))
  <2>5. end = p + (x + y) /\ At_(n) = p + x /\ z <= x /\ At_(i) = p + z
    BY <2>2, <2>3, <1>2, <1>7, Zenon
  <2>6. x \in Nat /\ y \in Nat /\ z \in Nat
    BY <2>4
  <2> HIDE DEF x, y, z, end, At_
  <2>7. At_(i) \in Nat \ {0} /\ At_(i) <= end /\ At_(n) + y = end
    BY <2>5, <2>6, <1>10
  <2> QED BY <2>7 DEF y
<1> DEFINE Right(i) ==
             At_(i) <= Len(f) + 1 =>
               /\ g[At_(i)].err = "none" => /\ g[At_(i)].pos = end /\ end <= Len(f) + 1
                                           /\ g[At_(i)].val = SubSeq(val, i + 1, n)
               /\ end <= Len(f) + 1 => g[At_(i)].err = "none"
           S == {i \in 0 .. n : Right(i)}
<1>12. n \in S
  <2> DEFINE q == At_(n)
             kind == Uvarint(f, q)
  <2> SUFFICES ASSUME q <= Len(f) + 1 PROVE Right(n)
    BY <1>1
  <2>1. q \in Nat \ {0} /\ q + Len(eol) = end /\ q = p + Len(flat)
    BY <1>1, <1>7, <1>11
  <2>2. Agrees(f, q, eol)
    BY <1>8, <2>1, Zenon
  <2> HIDE DEF q
  <2>3. /\ q + Len(eol) - 1 <= Len(f) => kind = Got(FieldKindEol, q + Len(eol))
        /\ q + Len(eol) - 1 > Len(f) => kind.err # "none"
    BY <1>6, <2>1, <2>2, UvarintReads
  <2>4. g[q] = FieldTurn(f, q, g)
    BY <1>9, <1>10, <2>1
  <2>5. SubSeq(val, n + 1, n) = <<>>
    BY <1>1, SubSeqEmpty
  <2>6. end \in Nat
    BY <2>1, <1>6
  <2>7. CASE end <= Len(f) + 1
    <3>1. kind = Got(FieldKindEol, end)
      BY <2>1, <2>3, <2>6, <2>7, <1>10
    <3>2. kind.err = "none" /\ kind.val = FieldKindEol /\ kind.pos = end
      <4> HIDE DEF kind
      <4> QED BY <3>1 DEF Got
    <3>3. g[q] = Got(<<>>, end)
      BY <2>4, <3>2, Zenon DEF FieldTurn
    <3>4. g[q].err = "none" /\ g[q].pos = end /\ g[q].val = <<>>
      BY <3>3 DEF Got
    <3> QED BY <3>4, <2>5, <2>7, Zenon DEF q
  <2>8. CASE ~ (end <= Len(f) + 1)
    <3>1. kind.err # "none"
      BY <2>1, <2>3, <2>6, <2>8, <1>10
    <3>2. g[q].err # "none"
      BY <2>4, <3>1, Zenon DEF FieldTurn
    <3> QED BY <3>2, <2>8, Zenon DEF q
  <2> QED BY <2>7, <2>8
<1>13. ASSUME NEW k \in 0 .. n - 1, k + 1 \in S PROVE k \in S
  <2> DEFINE i == k + 1
             q == At_(k)
             e == At_(i)
  <2> SUFFICES ASSUME q <= Len(f) + 1 PROVE Right(k)
    BY <1>1
  <2>1. i \in 1 .. n /\ i \in 0 .. n /\ i - 1 = k /\ k \in 0 .. n /\ k \in Nat
    BY <1>1
  <2>2. Right(i)
    BY <1>13
  <2> HIDE DEF i
  <2> DEFINE w == EncodeUint(val[i].kind) \o EncodeUint(val[i].offset)
  <2>3. Agrees(f, q, w)
    <3>1. i \in 1 .. Len(F)
      BY <2>1, <1>4
    <3>2. Agrees(f, p + Len(Upto(F, i - 1)), F[i])
      BY <1>4, <1>8, <1>10, <3>1, PartsAgree, Zenon
    <3> QED BY <3>2, <2>1, <1>5, Zenon
  <2>4. e = q + Len(w)
    <3> DEFINE u == Upto(F, k)
    <3>1. Upto(F, i) = u \o w /\ u \in Seq(Cells) /\ w \in Seq(Cells)
      <4>1. i \in 1 .. Len(F) /\ k \in 0 .. Len(F)
        BY <2>1, <1>4
      <4>2. Upto(F, i) = Upto(F, i - 1) \o F[i] /\ u \in Seq(Cells) /\ F[i] \in Seq(Cells)
        BY <1>4, <4>1, UptoSteps, ElementOfSeq, Zenon
      <4> QED BY <4>2, <2>1, <1>5, Zenon
    <3> DEFINE x == Upto(F, i)
    <3> HIDE DEF u, w, x
    <3>2. Len(x) = Len(u) + Len(w) /\ Len(u) \in Nat /\ Len(w) \in Nat
      BY <3>1 DEF x
    <3> QED BY <3>2, <1>10 DEF x, u
  <2>5. q \in Nat \ {0} /\ e \in Nat \ {0} /\ e <= end
    BY <1>11, <2>1
  <2>6. g[q] = FieldTurn(f, q, g)
    <3> HIDE DEF q
    <3> QED BY <1>9, <1>10, <2>5
  <2>7. /\ e <= Len(f) + 1 /\ g[e].err = "none"
              => g[q] = Got(<<val[i]>> \o g[e].val, g[e].pos)
        /\ g[q].err = "none" => e <= Len(f) + 1 /\ g[e].err = "none"
    <3>1. val[i] \in Field
      BY <1>3, <2>1, Zenon
    <3> DEFINE v == val[i]
    <3>2. Agrees(f, q, FieldCells(v))
      BY <2>3, Zenon DEF FieldCells
    <3>3. e = q + Len(FieldCells(v))
      BY <2>4, Zenon DEF FieldCells
    <3>4. v \in WrittenFields
      BY <3>1, Zenon DEF WrittenFields
    <3> HIDE DEF e, q, v
    <3>5. StepsTo(f, g, q, e, v)
      BY <2>5, <2>6, <3>2, <3>3, <3>4, FieldStep, Zenon
    <3> QED BY <3>5, Zenon DEF v, StepsTo
  <2>8. SubSeq(val, k + 1, n) = <<val[i]>> \o SubSeq(val, i + 1, n)
    <3>1. i \in 1 .. n /\ n \in i .. n
      BY <2>1, <1>1
    <3>2. SubSeq(val, i, n) = <<val[i]>> \o SubSeq(val, i + 1, n)
      BY <3>1, <1>1, SubSeqRecursiveFirst, Zenon
    <3> QED BY <3>2, Zenon DEF i
  <2> DEFINE G(x) == /\ g[x].err = "none" => /\ g[x].pos = end /\ end <= Len(f) + 1
                     /\ end <= Len(f) + 1 => g[x].err = "none"
  <2>9. g[q].err = "none" => /\ g[q].pos = end /\ end <= Len(f) + 1
                             /\ g[q].val = SubSeq(val, k + 1, n)
    <3> SUFFICES ASSUME g[q].err = "none"
                 PROVE  /\ g[q].pos = end /\ end <= Len(f) + 1
                        /\ g[q].val = SubSeq(val, k + 1, n)
      OBVIOUS
    <3>1. e <= Len(f) + 1 /\ g[e].err = "none"
      BY <2>7, Zenon
    <3>2. g[e].pos = end /\ end <= Len(f) + 1 /\ g[e].val = SubSeq(val, i + 1, n)
      BY <3>1, <2>2, Zenon
    <3>3. g[q] = Got(<<val[i]>> \o g[e].val, g[e].pos)
      BY <3>1, <2>7, Zenon
    <3> HIDE DEF q, e, end
    <3> DEFINE x == <<val[i]>> \o g[e].val
    <3> HIDE DEF x
    <3>4. g[q].val = x /\ g[q].pos = g[e].pos
      BY <3>3 DEF Got, x
    <3> QED BY <3>2, <3>4, <2>8, Zenon DEF x
  <2>10. end <= Len(f) + 1 => g[q].err = "none"
    <3> SUFFICES ASSUME end <= Len(f) + 1 PROVE g[q].err = "none"
      OBVIOUS
    <3>0. end \in Nat
      <4>1. n \in 0 .. n
        BY <1>1
      <4>2. At_(n) \in Nat /\ At_(n) + Len(eol) = end /\ Len(eol) \in Nat
        BY <4>1, <1>11, <1>6
      <4> HIDE DEF At_, eol, end
      <4> QED BY <4>2
    <3>1. e <= Len(f) + 1
      <4> HIDE DEF e, end
      <4> QED BY <2>5, <3>0, <1>10
    <3>2. g[e].err = "none"
      BY <3>1, <2>2, Zenon
    <3>3. g[q] = Got(<<val[i]>> \o g[e].val, g[e].pos)
      BY <3>1, <3>2, <2>7, Zenon
    <3> HIDE DEF q
    <3> QED BY <3>3 DEF Got
  <2> QED BY <2>9, <2>10, Zenon
<1>14. Right(0)
  <2>1. 0 .. n \subseteq S
    <3> HIDE DEF S
    <3> QED BY <1>1, <1>12, <1>13, DownwardInduction
  <2>2. 0 \in 0 .. n
    BY <1>1
  <2>3. 0 \in S
    <3> HIDE DEF S
    <3> QED BY <2>1, <2>2, Zenon
  <2> QED BY <2>3, Zenon
<1>15. At_(0) = p /\ SubSeq(val, 0 + 1, n) = val
  <2>1. Len(Upto(F, 0)) = 0
    BY <1>7
  <2> QED BY <2>1, <1>1, <1>10
<1>16. ReadOne(f, p, "fields") = g[p]
  BY <1>9 DEF ReadOne
<1>17. /\ g[p].err = "none" => g[p].pos = end /\ end <= Len(f) + 1 /\ g[p].val = val
       /\ end <= Len(f) + 1 => g[p].err = "none"
  <2>1. p <= Len(f) + 1
    BY <1>10
  <2> QED BY <1>14, <1>15, <2>1, Zenon
<1>18. \A v : Matches(f, "fields", v, val) <=> v = val
  BY DEF Matches, PartIsSound
<1> HIDE DEF end
<1> QED BY <1>16, <1>17, <1>18, Zenon DEF Reads, end
-----------------------------------------------------------------------------
(* Records                                                                  *)

LEMMA PartReads ==
  ASSUME NEW f \in Seq(Cells), NEW p \in 1 .. Len(f) + 1, NEW shape \in ShapeNames, NEW val,
         Encodable(shape, val), Agrees(f, p, EncodeOne(shape, val))
  PROVE  Reads(f, p, shape, val, ReadOne(f, p, shape))
<1>1. p \in Nat \ {0}
  BY CellsAreNat
<1>2. CASE shape \in {"uint", "bool"}
  BY <1>1, <1>2, IntegerReads, Zenon
<1>3. CASE shape \in {"string", "bytes"}
  BY <1>1, <1>3, PayloadReads, Zenon
<1>4. CASE shape = "fields"
  BY <1>4, FieldsRead, Zenon
<1> QED BY <1>2, <1>3, <1>4 DEF ShapeNames

\* A sequence, whatever is in it.
IsSeq(s) == Len(s) \in Nat /\ s = [i \in 1 .. Len(s) |-> s[i]]

LEMMA SequencesAreSeq ==
  ASSUME NEW X, NEW s \in Seq(X)
  PROVE  IsSeq(s)
BY DEF IsSeq

LEMMA AppendToAny ==
  ASSUME NEW s, IsSeq(s), NEW e
  PROVE  /\ IsSeq(Append(s, e)) /\ Len(Append(s, e)) = Len(s) + 1
         /\ Append(s, e)[Len(s) + 1] = e
         /\ \A i \in 1 .. Len(s) : Append(s, e)[i] = s[i]
<1> DEFINE X == {s[i] : i \in 1 .. Len(s)} \cup {e}
           t == Append(s, e)
<1>1. s \in Seq(X) /\ e \in X
  <2>1. Len(s) \in Nat /\ s = [i \in 1 .. Len(s) |-> s[i]] /\ (\A i \in 1 .. Len(s) : s[i] \in X) /\ e \in X
    BY DEF IsSeq
  <2> HIDE DEF X
  <2>2. [i \in 1 .. Len(s) |-> s[i]] \in Seq(X)
    BY <2>1
  <2> QED BY <2>1, <2>2
<1> HIDE DEF X
<1>2. t \in Seq(X) /\ Len(t) = Len(s) + 1 /\ t[Len(s) + 1] = e /\ \A i \in 1 .. Len(s) : t[i] = s[i]
  BY <1>1
<1> HIDE DEF t
<1>3. IsSeq(t)
  BY <1>2, SequencesAreSeq
<1> QED BY <1>2, <1>3 DEF t

LEMMA ConcatOfAny ==
  ASSUME NEW s, IsSeq(s), NEW t, IsSeq(t)
  PROVE  /\ IsSeq(s \o t) /\ Len(s \o t) = Len(s) + Len(t)
         /\ \A i \in 1 .. Len(s) : (s \o t)[i] = s[i]
         /\ \A i \in 1 .. Len(t) : (s \o t)[Len(s) + i] = t[i]
<1> DEFINE X == {s[i] : i \in 1 .. Len(s)} \cup {t[i] : i \in 1 .. Len(t)}
           w == s \o t
<1>1. s \in Seq(X)
  <2>1. Len(s) \in Nat /\ s = [i \in 1 .. Len(s) |-> s[i]] /\ \A i \in 1 .. Len(s) : s[i] \in X
    BY DEF IsSeq
  <2> HIDE DEF X
  <2>2. [i \in 1 .. Len(s) |-> s[i]] \in Seq(X)
    BY <2>1
  <2> QED BY <2>1, <2>2
<1>2. t \in Seq(X)
  <2>1. Len(t) \in Nat /\ t = [i \in 1 .. Len(t) |-> t[i]] /\ \A i \in 1 .. Len(t) : t[i] \in X
    BY DEF IsSeq
  <2> HIDE DEF X
  <2>2. [i \in 1 .. Len(t) |-> t[i]] \in Seq(X)
    BY <2>1
  <2> QED BY <2>1, <2>2
<1> HIDE DEF X
<1>3. /\ w \in Seq(X) /\ Len(w) = Len(s) + Len(t)
      /\ \A i \in 1 .. Len(s) : w[i] = s[i]
      /\ \A i \in 1 .. Len(t) : w[Len(s) + i] = t[i]
  BY <1>1, <1>2
<1> HIDE DEF w
<1>4. IsSeq(w)
  BY <1>3, SequencesAreSeq
<1> QED BY <1>3, <1>4 DEF w

IsReadLoop(u, f, p, shapes) ==
  u = [i \in 0 .. Len(shapes) |-> IF i = 0 THEN Got(<<>>, p) ELSE ReadNext(f, u[i - 1], shapes[i])]

\* u holds what is read of the parts, one by one.
ReadSteps(u, f, p, shapes) ==
  /\ u[0] = Got(<<>>, p)
  /\ \A i \in 1 .. Len(shapes) : u[i] = ReadNext(f, u[i - 1], shapes[i])

LEMMA ReadAllLoops ==
  ASSUME NEW f, NEW p, NEW shapes, Len(shapes) \in Nat
  PROVE  \E u : ReadAll(f, p, shapes) = u[Len(shapes)] /\ ReadSteps(u, f, p, shapes)
<1> DEFINE n == Len(shapes)
           body(u, i) == IF i = 0 THEN Got(<<>>, p) ELSE ReadNext(f, u[i - 1], shapes[i])
           Fits(u, k) == \A i \in 0 .. k : u[i] = body(u, i)
           S == {k \in 0 .. n : \E u : Fits(u, k)}
<1>0. n \in Nat
  OBVIOUS
<1> HIDE DEF n
<1>1. 0 \in S
  <2> DEFINE u == [i \in {0} |-> Got(<<>>, p)]
  <2>1. u[0] = Got(<<>>, p)
    OBVIOUS
  <2> HIDE DEF u
  <2>2. Fits(u, 0)
    BY <2>1
  <2> HIDE DEF Fits
  <2> QED BY <2>2, <1>0
<1>2. ASSUME NEW k \in 0 .. n - 1, k \in S PROVE k + 1 \in S
  <2>1. PICK g : Fits(g, k)
    BY <1>2
  <2> DEFINE h == [i \in 0 .. n |-> IF i = k + 1 THEN body(g, i) ELSE g[i]]
  <2>2. ASSUME NEW i \in 0 .. k + 1 PROVE h[i] = body(h, i)
    <3>1. h[i] = body(g, i)
      <4>1. i \in 0 .. n
        BY <1>0
      <4> HIDE DEF body
      <4>2. CASE i = k + 1
        BY <4>1, <4>2, Zenon
      <4>3. CASE i # k + 1
        <5>1. i \in 0 .. k
          BY <4>3, <1>0
        <5>2. h[i] = g[i]
          BY <4>1, <4>3, Zenon
        <5> HIDE DEF h
        <5> QED BY <5>1, <5>2, <2>1, Zenon
      <4> QED BY <4>2, <4>3
    <3>2. i # 0 => h[i - 1] = g[i - 1]
      <4>1. i # 0 => i - 1 \in 0 .. n /\ i - 1 # k + 1
        BY <1>0
      <4> HIDE DEF body
      <4> QED BY <4>1, Zenon
    <3> HIDE DEF h
    <3>3. body(g, i) = body(h, i)
      BY <3>2, Zenon
    <3> HIDE DEF body
    <3> QED BY <3>1, <3>3, Zenon
  <2>3. Fits(h, k + 1)
    <3> HIDE DEF h, body
    <3> QED BY <2>2, Zenon
  <2>4. k + 1 \in 0 .. n
    BY <1>0
  <2> HIDE DEF h, Fits
  <2> QED BY <2>3, <2>4, Zenon
<1>3. n \in S
  <2>1. 0 .. n \subseteq S
    <3> HIDE DEF S
    <3> QED BY <1>0, <1>1, <1>2, UpwardInduction
  <2>2. n \in 0 .. n
    BY <1>0
  <2> HIDE DEF S
  <2> QED BY <2>1, <2>2, Zenon
<1>4. PICK g : Fits(g, n)
  BY <1>3
<1> DEFINE h == [i \in 0 .. n |-> g[i]]
<1>5. ASSUME NEW i \in 0 .. n PROVE h[i] = body(h, i)
  <2>1. h[i] = body(g, i)
    <3> HIDE DEF body
    <3> QED BY <1>4, Zenon
  <2>2. i # 0 => h[i - 1] = g[i - 1]
    <3>1. i # 0 => i - 1 \in 0 .. n
      BY <1>0
    <3> HIDE DEF body
    <3> QED BY <3>1, Zenon
  <2> HIDE DEF h
  <2>3. body(g, i) = body(h, i)
    BY <2>2, Zenon
  <2> HIDE DEF body
  <2> QED BY <2>1, <2>3, Zenon
<1>6. h = [i \in 0 .. n |-> body(h, i)]
  <2>1. h = [i \in 0 .. n |-> h[i]]
    BY Zenon
  <2> HIDE DEF h, body
  <2> QED BY <1>5, <2>1
<1> DEFINE c == CHOOSE c : IsReadLoop(c, f, p, shapes)
<1>7. IsReadLoop(c, f, p, shapes)
  <2>1. IsReadLoop(h, f, p, shapes)
    <3> HIDE DEF h
    <3> QED BY <1>6, Zenon DEF IsReadLoop, n
  <2> HIDE DEF h
  <2> QED BY <2>1, Zenon
<1>8. ReadAll(f, p, shapes) = c[n]
  BY Zenon DEF ReadAll, IsReadLoop, n
<1> HIDE DEF c
<1>9. c = [i \in 0 .. n |-> body(c, i)]
  BY <1>7, Zenon DEF IsReadLoop, n
<1>10. \A i \in 0 .. n : c[i] = body(c, i)
  <2> TAKE i \in 0 .. n
  <2> DEFINE d == [j \in 0 .. n |-> body(c, j)]
  <2>1. c = d /\ d[i] = body(c, i)
    <3> HIDE DEF body
    <3> QED BY <1>9, Zenon
  <2> HIDE DEF d, body
  <2> QED BY <2>1, Zenon
<1>11. c[0] = Got(<<>>, p)
  BY <1>10, <1>0
<1>12. \A i \in 1 .. n : c[i] = ReadNext(f, c[i - 1], shapes[i])
  <2>1. \A i \in 1 .. n : i \in 0 .. n /\ i # 0
    BY <1>0
  <2> QED BY <2>1, <1>10, Zenon
<1> QED BY <1>8, <1>11, <1>12, Zenon DEF n, ReadSteps

\* r is what reading some parts gives that end at end: their values, or an
\* error when the file ends first or a part is out of its range.
AllRead(f, end, shapes, vals, o, r) ==
  /\ r.err = "none" =>
       /\ r.pos = end /\ end <= Len(f) + 1 /\ IsSeq(r.val) /\ Len(r.val) = Len(shapes)
       /\ \A k \in 1 .. Len(shapes) : Matches(f, shapes[k], r.val[k], vals[o + k])
  /\ end <= Len(f) + 1 /\ (\A k \in 1 .. Len(shapes) : PartIsSound(shapes[k], vals[o + k]))
       => r.err = "none"

\* r is what prev becomes when one more part is read.
StepRead(f, e, shape, val, prev, r) ==
  /\ r.err = "none" =>
       /\ r.pos = e /\ e <= Len(f) + 1 /\ IsSeq(r.val) /\ Len(r.val) = Len(prev.val) + 1
       /\ \A k \in 1 .. Len(prev.val) : r.val[k] = prev.val[k]
       /\ Matches(f, shape, r.val[Len(prev.val) + 1], val)
  /\ e <= Len(f) + 1 /\ PartIsSound(shape, val) => r.err = "none"

LEMMA PartStep ==
  ASSUME NEW f \in Seq(Cells), NEW q \in Nat \ {0}, NEW shape \in ShapeNames, NEW val,
         Encodable(shape, val), Agrees(f, q, EncodeOne(shape, val)), NEW prev,
         prev.err = "none", prev.pos = q, q <= Len(f) + 1, IsSeq(prev.val),
         NEW e, e = q + Len(EncodeOne(shape, val)), NEW r, r = ReadNext(f, prev, shape)
  PROVE  StepRead(f, e, shape, val, prev, r)
<1> USE DEF StepRead
<1> DEFINE one == ReadOne(f, q, shape)
<1>1. Reads(f, q, shape, val, one)
  <2>1. q \in 1 .. Len(f) + 1
    BY CellsAreNat
  <2> QED BY <2>1, PartReads, Zenon
<1> HIDE DEF one
<1>2. /\ one.err = "none" => one.pos = e /\ e <= Len(f) + 1 /\ Matches(f, shape, one.val, val)
      /\ e <= Len(f) + 1 /\ PartIsSound(shape, val) => one.err = "none"
  BY <1>1, Zenon DEF Reads
<1>3. r = IF one.err # "none" THEN Broken(one.err) ELSE Got(Append(prev.val, one.val), one.pos)
  BY Zenon DEF ReadNext, Extended, one
<1>4. CASE one.err # "none"
  <2>1. r.err # "none"
    BY <1>3, <1>4 DEF Broken
  <2> QED BY <2>1, <1>2, <1>4, Zenon
<1>5. CASE one.err = "none"
  <2> DEFINE s == prev.val
             t == Append(s, one.val)
  <2>1. /\ IsSeq(t) /\ Len(t) = Len(s) + 1 /\ t[Len(s) + 1] = one.val
        /\ \A k \in 1 .. Len(s) : t[k] = s[k]
    <3> DEFINE x == one.val
    <3>1. IsSeq(s)
      OBVIOUS
    <3> HIDE DEF s, x
    <3> QED BY <3>1, AppendToAny DEF x
  <2> HIDE DEF t
  <2>2. r.err = "none" /\ r.val = t /\ r.pos = one.pos
    BY <1>3, <1>5 DEF Got, t
  <2> HIDE DEF s
  <2>3. Matches(f, shape, t[Len(s) + 1], val)
    BY <2>1, <1>2, <1>5, Zenon
  <2> QED BY <2>1, <2>2, <2>3, <1>2, <1>5, Zenon DEF s
<1> QED BY <1>4, <1>5

LEMMA ReadAllReads ==
  ASSUME NEW f \in Seq(Cells), NEW p \in Nat \ {0}, NEW E \in Seq(Seq(Cells)),
         Agrees(f, p, FlattenSeq(E)), NEW o \in Nat, NEW shapes \in Seq(ShapeNames), NEW vals,
         o + Len(shapes) <= Len(E),
         \A k \in 1 .. Len(shapes) : /\ Encodable(shapes[k], vals[o + k])
                                     /\ E[o + k] = EncodeOne(shapes[k], vals[o + k]),
         NEW start, start = p + Len(Upto(E, o)), start <= Len(f) + 1
  PROVE  AllRead(f, p + Len(Upto(E, o + Len(shapes))), shapes, vals, o, ReadAll(f, start, shapes))
<1> DEFINE n == Len(shapes)
           end(i) == p + Len(Upto(E, o + i))
<1>1. n \in Nat /\ (\A k \in 1 .. n : shapes[k] \in ShapeNames) /\ Len(E) \in Nat /\ Len(f) \in Nat
  BY CellsAreNat
<1>2. PICK u : /\ ReadAll(f, start, shapes) = u[n] /\ u[0] = Got(<<>>, start)
               /\ \A i \in 1 .. n : u[i] = ReadNext(f, u[i - 1], shapes[i])
  <2>1. Len(shapes) \in Nat
    OBVIOUS
  <2>2. PICK u : ReadAll(f, start, shapes) = u[Len(shapes)] /\ ReadSteps(u, f, start, shapes)
    BY <2>1, ReadAllLoops, Zenon
  <2> QED BY <2>2, Zenon DEF ReadSteps
<1>3. \A k \in 1 .. n : Encodable(shapes[k], vals[o + k]) /\ E[o + k] = EncodeOne(shapes[k], vals[o + k])
  OBVIOUS
<1>4. o + n <= Len(E)
  OBVIOUS
<1> HIDE DEF n
<1>5. \A i \in 0 .. n : o + i \in 0 .. Len(E)
  BY <1>1, <1>4
<1>6. \A i \in 0 .. n : Upto(E, o + i) \in Seq(Cells)
  BY <1>5, UptoSteps, Zenon
<1>7. \A i \in 0 .. n : end(i) \in Nat \ {0}
  <2> TAKE i \in 0 .. n
  <2> DEFINE x == Upto(E, o + i)
  <2>1. x \in Seq(Cells)
    BY <1>6
  <2> HIDE DEF x
  <2>2. Len(x) \in Nat
    BY <2>1
  <2> QED BY <2>2 DEF x
<1>8. end(0) = start
  <2>1. o + 0 = o
    OBVIOUS
  <2> QED BY <2>1, Zenon
<1> DEFINE Right(i) ==
             /\ u[i].err = "none" =>
                  /\ u[i].pos = end(i) /\ end(i) <= Len(f) + 1 /\ IsSeq(u[i].val) /\ Len(u[i].val) = i
                  /\ \A k \in 1 .. i : Matches(f, shapes[k], u[i].val[k], vals[o + k])
             /\ end(i) <= Len(f) + 1 /\ (\A k \in 1 .. i : PartIsSound(shapes[k], vals[o + k]))
                  => u[i].err = "none"
           S == {i \in 0 .. n : Right(i)}
<1>9. 0 \in S
  <2>1. u[0].err = "none" /\ u[0].pos = start /\ u[0].val = <<>>
    BY <1>2 DEF Got
  <2>2. IsSeq(<<>>) /\ Len(<<>>) = 0
    <3>1. <<>> \in Seq({}) /\ Len(<<>>) = 0
      OBVIOUS
    <3> QED BY <3>1, SequencesAreSeq, Zenon
  <2>3. IsSeq(u[0].val) /\ Len(u[0].val) = 0
    BY <2>1, <2>2, Zenon
  <2>4. 0 \in 0 .. n /\ ~ \E k \in 1 .. 0 : TRUE
    BY <1>1
  <2> HIDE DEF end
  <2>5. Right(0)
    BY <2>1, <2>3, <2>4, <1>8, Zenon
  <2> QED BY <2>4, <2>5
<1>10. ASSUME NEW j \in 0 .. n - 1, j \in S PROVE j + 1 \in S
  <2> DEFINE i == j + 1
             q == end(j)
             e == end(i)
             shape == shapes[i]
             val == vals[o + i]
             prev == u[j]
             r == u[i]
  <2>1. i \in 1 .. n /\ i \in 0 .. n /\ i - 1 = j /\ j \in 0 .. n /\ j \in Nat /\ o + i - 1 = o + j /\ o + i \in 1 .. Len(E)
    BY <1>1, <1>4
  <2>2. Right(j)
    BY <1>10
  <2> HIDE DEF i
  <2>3. r = ReadNext(f, prev, shape)
    BY <1>2, <2>1, Zenon
  <2>4. Agrees(f, q, EncodeOne(shape, val))
    <3> DEFINE x == o + i
    <3>1. x \in 1 .. Len(E) /\ x - 1 = o + j
      BY <2>1
    <3>2. E[x] = EncodeOne(shape, val)
      BY <1>3, <2>1, Zenon
    <3> HIDE DEF x
    <3>3. Agrees(f, p + Len(Upto(E, x - 1)), E[x])
      BY <3>1, PartsAgree
    <3> QED BY <3>1, <3>2, <3>3, Zenon
  <2>5. e = q + Len(EncodeOne(shape, val))
    <3> DEFINE x == o + i
               a == Upto(E, x)
               b == Upto(E, o + j)
               w == EncodeOne(shape, val)
    <3>1. x \in 1 .. Len(E) /\ x - 1 = o + j
      BY <2>1
    <3>2. E[x] = w /\ w \in Seq(Cells)
      <4>1. E[x] = w /\ shape \in ShapeNames /\ Encodable(shape, val)
        BY <1>1, <1>3, <2>1, Zenon
      <4> QED BY <4>1, EncodedOne, Zenon
    <3>3. a = b \o w /\ b \in Seq(Cells)
      <4> HIDE DEF x
      <4>1. a = Upto(E, x - 1) \o E[x]
        BY <3>1, UptoSteps, Zenon
      <4> QED BY <4>1, <3>1, <3>2, <1>6, <2>1, Zenon
    <3>5. e = p + Len(a) /\ q = p + Len(b)
      BY Zenon
    <3> HIDE DEF a, b, w, e, q
    <3>4. Len(a) = Len(b) + Len(w) /\ Len(b) \in Nat /\ Len(w) \in Nat
      BY <3>2, <3>3
    <3>6. e = q + Len(w)
      BY <3>4, <3>5
    <3> QED BY <3>6, Zenon DEF w
  <2>6. q \in Nat \ {0} /\ e \in Nat \ {0} /\ q <= e
    <3>1. q \in Nat \ {0} /\ e \in Nat \ {0}
      BY <1>7, <2>1
    <3> DEFINE w == EncodeOne(shape, val)
    <3>2. w \in Seq(Cells)
      <4>1. shape \in ShapeNames /\ Encodable(shape, val)
        BY <1>1, <1>3, <2>1, Zenon
      <4> QED BY <4>1, EncodedOne, Zenon
    <3> HIDE DEF w, q, e
    <3>3. Len(w) \in Nat
      BY <3>2
    <3> QED BY <3>1, <3>3, <2>5 DEF w
  <2>7. CASE prev.err # "none"
    <3>1. r.err # "none"
      BY <2>3, <2>7, Zenon DEF ReadNext
    <3>2. ~ (e <= Len(f) + 1 /\ \A k \in 1 .. i : PartIsSound(shapes[k], vals[o + k]))
      <4> SUFFICES ASSUME e <= Len(f) + 1, \A k \in 1 .. i : PartIsSound(shapes[k], vals[o + k])
                   PROVE  FALSE
        OBVIOUS
      <4>1. q <= Len(f) + 1
        <5> HIDE DEF q, e
        <5> QED BY <2>6, <1>1
      <4>2. \A k \in 1 .. j : k \in 1 .. i
        BY <2>1
      <4> HIDE DEF end
      <4> QED BY <4>1, <4>2, <2>2, <2>7, Zenon
    <3>3. Right(i)
      <4> HIDE DEF end
      <4> QED BY <3>1, <3>2, Zenon
    <3> HIDE DEF Right
    <3> QED BY <3>3, <2>1, Zenon DEF i
  <2>8. CASE prev.err = "none"
    <3>1. /\ prev.pos = q /\ q <= Len(f) + 1 /\ IsSeq(prev.val) /\ Len(prev.val) = j
          /\ \A k \in 1 .. j : Matches(f, shapes[k], prev.val[k], vals[o + k])
      BY <2>2, <2>8, Zenon
    <3>2. shape \in ShapeNames /\ Encodable(shape, val)
      BY <1>1, <1>3, <2>1, Zenon
    <3>3. /\ r.err = "none" =>
               /\ r.pos = e /\ e <= Len(f) + 1 /\ IsSeq(r.val) /\ Len(r.val) = Len(prev.val) + 1
               /\ \A k \in 1 .. Len(prev.val) : r.val[k] = prev.val[k]
               /\ Matches(f, shape, r.val[Len(prev.val) + 1], val)
          /\ e <= Len(f) + 1 /\ PartIsSound(shape, val) => r.err = "none"
      <4>1. IsSeq(prev.val) /\ prev.pos = q /\ q <= Len(f) + 1
        BY <3>1, Zenon
      <4> HIDE DEF q, e, shape, val, prev, r
      <4>2. StepRead(f, e, shape, val, prev, r)
        BY <2>3, <2>4, <2>5, <2>6, <2>8, <4>1, <3>2, PartStep, Zenon
      <4> QED BY <4>2, Zenon DEF StepRead
    <3>4. /\ r.err = "none" =>
               /\ r.pos = e /\ e <= Len(f) + 1 /\ IsSeq(r.val) /\ Len(r.val) = i
               /\ \A k \in 1 .. i : Matches(f, shapes[k], r.val[k], vals[o + k])
      <4> SUFFICES ASSUME r.err = "none"
                   PROVE  /\ r.pos = e /\ e <= Len(f) + 1 /\ IsSeq(r.val) /\ Len(r.val) = i
                          /\ \A k \in 1 .. i : Matches(f, shapes[k], r.val[k], vals[o + k])
        OBVIOUS
      <4>1. j + 1 = i /\ \A k \in 1 .. i : k \in 1 .. j \/ k = i
        BY <2>1 DEF i
      <4>2. r.pos = e /\ e <= Len(f) + 1 /\ IsSeq(r.val) /\ Len(r.val) = i
        BY <3>1, <3>3, <4>1, Zenon
      <4>3. /\ \A k \in 1 .. j : r.val[k] = prev.val[k]
            /\ Matches(f, shapes[i], r.val[i], vals[o + i])
        BY <3>1, <3>3, <4>1, Zenon
      <4>4. ASSUME NEW k \in 1 .. i PROVE Matches(f, shapes[k], r.val[k], vals[o + k])
        <5>1. CASE k = i
          BY <5>1, <4>3, Zenon
        <5>2. CASE k \in 1 .. j
          <6>1. r.val[k] = prev.val[k]
            BY <5>2, <4>3, Zenon
          <6>2. Matches(f, shapes[k], prev.val[k], vals[o + k])
            BY <5>2, <3>1, Zenon
          <6> QED BY <6>1, <6>2, Zenon
        <5> QED BY <5>1, <5>2, <4>1, Zenon
      <4> QED BY <4>2, <4>4, Zenon
    <3>5. e <= Len(f) + 1 /\ (\A k \in 1 .. i : PartIsSound(shapes[k], vals[o + k]))
            => r.err = "none"
      <4>1. i \in 1 .. i
        BY <2>1
      <4> QED BY <4>1, <3>3, Zenon
    <3>6. Right(i)
      BY <3>4, <3>5, Zenon
    <3> HIDE DEF Right
    <3> QED BY <3>6, <2>1, Zenon DEF i
  <2> QED BY <2>7, <2>8
<1>11. Right(n)
  <2>1. 0 .. n \subseteq S
    <3> HIDE DEF S
    <3> QED BY <1>1, <1>9, <1>10, UpwardInduction
  <2>2. n \in 0 .. n
    BY <1>1
  <2>3. n \in S
    <3> HIDE DEF S
    <3> QED BY <2>1, <2>2, Zenon
  <2> HIDE DEF Right
  <2> QED BY <2>3, Zenon
<1> QED BY <1>2, <1>11, Zenon DEF AllRead, n
-----------------------------------------------------------------------------
(* The records of a dump                                                    *)

LEMMA ShapesAreNames ==
  /\ DOMAIN Shape = 1 .. 17
  /\ \A tag \in 1 .. 17 : Shape[tag] \in Seq(ShapeNames)
  /\ Shape[TagMemProf] = <<"uint", "uint", "uint">>
<1>1. DOMAIN Shape = 1 .. 17
  BY DEF Shape, TagObject, TagAllocSample
<1> USE DEF TagEOF, TagObject, TagOtherRoot, TagType, TagGoroutine, TagStackFrame, TagParams,
            TagFinalizer, TagItab, TagOSThread, TagMemStats, TagQueuedFinalizer, TagData, TagBSS,
            TagDefer, TagPanic, TagMemProf, TagAllocSample
<1>2. ASSUME NEW tag \in 1 .. 17 PROVE Shape[tag] \in Seq(ShapeNames)
  <2> USE DEF Shape, ShapeNames
  <2>1. CASE tag = 6
    <3>1. Shape[tag] = <<"bool", "uint", "uint", "uint", "string", "string", "uint">>
      BY <2>1
    <3> HIDE DEF Shape
    <3> QED BY <3>1
  <2>2. CASE tag = 3
    <3>1. Shape[tag] = <<"uint", "uint", "string", "bool">>
      BY <2>2
    <3> HIDE DEF Shape
    <3> QED BY <3>1
  <2>3. CASE tag \in {1, 12, 13}
    <3>1. Shape[tag] = <<"uint", "bytes", "fields">>
      BY <2>3
    <3> HIDE DEF Shape
    <3> QED BY <3>1
  <2>4. CASE tag = 2
    <3>1. Shape[tag] = <<"string", "uint">>
      BY <2>4
    <3> HIDE DEF Shape
    <3> QED BY <3>1
  <2>5. CASE tag \in {7, 11}
    <3>1. Shape[tag] = [i \in 1 .. 5 |-> "uint"]
      BY <2>5
    <3> HIDE DEF Shape
    <3> QED BY <3>1
  <2>6. CASE tag \in {8, 17}
    <3>1. Shape[tag] = <<"uint", "uint">>
      BY <2>6
    <3> HIDE DEF Shape
    <3> QED BY <3>1
  <2>7. CASE tag \in {9, 16}
    <3>1. Shape[tag] = <<"uint", "uint", "uint">>
      BY <2>7
    <3> HIDE DEF Shape
    <3> QED BY <3>1
  <2>8. CASE tag = 10
    <3>1. Shape[tag] = [i \in 1 .. MemStatsWords |-> "uint"] /\ MemStatsWords \in Nat
      BY <2>8, ParserAssumption
    <3> HIDE DEF Shape
    <3> QED BY <3>1
  <2>9. CASE tag = 4
    <3>1. Shape[tag] = <<"uint", "uint", "uint", "uint", "uint", "bool", "bool", "uint",
                         "string", "uint", "uint", "uint", "uint">>
      BY <2>9
    <3> HIDE DEF Shape
    <3> QED BY <3>1
  <2>10. CASE tag = 5
    <3>1. Shape[tag] = <<"uint", "uint", "uint", "bytes", "uint", "uint", "uint", "string",
                         "fields">>
      BY <2>10
    <3> HIDE DEF Shape
    <3> QED BY <3>1
  <2>11. CASE tag = 14
    <3>1. Shape[tag] = [i \in 1 .. 7 |-> "uint"]
      BY <2>11
    <3> HIDE DEF Shape
    <3> QED BY <3>1
  <2>12. CASE tag = 15
    <3>1. Shape[tag] = [i \in 1 .. 6 |-> "uint"]
      BY <2>12
    <3> HIDE DEF Shape
    <3> QED BY <3>1
  <2>13. tag = 1 \/ tag = 2 \/ tag = 3 \/ tag = 4 \/ tag = 5 \/ tag = 6 \/ tag = 7 \/ tag = 8
         \/ tag = 9 \/ tag = 10 \/ tag = 11 \/ tag = 12 \/ tag = 13 \/ tag = 14 \/ tag = 15
         \/ tag = 16 \/ tag = 17
    OBVIOUS
  <2> HIDE DEF Shape, ShapeNames
  <2> QED BY <2>1, <2>2, <2>3, <2>4, <2>5, <2>6, <2>7, <2>8, <2>9, <2>10, <2>11, <2>12, <2>13
<1>3. Shape[TagMemProf] = <<"uint", "uint", "uint">>
  BY DEF Shape
<1> QED BY <1>1, <1>2, <1>3

LEMMA StackShapes ==
  ASSUME NEW n \in Nat
  PROVE  StackShape(n) \in Seq(ShapeNames) /\ Len(StackShape(n)) = 3 * n + 2
BY DEF StackShape, ShapeNames

\* The parts of a record as they are written.
PartsOf(record) ==
  [i \in DOMAIN record.vals |-> EncodeOne(ShapeOf(record)[i], record.vals[i])]

LEMMA RecordShapes ==
  ASSUME NEW record, WellFormed(record)
  PROVE  /\ ShapeOf(record) \in Seq(ShapeNames) /\ DOMAIN record.vals = 1 .. Len(ShapeOf(record))
         /\ \A k \in 1 .. Len(ShapeOf(record)) :
              Encodable(ShapeOf(record)[k], record.vals[k])
         /\ record.tag \in DOMAIN Shape \ {TagMemProf} => ShapeOf(record) = Shape[record.tag]
         /\ record.tag = TagMemProf =>
              /\ record.vals[3] \in Nat
              /\ ShapeOf(record) = Shape[TagMemProf] \o StackShape(record.vals[3])
<1>1. CASE record.tag = TagMemProf
  <2>1. record.vals[3] \in Nat
    BY <1>1, MaxUintIsNat DEF WellFormed
  <2>2. ShapeOf(record) = Shape[TagMemProf] \o StackShape(record.vals[3])
    BY <1>1, Zenon DEF ShapeOf
  <2>3. Shape[TagMemProf] \in Seq(ShapeNames)
    <3>1. TagMemProf \in 1 .. 17
      BY DEF TagMemProf
    <3> QED BY <3>1, ShapesAreNames, Zenon
  <2>4. ShapeOf(record) \in Seq(ShapeNames)
    BY <2>1, <2>2, <2>3, StackShapes, ConcatProperties, Zenon
  <2>5. DOMAIN ShapeOf(record) = 1 .. Len(ShapeOf(record))
    BY <2>4, LenProperties, Zenon
  <2> QED BY <1>1, <2>1, <2>2, <2>4, <2>5, Zenon DEF WellFormed
<1>2. CASE record.tag # TagMemProf
  <2>1. ShapeOf(record) \in Seq(ShapeNames)
    <3>1. CASE record.tag \in DOMAIN Shape
      BY <1>2, <3>1, ShapesAreNames, Zenon DEF ShapeOf
    <3>2. CASE record.tag \notin DOMAIN Shape
      <4>1. ShapeOf(record) = <<>>
        BY <1>2, <3>2, Zenon DEF ShapeOf
      <4> QED BY <4>1
    <3> QED BY <3>1, <3>2
  <2>2. record.tag \in DOMAIN Shape => ShapeOf(record) = Shape[record.tag]
    BY <1>2, Zenon DEF ShapeOf
  <2>3. DOMAIN ShapeOf(record) = 1 .. Len(ShapeOf(record))
    BY <2>1, LenProperties, Zenon
  <2> QED BY <1>2, <2>1, <2>2, <2>3, Zenon DEF WellFormed
<1> QED BY <1>1, <1>2

LEMMA EncodedRecord ==
  ASSUME NEW record, WellFormed(record)
  PROVE  /\ PartsOf(record) \in Seq(Seq(Cells)) /\ Len(PartsOf(record)) = Len(ShapeOf(record))
         /\ FlattenSeq(PartsOf(record)) \in Seq(Cells)
         /\ EncodeRecord(record) = EncodeUint(record.tag) \o FlattenSeq(PartsOf(record))
         /\ EncodeUint(record.tag) \in Seq(Cells) /\ EncodeRecord(record) \in Seq(Cells)
<1> DEFINE n == Len(ShapeOf(record))
           s == ShapeOf(record)
           E == PartsOf(record)
           flat == FlattenSeq(E)
<1>1. /\ s \in Seq(ShapeNames) /\ DOMAIN record.vals = 1 .. n /\ n \in Nat
      /\ \A k \in 1 .. n : s[k] \in ShapeNames /\ Encodable(s[k], record.vals[k])
  <2>1. s \in Seq(ShapeNames)
    BY RecordShapes
  <2> HIDE DEF s
  <2>2. Len(s) \in Nat /\ \A k \in 1 .. Len(s) : s[k] \in ShapeNames
    BY <2>1
  <2> QED BY <2>1, <2>2, RecordShapes, Zenon DEF s
<1>2. \A k \in 1 .. n : EncodeOne(s[k], record.vals[k]) \in Seq(Cells)
  BY <1>1, EncodedOne, Zenon
<1>3. E \in Seq(Seq(Cells)) /\ Len(E) = n
  <2>1. E \in [1 .. n -> Seq(Cells)]
    BY <1>1, <1>2, Zenon DEF PartsOf
  <2> HIDE DEF E, n
  <2> QED BY <1>1, <2>1
<1> HIDE DEF E
<1>4. flat \in Seq(Cells)
  <2>1. Len(E) \in 0 .. Len(E)
    BY <1>3
  <2> QED BY <1>3, <2>1, UptoSteps, Zenon
<1>5. EncodeRecord(record) = EncodeUint(record.tag) \o flat
  BY Zenon DEF EncodeRecord, PartsOf, E
<1>6. EncodeUint(record.tag) \in Seq(Cells)
  <2>1. record.tag \in 0 .. MaxUint
    BY Zenon DEF WellFormed
  <2> QED BY <2>1, EncodedInteger, Zenon
<1>7. EncodeRecord(record) \in Seq(Cells)
  BY <1>4, <1>5, <1>6, ConcatProperties, Zenon
<1> QED BY <1>3, <1>4, <1>5, <1>6, <1>7, Zenon DEF E

\* The parts of a record are read as they were written.
LEMMA RecordReads ==
  ASSUME file \in Seq(Cells), NEW q \in Nat \ {0}, q <= Len(file) + 1, NEW record, WellFormed(record),
         record.tag \in DOMAIN Shape, Agrees(file, q, FlattenSeq(PartsOf(record)))
  PROVE  AllRead(file, q + Len(FlattenSeq(PartsOf(record))), ShapeOf(record), record.vals, 0,
                 Parts(record.tag, q))
<1> DEFINE s == ShapeOf(record)
           E == PartsOf(record)
           vals == record.vals
           n == Len(s)
           end == q + Len(FlattenSeq(E))
           r == Parts(record.tag, q)
<1>1. E \in Seq(Seq(Cells)) /\ Len(E) = n /\ n \in Nat
  <2>1. E \in Seq(Seq(Cells)) /\ Len(E) = n
    BY EncodedRecord, Zenon
  <2> QED BY <2>1
<1>2. s \in Seq(ShapeNames) /\ DOMAIN vals = 1 .. n
  BY RecordShapes, Zenon
<1>3. \A k \in 1 .. n : Encodable(s[k], vals[k]) /\ E[k] = EncodeOne(s[k], vals[k])
  <2>1. \A k \in 1 .. n : Encodable(s[k], vals[k])
    BY RecordShapes, Zenon
  <2>2. \A k \in 1 .. n : E[k] = EncodeOne(s[k], vals[k])
    BY <1>2, Zenon DEF PartsOf
  <2> QED BY <2>1, <2>2, Zenon
<1>4. end = q + Len(Upto(E, n)) /\ q = q + Len(Upto(E, 0))
  <2>1. Upto(E, 0) = <<>> /\ Upto(E, Len(E)) = FlattenSeq(E)
    BY <1>1, UptoSteps, Zenon
  <2>2. Len(Upto(E, 0)) = 0
    BY <2>1
  <2> DEFINE l == Len(Upto(E, 0))
  <2>3. l = 0
    BY <2>2
  <2> HIDE DEF l
  <2>4. q = q + l
    BY <2>3
  <2> QED BY <2>1, <2>4, <1>1, Zenon DEF l
<1>5. Agrees(file, q, FlattenSeq(E))
  OBVIOUS
<1> HIDE DEF E, s
<1>6. CASE record.tag # TagMemProf
  <2>1. s = Shape[record.tag]
    BY <1>6, RecordShapes, Zenon DEF s
  <2>2. r = ReadAll(file, q, s)
    BY <1>6, <2>1, Zenon DEF Parts
  <2>3. \A k \in 1 .. Len(s) : Encodable(s[k], vals[0 + k]) /\ E[0 + k] = EncodeOne(s[k], vals[0 + k])
    <3>1. \A k \in 1 .. Len(s) : 0 + k = k
      OBVIOUS
    <3> QED BY <3>1, <1>3, Zenon
  <2>4. 0 \in Nat /\ 0 + Len(s) <= Len(E) /\ 0 + Len(s) = n
    BY <1>1
  <2>5. AllRead(file, q + Len(Upto(E, 0 + Len(s))), s, vals, 0, ReadAll(file, q, s))
    BY <1>1, <1>2, <1>4, <1>5, <2>3, <2>4, ReadAllReads, Zenon
  <2> QED BY <2>2, <2>4, <2>5, <1>4, Zenon DEF s, E
<1>7. CASE record.tag = TagMemProf
  <2> DEFINE a == Shape[TagMemProf]
             m == vals[3]
             b == StackShape(m)
             head == ReadAll(file, q, a)
             mid == q + Len(Upto(E, 3))
  <2>1. a = <<"uint", "uint", "uint">> /\ m \in Nat /\ s = a \o b /\ b \in Seq(ShapeNames)
    BY <1>7, ShapesAreNames, RecordShapes, StackShapes, Zenon DEF s
  <2> HIDE DEF b, m
  <2>2. a \in Seq(ShapeNames) /\ Len(a) = 3 /\ \A k \in 1 .. 3 : a[k] = "uint"
    <3> HIDE DEF a
    <3> QED BY <2>1 DEF ShapeNames
  <2> HIDE DEF a
  <2>3. /\ n = 3 + Len(b) /\ Len(b) \in Nat
        /\ \A k \in 1 .. 3 : s[k] = a[k]
        /\ \A k \in 1 .. Len(b) : s[3 + k] = b[k]
    BY <2>1, <2>2
  <2>4. /\ AllRead(file, mid, a, vals, 0, head)
        /\ mid \in Nat \ {0}
    <3>1. \A k \in 1 .. Len(a) : Encodable(a[k], vals[0 + k]) /\ E[0 + k] = EncodeOne(a[k], vals[0 + k])
      <4>1. \A k \in 1 .. Len(a) : 0 + k = k /\ k \in 1 .. 3 /\ k \in 1 .. n
        BY <2>2, <2>3
      <4> QED BY <4>1, <1>3, <2>3, Zenon
    <3>2. 0 \in Nat /\ 0 + Len(a) <= Len(E) /\ 0 + Len(a) = 3 /\ 3 \in 0 .. Len(E)
      BY <1>1, <2>2, <2>3
    <3>3. AllRead(file, q + Len(Upto(E, 0 + Len(a))), a, vals, 0, head)
      BY <1>1, <1>4, <1>5, <2>2, <3>1, <3>2, ReadAllReads, Zenon
    <3>4. Upto(E, 3) \in Seq(Cells)
      BY <1>1, <3>2, UptoSteps, Zenon
    <3> DEFINE x == Upto(E, 3)
    <3>5. mid = q + Len(x)
      BY Zenon
    <3> HIDE DEF x, mid
    <3>6. mid \in Nat \ {0}
      BY <3>4, <3>5 DEF x
    <3> QED BY <3>2, <3>3, <3>6, Zenon DEF mid
  <2>5. mid <= end
    <3>1. 3 \in 0 .. Len(E) /\ n \in 0 .. Len(E) /\ 3 <= n
      BY <1>1, <2>3
    <3> DEFINE x == Len(Upto(E, 3))
               y == Len(Upto(E, n))
    <3>2. x <= y /\ Upto(E, 3) \in Seq(Cells) /\ Upto(E, n) \in Seq(Cells)
      BY <1>1, <3>1, UptoExtends, UptoSteps, Zenon
    <3>3. x \in Nat /\ y \in Nat
      BY <3>2
    <3>4. mid = q + x /\ end = q + y
      BY <1>4, Zenon
    <3> HIDE DEF x, y, mid, end
    <3> QED BY <3>2, <3>3, <3>4
  <2>6. r = WithStack(head)
    BY <1>7, Zenon DEF Parts, a
  <2> HIDE DEF head, mid, r, end
  <2>7. Len(file) \in Nat
    BY CellsAreNat
  <2>8. end \in Nat
    <3> DEFINE x == Upto(E, n)
    <3>1. x \in Seq(Cells)
      <4>1. n \in 0 .. Len(E)
        BY <1>1
      <4> QED BY <1>1, <4>1, UptoSteps, Zenon
    <3> HIDE DEF x
    <3>2. Len(x) \in Nat
      BY <3>1
    <3>3. end = q + Len(x)
      BY <1>4, Zenon DEF x, end
    <3> QED BY <3>2, <3>3
  <2>9. CASE head.err # "none"
    <3>1. r.err # "none"
      BY <2>6, <2>9, Zenon DEF WithStack
    <3>2. ~ (end <= Len(file) + 1 /\ \A k \in 1 .. n : PartIsSound(s[k], vals[0 + k]))
      <4> SUFFICES ASSUME end <= Len(file) + 1, \A k \in 1 .. n : PartIsSound(s[k], vals[0 + k])
                   PROVE  FALSE
        OBVIOUS
      <4>1. mid <= Len(file) + 1
        BY <2>4, <2>5, <2>7, <2>8
      <4>2. \A k \in 1 .. Len(a) : k \in 1 .. 3 /\ k \in 1 .. n
        BY <2>2, <2>3
      <4>3. \A k \in 1 .. Len(a) : PartIsSound(a[k], vals[0 + k])
        BY <4>2, <2>3, Zenon
      <4> QED BY <4>1, <4>3, <2>4, <2>9, Zenon DEF AllRead
    <3> QED BY <3>1, <3>2, Zenon DEF AllRead, end, E, s, r
  <2>10. CASE head.err = "none"
    <3> DEFINE stack == ReadAll(file, mid, b)
    <3>1. /\ head.pos = mid /\ mid <= Len(file) + 1 /\ IsSeq(head.val) /\ Len(head.val) = 3
          /\ \A k \in 1 .. 3 : Matches(file, a[k], head.val[k], vals[0 + k])
      BY <2>2, <2>4, <2>10, Zenon DEF AllRead
    <3>2. head.val[3] = m
      <4>1. 3 \in 1 .. 3 /\ 0 + 3 = 3
        OBVIOUS
      <4>2. Matches(file, "uint", head.val[3], vals[3])
        BY <4>1, <3>1, <2>2, Zenon
      <4>3. "uint" \notin {"string", "bytes"}
        OBVIOUS
      <4> QED BY <4>2, <4>3, Zenon DEF Matches, m
    <3>3. r = Joined(head, stack)
      BY <2>6, <2>10, <3>1, <3>2, Zenon DEF WithStack, b
    <3>4. AllRead(file, end, b, vals, 3, stack)
      <4>1. \A k \in 1 .. Len(b) : Encodable(b[k], vals[3 + k]) /\ E[3 + k] = EncodeOne(b[k], vals[3 + k])
        <5>1. \A k \in 1 .. Len(b) : 3 + k \in 1 .. n
          BY <2>3
        <5> QED BY <5>1, <1>3, <2>3, Zenon
      <4>2. 3 \in Nat /\ 3 + Len(b) <= Len(E) /\ 3 + Len(b) = n
        BY <1>1, <2>3
      <4>3. mid = q + Len(Upto(E, 3)) /\ mid <= Len(file) + 1
        BY <3>1, Zenon DEF mid
      <4> HIDE DEF stack
      <4>4. AllRead(file, q + Len(Upto(E, 3 + Len(b))), b, vals, 3, stack)
        BY <1>1, <1>5, <2>1, <4>1, <4>2, <4>3, ReadAllReads, Zenon DEF stack
      <4> QED BY <4>2, <4>4, <1>4, Zenon DEF end
    <3> HIDE DEF stack
    <3>5. CASE stack.err # "none"
      <4>1. r.err # "none"
        BY <3>3, <3>5, Zenon DEF Joined
      <4>2. ~ (end <= Len(file) + 1 /\ \A k \in 1 .. n : PartIsSound(s[k], vals[0 + k]))
        <5> SUFFICES ASSUME end <= Len(file) + 1, \A k \in 1 .. n : PartIsSound(s[k], vals[0 + k])
                     PROVE  FALSE
          OBVIOUS
        <5>1. \A k \in 1 .. Len(b) : 3 + k \in 1 .. n /\ 0 + (3 + k) = 3 + k
          BY <2>3
        <5>2. \A k \in 1 .. Len(b) : PartIsSound(b[k], vals[3 + k])
          <6> TAKE k \in 1 .. Len(b)
          <6>1. PartIsSound(s[3 + k], vals[0 + (3 + k)])
            BY <5>1, Zenon
          <6> QED BY <6>1, <5>1, <2>3, Zenon
        <5> QED BY <5>2, <3>4, <3>5, Zenon DEF AllRead
      <4> QED BY <4>1, <4>2, Zenon DEF AllRead, end, E, s, r
    <3>6. CASE stack.err = "none"
      <4> DEFINE v == head.val
                 w == stack.val
                 x == v \o w
      <4>1. r = Got(x, stack.pos)
        BY <3>3, <3>6, Zenon DEF Joined
      <4>2. /\ stack.pos = end /\ end <= Len(file) + 1 /\ IsSeq(w) /\ Len(w) = Len(b)
            /\ \A k \in 1 .. Len(b) : Matches(file, b[k], w[k], vals[3 + k])
        BY <3>4, <3>6, Zenon DEF AllRead
      <4>3. IsSeq(v) /\ Len(v) = 3
        BY <3>1, Zenon
      <4> HIDE DEF v, w
      <4>4. /\ IsSeq(x) /\ Len(x) = Len(v) + Len(w)
            /\ \A i \in 1 .. Len(v) : x[i] = v[i]
            /\ \A i \in 1 .. Len(w) : x[Len(v) + i] = w[i]
        <5>1. IsSeq(v) /\ IsSeq(w)
          BY <4>2, <4>3, Zenon
        <5> QED BY ONLY <5>1, ConcatOfAny
      <4> HIDE DEF x
      <4>5. Len(x) = n
        BY <4>2, <4>3, <4>4, <2>3
      <4>6. ASSUME NEW k \in 1 .. n PROVE Matches(file, s[k], x[k], vals[0 + k])
        <5>0. 0 + k = k
          OBVIOUS
        <5>1. CASE k \in 1 .. 3
          <6>1. x[k] = v[k] /\ s[k] = a[k]
            BY <5>1, <4>3, <4>4, <2>3, Zenon
          <6>2. Matches(file, a[k], v[k], vals[0 + k])
            BY <5>1, <3>1, Zenon DEF v
          <6> QED BY <6>1, <6>2, Zenon
        <5>2. CASE k \notin 1 .. 3
          <6> DEFINE j == k - 3
          <6>1. j \in 1 .. Len(b) /\ k = 3 + j
            BY <5>2, <2>3
          <6> HIDE DEF j
          <6>2. x[k] = w[j] /\ s[k] = b[j]
            BY <6>1, <4>2, <4>3, <4>4, <2>3, Zenon
          <6>3. Matches(file, b[j], w[j], vals[3 + j])
            BY <6>1, <4>2, Zenon
          <6> QED BY <5>0, <6>1, <6>2, <6>3, Zenon
        <5> QED BY <5>1, <5>2
      <4>7. r.err = "none" /\ r.pos = end /\ r.val = x
        BY <4>1, <4>2 DEF Got
      <4>8. AllRead(file, end, s, vals, 0, r)
        BY <4>2, <4>4, <4>5, <4>6, <4>7, Zenon DEF AllRead
      <4> QED BY <4>8, Zenon DEF end, E, s, r
    <3> QED BY <3>5, <3>6
  <2> QED BY <2>9, <2>10
<1> QED BY <1>6, <1>7
-----------------------------------------------------------------------------
(* The places of a dump's records                                           *)

\* The cells of each record, and the place of the n-th record's first.
Lines(d) == [i \in DOMAIN d.records |-> EncodeRecord(d.records[i])]
Start(d, n) == Len(d.header) + 2 + Len(Upto(Lines(d), n))

LEMMA WrittenDumps ==
  ASSUME NEW d \in Dumps
  PROVE  /\ d = [header |-> d.header, records |-> d.records]
         /\ d.header \in Seq(Cells) /\ \A i \in 1 .. Len(d.header) : d.header[i] # Newline
         /\ Len(d.records) \in Nat /\ DOMAIN d.records = 1 .. Len(d.records) /\ IsSeq(d.records)
         /\ \A i \in 1 .. Len(d.records) : WellFormed(d.records[i])
<1>1. /\ d = [header |-> d.header, records |-> d.records]
      /\ d.header \in Seq(Cells \ {Newline})
      /\ d.records \in Seq(Range(d.records))
      /\ \A i \in DOMAIN d.records : WellFormed(d.records[i])
  BY DumpsAssumption, Zenon
<1>4. Len(d.records) \in Nat /\ DOMAIN d.records = 1 .. Len(d.records) /\ IsSeq(d.records)
  <2> DEFINE r == d.records
             X == Range(r)
  <2> HIDE DEF r, X
  <2>1. r \in Seq(X)
    BY <1>1, Zenon DEF r, X
  <2>2. Len(r) \in Nat /\ DOMAIN r = 1 .. Len(r) /\ IsSeq(r)
    BY <2>1 DEF IsSeq
  <2> QED BY <2>2, Zenon DEF r
<1> DEFINE h == d.header
<1>2. h \in Seq(Cells \ {Newline})
  BY <1>1, Zenon
<1> HIDE DEF h
<1>3. h \in Seq(Cells) /\ \A i \in 1 .. Len(h) : h[i] # Newline
  BY <1>2
<1> QED BY <1>1, <1>3, <1>4, Zenon DEF h

LEMMA RecordPlaces ==
  ASSUME NEW d \in Dumps
  PROVE  /\ Lines(d) \in Seq(Seq(Cells)) /\ Len(Lines(d)) = Len(d.records)
         /\ \A i \in 1 .. Len(d.records) : Lines(d)[i] = EncodeRecord(d.records[i])
         /\ FlattenSeq(Lines(d)) \in Seq(Cells)
         /\ Start(d, 0) = Len(d.header) + 2
         /\ \A n \in 0 .. Len(d.records) : Start(d, n) \in Nat \ {0}
         /\ \A i, k \in 0 .. Len(d.records) : i <= k => Start(d, i) <= Start(d, k)
<1> DEFINE n == Len(d.records)
           L == Lines(d)
           h == Len(d.header)
<1>1. n \in Nat /\ DOMAIN d.records = 1 .. n /\ (\A i \in 1 .. n : WellFormed(d.records[i]))
  BY WrittenDumps, Zenon
<1>2. \A i \in 1 .. n : EncodeRecord(d.records[i]) \in Seq(Cells)
  BY <1>1, EncodedRecord, Zenon
<1>3. \A i \in 1 .. n : L[i] = EncodeRecord(d.records[i])
  BY <1>1, Zenon DEF Lines
<1>4. L \in Seq(Seq(Cells)) /\ Len(L) = n
  <2>1. L \in [1 .. n -> Seq(Cells)]
    BY <1>1, <1>2, Zenon DEF Lines
  <2> HIDE DEF L, n
  <2> QED BY <1>1, <2>1
<1>5. h \in Nat
  <2> DEFINE x == d.header
  <2>1. x \in Seq(Cells)
    BY WrittenDumps, Zenon
  <2> HIDE DEF x
  <2>2. Len(x) \in Nat
    BY <2>1
  <2> QED BY <2>2 DEF x
<1> HIDE DEF L
<1>6. \A i \in 0 .. n : Upto(L, i) \in Seq(Cells)
  BY <1>4, UptoSteps, Zenon
<1>7. \A i, k \in 0 .. n : i <= k => Len(Upto(L, i)) <= Len(Upto(L, k))
  BY <1>4, UptoExtends, Zenon
<1>8. Upto(L, 0) = <<>> /\ FlattenSeq(L) \in Seq(Cells)
  <2>1. n \in 0 .. n
    BY <1>1
  <2> QED BY <2>1, <1>4, <1>6, UptoSteps, Zenon
<1>9. Start(d, 0) = h + 2
  <2> DEFINE x == Len(Upto(L, 0))
  <2>1. x = 0
    BY <1>8
  <2>2. Start(d, 0) = h + 2 + x
    BY Zenon DEF Start, L
  <2> HIDE DEF x, h
  <2> QED BY <2>1, <2>2, <1>5
<1>10. \A i \in 0 .. n : Len(Upto(L, i)) \in Nat /\ Start(d, i) = h + 2 + Len(Upto(L, i))
  <2> TAKE i \in 0 .. n
  <2> DEFINE x == Upto(L, i)
  <2>1. x \in Seq(Cells)
    BY <1>6
  <2> HIDE DEF x
  <2>2. Len(x) \in Nat
    BY <2>1
  <2> QED BY <2>2, Zenon DEF x, Start, L
<1> HIDE DEF h
<1>11. \A i \in 0 .. n : Start(d, i) \in Nat \ {0}
  <2> TAKE i \in 0 .. n
  <2> DEFINE x == Len(Upto(L, i))
  <2>1. x \in Nat /\ Start(d, i) = h + 2 + x
    BY <1>10
  <2> HIDE DEF x
  <2> QED BY <2>1, <1>5
<1>12. \A i, k \in 0 .. n : i <= k => Start(d, i) <= Start(d, k)
  <2> TAKE i, k \in 0 .. n
  <2> DEFINE x == Len(Upto(L, i))
             y == Len(Upto(L, k))
  <2>1. /\ x \in Nat /\ y \in Nat /\ Start(d, i) = h + 2 + x /\ Start(d, k) = h + 2 + y
        /\ i <= k => x <= y
    BY <1>7, <1>10
  <2> HIDE DEF x, y
  <2> QED BY <2>1, <1>5
<1> QED BY <1>3, <1>4, <1>8, <1>9, <1>11, <1>12, Zenon DEF L, h

\* What the whole dump consists of.
LEMMA EncodedDump ==
  ASSUME NEW d \in Dumps
  PROVE  /\ Encode(d) \in Seq(Cells) /\ Len(Encode(d)) + 1 = Start(d, Len(d.records))
         /\ \A i \in 1 .. Len(d.header) : Encode(d)[i] = d.header[i]
         /\ Encode(d)[Len(d.header) + 1] = Newline
         /\ \A i \in 1 .. Len(FlattenSeq(Lines(d))) :
              Encode(d)[Len(d.header) + 1 + i] = FlattenSeq(Lines(d))[i]
<1> DEFINE h == d.header
           L == Lines(d)
           flat == FlattenSeq(L)
           w == Encode(d)
           last == Len(d.records)
<1>1. h \in Seq(Cells) /\ L \in Seq(Seq(Cells)) /\ flat \in Seq(Cells) /\ Len(L) = last
  BY WrittenDumps, RecordPlaces, Zenon
<1>2. w = h \o <<Newline>> \o flat
  BY Zenon DEF Encode, EncodeRecords, Lines
<1>3. Newline \in Cells
  BY ReaderNumbers DEF Newline, Cells
<1>4. Start(d, last) = Len(h) + 2 + Len(flat)
  <2>1. Upto(L, Len(L)) = flat
    BY <1>1, UptoSteps, Zenon
  <2> QED BY <2>1, <1>1, Zenon DEF Start
<1> HIDE DEF h, L, flat, w
<1> DEFINE m == h \o <<Newline>>
<1>5. m \in Seq(Cells) /\ Len(m) = Len(h) + 1 /\ (\A i \in 1 .. Len(h) : m[i] = h[i])
      /\ m[Len(h) + 1] = Newline
  BY <1>1, <1>3
<1>6. w = m \o flat
  BY <1>2
<1> HIDE DEF m
<1>7. /\ w \in Seq(Cells) /\ Len(w) = Len(m) + Len(flat) /\ (\A i \in 1 .. Len(m) : w[i] = m[i])
      /\ \A i \in 1 .. Len(flat) : w[Len(m) + i] = flat[i]
  <2>1. m \in Seq(Cells) /\ flat \in Seq(Cells)
    BY <1>1, <1>5
  <2> QED BY ONLY <2>1, <1>6
<1>8. Len(h) \in Nat /\ Len(flat) \in Nat
  BY <1>1
<1>9. /\ Len(w) + 1 = Len(h) + 2 + Len(flat)
      /\ \A i \in 1 .. Len(h) : w[i] = h[i]
      /\ w[Len(h) + 1] = Newline
      /\ \A i \in 1 .. Len(flat) : w[Len(h) + 1 + i] = flat[i]
  BY <1>5, <1>7, <1>8
<1> QED BY <1>4, <1>7, <1>9, Zenon DEF h, w, flat, L, last

\* What the parser is given of it.
LEMMA GivenFile ==
  ASSUME NEW d \in Dumps, NEW c \in 0 .. Len(Encode(d)), NEW f, f = SubSeq(Encode(d), 1, c)
  PROVE  /\ f \in Seq(Cells) /\ Len(f) = c /\ \A j \in 1 .. c : f[j] = Encode(d)[j]
         /\ Agrees(f, Len(d.header) + 2, FlattenSeq(Lines(d)))
<1> DEFINE w == Encode(d)
           flat == FlattenSeq(Lines(d))
           h == Len(d.header)
<1>1. w \in Seq(Cells) /\ \A i \in 1 .. Len(flat) : w[h + 1 + i] = flat[i]
  BY EncodedDump, Zenon
<1>2. h \in Nat
  <2> DEFINE x == d.header
  <2>1. x \in Seq(Cells)
    BY WrittenDumps, Zenon
  <2> HIDE DEF x
  <2>2. Len(x) \in Nat
    BY <2>1
  <2> QED BY <2>2 DEF x
<1> HIDE DEF w, flat, h
<1>3. c \in 0 .. Len(w) /\ f = SubSeq(w, 1, c)
  BY Zenon DEF w
<1>4. f \in Seq(Cells) /\ Len(f) = c /\ \A j \in 1 .. c : f[j] = w[j]
  BY <1>1, <1>3
<1>5. Agrees(f, h + 2, flat)
  <2> SUFFICES ASSUME NEW j \in 1 .. Len(flat), h + 2 + j - 1 <= Len(f)
               PROVE  f[h + 2 + j - 1] = flat[j]
    BY Zenon DEF Agrees
  <2>1. flat \in Seq(Cells)
    BY RecordPlaces, Zenon DEF flat
  <2>2. h + 2 + j - 1 = h + 1 + j /\ h + 1 + j \in 1 .. c
    BY <1>2, <1>3, <1>4, <2>1
  <2>3. f[h + 1 + j] = w[h + 1 + j] /\ w[h + 1 + j] = flat[j]
    BY <2>2, <1>1, <1>4, Zenon
  <2> QED BY <2>2, <2>3
<1> QED BY <1>4, <1>5, Zenon DEF w, h, flat

LEMMA RecordsAgree ==
  ASSUME NEW d \in Dumps, NEW c \in 0 .. Len(Encode(d)), NEW f, f = SubSeq(Encode(d), 1, c),
         NEW n \in 1 .. Len(d.records)
  PROVE  LET record == d.records[n]
             tag == EncodeUint(record.tag)
             parts == FlattenSeq(PartsOf(record))
             p == Start(d, n - 1)
         IN /\ Agrees(f, p, tag) /\ Agrees(f, p + Len(tag), parts)
            /\ Start(d, n) = p + Len(tag) + Len(parts)
            /\ Len(tag) \in Nat /\ Len(parts) \in Nat /\ WellFormed(record)
<1> DEFINE record == d.records[n]
           tag == EncodeUint(record.tag)
           parts == FlattenSeq(PartsOf(record))
           p == Start(d, n - 1)
           L == Lines(d)
           h == Len(d.header)
           u == Upto(L, n - 1)
           v == Upto(L, n)
           w == EncodeRecord(record)
<1>1. WellFormed(record)
  BY WrittenDumps, Zenon
<1>2. tag \in Seq(Cells) /\ parts \in Seq(Cells) /\ w = tag \o parts /\ w \in Seq(Cells)
  BY <1>1, EncodedRecord, Zenon
<1>3. L \in Seq(Seq(Cells)) /\ Len(L) = Len(d.records) /\ L[n] = w /\ n \in 1 .. Len(L)
  BY RecordPlaces, Zenon
<1>4. f \in Seq(Cells) /\ Agrees(f, h + 2, FlattenSeq(L))
  BY GivenFile, Zenon
<1>5. h \in Nat
  <2> DEFINE x == d.header
  <2>1. x \in Seq(Cells)
    BY WrittenDumps, Zenon
  <2> HIDE DEF x
  <2>2. Len(x) \in Nat
    BY <2>1
  <2> QED BY <2>2 DEF x
<1>6. p = h + 2 + Len(u) /\ Start(d, n) = h + 2 + Len(v)
  BY Zenon DEF Start
<1>7. n - 1 \in 0 .. Len(L)
  BY <1>3
<1> HIDE DEF L, w, tag, parts, record, p, h
<1>8. v = u \o w /\ u \in Seq(Cells)
  BY <1>3, <1>7, UptoSteps, Zenon
<1>9. Agrees(f, h + 2 + Len(u), w)
  <2>1. h + 2 \in Nat
    BY <1>5
  <2> QED BY <1>3, <1>4, <2>1, PartsAgree, Zenon
<1> HIDE DEF u, v
<1>10. Len(v) = Len(u) + Len(w) /\ Len(w) = Len(tag) + Len(parts)
       /\ Len(u) \in Nat /\ Len(tag) \in Nat /\ Len(parts) \in Nat
  BY <1>2, <1>8
<1>11. p \in Nat
  BY <1>5, <1>6, <1>10
<1>12. Agrees(f, p, tag) /\ Agrees(f, p + Len(tag), parts)
  <2>1. Agrees(f, p, tag \o parts)
    BY <1>2, <1>6, <1>9, Zenon
  <2> QED BY <1>2, <1>11, <2>1, AgreesSplit, Zenon
<1>13. Start(d, n) = p + Len(tag) + Len(parts)
  BY <1>5, <1>6, <1>10
<1> QED BY <1>1, <1>10, <1>12, <1>13, Zenon DEF tag, parts, record, p
-----------------------------------------------------------------------------
(* The parser's steps over the dump                                         *)

LEMMA LeastOf ==
  ASSUME NEW S \in SUBSET Nat, S # {}
  PROVE  Min(S) \in S /\ \A i \in S : Min(S) <= i
<1> DEFINE T == {n \in Nat : \A i \in S : n <= i}
<1>1. \E m \in S : \A i \in S : m <= i
  <2> SUFFICES ASSUME ~ \E m \in S : \A i \in S : m <= i PROVE FALSE
    OBVIOUS
  <2>1. 0 \in T
    OBVIOUS
  <2>2. ASSUME NEW n \in Nat, n \in T PROVE n + 1 \in T
    <3>1. n \notin S
      BY <2>2
    <3>2. \A i \in S : n <= i /\ i # n /\ i \in Nat
      BY <2>2, <3>1
    <3>3. \A i \in S : n + 1 <= i
      BY <3>2
    <3> QED BY <3>3
  <2>3. Nat \subseteq T
    <3> HIDE DEF T
    <3> QED BY <2>1, <2>2, SetInduction
  <2>4. PICK i : i \in S
    OBVIOUS
  <2>5. i + 1 \in T /\ i \in Nat
    BY <2>3, <2>4
  <2>6. i + 1 <= i
    BY <2>4, <2>5
  <2> QED BY <2>5, <2>6
<1> QED BY <1>1 DEF Min

LEMMA GreatestOf ==
  ASSUME NEW n \in Nat, NEW S \in SUBSET (0 .. n), S # {}
  PROVE  Max(S) \in S /\ \A i \in S : i <= Max(S)
<1> DEFINE T == {n - i : i \in S}
           t == Min(T)
<1>1. T \in SUBSET Nat /\ T # {}
  <2>1. \A i \in S : n - i \in Nat
    OBVIOUS
  <2>2. \A j \in T : j \in Nat
    BY <2>1
  <2>3. PICK i : i \in S
    OBVIOUS
  <2>4. n - i \in T
    BY <2>3
  <2> HIDE DEF T
  <2> QED BY <2>2, <2>4
<1>2. t \in T /\ \A j \in T : t <= j
  <2> HIDE DEF T
  <2> QED BY <1>1, LeastOf
<1> HIDE DEF t
<1>3. PICK m \in S : t = n - m
  BY <1>2
<1>4. \A i \in S : i <= m
  <2> TAKE i \in S
  <2>1. n - m <= n - i
    BY <1>2, <1>3
  <2> QED BY <2>1
<1> QED BY <1>4 DEF Max

\* What the parser works on: the first cut cells of a dump.
Given ==
  /\ dump \in Dumps /\ cut \in 0 .. Len(Encode(dump))
  /\ file = SubSeq(Encode(dump), 1, cut) /\ opts \in OptionSets

Count == Len(dump.records)

\* The first n records have been read.
AlignedAt(n) ==
  /\ n \in 0 .. Count /\ pos = Start(dump, n) /\ pos <= cut + 1
  /\ \A i \in 1 .. n : dump.records[i].tag \in DOMAIN Shape

LEMMA GivenNumbers ==
  ASSUME Given
  PROVE  /\ Count \in Nat /\ cut \in Nat /\ file \in Seq(Cells) /\ Len(file) = cut
         /\ Len(dump.header) \in Nat /\ Len(Encode(dump)) \in Nat
         /\ Start(dump, Count) = Len(Encode(dump)) + 1
         /\ \A n \in 0 .. Count : Start(dump, n) \in Nat \ {0}
<1>1. dump \in Dumps /\ cut \in 0 .. Len(Encode(dump)) /\ file = SubSeq(Encode(dump), 1, cut)
  BY DEF Given
<1> DEFINE w == Encode(dump)
           h == dump.header
<1>2. w \in Seq(Cells) /\ Len(w) + 1 = Start(dump, Count)
  BY <1>1, EncodedDump, Zenon DEF Count
<1>3. h \in Seq(Cells) /\ Count \in Nat
  BY <1>1, WrittenDumps, Zenon DEF Count
<1>4. file \in Seq(Cells) /\ Len(file) = cut
  BY <1>1, GivenFile, Zenon
<1>5. \A n \in 0 .. Count : Start(dump, n) \in Nat \ {0}
  BY <1>1, RecordPlaces, Zenon DEF Count
<1>6. cut \in 0 .. Len(w)
  BY <1>1
<1> HIDE DEF w, h
<1>7. Len(w) \in Nat /\ Len(h) \in Nat
  BY <1>2, <1>3
<1>8. cut \in Nat
  BY <1>6, <1>7
<1>9. Start(dump, Count) = Len(w) + 1
  BY <1>2
<1> QED BY <1>3, <1>4, <1>5, <1>7, <1>8, <1>9, Zenon DEF w, h

LEMMA HeaderReads ==
  ASSUME Given
  PROVE  LET line == ReadLine(file, Newline)
         IN /\ line.err = "none" /\ line.val = Header
                 => dump.header = Header /\ line.pos = Start(dump, 0) /\ line.pos <= cut + 1
            /\ dump.header = Header /\ cut >= Start(dump, 0) - 1
                 => line.err = "none" /\ line.val = Header
<1> DEFINE line == ReadLine(file, Newline)
           h == dump.header
           w == Encode(dump)
           top == Min({MaxLine, Len(file)})
           ends == {i \in 1 .. top : file[i] = Newline}
<1>1. /\ h \in Seq(Cells) /\ \A i \in 1 .. Len(h) : h[i] # Newline
  BY WrittenDumps, Zenon DEF Given
<1>2. (\A i \in 1 .. Len(h) : w[i] = h[i]) /\ w[Len(h) + 1] = Newline /\ w \in Seq(Cells)
  BY EncodedDump, Zenon DEF Given
<1>3. cut \in Nat /\ Len(file) = cut /\ Len(h) \in Nat /\ file \in Seq(Cells)
  BY GivenNumbers, Zenon
<1>4. \A j \in 1 .. cut : file[j] = w[j]
  BY GivenFile, Zenon DEF Given
<1>5. Start(dump, 0) = Len(h) + 2
  BY RecordPlaces, Zenon DEF Given
<1>6. /\ MaxLine \in Nat /\ Len(Header) < MaxLine /\ Len(Header) = 2
  BY ReaderNumbers, ParserAssumption DEF Header
<1>7. top \in Nat /\ top <= cut /\ top <= MaxLine /\ (top = cut \/ top = MaxLine)
  <2>1. {MaxLine, Len(file)} \in SUBSET Nat /\ {MaxLine, Len(file)} # {}
    BY <1>3, <1>6
  <2>2. top \in {MaxLine, Len(file)} /\ \A i \in {MaxLine, Len(file)} : top <= i
    BY <2>1, LeastOf, Zenon
  <2> HIDE DEF top
  <2> QED BY <2>2, <1>3, <1>6
<1>8. line = CASE ends # {} -> Got(SubSeq(file, 1, Min(ends) - 1), Min(ends) + 1)
               [] ends = {} /\ Len(file) >= MaxLine -> Broken("headerTooLong")
               [] OTHER -> Broken("ErrUnexpectedEOF")
  BY Zenon DEF ReadLine
<1> HIDE DEF line, top, h, w
<1>9. \A i \in ends : i > Len(h)
  <2> TAKE i \in ends
  <2> SUFFICES ASSUME i <= Len(h) PROVE FALSE
    BY <1>3, <1>7
  <2>1. i \in 1 .. cut /\ i \in 1 .. Len(h)
    BY <1>3, <1>7
  <2>2. file[i] = h[i] /\ h[i] # Newline
    BY <2>1, <1>1, <1>2, <1>4, Zenon
  <2> QED BY <2>2
<1>10. Len(h) + 1 <= top => Len(h) + 1 \in ends
  <2> SUFFICES ASSUME Len(h) + 1 <= top PROVE Len(h) + 1 \in ends
    OBVIOUS
  <2> DEFINE l == Len(h) + 1
  <2>1. l \in 1 .. cut /\ l \in 1 .. top
    BY <1>3, <1>7
  <2>2. file[l] = Newline
    BY <2>1, <1>2, <1>4, Zenon
  <2> HIDE DEF l
  <2>3. l \in ends
    BY <2>1, <2>2
  <2> QED BY <2>3 DEF l
<1>11. CASE ends # {}
  <2> DEFINE e == Min(ends)
  <2>1. e \in ends /\ \A i \in ends : e <= i
    <3>1. ends \in SUBSET Nat
      BY <1>7
    <3> HIDE DEF ends
    <3> QED BY <3>1, <1>11, LeastOf, Zenon
  <2> HIDE DEF e
  <2>2. e = Len(h) + 1 /\ e <= cut
    <3>1. e \in 1 .. top /\ e > Len(h)
      BY <2>1, <1>9
    <3>2. Len(h) + 1 <= top
      BY <3>1, <1>3, <1>7
    <3>3. e <= Len(h) + 1
      BY <3>2, <1>10, <2>1
    <3> QED BY <3>1, <3>3, <1>3, <1>7
  <2> HIDE DEF ends
  <2>3. line = Got(SubSeq(file, 1, e - 1), e + 1)
    BY <1>8, <1>11, Zenon DEF e
  <2>4. SubSeq(file, 1, e - 1) = h
    <3> DEFINE t == SubSeq(file, 1, e - 1)
    <3>1. e - 1 = Len(h) /\ Len(h) <= Len(file)
      BY <2>2, <1>3
    <3>2. t = SubSeq(file, 1, Len(h))
      BY <3>1
    <3>3. SubSeq(file, 1, Len(h)) \in Seq(Cells) /\ Len(SubSeq(file, 1, Len(h))) = Len(h)
          /\ \A j \in 1 .. Len(h) : SubSeq(file, 1, Len(h))[j] = file[j]
      BY <3>1, <1>3
    <3>4. \A j \in 1 .. Len(h) : file[j] = h[j]
      <4>1. \A j \in 1 .. Len(h) : j \in 1 .. cut
        BY <3>1, <1>3
      <4> QED BY <4>1, <1>2, <1>4, Zenon
    <3> HIDE DEF t
    <3>5. t \in Seq(Cells) /\ Len(t) = Len(h) /\ \A j \in 1 .. Len(t) : t[j] = h[j]
      BY <3>2, <3>3, <3>4, Zenon
    <3> QED BY <3>5, <1>1, SeqEqual, Zenon DEF t
  <2>5. line.err = "none" /\ line.val = h /\ line.pos = e + 1
    <3>1. line = Got(h, e + 1)
      BY <2>3, <2>4, Zenon
    <3> QED BY <3>1 DEF Got
  <2>6. e + 1 = Len(h) + 2 /\ e + 1 <= cut + 1
    BY <2>2, <1>3
  <2> QED BY <2>5, <2>6, <1>5, Zenon DEF line, h
<1>12. CASE ends = {}
  <2>1. line.err # "none"
    <3>1. line = Broken("headerTooLong") \/ line = Broken("ErrUnexpectedEOF")
      <4> HIDE DEF ends
      <4> QED BY <1>8, <1>12
    <3> QED BY <3>1 DEF Broken
  <2>2. ~ (h = Header /\ cut >= Start(dump, 0) - 1)
    <3> SUFFICES ASSUME h = Header, cut >= Start(dump, 0) - 1 PROVE FALSE
      OBVIOUS
    <3>1. Len(h) + 1 <= top
      BY <1>3, <1>5, <1>6, <1>7
    <3> HIDE DEF ends
    <3> QED BY <3>1, <1>10, <1>12, Zenon
  <2> QED BY <2>1, <2>2, Zenon DEF line, h
<1> QED BY <1>11, <1>12

LEMMA TagReads ==
  ASSUME Given, NEW n, AlignedAt(n)
  PROVE  /\ Tag.err = "none" =>
              /\ n + 1 \in 1 .. Count /\ Tag.val = dump.records[n + 1].tag
              /\ Tag.pos = Start(dump, n) + Len(EncodeUint(dump.records[n + 1].tag))
              /\ Tag.pos <= cut + 1 /\ Tag.pos \in Nat \ {0}
         /\ n + 1 \in 1 .. Count /\ Start(dump, n + 1) <= cut + 1 => Tag.err = "none"
<1>1. /\ n \in 0 .. Count /\ pos = Start(dump, n) /\ pos \in Nat \ {0} /\ pos <= cut + 1
      /\ Count \in Nat /\ cut \in Nat /\ file \in Seq(Cells) /\ Len(file) = cut
  BY GivenNumbers DEF AlignedAt
<1>2. CASE n = Count
  <2>1. pos > Len(file)
    <3>1. pos = Len(Encode(dump)) + 1 /\ cut <= Len(Encode(dump)) /\ Len(Encode(dump)) \in Nat
      BY <1>1, <1>2, GivenNumbers DEF Given
    <3> QED BY <3>1, <1>1
  <2>2. Tag.err # "none"
    <3> SUFFICES ASSUME Tag.err = "none" PROVE FALSE
      OBVIOUS
    <3>1. Uvarint(file, pos).pos \in pos + 1 .. Len(file) + 1
      BY <1>1, UvarintBounds, Zenon DEF Tag
    <3> DEFINE x == Uvarint(file, pos).pos
    <3>2. x \in pos + 1 .. cut + 1
      BY <3>1, <1>1
    <3> HIDE DEF x
    <3> QED BY <3>2, <2>1, <1>1
  <2>3. ~ (n + 1 \in 1 .. Count)
    BY <1>1, <1>2
  <2> QED BY <2>2, <2>3, Zenon
<1>3. CASE n # Count
  <2> DEFINE k == n + 1
             record == dump.records[k]
             tag == EncodeUint(record.tag)
             parts == FlattenSeq(PartsOf(record))
  <2>1. k \in 1 .. Count /\ k - 1 = n
    BY <1>1, <1>3
  <2> HIDE DEF k
  <2>2. /\ Agrees(file, Start(dump, k - 1), tag)
        /\ Start(dump, k) = Start(dump, k - 1) + Len(tag) + Len(parts)
        /\ Len(tag) \in Nat /\ Len(parts) \in Nat /\ WellFormed(record)
    BY <2>1, RecordsAgree, Zenon DEF Given, Count
  <2>3. record.tag \in 0 .. MaxUint
    BY <2>2, Zenon DEF WellFormed
  <2>4. Agrees(file, pos, tag)
    BY <2>1, <2>2, <1>1, Zenon
  <2>5. /\ pos + Len(tag) - 1 <= Len(file) => Tag = Got(record.tag, pos + Len(tag))
        /\ pos + Len(tag) - 1 > Len(file) => Tag.err # "none"
    BY <1>1, <2>3, <2>4, UvarintReads, Zenon DEF Tag
  <2> DEFINE l == Len(tag)
             m == Len(parts)
  <2>6. l \in Nat /\ m \in Nat /\ Start(dump, k) = pos + l + m
    BY <2>1, <2>2, <1>1, Zenon
  <2>7. /\ pos + l - 1 <= cut => Tag = Got(record.tag, pos + l)
        /\ pos + l - 1 > cut => Tag.err # "none"
    BY <2>5, <1>1
  <2> HIDE DEF l, m, record
  <2>8. CASE pos + l - 1 <= cut
    <3>1. Tag.err = "none" /\ Tag.val = record.tag /\ Tag.pos = pos + l
      BY <2>7, <2>8 DEF Got
    <3>2. pos + l <= cut + 1 /\ pos + l \in Nat \ {0}
      BY <2>6, <2>8, <1>1
    <3>3. Tag.pos = Start(dump, n) + Len(EncodeUint(record.tag))
      BY <3>1, <1>1, Zenon DEF l
    <3> QED BY <2>1, <3>1, <3>2, <3>3, Zenon DEF record, k
  <2>9. CASE pos + l - 1 > cut
    <3>1. Tag.err # "none"
      BY <2>7, <2>9
    <3>2. ~ (Start(dump, k) <= cut + 1)
      BY <2>6, <2>9, <1>1
    <3> QED BY <3>1, <3>2, Zenon DEF k
  <2> QED BY <2>8, <2>9, <2>6, <1>1
<1> QED BY <1>2, <1>3
-----------------------------------------------------------------------------
(* What a record changes in the snapshot                                    *)

SnapNames ==
  {"params", "types", "itabs", "memStats", "objects", "globals", "goroutines", "data", "bss",
   "finalizers", "queued", "threads", "profiles", "samples", "refs", "warnings", "stats"}

GoroutineOf(vals) ==
  [addr |-> vals[1], stackTop |-> vals[2], id |-> vals[3], goPC |-> vals[4],
   status |-> vals[5], isSystem |-> vals[6] = 1, isBackground |-> vals[7] = 1,
   waitSince |-> vals[8], waitReason |-> vals[9], context |-> vals[10],
   m |-> vals[11], defer |-> vals[12], panic |-> vals[13], frames |-> <<>>]

FrameOf(vals) ==
  [sp |-> vals[1], depth |-> vals[2], childSP |-> vals[3], size |-> Len(vals[4].cells),
   entryPC |-> vals[5], currentPC |-> vals[6], continuePC |-> vals[7], func |-> vals[8],
   fields |-> vals[9],
   pointers |-> FramePointers(vals).targets, slots |-> FramePointers(vals).slots]

ParamsOf(vals) ==
  [bigEndian |-> vals[1] = 1, ptrSize |-> vals[2], rest |-> SubSeq(vals, 3, 7)]

SegmentOf(vals) ==
  [addr |-> vals[1], size |-> Len(vals[2].cells), fields |-> vals[3],
   pointers |-> SegmentPointers(vals).targets, slots |-> SegmentPointers(vals).slots]

RootsOf(kind, vals) ==
  [i \in DOMAIN SegmentPointers(vals).targets |->
     [kind |-> kind, addr |-> SegmentPointers(vals).slots[i],
      target |-> SegmentPointers(vals).targets[i], about |-> <<>>]]

OtherRootOf(vals) ==
  [kind |-> "otherroot", addr |-> 0, target |-> vals[2], about |-> vals[1]]

RefsAfter(vals) ==
  IF opts.lazy /\ ObjectOf(vals).size > 0 THEN Append(snap.refs, Ref(vals)) ELSE snap.refs

WarningsOf(tag, vals) ==
  IF tag = TagObject THEN ObjectWarnings(vals)
  ELSE IF tag \in {TagData, TagBSS} THEN SegmentPointers(vals).warned
  ELSE IF tag = TagStackFrame THEN FrameWarnings(vals)
  ELSE 0

GlobalsAfter(tag, vals) ==
  IF tag = TagOtherRoot
  THEN Append(snap.globals, OtherRootOf(vals))
  ELSE IF tag = TagData THEN snap.globals \o RootsOf("data", vals)
  ELSE IF tag = TagBSS THEN snap.globals \o RootsOf("bss", vals)
  ELSE snap.globals

\* The record counters, and how a record of this tag leaves them.
TallyOk(s) == \A u \in DOMAIN CounterOf : s.stats[CounterOf[u]] \in Nat

Tallied(s, t, tag) ==
  \A u \in DOMAIN CounterOf :
    t.stats[CounterOf[u]] = s.stats[CounterOf[u]] + (IF u = tag THEN 1 ELSE 0)

\* s is the snapshot after a record of this tag.
Parsed(tag, vals, s) ==
  /\ DOMAIN s = SnapNames
  /\ s.params = IF tag = TagParams THEN ParamsOf(vals) ELSE snap.params
  /\ s.memStats = IF tag = TagMemStats THEN vals ELSE snap.memStats
  /\ s.types = IF tag = TagType THEN With(snap.types, vals[1], vals) ELSE snap.types
  /\ s.itabs = IF tag = TagItab THEN With(snap.itabs, vals[1], vals[2]) ELSE snap.itabs
  /\ s.objects = IF tag = TagObject THEN Append(snap.objects, ObjectOf(vals)) ELSE snap.objects
  /\ s.refs = IF tag = TagObject THEN RefsAfter(vals) ELSE snap.refs
  /\ s.globals = GlobalsAfter(tag, vals)
  /\ s.goroutines = IF tag = TagGoroutine THEN Append(snap.goroutines, GoroutineOf(vals))
                    ELSE IF tag = TagStackFrame /\ curG # 0
                    THEN [snap.goroutines EXCEPT ![curG].frames = Append(@, FrameOf(vals))]
                    ELSE snap.goroutines
  /\ s.data = IF tag = TagData THEN Append(snap.data, SegmentOf(vals)) ELSE snap.data
  /\ s.bss = IF tag = TagBSS THEN Append(snap.bss, SegmentOf(vals)) ELSE snap.bss
  /\ s.finalizers = IF tag = TagFinalizer THEN Append(snap.finalizers, vals) ELSE snap.finalizers
  /\ s.queued = IF tag = TagQueuedFinalizer THEN Append(snap.queued, vals) ELSE snap.queued
  /\ s.threads = IF tag = TagOSThread THEN Append(snap.threads, vals) ELSE snap.threads
  /\ s.profiles = IF tag = TagMemProf THEN Append(snap.profiles, vals) ELSE snap.profiles
  /\ s.samples = IF tag = TagAllocSample THEN Append(snap.samples, vals) ELSE snap.samples
  /\ s.warnings = snap.warnings + WarningsOf(tag, vals)
  /\ s.stats["UnknownRecords"] = snap.stats["UnknownRecords"]
  /\ Tallied(snap, s, tag)

\* The record's parse function reports an error.
Refused(tag, vals) ==
  \/ tag = TagParams /\ vals[2] \notin {1, 2}
  \/ tag = TagObject /\ (\/ Len(vals[2].cells) > MaxUint - vals[1]
                         \/ ~ Tolerated(ObjectWarnings(vals)))
  \/ tag \in {TagData, TagBSS} /\ ~ Tolerated(SegmentPointers(vals).warned)
  \/ tag = TagStackFrame /\ ~ Tolerated(FrameWarnings(vals))

\* A step that reads a record.
ParseStep(tag, record) ==
  /\ UNCHANGED inputVars
  /\ IF record.err # "none" \/ Refused(tag, record.val) THEN Fail
     ELSE /\ Parsed(tag, record.val, snap') /\ pos' = record.pos /\ curG' = NextG(tag)
          /\ UNCHANGED status

TypedSnap(s) ==
  /\ DOMAIN s = SnapNames /\ s.warnings \in Nat
  /\ s.stats["UnknownRecords"] = 0 /\ TallyOk(s)

\* A snapshot that counters can be raised in, and what raising leaves alone.
Countable(s) == DOMAIN s = SnapNames /\ s.stats["UnknownRecords"] = 0
Keeps(s, t) == Countable(t) /\ \A x \in SnapNames \ {"stats"} : t[x] = s[x]

LEMMA CountedStats ==
  ASSUME NEW s, Countable(s), NEW raised, "UnknownRecords" \notin DOMAIN raised
  PROVE  Keeps(s, Counted(s, raised))
BY DEF Counted, StatNames, SnapNames, Countable, Keeps

LEMMA CounterTable ==
  /\ DOMAIN CounterOf = TagObject .. TagAllocSample \ {TagStackFrame, TagParams, TagMemStats}
  /\ CounterOf[TagObject] = "ObjectCount" /\ CounterOf[TagOtherRoot] = "OtherRootCount"
  /\ CounterOf[TagType] = "TypeCount" /\ CounterOf[TagGoroutine] = "GoroutineCount"
  /\ CounterOf[TagFinalizer] = "FinalizerCount" /\ CounterOf[TagItab] = "ItabCount"
  /\ CounterOf[TagOSThread] = "OSThreadCount"
  /\ CounterOf[TagQueuedFinalizer] = "QueuedFinalizers" /\ CounterOf[TagData] = "DataCount"
  /\ CounterOf[TagBSS] = "BSSCount" /\ CounterOf[TagDefer] = "DeferCount"
  /\ CounterOf[TagPanic] = "PanicCount" /\ CounterOf[TagMemProf] = "MemProfCount"
  /\ CounterOf[TagAllocSample] = "AllocSampleCount"
BY DEF CounterOf, TagObject, TagOtherRoot, TagType, TagGoroutine, TagStackFrame, TagParams,
       TagFinalizer, TagItab, TagOSThread, TagMemStats, TagQueuedFinalizer, TagData, TagBSS,
       TagDefer, TagPanic, TagMemProf, TagAllocSample

\* The counters raised are the one of this tag, by one, and others that count no records.
Raising(raised, tag) ==
  \A u \in DOMAIN CounterOf :
    IF u = tag THEN CounterOf[u] \in DOMAIN raised /\ raised[CounterOf[u]] = 1
    ELSE CounterOf[u] \notin DOMAIN raised

LEMMA CountersAreStats == \A u \in DOMAIN CounterOf : CounterOf[u] \in StatNames
<1>1. \A u \in DOMAIN CounterOf : u \in 1 .. 17 \ {5, 6, 10}
  BY CounterTable DEF TagObject, TagStackFrame, TagParams, TagMemStats, TagAllocSample
<1> QED BY <1>1, CounterTable DEF StatNames, TagObject, TagOtherRoot, TagType, TagGoroutine,
       TagFinalizer, TagItab, TagOSThread, TagQueuedFinalizer, TagData, TagBSS,
       TagDefer, TagPanic, TagMemProf, TagAllocSample

LEMMA CountersAreOthers == \A u \in DOMAIN CounterOf : CounterOf[u] # "UnknownRecords"
<1>1. \A u \in DOMAIN CounterOf : u \in 1 .. 17 \ {5, 6, 10}
  BY CounterTable DEF TagObject, TagStackFrame, TagParams, TagMemStats, TagAllocSample
<1> QED BY <1>1, CounterTable DEF TagObject, TagOtherRoot, TagType, TagGoroutine,
       TagFinalizer, TagItab, TagOSThread, TagQueuedFinalizer, TagData, TagBSS,
       TagDefer, TagPanic, TagMemProf, TagAllocSample

\* raised holds the counter of tag, or none, and nothing else that counts records.
LEMMA RaisedOne ==
  ASSUME NEW tag \in DOMAIN CounterOf, NEW raised, CounterOf[tag] \in DOMAIN raised,
         raised[CounterOf[tag]] = 1,
         DOMAIN raised \ {CounterOf[tag]} \subseteq
           {"ObjectBytes", "ObjectPointers", "DataPointers", "BSSPointers", "GlobalRootCount"}
  PROVE  Raising(raised, tag)
<1>1. \A u \in DOMAIN CounterOf : u \in 1 .. 17 \ {5, 6, 10}
  BY CounterTable DEF TagObject, TagStackFrame, TagParams, TagMemStats, TagAllocSample
<1>2. \A u \in DOMAIN CounterOf :
        CounterOf[u] \notin {"ObjectBytes", "ObjectPointers", "DataPointers", "BSSPointers", "GlobalRootCount"}
  BY <1>1, CounterTable DEF TagObject, TagOtherRoot, TagType, TagGoroutine,
       TagFinalizer, TagItab, TagOSThread, TagQueuedFinalizer, TagData, TagBSS,
       TagDefer, TagPanic, TagMemProf, TagAllocSample
<1>3. \A u, v \in DOMAIN CounterOf : CounterOf[u] = CounterOf[v] => u = v
  BY <1>1, CounterTable DEF TagObject, TagOtherRoot, TagType, TagGoroutine,
       TagFinalizer, TagItab, TagOSThread, TagQueuedFinalizer, TagData, TagBSS,
       TagDefer, TagPanic, TagMemProf, TagAllocSample
<1> QED BY <1>2, <1>3, Zenon DEF Raising

LEMMA RaisedNone ==
  ASSUME NEW tag, tag \notin DOMAIN CounterOf, NEW raised,
         DOMAIN raised \subseteq {"StackFrameCount", "StackPointers", "GlobalRootCount",
                                  "InterfaceFieldsDecoded", "EfaceFieldsDecoded"}
  PROVE  Raising(raised, tag)
<1>1. \A u \in DOMAIN CounterOf : u \in 1 .. 17 \ {5, 6, 10}
  BY CounterTable DEF TagObject, TagStackFrame, TagParams, TagMemStats, TagAllocSample
<1>2. \A u \in DOMAIN CounterOf :
        CounterOf[u] \notin {"StackFrameCount", "StackPointers", "GlobalRootCount",
                             "InterfaceFieldsDecoded", "EfaceFieldsDecoded"}
  BY <1>1, CounterTable DEF TagObject, TagOtherRoot, TagType, TagGoroutine,
       TagFinalizer, TagItab, TagOSThread, TagQueuedFinalizer, TagData, TagBSS,
       TagDefer, TagPanic, TagMemProf, TagAllocSample
<1> QED BY <1>2, Zenon DEF Raising

LEMMA TallyCounted ==
  ASSUME NEW s, Countable(s), TallyOk(s), NEW raised, NEW tag, Raising(raised, tag)
  PROVE  TallyOk(Counted(s, raised)) /\ Tallied(s, Counted(s, raised), tag)
<1> DEFINE t == Counted(s, raised)
<1>1. \A name \in StatNames :
        t.stats[name] = s.stats[name] + IF name \in DOMAIN raised THEN raised[name] ELSE 0
  BY DEF Counted, Countable, SnapNames
<1> HIDE DEF t
<1>2. ASSUME NEW u \in DOMAIN CounterOf
      PROVE  /\ t.stats[CounterOf[u]] = s.stats[CounterOf[u]] + (IF u = tag THEN 1 ELSE 0)
             /\ t.stats[CounterOf[u]] \in Nat
  <2>1. CounterOf[u] \in StatNames /\ s.stats[CounterOf[u]] \in Nat
    BY CountersAreStats, Zenon DEF TallyOk
  <2>2. IF u = tag THEN CounterOf[u] \in DOMAIN raised /\ raised[CounterOf[u]] = 1
        ELSE CounterOf[u] \notin DOMAIN raised
    BY Zenon DEF Raising
  <2> QED BY <1>1, <2>1, <2>2
<1> QED BY <1>2, Zenon DEF TallyOk, Tallied, t

\* What leaves the counters alone, and what follows another.
LEMMA TallySame ==
  ASSUME NEW s, TallyOk(s), NEW t, t.stats = s.stats
  PROVE  /\ TallyOk(t)
         /\ \A tag : tag \notin DOMAIN CounterOf => Tallied(s, t, tag)
         /\ \A z, tag : Tallied(t, z, tag) => Tallied(s, z, tag)
BY DEF TallyOk, Tallied

LEMMA TallyChain ==
  ASSUME NEW s, TallyOk(s), NEW tag, NEW t, Tallied(s, t, tag), NEW none, none \notin DOMAIN CounterOf,
         NEW z, Tallied(t, z, none)
  PROVE  Tallied(s, z, tag)
<1> SUFFICES ASSUME NEW u \in DOMAIN CounterOf
             PROVE  z.stats[CounterOf[u]] = s.stats[CounterOf[u]] + (IF u = tag THEN 1 ELSE 0)
  BY Zenon DEF Tallied
<1>1. /\ z.stats[CounterOf[u]] = t.stats[CounterOf[u]] + (IF u = none THEN 1 ELSE 0)
      /\ t.stats[CounterOf[u]] = s.stats[CounterOf[u]] + (IF u = tag THEN 1 ELSE 0)
      /\ s.stats[CounterOf[u]] \in Nat /\ u # none
  BY Zenon DEF Tallied, TallyOk
<1> QED BY <1>1

\* The counters raised by a record that no other counter of records follows.
OneCounter(raised, tag) ==
  /\ tag \in DOMAIN CounterOf /\ CounterOf[tag] \in DOMAIN raised /\ raised[CounterOf[tag]] = 1
  /\ "UnknownRecords" \notin DOMAIN raised
  /\ DOMAIN raised \ {CounterOf[tag]} \subseteq
       {"ObjectBytes", "ObjectPointers", "DataPointers", "BSSPointers", "GlobalRootCount"}

LEMMA AloneCounted ==
  ASSUME TypedSnap(snap), NEW b, Countable(b), b.stats = snap.stats, NEW tag, NEW raised, OneCounter(raised, tag)
  PROVE  Keeps(b, Counted(b, raised)) /\ Tallied(snap, Counted(b, raised), tag)
<1>1. TallyOk(snap)
  BY Zenon DEF TypedSnap
<1>2. Raising(raised, tag)
  BY RaisedOne, Zenon DEF OneCounter
<1>3. Keeps(b, Counted(b, raised))
  BY CountedStats, Zenon DEF OneCounter
<1> QED BY <1>1, <1>2, <1>3, TallySame, TallyCounted, Zenon

LEMMA RecordSteps ==
  ASSUME TypedSnap(snap)
  PROVE
    /\ ParseParams => \E record \in RecordAt(TagParams) : ParseStep(TagParams, record)
    /\ ParseMemStats => \E record \in RecordAt(TagMemStats) : ParseStep(TagMemStats, record)
    /\ ParseType => \E record \in RecordAt(TagType) : ParseStep(TagType, record)
    /\ ParseItab => \E record \in RecordAt(TagItab) : ParseStep(TagItab, record)
    /\ ParseOtherRoot => \E record \in RecordAt(TagOtherRoot) : ParseStep(TagOtherRoot, record)
    /\ ParseFinalizer => \E record \in RecordAt(TagFinalizer) : ParseStep(TagFinalizer, record)
    /\ ParseQueuedFinalizer => \E record \in RecordAt(TagQueuedFinalizer) : ParseStep(TagQueuedFinalizer, record)
    /\ ParseOSThread => \E record \in RecordAt(TagOSThread) : ParseStep(TagOSThread, record)
    /\ ParseDefer => \E record \in RecordAt(TagDefer) : ParseStep(TagDefer, record)
    /\ ParsePanic => \E record \in RecordAt(TagPanic) : ParseStep(TagPanic, record)
    /\ ParseMemProf => \E record \in RecordAt(TagMemProf) : ParseStep(TagMemProf, record)
    /\ ParseAllocSample => \E record \in RecordAt(TagAllocSample) : ParseStep(TagAllocSample, record)
    /\ ParseGoroutine => \E record \in RecordAt(TagGoroutine) : ParseStep(TagGoroutine, record)
<1> USE DEF TagEOF, TagObject, TagOtherRoot, TagType, TagGoroutine, TagStackFrame, TagParams,
            TagFinalizer, TagItab, TagOSThread, TagMemStats, TagQueuedFinalizer, TagData, TagBSS,
            TagDefer, TagPanic, TagMemProf, TagAllocSample
<1>0. /\ \A vals : /\ ~ Refused(TagType, vals) /\ ~ Refused(TagItab, vals) /\ ~ Refused(TagOtherRoot, vals)
                   /\ ~ Refused(TagFinalizer, vals) /\ ~ Refused(TagQueuedFinalizer, vals)
                   /\ ~ Refused(TagOSThread, vals) /\ ~ Refused(TagDefer, vals) /\ ~ Refused(TagPanic, vals)
                   /\ ~ Refused(TagMemProf, vals) /\ ~ Refused(TagAllocSample, vals)
                   /\ ~ Refused(TagGoroutine, vals) /\ ~ Refused(TagMemStats, vals)
  BY DEF Refused
<1>1. ASSUME ParseParams PROVE \E record \in RecordAt(TagParams) : ParseStep(TagParams, record)
  <2> PICK record \in RecordAt(TagParams) :
        Parse(record, TagParams, record.val[2] \notin {1, 2},
              [snap EXCEPT !.params = ParamsOf(record.val)])
    BY <1>1, Zenon DEF ParseParams, ParamsOf
  <2> DEFINE vals == record.val
             s == [snap EXCEPT !.params = ParamsOf(vals)]
  <2>1. s.params = ParamsOf(vals)
    BY DEF TypedSnap, SnapNames
  <2>4. Tallied(snap, s, TagParams)
    <3>1. s.stats = snap.stats /\ TallyOk(snap) /\ TagParams \notin DOMAIN CounterOf
      BY CounterTable DEF TypedSnap, SnapNames
    <3> HIDE DEF s
    <3> QED BY <3>1, TallySame, Zenon
  <2>2. Parsed(TagParams, vals, s)
    BY <2>4 DEF Parsed, WarningsOf, GlobalsAfter, TypedSnap, SnapNames
  <2>3. Refused(TagParams, vals) <=> vals[2] \notin {1, 2}
    BY DEF Refused
  <2> QED BY <2>2, <2>3, Zenon DEF Parse, ParseStep
<1>2. ASSUME ParseMemStats PROVE \E record \in RecordAt(TagMemStats) : ParseStep(TagMemStats, record)
  <2> PICK record \in RecordAt(TagMemStats) :
        Parse(record, TagMemStats, FALSE, [snap EXCEPT !.memStats = record.val])
    BY <1>2, Zenon DEF ParseMemStats
  <2> DEFINE vals == record.val
             s == [snap EXCEPT !.memStats = vals]
  <2>2. Tallied(snap, s, TagMemStats)
    <3>1. s.stats = snap.stats /\ TallyOk(snap) /\ TagMemStats \notin DOMAIN CounterOf
      BY CounterTable DEF TypedSnap, SnapNames
    <3> HIDE DEF s
    <3> QED BY <3>1, TallySame, Zenon
  <2>1. Parsed(TagMemStats, vals, s)
    BY <2>2 DEF Parsed, WarningsOf, GlobalsAfter, TypedSnap, SnapNames
  <2> QED BY <2>1, <1>0, Zenon DEF Parse, ParseStep
<1>3. ASSUME ParseType PROVE \E record \in RecordAt(TagType) : ParseStep(TagType, record)
  <2> DEFINE base(vals) == [snap EXCEPT !.types = With(@, vals[1], vals)]
  <2> PICK record \in RecordAt(TagType) :
        Parse(record, TagType, FALSE, Counted(base(record.val), [TypeCount |-> 1]))
    BY <1>3, Zenon DEF ParseType
  <2> DEFINE vals == record.val
             b == base(vals)
             s == Counted(b, [TypeCount |-> 1])
  <2>1. DOMAIN b = SnapNames /\ b.types = With(snap.types, vals[1], vals)
        /\ \A x \in SnapNames \ {"types"} : b[x] = snap[x]
    BY DEF TypedSnap, SnapNames
  <2> HIDE DEF b
  <2> DEFINE raised == [TypeCount |-> 1]
  <2>2. OneCounter(raised, TagType) /\ s = Counted(b, raised)
    BY CounterTable DEF OneCounter
  <2>3. Countable(b) /\ b.stats = snap.stats /\ snap.stats["UnknownRecords"] = 0
    BY <2>1 DEF TypedSnap, SnapNames, Countable
  <2> HIDE DEF s, raised
  <2>4. Keeps(b, s) /\ Tallied(snap, s, TagType)
    BY <2>2, <2>3, AloneCounted, Zenon
  <2>5. Parsed(TagType, vals, s)
    BY <2>1, <2>3, <2>4 DEF Parsed, WarningsOf, GlobalsAfter, TypedSnap, SnapNames, Keeps, Countable
  <2> QED BY <2>5, <1>0, Zenon DEF Parse, ParseStep, s, b
<1>4. ASSUME ParseItab PROVE \E record \in RecordAt(TagItab) : ParseStep(TagItab, record)
  <2> DEFINE base(vals) == [snap EXCEPT !.itabs = With(@, vals[1], vals[2])]
  <2> PICK record \in RecordAt(TagItab) :
        Parse(record, TagItab, FALSE, Counted(base(record.val), [ItabCount |-> 1]))
    BY <1>4, Zenon DEF ParseItab
  <2> DEFINE vals == record.val
             b == base(vals)
             s == Counted(b, [ItabCount |-> 1])
  <2>1. DOMAIN b = SnapNames /\ b.itabs = With(snap.itabs, vals[1], vals[2])
        /\ \A x \in SnapNames \ {"itabs"} : b[x] = snap[x]
    BY DEF TypedSnap, SnapNames
  <2> HIDE DEF b
  <2> DEFINE raised == [ItabCount |-> 1]
  <2>2. OneCounter(raised, TagItab) /\ s = Counted(b, raised)
    BY CounterTable DEF OneCounter
  <2>3. Countable(b) /\ b.stats = snap.stats /\ snap.stats["UnknownRecords"] = 0
    BY <2>1 DEF TypedSnap, SnapNames, Countable
  <2> HIDE DEF s, raised
  <2>4. Keeps(b, s) /\ Tallied(snap, s, TagItab)
    BY <2>2, <2>3, AloneCounted, Zenon
  <2>5. Parsed(TagItab, vals, s)
    BY <2>1, <2>3, <2>4 DEF Parsed, WarningsOf, GlobalsAfter, TypedSnap, SnapNames, Keeps, Countable
  <2> QED BY <2>5, <1>0, Zenon DEF Parse, ParseStep, s, b
<1>5. ASSUME ParseOtherRoot PROVE \E record \in RecordAt(TagOtherRoot) : ParseStep(TagOtherRoot, record)
  <2> DEFINE base(vals) == [snap EXCEPT !.globals = Append(@, OtherRootOf(vals))]
  <2> PICK record \in RecordAt(TagOtherRoot) :
        Parse(record, TagOtherRoot, FALSE, Counted(base(record.val), [OtherRootCount |-> 1, GlobalRootCount |-> 1]))
    BY <1>5, Zenon DEF ParseOtherRoot, OtherRootOf
  <2> DEFINE vals == record.val
             b == base(vals)
             s == Counted(b, [OtherRootCount |-> 1, GlobalRootCount |-> 1])
  <2>1. DOMAIN b = SnapNames /\ b.globals = Append(snap.globals, OtherRootOf(vals))
        /\ \A x \in SnapNames \ {"globals"} : b[x] = snap[x]
    BY DEF TypedSnap, SnapNames
  <2> HIDE DEF b
  <2> DEFINE raised == [OtherRootCount |-> 1, GlobalRootCount |-> 1]
  <2>2. OneCounter(raised, TagOtherRoot) /\ s = Counted(b, raised)
    BY CounterTable DEF OneCounter
  <2>3. Countable(b) /\ b.stats = snap.stats /\ snap.stats["UnknownRecords"] = 0
    BY <2>1 DEF TypedSnap, SnapNames, Countable
  <2> HIDE DEF s, raised
  <2>4. Keeps(b, s) /\ Tallied(snap, s, TagOtherRoot)
    BY <2>2, <2>3, AloneCounted, Zenon
  <2>10. GlobalsAfter(TagOtherRoot, vals) = Append(snap.globals, OtherRootOf(vals))
    BY DEF GlobalsAfter
  <2>5. Parsed(TagOtherRoot, vals, s)
    <3>1. s.globals = GlobalsAfter(TagOtherRoot, vals) /\ DOMAIN s = SnapNames
          /\ s.stats["UnknownRecords"] = snap.stats["UnknownRecords"]
      BY <2>1, <2>3, <2>4, <2>10 DEF SnapNames, Keeps, Countable
    <3>2. /\ s.params = snap.params /\ s.memStats = snap.memStats /\ s.types = snap.types
          /\ s.itabs = snap.itabs /\ s.objects = snap.objects /\ s.goroutines = snap.goroutines
          /\ s.data = snap.data /\ s.bss = snap.bss /\ s.finalizers = snap.finalizers
          /\ s.queued = snap.queued /\ s.threads = snap.threads /\ s.profiles = snap.profiles
          /\ s.samples = snap.samples /\ s.refs = snap.refs
      BY <2>1, <2>4 DEF SnapNames, Keeps
    <3>3. s.warnings = snap.warnings + WarningsOf(TagOtherRoot, vals)
      BY <2>1, <2>4 DEF SnapNames, Keeps, WarningsOf, TypedSnap
    <3> QED BY ONLY <3>1, <3>2, <3>3, <2>4 DEF Parsed
  <2> QED BY <2>5, <1>0, Zenon DEF Parse, ParseStep, s, b
<1>6. ASSUME ParseFinalizer PROVE \E record \in RecordAt(TagFinalizer) : ParseStep(TagFinalizer, record)
  <2> DEFINE base(vals) == [snap EXCEPT !.finalizers = Append(@, vals)]
  <2> PICK record \in RecordAt(TagFinalizer) :
        Parse(record, TagFinalizer, FALSE, Counted(base(record.val), [FinalizerCount |-> 1]))
    BY <1>6, Zenon DEF ParseFinalizer
  <2> DEFINE vals == record.val
             b == base(vals)
             s == Counted(b, [FinalizerCount |-> 1])
  <2>1. DOMAIN b = SnapNames /\ b.finalizers = Append(snap.finalizers, vals)
        /\ \A x \in SnapNames \ {"finalizers"} : b[x] = snap[x]
    BY DEF TypedSnap, SnapNames
  <2> HIDE DEF b
  <2> DEFINE raised == [FinalizerCount |-> 1]
  <2>2. OneCounter(raised, TagFinalizer) /\ s = Counted(b, raised)
    BY CounterTable DEF OneCounter
  <2>3. Countable(b) /\ b.stats = snap.stats /\ snap.stats["UnknownRecords"] = 0
    BY <2>1 DEF TypedSnap, SnapNames, Countable
  <2> HIDE DEF s, raised
  <2>4. Keeps(b, s) /\ Tallied(snap, s, TagFinalizer)
    BY <2>2, <2>3, AloneCounted, Zenon
  <2>5. Parsed(TagFinalizer, vals, s)
    BY <2>1, <2>3, <2>4 DEF Parsed, WarningsOf, GlobalsAfter, TypedSnap, SnapNames, Keeps, Countable
  <2> QED BY <2>5, <1>0, Zenon DEF Parse, ParseStep, s, b
<1>7. ASSUME ParseQueuedFinalizer PROVE \E record \in RecordAt(TagQueuedFinalizer) : ParseStep(TagQueuedFinalizer, record)
  <2> DEFINE base(vals) == [snap EXCEPT !.queued = Append(@, vals)]
  <2> PICK record \in RecordAt(TagQueuedFinalizer) :
        Parse(record, TagQueuedFinalizer, FALSE, Counted(base(record.val), [QueuedFinalizers |-> 1]))
    BY <1>7, Zenon DEF ParseQueuedFinalizer
  <2> DEFINE vals == record.val
             b == base(vals)
             s == Counted(b, [QueuedFinalizers |-> 1])
  <2>1. DOMAIN b = SnapNames /\ b.queued = Append(snap.queued, vals)
        /\ \A x \in SnapNames \ {"queued"} : b[x] = snap[x]
    BY DEF TypedSnap, SnapNames
  <2> HIDE DEF b
  <2> DEFINE raised == [QueuedFinalizers |-> 1]
  <2>2. OneCounter(raised, TagQueuedFinalizer) /\ s = Counted(b, raised)
    BY CounterTable DEF OneCounter
  <2>3. Countable(b) /\ b.stats = snap.stats /\ snap.stats["UnknownRecords"] = 0
    BY <2>1 DEF TypedSnap, SnapNames, Countable
  <2> HIDE DEF s, raised
  <2>4. Keeps(b, s) /\ Tallied(snap, s, TagQueuedFinalizer)
    BY <2>2, <2>3, AloneCounted, Zenon
  <2>5. Parsed(TagQueuedFinalizer, vals, s)
    BY <2>1, <2>3, <2>4 DEF Parsed, WarningsOf, GlobalsAfter, TypedSnap, SnapNames, Keeps, Countable
  <2> QED BY <2>5, <1>0, Zenon DEF Parse, ParseStep, s, b
<1>8. ASSUME ParseOSThread PROVE \E record \in RecordAt(TagOSThread) : ParseStep(TagOSThread, record)
  <2> DEFINE base(vals) == [snap EXCEPT !.threads = Append(@, vals)]
  <2> PICK record \in RecordAt(TagOSThread) :
        Parse(record, TagOSThread, FALSE, Counted(base(record.val), [OSThreadCount |-> 1]))
    BY <1>8, Zenon DEF ParseOSThread
  <2> DEFINE vals == record.val
             b == base(vals)
             s == Counted(b, [OSThreadCount |-> 1])
  <2>1. DOMAIN b = SnapNames /\ b.threads = Append(snap.threads, vals)
        /\ \A x \in SnapNames \ {"threads"} : b[x] = snap[x]
    BY DEF TypedSnap, SnapNames
  <2> HIDE DEF b
  <2> DEFINE raised == [OSThreadCount |-> 1]
  <2>2. OneCounter(raised, TagOSThread) /\ s = Counted(b, raised)
    BY CounterTable DEF OneCounter
  <2>3. Countable(b) /\ b.stats = snap.stats /\ snap.stats["UnknownRecords"] = 0
    BY <2>1 DEF TypedSnap, SnapNames, Countable
  <2> HIDE DEF s, raised
  <2>4. Keeps(b, s) /\ Tallied(snap, s, TagOSThread)
    BY <2>2, <2>3, AloneCounted, Zenon
  <2>5. Parsed(TagOSThread, vals, s)
    BY <2>1, <2>3, <2>4 DEF Parsed, WarningsOf, GlobalsAfter, TypedSnap, SnapNames, Keeps, Countable
  <2> QED BY <2>5, <1>0, Zenon DEF Parse, ParseStep, s, b
<1>9. ASSUME ParseDefer PROVE \E record \in RecordAt(TagDefer) : ParseStep(TagDefer, record)
  <2> DEFINE base(vals) == snap
  <2> PICK record \in RecordAt(TagDefer) :
        Parse(record, TagDefer, FALSE, Counted(base(record.val), [DeferCount |-> 1]))
    BY <1>9, Zenon DEF ParseDefer
  <2> DEFINE vals == record.val
             b == base(vals)
             s == Counted(b, [DeferCount |-> 1])
  <2>1. DOMAIN b = SnapNames
        /\ \A x \in SnapNames : b[x] = snap[x]
    BY DEF TypedSnap, SnapNames
  <2> HIDE DEF b
  <2> DEFINE raised == [DeferCount |-> 1]
  <2>2. OneCounter(raised, TagDefer) /\ s = Counted(b, raised)
    BY CounterTable DEF OneCounter
  <2>3. Countable(b) /\ b.stats = snap.stats /\ snap.stats["UnknownRecords"] = 0
    BY <2>1 DEF TypedSnap, SnapNames, Countable
  <2> HIDE DEF s, raised
  <2>4. Keeps(b, s) /\ Tallied(snap, s, TagDefer)
    BY <2>2, <2>3, AloneCounted, Zenon
  <2>5. Parsed(TagDefer, vals, s)
    BY <2>1, <2>3, <2>4 DEF Parsed, WarningsOf, GlobalsAfter, TypedSnap, SnapNames, Keeps, Countable
  <2> QED BY <2>5, <1>0, Zenon DEF Parse, ParseStep, s, b
<1>10. ASSUME ParsePanic PROVE \E record \in RecordAt(TagPanic) : ParseStep(TagPanic, record)
  <2> DEFINE base(vals) == snap
  <2> PICK record \in RecordAt(TagPanic) :
        Parse(record, TagPanic, FALSE, Counted(base(record.val), [PanicCount |-> 1]))
    BY <1>10, Zenon DEF ParsePanic
  <2> DEFINE vals == record.val
             b == base(vals)
             s == Counted(b, [PanicCount |-> 1])
  <2>1. DOMAIN b = SnapNames
        /\ \A x \in SnapNames : b[x] = snap[x]
    BY DEF TypedSnap, SnapNames
  <2> HIDE DEF b
  <2> DEFINE raised == [PanicCount |-> 1]
  <2>2. OneCounter(raised, TagPanic) /\ s = Counted(b, raised)
    BY CounterTable DEF OneCounter
  <2>3. Countable(b) /\ b.stats = snap.stats /\ snap.stats["UnknownRecords"] = 0
    BY <2>1 DEF TypedSnap, SnapNames, Countable
  <2> HIDE DEF s, raised
  <2>4. Keeps(b, s) /\ Tallied(snap, s, TagPanic)
    BY <2>2, <2>3, AloneCounted, Zenon
  <2>5. Parsed(TagPanic, vals, s)
    BY <2>1, <2>3, <2>4 DEF Parsed, WarningsOf, GlobalsAfter, TypedSnap, SnapNames, Keeps, Countable
  <2> QED BY <2>5, <1>0, Zenon DEF Parse, ParseStep, s, b
<1>11. ASSUME ParseMemProf PROVE \E record \in RecordAt(TagMemProf) : ParseStep(TagMemProf, record)
  <2> DEFINE base(vals) == [snap EXCEPT !.profiles = Append(@, vals)]
  <2> PICK record \in RecordAt(TagMemProf) :
        Parse(record, TagMemProf, FALSE, Counted(base(record.val), [MemProfCount |-> 1]))
    BY <1>11, Zenon DEF ParseMemProf
  <2> DEFINE vals == record.val
             b == base(vals)
             s == Counted(b, [MemProfCount |-> 1])
  <2>1. DOMAIN b = SnapNames /\ b.profiles = Append(snap.profiles, vals)
        /\ \A x \in SnapNames \ {"profiles"} : b[x] = snap[x]
    BY DEF TypedSnap, SnapNames
  <2> HIDE DEF b
  <2> DEFINE raised == [MemProfCount |-> 1]
  <2>2. OneCounter(raised, TagMemProf) /\ s = Counted(b, raised)
    BY CounterTable DEF OneCounter
  <2>3. Countable(b) /\ b.stats = snap.stats /\ snap.stats["UnknownRecords"] = 0
    BY <2>1 DEF TypedSnap, SnapNames, Countable
  <2> HIDE DEF s, raised
  <2>4. Keeps(b, s) /\ Tallied(snap, s, TagMemProf)
    BY <2>2, <2>3, AloneCounted, Zenon
  <2>5. Parsed(TagMemProf, vals, s)
    BY SMTT(60), <2>1, <2>3, <2>4 DEF Parsed, WarningsOf, GlobalsAfter, TypedSnap, SnapNames, Keeps, Countable
  <2> QED BY <2>5, <1>0, Zenon DEF Parse, ParseStep, s, b
<1>12. ASSUME ParseAllocSample PROVE \E record \in RecordAt(TagAllocSample) : ParseStep(TagAllocSample, record)
  <2> DEFINE base(vals) == [snap EXCEPT !.samples = Append(@, vals)]
  <2> PICK record \in RecordAt(TagAllocSample) :
        Parse(record, TagAllocSample, FALSE, Counted(base(record.val), [AllocSampleCount |-> 1]))
    BY <1>12, Zenon DEF ParseAllocSample
  <2> DEFINE vals == record.val
             b == base(vals)
             s == Counted(b, [AllocSampleCount |-> 1])
  <2>1. DOMAIN b = SnapNames /\ b.samples = Append(snap.samples, vals)
        /\ \A x \in SnapNames \ {"samples"} : b[x] = snap[x]
    BY DEF TypedSnap, SnapNames
  <2> HIDE DEF b
  <2> DEFINE raised == [AllocSampleCount |-> 1]
  <2>2. OneCounter(raised, TagAllocSample) /\ s = Counted(b, raised)
    BY CounterTable DEF OneCounter
  <2>3. Countable(b) /\ b.stats = snap.stats /\ snap.stats["UnknownRecords"] = 0
    BY <2>1 DEF TypedSnap, SnapNames, Countable
  <2> HIDE DEF s, raised
  <2>4. Keeps(b, s) /\ Tallied(snap, s, TagAllocSample)
    BY <2>2, <2>3, AloneCounted, Zenon
  <2>5. Parsed(TagAllocSample, vals, s)
    BY <2>1, <2>3, <2>4 DEF Parsed, WarningsOf, GlobalsAfter, TypedSnap, SnapNames, Keeps, Countable
  <2> QED BY <2>5, <1>0, Zenon DEF Parse, ParseStep, s, b
<1>13. ASSUME ParseGoroutine PROVE \E record \in RecordAt(TagGoroutine) : ParseStep(TagGoroutine, record)
  <2> DEFINE base(vals) == [snap EXCEPT !.goroutines = Append(@, GoroutineOf(vals))]
  <2> PICK record \in RecordAt(TagGoroutine) :
        Parse(record, TagGoroutine, FALSE, Counted(base(record.val), [GoroutineCount |-> 1]))
    BY <1>13, Zenon DEF ParseGoroutine, GoroutineOf
  <2> DEFINE vals == record.val
             b == base(vals)
             s == Counted(b, [GoroutineCount |-> 1])
  <2>1. DOMAIN b = SnapNames /\ b.goroutines = Append(snap.goroutines, GoroutineOf(vals))
        /\ \A x \in SnapNames \ {"goroutines"} : b[x] = snap[x]
    BY DEF TypedSnap, SnapNames
  <2> HIDE DEF b
  <2> DEFINE raised == [GoroutineCount |-> 1]
  <2>2. OneCounter(raised, TagGoroutine) /\ s = Counted(b, raised)
    BY CounterTable DEF OneCounter
  <2>3. Countable(b) /\ b.stats = snap.stats /\ snap.stats["UnknownRecords"] = 0
    BY <2>1 DEF TypedSnap, SnapNames, Countable
  <2> HIDE DEF s, raised
  <2>4. Keeps(b, s) /\ Tallied(snap, s, TagGoroutine)
    BY <2>2, <2>3, AloneCounted, Zenon
  <2>5. Parsed(TagGoroutine, vals, s)
    BY <2>1, <2>3, <2>4 DEF Parsed, WarningsOf, GlobalsAfter, TypedSnap, SnapNames, Keeps, Countable
  <2> QED BY <2>5, <1>0, Zenon DEF Parse, ParseStep, s, b
<1> QED BY <1>1, <1>2, <1>3, <1>4, <1>5, <1>6, <1>7, <1>8, <1>9, <1>10, <1>11, <1>12, <1>13

LEMMA PayloadSteps ==
  ASSUME TypedSnap(snap)
  PROVE
    /\ ParseObject => \E record \in RecordAt(TagObject) : ParseStep(TagObject, record)
    /\ ParseData => \E record \in RecordAt(TagData) : ParseStep(TagData, record)
    /\ ParseBSS => \E record \in RecordAt(TagBSS) : ParseStep(TagBSS, record)
    /\ ParseStackFrame => \E record \in RecordAt(TagStackFrame) : ParseStep(TagStackFrame, record)
<1> USE DEF TagEOF, TagObject, TagOtherRoot, TagType, TagGoroutine, TagStackFrame, TagParams,
            TagFinalizer, TagItab, TagOSThread, TagMemStats, TagQueuedFinalizer, TagData, TagBSS,
            TagDefer, TagPanic, TagMemProf, TagAllocSample
<1>1. ASSUME ParseObject PROVE \E record \in RecordAt(TagObject) : ParseStep(TagObject, record)
  <2> DEFINE base(vals) == Noted([snap EXCEPT !.objects = Append(@, ObjectOf(vals)),
                                              !.refs = IF opts.lazy /\ ObjectOf(vals).size > 0
                                                       THEN Append(@, Ref(vals)) ELSE @],
                                 ObjectWarnings(vals))
             raised(vals) == [ObjectCount |-> 1, ObjectBytes |-> ObjectOf(vals).size,
                              ObjectPointers |-> Len(ObjectOf(vals).pointers)]
  <2> PICK record \in RecordAt(TagObject) :
        Parse(record, TagObject,
              \/ Len(record.val[2].cells) > MaxUint - record.val[1]
              \/ ~ Tolerated(ObjectWarnings(record.val)),
              Counted(Counted(base(record.val), raised(record.val)), Interfaces(ObjectPointers(record.val))))
    BY <1>1, Zenon DEF ParseObject
  <2> DEFINE vals == record.val
             object == ObjectOf(vals)
             refs == RefsAfter(vals)
             warned == ObjectWarnings(vals)
             b == base(vals)
             c == Counted(b, raised(vals))
             s == Counted(c, Interfaces(ObjectPointers(vals)))
  <2>1. /\ DOMAIN b = SnapNames /\ b.objects = Append(snap.objects, object) /\ b.refs = refs
        /\ b.warnings = snap.warnings + warned
        /\ \A x \in SnapNames \ {"objects", "refs", "warnings"} : b[x] = snap[x]
    <3> DEFINE d == [snap EXCEPT !.objects = Append(@, object),
                                 !.refs = IF opts.lazy /\ object.size > 0 THEN Append(@, Ref(vals)) ELSE @]
    <3>1. d.refs = refs
      BY DEF TypedSnap, SnapNames, RefsAfter
    <3>2. /\ DOMAIN d = SnapNames /\ d.objects = Append(snap.objects, object)
          /\ \A x \in SnapNames \ {"objects", "refs"} : d[x] = snap[x]
      BY DEF TypedSnap, SnapNames
    <3>3. b = Noted(d, warned)
      OBVIOUS
    <3> HIDE DEF d, b, object, refs, warned
    <3> QED BY <3>1, <3>2, <3>3 DEF SnapNames, Noted
  <2> HIDE DEF b
  <2>2. "UnknownRecords" \notin DOMAIN raised(vals)
    OBVIOUS
  <2>3. "UnknownRecords" \notin DOMAIN Interfaces(ObjectPointers(vals))
    BY DEF Interfaces
  <2>4. Countable(b) /\ snap.stats["UnknownRecords"] = 0
    BY <2>1 DEF TypedSnap, SnapNames, Countable
  <2>5. Keeps(b, c)
    BY <2>2, <2>4, CountedStats, Zenon
  <2>9. Raising(raised(vals), TagObject)
    <3> DEFINE up == raised(vals)
    <3>1. TagObject \in DOMAIN CounterOf /\ CounterOf[TagObject] \in DOMAIN up /\ up[CounterOf[TagObject]] = 1
      BY CounterTable
    <3>2. DOMAIN up \ {CounterOf[TagObject]} \subseteq
            {"ObjectBytes", "ObjectPointers", "DataPointers", "BSSPointers", "GlobalRootCount"}
      BY CounterTable
    <3> HIDE DEF up
    <3>3. Raising(up, TagObject)
      BY <3>1, <3>2, RaisedOne, Zenon
    <3> QED BY <3>3 DEF up
  <2>10. TallyOk(c) /\ Tallied(snap, c, TagObject) /\ TallyOk(snap)
    <3>1. b.stats = snap.stats /\ TallyOk(snap)
      BY <2>1 DEF TypedSnap, SnapNames
    <3> DEFINE up == raised(vals)
    <3>2. c = Counted(b, up)
      OBVIOUS
    <3>3. Raising(up, TagObject)
      BY <2>9
    <3> HIDE DEF c, up
    <3> QED BY <3>1, <3>2, <3>3, <2>4, TallySame, TallyCounted, Zenon
  <2> HIDE DEF c
  <2>6. Keeps(c, s)
    BY <2>3, <2>5, CountedStats, Zenon DEF Keeps
  <2>11. Tallied(snap, s, TagObject)
    <3> DEFINE up == Interfaces(ObjectPointers(vals))
    <3>1. 0 \notin DOMAIN CounterOf
      BY CounterTable
    <3>2. Raising(up, 0)
      <4>1. DOMAIN up \subseteq {"StackFrameCount", "StackPointers", "GlobalRootCount",
                                 "InterfaceFieldsDecoded", "EfaceFieldsDecoded"}
        BY DEF Interfaces
      <4> HIDE DEF up
      <4> QED BY <4>1, <3>1, RaisedNone, Zenon
    <3>3. s = Counted(c, up) /\ Countable(c)
      BY <2>5 DEF Keeps
    <3> HIDE DEF s, up
    <3>4. Tallied(c, s, 0)
      BY <2>10, <3>2, <3>3, TallyCounted, Zenon
    <3> QED BY <2>10, <3>1, <3>4, TallyChain, Zenon
  <2> HIDE DEF s, object, warned, refs
  <2>7. Parsed(TagObject, vals, s)
    <3>1. /\ Countable(s) /\ \A x \in SnapNames \ {"stats"} : s[x] = b[x]
      BY <2>5, <2>6, Zenon DEF Keeps
    <3>2. /\ s.objects = Append(snap.objects, object) /\ s.refs = refs /\ s.warnings = snap.warnings + warned
          /\ \A x \in SnapNames \ {"objects", "refs", "warnings", "stats"} : s[x] = snap[x]
      BY <2>1, <3>1 DEF SnapNames
    <3>3. WarningsOf(TagObject, vals) = warned /\ ObjectOf(vals) = object /\ RefsAfter(vals) = refs
      BY DEF WarningsOf, warned, object, refs
    <3>4. /\ s.params = snap.params /\ s.memStats = snap.memStats /\ s.types = snap.types /\ s.itabs = snap.itabs
          /\ s.globals = snap.globals /\ s.goroutines = snap.goroutines /\ s.data = snap.data
          /\ s.bss = snap.bss /\ s.finalizers = snap.finalizers /\ s.queued = snap.queued
          /\ s.threads = snap.threads /\ s.profiles = snap.profiles /\ s.samples = snap.samples
      BY <3>2 DEF SnapNames
    <3>5. DOMAIN s = SnapNames /\ s.stats["UnknownRecords"] = snap.stats["UnknownRecords"]
      BY <2>4, <3>1 DEF Countable
    <3>6. /\ s.objects = Append(snap.objects, object) /\ s.refs = refs /\ s.warnings = snap.warnings + warned
      BY <3>2
    <3> QED BY ONLY <3>3, <3>4, <3>5, <3>6, <2>11 DEF Parsed, GlobalsAfter
  <2>8. Refused(TagObject, vals) <=> \/ Len(vals[2].cells) > MaxUint - vals[1] \/ ~ Tolerated(warned)
    BY DEF Refused, warned
  <2> QED BY <2>7, <2>8, Zenon DEF Parse, ParseStep, s, c, b, warned
<1>2. ASSUME NEW tag \in {TagData, TagBSS}, NEW kind \in {"data", "bss"},
             kind = "data" <=> tag = TagData,
             NEW record \in RecordAt(tag),
             Parse(record, tag, ~ Tolerated(SegmentPointers(record.val).warned), SegmentParsed(kind, record.val))
      PROVE  ParseStep(tag, record)
  <2> DEFINE vals == record.val
             found == SegmentPointers(vals)
             segment == SegmentOf(vals)
             roots == RootsOf(kind, vals)
             a == WithSegment(kind, segment)
             b == Noted([a EXCEPT !.globals = @ \o roots], found.warned)
             c == Counted(b, [GlobalRootCount |-> Len(roots)])
             s == Counted(c, Interfaces(found))
             field == IF kind = "data" THEN "data" ELSE "bss"
  <2>1. SegmentParsed(kind, vals) = s
    BY Zenon DEF SegmentParsed, SegmentOf, RootsOf
  <2> HIDE DEF found, segment, roots
  <2>2. /\ Countable(a) /\ a[field] = Append(snap[field], segment)
        /\ \A x \in SnapNames \ {field, "stats"} : a[x] = snap[x]
    <3> DEFINE z == [snap EXCEPT ![field] = Append(@, segment)]
               raised == IF kind = "data" THEN [DataCount |-> 1, DataPointers |-> Len(segment.pointers)]
                         ELSE [BSSCount |-> 1, BSSPointers |-> Len(segment.pointers)]
    <3>1. a = Counted(z, raised)
      BY DEF WithSegment
    <3>2. /\ Countable(z) /\ z[field] = Append(snap[field], segment)
          /\ \A x \in SnapNames \ {field} : z[x] = snap[x]
      BY DEF TypedSnap, SnapNames, Countable
    <3>3. "UnknownRecords" \notin DOMAIN raised
      OBVIOUS
    <3> HIDE DEF z, raised, a
    <3>4. Keeps(z, a)
      BY <3>1, <3>2, <3>3, CountedStats, Zenon
    <3> QED BY <3>2, <3>4 DEF Keeps, SnapNames
  <2>11. TallyOk(snap) /\ TallyOk(a) /\ Tallied(snap, a, tag)
    <3> DEFINE z == [snap EXCEPT ![field] = Append(@, segment)]
               up == IF kind = "data" THEN [DataCount |-> 1, DataPointers |-> Len(segment.pointers)]
                     ELSE [BSSCount |-> 1, BSSPointers |-> Len(segment.pointers)]
    <3>1. a = Counted(z, up)
      BY DEF WithSegment
    <3>2. Countable(z) /\ z.stats = snap.stats /\ TallyOk(snap)
      BY DEF TypedSnap, SnapNames, Countable
    <3>3. Raising(up, tag)
      <4>1. tag \in DOMAIN CounterOf /\ CounterOf[tag] \in DOMAIN up /\ up[CounterOf[tag]] = 1
        BY <1>2, CounterTable
      <4>2. DOMAIN up \ {CounterOf[tag]} \subseteq
              {"ObjectBytes", "ObjectPointers", "DataPointers", "BSSPointers", "GlobalRootCount"}
        BY <1>2, CounterTable
      <4> HIDE DEF up
      <4> QED BY <4>1, <4>2, RaisedOne, Zenon
    <3> HIDE DEF z, up, a
    <3> QED BY <3>1, <3>2, <3>3, TallySame, TallyCounted, Zenon
  <2> HIDE DEF a
  <2>3. /\ Countable(b) /\ b.globals = snap.globals \o roots /\ b.warnings = snap.warnings + found.warned
        /\ \A x \in SnapNames \ {"globals", "warnings"} : b[x] = a[x]
    BY <2>2 DEF Countable, SnapNames, Noted
  <2> HIDE DEF b
  <2>4. "UnknownRecords" \notin DOMAIN [GlobalRootCount |-> Len(roots)]
    OBVIOUS
  <2>5. "UnknownRecords" \notin DOMAIN Interfaces(found)
    BY DEF Interfaces
  <2>6. Keeps(b, c)
    BY <2>3, <2>4, CountedStats, Zenon
  <2> HIDE DEF c
  <2>7. Keeps(c, s)
    <3>1. Countable(c)
      BY <2>6 DEF Keeps
    <3> QED BY <2>5, <3>1, CountedStats, Zenon
  <2> HIDE DEF s
  <2>12. Tallied(snap, s, tag)
    <3> DEFINE up == [GlobalRootCount |-> Len(roots)]
               more == Interfaces(found)
    <3>1. 0 \notin DOMAIN CounterOf
      BY CounterTable
    <3>2. Raising(up, 0) /\ Raising(more, 0)
      <4> DEFINE names == {"StackFrameCount", "StackPointers", "GlobalRootCount",
                           "InterfaceFieldsDecoded", "EfaceFieldsDecoded"}
      <4>1. DOMAIN up \subseteq names /\ DOMAIN more \subseteq names
        BY DEF Interfaces
      <4> HIDE DEF up, more
      <4> QED BY <4>1, <3>1, RaisedNone, Zenon
    <3>3. c = Counted(b, up) /\ s = Counted(c, more) /\ Countable(c)
      BY <2>6 DEF Keeps, c, s
    <3>4. b.stats = a.stats
      BY <2>3 DEF SnapNames
    <3> HIDE DEF up, more
    <3>5. TallyOk(b) /\ Tallied(snap, b, tag)
      BY <3>4, <2>11 DEF TallyOk, Tallied
    <3>6. TallyOk(c) /\ Tallied(b, c, 0)
      BY <2>3, <3>2, <3>3, <3>5, TallyCounted, Zenon
    <3>7. Tallied(c, s, 0)
      BY <3>2, <3>3, <3>6, TallyCounted, Zenon
    <3>8. Tallied(snap, c, tag)
      BY <2>11, <3>1, <3>5, <3>6, TallyChain, Zenon
    <3> QED BY <2>11, <3>1, <3>7, <3>8, TallyChain, Zenon
  <2>8. Parsed(tag, vals, s)
    <3>1. /\ Countable(s) /\ \A x \in SnapNames \ {"stats"} : s[x] = b[x]
      BY <2>6, <2>7, Zenon DEF Keeps
    <3>2. /\ s.globals = a.globals \o roots /\ s.warnings = a.warnings + found.warned
          /\ \A x \in SnapNames \ {"globals", "warnings", "stats"} : s[x] = a[x]
      <4>1. a.globals = snap.globals /\ a.warnings = snap.warnings
        BY <2>2 DEF SnapNames
      <4>2. s.globals = b.globals /\ s.warnings = b.warnings
        BY <3>1 DEF SnapNames
      <4> QED BY <2>3, <3>1, <4>1, <4>2, Zenon
    <3>3. WarningsOf(tag, vals) = found.warned /\ SegmentOf(vals) = segment /\ RootsOf(kind, vals) = roots
      BY <1>2 DEF WarningsOf, found, segment, roots
    <3>4. snap.stats["UnknownRecords"] = 0
      BY DEF TypedSnap
    <3>5. CASE tag = TagData
      <4>1. kind = "data" /\ field = "data"
        BY <1>2, <3>5
      <4>2. s.globals = snap.globals \o roots /\ s.warnings = snap.warnings + found.warned
            /\ s.data = Append(snap.data, segment)
            /\ \A x \in SnapNames \ {"globals", "warnings", "stats", "data"} : s[x] = snap[x]
        BY <2>2, <3>2, <4>1 DEF SnapNames
      <4>3. /\ s.params = snap.params /\ s.memStats = snap.memStats /\ s.types = snap.types /\ s.itabs = snap.itabs
            /\ s.objects = snap.objects /\ s.goroutines = snap.goroutines /\ s.bss = snap.bss
            /\ s.finalizers = snap.finalizers /\ s.queued = snap.queued /\ s.threads = snap.threads
            /\ s.profiles = snap.profiles /\ s.samples = snap.samples /\ s.refs = snap.refs
        BY <4>2 DEF SnapNames
      <4>4. DOMAIN s = SnapNames /\ s.stats["UnknownRecords"] = snap.stats["UnknownRecords"]
        BY <3>1, <3>4 DEF Countable
      <4>5. /\ s.globals = snap.globals \o roots /\ s.warnings = snap.warnings + found.warned
            /\ s.data = Append(snap.data, segment)
        BY <4>2
      <4>6. WarningsOf(TagData, vals) = found.warned /\ SegmentOf(vals) = segment /\ RootsOf("data", vals) = roots
        BY <3>3, <3>5, <4>1, Zenon
      <4>8. GlobalsAfter(TagData, vals) = snap.globals \o RootsOf("data", vals)
        BY DEF GlobalsAfter
      <4>9. s.globals = GlobalsAfter(TagData, vals)
        BY <4>5, <4>6, <4>8, Zenon
      <4>10. Tallied(snap, s, TagData)
        BY <2>12, <3>5
      <4>7. Parsed(TagData, vals, s)
        BY ONLY <4>3, <4>4, <4>5, <4>6, <4>9, <4>10 DEF Parsed
      <4> QED BY <3>5, <4>7, Zenon
    <3>6. CASE tag = TagBSS
      <4>1. kind = "bss" /\ field = "bss"
        BY <1>2, <3>6
      <4>2. s.globals = snap.globals \o roots /\ s.warnings = snap.warnings + found.warned
            /\ s.bss = Append(snap.bss, segment)
            /\ \A x \in SnapNames \ {"globals", "warnings", "stats", "bss"} : s[x] = snap[x]
        BY <2>2, <3>2, <4>1 DEF SnapNames
      <4>3. /\ s.params = snap.params /\ s.memStats = snap.memStats /\ s.types = snap.types /\ s.itabs = snap.itabs
            /\ s.objects = snap.objects /\ s.goroutines = snap.goroutines /\ s.data = snap.data
            /\ s.finalizers = snap.finalizers /\ s.queued = snap.queued /\ s.threads = snap.threads
            /\ s.profiles = snap.profiles /\ s.samples = snap.samples /\ s.refs = snap.refs
        BY <4>2 DEF SnapNames
      <4>4. DOMAIN s = SnapNames /\ s.stats["UnknownRecords"] = snap.stats["UnknownRecords"]
        BY <3>1, <3>4 DEF Countable
      <4>5. /\ s.globals = snap.globals \o roots /\ s.warnings = snap.warnings + found.warned
            /\ s.bss = Append(snap.bss, segment)
        BY <4>2
      <4>6. WarningsOf(TagBSS, vals) = found.warned /\ SegmentOf(vals) = segment /\ RootsOf("bss", vals) = roots
        BY <3>3, <3>6, <4>1, Zenon
      <4>8. GlobalsAfter(TagBSS, vals) = snap.globals \o RootsOf("bss", vals)
        BY DEF GlobalsAfter
      <4>9. s.globals = GlobalsAfter(TagBSS, vals)
        BY <4>5, <4>6, <4>8, Zenon
      <4>10. Tallied(snap, s, TagBSS)
        BY <2>12, <3>6
      <4>7. Parsed(TagBSS, vals, s)
        BY ONLY <4>3, <4>4, <4>5, <4>6, <4>9, <4>10 DEF Parsed
      <4> QED BY <3>6, <4>7, Zenon
    <3> QED BY <1>2, <3>5, <3>6
  <2>9. Refused(tag, vals) <=> ~ Tolerated(found.warned)
    BY <1>2 DEF Refused, found
  <2>10. Parse(record, tag, ~ Tolerated(found.warned), s)
    BY <1>2, <2>1, Zenon DEF found
  <2> QED BY <2>8, <2>9, <2>10, Zenon DEF Parse, ParseStep
<1>3. ASSUME ParseData PROVE \E record \in RecordAt(TagData) : ParseStep(TagData, record)
  <2> PICK record \in RecordAt(TagData) :
        Parse(record, TagData, ~ Tolerated(SegmentPointers(record.val).warned), SegmentParsed("data", record.val))
    BY <1>3, Zenon DEF ParseData
  <2> QED BY <1>2
<1>4. ASSUME ParseBSS PROVE \E record \in RecordAt(TagBSS) : ParseStep(TagBSS, record)
  <2> PICK record \in RecordAt(TagBSS) :
        Parse(record, TagBSS, ~ Tolerated(SegmentPointers(record.val).warned), SegmentParsed("bss", record.val))
    BY <1>4, Zenon DEF ParseBSS
  <2> QED BY <1>2
<1>5. ASSUME ParseStackFrame PROVE \E record \in RecordAt(TagStackFrame) : ParseStep(TagStackFrame, record)
  <2> PICK record \in RecordAt(TagStackFrame) :
        Parse(record, TagStackFrame, ~ Tolerated(FrameWarnings(record.val)), FrameParsed(record.val))
    BY <1>5, Zenon DEF ParseStackFrame
  <2> DEFINE vals == record.val
             frame == FrameOf(vals)
             warned == FrameWarnings(vals)
             found == FramePointers(vals)
             b == Noted(snap, warned)
             c == Counted(b, Interfaces(found))
             z == [c EXCEPT !.goroutines[curG].frames = Append(@, frame)]
             raised == [StackFrameCount |-> 1, StackPointers |-> Len(frame.pointers)]
             s == IF curG = 0 THEN c ELSE Counted(z, raised)
  <2>1. FrameParsed(vals) = s
    BY Zenon DEF FrameParsed, FrameOf
  <2> HIDE DEF frame, warned, found
  <2>2. /\ Countable(b) /\ b.warnings = snap.warnings + warned
        /\ \A x \in SnapNames \ {"warnings"} : b[x] = snap[x]
    BY DEF TypedSnap, Countable, SnapNames, Noted
  <2> HIDE DEF b
  <2>3. "UnknownRecords" \notin DOMAIN Interfaces(found)
    BY DEF Interfaces
  <2>4. Keeps(b, c)
    BY <2>2, <2>3, CountedStats, Zenon
  <2> HIDE DEF c
  <2>5. /\ Countable(s)
        /\ s.goroutines = IF curG = 0 THEN snap.goroutines
                          ELSE [snap.goroutines EXCEPT ![curG].frames = Append(@, frame)]
        /\ \A x \in SnapNames \ {"stats", "goroutines"} : s[x] = c[x]
    <3>1. c.goroutines = snap.goroutines /\ DOMAIN c = SnapNames /\ Countable(c)
      BY <2>2, <2>4 DEF Keeps, Countable, SnapNames
    <3>2. CASE curG = 0
      BY <3>1, <3>2
    <3>3. CASE curG # 0
      <4>1. /\ Countable(z) /\ z.goroutines = [snap.goroutines EXCEPT ![curG].frames = Append(@, frame)]
            /\ \A x \in SnapNames \ {"goroutines"} : z[x] = c[x]
        BY <3>1 DEF Countable, SnapNames
      <4>2. "UnknownRecords" \notin DOMAIN raised
        OBVIOUS
      <4>3. s = Counted(z, raised)
        BY <3>3
      <4> HIDE DEF z, raised, s
      <4>4. Keeps(z, s)
        BY <4>1, <4>2, <4>3, CountedStats, Zenon
      <4>5. Countable(s) /\ \A x \in SnapNames \ {"stats"} : s[x] = z[x]
        BY <4>4, Zenon DEF Keeps
      <4>6. s.goroutines = z.goroutines /\ \A x \in SnapNames \ {"stats", "goroutines"} : s[x] = c[x]
        BY <4>1, <4>5 DEF SnapNames
      <4>7. s.goroutines = [snap.goroutines EXCEPT ![curG].frames = Append(@, frame)]
        BY <4>1, <4>6, Zenon
      <4> HIDE DEF c
      <4> QED BY <3>3, <4>5, <4>6, <4>7
    <3> QED BY <3>2, <3>3
  <2>9. Tallied(snap, s, TagStackFrame)
    <3> DEFINE more == Interfaces(found)
               names == {"StackFrameCount", "StackPointers", "GlobalRootCount",
                         "InterfaceFieldsDecoded", "EfaceFieldsDecoded"}
    <3>1. TagStackFrame \notin DOMAIN CounterOf
      BY CounterTable
    <3>2. Raising(more, TagStackFrame)
      <4>1. DOMAIN more \subseteq names
        BY DEF Interfaces
      <4> HIDE DEF more
      <4> QED BY <4>1, <3>1, RaisedNone, Zenon
    <3>3. Raising(raised, TagStackFrame)
      <4>1. DOMAIN raised \subseteq names
        OBVIOUS
      <4> HIDE DEF raised
      <4> QED BY <4>1, <3>1, RaisedNone, Zenon
    <3>4. b.stats = snap.stats /\ TallyOk(snap)
      BY <2>2 DEF TypedSnap, SnapNames
    <3>5. c = Counted(b, more)
      BY DEF c
    <3> HIDE DEF more
    <3>6. TallyOk(c) /\ Tallied(snap, c, TagStackFrame)
      BY <2>2, <3>2, <3>4, <3>5, TallySame, TallyCounted, Zenon
    <3>7. CASE curG = 0
      BY <3>6, <3>7
    <3>8. CASE curG # 0
      <4>1. Countable(c)
        BY <2>4 DEF Keeps
      <4>2. Countable(z) /\ z.stats = c.stats
        BY <4>1 DEF Countable, SnapNames
      <4>3. s = Counted(z, raised)
        BY <3>8
      <4> HIDE DEF z, raised, s
      <4>4. TallyOk(z) /\ Tallied(snap, z, TagStackFrame)
        BY <4>2, <3>6 DEF TallyOk, Tallied
      <4>5. Tallied(z, s, TagStackFrame)
        BY <3>3, <4>2, <4>3, <4>4, TallyCounted, Zenon
      <4> QED BY ONLY <3>1, <3>4, <4>4, <4>5, TallyChain
    <3> QED BY <3>7, <3>8
  <2> HIDE DEF s
  <2>6. Parsed(TagStackFrame, vals, s)
    <3>1. /\ s.warnings = snap.warnings + warned
          /\ \A x \in SnapNames \ {"warnings", "stats", "goroutines"} : s[x] = snap[x]
      <4>1. \A x \in SnapNames \ {"stats", "goroutines"} : s[x] = b[x]
        BY <2>4, <2>5 DEF Keeps
      <4>2. s.warnings = b.warnings
        BY <4>1 DEF SnapNames
      <4> QED BY <2>2, <4>1, <4>2
    <3>2. WarningsOf(TagStackFrame, vals) = warned /\ FrameOf(vals) = frame
      BY DEF WarningsOf, warned, frame
    <3>3. snap.stats["UnknownRecords"] = 0
      BY DEF TypedSnap
    <3>4. /\ s.params = snap.params /\ s.memStats = snap.memStats /\ s.types = snap.types /\ s.itabs = snap.itabs
          /\ s.objects = snap.objects /\ s.globals = snap.globals /\ s.data = snap.data
          /\ s.bss = snap.bss /\ s.finalizers = snap.finalizers /\ s.queued = snap.queued
          /\ s.threads = snap.threads /\ s.profiles = snap.profiles /\ s.samples = snap.samples
          /\ s.refs = snap.refs
      BY <3>1 DEF SnapNames
    <3>5. DOMAIN s = SnapNames /\ s.stats["UnknownRecords"] = snap.stats["UnknownRecords"]
      BY <2>5, <3>3 DEF Countable
    <3>6. /\ s.warnings = snap.warnings + warned
          /\ s.goroutines = IF curG = 0 THEN snap.goroutines
                            ELSE [snap.goroutines EXCEPT ![curG].frames = Append(@, frame)]
      BY <2>5, <3>1
    <3> QED BY ONLY <3>2, <3>4, <3>5, <3>6, <2>9 DEF Parsed, GlobalsAfter
  <2>7. Refused(TagStackFrame, vals) <=> ~ Tolerated(warned)
    BY DEF Refused, warned
  <2>8. Parse(record, TagStackFrame, ~ Tolerated(warned), s)
    BY <2>1, Zenon DEF warned
  <2> QED BY <2>6, <2>7, <2>8, Zenon DEF Parse, ParseStep
<1> QED BY <1>1, <1>3, <1>4, <1>5
-----------------------------------------------------------------------------
(* The next record                                                          *)

LEMMA NextRecord ==
  ASSUME Given, NEW n, AlignedAt(n), NEW tag \in 1 .. 17, NEW record \in RecordAt(tag)
  PROVE  /\ n + 1 \in 1 .. Count /\ dump.records[n + 1].tag = tag
         /\ WellFormed(dump.records[n + 1])
         /\ AllRead(file, Start(dump, n + 1), ShapeOf(dump.records[n + 1]),
                    dump.records[n + 1].vals, 0, record)
<1> DEFINE k == n + 1
           w == dump.records[k]
           t == EncodeUint(w.tag)
           parts == FlattenSeq(PartsOf(w))
           q == Tag.pos
<1>1. Tagged(tag, Tag) /\ record = Parts(tag, q)
  BY DEF RecordAt, At
<1>2. Tag.err = "none" /\ Tag.val = tag
  BY <1>1, Zenon DEF Tagged
<1>3. /\ k \in 1 .. Count /\ tag = w.tag /\ q = Start(dump, n) + Len(t)
      /\ q <= cut + 1 /\ q \in Nat \ {0}
  BY <1>2, TagReads, Zenon
<1>4. k - 1 = n
  BY DEF AlignedAt
<1> HIDE DEF k
<1>5. /\ Agrees(file, Start(dump, k - 1) + Len(t), parts)
      /\ Start(dump, k) = Start(dump, k - 1) + Len(t) + Len(parts) /\ WellFormed(w)
  BY <1>3, RecordsAgree, Zenon DEF Given, Count
<1> DEFINE end == q + Len(parts)
<1>6. Agrees(file, q, parts) /\ Start(dump, k) = end
  BY <1>3, <1>4, <1>5, Zenon
<1>7. file \in Seq(Cells) /\ q <= Len(file) + 1
  BY <1>3, GivenNumbers, Zenon
<1>8. w.tag \in DOMAIN Shape
  BY <1>3, ShapesAreNames, Zenon
<1>9. AllRead(file, end, ShapeOf(w), w.vals, 0, Parts(w.tag, q))
  BY <1>3, <1>5, <1>6, <1>7, <1>8, RecordReads, Zenon
<1>10. AllRead(file, Start(dump, k), ShapeOf(w), w.vals, 0, record)
  BY <1>1, <1>3, <1>6, <1>9, Zenon
<1> QED BY <1>3, <1>5, <1>10, Zenon DEF k

\* Once it has been read, one more record has.
LEMMA Advances ==
  ASSUME Given, NEW n, AlignedAt(n), NEW tag \in 1 .. 17, NEW record \in RecordAt(tag),
         record.err = "none"
  PROVE  /\ n + 1 \in 0 .. Count /\ record.pos = Start(dump, n + 1) /\ record.pos <= cut + 1
         /\ \A i \in 1 .. n + 1 : dump.records[i].tag \in DOMAIN Shape
<1> DEFINE k == n + 1
<1>1. /\ k \in 1 .. Count /\ dump.records[k].tag = tag
      /\ AllRead(file, Start(dump, k), ShapeOf(dump.records[k]), dump.records[k].vals, 0, record)
  BY NextRecord, Zenon
<1>2. n \in Nat /\ Count \in Nat /\ k = n + 1 /\ \A i \in 1 .. n : dump.records[i].tag \in DOMAIN Shape
  BY GivenNumbers DEF AlignedAt
<1> HIDE DEF k
<1>3. record.pos = Start(dump, k) /\ Start(dump, k) <= Len(file) + 1
  BY <1>1, Zenon DEF AllRead
<1>4. Len(file) = cut
  BY GivenNumbers, Zenon
<1>5. \A i \in 1 .. k : i = k \/ i \in 1 .. n
  BY <1>2
<1>6. \A i \in 1 .. k : dump.records[i].tag \in DOMAIN Shape
  BY <1>1, <1>2, <1>5, ShapesAreNames, Zenon
<1>7. k \in 0 .. Count
  BY <1>1, <1>2
<1> QED BY <1>3, <1>4, <1>6, <1>7, Zenon DEF k

\* The records that count are the first ones, up to the first that stops the parse.
LEMMA WrittenPrefix ==
  ASSUME Given, NEW n \in 0 .. Count, \A i \in 1 .. n : dump.records[i].tag \in DOMAIN Shape
  PROVE  /\ IsSeq(Written) /\ n <= Len(Written) /\ Len(Written) <= Count
         /\ \A i \in 1 .. Len(Written) :
              Written[i] = dump.records[i] /\ Written[i].tag \in DOMAIN Shape
         /\ n + 1 <= Count /\ dump.records[n + 1].tag \notin DOMAIN Shape
              => Len(Written) = n /\ Stops # {} /\ Min(Stops) = n + 1
         /\ n = Count => Len(Written) = n /\ Stops = {}
<1> DEFINE r == dump.records
           m == Min(Stops)
<1>1. /\ Count \in Nat /\ DOMAIN r = 1 .. Count /\ Len(r) = Count /\ IsSeq(r)
  BY WrittenDumps, Zenon DEF Given, Count
<1>2. Stops = {i \in 1 .. Count : r[i].tag \notin DOMAIN Shape}
  BY <1>1, Zenon DEF Stops
<1>3. Stops \in SUBSET Nat
  BY <1>1, <1>2
<1>4. Stops # {} => m \in Stops /\ \A i \in Stops : m <= i
  BY <1>3, LeastOf, Zenon
<1>5. Written = IF Stops = {} THEN r ELSE SubSeq(r, 1, m - 1)
  BY Zenon DEF Written
<1> HIDE DEF r, m
<1>6. CASE Stops = {}
  <2>1. \A i \in 1 .. Count : r[i].tag \in DOMAIN Shape
    BY <1>2, <1>6, Zenon
  <2>2. Written = r
    BY <1>5, <1>6
  <2>3. n + 1 <= Count => r[n + 1].tag \in DOMAIN Shape
    BY <1>1, <2>1
  <2> QED BY <1>1, <1>6, <2>1, <2>2, <2>3 DEF r
<1>7. CASE Stops # {}
  <2>1. m \in 1 .. Count /\ r[m].tag \notin DOMAIN Shape
    BY <1>2, <1>4, <1>7, Zenon
  <2>2. n < m
    <3> SUFFICES ASSUME m <= n PROVE FALSE
      BY <1>1, <2>1
    <3>1. m \in 1 .. n
      BY <1>1, <2>1
    <3> QED BY <2>1, <3>1, Zenon DEF r
  <2>3. \A i \in 1 .. m - 1 : i \in 1 .. Count /\ r[i].tag \in DOMAIN Shape
    <3> TAKE i \in 1 .. m - 1
    <3>1. i \in 1 .. Count /\ ~ (m <= i)
      BY <1>1, <2>1
    <3> QED BY <3>1, <1>2, <1>4, <1>7, Zenon
  <2>4. Written = SubSeq(r, 1, m - 1)
    BY <1>5, <1>7
  <2>5. IsSeq(Written) /\ Len(Written) = m - 1 /\ \A i \in 1 .. m - 1 : Written[i] = r[i]
    <3>1. m - 1 \in 0 .. Len(r)
      BY <1>1, <2>1
    <3> DEFINE X == {r[i] : i \in 1 .. Len(r)}
               v == SubSeq(r, 1, m - 1)
    <3>2. r \in Seq(X)
      <4>1. Len(r) \in Nat /\ r = [i \in 1 .. Len(r) |-> r[i]] /\ (\A i \in 1 .. Len(r) : r[i] \in X)
        BY <1>1, Zenon DEF IsSeq
      <4> HIDE DEF X
      <4> QED BY <4>1
    <3> HIDE DEF X
    <3>3. v \in Seq(X) /\ Len(v) = m - 1 /\ \A i \in 1 .. m - 1 : v[i] = r[i]
      BY ONLY <3>1, <3>2
    <3> HIDE DEF v
    <3>4. IsSeq(v)
      BY <3>3, SequencesAreSeq, Zenon
    <3> QED BY <2>4, <3>3, <3>4, Zenon DEF v
  <2>6. n + 1 <= Count /\ r[n + 1].tag \notin DOMAIN Shape => m = n + 1
    <3> SUFFICES ASSUME n + 1 <= Count, r[n + 1].tag \notin DOMAIN Shape PROVE m = n + 1
      OBVIOUS
    <3> DEFINE k == n + 1
    <3>1. k \in 1 .. Count /\ ~ (k \in 1 .. m - 1)
      <4>1. k \in 1 .. Count
        BY <1>1
      <4>2. r[k].tag \notin DOMAIN Shape
        OBVIOUS
      <4> HIDE DEF k
      <4> QED BY <4>1, <4>2, <2>3, Zenon
    <3> QED BY <3>1, <2>1, <2>2
  <2>7. \A i \in 1 .. Len(Written) : Written[i] = r[i] /\ Written[i].tag \in DOMAIN Shape
    BY <2>3, <2>5, Zenon
  <2>8. n <= m - 1 /\ m - 1 <= Count /\ n # Count /\ (m = n + 1 => m - 1 = n)
    BY <1>1, <2>1, <2>2
  <2> QED BY <1>7, <2>5, <2>6, <2>7, <2>8, Zenon DEF r, m
<1> QED BY <1>6, <1>7
-----------------------------------------------------------------------------
(* Numbering the records                                                    *)

Counting(S, s, k) == IF k \in S THEN Append(s, k) ELSE s

IsCountLoop(u, S, n) ==
  u = [i \in 0 .. n |-> IF i = 0 THEN <<>> ELSE Counting(S, u[i - 1], i)]

LEMMA NumbersLoops ==
  ASSUME NEW N, NEW n \in Nat
  PROVE  \E u : /\ Numbers(N, n) = u[n] /\ u[0] = <<>>
                /\ \A i \in 1 .. n : u[i] = Counting(N, u[i - 1], i)
<1> DEFINE body(u, i) == IF i = 0 THEN <<>> ELSE Counting(N, u[i - 1], i)
           Fits(u, k) == \A i \in 0 .. k : u[i] = body(u, i)
           S == {k \in 0 .. n : \E u : Fits(u, k)}
<1>0. n \in Nat
  OBVIOUS
<1>1. 0 \in S
  <2> DEFINE u == [i \in {0} |-> <<>>]
  <2>1. u[0] = <<>>
    OBVIOUS
  <2> HIDE DEF u
  <2>2. Fits(u, 0)
    BY <2>1
  <2> HIDE DEF Fits
  <2> QED BY <2>2, <1>0
<1>2. ASSUME NEW k \in 0 .. n - 1, k \in S PROVE k + 1 \in S
  <2>1. PICK g : Fits(g, k)
    BY <1>2
  <2> DEFINE h == [i \in 0 .. n |-> IF i = k + 1 THEN body(g, i) ELSE g[i]]
  <2>2. ASSUME NEW i \in 0 .. k + 1 PROVE h[i] = body(h, i)
    <3>1. h[i] = body(g, i)
      <4>1. i \in 0 .. n
        BY <1>0
      <4> HIDE DEF body
      <4>2. CASE i = k + 1
        BY <4>1, <4>2, Zenon
      <4>3. CASE i # k + 1
        <5>1. i \in 0 .. k
          BY <4>3, <1>0
        <5>2. h[i] = g[i]
          BY <4>1, <4>3, Zenon
        <5> HIDE DEF h
        <5> QED BY <5>1, <5>2, <2>1, Zenon
      <4> QED BY <4>2, <4>3
    <3>2. i # 0 => h[i - 1] = g[i - 1]
      <4>1. i # 0 => i - 1 \in 0 .. n /\ i - 1 # k + 1
        BY <1>0
      <4> HIDE DEF body
      <4> QED BY <4>1, Zenon
    <3> HIDE DEF h
    <3>3. body(g, i) = body(h, i)
      BY <3>2, Zenon
    <3> HIDE DEF body
    <3> QED BY <3>1, <3>3, Zenon
  <2>3. Fits(h, k + 1)
    <3> HIDE DEF h, body
    <3> QED BY <2>2, Zenon
  <2>4. k + 1 \in 0 .. n
    BY <1>0
  <2> HIDE DEF h, Fits
  <2> QED BY <2>3, <2>4, Zenon
<1>3. n \in S
  <2>1. 0 .. n \subseteq S
    <3> HIDE DEF S
    <3> QED BY <1>0, <1>1, <1>2, UpwardInduction
  <2>2. n \in 0 .. n
    BY <1>0
  <2> HIDE DEF S
  <2> QED BY <2>1, <2>2, Zenon
<1>4. PICK g : Fits(g, n)
  BY <1>3
<1> DEFINE h == [i \in 0 .. n |-> g[i]]
<1>5. ASSUME NEW i \in 0 .. n PROVE h[i] = body(h, i)
  <2>1. h[i] = body(g, i)
    <3> HIDE DEF body
    <3> QED BY <1>4, Zenon
  <2>2. i # 0 => h[i - 1] = g[i - 1]
    <3>1. i # 0 => i - 1 \in 0 .. n
      BY <1>0
    <3> HIDE DEF body
    <3> QED BY <3>1, Zenon
  <2> HIDE DEF h
  <2>3. body(g, i) = body(h, i)
    BY <2>2, Zenon
  <2> HIDE DEF body
  <2> QED BY <2>1, <2>3, Zenon
<1>6. h = [i \in 0 .. n |-> body(h, i)]
  <2>1. h = [i \in 0 .. n |-> h[i]]
    BY Zenon
  <2> HIDE DEF h, body
  <2> QED BY <1>5, <2>1
<1> DEFINE c == CHOOSE c : IsCountLoop(c, N, n)
<1>7. IsCountLoop(c, N, n)
  <2>1. IsCountLoop(h, N, n)
    <3> HIDE DEF h
    <3> QED BY <1>6, Zenon DEF IsCountLoop
  <2> HIDE DEF h
  <2> QED BY <2>1, Zenon
<1>8. Numbers(N, n) = c[n]
  BY Zenon DEF Numbers, IsCountLoop, Counting
<1> HIDE DEF c
<1>9. c = [i \in 0 .. n |-> body(c, i)]
  BY <1>7, Zenon DEF IsCountLoop
<1>10. \A i \in 0 .. n : c[i] = body(c, i)
  <2> TAKE i \in 0 .. n
  <2> DEFINE d == [j \in 0 .. n |-> body(c, j)]
  <2>1. c = d /\ d[i] = body(c, i)
    <3> HIDE DEF body
    <3> QED BY <1>9, Zenon
  <2> HIDE DEF d, body
  <2> QED BY <2>1, Zenon
<1>11. c[0] = <<>>
  BY <1>10, <1>0
<1>12. \A i \in 1 .. n : c[i] = Counting(N, c[i - 1], i)
  <2>1. \A i \in 1 .. n : i \in 0 .. n /\ i # 0
    BY <1>0
  <2> QED BY <2>1, <1>10, Zenon
<1> QED BY <1>8, <1>11, <1>12, Zenon

LEMMA NumbersSteps ==
  ASSUME NEW N
  PROVE  /\ Numbers(N, 0) = <<>>
         /\ \A n \in Nat : Numbers(N, n + 1) = IF n + 1 \in N THEN Append(Numbers(N, n), n + 1)
                                               ELSE Numbers(N, n)
<1>1. Numbers(N, 0) = <<>>
  <2>1. 0 \in Nat
    OBVIOUS
  <2> QED BY <2>1, NumbersLoops, Zenon
<1>2. ASSUME NEW n \in Nat PROVE Numbers(N, n + 1) = Counting(N, Numbers(N, n), n + 1)
  <2> DEFINE l == n + 1
  <2>0. l \in Nat /\ n \in Nat
    OBVIOUS
  <2>1. PICK g : /\ Numbers(N, n) = g[n] /\ g[0] = <<>>
                 /\ \A i \in 1 .. n : g[i] = Counting(N, g[i - 1], i)
    BY NumbersLoops, Zenon
  <2> HIDE DEF l
  <2>2. PICK h : /\ Numbers(N, l) = h[l] /\ h[0] = <<>>
                 /\ \A i \in 1 .. l : h[i] = Counting(N, h[i - 1], i)
    BY <2>0, NumbersLoops, Zenon
  <2> DEFINE S == {k \in 0 .. n : g[k] = h[k]}
  <2>3. 0 \in S
    BY <2>1, <2>2
  <2>4. ASSUME NEW k \in 0 .. n - 1, k \in S PROVE k + 1 \in S
    <3> DEFINE j == k + 1
    <3>1. j \in 1 .. n /\ j \in 1 .. l /\ j - 1 = k /\ j \in 0 .. n
      BY DEF l
    <3> HIDE DEF j
    <3>2. g[k] = h[k]
      BY <2>4
    <3>3. g[j] = h[j]
      BY <3>1, <3>2, <2>1, <2>2, Zenon
    <3>4. j \in S
      BY <3>1, <3>3
    <3> HIDE DEF S
    <3> QED BY <3>4 DEF j
  <2>5. 0 .. n \subseteq S
    <3> HIDE DEF S
    <3> QED BY <2>3, <2>4, UpwardInduction
  <2>6. g[n] = h[n]
    <3>1. n \in 0 .. n
      OBVIOUS
    <3> QED BY <2>5, <3>1
  <2>7. l \in 1 .. l /\ l - 1 = n
    BY DEF l
  <2> QED BY <2>1, <2>2, <2>6, <2>7, Zenon DEF l
<1> QED BY <1>1, <1>2, Zenon DEF Counting

\* u is s with e after it.
Grows(s, e, u) ==
  /\ IsSeq(u) /\ Len(u) = Len(s) + 1 /\ u[Len(s) + 1] = e
  /\ \A i \in 1 .. Len(s) : u[i] = s[i]

LEMMA Appended ==
  ASSUME NEW s, IsSeq(s), NEW e
  PROVE  Grows(s, e, Append(s, e))
<1>1. /\ IsSeq(Append(s, e)) /\ Len(Append(s, e)) = Len(s) + 1
      /\ Append(s, e)[Len(s) + 1] = e
      /\ \A i \in 1 .. Len(s) : Append(s, e)[i] = s[i]
  BY AppendToAny
<1> QED BY <1>1 DEF Grows

\* Numbers lists the members of N up to n, once each and in order.
Lists(s, N, n) ==
  /\ IsSeq(s)
  /\ \A i \in 1 .. Len(s) : s[i] \in N /\ s[i] \in 1 .. n
  /\ \A k \in 1 .. n : k \in N => \E i \in 1 .. Len(s) : s[i] = k

LEMMA NumbersList ==
  ASSUME NEW N, NEW n \in Nat
  PROVE  Lists(Numbers(N, n), N, n)
<1> DEFINE s(k) == Numbers(N, k)
           Good(k) == /\ IsSeq(s(k))
                      /\ \A i \in 1 .. Len(s(k)) : s(k)[i] \in N /\ s(k)[i] \in 1 .. k
                      /\ \A j \in 1 .. k : j \in N => \E i \in 1 .. Len(s(k)) : s(k)[i] = j
           S == {k \in Nat : Good(k)}
<1>1. 0 \in S
  <2>1. s(0) = <<>>
    BY NumbersSteps
  <2> HIDE DEF s
  <2>2. IsSeq(s(0)) /\ Len(s(0)) = 0
    <3>1. <<>> \in Seq({}) /\ Len(<<>>) = 0
      OBVIOUS
    <3> QED BY <2>1, <3>1, SequencesAreSeq, Zenon
  <2>3. Good(0)
    BY <2>2
  <2> HIDE DEF Good
  <2> QED BY <2>3
<1>2. ASSUME NEW k \in Nat, k \in S PROVE k + 1 \in S
  <2> DEFINE l == k + 1
             t == s(k)
             u == s(l)
  <2>1. u = IF l \in N THEN Append(t, l) ELSE t
    BY NumbersSteps
  <2>2. /\ IsSeq(t) /\ Len(t) \in Nat
        /\ \A i \in 1 .. Len(t) : t[i] \in N /\ t[i] \in 1 .. k
        /\ \A j \in 1 .. k : j \in N => \E i \in 1 .. Len(t) : t[i] = j
    BY <1>2 DEF IsSeq
  <2>3. l \in Nat /\ (\A j \in 1 .. l : j = l \/ j \in 1 .. k) /\ (\A j \in 1 .. k : j \in 1 .. l) /\ l \in 1 .. l
    OBVIOUS
  <2> HIDE DEF t, u, l, s
  <2>4. /\ IsSeq(u)
        /\ \A i \in 1 .. Len(u) : u[i] \in N /\ u[i] \in 1 .. l
        /\ \A j \in 1 .. l : j \in N => \E i \in 1 .. Len(u) : u[i] = j
    <3>1. CASE l \in N
      <4>1. u = Append(t, l)
        BY <2>1, <3>1
      <4>2. /\ IsSeq(u) /\ Len(u) = Len(t) + 1 /\ u[Len(t) + 1] = l
            /\ \A i \in 1 .. Len(t) : u[i] = t[i]
        <5>1. IsSeq(t)
          BY <2>2
        <5>2. Grows(t, l, Append(t, l))
          BY <5>1, Appended, Zenon
        <5>3. Grows(t, l, u)
          BY <4>1, <5>2, Zenon
        <5> QED BY <5>3, Zenon DEF Grows
      <4>3. \A i \in 1 .. Len(u) : i = Len(t) + 1 \/ i \in 1 .. Len(t)
        BY <4>2, <2>2
      <4>4. Len(t) + 1 \in 1 .. Len(u) /\ \A i \in 1 .. Len(t) : i \in 1 .. Len(u)
        BY <4>2, <2>2
      <4> QED BY <2>2, <2>3, <3>1, <4>2, <4>3, <4>4, Zenon
    <3>2. CASE l \notin N
      <4>1. u = t
        BY <2>1, <3>2
      <4> QED BY <2>2, <2>3, <3>2, <4>1, Zenon
    <3> QED BY <3>1, <3>2
  <2>5. Good(l)
    BY <2>4, Zenon DEF u
  <2> HIDE DEF Good
  <2> QED BY <2>3, <2>5, Zenon DEF l
<1>3. Nat \subseteq S
  <2> HIDE DEF S
  <2> QED BY <1>1, <1>2, SetInduction
<1>4. Good(n)
  BY <1>3
<1> QED BY <1>4, Zenon DEF Lists
-----------------------------------------------------------------------------
(* Pointers                                                                 *)

Fields == Seq([kind : 1 .. MaxUint, offset : 0 .. MaxUint])

\* The fields whose pointers can be taken, the ones that hold one, and the
\* ones whose place has no address.
SoundOnes(cells, fields, size) ==
  {i \in DOMAIN fields :
     /\ fields[i].kind \in {FieldKindPtr, FieldKindIface, FieldKindEface}
     /\ fields[i].kind # FieldKindPtr => fields[i].offset <= MaxUint - size
     /\ InBounds(Len(cells), DataWord(fields[i], size), size)}
PresentOnes(cells, fields, params) ==
  {i \in SoundOnes(cells, fields, params.ptrSize) :
     WordAt(cells, DataWord(fields[i], params.ptrSize), params) # 0}
WrappedOnes(cells, fields, params, base, keep) ==
  {i \in PresentOnes(cells, fields, params) :
     keep /\ DataWord(fields[i], params.ptrSize) > MaxUint - base}
KeptOnes(cells, fields, params, base, keep) ==
  Numbers(PresentOnes(cells, fields, params) \ WrappedOnes(cells, fields, params, base, keep),
          Len(fields))

\* e is what Extract makes of the fields.
Extracts(e, cells, fields, params, base, keep) ==
  LET kept == KeptOnes(cells, fields, params, base, keep)
      size == params.ptrSize
  IN /\ e.targets = [i \in DOMAIN kept |-> WordAt(cells, DataWord(fields[kept[i]], size), params)]
     /\ keep = TRUE => e.slots = [i \in DOMAIN kept |-> base + DataWord(fields[kept[i]], size)]
     /\ e.slots = IF keep THEN [i \in DOMAIN kept |-> base + DataWord(fields[kept[i]], size)]
                  ELSE <<>>
     /\ e.warned = Cardinality(DOMAIN fields \ SoundOnes(cells, fields, size))
                     + Cardinality(WrappedOnes(cells, fields, params, base, keep))

LEMMA Extracted ==
  ASSUME NEW cells, NEW fields, NEW params, NEW base, NEW keep
  PROVE  Extracts(Extract(cells, fields, params, base, keep), cells, fields, params, base, keep)
<1> DEFINE kept == KeptOnes(cells, fields, params, base, keep)
           size == params.ptrSize
           t == [i \in DOMAIN kept |-> WordAt(cells, DataWord(fields[kept[i]], size), params)]
           s == IF keep THEN [i \in DOMAIN kept |-> base + DataWord(fields[kept[i]], size)] ELSE <<>>
           w == Cardinality(DOMAIN fields \ SoundOnes(cells, fields, size))
                  + Cardinality(WrappedOnes(cells, fields, params, base, keep))
           n(kind) == Cardinality({i \in DOMAIN fields : fields[i].kind = kind})
           e == Extract(cells, fields, params, base, keep)
<1>1. e = [targets |-> t, slots |-> s, warned |-> w, iface |-> n(FieldKindIface), eface |-> n(FieldKindEface)]
  BY Zenon DEF Extract, KeptOnes, WrappedOnes, PresentOnes, SoundOnes
<1> HIDE DEF e, t, s, w, n
<1>2. e.targets = t /\ e.slots = s /\ e.warned = w
  BY <1>1
<1>3. keep = TRUE => s = [i \in DOMAIN kept |-> base + DataWord(fields[kept[i]], size)]
  BY Zenon DEF s
<1> QED BY <1>2, <1>3, Zenon DEF e, t, s, w, Extracts

\* Where a field's word is, and what that makes of the field.
Placed(cells, fields, params, base, keep, k) ==
  LET offset == DataWord(fields[k], params.ptrSize)
      sound == SoundOnes(cells, fields, params.ptrSize)
  IN /\ offset \in Nat
     /\ k \in sound => offset + params.ptrSize <= Len(cells)
     /\ FieldIsSound(base, cells, params, fields[k])
          <=> k \in sound /\ (WordAt(cells, offset, params) # 0 => base + offset <= MaxUint)
     /\ k \in WrappedOnes(cells, fields, params, base, keep)
          <=> /\ k \in sound /\ WordAt(cells, offset, params) # 0
              /\ keep /\ base + offset > MaxUint

\* A payload whose pointers are looked for.
Extractable(cells, fields, params, base) ==
  /\ cells \in Seq(Cells) /\ Len(cells) <= MaxUint /\ fields \in Fields
  /\ params.ptrSize \in {1, 2} /\ base \in 0 .. MaxUint

LEMMA FieldPlaces ==
  ASSUME NEW cells, NEW fields, NEW params, NEW base, Extractable(cells, fields, params, base),
         NEW keep, NEW k \in DOMAIN fields
  PROVE  Placed(cells, fields, params, base, keep, k)
<1> DEFINE f == fields[k]
           size == params.ptrSize
           offset == DataWord(f, size)
           n == Len(cells)
           full == WordAt(cells, offset, params) # 0
<1>1. /\ f.kind \in Nat /\ f.offset \in Nat /\ f.offset <= MaxUint /\ k \in DOMAIN fields
      /\ MaxUint \in Nat /\ n \in Nat /\ n <= MaxUint /\ base \in Nat
  <2> DEFINE R == [kind : 1 .. MaxUint, offset : 0 .. MaxUint]
  <2>1. f \in R
    <3>1. fields \in Seq(R)
      BY Zenon DEF Extractable, Fields
    <3> HIDE DEF R
    <3>2. DOMAIN fields = 1 .. Len(fields)
      BY <3>1
    <3>3. k \in 1 .. Len(fields)
      BY <3>2
    <3> QED BY <3>1, <3>3
  <2> HIDE DEF f
  <2>2. f.kind \in Nat /\ f.offset \in Nat /\ f.offset <= MaxUint
    BY <2>1, MaxUintIsNat
  <2>3. n \in Nat /\ base \in Nat /\ n <= MaxUint
    BY MaxUintIsNat DEF Extractable
  <2> QED BY <2>2, <2>3, MaxUintIsNat
<1>2. offset \in Nat /\ offset >= f.offset /\ (f.kind # FieldKindPtr => offset = f.offset + size)
  <2> HIDE DEF f
  <2>1. size \in {1, 2}
    BY Zenon DEF Extractable
  <2> QED BY <1>1, <2>1 DEF DataWord
<1> HIDE DEF f, offset, n, full
<1>3. k \in SoundOnes(cells, fields, size)
        <=> /\ f.kind \in {FieldKindPtr, FieldKindIface, FieldKindEface}
            /\ f.kind # FieldKindPtr => f.offset <= MaxUint - size
            /\ InBounds(n, offset, size)
  BY <1>1, Zenon DEF SoundOnes, f, offset, n
<1>4. (f.kind # FieldKindPtr => f.offset <= MaxUint - size) /\ InBounds(n, offset, size)
        <=> offset + size <= n
  <2>1. size \in {1, 2}
    BY Zenon DEF Extractable
  <2> QED BY <1>1, <1>2, <2>1 DEF InBounds
<1>5. k \in SoundOnes(cells, fields, size)
        <=> f.kind \in {FieldKindPtr, FieldKindIface, FieldKindEface} /\ offset + size <= n
  BY <1>3, <1>4, Zenon
<1>6. FieldIsSound(base, cells, params, f)
        <=> /\ f.kind \in {FieldKindPtr, FieldKindIface, FieldKindEface}
            /\ offset + size <= n /\ (full => base + offset <= MaxUint)
  BY Zenon DEF FieldIsSound, offset, n, full
<1>7. k \in WrappedOnes(cells, fields, params, base, keep)
        <=> k \in SoundOnes(cells, fields, size) /\ full /\ keep /\ offset > MaxUint - base
  BY Zenon DEF WrappedOnes, PresentOnes, full, offset, f
<1>8. offset > MaxUint - base <=> base + offset > MaxUint
  BY <1>1, <1>2
<1> QED BY <1>2, <1>5, <1>6, <1>7, <1>8, Zenon DEF f, offset, n, full, Placed

LEMMA EmptyOrCounted ==
  ASSUME NEW n \in Nat, NEW A \in SUBSET (1 .. n), NEW B \in SUBSET (1 .. n)
  PROVE  /\ Cardinality(A) + Cardinality(B) \in Nat
         /\ Cardinality(A) + Cardinality(B) = 0 <=> A = {} /\ B = {}
<1>1. IsFiniteSet(1 .. n)
  BY FS_Interval
<1>2. IsFiniteSet(A) /\ IsFiniteSet(B)
  BY <1>1, FS_Subset
<1>3. /\ Cardinality(A) \in Nat /\ Cardinality(B) \in Nat
      /\ (Cardinality(A) = 0 <=> A = {}) /\ (Cardinality(B) = 0 <=> B = {})
  BY <1>2, FS_CardinalityType, FS_EmptySet
<1> QED BY <1>3

LEMMA Warned ==
  ASSUME NEW cells, NEW fields, NEW params, NEW base, Extractable(cells, fields, params, base),
         NEW keep
  PROVE  LET warned == Extract(cells, fields, params, base, keep).warned
         IN /\ warned \in Nat
            /\ keep = TRUE \/ base = 0
                 => (warned = 0 <=> \A k \in DOMAIN fields : FieldIsSound(base, cells, params, fields[k]))
<1> DEFINE D == DOMAIN fields
           A == SoundOnes(cells, fields, params.ptrSize)
           B == WrappedOnes(cells, fields, params, base, keep)
           offset(k) == DataWord(fields[k], params.ptrSize)
           full(k) == WordAt(cells, offset(k), params) # 0
           warned == Extract(cells, fields, params, base, keep).warned
<1>1. D = 1 .. Len(fields) /\ Len(fields) \in Nat
  BY DEF Extractable, Fields
<1>2. A \subseteq D /\ B \subseteq A
  BY Zenon DEF SoundOnes, WrappedOnes, PresentOnes
<1>3. \A k \in D : /\ offset(k) \in Nat
                   /\ k \in A => offset(k) + params.ptrSize <= Len(cells)
                   /\ FieldIsSound(base, cells, params, fields[k])
                        <=> k \in A /\ (full(k) => base + offset(k) <= MaxUint)
                   /\ k \in B <=> k \in A /\ full(k) /\ keep /\ base + offset(k) > MaxUint
  <2> TAKE k \in D
  <2>1. Placed(cells, fields, params, base, keep, k)
    BY FieldPlaces, Zenon
  <2> QED BY ONLY <2>1, Zenon DEF Placed
<1>4. warned = Cardinality(D \ A) + Cardinality(B)
  <2>1. Extracts(Extract(cells, fields, params, base, keep), cells, fields, params, base, keep)
    BY Extracted, Zenon
  <2> QED BY ONLY <2>1, Zenon DEF Extracts
<1> HIDE DEF A, B, D, warned
<1>5. D \ A \in SUBSET (1 .. Len(fields)) /\ B \in SUBSET (1 .. Len(fields))
  BY <1>1, <1>2
<1>6. warned \in Nat /\ (warned = 0 <=> D \ A = {} /\ B = {})
  BY <1>1, <1>4, <1>5, EmptyOrCounted, Zenon
<1>7. ASSUME keep = TRUE \/ base = 0
      PROVE  warned = 0 <=> \A k \in D : FieldIsSound(base, cells, params, fields[k])
  <2>1. \A k \in D : k \in A => (full(k) /\ base + offset(k) > MaxUint <=> k \in B)
    <3> TAKE k \in D
    <3>1. CASE keep = TRUE
      BY <1>3, <3>1, Zenon
    <3>2. CASE base = 0
      <4> SUFFICES ASSUME k \in A PROVE ~ (base + offset(k) > MaxUint)
        BY <1>3, Zenon
      <4> DEFINE x == offset(k)
      <4>1. x \in Nat /\ x + params.ptrSize <= Len(cells) /\ Len(cells) \in Nat /\ MaxUint \in Nat
        <5>1. Len(cells) \in Nat /\ Len(cells) <= MaxUint /\ MaxUint \in Nat
          BY MaxUintIsNat DEF Extractable
        <5>2. x \in Nat /\ x + params.ptrSize <= Len(cells)
          BY <1>3, Zenon
        <5> QED BY <5>1, <5>2
      <4>2. params.ptrSize \in {1, 2} /\ Len(cells) <= MaxUint
        BY DEF Extractable
      <4> DEFINE z == params.ptrSize
                 w == Len(cells)
      <4>3. x \in Nat /\ z \in {1, 2} /\ x + z <= w /\ w \in Nat /\ MaxUint \in Nat /\ w <= MaxUint
        BY <4>1, <4>2, Zenon
      <4> HIDE DEF x, z, w
      <4>4. ~ (base + x > MaxUint)
        BY <3>2, <4>3
      <4> QED BY <4>4, Zenon DEF x
    <3> QED BY <1>7, <3>1, <3>2
  <2>2. \A k \in D : base + offset(k) > MaxUint <=> ~ (base + offset(k) <= MaxUint)
    <3>1. base \in Nat /\ MaxUint \in Nat
      BY MaxUintIsNat DEF Extractable
    <3> QED BY <1>3, <3>1
  <2>3. \A k \in D : FieldIsSound(base, cells, params, fields[k]) <=> k \in A /\ k \notin B
    BY <1>3, <2>1, <2>2, Zenon
  <2>4. D \ A = {} /\ B = {} <=> \A k \in D : k \in A /\ k \notin B
    BY <1>2
  <2> QED BY <1>6, <2>3, <2>4, Zenon
<1> QED BY <1>6, <1>7, Zenon DEF D, warned

\* The fields that are sound and not nil are the ones kept.
FullOnes(base, cells, fields, params) ==
  {k \in DOMAIN fields : /\ FieldIsSound(base, cells, params, fields[k])
                         /\ WordAt(cells, DataWord(fields[k], params.ptrSize), params) # 0}

LEMMA KeptPlaces ==
  ASSUME NEW cells, NEW fields, NEW params, NEW base, Extractable(cells, fields, params, base),
         NEW keep, keep = TRUE \/ base = 0
  PROVE  PresentOnes(cells, fields, params) \ WrappedOnes(cells, fields, params, base, keep)
           = FullOnes(base, cells, fields, params)
<1> DEFINE D == DOMAIN fields
           A == SoundOnes(cells, fields, params.ptrSize)
           B == WrappedOnes(cells, fields, params, base, keep)
           C == PresentOnes(cells, fields, params)
           offset(k) == DataWord(fields[k], params.ptrSize)
           full(k) == WordAt(cells, offset(k), params) # 0
           high(k) == base + offset(k) > MaxUint
           sound(k) == FieldIsSound(base, cells, params, fields[k])
<1>1. \A k \in D : /\ offset(k) \in Nat
                   /\ k \in A => offset(k) + params.ptrSize <= Len(cells)
                   /\ sound(k) <=> k \in A /\ (full(k) => base + offset(k) <= MaxUint)
                   /\ k \in B <=> k \in A /\ full(k) /\ keep /\ high(k)
  <2> TAKE k \in D
  <2>1. Placed(cells, fields, params, base, keep, k)
    BY FieldPlaces, Zenon
  <2> QED BY ONLY <2>1, Zenon DEF Placed
<1>2. C \subseteq D /\ B \subseteq C /\ \A k : k \in C <=> k \in A /\ full(k)
  BY Zenon DEF SoundOnes, WrappedOnes, PresentOnes
<1>3. \A k \in D : base + offset(k) <= MaxUint <=> ~ high(k)
  <2>1. base \in Nat /\ MaxUint \in Nat
    BY MaxUintIsNat DEF Extractable
  <2> QED BY <1>1, <2>1
<1>4. ASSUME NEW k \in D, k \in A PROVE (keep /\ high(k)) <=> high(k)
  <2>1. CASE keep = TRUE
    BY <2>1, Zenon
  <2>2. CASE base = 0
    <3> DEFINE x == offset(k)
               z == params.ptrSize
               w == Len(cells)
    <3>1. /\ x \in Nat /\ z \in {1, 2} /\ x + z <= w /\ w \in Nat /\ MaxUint \in Nat
          /\ w <= MaxUint
      <4>1. w \in Nat /\ w <= MaxUint /\ MaxUint \in Nat /\ z \in {1, 2}
        BY MaxUintIsNat DEF Extractable
      <4>2. x \in Nat /\ x + z <= w
        BY <1>1, <1>4, Zenon
      <4> QED BY <4>1, <4>2
    <3> HIDE DEF x, z, w
    <3>2. ~ (base + x > MaxUint)
      BY <2>2, <3>1
    <3>3. ~ high(k)
      BY <3>2, Zenon DEF x
    <3> QED BY <3>3, Zenon
  <2> QED BY <2>1, <2>2
<1> HIDE DEF A, B, C, D, offset, full, high
<1>5. \A k \in D : k \in C \ B <=> sound(k) /\ full(k)
  <2> TAKE k \in D
  <2>1. k \in C \ B <=> k \in A /\ full(k) /\ ~ (keep /\ high(k))
    BY <1>1, <1>2, Zenon
  <2>2. k \in A => ((keep /\ high(k)) <=> high(k))
    BY <1>4, Zenon
  <2> QED BY <1>1, <1>3, <2>1, <2>2, Zenon
<1> HIDE DEF sound
<1>6. \A k : k \in C \ B <=> k \in D /\ sound(k) /\ full(k)
  BY <1>2, <1>5, Zenon
<1> DEFINE F == {k \in D : sound(k) /\ full(k)}
<1>8. \A k : k \in C \ B <=> k \in F
  BY <1>6, Zenon
<1> HIDE DEF F
<1>7. C \ B = F
  BY ONLY <1>8
<1> QED BY <1>7, Zenon DEF B, C, D, F, sound, full, offset, FullOnes

\* The slots and targets of pointers whose addresses are kept.
PointsOf(e, cells, fields, params, base) ==
  LET offset(k) == DataWord(fields[k], params.ptrSize)
      word(k) == WordAt(cells, offset(k), params)
  IN /\ IsSeq(e.targets) /\ DOMAIN e.targets = 1 .. Len(e.targets)
     /\ \A i \in DOMAIN e.targets : \E k \in DOMAIN fields :
          /\ e.slots[i] = base + offset(k) /\ offset(k) \in Nat
          /\ offset(k) + params.ptrSize <= Len(cells)
          /\ e.targets[i] = word(k) /\ word(k) # 0
     /\ \A k \in DOMAIN fields :
          FieldIsSound(base, cells, params, fields[k]) /\ word(k) # 0
            => \E i \in DOMAIN e.targets :
                 e.slots[i] = base + offset(k) /\ e.targets[i] = word(k)

LEMMA Pointed ==
  ASSUME NEW cells, NEW fields, NEW params, NEW base, Extractable(cells, fields, params, base)
  PROVE  PointsOf(Extract(cells, fields, params, base, TRUE), cells, fields, params, base)
<1> DEFINE D == DOMAIN fields
           A == SoundOnes(cells, fields, params.ptrSize)
           B == WrappedOnes(cells, fields, params, base, TRUE)
           C == PresentOnes(cells, fields, params)
           offset(k) == DataWord(fields[k], params.ptrSize)
           word(k) == WordAt(cells, offset(k), params)
           e == Extract(cells, fields, params, base, TRUE)
           kept == KeptOnes(cells, fields, params, base, TRUE)
           n == Len(fields)
<1>1. D = 1 .. n /\ n \in Nat
  BY DEF Extractable, Fields
<1>2. \A k \in D : /\ offset(k) \in Nat
                   /\ k \in A => offset(k) + params.ptrSize <= Len(cells)
                   /\ FieldIsSound(base, cells, params, fields[k])
                        <=> k \in A /\ (word(k) # 0 => base + offset(k) <= MaxUint)
                   /\ k \in B <=> k \in A /\ word(k) # 0 /\ TRUE /\ base + offset(k) > MaxUint
  <2> TAKE k \in D
  <2> DEFINE keep == TRUE
  <2>0. keep = TRUE
    OBVIOUS
  <2> HIDE DEF keep
  <2>1. Placed(cells, fields, params, base, keep, k)
    BY FieldPlaces, Zenon
  <2>2. Placed(cells, fields, params, base, TRUE, k)
    BY <2>0, <2>1
  <2> QED BY ONLY <2>2, Zenon DEF Placed
<1>3. /\ e.targets = [i \in DOMAIN kept |-> word(kept[i])]
      /\ e.slots = [i \in DOMAIN kept |-> base + offset(kept[i])]
  <2> DEFINE keep == TRUE
  <2>0. keep = TRUE
    OBVIOUS
  <2> HIDE DEF keep
  <2>1. Extracts(Extract(cells, fields, params, base, keep), cells, fields, params, base, keep)
    BY Extracted, Zenon
  <2>2. Extracts(e, cells, fields, params, base, TRUE)
    BY <2>0, <2>1
  <2> HIDE DEF e
  <2> QED BY ONLY <2>2, Zenon DEF Extracts
<1>4. \A k : k \in C <=> k \in A /\ word(k) # 0
  BY Zenon DEF PresentOnes
<1>5. /\ IsSeq(kept) /\ (\A i \in 1 .. Len(kept) : kept[i] \in C \ B /\ kept[i] \in 1 .. n)
      /\ \A k \in 1 .. n : k \in C \ B => \E i \in 1 .. Len(kept) : kept[i] = k
  <2>1. Lists(kept, C \ B, n)
    BY <1>1, NumbersList, Zenon DEF KeptOnes
  <2> HIDE DEF kept, C, B, n
  <2> QED BY <2>1, Zenon DEF Lists
<1> HIDE DEF e, kept, D, A, B, C, n
<1>6. Len(kept) \in Nat /\ DOMAIN kept = 1 .. Len(kept)
  BY <1>5 DEF IsSeq
<1> HIDE DEF offset, word
<1>7. /\ DOMAIN e.targets = 1 .. Len(kept) /\ e.targets = [i \in 1 .. Len(kept) |-> e.targets[i]]
      /\ \A i \in 1 .. Len(kept) : e.targets[i] = word(kept[i]) /\ e.slots[i] = base + offset(kept[i])
  BY <1>3, <1>6
<1>8. IsSeq(e.targets) /\ Len(e.targets) = Len(kept)
  <2> DEFINE t == e.targets
  <2>1. t = [i \in 1 .. Len(kept) |-> t[i]]
    BY <1>7
  <2> HIDE DEF t
  <2>2. Len(t) = Len(kept)
    BY <1>6, <2>1
  <2> QED BY <1>6, <2>1, <2>2, Zenon DEF t, IsSeq
<1>9. ASSUME NEW i \in DOMAIN e.targets
      PROVE  \E k \in D : /\ e.slots[i] = base + offset(k) /\ offset(k) \in Nat
                          /\ offset(k) + params.ptrSize <= Len(cells)
                          /\ e.targets[i] = word(k) /\ word(k) # 0
  <2>1. i \in 1 .. Len(kept) /\ kept[i] \in D /\ kept[i] \in C
    BY <1>1, <1>5, <1>7
  <2> QED BY <2>1, <1>2, <1>4, <1>7, Zenon
<1>10. ASSUME NEW k \in D, FieldIsSound(base, cells, params, fields[k]), word(k) # 0
       PROVE  \E i \in DOMAIN e.targets : e.slots[i] = base + offset(k) /\ e.targets[i] = word(k)
  <2>1. k \in A /\ base + offset(k) <= MaxUint
    BY <1>2, <1>10, Zenon
  <2>2. ~ (base + offset(k) > MaxUint)
    <3>1. base \in Nat /\ MaxUint \in Nat
      BY MaxUintIsNat DEF Extractable
    <3> QED BY <1>2, <2>1, <3>1
  <2>3. k \in C /\ k \notin B
    BY <1>2, <1>4, <1>10, <2>1, <2>2, Zenon
  <2>4. PICK i \in 1 .. Len(kept) : kept[i] = k
    BY <1>1, <1>5, <2>3
  <2> QED BY <2>4, <1>7, Zenon
<1> QED BY <1>7, <1>8, <1>9, <1>10, Zenon DEF e, offset, word, D, PointsOf
-----------------------------------------------------------------------------
(* What was read is what was written                                        *)

LEMMA ShapeTable ==
  /\ \A tag \in {TagObject, TagData, TagBSS} : Shape[tag] = <<"uint", "bytes", "fields">>
  /\ Shape[TagStackFrame] = <<"uint", "uint", "uint", "bytes", "uint", "uint", "uint", "string",
                              "fields">>
  /\ Shape[TagParams] = <<"bool", "uint", "uint", "uint", "string", "string", "uint">>
  /\ Shape[TagType] = <<"uint", "uint", "string", "bool">>
  /\ Shape[TagGoroutine] = <<"uint", "uint", "uint", "uint", "uint", "bool", "bool", "uint",
                             "string", "uint", "uint", "uint", "uint">>
  /\ \A tag \in {TagFinalizer, TagQueuedFinalizer, TagMemStats, TagDefer, TagPanic} :
       \A k \in 1 .. Len(Shape[tag]) : Shape[tag][k] = "uint"
  /\ Shape[TagOtherRoot] = <<"string", "uint">>
  /\ \A tag \in {TagItab, TagAllocSample} : Shape[tag] = <<"uint", "uint">>
  /\ \A tag \in {TagOSThread, TagMemProf} : Shape[tag] = <<"uint", "uint", "uint">>
<1> USE DEF TagEOF, TagObject, TagOtherRoot, TagType, TagGoroutine, TagStackFrame, TagParams,
            TagFinalizer, TagItab, TagOSThread, TagMemStats, TagQueuedFinalizer, TagData, TagBSS,
            TagDefer, TagPanic, TagMemProf, TagAllocSample
<1>1. \A tag \in {TagObject, TagData, TagBSS} : Shape[tag] = <<"uint", "bytes", "fields">>
  BY DEF Shape
<1>2. Shape[TagStackFrame] = <<"uint", "uint", "uint", "bytes", "uint", "uint", "uint", "string",
                               "fields">>
  BY DEF Shape
<1>3. Shape[TagParams] = <<"bool", "uint", "uint", "uint", "string", "string", "uint">>
  BY DEF Shape
<1>4. Shape[TagType] = <<"uint", "uint", "string", "bool">>
  BY DEF Shape
<1>5. Shape[TagGoroutine] = <<"uint", "uint", "uint", "uint", "uint", "bool", "bool", "uint",
                              "string", "uint", "uint", "uint", "uint">>
  BY DEF Shape
<1>6. \A tag \in {TagFinalizer, TagQueuedFinalizer, TagMemStats, TagDefer, TagPanic} :
        \A k \in 1 .. Len(Shape[tag]) : Shape[tag][k] = "uint"
  <2>1. ASSUME NEW tag \in {TagFinalizer, TagQueuedFinalizer, TagMemStats, TagDefer, TagPanic}
        PROVE  \E n \in Nat : Shape[tag] = [i \in 1 .. n |-> "uint"]
    <3>1. CASE tag \in {TagFinalizer, TagQueuedFinalizer}
      <4>1. Shape[tag] = [i \in 1 .. 5 |-> "uint"]
        BY <3>1 DEF Shape
      <4> QED BY <4>1
    <3>2. CASE tag = TagMemStats
      <4>1. Shape[tag] = [i \in 1 .. MemStatsWords |-> "uint"]
        BY <3>2 DEF Shape
      <4> QED BY <4>1, ParserAssumption
    <3>3. CASE tag = TagDefer
      <4>1. Shape[tag] = [i \in 1 .. 7 |-> "uint"]
        BY <3>3 DEF Shape
      <4> QED BY <4>1
    <3>4. CASE tag = TagPanic
      <4>1. Shape[tag] = [i \in 1 .. 6 |-> "uint"]
        BY <3>4 DEF Shape
      <4> QED BY <4>1
    <3> HIDE DEF TagFinalizer, TagQueuedFinalizer, TagMemStats, TagDefer, TagPanic
    <3> QED BY <2>1, <3>1, <3>2, <3>3, <3>4
  <2> HIDE DEF TagFinalizer, TagQueuedFinalizer, TagMemStats, TagDefer, TagPanic
  <2>2. ASSUME NEW tag \in {TagFinalizer, TagQueuedFinalizer, TagMemStats, TagDefer, TagPanic},
               NEW k \in 1 .. Len(Shape[tag])
        PROVE  Shape[tag][k] = "uint"
    <3>1. PICK n \in Nat : Shape[tag] = [i \in 1 .. n |-> "uint"]
      BY <2>1
    <3> DEFINE s == Shape[tag]
    <3>2. s = [i \in 1 .. n |-> "uint"] /\ k \in 1 .. Len(s)
      BY <3>1, <2>2
    <3> HIDE DEF s
    <3>3. Len(s) = n
      BY <3>2
    <3> QED BY <3>2, <3>3 DEF s
  <2> QED BY <2>2
<1>9. Shape[TagOtherRoot] = <<"string", "uint">>
  BY DEF Shape
<1>7. \A tag \in {TagItab, TagAllocSample} : Shape[tag] = <<"uint", "uint">>
  BY DEF Shape
<1>8. \A tag \in {TagOSThread, TagMemProf} : Shape[tag] = <<"uint", "uint", "uint">>
  BY DEF Shape
<1> QED BY <1>1, <1>2, <1>3, <1>4, <1>5, <1>6, <1>7, <1>8, <1>9, Zenon

\* The payload held with v is w, and is where v says.
Delivered(v, w) ==
  /\ v.cells = w /\ w \in Seq(Cells) /\ Len(w) <= MaxUint
  /\ v.off \in Nat \ {0} /\ v.off + Len(w) - 1 <= Len(file)
  /\ w = SubSeq(file, v.off, v.off + Len(w) - 1)

\* v, read of a record of this tag, is w: each part the one written, with the place of
\* a payload added to it.
Came(tag, v, w) ==
  /\ tag \notin {TagObject, TagData, TagBSS, TagStackFrame} => v = w
  /\ tag \in {TagObject, TagData, TagBSS} =>
       /\ v[1] = w[1] /\ w[1] \in 0 .. MaxUint /\ Delivered(v[2], w[2])
       /\ v[3] = w[3] /\ w[3] \in Fields
  /\ tag = TagStackFrame =>
       /\ \A k \in 1 .. 9 \ {4} : v[k] = w[k]
       /\ w[1] \in 0 .. MaxUint /\ Delivered(v[4], w[4]) /\ w[9] \in Fields

\* One part of it.
LEMMA PartCame ==
  ASSUME NEW shape, NEW v, NEW w, Encodable(shape, w), Matches(file, shape, v, w)
  PROVE  /\ shape = "uint" => v = w /\ w \in 0 .. MaxUint
         /\ shape # "bytes" => v = w
         /\ shape = "bytes" => Delivered(v, w)
         /\ shape = "fields" => v = w /\ w \in Fields
BY DEF Encodable, Matches, Delivered, Fields

LEMMA RecordCame ==
  ASSUME NEW tag \in 1 .. 17, NEW written, WellFormed(written), written.tag = tag,
         NEW end, NEW record, record.err = "none",
         AllRead(file, end, ShapeOf(written), written.vals, 0, record)
  PROVE  Came(tag, record.val, written.vals)
<1> DEFINE v == record.val
           w == written.vals
           shapes == ShapeOf(written)
<1>1. /\ IsSeq(v) /\ Len(v) = Len(shapes)
      /\ \A k \in 1 .. Len(shapes) : Matches(file, shapes[k], v[k], w[0 + k])
  BY Zenon DEF AllRead
<1>2. /\ shapes \in Seq(ShapeNames) /\ DOMAIN w = 1 .. Len(shapes)
      /\ \A k \in 1 .. Len(shapes) : Encodable(shapes[k], w[k])
      /\ tag \in DOMAIN Shape \ {TagMemProf} => shapes = Shape[tag]
      /\ tag = TagMemProf => w[3] \in Nat /\ shapes = Shape[TagMemProf] \o StackShape(w[3])
  BY RecordShapes, Zenon
<1>3. Len(shapes) \in Nat
  BY <1>2
<1>4. ASSUME NEW k \in 1 .. Len(shapes)
      PROVE  /\ shapes[k] = "uint" => v[k] = w[k] /\ w[k] \in 0 .. MaxUint
             /\ shapes[k] # "bytes" => v[k] = w[k]
             /\ shapes[k] = "bytes" => Delivered(v[k], w[k])
             /\ shapes[k] = "fields" => v[k] = w[k] /\ w[k] \in Fields
  <2>1. 0 + k = k
    BY <1>3
  <2>2. Matches(file, shapes[k], v[k], w[k])
    BY <1>1, <2>1
  <2>3. Encodable(shapes[k], w[k])
    BY <1>2
  <2> QED BY <2>2, <2>3, PartCame, Zenon
<1>5. w = [k \in DOMAIN shapes |-> w[k]] /\ DOMAIN shapes = 1 .. Len(shapes)
  BY <1>2 DEF WellFormed
<1>6. tag # TagMemProf => shapes = Shape[tag]
  BY <1>2, ShapesAreNames
<1>7. tag = TagMemProf => \A k \in 1 .. Len(shapes) : shapes[k] # "bytes"
  <2> SUFFICES ASSUME tag = TagMemProf, NEW k \in 1 .. Len(shapes) PROVE shapes[k] # "bytes"
    OBVIOUS
  <2>1. Shape[TagMemProf] = <<"uint", "uint", "uint">>
    BY ShapeTable
  <2> DEFINE n == w[3]
             s == StackShape(n)
             m == 3 * n + 2
  <2>2. shapes = Shape[TagMemProf] \o s /\ n \in Nat
    BY <1>2
  <2> HIDE DEF n
  <2>3. m \in Nat
    BY <2>2
  <2>4. DOMAIN s = 1 .. m /\ \A i \in 1 .. m : s[i] \in {"uint", "string"}
    BY DEF StackShape
  <2>5. s \in Seq(ShapeNames)
    BY <1>2, StackShapes DEF n
  <2> HIDE DEF s, shapes, m
  <2>6. Len(s) = m
    BY <2>3, <2>4, <2>5
  <2>7. k \in 1 .. 3 + m
    BY <2>1, <2>2, <2>5, <2>6
  <2>8. CASE k \in 1 .. 3
    BY <2>1, <2>2, <2>5, <2>8
  <2>9. CASE k \notin 1 .. 3
    <3>1. k - 3 \in 1 .. m /\ shapes[k] = s[k - 3]
      BY <2>1, <2>2, <2>3, <2>5, <2>6, <2>7, <2>9
    <3> QED BY <3>1, <2>4
  <2> QED BY <2>8, <2>9
<1>8. ASSUME \A k \in 1 .. Len(shapes) : shapes[k] # "bytes" PROVE v = w
  <2>1. \A k \in 1 .. Len(shapes) : v[k] = w[k]
    BY <1>4, <1>8
  <2>2. v = [k \in 1 .. Len(shapes) |-> v[k]] /\ w = [k \in 1 .. Len(shapes) |-> w[k]]
    BY <1>1, <1>5 DEF IsSeq
  <2> HIDE DEF v, w, shapes
  <2> QED BY ONLY <2>1, <2>2
<1> HIDE DEF v, w, shapes
<1> DEFINE Payloads == {TagObject, TagData, TagBSS, TagStackFrame}
<1>9. tag \in {TagParams, TagType, TagItab, TagAllocSample, TagGoroutine, TagMemProf, TagOSThread,
              TagFinalizer, TagQueuedFinalizer, TagMemStats, TagDefer, TagPanic, TagOtherRoot}
        \cup Payloads
  BY DEF TagObject, TagOtherRoot, TagType, TagGoroutine, TagStackFrame, TagParams,
         TagFinalizer, TagItab, TagOSThread, TagMemStats, TagQueuedFinalizer, TagData, TagBSS,
         TagDefer, TagPanic, TagMemProf, TagAllocSample
<1>10. tag \notin Payloads => \A k \in 1 .. Len(shapes) : shapes[k] # "bytes"
  <2>1. ASSUME tag \in {TagFinalizer, TagQueuedFinalizer, TagMemStats, TagDefer, TagPanic}
        PROVE  \A k \in 1 .. Len(shapes) : shapes[k] # "bytes"
    <3>1. tag # TagMemProf
      BY <2>1 DEF TagFinalizer, TagQueuedFinalizer, TagMemStats, TagDefer, TagPanic, TagMemProf
    <3>2. shapes = Shape[tag]
      BY <3>1, <1>6
    <3>3. \A k \in 1 .. Len(Shape[tag]) : Shape[tag][k] = "uint"
      BY <2>1, ShapeTable, Zenon
    <3> QED BY <3>2, <3>3
  <2>2. ASSUME tag \in {TagParams, TagType, TagItab, TagAllocSample, TagGoroutine, TagOSThread, TagOtherRoot}
        PROVE  \A k \in 1 .. Len(shapes) : shapes[k] # "bytes"
    <3>1. tag # TagMemProf
      BY <2>2 DEF TagParams, TagType, TagItab, TagAllocSample, TagGoroutine, TagOSThread, TagMemProf, TagOtherRoot
    <3>2. shapes \in {Shape[TagParams], Shape[TagType], Shape[TagItab], Shape[TagAllocSample],
                      Shape[TagGoroutine], Shape[TagOSThread], Shape[TagOtherRoot]}
      BY <2>2, <3>1, <1>6
    <3>3. \/ shapes = <<"bool", "uint", "uint", "uint", "string", "string", "uint">>
          \/ shapes = <<"uint", "uint", "string", "bool">>
          \/ shapes = <<"uint", "uint">>
          \/ shapes = <<"uint", "uint", "uint", "uint", "uint", "bool", "bool", "uint",
                        "string", "uint", "uint", "uint", "uint">>
          \/ shapes = <<"uint", "uint", "uint">>
          \/ shapes = <<"string", "uint">>
      <4>1. Shape[TagItab] = <<"uint", "uint">> /\ Shape[TagAllocSample] = <<"uint", "uint">>
            /\ Shape[TagOSThread] = <<"uint", "uint", "uint">>
        BY ShapeTable
      <4> QED BY <3>2, <4>1, ShapeTable
    <3> QED BY ONLY <3>3
  <2> QED BY <2>1, <2>2, <1>7, <1>9
<1>16. tag \in {TagObject, TagData, TagBSS} =>
         /\ v[1] = w[1] /\ w[1] \in 0 .. MaxUint /\ Delivered(v[2], w[2])
         /\ v[3] = w[3] /\ w[3] \in Fields
  <2> SUFFICES ASSUME tag \in {TagObject, TagData, TagBSS}
               PROVE  /\ v[1] = w[1] /\ w[1] \in 0 .. MaxUint /\ Delivered(v[2], w[2])
                      /\ v[3] = w[3] /\ w[3] \in Fields
    OBVIOUS
  <2>1. shapes = <<"uint", "bytes", "fields">>
    <3>1. shapes = Shape[tag]
      BY <1>6 DEF TagObject, TagData, TagBSS, TagMemProf
    <3>2. Shape[tag] = <<"uint", "bytes", "fields">>
      BY ShapeTable, Zenon
    <3> QED BY <3>1, <3>2, Zenon
  <2>2. /\ 1 \in 1 .. Len(shapes) /\ 2 \in 1 .. Len(shapes) /\ 3 \in 1 .. Len(shapes)
        /\ shapes[1] = "uint" /\ shapes[2] = "bytes" /\ shapes[3] = "fields"
    BY ONLY <2>1
  <2> QED BY <1>4, <2>2, Zenon
<1>17. tag = TagStackFrame =>
         /\ \A k \in 1 .. 9 \ {4} : v[k] = w[k]
         /\ w[1] \in 0 .. MaxUint /\ Delivered(v[4], w[4]) /\ w[9] \in Fields
  <2> SUFFICES ASSUME tag = TagStackFrame
               PROVE  /\ \A k \in 1 .. 9 \ {4} : v[k] = w[k]
                      /\ w[1] \in 0 .. MaxUint /\ Delivered(v[4], w[4]) /\ w[9] \in Fields
    OBVIOUS
  <2>1. shapes = <<"uint", "uint", "uint", "bytes", "uint", "uint", "uint", "string", "fields">>
    BY <1>6, ShapeTable DEF TagStackFrame, TagMemProf
  <2>2. Len(shapes) = 9 /\ (\A k \in 1 .. 9 \ {4} : shapes[k] # "bytes")
        /\ shapes[1] = "uint" /\ shapes[4] = "bytes" /\ shapes[9] = "fields"
    BY ONLY <2>1
  <2> QED BY <1>4, <2>2
<1> QED BY <1>8, <1>10, <1>16, <1>17, Zenon DEF Came, v, w
-----------------------------------------------------------------------------
(* The steps                                                                *)

\* The parts of a record are in their ranges.
PartsAreSound(written) ==
  \A k \in DOMAIN written.vals : PartIsSound(ShapeOf(written)[k], written.vals[k])

\* A step that takes the record after the first n, with these values read of it.
Advanced(n, tag, v) ==
  /\ n \in Nat /\ n + 1 <= Len(Written) /\ IsSeq(Written) /\ Written' = Written
  /\ tag \in 1 .. 17 /\ Written[n + 1].tag = tag
  /\ Came(tag, v, Written[n + 1].vals) /\ PartsAreSound(Written[n + 1])
  /\ ~ Refused(tag, v) /\ Parsed(tag, v, snap') /\ curG' = NextG(tag)
  /\ status' = status /\ UNCHANGED inputVars /\ Given /\ AlignedAt(n + 1)'

LEMMA WrittenStays ==
  ASSUME UNCHANGED inputVars
  PROVE  Written' = Written /\ Stops' = Stops /\ Ends' = Ends
BY DEF inputVars, Written, Stops, Ends

\* The prefix of the written records that an aligned parser has read.
LEMMA ReadPrefix ==
  ASSUME Given, NEW n, AlignedAt(n), NEW tag \in 1 .. 17, NEW record \in RecordAt(tag)
  PROVE  /\ n \in Nat /\ n + 1 <= Len(Written) /\ IsSeq(Written)
         /\ Written[n + 1] = dump.records[n + 1] /\ Written[n + 1].tag = tag
         /\ WellFormed(Written[n + 1])
         /\ AllRead(file, Start(dump, n + 1), ShapeOf(Written[n + 1]), Written[n + 1].vals, 0, record)
<1> DEFINE k == n + 1
<1>1. /\ k \in 1 .. Count /\ dump.records[k].tag = tag /\ WellFormed(dump.records[k])
      /\ AllRead(file, Start(dump, k), ShapeOf(dump.records[k]), dump.records[k].vals, 0, record)
  BY NextRecord, Zenon
<1>2. n \in Nat /\ Count \in Nat /\ \A i \in 1 .. n : dump.records[i].tag \in DOMAIN Shape
  BY GivenNumbers DEF AlignedAt
<1>3. \A i \in 1 .. k : i = k \/ i \in 1 .. n
  BY <1>2
<1>4. k \in 0 .. Count /\ k >= 1
  BY <1>1
<1> HIDE DEF k
<1>5. \A i \in 1 .. k : dump.records[i].tag \in DOMAIN Shape
  BY <1>1, <1>2, <1>3, ShapesAreNames, Zenon
<1>6. /\ IsSeq(Written) /\ k <= Len(Written)
      /\ \A i \in 1 .. Len(Written) : Written[i] = dump.records[i]
  BY <1>4, <1>5, WrittenPrefix, Zenon
<1>7. k \in 1 .. Len(Written)
  BY <1>4, <1>6 DEF IsSeq
<1> QED BY <1>1, <1>2, <1>6, <1>7, Zenon DEF k

LEMMA Succeeds ==
  ASSUME Given, NEW n, AlignedAt(n), NEW tag \in 1 .. 17, NEW record \in RecordAt(tag),
         ParseStep(tag, record), record.err = "none", ~ Refused(tag, record.val)
  PROVE  Advanced(n, tag, record.val)
<1> DEFINE k == n + 1
           w == Written[k]
<1>1. /\ n \in Nat /\ k <= Len(Written) /\ IsSeq(Written) /\ w.tag = tag /\ WellFormed(w)
      /\ AllRead(file, Start(dump, k), ShapeOf(w), w.vals, 0, record)
  BY ReadPrefix, Zenon
<1>2. /\ k \in 0 .. Count /\ record.pos = Start(dump, k) /\ record.pos <= cut + 1
      /\ \A i \in 1 .. k : dump.records[i].tag \in DOMAIN Shape
  BY Advances, Zenon
<1>3. /\ UNCHANGED inputVars /\ Parsed(tag, record.val, snap') /\ pos' = record.pos
      /\ curG' = NextG(tag) /\ status' = status
  BY DEF ParseStep
<1>4. Written' = Written
  BY <1>3, WrittenStays
<1>5. AlignedAt(k)'
  BY <1>2, <1>3 DEF AlignedAt, inputVars, Count, Start, Lines
<1>6. Came(tag, record.val, w.vals)
  BY <1>1, RecordCame, Zenon
<1>7. PartsAreSound(w)
  <2>1. DOMAIN w.vals = 1 .. Len(ShapeOf(w)) /\ ShapeOf(w) \in Seq(ShapeNames)
    BY <1>1, RecordShapes, Zenon
  <2>2. \A i \in 1 .. Len(ShapeOf(w)) : Matches(file, ShapeOf(w)[i], record.val[i], w.vals[0 + i])
    BY <1>1, Zenon DEF AllRead
  <2>3. \A i \in 1 .. Len(ShapeOf(w)) : 0 + i = i
    BY <2>1
  <2>4. \A i \in 1 .. Len(ShapeOf(w)) : Matches(file, ShapeOf(w)[i], record.val[i], w.vals[i])
    BY <2>2, <2>3
  <2> QED BY <2>1, <2>4, Zenon DEF PartsAreSound, Matches
<1> QED BY <1>1, <1>3, <1>4, <1>5, <1>6, <1>7, Zenon DEF Advanced

\* A record that cannot be read is cut off or a faulty one.
LEMMA Unread ==
  ASSUME Given, NEW n, AlignedAt(n), NEW tag \in 1 .. 17, NEW record \in RecordAt(tag),
         record.err # "none"
  PROVE  cut < Len(Encode(dump)) \/ ~ PartsAreSound(Written[n + 1])
<1> DEFINE k == n + 1
           w == Written[k]
           shapes == ShapeOf(w)
<1>1. WellFormed(w) /\ AllRead(file, Start(dump, k), shapes, w.vals, 0, record)
  BY ReadPrefix, Zenon
<1>2. DOMAIN w.vals = 1 .. Len(shapes) /\ shapes \in Seq(ShapeNames)
  BY <1>1, RecordShapes, Zenon
<1>3. CASE Start(dump, k) <= Len(file) + 1
  <2>1. ~ (\A i \in 1 .. Len(shapes) : PartIsSound(shapes[i], w.vals[0 + i]))
    BY <1>1, <1>3, Zenon DEF AllRead
  <2>2. \A i \in 1 .. Len(shapes) : 0 + i = i
    BY <1>2
  <2>3. ~ (\A i \in 1 .. Len(shapes) : PartIsSound(shapes[i], w.vals[i]))
    BY <2>1, <2>2
  <2> QED BY <1>2, <2>3, Zenon DEF PartsAreSound
<1>4. CASE ~ (Start(dump, k) <= Len(file) + 1)
  <2>1. k \in 1 .. Count /\ Count \in Nat
    BY NextRecord, GivenNumbers, Zenon
  <2>2. Len(file) = cut /\ cut \in Nat /\ Start(dump, Count) = Len(Encode(dump)) + 1
        /\ Len(Encode(dump)) \in Nat
    BY GivenNumbers, Zenon
  <2>3. k \in 0 .. Count /\ Count \in 0 .. Count /\ k <= Count
    BY <2>1
  <2>4. Start(dump, k) <= Start(dump, Count) /\ Start(dump, k) \in Nat
    <3> HIDE DEF k
    <3>1. dump \in Dumps
      BY DEF Given
    <3> QED BY <3>1, <2>3, RecordPlaces, Zenon DEF Count
  <2> HIDE DEF k
  <2> QED BY <1>4, <2>2, <2>4
<1> QED BY <1>3, <1>4

LEMMA StepsOfNext ==
  ASSUME TypedSnap(snap), Next
  PROVE  \/ Cancel \/ ParseHeader \/ NoTag \/ UnknownRecord \/ Finish
         \/ \E tag \in 1 .. 17 : \E record \in RecordAt(tag) : ParseStep(tag, record)
<1> DEFINE Reads1(tag) == \E record \in RecordAt(tag) : ParseStep(tag, record)
<1>1. \/ Cancel \/ ParseHeader \/ NoTag \/ UnknownRecord \/ Finish
      \/ Reads1(TagParams) \/ Reads1(TagMemStats) \/ Reads1(TagType) \/ Reads1(TagItab)
      \/ Reads1(TagOtherRoot) \/ Reads1(TagFinalizer) \/ Reads1(TagQueuedFinalizer)
      \/ Reads1(TagOSThread) \/ Reads1(TagDefer) \/ Reads1(TagPanic) \/ Reads1(TagMemProf)
      \/ Reads1(TagAllocSample) \/ Reads1(TagGoroutine) \/ Reads1(TagObject) \/ Reads1(TagData)
      \/ Reads1(TagBSS) \/ Reads1(TagStackFrame)
  BY RecordSteps, PayloadSteps, Zenon DEF Next
<1> HIDE DEF Reads1
<1>2. \/ Cancel \/ ParseHeader \/ NoTag \/ UnknownRecord \/ Finish
      \/ \E tag \in 1 .. 17 : Reads1(tag)
  <2>1. \A tag \in {TagParams, TagMemStats, TagType, TagItab, TagOtherRoot, TagFinalizer,
                    TagQueuedFinalizer, TagOSThread, TagDefer, TagPanic, TagMemProf,
                    TagAllocSample, TagGoroutine, TagObject, TagData, TagBSS, TagStackFrame} :
          tag \in 1 .. 17
    BY DEF TagObject, TagOtherRoot, TagType, TagGoroutine, TagStackFrame, TagParams,
           TagFinalizer, TagItab, TagOSThread, TagMemStats, TagQueuedFinalizer, TagData, TagBSS,
           TagDefer, TagPanic, TagMemProf, TagAllocSample
  <2> QED BY <1>1, <2>1, Zenon
<1> QED BY <1>2, Zenon DEF Reads1

\* Nothing is read before the header or after the end.
LEMMA StoppedSteps ==
  ASSUME status # "records", Next
  PROVE  Cancel \/ ParseHeader
<1>1. \A tag : RecordAt(tag) = {}
  BY DEF RecordAt, At
<1>2. ~ NoTag /\ ~ UnknownRecord /\ ~ Finish
  BY DEF NoTag, UnknownRecord, Finish, At
<1> QED BY <1>1, <1>2, Zenon
    DEF Next, ParseParams, ParseType, ParseObject, ParseOtherRoot, ParseFinalizer,
        ParseQueuedFinalizer, ParseItab, ParseOSThread, ParseMemStats, ParseData, ParseBSS,
        ParseGoroutine, ParseStackFrame, ParseDefer, ParsePanic, ParseMemProf, ParseAllocSample
-----------------------------------------------------------------------------
(* Sequences that follow the records                                        *)

\* s holds f of each member of N up to n, in order.
Follows(s, N, n, f) ==
  /\ IsSeq(s) /\ Len(s) = Len(Numbers(N, n))
  /\ \A i \in 1 .. Len(s) : s[i] = f[Numbers(N, n)[i]]

LEMMA FollowsOn ==
  ASSUME NEW N, NEW n \in Nat, NEW s, NEW f, Follows(s, N, n, f)
  PROVE  /\ n + 1 \notin N => Follows(s, N, n + 1, f)
         /\ \A e, u : n + 1 \in N /\ Grows(s, e, u) /\ e = f[n + 1] => Follows(u, N, n + 1, f)
<1> DEFINE a == Numbers(N, n)
           b == Numbers(N, n + 1)
<1>1. b = IF n + 1 \in N THEN Append(a, n + 1) ELSE a
  BY NumbersSteps
<1>2. IsSeq(a)
  BY NumbersList, Zenon DEF Lists
<1>3. ASSUME n + 1 \notin N PROVE Follows(s, N, n + 1, f)
  BY <1>1, <1>3, Zenon DEF Follows
<1>4. ASSUME n + 1 \in N, NEW e, NEW u, Grows(s, e, u), e = f[n + 1] PROVE Follows(u, N, n + 1, f)
  <2>1. Grows(a, n + 1, b)
    BY <1>1, <1>2, <1>4, Appended
  <2> HIDE DEF a, b
  <2>2. IsSeq(s) /\ Len(s) = Len(a) /\ \A i \in 1 .. Len(s) : s[i] = f[a[i]]
    BY Zenon DEF Follows, a
  <2>3. IsSeq(u) /\ Len(u) = Len(b)
    BY <1>4, <2>1, <2>2 DEF Grows
  <2>4. ASSUME NEW i \in 1 .. Len(u) PROVE u[i] = f[b[i]]
    <3>1. i \in 1 .. Len(s) \/ i = Len(s) + 1
      BY <1>4, <2>2 DEF Grows, IsSeq
    <3>2. CASE i \in 1 .. Len(s)
      <4>1. u[i] = s[i] /\ b[i] = a[i]
        BY <1>4, <2>1, <2>2, <3>2 DEF Grows
      <4> QED BY <2>2, <3>2, <4>1
    <3>3. CASE i = Len(s) + 1
      <4>1. u[i] = e /\ b[i] = n + 1
        BY <1>4, <2>1, <2>2, <3>3 DEF Grows
      <4> QED BY <1>4, <4>1
    <3> QED BY <3>1, <3>2, <3>3
  <2> QED BY <2>3, <2>4, Zenon DEF Follows, b
<1> QED BY <1>3, <1>4, Zenon

LEMMA FollowsNone ==
  ASSUME NEW N, NEW f
  PROVE  Follows(<<>>, N, 0, f)
<1>1. Numbers(N, 0) = <<>>
  BY NumbersSteps
<1>2. IsSeq(<<>>) /\ Len(<<>>) = 0
  BY DEF IsSeq
<1>3. \A i \in 1 .. 0 : FALSE
  OBVIOUS
<1> QED BY <1>1, <1>2, <1>3, Zenon DEF Follows

\* The members come in their order.
LEMMA NumbersIncrease ==
  ASSUME NEW N, NEW n \in Nat
  PROVE  \A i, j \in 1 .. Len(Numbers(N, n)) : i < j => Numbers(N, n)[i] < Numbers(N, n)[j]
<1> DEFINE Inc(s) == \A i, j \in 1 .. Len(s) : i < j => s[i] < s[j]
           S == {k \in Nat : Inc(Numbers(N, k))}
<1>1. 0 \in S
  <2>1. Numbers(N, 0) = <<>>
    BY NumbersSteps
  <2>2. Inc(<<>>)
    OBVIOUS
  <2> QED BY <2>1, <2>2
<1>2. ASSUME NEW k \in Nat, k \in S PROVE k + 1 \in S
  <2> DEFINE a == Numbers(N, k)
             b == Numbers(N, k + 1)
  <2>1. b = IF k + 1 \in N THEN Append(a, k + 1) ELSE a
    BY NumbersSteps
  <2>2. Inc(a)
    BY <1>2
  <2>3. Lists(a, N, k)
    BY NumbersList, Zenon
  <2> HIDE DEF a, b
  <2>4. ASSUME k + 1 \in N PROVE Inc(b)
    <3>1. Grows(a, k + 1, b)
      BY <2>1, <2>3, <2>4, Appended DEF Lists
    <3>2. \A i \in 1 .. Len(a) : a[i] < k + 1
      BY <2>3 DEF Lists
    <3>3. Len(a) \in Nat
      BY <2>3 DEF Lists, IsSeq
    <3> SUFFICES ASSUME NEW i \in 1 .. Len(b), NEW j \in 1 .. Len(b), i < j PROVE b[i] < b[j]
      OBVIOUS
    <3>4. i \in 1 .. Len(a) /\ (j \in 1 .. Len(a) \/ j = Len(a) + 1)
      BY <3>1, <3>3 DEF Grows
    <3>5. CASE j \in 1 .. Len(a)
      <4>1. b[i] = a[i] /\ b[j] = a[j]
        BY <3>1, <3>4, <3>5 DEF Grows
      <4> QED BY <2>2, <3>4, <3>5, <4>1
    <3>6. CASE j = Len(a) + 1
      <4>1. b[i] = a[i] /\ b[j] = k + 1
        BY <3>1, <3>4, <3>6 DEF Grows
      <4> QED BY <3>2, <3>4, <4>1
    <3> QED BY <3>4, <3>5, <3>6
  <2>5. Inc(b)
    BY <2>1, <2>2, <2>4, Zenon
  <2> HIDE DEF Inc
  <2> QED BY <2>5 DEF b
<1>3. n \in S
  <2> HIDE DEF S
  <2> QED BY <1>1, <1>2, SetInduction
<1> QED BY <1>3
-----------------------------------------------------------------------------
(* The parameters and the goroutine that hold for the next record           *)

LEMMA ParamsNext ==
  ASSUME NEW k \in Nat \ {0}
  PROVE  /\ AfterParams(k + 1) <=> Written[k].tag = TagParams \/ AfterParams(k)
         /\ Written[k].tag = TagParams =>
              ParamsAt(k + 1) = ParamsOf(Written[k].vals)
         /\ Written[k].tag # TagParams => ParamsAt(k + 1) = ParamsAt(k)
<1> DEFINE S(i) == {j \in 1 .. i - 1 : Written[j].tag = TagParams}
           m == k + 1
<1>1. m \in Nat /\ m - 1 = k
  OBVIOUS
<1> HIDE DEF m
<1>2. S(m) = {j \in 1 .. k : Written[j].tag = TagParams}
  BY <1>1
<1>3. Written[k].tag = TagParams => k \in S(m) /\ \A j \in S(m) : j <= k
  BY <1>2
<1>4. Written[k].tag # TagParams => S(m) = S(k)
  BY <1>2
<1>5. AfterParams(m) <=> Written[k].tag = TagParams \/ AfterParams(k)
  <2>1. \A j \in 1 .. k : j = k \/ j \in 1 .. k - 1
    OBVIOUS
  <2>2. k \in 1 .. k /\ \A j \in 1 .. k - 1 : j \in 1 .. k
    OBVIOUS
  <2> QED BY <1>1, <2>1, <2>2, Zenon DEF AfterParams
<1>6. Written[k].tag = TagParams => Max(S(m)) = k
  <2> SUFFICES ASSUME Written[k].tag = TagParams PROVE Max(S(m)) = k
    OBVIOUS
  <2>1. S(m) \in SUBSET (0 .. k) /\ S(m) # {} /\ k \in S(m)
    BY <1>2, <1>3
  <2> DEFINE T == S(m)
  <2> HIDE DEF T, S
  <2>2. Max(T) \in T /\ \A i \in T : i <= Max(T)
    BY <2>1, GreatestOf, Zenon DEF T
  <2>3. T \subseteq 0 .. k /\ k \in T /\ \A j \in T : j <= k
    BY <1>3, <2>1 DEF T
  <2>4. Max(T) = k
    <3> DEFINE x == Max(T)
    <3>1. x \in T /\ k <= x
      BY <2>2, <2>3
    <3> HIDE DEF x
    <3>2. x = k
      BY <3>1, <2>3
    <3> QED BY <3>2 DEF x
  <2> QED BY <2>4 DEF T
<1>7. \A i : ParamsAt(i) = ParamsOf(Written[Max(S(i))].vals)
  BY Zenon DEF ParamsAt, ParamsOf
<1> HIDE DEF S
<1>8. Written[k].tag = TagParams =>
        ParamsAt(m) = ParamsOf(Written[k].vals)
  BY <1>6, <1>7, Zenon
<1>9. Written[k].tag # TagParams => ParamsAt(m) = ParamsAt(k)
  BY <1>4, <1>7, Zenon
<1> QED BY <1>5, <1>8, <1>9, Zenon DEF m

ParamsKnown(n) ==
  /\ snap.params.ptrSize \in {0, 1, 2}
  /\ HaveParams <=> AfterParams(n + 1)
  /\ snap.params = IF HaveParams THEN ParamsAt(n + 1) ELSE NoParams

LEMMA ParamsStep ==
  ASSUME NEW n, NEW tag, NEW v, Advanced(n, tag, v), ParamsKnown(n)
  PROVE  ParamsKnown(n + 1)'
<1> DEFINE k == n + 1
           w == Written[k].vals
<1>1. /\ n \in Nat /\ Written[k].tag = tag /\ Came(tag, v, w) /\ ~ Refused(tag, v)
      /\ Parsed(tag, v, snap') /\ Written' = Written
  BY Zenon DEF Advanced
<1>2. k \in Nat \ {0}
  BY <1>1
<1> HIDE DEF k, w
<1>3. /\ AfterParams(k + 1) <=> tag = TagParams \/ AfterParams(k)
      /\ tag = TagParams => ParamsAt(k + 1) = ParamsOf(w)
      /\ tag # TagParams => ParamsAt(k + 1) = ParamsAt(k)
  BY <1>1, <1>2, ParamsNext, Zenon DEF w
<1>4. snap'.params = IF tag = TagParams THEN ParamsOf(v) ELSE snap.params
  BY <1>1, Zenon DEF Parsed
<1>5. AfterParams(k + 1)' <=> AfterParams(k + 1)
  BY <1>1, Zenon DEF AfterParams
<1>6. ParamsAt(k + 1)' = ParamsAt(k + 1)
  BY <1>1, Zenon DEF ParamsAt
<1>7. /\ snap.params.ptrSize \in {0, 1, 2}
      /\ HaveParams <=> AfterParams(k)
      /\ snap.params = IF HaveParams THEN ParamsAt(k) ELSE NoParams
  BY Zenon DEF ParamsKnown, k
<1>8. CASE tag = TagParams
  <2>1. v = w
    <3>1. tag \notin {TagObject, TagData, TagBSS, TagStackFrame}
      BY <1>8 DEF TagParams, TagObject, TagData, TagBSS, TagStackFrame
    <3> QED BY <1>1, <3>1, Zenon DEF Came
  <2>2. v[2] \in {1, 2}
    BY <1>1, <1>8, Zenon DEF Refused
  <2>3. snap'.params = ParamsAt(k + 1)
    BY <1>3, <1>4, <1>8, <2>1, Zenon
  <2>4. snap'.params.ptrSize \in {1, 2}
    BY <1>4, <1>8, <2>2 DEF ParamsOf
  <2>5. HaveParams' /\ snap'.params.ptrSize \in {0, 1, 2}
    BY <2>4 DEF HaveParams
  <2> QED BY <1>3, <1>5, <1>6, <1>8, <2>3, <2>5, Zenon DEF ParamsKnown, k
<1>9. CASE tag # TagParams
  <2>1. snap'.params = snap.params
    BY <1>4, <1>9, Zenon
  <2>2. HaveParams' <=> HaveParams
    BY <2>1, Zenon DEF HaveParams
  <2> QED BY <1>3, <1>5, <1>6, <1>7, <1>9, <2>1, <2>2, Zenon DEF ParamsKnown, k
<1> QED BY <1>8, <1>9

\* The records of a kind among the first n.
Of(tag) == {i \in DOMAIN Written : Written[i].tag = tag}
Found(tag, n) == Numbers(Of(tag), n)

LEMMA OwnersNext ==
  ASSUME NEW k \in Nat \ {0}
  PROVE  /\ Written[k].tag = TagGoroutine => Owners(k + 1) = {k}
         /\ Written[k].tag \in {TagStackFrame, TagDefer, TagPanic} => Owners(k + 1) = Owners(k)
         /\ Written[k].tag \notin {TagGoroutine, TagStackFrame, TagDefer, TagPanic}
              => Owners(k + 1) = {}
<1> DEFINE m == k + 1
           In(i) == Written[i].tag \in {TagStackFrame, TagDefer, TagPanic}
           G(i) == Written[i].tag = TagGoroutine
<1>1. m - 1 = k /\ m \in Nat
  OBVIOUS
<1>2. G(k) => ~ In(k)
  BY DEF TagGoroutine, TagStackFrame, TagDefer, TagPanic
<1> HIDE DEF m
<1>3. Owners(m) = {j \in 1 .. k : G(j) /\ \A i \in j + 1 .. k : In(i)}
  BY <1>1, Zenon DEF Owners
<1>4. Owners(k) = {j \in 1 .. k - 1 : G(j) /\ \A i \in j + 1 .. k - 1 : In(i)}
  BY Zenon DEF Owners
<1>5. Written[k].tag \notin {TagGoroutine, TagStackFrame, TagDefer, TagPanic} <=> ~ G(k) /\ ~ In(k)
  BY Zenon
<1> HIDE DEF G, In
<1>6. G(k) => Owners(m) = {k}
  BY <1>2, <1>3
<1>7. In(k) => Owners(m) = Owners(k)
  <2> SUFFICES ASSUME In(k), ~ G(k) PROVE Owners(m) = Owners(k)
    BY <1>2
  <2>1. \A j \in 1 .. k - 1 : (\A i \in j + 1 .. k : In(i)) <=> (\A i \in j + 1 .. k - 1 : In(i))
    <3> TAKE j \in 1 .. k - 1
    <3>1. \A i \in j + 1 .. k : i = k \/ i \in j + 1 .. k - 1
      OBVIOUS
    <3>2. \A i \in j + 1 .. k - 1 : i \in j + 1 .. k
      OBVIOUS
    <3> QED BY <3>1, <3>2, Zenon
  <2>2. \A j : j \in 1 .. k <=> j = k \/ j \in 1 .. k - 1
    OBVIOUS
  <2>3. \A j : j \in Owners(m) <=> j \in Owners(k)
    BY <1>3, <1>4, <2>1, <2>2, Zenon
  <2>4. Owners(m) \subseteq Owners(k) /\ Owners(k) \subseteq Owners(m)
    BY <2>3, Zenon
  <2> QED BY ONLY <2>4
<1>8. ~ G(k) /\ ~ In(k) => Owners(m) = {}
  BY <1>3
<1> QED BY <1>5, <1>6, <1>7, <1>8, Zenon DEF m, G, In

\* curG is the goroutine in whose section the next record is.
Section(n) ==
  /\ IsSeq(snap.goroutines) /\ Len(snap.goroutines) = Len(Found(TagGoroutine, n))
  /\ curG \in 0 .. Len(snap.goroutines)
  /\ Owners(n + 1) = IF curG = 0 THEN {} ELSE {Found(TagGoroutine, n)[curG]}

LEMMA SectionStep ==
  ASSUME NEW n, NEW tag, NEW v, Advanced(n, tag, v), Section(n)
  PROVE  Section(n + 1)'
<1> DEFINE k == n + 1
           a == Found(TagGoroutine, n)
           b == Found(TagGoroutine, k)
           s == snap.goroutines
           t == snap'.goroutines
<1>1. /\ n \in Nat /\ Written[k].tag = tag /\ Parsed(tag, v, snap') /\ Written' = Written
      /\ curG' = NextG(tag) /\ IsSeq(Written) /\ k <= Len(Written)
  BY Zenon DEF Advanced
<1>2. k \in Nat \ {0} /\ k \in DOMAIN Written
  BY <1>1 DEF IsSeq
<1>3. b = IF tag = TagGoroutine THEN Append(a, k) ELSE a
  <2>1. k \in Of(TagGoroutine) <=> tag = TagGoroutine
    BY <1>1, <1>2, Zenon DEF Of
  <2> QED BY <1>1, <2>1, NumbersSteps, Zenon DEF Found
<1>4. IsSeq(a)
  <2>1. Lists(a, Of(TagGoroutine), n)
    BY <1>1, NumbersList, Zenon DEF Found
  <2> QED BY <2>1, Zenon DEF Lists
<1>5. /\ IsSeq(s) /\ Len(s) = Len(a) /\ curG \in 0 .. Len(s)
      /\ Owners(k) = IF curG = 0 THEN {} ELSE {a[curG]}
  BY Zenon DEF Section
<1>6. t = IF tag = TagGoroutine THEN Append(s, GoroutineOf(v))
          ELSE IF tag = TagStackFrame /\ curG # 0
          THEN [s EXCEPT ![curG].frames = Append(@, FrameOf(v))]
          ELSE s
  BY <1>1, Zenon DEF Parsed
<1>7. Owners(k + 1)' = Owners(k + 1) /\ Found(TagGoroutine, k)' = b
  BY <1>1, Zenon DEF Owners, Found, Of
<1>8. /\ tag = TagGoroutine => Owners(k + 1) = {k}
      /\ tag \in {TagStackFrame, TagDefer, TagPanic} => Owners(k + 1) = Owners(k)
      /\ tag \notin {TagGoroutine, TagStackFrame, TagDefer, TagPanic} => Owners(k + 1) = {}
  BY <1>1, <1>2, OwnersNext, Zenon
<1>9. curG' = IF tag = TagGoroutine THEN Len(s) + 1
              ELSE IF tag \in {TagStackFrame, TagDefer, TagPanic} THEN curG ELSE 0
  <2>1. TagGoroutine \notin {TagStackFrame, TagDefer, TagPanic}
    BY DEF TagGoroutine, TagStackFrame, TagDefer, TagPanic
  <2> QED BY <1>1, <2>1 DEF NextG
<1> HIDE DEF k, a, b, s, t
<1>10. /\ IsSeq(t) /\ Len(t) = Len(b) /\ curG' \in 0 .. Len(t)
       /\ Owners(k + 1) = IF curG' = 0 THEN {} ELSE {b[curG']}
  <2>1. CASE tag = TagGoroutine
    <3>1. Grows(s, GoroutineOf(v), t) /\ Grows(a, k, b)
      BY <1>3, <1>4, <1>5, <1>6, <2>1, Appended
    <3>2. /\ IsSeq(t) /\ Len(t) = Len(s) + 1 /\ IsSeq(b) /\ Len(b) = Len(a) + 1 /\ b[Len(a) + 1] = k
      BY <3>1, Zenon DEF Grows
    <3>3. Owners(k + 1) = {k} /\ curG' = Len(s) + 1
      BY <1>8, <1>9, <2>1, Zenon
    <3>4. Len(s) \in Nat /\ Len(s) = Len(a)
      BY <1>5 DEF IsSeq
    <3>5. Owners(k + 1) = IF curG' = 0 THEN {} ELSE {b[curG']}
      <4>1. curG' # 0
        BY <3>3, <3>4
      <4>2. b[curG'] = k
        BY <3>2, <3>3, <3>4, Zenon
      <4> QED BY <3>3, <4>1, <4>2, Zenon
    <3>6. curG' \in 0 .. Len(t) /\ Len(t) = Len(b)
      BY <3>2, <3>3, <3>4
    <3> QED BY <3>2, <3>5, <3>6, Zenon
  <2>2. CASE tag # TagGoroutine
    <3>1. b = a
      BY <1>3, <2>2
    <3>2. IsSeq(t) /\ Len(t) = Len(s)
      <4>1. CASE tag = TagStackFrame /\ curG # 0
        <5> DEFINE e == FrameOf(v)
        <5>1. t = [s EXCEPT ![curG].frames = Append(@, e)]
          BY <1>6, <2>2, <4>1, Zenon
        <5> HIDE DEF e
        <5>2. DOMAIN s = 1 .. Len(s) /\ Len(s) \in Nat
          BY <1>5 DEF IsSeq
        <5>3. DOMAIN t = 1 .. Len(s) /\ t = [i \in DOMAIN t |-> t[i]]
          BY <5>1, <5>2
        <5>4. Len(t) = Len(s)
          BY <5>2, <5>3
        <5> QED BY <5>2, <5>3, <5>4, Zenon DEF IsSeq
      <4>2. CASE ~ (tag = TagStackFrame /\ curG # 0)
        BY <1>5, <1>6, <2>2, <4>2, Zenon
      <4> QED BY <4>1, <4>2
    <3>3. CASE tag \in {TagStackFrame, TagDefer, TagPanic}
      BY <1>5, <1>8, <1>9, <2>2, <3>1, <3>2, <3>3, Zenon
    <3>4. CASE tag \notin {TagStackFrame, TagDefer, TagPanic}
      <4>1. curG' = 0 /\ Owners(k + 1) = {}
        BY <1>8, <1>9, <2>2, <3>4, Zenon
      <4>2. Len(t) \in Nat
        BY <3>2 DEF IsSeq
      <4> QED BY <1>5, <3>1, <3>2, <4>1, <4>2
    <3> QED BY <3>3, <3>4
  <2> QED BY <2>1, <2>2
<1>11. /\ IsSeq(snap.goroutines)' /\ (Len(snap.goroutines) = Len(Found(TagGoroutine, k)))'
       /\ (curG \in 0 .. Len(snap.goroutines))'
  BY <1>7, <1>10, Zenon DEF t, IsSeq
<1> QED BY <1>7, <1>10, <1>11, Zenon DEF Section, k, t
-----------------------------------------------------------------------------
(* Warnings and refusals are faults of the writer                           *)

\* A payload that was read, with its fields and its address.
Pointing(p, cells, fields, base, keep) ==
  /\ Delivered(p, cells) /\ fields \in Fields /\ base \in 0 .. MaxUint
  /\ keep = TRUE \/ base = 0

LEMMA PointersWarned ==
  ASSUME NEW n, ParamsKnown(n), NEW p, NEW cells, NEW fields, NEW base, NEW keep,
         Pointing(p, cells, fields, base, keep)
  PROVE  /\ Pointers(p, fields, base, keep).warned \in Nat
         /\ Pointers(p, fields, base, keep).warned = 0 <=> FieldsAreSound(n + 1, base, cells, fields)
<1> DEFINE k == n + 1
<1>0. /\ Delivered(p, cells) /\ fields \in Fields /\ base \in 0 .. MaxUint
      /\ keep = TRUE \/ base = 0
  BY Zenon DEF Pointing
<1>1. CASE HaveParams
  <2>1. AfterParams(k) /\ snap.params = ParamsAt(k)
    BY <1>1, Zenon DEF ParamsKnown
  <2>2. snap.params.ptrSize \in {1, 2}
    BY <1>1 DEF ParamsKnown, HaveParams
  <2> HIDE DEF k
  <2> DEFINE q == ParamsAt(k)
  <2>3. Pointers(p, fields, base, keep) = Extract(cells, fields, q, base, keep)
    BY <1>0, <1>1, <2>1, Zenon DEF Pointers, Delivered
  <2>4. q.ptrSize \in {1, 2}
    BY <2>1, <2>2, Zenon
  <2> HIDE DEF q
  <2>5. Extractable(cells, fields, q, base)
    BY <1>0, <2>4, Zenon DEF Extractable, Delivered
  <2>6. /\ Extract(cells, fields, q, base, keep).warned \in Nat
        /\ Extract(cells, fields, q, base, keep).warned = 0
             <=> \A i \in DOMAIN fields : FieldIsSound(base, cells, q, fields[i])
    BY <1>0, <2>5, Warned, Zenon
  <2>7. FieldsAreSound(k, base, cells, fields)
          <=> \A i \in DOMAIN fields : FieldIsSound(base, cells, q, fields[i])
    BY <2>1, Zenon DEF FieldsAreSound, q
  <2> QED BY <2>3, <2>6, <2>7, Zenon DEF k
<1>2. CASE ~ HaveParams
  <2>1. ~ AfterParams(k)
    BY <1>2, Zenon DEF ParamsKnown
  <2>2. Pointers(p, fields, base, keep).warned = 0
    BY <1>2 DEF Pointers
  <2> QED BY <2>1, <2>2 DEF FieldsAreSound
<1> QED BY <1>1, <1>2

LEMMA NoNumbers ==
  ASSUME NEW n \in Nat
  PROVE  Numbers({}, n) = <<>>
<1> DEFINE s == Numbers({}, n)
<1>1. Lists(s, {}, n)
  BY NumbersList, Zenon
<1> HIDE DEF s
<1>2. IsSeq(s) /\ \A i \in 1 .. Len(s) : s[i] \in {}
  BY <1>1, Zenon DEF Lists
<1>3. Len(s) = 0
  BY <1>2 DEF IsSeq
<1>4. DOMAIN s = {} /\ s = [i \in DOMAIN s |-> s[i]]
  BY <1>2, <1>3 DEF IsSeq
<1>5. s = <<>>
  BY <1>4
<1> QED BY <1>5 DEF s

\* The pointers taken from a payload are at its places.
AtPlaces(e, i, cells, places, base, keep) ==
  /\ e.targets = Held(i, cells, places)
  /\ e.slots = IF keep THEN Addresses(base, places) ELSE <<>>

LEMMA PointersPlaced ==
  ASSUME NEW n, ParamsKnown(n), NEW p, NEW cells, NEW fields, NEW base, NEW keep,
         Pointing(p, cells, fields, base, keep)
  PROVE  AtPlaces(Pointers(p, fields, base, keep), n + 1, cells,
                  Places(n + 1, base, cells, fields), base, keep)
<1> DEFINE k == n + 1
           places == Places(k, base, cells, fields)
           e == Pointers(p, fields, base, keep)
           q == ParamsAt(k)
           S == {i \in DOMAIN fields :
                   /\ AfterParams(k) /\ FieldIsSound(base, cells, q, fields[i])
                   /\ WordAt(cells, DataWord(fields[i], q.ptrSize), q) # 0}
           kept == Numbers(S, Len(fields))
<1>0. /\ Delivered(p, cells) /\ fields \in Fields /\ base \in 0 .. MaxUint
      /\ keep = TRUE \/ base = 0
  BY Zenon DEF Pointing
<1>3. places = [j \in DOMAIN kept |-> DataWord(fields[kept[j]], q.ptrSize)]
  BY Zenon DEF Places
<1>1. CASE HaveParams
  <2>1. AfterParams(k) /\ snap.params = q
    BY <1>1, Zenon DEF ParamsKnown
  <2>2. snap.params.ptrSize \in {1, 2}
    BY <1>1 DEF ParamsKnown, HaveParams
  <2> HIDE DEF k
  <2>3. e = Extract(cells, fields, q, base, keep)
    BY <1>0, <1>1, <2>1, Zenon DEF Pointers, Delivered
  <2>4. S = FullOnes(base, cells, fields, q)
    BY <2>1, Zenon DEF FullOnes
  <2> HIDE DEF S
  <2>5. Extractable(cells, fields, q, base)
    <3>1. q.ptrSize \in {1, 2}
      BY <2>1, <2>2, Zenon
    <3> QED BY <1>0, <3>1, Zenon DEF Extractable, Delivered
  <2> HIDE DEF q
  <2>6. kept = KeptOnes(cells, fields, q, base, keep)
    <3>1. PresentOnes(cells, fields, q) \ WrappedOnes(cells, fields, q, base, keep)
            = FullOnes(base, cells, fields, q)
      BY <1>0, <2>5, KeptPlaces, Zenon
    <3> QED BY <2>4, <3>1, Zenon DEF KeptOnes
  <2>7. Extracts(e, cells, fields, q, base, keep)
    BY <2>3, Extracted, Zenon
  <2> HIDE DEF e, kept
  <2>8. /\ e.targets = [i \in DOMAIN kept |-> WordAt(cells, DataWord(fields[kept[i]], q.ptrSize), q)]
        /\ e.slots = IF keep THEN [i \in DOMAIN kept |-> base + DataWord(fields[kept[i]], q.ptrSize)]
                     ELSE <<>>
    BY <2>6, <2>7, Zenon DEF Extracts
  <2> HIDE DEF places
  <2>9. DOMAIN places = DOMAIN kept
        /\ \A j \in DOMAIN kept : places[j] = DataWord(fields[kept[j]], q.ptrSize)
    BY <1>3
  <2>10. e.targets = [j \in DOMAIN places |-> WordAt(cells, places[j], q)]
    BY <2>8, <2>9, Zenon
  <2>11. [i \in DOMAIN kept |-> base + DataWord(fields[kept[i]], q.ptrSize)]
           = [j \in DOMAIN places |-> base + places[j]]
    BY <2>9, Zenon
  <2>12. e.slots = IF keep THEN Addresses(base, places) ELSE <<>>
    BY <2>8, <2>11, Zenon DEF Addresses
  <2>13. e.targets = Held(k, cells, places)
    BY <2>10, Zenon DEF Held, q
  <2> QED BY <2>12, <2>13, Zenon DEF AtPlaces, e, places, k
<1>2. CASE ~ HaveParams
  <2>1. ~ AfterParams(k)
    BY <1>2, Zenon DEF ParamsKnown
  <2>2. e.targets = <<>> /\ e.slots = <<>>
    BY <1>2 DEF Pointers
  <2>3. S = {}
    BY <2>1, Zenon
  <2>4. Len(fields) \in Nat
    BY <1>0 DEF Fields
  <2>5. kept = <<>>
    BY <2>3, <2>4, NoNumbers, Zenon
  <2> HIDE DEF S, kept, places, e, k
  <2>6. DOMAIN places = {}
    BY <1>3, <2>5
  <2>7. Held(k, cells, places) = <<>> /\ Addresses(base, places) = <<>>
    BY <2>6 DEF Held, Addresses
  <2>8. e.slots = IF keep THEN Addresses(base, places) ELSE <<>>
    BY <2>2, <2>7, Zenon
  <2>9. AtPlaces(e, k, cells, places, base, keep)
    BY <2>2, <2>7, <2>8, Zenon DEF AtPlaces
  <2> QED BY <2>9, Zenon DEF e, k, places
<1> QED BY <1>1, <1>2

\* A record whose parts are in range is warned about or refused only if it is
\* not sound, and under Strict always then.
LEMMA SoundRecord ==
  ASSUME NEW n, NEW tag, NEW v, Written[n + 1].tag = tag, Came(tag, v, Written[n + 1].vals),
         ParamsKnown(n), Section(n), PartsAreSound(Written[n + 1])
  PROVE  /\ WarningsOf(tag, v) \in Nat
         /\ Sound(n + 1) => ~ Refused(tag, v)
         /\ opts.strict /\ ~ Refused(tag, v) => Sound(n + 1) /\ WarningsOf(tag, v) = 0
<1> DEFINE k == n + 1
           w == Written[k].vals
           S == opts.strict
<1>0. TagObject = 1 /\ TagParams = 6 /\ TagData = 12 /\ TagBSS = 13 /\ TagStackFrame = 5
  BY DEF TagObject, TagParams, TagData, TagBSS, TagStackFrame
<1>1. Came(tag, v, w) /\ Written[k].tag = tag
  OBVIOUS
<1>2. Sound(k)
        <=> /\ tag = TagParams => w[2] \in {1, 2}
            /\ tag = TagObject => /\ AfterParams(k) /\ w[1] + Len(w[2]) <= MaxUint
                                  /\ FieldsAreSound(k, 0, w[2], w[3])
            /\ tag \in {TagData, TagBSS} => FieldsAreSound(k, w[1], w[2], w[3])
            /\ tag = TagStackFrame => Owners(k) # {} /\ FieldsAreSound(k, w[1], w[4], w[9])
  BY Zenon DEF Sound, PartsAreSound
<1>3. HaveParams <=> AfterParams(k)
  BY Zenon DEF ParamsKnown
<1>4. curG = 0 <=> Owners(k) = {}
  <2>1. Owners(k) = IF curG = 0 THEN {} ELSE {Found(TagGoroutine, n)[curG]}
    BY Zenon DEF Section
  <2> QED BY <2>1
<1>5. \A x : Tolerated(x) <=> x = 0 \/ ~ S
  BY Zenon DEF Tolerated
<1> HIDE DEF w, S
<1>6. CASE tag = TagParams
  <2>1. WarningsOf(tag, v) = 0
    BY <1>0, <1>6 DEF WarningsOf
  <2>2. Refused(tag, v) <=> v[2] \notin {1, 2}
    BY <1>0, <1>6 DEF Refused
  <2>3. Sound(k) <=> w[2] \in {1, 2}
    BY <1>0, <1>2, <1>6
  <2>4. v[2] = w[2]
    <3>1. tag \notin {TagObject, TagData, TagBSS, TagStackFrame}
      BY <1>0, <1>6
    <3>2. v = w
      BY <1>1, <3>1, Zenon DEF Came
    <3> QED BY <3>2
  <2>5. WarningsOf(tag, v) \in Nat
    BY <2>1
  <2> QED BY <2>1, <2>2, <2>3, <2>4, <2>5, Zenon DEF S, k
<1>7. CASE tag = TagObject
  <2> DEFINE p == ObjectPointers(v).warned
             x == ObjectWarnings(v)
             fs == FieldsAreSound(k, 0, w[2], w[3])
  <2>1. /\ v[1] = w[1] /\ w[1] \in 0 .. MaxUint /\ Delivered(v[2], w[2])
        /\ v[3] = w[3] /\ w[3] \in Fields
    BY <1>1, <1>7, Zenon DEF Came
  <2>2. p \in Nat /\ (p = 0 <=> fs)
    <3> DEFINE z == 0
    <3>1. z = 0 /\ z \in 0 .. MaxUint
      BY MaxUintIsNat
    <3> HIDE DEF z
    <3>2. /\ Pointers(v[2], w[3], z, opts.keepOffsets).warned \in Nat
          /\ Pointers(v[2], w[3], z, opts.keepOffsets).warned = 0 <=> FieldsAreSound(n + 1, z, w[2], w[3])
      <4>1. Pointing(v[2], w[2], w[3], z, opts.keepOffsets)
        BY <2>1, <3>1, Zenon DEF Pointing
      <4> QED BY <4>1, PointersWarned, ZenonT(60)
    <3> QED BY <2>1, <3>1, <3>2, Zenon DEF ObjectPointers
  <2>3. x = p + IF HaveParams THEN 0 ELSE 1
    BY DEF ObjectWarnings
  <2> HIDE DEF p, x, fs
  <2>4. x \in Nat /\ (x = 0 <=> fs /\ HaveParams)
    BY <2>2, <2>3
  <2>5. WarningsOf(tag, v) = x
    BY <1>7, Zenon DEF WarningsOf, x
  <2>6. Refused(tag, v) <=> Len(v[2].cells) > MaxUint - v[1] \/ ~ (x = 0 \/ ~ S)
    <3>1. Refused(tag, v) <=> Len(v[2].cells) > MaxUint - v[1] \/ ~ Tolerated(x)
      BY <1>0, <1>7 DEF Refused, x
    <3> QED BY <1>5, <3>1, Zenon
  <2>7. Len(v[2].cells) > MaxUint - v[1] <=> ~ (w[1] + Len(w[2]) <= MaxUint)
    <3> DEFINE l == Len(w[2])
               a == w[1]
    <3>1. Len(v[2].cells) = l /\ v[1] = a /\ l \in Nat /\ a \in Nat /\ MaxUint \in Nat
      BY <2>1, MaxUintIsNat DEF Delivered
    <3> HIDE DEF l, a
    <3>2. l > MaxUint - a <=> ~ (a + l <= MaxUint)
      BY <3>1
    <3> QED BY <3>1, <3>2, Zenon DEF l, a
  <2>8. Sound(k) <=> AfterParams(k) /\ w[1] + Len(w[2]) <= MaxUint /\ fs
    BY <1>0, <1>2, <1>7 DEF fs
  <2> QED BY <1>3, <2>4, <2>5, <2>6, <2>7, <2>8, Zenon DEF S, k
<1>8. CASE tag \in {TagData, TagBSS}
  <2> DEFINE x == SegmentPointers(v).warned
             fs == FieldsAreSound(k, w[1], w[2], w[3])
  <2>1. /\ v[1] = w[1] /\ w[1] \in 0 .. MaxUint /\ Delivered(v[2], w[2])
        /\ v[3] = w[3] /\ w[3] \in Fields
    BY <1>1, <1>8, Zenon DEF Came
  <2>2. x \in Nat /\ (x = 0 <=> fs)
    <3> DEFINE keep == TRUE
    <3>1. keep = TRUE
      OBVIOUS
    <3> HIDE DEF keep
    <3>2. /\ Pointers(v[2], w[3], w[1], keep).warned \in Nat
          /\ Pointers(v[2], w[3], w[1], keep).warned = 0 <=> FieldsAreSound(n + 1, w[1], w[2], w[3])
      <4>1. Pointing(v[2], w[2], w[3], w[1], keep)
        BY <2>1, <3>1, Zenon DEF Pointing
      <4> QED BY <4>1, PointersWarned, ZenonT(60)
    <3> QED BY <2>1, <3>1, <3>2, Zenon DEF SegmentPointers
  <2> HIDE DEF x, fs
  <2>5. WarningsOf(tag, v) = x
    <3>1. tag # TagObject
      BY <1>0, <1>8
    <3> QED BY <1>8, <3>1, Zenon DEF WarningsOf, x
  <2>6. Refused(tag, v) <=> ~ (x = 0 \/ ~ S)
    <3>1. Refused(tag, v) <=> ~ Tolerated(x)
      BY <1>0, <1>8 DEF Refused, x
    <3> QED BY <1>5, <3>1, Zenon
  <2>8. Sound(k) <=> fs
    <3>1. tag # TagObject /\ tag # TagParams /\ tag # TagStackFrame
      BY <1>0, <1>8
    <3> QED BY <1>2, <1>8, <3>1, Zenon DEF fs
  <2> QED BY <2>2, <2>5, <2>6, <2>8, Zenon DEF S, k
<1>9. CASE tag = TagStackFrame
  <2> DEFINE p == FramePointers(v).warned
             x == FrameWarnings(v)
             fs == FieldsAreSound(k, w[1], w[4], w[9])
  <2>1. /\ v[1] = w[1] /\ w[1] \in 0 .. MaxUint /\ Delivered(v[4], w[4])
        /\ v[9] = w[9] /\ w[9] \in Fields
    <3>1. (\A i \in 1 .. 9 \ {4} : v[i] = w[i]) /\ w[1] \in 0 .. MaxUint /\ Delivered(v[4], w[4])
          /\ w[9] \in Fields
      BY <1>1, <1>9, Zenon DEF Came
    <3> QED BY <3>1
  <2>2. p \in Nat /\ (p = 0 <=> fs)
    <3> DEFINE keep == TRUE
    <3>1. keep = TRUE
      OBVIOUS
    <3> HIDE DEF keep
    <3> DEFINE vp == v[4]
               wp == w[4]
               wf == w[9]
    <3>0. Delivered(vp, wp) /\ wf \in Fields /\ w[1] \in 0 .. MaxUint
      BY <2>1, Zenon
    <3>3. FramePointers(v) = Pointers(vp, wf, w[1], keep)
      BY <2>1, <3>1, Zenon DEF FramePointers
    <3> HIDE DEF vp, wp, wf
    <3>2. /\ Pointers(vp, wf, w[1], keep).warned \in Nat
          /\ Pointers(vp, wf, w[1], keep).warned = 0 <=> FieldsAreSound(n + 1, w[1], wp, wf)
      <4>1. Pointing(vp, wp, wf, w[1], keep)
        BY <3>0, <3>1, Zenon DEF Pointing
      <4> QED BY <4>1, PointersWarned, ZenonT(60)
    <3> QED BY <3>2, <3>3, Zenon DEF wp, wf
  <2>3. x = p + IF curG = 0 THEN 1 ELSE 0
    BY DEF FrameWarnings
  <2> HIDE DEF p, x, fs
  <2>4. x \in Nat /\ (x = 0 <=> fs /\ curG # 0)
    BY <2>2, <2>3
  <2>5. WarningsOf(tag, v) = x
    <3>1. tag # TagObject /\ tag \notin {TagData, TagBSS}
      BY <1>0, <1>9
    <3> QED BY <1>9, <3>1, Zenon DEF WarningsOf, x
  <2>6. Refused(tag, v) <=> ~ (x = 0 \/ ~ S)
    <3>1. Refused(tag, v) <=> ~ Tolerated(x)
      BY <1>0, <1>9 DEF Refused, x
    <3> QED BY <1>5, <3>1, Zenon
  <2>8. Sound(k) <=> Owners(k) # {} /\ fs
    <3>1. tag # TagObject /\ tag # TagParams /\ tag \notin {TagData, TagBSS}
      BY <1>0, <1>9
    <3> QED BY <1>2, <1>9, <3>1, Zenon DEF fs
  <2> QED BY <1>4, <2>4, <2>5, <2>6, <2>8, Zenon DEF S, k
<1>10. CASE tag \notin {TagParams, TagObject, TagData, TagBSS, TagStackFrame}
  <2>1. WarningsOf(tag, v) = 0 /\ ~ Refused(tag, v) /\ Sound(k)
    BY <1>2, <1>10, Zenon DEF WarningsOf, Refused
  <2>2. 0 \in Nat
    OBVIOUS
  <2> QED BY <2>1, <2>2, Zenon DEF k
<1> QED BY <1>6, <1>7, <1>8, <1>9, <1>10, Zenon
-----------------------------------------------------------------------------
(* Strictness                                                               *)

LEMMA SoundStays ==
  ASSUME Written' = Written, NEW i
  PROVE  Sound(i)' <=> Sound(i)
<1>1. AfterParams(i)' <=> AfterParams(i)
  BY Zenon DEF AfterParams
<1>2. ParamsAt(i)' = ParamsAt(i)
  BY Zenon DEF ParamsAt
<1>3. Owners(i)' = Owners(i)
  BY Zenon DEF Owners
<1>4. \A base, cells, fields : FieldsAreSound(i, base, cells, fields)' <=> FieldsAreSound(i, base, cells, fields)
  BY <1>1, <1>2, Zenon DEF FieldsAreSound
<1> QED BY <1>1, <1>3, <1>4, Zenon DEF Sound

\* Under Strict nothing was amiss so far.
Accepted(n) == opts.strict => snap.warnings = 0 /\ \A i \in 1 .. n : Sound(i)

LEMMA AcceptedStep ==
  ASSUME NEW n, NEW tag, NEW v, Advanced(n, tag, v), ParamsKnown(n), Section(n), Accepted(n)
  PROVE  Accepted(n + 1)'
<1> DEFINE k == n + 1
<1>1. /\ n \in Nat /\ Written[k].tag = tag /\ Came(tag, v, Written[k].vals) /\ ~ Refused(tag, v)
      /\ PartsAreSound(Written[k]) /\ Parsed(tag, v, snap') /\ Written' = Written
  BY Zenon DEF Advanced
<1>2. opts' = opts
  BY DEF Advanced, inputVars
<1>3. opts.strict => Sound(k) /\ WarningsOf(tag, v) = 0
  BY <1>1, SoundRecord, Zenon
<1>4. snap'.warnings = snap.warnings + WarningsOf(tag, v)
  BY <1>1, Zenon DEF Parsed
<1>5. \A i : Sound(i)' <=> Sound(i)
  BY <1>1, SoundStays, Zenon
<1>6. \A i \in 1 .. k : i = k \/ i \in 1 .. n
  BY <1>1
<1> HIDE DEF k
<1>7. ASSUME opts.strict PROVE snap'.warnings = 0 /\ \A i \in 1 .. k : Sound(i)'
  <2>1. snap.warnings = 0 /\ \A i \in 1 .. n : Sound(i)
    BY <1>7, Zenon DEF Accepted
  <2>2. snap'.warnings = 0
    BY <1>3, <1>4, <1>7, <2>1
  <2>3. \A i \in 1 .. k : Sound(i)'
    BY <1>3, <1>5, <1>6, <1>7, <2>1, Zenon
  <2> QED BY <2>2, <2>3
<1> QED BY <1>2, <1>7, Zenon DEF Accepted, k

-----------------------------------------------------------------------------
(* Collections that grow by one record                                      *)

LEMMA Growing ==
  ASSUME NEW n \in Nat, n + 1 \in DOMAIN Written, NEW kind, NEW s, NEW u, NEW e, NEW f,
         Follows(s, Of(kind), n, f),
         Written[n + 1].tag = kind => Grows(s, e, u) /\ e = f[n + 1],
         Written[n + 1].tag # kind => u = s
  PROVE  Follows(u, Of(kind), n + 1, f)
<1>1. n + 1 \in Of(kind) <=> Written[n + 1].tag = kind
  BY Zenon DEF Of
<1>2. CASE Written[n + 1].tag = kind
  BY <1>1, <1>2, FollowsOn, Zenon
<1>3. CASE Written[n + 1].tag # kind
  BY <1>1, <1>3, FollowsOn, Zenon
<1> QED BY <1>2, <1>3

LEMMA ListedStep ==
  ASSUME NEW n \in Nat, n + 1 \in DOMAIN Written, NEW kind, NEW c, NEW d, NEW e, NEW f,
         Follows(c, Of(kind), n, f),
         d = IF Written[n + 1].tag = kind THEN Append(c, e) ELSE c,
         Written[n + 1].tag = kind => e = f[n + 1]
  PROVE  Follows(d, Of(kind), n + 1, f)
<1>1. Grows(c, e, Append(c, e))
  <2>1. IsSeq(c)
    BY Zenon DEF Follows
  <2> QED BY <2>1, Appended
<1>2. Written[n + 1].tag = kind => Grows(c, e, d) /\ e = f[n + 1]
  BY <1>1, Zenon
<1>3. Written[n + 1].tag # kind => d = c
  BY Zenon
<1> QED BY <1>2, <1>3, Growing, Zenon

\* What the records come to, as functions of their numbers.
ValsIn == [i \in DOMAIN Written |-> Written[i].vals]
SecondsIn == [i \in DOMAIN Written |-> Written[i].vals[2]]
ObjectsIn == [i \in DOMAIN Written |-> ObjectAt(i)]
SegmentsIn == [i \in DOMAIN Written |-> SegmentAt(i)]
FramesIn == [i \in DOMAIN Written |-> FrameAt(i)]

LEMMA EntriesStay ==
  ASSUME Written' = Written, opts' = opts
  PROVE  /\ ValsIn' = ValsIn /\ SecondsIn' = SecondsIn /\ ObjectsIn' = ObjectsIn
         /\ SegmentsIn' = SegmentsIn /\ FramesIn' = FramesIn
         /\ \A kind : Of(kind)' = Of(kind)
         /\ \A i : RootsAt(i)' = RootsAt(i)
<1>1. \A r : ParamsAt(r)' = ParamsAt(r) /\ (AfterParams(r)' <=> AfterParams(r))
  BY Zenon DEF ParamsAt, AfterParams
<1>2. \A i, base, cells, fields : Places(i, base, cells, fields)' = Places(i, base, cells, fields)
  <2> TAKE i, base, cells, fields
  <2> DEFINE S == {k \in DOMAIN fields :
                     /\ AfterParams(i) /\ FieldIsSound(base, cells, ParamsAt(i), fields[k])
                     /\ WordAt(cells, DataWord(fields[k], ParamsAt(i).ptrSize), ParamsAt(i)) # 0}
  <2>1. S' = S
    BY <1>1
  <2>2. Places(i, base, cells, fields)
          = [k \in DOMAIN Numbers(S, Len(fields)) |->
               DataWord(fields[Numbers(S, Len(fields))[k]], ParamsAt(i).ptrSize)]
    BY Zenon DEF Places
  <2>3. Places(i, base, cells, fields)'
          = [k \in DOMAIN Numbers(S', Len(fields)) |->
               DataWord(fields[Numbers(S', Len(fields))[k]], ParamsAt(i)'.ptrSize)]
    BY Zenon DEF Places
  <2> HIDE DEF S
  <2> QED BY <1>1, <2>1, <2>2, <2>3, Zenon
<1>3. \A i, cells, places : Held(i, cells, places)' = Held(i, cells, places)
  BY <1>1, Zenon DEF Held
<1>4. \A i : ObjectAt(i)' = ObjectAt(i)
  BY <1>2, <1>3, Zenon DEF ObjectAt, Addresses
<1>5. \A i : SegmentAt(i)' = SegmentAt(i)
  BY <1>2, <1>3, Zenon DEF SegmentAt, Addresses
<1>6. \A i : FrameAt(i)' = FrameAt(i)
  BY <1>2, <1>3, Zenon DEF FrameAt, Addresses
<1>7. \A i : RootsAt(i)' = RootsAt(i)
  BY <1>5, Zenon DEF RootsAt
<1>8. ValsIn' = ValsIn /\ SecondsIn' = SecondsIn /\ \A kind : Of(kind)' = Of(kind)
  BY Zenon DEF ValsIn, SecondsIn, Of
<1>9. ObjectsIn' = ObjectsIn /\ SegmentsIn' = SegmentsIn /\ FramesIn' = FramesIn
  BY <1>4, <1>5, <1>6, Zenon DEF ObjectsIn, SegmentsIn, FramesIn
<1> QED BY <1>7, <1>8, <1>9, Zenon

\* What a step says of the record it takes.
LEMMA TakenRecord ==
  ASSUME NEW n, NEW tag, NEW v, Advanced(n, tag, v)
  PROVE  /\ n \in Nat /\ n + 1 \in DOMAIN Written /\ Written[n + 1].tag = tag
         /\ Came(tag, v, Written[n + 1].vals) /\ Parsed(tag, v, snap')
         /\ Written' = Written /\ opts' = opts
<1>1. /\ n \in Nat /\ n + 1 <= Len(Written) /\ IsSeq(Written) /\ Written[n + 1].tag = tag
      /\ Came(tag, v, Written[n + 1].vals) /\ Parsed(tag, v, snap') /\ Written' = Written
      /\ UNCHANGED inputVars
  BY Zenon DEF Advanced
<1>2. n + 1 \in DOMAIN Written
  BY <1>1 DEF IsSeq
<1>3. opts' = opts
  BY <1>1 DEF inputVars
<1> QED BY <1>1, <1>2, <1>3, Zenon

\* What is made of a record is what it comes to.
LEMMA EntryIs ==
  ASSUME NEW n, NEW tag, NEW v, Written[n + 1].tag = tag, Came(tag, v, Written[n + 1].vals),
         ParamsKnown(n)
  PROVE  /\ tag \notin {TagObject, TagData, TagBSS, TagStackFrame} => v = Written[n + 1].vals
         /\ tag = TagObject => ObjectOf(v) = ObjectAt(n + 1)
         /\ tag \in {TagData, TagBSS} => SegmentOf(v) = SegmentAt(n + 1)
         /\ tag = TagStackFrame => FrameOf(v) = FrameAt(n + 1)
<1> DEFINE k == n + 1
           w == Written[k].vals
<1>1. tag \notin {TagObject, TagData, TagBSS, TagStackFrame} => v = w
  BY Zenon DEF Came
<1>2. ASSUME tag = TagObject PROVE ObjectOf(v) = ObjectAt(k)
  <2>1. v[1] = w[1] /\ Delivered(v[2], w[2]) /\ v[3] = w[3] /\ w[3] \in Fields
    BY <1>2, Zenon DEF Came
  <2>2. Pointing(v[2], w[2], w[3], 0, opts.keepOffsets)
    <3>1. 0 \in 0 .. MaxUint
      BY MaxUintIsNat
    <3> QED BY <2>1, <3>1, Zenon DEF Pointing
  <2> DEFINE places == Places(k, 0, w[2], w[3])
             e == ObjectPointers(v)
  <2>3. AtPlaces(e, k, w[2], places, 0, opts.keepOffsets)
    <3>1. e = Pointers(v[2], w[3], 0, opts.keepOffsets)
      BY <2>1, Zenon DEF ObjectPointers
    <3> HIDE DEF e, w
    <3> QED BY <2>2, <3>1, PointersPlaced, Zenon
  <2>4. /\ e.targets = Held(k, w[2], places)
        /\ e.slots = IF opts.keepOffsets THEN Addresses(0, places) ELSE <<>>
    BY <2>3, Zenon DEF AtPlaces
  <2>5. v[2].cells = w[2]
    BY <2>1, Zenon DEF Delivered
  <2>6. ObjectOf(v) = [addr |-> v[1], size |-> Len(v[2].cells), fields |-> v[3],
                       pointers |-> e.targets, offsets |-> e.slots,
                       contents |-> IF opts.keepContents /\ ~ opts.lazy THEN v[2].cells ELSE <<>>]
    BY Zenon DEF ObjectOf
  <2>7. ObjectAt(k) = [addr |-> w[1], size |-> Len(w[2]), fields |-> w[3],
                       pointers |-> Held(k, w[2], places),
                       offsets |-> IF opts.keepOffsets THEN Addresses(0, places) ELSE <<>>,
                       contents |-> IF opts.keepContents /\ ~ opts.lazy THEN w[2] ELSE <<>>]
    BY Zenon DEF ObjectAt
  <2> DEFINE slots == IF opts.keepOffsets THEN Addresses(0, places) ELSE <<>>
             kept(cells) == IF opts.keepContents /\ ~ opts.lazy THEN cells ELSE <<>>
  <2>8. ObjectOf(v) = [addr |-> v[1], size |-> Len(v[2].cells), fields |-> v[3],
                       pointers |-> e.targets, offsets |-> e.slots, contents |-> kept(v[2].cells)]
    BY <2>6, Zenon
  <2>9. ObjectAt(k) = [addr |-> w[1], size |-> Len(w[2]), fields |-> w[3],
                       pointers |-> Held(k, w[2], places), offsets |-> slots,
                       contents |-> kept(w[2])]
    BY <2>7, Zenon
  <2>10. e.slots = slots
    BY <2>4, Zenon
  <2> HIDE DEF e, w, places, k, slots, kept
  <2> QED BY <2>1, <2>4, <2>5, <2>8, <2>9, <2>10, Zenon
<1>3. ASSUME tag \in {TagData, TagBSS} PROVE SegmentOf(v) = SegmentAt(k)
  <2>1. /\ v[1] = w[1] /\ w[1] \in 0 .. MaxUint /\ Delivered(v[2], w[2])
        /\ v[3] = w[3] /\ w[3] \in Fields
    BY <1>3, Zenon DEF Came
  <2>2. Pointing(v[2], w[2], w[3], w[1], TRUE)
    BY <2>1, Zenon DEF Pointing
  <2> DEFINE places == Places(k, w[1], w[2], w[3])
             e == SegmentPointers(v)
  <2>3. AtPlaces(e, k, w[2], places, w[1], TRUE)
    <3>1. e = Pointers(v[2], w[3], w[1], TRUE)
      BY <2>1, Zenon DEF SegmentPointers
    <3> HIDE DEF e, w
    <3> QED BY <2>2, <3>1, PointersPlaced, Zenon
  <2>4. e.targets = Held(k, w[2], places) /\ e.slots = Addresses(w[1], places)
    BY <2>3, Zenon DEF AtPlaces
  <2>5. v[2].cells = w[2]
    BY <2>1, Zenon DEF Delivered
  <2>6. SegmentOf(v) = [addr |-> v[1], size |-> Len(v[2].cells), fields |-> v[3],
                        pointers |-> e.targets, slots |-> e.slots]
    BY Zenon DEF SegmentOf
  <2>7. SegmentAt(k) = [addr |-> w[1], size |-> Len(w[2]), fields |-> w[3],
                        pointers |-> Held(k, w[2], places), slots |-> Addresses(w[1], places)]
    BY Zenon DEF SegmentAt
  <2> HIDE DEF e, w, places, k
  <2> QED BY <2>1, <2>4, <2>5, <2>6, <2>7, Zenon
<1>4. ASSUME tag = TagStackFrame PROVE FrameOf(v) = FrameAt(k)
  <2>1. /\ \A i \in 1 .. 9 \ {4} : v[i] = w[i]
        /\ w[1] \in 0 .. MaxUint /\ Delivered(v[4], w[4]) /\ w[9] \in Fields
    BY <1>4, Zenon DEF Came
  <2>2. Pointing(v[4], w[4], w[9], w[1], TRUE)
    BY <2>1, Zenon DEF Pointing
  <2>3. v[1] = w[1] /\ v[2] = w[2] /\ v[3] = w[3] /\ v[5] = w[5] /\ v[6] = w[6] /\ v[7] = w[7]
        /\ v[8] = w[8] /\ v[9] = w[9]
    <3> HIDE DEF w
    <3> QED BY <2>1
  <2> DEFINE places == Places(k, w[1], w[4], w[9])
             e == FramePointers(v)
  <2>4. AtPlaces(e, k, w[4], places, w[1], TRUE)
    <3>1. e = Pointers(v[4], w[9], w[1], TRUE)
      BY <2>3, Zenon DEF FramePointers
    <3> HIDE DEF e, w
    <3> QED BY <2>2, <3>1, PointersPlaced, Zenon
  <2>5. e.targets = Held(k, w[4], places) /\ e.slots = Addresses(w[1], places)
    BY <2>4, Zenon DEF AtPlaces
  <2>6. v[4].cells = w[4]
    BY <2>1, Zenon DEF Delivered
  <2>7. FrameOf(v) = [sp |-> v[1], depth |-> v[2], childSP |-> v[3], size |-> Len(v[4].cells),
                      entryPC |-> v[5], currentPC |-> v[6], continuePC |-> v[7], func |-> v[8],
                      fields |-> v[9], pointers |-> e.targets, slots |-> e.slots]
    BY Zenon DEF FrameOf
  <2>8. FrameAt(k) = [sp |-> w[1], depth |-> w[2], childSP |-> w[3], size |-> Len(w[4]),
                      entryPC |-> w[5], currentPC |-> w[6], continuePC |-> w[7], func |-> w[8],
                      fields |-> w[9], pointers |-> Held(k, w[4], places),
                      slots |-> Addresses(w[1], places)]
    BY Zenon DEF FrameAt
  <2> HIDE DEF e, w, places, k
  <2> QED BY <2>3, <2>5, <2>6, <2>7, <2>8, Zenon
<1> QED BY <1>1, <1>2, <1>3, <1>4, Zenon DEF k, w
-----------------------------------------------------------------------------
(* The collections of the snapshot                                          *)

\* Each list holds what the records of its kind come to, in order.
InLists(n) ==
  /\ Follows(snap.objects, Of(TagObject), n, ObjectsIn)
  /\ Follows(snap.data, Of(TagData), n, SegmentsIn)
  /\ Follows(snap.bss, Of(TagBSS), n, SegmentsIn)
  /\ Follows(snap.finalizers, Of(TagFinalizer), n, ValsIn)
  /\ Follows(snap.queued, Of(TagQueuedFinalizer), n, ValsIn)
  /\ Follows(snap.threads, Of(TagOSThread), n, ValsIn)
  /\ Follows(snap.samples, Of(TagAllocSample), n, ValsIn)
  /\ Follows(snap.profiles, Of(TagMemProf), n, ValsIn)

LEMMA ListedSteps ==
  ASSUME NEW n, NEW tag, NEW v, Advanced(n, tag, v), ParamsKnown(n), InLists(n)
  PROVE  InLists(n + 1)'
<1> DEFINE k == n + 1
<1>1. /\ n \in Nat /\ k \in DOMAIN Written /\ Written[k].tag = tag
      /\ Came(tag, v, Written[k].vals) /\ Parsed(tag, v, snap') /\ Written' = Written
      /\ opts' = opts
  BY TakenRecord, Zenon
<1>2. /\ tag \notin {TagObject, TagData, TagBSS, TagStackFrame} => v = Written[k].vals
      /\ tag = TagObject => ObjectOf(v) = ObjectAt(k)
      /\ tag \in {TagData, TagBSS} => SegmentOf(v) = SegmentAt(k)
  BY <1>1, EntryIs, Zenon
<1> HIDE DEF k
<1>3. ValsIn[k] = Written[k].vals /\ ObjectsIn[k] = ObjectAt(k) /\ SegmentsIn[k] = SegmentAt(k)
  BY <1>1, Zenon DEF ValsIn, ObjectsIn, SegmentsIn
<1>4. \A kind : kind \in {TagFinalizer, TagQueuedFinalizer, TagOSThread, TagAllocSample, TagMemProf}
                  => kind \notin {TagObject, TagData, TagBSS, TagStackFrame}
  BY DEF TagFinalizer, TagQueuedFinalizer, TagOSThread, TagAllocSample, TagMemProf,
         TagObject, TagData, TagBSS, TagStackFrame
<1>5. \A kind : kind \in {TagFinalizer, TagQueuedFinalizer, TagOSThread, TagAllocSample, TagMemProf}
                  /\ tag = kind => v = ValsIn[k]
  BY <1>2, <1>3, <1>4, Zenon
<1>6. ASSUME NEW kind, NEW c, NEW d, NEW e, NEW f, Follows(c, Of(kind), n, f),
             d = IF tag = kind THEN Append(c, e) ELSE c, tag = kind => e = f[k]
      PROVE  Follows(d, Of(kind), k, f)
  BY <1>1, <1>6, ListedStep, Zenon DEF k
<1>7. Follows(snap'.objects, Of(TagObject), k, ObjectsIn)
  <2> DEFINE e == ObjectOf(v)
  <2>1. /\ snap'.objects = IF tag = TagObject THEN Append(snap.objects, e) ELSE snap.objects
        /\ Follows(snap.objects, Of(TagObject), n, ObjectsIn)
        /\ tag = TagObject => e = ObjectsIn[k]
    BY <1>1, <1>2, <1>3, Zenon DEF Parsed, InLists
  <2> HIDE DEF e
  <2> QED BY <1>6, <2>1, Zenon
<1>8. Follows(snap'.data, Of(TagData), k, SegmentsIn)
  <2> DEFINE e == SegmentOf(v)
  <2>1. /\ snap'.data = IF tag = TagData THEN Append(snap.data, e) ELSE snap.data
        /\ Follows(snap.data, Of(TagData), n, SegmentsIn)
        /\ tag = TagData => e = SegmentsIn[k]
    BY <1>1, <1>2, <1>3, Zenon DEF Parsed, InLists
  <2> HIDE DEF e
  <2> QED BY <1>6, <2>1, Zenon
<1>9. Follows(snap'.bss, Of(TagBSS), k, SegmentsIn)
  <2> DEFINE e == SegmentOf(v)
  <2>1. /\ snap'.bss = IF tag = TagBSS THEN Append(snap.bss, e) ELSE snap.bss
        /\ Follows(snap.bss, Of(TagBSS), n, SegmentsIn)
        /\ tag = TagBSS => e = SegmentsIn[k]
    BY <1>1, <1>2, <1>3, Zenon DEF Parsed, InLists
  <2> HIDE DEF e
  <2> QED BY <1>6, <2>1, Zenon
<1>10. Follows(snap'.finalizers, Of(TagFinalizer), k, ValsIn)
  <2>1. /\ snap'.finalizers = IF tag = TagFinalizer THEN Append(snap.finalizers, v) ELSE snap.finalizers
        /\ Follows(snap.finalizers, Of(TagFinalizer), n, ValsIn)
    BY <1>1, Zenon DEF Parsed, InLists
  <2> QED BY <1>5, <1>6, <2>1, Zenon
<1>11. Follows(snap'.queued, Of(TagQueuedFinalizer), k, ValsIn)
  <2>1. /\ snap'.queued = IF tag = TagQueuedFinalizer THEN Append(snap.queued, v) ELSE snap.queued
        /\ Follows(snap.queued, Of(TagQueuedFinalizer), n, ValsIn)
    BY <1>1, Zenon DEF Parsed, InLists
  <2> QED BY <1>5, <1>6, <2>1, Zenon
<1>12. Follows(snap'.threads, Of(TagOSThread), k, ValsIn)
  <2>1. /\ snap'.threads = IF tag = TagOSThread THEN Append(snap.threads, v) ELSE snap.threads
        /\ Follows(snap.threads, Of(TagOSThread), n, ValsIn)
    BY <1>1, Zenon DEF Parsed, InLists
  <2> QED BY <1>5, <1>6, <2>1, Zenon
<1>13. Follows(snap'.samples, Of(TagAllocSample), k, ValsIn)
  <2>1. /\ snap'.samples = IF tag = TagAllocSample THEN Append(snap.samples, v) ELSE snap.samples
        /\ Follows(snap.samples, Of(TagAllocSample), n, ValsIn)
    BY <1>1, Zenon DEF Parsed, InLists
  <2> QED BY <1>5, <1>6, <2>1, Zenon
<1>14. Follows(snap'.profiles, Of(TagMemProf), k, ValsIn)
  <2>1. /\ snap'.profiles = IF tag = TagMemProf THEN Append(snap.profiles, v) ELSE snap.profiles
        /\ Follows(snap.profiles, Of(TagMemProf), n, ValsIn)
    BY <1>1, Zenon DEF Parsed, InLists
  <2> QED BY <1>5, <1>6, <2>1, Zenon
<1>15. /\ ValsIn' = ValsIn /\ ObjectsIn' = ObjectsIn /\ SegmentsIn' = SegmentsIn
       /\ \A kind : Of(kind)' = Of(kind)
  BY <1>1, EntriesStay, Zenon
<1> QED
  BY <1>1, <1>7, <1>8, <1>9, <1>10, <1>11, <1>12, <1>13, <1>14, <1>15, Zenon DEF InLists, k

\* The memory statistics are those of the last record that has any.
LatestStats(n) ==
  LET found == Found(TagMemStats, n)
  IN snap.memStats = IF found = <<>> THEN <<>> ELSE Written[found[Len(found)]].vals

LEMMA LatestStatsStep ==
  ASSUME NEW n, NEW tag, NEW v, Advanced(n, tag, v), ParamsKnown(n), LatestStats(n)
  PROVE  LatestStats(n + 1)'
<1> DEFINE k == n + 1
           a == Found(TagMemStats, n)
           b == Found(TagMemStats, k)
<1>1. /\ n \in Nat /\ k \in DOMAIN Written /\ Written[k].tag = tag
      /\ Came(tag, v, Written[k].vals) /\ Parsed(tag, v, snap') /\ Written' = Written
  BY TakenRecord, Zenon
<1>2. tag = TagMemStats => v = Written[k].vals
  <2>1. TagMemStats \notin {TagObject, TagData, TagBSS, TagStackFrame}
    BY DEF TagMemStats, TagObject, TagData, TagBSS, TagStackFrame
  <2> QED BY <1>1, <2>1, EntryIs, Zenon
<1>3. b = IF tag = TagMemStats THEN Append(a, k) ELSE a
  <2>1. k \in Of(TagMemStats) <=> tag = TagMemStats
    BY <1>1, Zenon DEF Of
  <2> QED BY <1>1, <2>1, NumbersSteps, Zenon DEF Found
<1>4. IsSeq(a)
  BY <1>1, NumbersList, Zenon DEF Found, Lists
<1>5. snap'.memStats = IF tag = TagMemStats THEN v ELSE snap.memStats
  BY <1>1, Zenon DEF Parsed
<1>6. snap.memStats = IF a = <<>> THEN <<>> ELSE Written[a[Len(a)]].vals
  BY Zenon DEF LatestStats
<1>7. Found(TagMemStats, k)' = b
  BY <1>1, Zenon DEF Found, Of
<1> HIDE DEF k, a, b
<1>8. snap'.memStats = IF b = <<>> THEN <<>> ELSE Written[b[Len(b)]].vals
  <2>1. CASE tag = TagMemStats
    <3>1. Grows(a, k, b)
      BY <1>3, <1>4, <2>1, Appended
    <3>2. Len(b) = Len(a) + 1 /\ b[Len(b)] = k /\ Len(a) \in Nat
      BY <1>4, <3>1 DEF Grows, IsSeq
    <3>3. b # <<>>
      BY <3>2
    <3> QED BY <1>2, <1>5, <2>1, <3>2, <3>3, Zenon
  <2>2. CASE tag # TagMemStats
    BY <1>3, <1>5, <1>6, <2>2, Zenon
  <2> QED BY <2>1, <2>2
<1> QED BY <1>1, <1>7, <1>8, Zenon DEF LatestStats, k

\* A map has the keys of the records of its kind so far, each with what its last
\* record comes to.
Keyed(m, kind, n, f) ==
  /\ m = [x \in DOMAIN m |-> m[x]]
  /\ \A x : x \in DOMAIN m <=> \E i \in 1 .. n : Written[i].tag = kind /\ Written[i].vals[1] = x
  /\ \A i \in 1 .. n :
       /\ Written[i].tag = kind
       /\ \A j \in i + 1 .. n : Written[j].tag = kind => Written[j].vals[1] # Written[i].vals[1]
       => m[Written[i].vals[1]] = f[i]

LEMMA KeyedStep ==
  ASSUME NEW n \in Nat, NEW kind, NEW m, NEW u, NEW f, Keyed(m, kind, n, f),
         u = IF Written[n + 1].tag = kind THEN With(m, Written[n + 1].vals[1], f[n + 1]) ELSE m
  PROVE  Keyed(u, kind, n + 1, f)
<1> DEFINE k == n + 1
           I(i) == Written[i].tag = kind
           x(i) == Written[i].vals[1]
<1>1. /\ m = [z \in DOMAIN m |-> m[z]]
      /\ \A z : z \in DOMAIN m <=> \E i \in 1 .. n : I(i) /\ x(i) = z
      /\ \A i \in 1 .. n : I(i) /\ (\A j \in i + 1 .. n : I(j) => x(j) # x(i)) => m[x(i)] = f[i]
  BY Zenon DEF Keyed
<1>2. I(k) => u = [z \in DOMAIN m \cup {x(k)} |-> IF z = x(k) THEN f[k] ELSE m[z]]
  BY Zenon DEF With
<1>3. ~ I(k) => u = m
  BY Zenon
<1>4. \A i : i \in 1 .. k <=> i = k \/ i \in 1 .. n
  OBVIOUS
<1>5. \A i \in 1 .. n : k \in i + 1 .. k /\ \A j \in i + 1 .. n : j \in i + 1 .. k
  OBVIOUS
<1> HIDE DEF I, x, k
<1>6. u = [z \in DOMAIN u |-> u[z]]
  BY <1>1, <1>2, <1>3
<1>7. \A z : z \in DOMAIN u <=> z \in DOMAIN m \/ (I(k) /\ z = x(k))
  BY <1>2, <1>3
<1>8. \A z : z \in DOMAIN u <=> \E i \in 1 .. k : I(i) /\ x(i) = z
  BY <1>1, <1>4, <1>7, Zenon
<1>9. ASSUME NEW i \in 1 .. k, I(i), \A j \in i + 1 .. k : I(j) => x(j) # x(i)
      PROVE  u[x(i)] = f[i]
  <2>1. CASE i = k
    BY <1>2, <1>9, <2>1
  <2>2. CASE i # k
    <3>1. i \in 1 .. n
      BY <1>4, <2>2
    <3>2. m[x(i)] = f[i]
      BY <1>1, <1>5, <1>9, <3>1, Zenon
    <3>3. I(k) => x(k) # x(i)
      BY <1>5, <1>9, <3>1, Zenon
    <3>4. x(i) \in DOMAIN m
      BY <1>1, <1>9, <3>1, Zenon
    <3> QED BY <1>2, <1>3, <3>2, <3>3, <3>4
  <2> QED BY <2>1, <2>2
<1> QED BY <1>6, <1>8, <1>9, Zenon DEF Keyed, I, x, k

Mapped(n) ==
  Keyed(snap.types, TagType, n, ValsIn) /\ Keyed(snap.itabs, TagItab, n, SecondsIn)

LEMMA MappedStep ==
  ASSUME NEW n, NEW tag, NEW v, Advanced(n, tag, v), ParamsKnown(n), Mapped(n)
  PROVE  Mapped(n + 1)'
<1> DEFINE k == n + 1
<1>1. /\ n \in Nat /\ k \in DOMAIN Written /\ Written[k].tag = tag
      /\ Came(tag, v, Written[k].vals) /\ Parsed(tag, v, snap') /\ Written' = Written
      /\ opts' = opts
  BY TakenRecord, Zenon
<1>2. tag \in {TagType, TagItab} => v = Written[k].vals
  <2>1. \A kind : kind \in {TagType, TagItab} => kind \notin {TagObject, TagData, TagBSS, TagStackFrame}
    BY DEF TagType, TagItab, TagObject, TagData, TagBSS, TagStackFrame
  <2> QED BY <1>1, <2>1, EntryIs, Zenon
<1> HIDE DEF k
<1>3. ValsIn[k] = Written[k].vals /\ SecondsIn[k] = Written[k].vals[2]
  BY <1>1, Zenon DEF ValsIn, SecondsIn
<1>4. Keyed(snap'.types, TagType, k, ValsIn)
  <2>1. Keyed(snap.types, TagType, n, ValsIn)
    BY Zenon DEF Mapped
  <2>2. snap'.types = IF Written[k].tag = TagType
                      THEN With(snap.types, Written[k].vals[1], ValsIn[k]) ELSE snap.types
    BY <1>1, <1>2, <1>3, Zenon DEF Parsed
  <2> QED BY <1>1, <2>1, <2>2, KeyedStep, Zenon DEF k
<1>5. Keyed(snap'.itabs, TagItab, k, SecondsIn)
  <2>1. Keyed(snap.itabs, TagItab, n, SecondsIn)
    BY Zenon DEF Mapped
  <2>2. snap'.itabs = IF Written[k].tag = TagItab
                      THEN With(snap.itabs, Written[k].vals[1], SecondsIn[k]) ELSE snap.itabs
    BY <1>1, <1>2, <1>3, Zenon DEF Parsed
  <2> QED BY <1>1, <2>1, <2>2, KeyedStep, Zenon DEF k
<1>6. ValsIn' = ValsIn /\ SecondsIn' = SecondsIn
  BY <1>1, EntriesStay, Zenon
<1>7. Keyed(snap.types, TagType, k, ValsIn)'
  BY <1>1, <1>4, <1>6, Zenon DEF Keyed, k
<1>8. Keyed(snap.itabs, TagItab, k, SecondsIn)'
  BY <1>1, <1>5, <1>6, Zenon DEF Keyed, k
<1> QED BY <1>7, <1>8, Zenon DEF Mapped, k

\* Each kind of record is counted.
Numerous(n) == \A u \in DOMAIN CounterOf : snap.stats[CounterOf[u]] = Len(Found(u, n))

LEMMA NumerousStep ==
  ASSUME NEW n, NEW tag, NEW v, Advanced(n, tag, v), Numerous(n)
  PROVE  Numerous(n + 1)'
<1> DEFINE k == n + 1
<1>1. /\ n \in Nat /\ k \in DOMAIN Written /\ Written[k].tag = tag
      /\ Parsed(tag, v, snap') /\ Written' = Written
  BY TakenRecord, Zenon
<1>2. Tallied(snap, snap', tag)
  BY <1>1, Zenon DEF Parsed
<1> HIDE DEF k
<1>3. ASSUME NEW u \in DOMAIN CounterOf PROVE snap'.stats[CounterOf[u]] = Len(Found(u, k))
  <2> DEFINE a == Found(u, n)
             b == Found(u, k)
  <2>1. b = IF tag = u THEN Append(a, k) ELSE a
    <3>1. k \in Of(u) <=> tag = u
      BY <1>1, Zenon DEF Of
    <3> QED BY <1>1, <3>1, NumbersSteps, Zenon DEF Found, k
  <2>2. IsSeq(a)
    BY <1>1, NumbersList, Zenon DEF Found, Lists
  <2>3. snap.stats[CounterOf[u]] = Len(a)
    BY Zenon DEF Numerous
  <2>4. snap'.stats[CounterOf[u]] = snap.stats[CounterOf[u]] + (IF u = tag THEN 1 ELSE 0)
    BY <1>2, Zenon DEF Tallied
  <2> HIDE DEF a, b
  <2>5. Len(a) \in Nat
    BY <2>2 DEF IsSeq
  <2>6. Len(b) = Len(a) + (IF u = tag THEN 1 ELSE 0)
    <3>1. CASE u = tag
      <4>1. Grows(a, k, b)
        BY <2>1, <2>2, <3>1, Appended
      <4> QED BY <3>1, <4>1 DEF Grows
    <3>2. CASE u # tag
      BY <2>1, <2>5, <3>2
    <3> QED BY <3>1, <3>2
  <2> QED BY <2>3, <2>4, <2>6, Zenon DEF b
<1>4. \A u : Found(u, k)' = Found(u, k)
  BY <1>1, Zenon DEF Found, Of
<1> QED BY <1>1, <1>3, <1>4, Zenon DEF Numerous, k
-----------------------------------------------------------------------------
(* Goroutines and their frames                                              *)

\* The frames written in the section of goroutine record g.
HomeOf(g) == {i \in DOMAIN Written : Written[i].tag = TagStackFrame /\ g \in Owners(i)}

\* The goroutine of record r, with these frames.
WithFrames(r, frames) ==
  LET v == Written[r].vals
  IN [addr |-> v[1], stackTop |-> v[2], id |-> v[3], goPC |-> v[4], status |-> v[5],
      isSystem |-> v[6] = 1, isBackground |-> v[7] = 1, waitSince |-> v[8],
      waitReason |-> v[9], context |-> v[10], m |-> v[11], defer |-> v[12],
      panic |-> v[13], frames |-> frames]

\* The goroutine is that of record r, and its stack holds the frames of its section.
StackIs(g, r, n) == g = WithFrames(r, g.frames) /\ Follows(g.frames, HomeOf(r), n, FramesIn)

Framed(n) ==
  /\ IsSeq(snap.goroutines) /\ Len(snap.goroutines) = Len(Found(TagGoroutine, n))
  /\ \A m \in 1 .. Len(snap.goroutines) :
       StackIs(snap.goroutines[m], Found(TagGoroutine, n)[m], n)

\* A frame added to a goroutine's stack leaves the others alone.
Stacked(c, g, e, d) ==
  IsSeq(c) /\ g \in 1 .. Len(c) /\ d = [c EXCEPT ![g].frames = Append(@, e)]

StackAdded(c, g, e, d) ==
  /\ IsSeq(d) /\ Len(d) = Len(c)
  /\ d[g] = [c[g] EXCEPT !.frames = Append(c[g].frames, e)]
  /\ \A i \in 1 .. Len(c) : i # g => d[i] = c[i]

LEMMA StackGrows ==
  ASSUME NEW c, NEW g, NEW e, NEW d, Stacked(c, g, e, d)
  PROVE  StackAdded(c, g, e, d)
<1>0. IsSeq(c) /\ g \in 1 .. Len(c) /\ d = [c EXCEPT ![g].frames = Append(@, e)]
  BY Zenon DEF Stacked
<1>1. DOMAIN c = 1 .. Len(c) /\ Len(c) \in Nat
  BY <1>0 DEF IsSeq
<1> DEFINE s == Append(c[g].frames, e)
<1>2. d = [c EXCEPT ![g].frames = s]
  BY <1>0
<1> HIDE DEF s
<1>3. DOMAIN d = 1 .. Len(c) /\ d = [i \in DOMAIN d |-> d[i]]
  BY <1>1, <1>2
<1>4. Len(d) = Len(c)
  BY <1>1, <1>3
<1>5. IsSeq(d)
  BY <1>1, <1>3, <1>4, Zenon DEF IsSeq
<1>6. \A i \in 1 .. Len(c) : i # g => d[i] = c[i]
  BY <1>0, <1>1, <1>2
<1>7. d[g] = [c[g] EXCEPT !.frames = s]
  BY <1>0, <1>1, <1>2
<1> QED BY <1>4, <1>5, <1>6, <1>7, Zenon DEF s, StackAdded

LEMMA StackStays ==
  ASSUME NEW n \in Nat, NEW g, NEW r, StackIs(g, r, n), n + 1 \notin HomeOf(r)
  PROVE  StackIs(g, r, n + 1)
BY FollowsOn, Zenon DEF StackIs

LEMMA StackTakes ==
  ASSUME NEW n \in Nat, NEW g, NEW r, StackIs(g, r, n), n + 1 \in HomeOf(r),
         NEW e, e = FramesIn[n + 1]
  PROVE  StackIs([g EXCEPT !.frames = Append(g.frames, e)], r, n + 1)
<1> DEFINE c == g.frames
           s == Append(c, e)
           u == [g EXCEPT !.frames = s]
<1>1. g = WithFrames(r, c) /\ Follows(c, HomeOf(r), n, FramesIn)
  BY Zenon DEF StackIs
<1>2. Grows(c, e, s)
  <2>1. IsSeq(c)
    BY <1>1, Zenon DEF Follows
  <2> QED BY <2>1, Appended
<1>3. Follows(s, HomeOf(r), n + 1, FramesIn)
  BY <1>1, <1>2, FollowsOn, Zenon
<1> HIDE DEF c, s
<1>4. u = WithFrames(r, s) /\ u.frames = s
  BY <1>1 DEF WithFrames
<1>5. u = WithFrames(r, u.frames) /\ Follows(u.frames, HomeOf(r), n + 1, FramesIn)
  BY <1>3, <1>4, Zenon
<1> HIDE DEF u
<1>6. StackIs(u, r, n + 1)
  BY <1>5, Zenon DEF StackIs
<1> QED BY <1>6, Zenon DEF u, s, c

\* No frame of a goroutine comes before it.
LEMMA StackStarts ==
  ASSUME NEW k \in Nat, NEW g, g = WithFrames(k, <<>>)
  PROVE  StackIs(g, k, k)
<1> DEFINE s == Numbers(HomeOf(k), k)
<1>1. Lists(s, HomeOf(k), k)
  BY NumbersList, Zenon
<1>2. \A i \in HomeOf(k) : k \in 1 .. i - 1
  BY Zenon DEF HomeOf, Owners
<1>3. \A i \in HomeOf(k) : i \notin 1 .. k
  <2> SUFFICES ASSUME NEW i \in HomeOf(k), i \in 1 .. k PROVE FALSE
    OBVIOUS
  <2>1. k \in 1 .. i - 1 /\ i \in Nat
    BY <1>2
  <2> QED BY <2>1
<1> HIDE DEF s
<1>4. IsSeq(s) /\ \A i \in 1 .. Len(s) : FALSE
  BY <1>1, <1>3, Zenon DEF Lists
<1>5. Len(s) = 0
  <2>1. Len(s) \in Nat
    BY <1>4 DEF IsSeq
  <2> QED BY <1>4, <2>1
<1>6. IsSeq(<<>>) /\ Len(<<>>) = 0
  BY DEF IsSeq
<1>7. \A i \in 1 .. 0 : FALSE
  OBVIOUS
<1>8. Follows(<<>>, HomeOf(k), k, FramesIn)
  BY <1>5, <1>6, <1>7, Zenon DEF Follows, s
<1>9. g.frames = <<>>
  BY DEF WithFrames
<1> QED BY <1>8, <1>9, Zenon DEF StackIs

LEMMA FramedStep ==
  ASSUME NEW n, NEW tag, NEW v, Advanced(n, tag, v), ParamsKnown(n), Section(n), Framed(n)
  PROVE  Framed(n + 1)'
<1> DEFINE k == n + 1
           c == snap.goroutines
           d == snap'.goroutines
           e == GoroutineOf(v)
           fr == FrameOf(v)
           T == TagGoroutine
           F == TagStackFrame
           a == Found(TagGoroutine, n)
           b == Found(TagGoroutine, k)
<1>1. /\ n \in Nat /\ k \in DOMAIN Written /\ Written[k].tag = tag
      /\ Came(tag, v, Written[k].vals) /\ Parsed(tag, v, snap') /\ Written' = Written
      /\ opts' = opts
  BY TakenRecord, Zenon
<1>2. d = IF tag = T THEN Append(c, e)
          ELSE IF tag = F /\ curG # 0 THEN [c EXCEPT ![curG].frames = Append(@, fr)]
          ELSE c
  BY <1>1, Zenon DEF Parsed
<1>3. /\ IsSeq(c) /\ Len(c) = Len(a) /\ curG \in 0 .. Len(c)
      /\ Owners(k) = IF curG = 0 THEN {} ELSE {a[curG]}
  BY Zenon DEF Section
<1>4. \A m \in 1 .. Len(c) : StackIs(c[m], a[m], n)
  BY Zenon DEF Framed
<1>5. b = IF tag = T THEN Append(a, k) ELSE a
  <2>1. k \in Of(T) <=> tag = T
    BY <1>1, Zenon DEF Of
  <2> QED BY <1>1, <2>1, NumbersSteps, Zenon DEF Found
<1>6. IsSeq(a) /\ \A i, j \in 1 .. Len(a) : i < j => a[i] < a[j]
  <2>1. Lists(a, Of(T), n)
    BY <1>1, NumbersList, Zenon DEF Found
  <2>2. \A i, j \in 1 .. Len(a) : i < j => a[i] < a[j]
    BY <1>1, NumbersIncrease, Zenon DEF Found
  <2> QED BY <2>1, <2>2, Zenon DEF Lists
<1>7. \A g : k \in HomeOf(g) <=> tag = F /\ g \in Owners(k)
  BY <1>1, Zenon DEF HomeOf
<1>8. /\ Found(TagGoroutine, k)' = b /\ \A g : HomeOf(g)' = HomeOf(g)
      /\ \A g, frames : WithFrames(g, frames)' = WithFrames(g, frames)
      /\ FramesIn' = FramesIn
  <2>1. FramesIn' = FramesIn
    BY <1>1, EntriesStay, Zenon
  <2> QED BY <1>1, <2>1, Zenon DEF Found, Of, HomeOf, Owners, WithFrames
<1>9. k \in Nat /\ Len(c) \in Nat /\ T # F
  BY <1>1, <1>3 DEF IsSeq, TagGoroutine, TagStackFrame
<1>10. tag = T => e = WithFrames(k, <<>>)
  <2> SUFFICES ASSUME tag = T PROVE e = WithFrames(k, <<>>)
    OBVIOUS
  <2>1. T \notin {TagObject, TagData, TagBSS, TagStackFrame}
    BY DEF TagGoroutine, TagObject, TagData, TagBSS, TagStackFrame
  <2>2. v = Written[k].vals
    BY <1>1, <2>1, EntryIs, Zenon
  <2> HIDE DEF k
  <2> QED BY <2>2, Zenon DEF GoroutineOf, WithFrames
<1>11. tag = F => fr = FramesIn[k]
  <2> SUFFICES ASSUME tag = F PROVE fr = FramesIn[k]
    OBVIOUS
  <2>1. fr = FrameAt(k)
    BY <1>1, EntryIs, Zenon
  <2> HIDE DEF k, fr
  <2> QED BY <1>1, <2>1, Zenon DEF FramesIn
<1>12. \A g, r : StackIs(g, r, n) /\ k \notin HomeOf(r) => StackIs(g, r, k)
  BY <1>1, StackStays, Zenon
<1>13. \A g, r : StackIs(g, r, n) /\ k \in HomeOf(r) /\ fr = FramesIn[k]
                   => StackIs([g EXCEPT !.frames = Append(g.frames, fr)], r, k)
  <2> TAKE g, r
  <2> HAVE StackIs(g, r, n) /\ k \in HomeOf(r) /\ fr = FramesIn[k]
  <2> HIDE DEF fr
  <2> QED BY <1>1, StackTakes, Zenon
<1> HIDE DEF k, c, d, e, a, b, fr, T, F
<1>14. IsSeq(d) /\ \A m \in 1 .. Len(d) : StackIs(d[m], b[m], k)
  <2>1. CASE tag = T
    <3>1. Grows(c, e, d) /\ Grows(a, k, b)
      BY <1>2, <1>3, <1>5, <1>6, <2>1, Appended
    <3>2. /\ IsSeq(d) /\ Len(d) = Len(c) + 1 /\ d[Len(c) + 1] = e /\ b[Len(c) + 1] = k
          /\ \A i \in 1 .. Len(c) : d[i] = c[i] /\ b[i] = a[i]
      BY <1>3, <3>1, Zenon DEF Grows
    <3>3. ASSUME NEW m \in 1 .. Len(c) PROVE StackIs(d[m], b[m], k)
      <4>1. StackIs(c[m], a[m], k)
        BY <1>4, <1>7, <1>9, <1>12, <2>1, Zenon
      <4> QED BY <3>2, <4>1, Zenon
    <3>4. StackIs(d[Len(c) + 1], b[Len(c) + 1], k)
      <4>1. StackIs(e, k, k)
        BY <1>9, <1>10, <2>1, StackStarts, Zenon
      <4> QED BY <3>2, <4>1, Zenon
    <3>5. \A m \in 1 .. Len(d) : m \in 1 .. Len(c) \/ m = Len(c) + 1
      BY <1>9, <3>2
    <3> QED BY <3>2, <3>3, <3>4, <3>5, Zenon
  <2>2. CASE tag = F /\ curG # 0
    <3>1. curG \in 1 .. Len(c)
      BY <1>3, <1>9, <2>2
    <3>2. d = [c EXCEPT ![curG].frames = Append(@, fr)]
      BY <1>2, <1>9, <2>2, Zenon
    <3>3. Stacked(c, curG, fr, d)
      BY <1>3, <3>1, <3>2, Zenon DEF Stacked
    <3>4. /\ IsSeq(d) /\ Len(d) = Len(c)
          /\ d[curG] = [c[curG] EXCEPT !.frames = Append(c[curG].frames, fr)]
          /\ \A i \in 1 .. Len(c) : i # curG => d[i] = c[i]
      <4>1. StackAdded(c, curG, fr, d)
        BY <3>3, StackGrows, Zenon
      <4> QED BY <4>1, Zenon DEF StackAdded
    <3>5. b = a /\ Owners(k) = {a[curG]}
      BY <1>3, <1>5, <1>9, <2>2, Zenon
    <3>6. StackIs(d[curG], b[curG], k)
      <4>1. k \in HomeOf(a[curG])
        BY <1>7, <2>2, <3>5
      <4>2. fr = FramesIn[k] /\ StackIs(c[curG], a[curG], n)
        BY <1>4, <1>11, <2>2, <3>1, Zenon
      <4>3. StackIs([c[curG] EXCEPT !.frames = Append(c[curG].frames, fr)], a[curG], k)
        BY <1>13, <4>1, <4>2, Zenon
      <4> QED BY <3>4, <3>5, <4>3, Zenon
    <3>7. ASSUME NEW m \in 1 .. Len(c), m # curG PROVE StackIs(d[m], b[m], k)
      <4>1. m \in 1 .. Len(a) /\ curG \in 1 .. Len(a) /\ m \in Nat /\ curG \in Nat
        BY <1>3, <3>1
      <4>2. m < curG \/ curG < m
        BY <3>7, <4>1
      <4>3. a[m] < a[curG] \/ a[curG] < a[m]
        BY <1>6, <4>1, <4>2, Zenon
      <4>4. a[m] # a[curG]
        <5> DEFINE x == a[m]
                   y == a[curG]
        <5>1. x \in Nat /\ y \in Nat
          <6>1. Lists(a, Of(T), n)
            BY <1>1, NumbersList, Zenon DEF a, Found, T
          <6> QED BY <4>1, <6>1 DEF Lists
        <5> HIDE DEF x, y
        <5>2. x < y \/ y < x
          BY <4>3 DEF x, y
        <5>3. x # y
          BY <5>1, <5>2
        <5> QED BY <5>3 DEF x, y
      <4>5. k \notin HomeOf(a[m])
        BY <1>7, <3>5, <4>4
      <4>6. StackIs(c[m], a[m], k)
        BY <1>4, <1>12, <4>5, Zenon
      <4> QED BY <3>4, <3>5, <3>7, <4>6, Zenon
    <3> QED BY <3>4, <3>6, <3>7, Zenon
  <2>3. CASE tag # T /\ ~ (tag = F /\ curG # 0)
    <3>1. d = c /\ b = a
      BY <1>2, <1>5, <2>3, Zenon
    <3>2. \A m \in 1 .. Len(c) : k \notin HomeOf(a[m])
      BY <1>3, <1>7, <2>3
    <3> QED BY <1>3, <1>4, <1>12, <3>1, <3>2, Zenon
  <2> QED BY <1>9, <2>1, <2>2, <2>3, Zenon
<1>15. (Len(snap.goroutines) = Len(Found(TagGoroutine, k)))'
  BY SectionStep, Zenon DEF Section, k
<1> QED BY <1>1, <1>8, <1>14, <1>15, Zenon DEF Framed, StackIs, d, k
-----------------------------------------------------------------------------
(* Roots                                                                    *)

IsSegment(r) == Written[r].tag \in {TagData, TagBSS} /\ AfterParams(r)
SegmentKind(r) == IF Written[r].tag = TagData THEN "data" ELSE "bss"
WordPlace(r, f) == DataWord(Written[r].vals[3][f], ParamsAt(r).ptrSize)
HeldAt(r, offset) == WordAt(Written[r].vals[2], offset, ParamsAt(r))

\* The root is a pointer in segment record r.
RootIn(r, root) ==
  /\ root.kind = SegmentKind(r)
  /\ LET offset == root.addr - Written[r].vals[1]
     IN /\ offset >= 0 /\ offset + ParamsAt(r).ptrSize <= Len(Written[r].vals[2])
        /\ root.target # 0 /\ root.target = HeldAt(r, offset)

\* The root that field f of segment record r makes.
FieldRoot(r, f) ==
  [kind |-> SegmentKind(r), addr |-> Written[r].vals[1] + WordPlace(r, f),
   target |-> HeldAt(r, WordPlace(r, f)), about |-> <<>>]

\* The roots of a segment, and no others.
RootsAre(r, roots) ==
  /\ IsSeq(roots)
  /\ \A i \in 1 .. Len(roots) : IsSegment(r) /\ RootIn(r, roots[i])
  /\ IsSegment(r) =>
       \A f \in DOMAIN Written[r].vals[3] :
         Sound(r) /\ HeldAt(r, WordPlace(r, f)) # 0 =>
           \E i \in 1 .. Len(roots) : roots[i] = FieldRoot(r, f)

LEMMA SegmentRoots ==
  ASSUME NEW n, NEW tag, NEW v, Written[n + 1].tag = tag, Came(tag, v, Written[n + 1].vals),
         tag \in {TagData, TagBSS}, ParamsKnown(n)
  PROVE  RootsAre(n + 1, RootsOf(SegmentKind(n + 1), v))
<1> DEFINE k == n + 1
           w == Written[k].vals
           kind == SegmentKind(k)
           p == SegmentPointers(v)
           roots == RootsOf(kind, v)
<1>1. /\ v[1] = w[1] /\ w[1] \in 0 .. MaxUint /\ Delivered(v[2], w[2])
      /\ v[3] = w[3] /\ w[3] \in Fields
  BY Zenon DEF Came
<1>2. IsSegment(k) <=> HaveParams
  BY Zenon DEF IsSegment, ParamsKnown
<1>3. roots = [i \in DOMAIN p.targets |->
                 [kind |-> kind, addr |-> p.slots[i], target |-> p.targets[i], about |-> <<>>]]
  BY Zenon DEF RootsOf
<1>4. CASE ~ HaveParams
  <2>1. p.targets = <<>>
    BY <1>4 DEF SegmentPointers, Pointers
  <2> HIDE DEF p, roots, k
  <2>2. IsSeq(roots) /\ Len(roots) = 0
    BY <1>3, <2>1 DEF IsSeq
  <2>3. \A i \in 1 .. Len(roots) : FALSE
    BY <2>2
  <2> QED BY <1>2, <1>4, <2>2, <2>3, Zenon DEF RootsAre, roots, k
<1>5. CASE HaveParams
  <2> DEFINE q == ParamsAt(k)
             o(f) == DataWord(w[3][f], q.ptrSize)
             x(f) == WordAt(w[2], o(f), q)
             D == DOMAIN w[3]
  <2>1. snap.params = q /\ AfterParams(k)
    BY <1>5, Zenon DEF ParamsKnown
  <2>2. snap.params.ptrSize \in {1, 2}
    BY <1>5 DEF ParamsKnown, HaveParams
  <2>3. p = Extract(w[2], w[3], q, w[1], TRUE)
    <3> HIDE DEF k, q, w
    <3> QED BY <1>1, <1>5, <2>1, Zenon DEF SegmentPointers, Pointers, Delivered
  <2>4. PointsOf(p, w[2], w[3], q, w[1])
    <3> HIDE DEF k, q, w, p
    <3>1. Extractable(w[2], w[3], q, w[1])
      BY <1>1, <2>1, <2>2, Zenon DEF Extractable, Delivered
    <3>2. PointsOf(Extract(w[2], w[3], q, w[1], TRUE), w[2], w[3], q, w[1])
      BY <3>1, Pointed, Zenon
    <3> QED BY <2>3, <3>2, Zenon
  <2> HIDE DEF p
  <2>5. /\ IsSeq(p.targets) /\ DOMAIN p.targets = 1 .. Len(p.targets)
        /\ \A i \in DOMAIN p.targets : \E f \in D :
             /\ p.slots[i] = w[1] + o(f) /\ o(f) \in Nat /\ o(f) + q.ptrSize <= Len(w[2])
             /\ p.targets[i] = x(f) /\ x(f) # 0
        /\ \A f \in D : FieldIsSound(w[1], w[2], q, w[3][f]) /\ x(f) # 0
             => \E i \in DOMAIN p.targets : p.slots[i] = w[1] + o(f) /\ p.targets[i] = x(f)
    <3> HIDE DEF k, q, w
    <3> QED BY ONLY <2>4, Zenon DEF PointsOf
  <2> HIDE DEF roots
  <2>6. IsSeq(roots) /\ Len(roots) = Len(p.targets) /\ DOMAIN p.targets = 1 .. Len(roots)
    <3> DEFINE l == Len(p.targets)
    <3>1. l \in Nat /\ DOMAIN p.targets = 1 .. l
      BY <2>5, Zenon DEF IsSeq
    <3> HIDE DEF l
    <3>2. DOMAIN roots = 1 .. l /\ roots = [i \in DOMAIN roots |-> roots[i]]
      BY <1>3, <3>1
    <3>3. Len(roots) = l
      BY <3>1, <3>2
    <3> QED BY <3>1, <3>2, <3>3, Zenon DEF IsSeq, l
  <2>7. \A i \in 1 .. Len(roots) :
          roots[i] = [kind |-> kind, addr |-> p.slots[i], target |-> p.targets[i],
                      about |-> <<>>]
    BY <1>3, <2>6, Zenon
  <2>8. \A f : WordPlace(k, f) = o(f) /\ HeldAt(k, o(f)) = x(f)
    BY Zenon DEF WordPlace, HeldAt
  <2>9. ASSUME NEW i \in 1 .. Len(roots) PROVE RootIn(k, roots[i])
    <3>1. PICK f \in D : /\ p.slots[i] = w[1] + o(f) /\ o(f) \in Nat /\ o(f) + q.ptrSize <= Len(w[2])
                         /\ p.targets[i] = x(f) /\ x(f) # 0
      BY <2>5, <2>6, Zenon
    <3>2. roots[i].kind = kind /\ roots[i].addr = w[1] + o(f) /\ roots[i].target = x(f)
      <4>1. roots[i] = [kind |-> kind, addr |-> w[1] + o(f), target |-> x(f), about |-> <<>>]
        BY <2>7, <3>1, Zenon
      <4> DEFINE addr == w[1] + o(f)
                 target == x(f)
                 root == roots[i]
      <4>2. root = [kind |-> kind, addr |-> addr, target |-> target, about |-> <<>>]
        BY <4>1
      <4> HIDE DEF addr, target, root, kind
      <4>3. root.kind = kind /\ root.addr = addr /\ root.target = target
        BY ONLY <4>2
      <4> QED BY <4>3, Zenon DEF addr, target, root
    <3>3. HeldAt(k, o(f)) = x(f)
      BY <2>8, Zenon
    <3> DEFINE of == o(f)
               root == roots[i]
               sum == root.addr - w[1]
    <3>4. sum = of /\ of >= 0 /\ of + q.ptrSize <= Len(w[2])
      <4> HIDE DEF w, o, q
      <4> QED BY <1>1, <3>1, <3>2
    <3>5. root.kind = kind /\ root.target = x(f) /\ x(f) # 0 /\ HeldAt(k, of) = x(f)
      BY <3>1, <3>2, <3>3, Zenon
    <3> HIDE DEF of, root, k
    <3>6. RootIn(k, root) <=>
            /\ root.kind = kind
            /\ sum >= 0 /\ sum + q.ptrSize <= Len(w[2])
            /\ root.target # 0 /\ root.target = HeldAt(k, sum)
      BY Zenon DEF RootIn
    <3> HIDE DEF sum, kind, x, w, q
    <3> QED BY <3>4, <3>5, <3>6, Zenon DEF root
  <2>10. ASSUME NEW f \in D, Sound(k), HeldAt(k, WordPlace(k, f)) # 0
         PROVE  \E i \in 1 .. Len(roots) : roots[i] = FieldRoot(k, f)
    <3>1. FieldsAreSound(k, w[1], w[2], w[3])
      BY <2>10, Zenon DEF Sound
    <3>2. FieldIsSound(w[1], w[2], q, w[3][f])
      BY <2>1, <3>1, Zenon DEF FieldsAreSound
    <3>3. x(f) # 0
      BY <2>8, <2>10, Zenon
    <3>4. PICK i \in DOMAIN p.targets : p.slots[i] = w[1] + o(f) /\ p.targets[i] = x(f)
      BY <2>5, <3>2, <3>3, Zenon
    <3>5. i \in 1 .. Len(roots)
      BY <2>6, <3>4, Zenon
    <3>6. roots[i] = [kind |-> kind, addr |-> w[1] + o(f), target |-> x(f), about |-> <<>>]
      BY <2>7, <3>4, <3>5, Zenon
    <3>7. FieldRoot(k, f) = [kind |-> kind, addr |-> w[1] + o(f), target |-> x(f),
                             about |-> <<>>]
      BY <2>8, Zenon DEF FieldRoot
    <3> QED BY <3>5, <3>6, <3>7, Zenon
  <2>11. IsSegment(k)
    BY <1>2, <1>5
  <2> HIDE DEF k
  <2>12. \A f \in DOMAIN Written[k].vals[3] :
           Sound(k) /\ HeldAt(k, WordPlace(k, f)) # 0
             => \E i \in 1 .. Len(roots) : roots[i] = FieldRoot(k, f)
    BY <2>10, Zenon
  <2> QED BY <2>6, <2>9, <2>11, <2>12, Zenon DEF RootsAre, roots, k
<1> QED BY <1>4, <1>5

\* The roots found so far are those of the segments so far.
Rooted(n) ==
  /\ IsSeq(snap.globals)
  /\ \A i \in 1 .. Len(snap.globals) :
       snap.globals[i].kind # "otherroot" => \E r \in 1 .. n : IsSegment(r) /\ RootIn(r, snap.globals[i])
  /\ \A r \in 1 .. n : IsSegment(r) =>
       \A f \in DOMAIN Written[r].vals[3] :
         Sound(r) /\ HeldAt(r, WordPlace(r, f)) # 0 =>
           \E i \in 1 .. Len(snap.globals) : snap.globals[i] = FieldRoot(r, f)

LEMMA SegmentsStay ==
  ASSUME Written' = Written
  PROVE  /\ \A r : IsSegment(r)' <=> IsSegment(r)
         /\ \A r, root : RootIn(r, root)' <=> RootIn(r, root')
         /\ \A r, f : FieldRoot(r, f)' = FieldRoot(r, f)
         /\ \A r, f : WordPlace(r, f)' = WordPlace(r, f)
         /\ \A r, o : HeldAt(r, o)' = HeldAt(r, o)
<1>1. \A r : ParamsAt(r)' = ParamsAt(r) /\ (AfterParams(r)' <=> AfterParams(r))
  BY Zenon DEF ParamsAt, AfterParams
<1>2. \A r : IsSegment(r)' <=> IsSegment(r)
  BY <1>1, Zenon DEF IsSegment
<1>3. \A r : SegmentKind(r)' = SegmentKind(r)
  BY Zenon DEF SegmentKind
<1>4. \A r, f : WordPlace(r, f)' = WordPlace(r, f)
  BY <1>1, Zenon DEF WordPlace
<1>5. \A r, o : HeldAt(r, o)' = HeldAt(r, o)
  BY <1>1, Zenon DEF HeldAt
<1>6. \A r, root : RootIn(r, root)' <=> RootIn(r, root')
  BY <1>1, <1>3, <1>5, Zenon DEF RootIn
<1>7. \A r, f : FieldRoot(r, f)' = FieldRoot(r, f)
  BY <1>3, <1>4, <1>5, Zenon DEF FieldRoot
<1> QED BY <1>2, <1>4, <1>5, <1>6, <1>7

LEMMA RootedStep ==
  ASSUME NEW n, NEW tag, NEW v, Advanced(n, tag, v), ParamsKnown(n), Rooted(n)
  PROVE  Rooted(n + 1)'
<1> DEFINE k == n + 1
           c == snap.globals
           d == snap'.globals
           other == OtherRootOf(v)
           new == RootsOf(SegmentKind(k), v)
           Due(r, f) == Sound(r) /\ HeldAt(r, WordPlace(r, f)) # 0
           F(r) == DOMAIN Written[r].vals[3]
<1>1. /\ n \in Nat /\ k \in DOMAIN Written /\ Written[k].tag = tag
      /\ Came(tag, v, Written[k].vals) /\ Parsed(tag, v, snap') /\ Written' = Written
  BY TakenRecord, Zenon
<1>2. d = GlobalsAfter(tag, v)
  BY <1>1, Zenon DEF Parsed
<1>3. /\ IsSeq(c)
      /\ \A i \in 1 .. Len(c) : c[i].kind # "otherroot" => \E r \in 1 .. n : IsSegment(r) /\ RootIn(r, c[i])
      /\ \A r \in 1 .. n : IsSegment(r) => \A f \in F(r) : Due(r, f) =>
           \E i \in 1 .. Len(c) : c[i] = FieldRoot(r, f)
  BY Zenon DEF Rooted
<1>4. \A r : r \in 1 .. k <=> r = k \/ r \in 1 .. n
  BY <1>1
<1>5. TagOtherRoot # TagData /\ TagOtherRoot # TagBSS /\ TagData # TagBSS
  BY DEF TagOtherRoot, TagData, TagBSS
<1>6. other.kind = "otherroot"
  BY DEF OtherRootOf
<1>7. tag \in {TagData, TagBSS} => RootsAre(k, new)
  BY <1>1, SegmentRoots, Zenon
<1>8. tag \notin {TagData, TagBSS} => ~ IsSegment(k)
  BY <1>1, Zenon DEF IsSegment
<1>9. tag \in {TagData, TagBSS} => d = c \o new
  <2>1. CASE tag = TagData
    <3>1. SegmentKind(k) = "data"
      BY <1>1, <2>1, Zenon DEF SegmentKind
    <3> HIDE DEF k
    <3> QED BY <1>2, <1>5, <2>1, <3>1, Zenon DEF GlobalsAfter
  <2>2. CASE tag = TagBSS
    <3>1. SegmentKind(k) = "bss"
      BY <1>1, <1>5, <2>2, Zenon DEF SegmentKind
    <3> HIDE DEF k
    <3> QED BY <1>2, <1>5, <2>2, <3>1, Zenon DEF GlobalsAfter
  <2> QED BY <2>1, <2>2
<1>10. tag = TagOtherRoot => d = Append(c, other)
  BY <1>2, <1>5, Zenon DEF GlobalsAfter
<1>11. tag \notin {TagData, TagBSS, TagOtherRoot} => d = c
  BY <1>2, Zenon DEF GlobalsAfter
<1> HIDE DEF k, c, d, other, new, Due
<1>12. /\ IsSeq(d)
       /\ \A i \in 1 .. Len(d) : d[i].kind # "otherroot" => \E r \in 1 .. k : IsSegment(r) /\ RootIn(r, d[i])
       /\ \A r \in 1 .. k : IsSegment(r) => \A f \in F(r) : Due(r, f) =>
            \E i \in 1 .. Len(d) : d[i] = FieldRoot(r, f)
  <2>1. CASE tag \in {TagData, TagBSS}
    <3>1. /\ IsSeq(new) /\ \A i \in 1 .. Len(new) : IsSegment(k) /\ RootIn(k, new[i])
          /\ IsSegment(k) => \A f \in F(k) : Due(k, f) =>
               \E i \in 1 .. Len(new) : new[i] = FieldRoot(k, f)
      BY <1>7, <2>1, Zenon DEF RootsAre, Due
    <3>2. /\ IsSeq(d) /\ Len(d) = Len(c) + Len(new)
          /\ \A i \in 1 .. Len(c) : d[i] = c[i]
          /\ \A i \in 1 .. Len(new) : d[Len(c) + i] = new[i]
      <4>1. IsSeq(c) /\ IsSeq(new)
        BY <1>3, <3>1, Zenon
      <4>2. /\ IsSeq(c \o new) /\ Len(c \o new) = Len(c) + Len(new)
            /\ \A i \in 1 .. Len(c) : (c \o new)[i] = c[i]
            /\ \A i \in 1 .. Len(new) : (c \o new)[Len(c) + i] = new[i]
        BY <4>1, ConcatOfAny
      <4>3. d = c \o new
        BY <1>9, <2>1
      <4> QED BY <4>2, <4>3, Zenon
    <3>3. Len(c) \in Nat /\ Len(new) \in Nat
      BY <1>3, <3>1 DEF IsSeq
    <3>4. \A i \in 1 .. Len(d) : i \in 1 .. Len(c) \/ \E j \in 1 .. Len(new) : i = Len(c) + j
      <4> TAKE i \in 1 .. Len(d)
      <4>1. i \in 1 .. Len(c) \/ (i - Len(c) \in 1 .. Len(new) /\ i = Len(c) + (i - Len(c)))
        BY <3>2, <3>3
      <4> QED BY <4>1, Zenon
    <3>5. (\A i \in 1 .. Len(c) : i \in 1 .. Len(d)) /\ \A j \in 1 .. Len(new) : Len(c) + j \in 1 .. Len(d)
      BY <3>2, <3>3
    <3>6. ASSUME NEW i \in 1 .. Len(d), d[i].kind # "otherroot"
          PROVE  \E r \in 1 .. k : IsSegment(r) /\ RootIn(r, d[i])
      <4>1. CASE i \in 1 .. Len(c)
        BY <1>3, <1>4, <3>2, <3>6, <4>1, Zenon
      <4>2. CASE \E j \in 1 .. Len(new) : i = Len(c) + j
        <5>1. PICK j \in 1 .. Len(new) : i = Len(c) + j
          BY <4>2
        <5>2. d[i] = new[j]
          BY <3>2, <5>1, Zenon
        <5>3. IsSegment(k) /\ RootIn(k, d[i])
          BY <3>1, <5>2, Zenon
        <5> QED BY <1>4, <5>3, Zenon
      <4> QED BY <3>4, <4>1, <4>2, Zenon
    <3>7. ASSUME NEW r \in 1 .. k, IsSegment(r), NEW f \in F(r), Due(r, f)
          PROVE  \E i \in 1 .. Len(d) : d[i] = FieldRoot(r, f)
      <4>1. CASE r \in 1 .. n
        <5>1. PICK i \in 1 .. Len(c) : c[i] = FieldRoot(r, f)
          BY <1>3, <3>7, <4>1, Zenon
        <5> QED BY <3>2, <3>5, <5>1, Zenon
      <4>2. CASE r = k
        <5>1. f \in F(k) /\ Due(k, f) /\ IsSegment(k)
          BY <3>7, <4>2, Zenon
        <5>2. PICK i \in 1 .. Len(new) : new[i] = FieldRoot(k, f)
          BY <3>1, <5>1, Zenon
        <5> QED BY <3>2, <3>5, <4>2, <5>2, Zenon
      <4> QED BY <1>4, <4>1, <4>2, Zenon
    <3> QED BY <3>2, <3>6, <3>7, Zenon
  <2>2. CASE tag = TagOtherRoot
    <3>1. Grows(c, other, d)
      BY <1>3, <1>10, <2>2, Appended
    <3>2. /\ IsSeq(d) /\ Len(d) = Len(c) + 1 /\ d[Len(c) + 1] = other
          /\ \A i \in 1 .. Len(c) : d[i] = c[i]
      BY <3>1, Zenon DEF Grows
    <3>3. Len(c) \in Nat
      BY <1>3 DEF IsSeq
    <3>4. (\A i \in 1 .. Len(c) : i \in 1 .. Len(d)) /\ \A i \in 1 .. Len(d) : i \in 1 .. Len(c) \/ i = Len(c) + 1
      BY <3>2, <3>3
    <3>5. ~ IsSegment(k)
      BY <1>5, <1>8, <2>2, Zenon
    <3>6. ASSUME NEW i \in 1 .. Len(d), d[i].kind # "otherroot"
          PROVE  \E r \in 1 .. k : IsSegment(r) /\ RootIn(r, d[i])
      <4>1. CASE i \in 1 .. Len(c)
        BY <1>3, <1>4, <3>2, <3>6, <4>1, Zenon
      <4>2. CASE i = Len(c) + 1
        BY <1>6, <3>2, <3>6, <4>2, Zenon
      <4> QED BY <3>4, <4>1, <4>2, Zenon
    <3>7. ASSUME NEW r \in 1 .. k, IsSegment(r), NEW f \in F(r), Due(r, f)
          PROVE  \E i \in 1 .. Len(d) : d[i] = FieldRoot(r, f)
      <4>1. r \in 1 .. n
        BY <1>4, <3>5, <3>7, Zenon
      <4>2. PICK i \in 1 .. Len(c) : c[i] = FieldRoot(r, f)
        BY <1>3, <3>7, <4>1, Zenon
      <4> QED BY <3>2, <3>4, <4>2, Zenon
    <3> QED BY <3>2, <3>6, <3>7, Zenon
  <2>3. CASE tag \notin {TagData, TagBSS, TagOtherRoot}
    <3>1. d = c /\ ~ IsSegment(k)
      BY <1>8, <1>11, <2>3, Zenon
    <3> QED BY <1>3, <1>4, <3>1, Zenon
  <2> QED BY <2>1, <2>2, <2>3, Zenon
<1>13. /\ \A r : IsSegment(r)' <=> IsSegment(r)
       /\ \A r, root : RootIn(r, root)' <=> RootIn(r, root')
       /\ \A r, f : FieldRoot(r, f)' = FieldRoot(r, f)
       /\ \A r, f : WordPlace(r, f)' = WordPlace(r, f)
       /\ \A r, o : HeldAt(r, o)' = HeldAt(r, o)
  BY <1>1, SegmentsStay, Zenon
<1>14. \A r : Sound(r)' <=> Sound(r)
  BY <1>1, SoundStays, Zenon
<1> QED BY <1>1, <1>12, <1>13, <1>14, Zenon DEF Rooted, d, k, Due

LEMMA EmptyAfter ==
  ASSUME NEW s, IsSeq(s)
  PROVE  s \o <<>> = s
<1> DEFINE X == {s[i] : i \in 1 .. Len(s)}
<1>1. Len(s) \in Nat /\ s = [i \in 1 .. Len(s) |-> s[i]] /\ \A i \in 1 .. Len(s) : s[i] \in X
  BY DEF IsSeq
<1> HIDE DEF X
<1>2. [i \in 1 .. Len(s) |-> s[i]] \in Seq(X)
  BY <1>1
<1>3. s \in Seq(X)
  BY <1>1, <1>2
<1> QED BY <1>3

LEMMA OneAfter ==
  ASSUME NEW s, IsSeq(s), NEW e, NEW one, one = <<e>>
  PROVE  IsSeq(one) /\ Append(s, e) = s \o one
<1> DEFINE X == {s[i] : i \in 1 .. Len(s)} \cup {e}
<1>1. Len(s) \in Nat /\ s = [i \in 1 .. Len(s) |-> s[i]] /\ \A i \in 1 .. Len(s) : s[i] \in X
  BY DEF IsSeq
<1>2. e \in X
  OBVIOUS
<1> HIDE DEF X
<1>3. [i \in 1 .. Len(s) |-> s[i]] \in Seq(X)
  BY <1>1
<1>4. s \in Seq(X)
  BY <1>1, <1>3
<1>5. one \in Seq(X) /\ Append(s, e) = s \o one
  BY <1>2, <1>4
<1> QED BY <1>5, SequencesAreSeq

LEMMA FlatGrows ==
  ASSUME NEW n \in Nat, NEW r, \A i \in 1 .. n + 1 : IsSeq(r[i])
  PROVE  FlattenSeq([i \in 1 .. n + 1 |-> r[i]])
           = FlattenSeq([i \in 1 .. n |-> r[i]]) \o r[n + 1]
<1> DEFINE k == n + 1
           X == UNION {{r[i][j] : j \in 1 .. Len(r[i])} : i \in 1 .. k}
           s == [i \in 1 .. n |-> r[i]]
           t == [i \in 1 .. k |-> r[i]]
<1>1. k \in Nat /\ k \in 1 .. k /\ k - 1 = n
  OBVIOUS
<1>2. \A i \in 1 .. k : r[i] \in Seq(X)
  <2> TAKE i \in 1 .. k
  <2> DEFINE u == r[i]
  <2>1. \A j \in 1 .. Len(u) : u[j] \in X
    OBVIOUS
  <2> HIDE DEF u, X
  <2>2. Len(u) \in Nat /\ u = [j \in 1 .. Len(u) |-> u[j]]
    BY Zenon DEF IsSeq, u
  <2>3. [j \in 1 .. Len(u) |-> u[j]] \in Seq(X)
    BY <2>1, <2>2
  <2> QED BY <2>2, <2>3 DEF u
<1> HIDE DEF X
<1>3. t \in Seq(Seq(X)) /\ Len(t) = k /\ t[k] = r[k]
  BY <1>1, <1>2
<1>4. SubSeq(t, 1, n) = s
  BY <1>1, <1>3
<1> HIDE DEF s, t, k
<1>5. Upto(t, k) = Upto(t, n) \o t[k] /\ Upto(t, k) = FlattenSeq(t)
  BY <1>1, <1>3, UptoSteps
<1>6. Upto(t, n) = FlattenSeq(s)
  BY <1>4, Zenon DEF Upto
<1> QED BY <1>3, <1>5, <1>6, Zenon DEF s, t, k

RootsIn == [i \in DOMAIN Written |-> RootsAt(i)]

\* The roots are those of the records, one record's after the other's.
RootsJoined(n) ==
  /\ IsSeq(snap.globals)
  /\ snap.globals = FlattenSeq([i \in 1 .. n |-> RootsIn[i]])
  /\ \A i \in 1 .. n : IsSeq(RootsIn[i])

LEMMA GlobalsStep ==
  ASSUME NEW n, NEW tag, NEW v, Advanced(n, tag, v), ParamsKnown(n), RootsJoined(n)
  PROVE  RootsJoined(n + 1)'
<1> DEFINE k == n + 1
           c == snap.globals
           d == snap'.globals
           r == RootsAt(k)
<1>1. /\ n \in Nat /\ k \in DOMAIN Written /\ Written[k].tag = tag
      /\ Came(tag, v, Written[k].vals) /\ Parsed(tag, v, snap') /\ Written' = Written
      /\ opts' = opts
  BY TakenRecord, Zenon
<1>2. d = GlobalsAfter(tag, v)
  BY <1>1, Zenon DEF Parsed
<1>3. TagOtherRoot # TagData /\ TagOtherRoot # TagBSS /\ TagData # TagBSS
  BY DEF TagOtherRoot, TagData, TagBSS
<1>4. IsSeq(c)
  BY Zenon DEF RootsJoined
<1>5. ASSUME tag \in {TagData, TagBSS} PROVE r = RootsOf(SegmentKind(k), v)
  <2>1. SegmentOf(v) = SegmentAt(k)
    BY <1>1, <1>5, EntryIs, Zenon
  <2>2. SegmentOf(v).pointers = SegmentPointers(v).targets /\ SegmentOf(v).slots = SegmentPointers(v).slots
    BY DEF SegmentOf
  <2> DEFINE p == SegmentAt(k).pointers
             q == SegmentAt(k).slots
             R(kind) == [i \in DOMAIN p |-> [kind |-> kind, addr |-> q[i], target |-> p[i],
                                             about |-> <<>>]]
  <2>3. p = SegmentPointers(v).targets /\ q = SegmentPointers(v).slots
    BY <2>1, <2>2, Zenon
  <2>4. \A kind : R(kind) = RootsOf(kind, v)
    BY <2>3, Zenon DEF RootsOf
  <2>5. tag = TagData => r = R("data")
    BY <1>1, <1>3, Zenon DEF RootsAt
  <2>6. tag = TagBSS => r = R("bss")
    BY <1>1, <1>3 DEF RootsAt
  <2> HIDE DEF R, r
  <2>7. SegmentKind(k) = IF tag = TagData THEN "data" ELSE "bss"
    BY <1>1, Zenon DEF SegmentKind
  <2> QED BY <1>3, <1>5, <2>4, <2>5, <2>6, <2>7, Zenon
<1>6. IsSeq(r) /\ d = c \o r
  <2>1. CASE tag \in {TagData, TagBSS}
    <3>1. IsSeq(r)
      <4>1. RootsAre(k, RootsOf(SegmentKind(k), v))
        BY <1>1, <2>1, SegmentRoots, Zenon
      <4> QED BY <1>5, <2>1, <4>1, Zenon DEF RootsAre
    <3>2. GlobalsAfter(tag, v) = c \o RootsOf(SegmentKind(k), v)
      <4>1. SegmentKind(k) = IF tag = TagData THEN "data" ELSE "bss"
        BY <1>1, Zenon DEF SegmentKind
      <4>2. GlobalsAfter(tag, v)
              = IF tag = TagData THEN c \o RootsOf("data", v) ELSE c \o RootsOf("bss", v)
        BY <1>3, <2>1, Zenon DEF GlobalsAfter
      <4> HIDE DEF k
      <4> QED BY <4>1, <4>2, Zenon
    <3> QED BY <1>2, <1>5, <2>1, <3>1, <3>2, Zenon
  <2>2. CASE tag = TagOtherRoot
    <3>1. v = Written[k].vals
      <4>1. tag \notin {TagObject, TagData, TagBSS, TagStackFrame}
        BY <2>2 DEF TagOtherRoot, TagObject, TagData, TagBSS, TagStackFrame
      <4> QED BY <1>1, <4>1, EntryIs, Zenon
    <3> DEFINE e == OtherRootOf(v)
    <3>2. r = <<e>>
      <4> DEFINE w == Written[k].vals
      <4>1. r = <<[kind |-> "otherroot", addr |-> 0, target |-> w[2], about |-> w[1]]>>
        BY <1>1, <1>3, <2>2, Zenon DEF RootsAt
      <4> HIDE DEF r, k
      <4> QED BY <3>1, <4>1, Zenon DEF OtherRootOf
    <3>3. d = Append(c, e)
      BY <1>2, <2>2, Zenon DEF GlobalsAfter
    <3> HIDE DEF e, r, c, d
    <3>4. IsSeq(r) /\ Append(c, e) = c \o r
      BY <1>4, <3>2, OneAfter
    <3> QED BY <3>3, <3>4, Zenon
  <2>3. CASE tag \notin {TagData, TagBSS, TagOtherRoot}
    <3>1. r = <<>>
      BY <1>1, <2>3 DEF RootsAt
    <3>2. d = c
      BY <1>2, <2>3, Zenon DEF GlobalsAfter
    <3> HIDE DEF r, c, d
    <3>3. IsSeq(<<>>) /\ c \o <<>> = c
      BY <1>4, EmptyAfter DEF IsSeq
    <3> QED BY <3>1, <3>2, <3>3, Zenon
  <2> QED BY <2>1, <2>2, <2>3
<1>7. IsSeq(d)
  BY <1>4, <1>6, ConcatOfAny
<1>8. RootsIn[k] = r /\ RootsIn' = RootsIn
  <2>1. \A i : RootsAt(i)' = RootsAt(i)
    BY <1>1, EntriesStay, Zenon
  <2>2. RootsIn' = RootsIn
    BY <1>1, <2>1, Zenon DEF RootsIn
  <2> QED BY <1>1, <2>2, Zenon DEF RootsIn
<1>9. \A i \in 1 .. k : i \in 1 .. n \/ i = k
  BY <1>1
<1>10. \A i \in 1 .. k : IsSeq(RootsIn[i])
  BY <1>6, <1>8, <1>9, Zenon DEF RootsJoined
<1>11. FlattenSeq([i \in 1 .. k |-> RootsIn[i]]) = FlattenSeq([i \in 1 .. n |-> RootsIn[i]]) \o RootsIn[k]
  <2> DEFINE t == RootsIn
  <2>1. n \in Nat /\ \A i \in 1 .. n + 1 : IsSeq(t[i])
    BY <1>1, <1>10, Zenon
  <2> HIDE DEF t
  <2>2. FlattenSeq([i \in 1 .. n + 1 |-> t[i]]) = FlattenSeq([i \in 1 .. n |-> t[i]]) \o t[n + 1]
    BY <2>1, FlatGrows
  <2> QED BY <2>2, Zenon DEF t
<1>12. c = FlattenSeq([i \in 1 .. n |-> RootsIn[i]])
  BY Zenon DEF RootsJoined
<1>13. d = FlattenSeq([i \in 1 .. k |-> RootsIn[i]])
  BY <1>6, <1>8, <1>11, <1>12, Zenon
<1> HIDE DEF r, c, k
<1> QED BY <1>7, <1>8, <1>10, <1>13, Zenon DEF RootsJoined, k
-----------------------------------------------------------------------------
(* References into the file                                                 *)

\* Object records that have contents, and a reference to them.
IsFull(r) == Written[r].tag = TagObject /\ Len(Written[r].vals[2]) > 0
RefersTo(ref, r) ==
  LET addr == Written[r].vals[1]
      cells == Written[r].vals[2]
  IN /\ ref.addr = addr /\ ref.len = Len(cells) /\ Delivered([cells |-> cells, off |-> ref.off], cells)
     /\ addr \in Nat /\ addr + Len(cells) <= MaxUint

\* Each reference is to an object, and each object with contents has one.
RefsAre(refs, n) ==
  /\ \A i \in 1 .. Len(refs) : \E r \in 1 .. n : IsFull(r) /\ RefersTo(refs[i], r)
  /\ \A r \in 1 .. n : IsFull(r) => \E i \in 1 .. Len(refs) : RefersTo(refs[i], r)

Refd(n) == IsSeq(snap.refs) /\ (opts.lazy => RefsAre(snap.refs, n))

LEMMA NewRef ==
  ASSUME NEW k, NEW v, Written[k].tag = TagObject, Came(TagObject, v, Written[k].vals),
         ~ Refused(TagObject, v)
  PROVE  /\ RefersTo(Ref(v), k)
         /\ ObjectOf(v).size > 0 <=> IsFull(k)
<1> DEFINE w == Written[k].vals
           addr == w[1]
           cells == w[2]
           ref == Ref(v)
<1>1. v[1] = addr /\ addr \in 0 .. MaxUint /\ Delivered(v[2], cells)
  BY Zenon DEF Came
<1>2. /\ v[2].cells = cells /\ cells \in Seq(Cells) /\ Len(cells) <= MaxUint
      /\ v[2].off \in Nat \ {0} /\ v[2].off + Len(cells) - 1 <= Len(file)
      /\ cells = SubSeq(file, v[2].off, v[2].off + Len(cells) - 1)
  BY <1>1, Zenon DEF Delivered
<1>3. ~ (Len(v[2].cells) > MaxUint - v[1])
  BY Zenon DEF Refused
<1>4. ref.addr = v[1] /\ ref.off = v[2].off /\ ref.len = Len(v[2].cells)
  BY DEF Ref
<1>5. ObjectOf(v).size = Len(v[2].cells)
  BY DEF ObjectOf
<1> DEFINE l == Len(cells)
<1>6. l \in Nat /\ addr \in Nat /\ MaxUint \in Nat
  BY <1>1, <1>2, MaxUintIsNat
<1> HIDE DEF w, addr, cells, ref, l
<1>7. ~ (l > MaxUint - addr)
  BY <1>1, <1>2, <1>3, Zenon DEF l
<1>8. addr + l <= MaxUint
  BY <1>6, <1>7
<1> DEFINE p == [cells |-> cells, off |-> ref.off]
<1>9. p.cells = cells /\ p.off = v[2].off
  BY <1>4
<1> HIDE DEF p
<1>10. Delivered(p, cells)
  BY <1>2, <1>9, Zenon DEF Delivered
<1>11. RefersTo(ref, k)
  BY <1>1, <1>2, <1>4, <1>6, <1>8, <1>10, Zenon DEF RefersTo, w, addr, cells, l, p
<1>12. ObjectOf(v).size > 0 <=> IsFull(k)
  BY <1>2, <1>5, Zenon DEF IsFull, w, cells
<1> QED BY <1>11, <1>12, Zenon DEF ref

LEMMA RefdStep ==
  ASSUME NEW n, NEW tag, NEW v, Advanced(n, tag, v), Refd(n)
  PROVE  Refd(n + 1)'
<1> DEFINE k == n + 1
           c == snap.refs
           d == snap'.refs
           e == Ref(v)
           full == opts.lazy /\ ObjectOf(v).size > 0
<1>1. /\ n \in Nat /\ k \in DOMAIN Written /\ Written[k].tag = tag
      /\ Came(tag, v, Written[k].vals) /\ Parsed(tag, v, snap') /\ Written' = Written
  BY TakenRecord, Zenon
<1>2. ~ Refused(tag, v) /\ opts' = opts /\ file' = file
  BY DEF Advanced, inputVars
<1>3. d = IF tag = TagObject THEN RefsAfter(v) ELSE c
  BY <1>1, Zenon DEF Parsed
<1>4. RefsAfter(v) = IF full THEN Append(c, e) ELSE c
  BY Zenon DEF RefsAfter
<1>5. IsSeq(c) /\ (opts.lazy => RefsAre(c, n))
  BY Zenon DEF Refd
<1>6. \A r : r \in 1 .. k <=> r = k \/ r \in 1 .. n
  BY <1>1
<1>7. tag = TagObject => RefersTo(e, k) /\ (opts.lazy => (full <=> IsFull(k)))
  <2> SUFFICES ASSUME tag = TagObject PROVE RefersTo(e, k) /\ (opts.lazy => (full <=> IsFull(k)))
    OBVIOUS
  <2>1. RefersTo(Ref(v), k) /\ (ObjectOf(v).size > 0 <=> IsFull(k))
    BY <1>1, <1>2, NewRef, Zenon
  <2> QED BY <2>1, Zenon
<1>8. tag # TagObject => ~ IsFull(k)
  BY <1>1, Zenon DEF IsFull
<1> HIDE DEF k, c, d, e, full
<1>9. ASSUME tag = TagObject /\ full PROVE IsSeq(d) /\ (opts.lazy => RefsAre(d, k))
  <2>1. Grows(c, e, d)
    BY <1>3, <1>4, <1>5, <1>9, Appended
  <2>2. IsSeq(d) /\ Len(d) = Len(c) + 1 /\ d[Len(c) + 1] = e /\ \A i \in 1 .. Len(c) : d[i] = c[i]
    BY <2>1, Zenon DEF Grows
  <2>3. Len(c) \in Nat
    BY <1>5 DEF IsSeq
  <2>4. /\ \A i \in 1 .. Len(c) : i \in 1 .. Len(d)
        /\ \A i \in 1 .. Len(d) : i \in 1 .. Len(c) \/ i = Len(c) + 1
        /\ Len(c) + 1 \in 1 .. Len(d)
    BY <2>2, <2>3
  <2>5. ASSUME opts.lazy PROVE RefsAre(d, k)
    <3>1. /\ \A i \in 1 .. Len(c) : \E r \in 1 .. n : IsFull(r) /\ RefersTo(c[i], r)
          /\ \A r \in 1 .. n : IsFull(r) => \E i \in 1 .. Len(c) : RefersTo(c[i], r)
      BY <1>5, <2>5, Zenon DEF RefsAre
    <3>2. RefersTo(e, k) /\ IsFull(k)
      BY <1>7, <1>9, <2>5, Zenon
    <3>3. ASSUME NEW i \in 1 .. Len(d) PROVE \E r \in 1 .. k : IsFull(r) /\ RefersTo(d[i], r)
      <4>1. CASE i \in 1 .. Len(c)
        BY <1>6, <2>2, <3>1, <4>1, Zenon
      <4>2. CASE i = Len(c) + 1
        BY <1>6, <2>2, <3>2, <4>2, Zenon
      <4> QED BY <2>4, <4>1, <4>2, Zenon
    <3>4. ASSUME NEW r \in 1 .. k, IsFull(r) PROVE \E i \in 1 .. Len(d) : RefersTo(d[i], r)
      <4>1. CASE r \in 1 .. n
        BY <2>2, <2>4, <3>1, <3>4, <4>1, Zenon
      <4>2. CASE r = k
        BY <2>2, <2>4, <3>2, <4>2, Zenon
      <4> QED BY <1>6, <4>1, <4>2, Zenon
    <3> QED BY <3>3, <3>4, Zenon DEF RefsAre
  <2> QED BY <2>2, <2>5, Zenon
<1>10. ASSUME ~ (tag = TagObject /\ full) PROVE IsSeq(d) /\ (opts.lazy => RefsAre(d, k))
  <2>1. d = c
    BY <1>3, <1>4, <1>10, Zenon
  <2>2. ASSUME opts.lazy PROVE RefsAre(d, k)
    <3>1. ~ IsFull(k)
      BY <1>7, <1>8, <1>10, <2>2, Zenon
    <3> QED BY <1>5, <1>6, <2>1, <2>2, <3>1, Zenon DEF RefsAre
  <2> QED BY <1>5, <2>1, <2>2, Zenon
<1>11. IsSeq(d) /\ (opts.lazy => RefsAre(d, k))
  BY <1>9, <1>10, Zenon
<1>12. \A r : IsFull(r)' <=> IsFull(r)
  BY <1>1, Zenon DEF IsFull
<1>13. \A ref, r : RefersTo(ref, r)' <=> RefersTo(ref, r)
  BY <1>1, <1>2, Zenon DEF RefersTo, Delivered
<1> QED BY <1>2, <1>11, <1>12, <1>13, Zenon DEF Refd, RefsAre, d, k
-----------------------------------------------------------------------------
(* The snapshot so far                                                      *)

Collected(n) ==
  /\ ParamsKnown(n) /\ LatestStats(n) /\ InLists(n) /\ Mapped(n) /\ Numerous(n)
  /\ Framed(n) /\ RootsJoined(n) /\ Rooted(n)

ReadSoFar(n) == Collected(n) /\ Section(n) /\ Accepted(n) /\ Refd(n)

LEMMA ReadSoFarStep ==
  ASSUME NEW n, NEW tag, NEW v, Advanced(n, tag, v), ReadSoFar(n)
  PROVE  ReadSoFar(n + 1)'
<1>1. /\ Section(n) /\ Accepted(n) /\ Refd(n)
      /\ ParamsKnown(n) /\ LatestStats(n) /\ InLists(n) /\ Mapped(n) /\ Numerous(n)
      /\ Framed(n) /\ RootsJoined(n) /\ Rooted(n)
  BY Zenon DEF ReadSoFar, Collected
<1>2. ParamsKnown(n + 1)' /\ Section(n + 1)' /\ Accepted(n + 1)' /\ Refd(n + 1)'
  BY <1>1, ParamsStep, SectionStep, AcceptedStep, RefdStep, Zenon
<1>3. LatestStats(n + 1)' /\ InLists(n + 1)' /\ Mapped(n + 1)' /\ Numerous(n + 1)'
  BY <1>1, LatestStatsStep, ListedSteps, MappedStep, NumerousStep, Zenon
<1>4. Framed(n + 1)' /\ RootsJoined(n + 1)' /\ Rooted(n + 1)'
  BY <1>1, FramedStep, GlobalsStep, RootedStep, Zenon
<1> QED BY <1>2, <1>3, <1>4, Zenon DEF ReadSoFar, Collected

\* Nothing has been read yet.
LEMMA NothingRead ==
  ASSUME snap = EmptySnapshot, curG = 0
  PROVE  TypedSnap(snap) /\ ReadSoFar(0)
<1>1. DOMAIN snap = SnapNames /\ snap.stats = [name \in StatNames |-> 0] /\ snap.warnings = 0
  BY DEF EmptySnapshot, SnapNames
<1>2. /\ snap.params = NoParams /\ snap.types = <<>> /\ snap.itabs = <<>> /\ snap.objects = <<>>
      /\ snap.globals = <<>> /\ snap.goroutines = <<>> /\ snap.data = <<>> /\ snap.bss = <<>>
      /\ snap.finalizers = <<>> /\ snap.queued = <<>> /\ snap.threads = <<>>
      /\ snap.profiles = <<>> /\ snap.samples = <<>> /\ snap.refs = <<>> /\ snap.memStats = <<>>
  BY DEF EmptySnapshot
<1>16. \A u \in DOMAIN CounterOf : snap.stats[CounterOf[u]] = 0
  BY <1>1, CountersAreStats
<1>3. TypedSnap(snap)
  <2>1. snap.stats["UnknownRecords"] = 0
    BY <1>1 DEF StatNames
  <2>2. TallyOk(snap)
    BY <1>16 DEF TallyOk
  <2> QED BY <1>1, <2>1, <2>2 DEF TypedSnap
<1>4. IsSeq(<<>>) /\ Len(<<>>) = 0 /\ DOMAIN <<>> = {} /\ (\A i : i \notin 1 .. 0)
  BY DEF IsSeq
<1>5. \A kind : Found(kind, 0) = <<>>
  BY NumbersSteps, Zenon DEF Found
<1>6. \A N, f : Follows(<<>>, N, 0, f)
  BY FollowsNone
<1>7. 0 + 1 = 1
  OBVIOUS
<1>8. ParamsKnown(0)
  <2>1. snap.params.ptrSize = 0
    BY <1>2 DEF NoParams
  <2>2. ~ HaveParams /\ ~ AfterParams(1)
    BY <2>1 DEF HaveParams, AfterParams
  <2>3. snap.params.ptrSize \in {0, 1, 2}
    BY <2>1
  <2> QED BY <1>2, <1>7, <2>2, <2>3, Zenon DEF ParamsKnown
<1>9. Section(0)
  <2>1. Numbers(Of(TagGoroutine), 0) = <<>>
    BY NumbersSteps
  <2>2. Owners(1) = {}
    BY DEF Owners
  <2>3. 0 \in 0 .. 0
    OBVIOUS
  <2>4. /\ IsSeq(snap.goroutines) /\ Len(snap.goroutines) = Len(Found(TagGoroutine, 0))
        /\ curG \in 0 .. Len(snap.goroutines)
    BY <1>2, <1>4, <2>1, <2>3, Zenon DEF Found
  <2>5. Owners(0 + 1) = IF curG = 0 THEN {} ELSE {Found(TagGoroutine, 0)[curG]}
    BY <1>7, <2>2, Zenon
  <2> QED BY <2>4, <2>5, Zenon DEF Section
<1>10. Accepted(0)
  BY <1>1, <1>4, Zenon DEF Accepted
<1>11. InLists(0)
  BY <1>2, <1>6, Zenon DEF InLists
<1>12. LatestStats(0) /\ Numerous(0)
  BY <1>2, <1>4, <1>5, <1>16, Zenon DEF LatestStats, Numerous
<1>13. Mapped(0)
  <2>1. <<>> = [x \in DOMAIN <<>> |-> <<>>[x]]
    OBVIOUS
  <2>2. \A kind, f : Keyed(<<>>, kind, 0, f)
    BY <1>4, <2>1, Zenon DEF Keyed
  <2> QED BY <1>2, <2>2, Zenon DEF Mapped
<1>14. RootsJoined(0)
  <2> DEFINE s == [i \in 1 .. 0 |-> RootsIn[i]]
  <2>1. s = <<>>
    OBVIOUS
  <2> HIDE DEF s
  <2>2. FlattenSeq(s) = <<>>
    BY <1>4, <2>1, Zenon DEF FlattenSeq
  <2> QED BY <1>2, <1>4, <2>2, Zenon DEF RootsJoined, s
<1>15. Framed(0) /\ Rooted(0) /\ Refd(0)
  BY <1>2, <1>4, <1>5, Zenon DEF Framed, Rooted, Refd, RefsAre
<1> QED
  BY <1>3, <1>8, <1>9, <1>10, <1>11, <1>12, <1>13, <1>14, <1>15, Zenon DEF ReadSoFar, Collected

\* A step that leaves the collections alone.
LEMMA CollectedStays ==
  ASSUME NEW n, Collected(n), Written' = Written, opts' = opts,
         \A name \in SnapNames \ {"refs", "warnings", "stats"} : snap'[name] = snap[name],
         \A u \in DOMAIN CounterOf : snap'.stats[CounterOf[u]] = snap.stats[CounterOf[u]]
  PROVE  Collected(n)'
<1>1. /\ snap'.types = snap.types /\ snap'.itabs = snap.itabs /\ snap'.objects = snap.objects
      /\ snap'.globals = snap.globals /\ snap'.goroutines = snap.goroutines
      /\ snap'.data = snap.data /\ snap'.bss = snap.bss /\ snap'.finalizers = snap.finalizers
      /\ snap'.queued = snap.queued /\ snap'.threads = snap.threads
      /\ snap'.profiles = snap.profiles /\ snap'.samples = snap.samples
      /\ snap'.params = snap.params /\ snap'.memStats = snap.memStats
  BY DEF SnapNames
<1>2. /\ ValsIn' = ValsIn /\ SecondsIn' = SecondsIn /\ ObjectsIn' = ObjectsIn
      /\ SegmentsIn' = SegmentsIn /\ FramesIn' = FramesIn
      /\ \A kind : Of(kind)' = Of(kind)
      /\ \A i : RootsAt(i)' = RootsAt(i)
  BY EntriesStay, Zenon
<1>3. \A kind : Found(kind, n)' = Found(kind, n)
  BY <1>2, Zenon DEF Found
<1>4. /\ ParamsKnown(n) /\ LatestStats(n) /\ InLists(n) /\ Mapped(n) /\ Numerous(n)
      /\ Framed(n) /\ RootsJoined(n) /\ Rooted(n)
  BY Zenon DEF Collected
<1>5. ParamsKnown(n)'
  BY <1>1, <1>4, Zenon DEF ParamsKnown, HaveParams, AfterParams, ParamsAt
<1>6. LatestStats(n)'
  <2> DEFINE found == Found(TagMemStats, n)
  <2>1. found' = found
    BY <1>3, Zenon
  <2>2. snap.memStats = IF found = <<>> THEN <<>> ELSE Written[found[Len(found)]].vals
    BY <1>4, Zenon DEF LatestStats
  <2>3. LatestStats(n)' <=>
          snap'.memStats = IF found' = <<>> THEN <<>> ELSE Written'[found'[Len(found')]].vals
    BY Zenon DEF LatestStats
  <2> HIDE DEF found
  <2> QED BY <1>1, <2>1, <2>2, <2>3, Zenon
<1>7. InLists(n)'
  BY <1>1, <1>2, <1>4, Zenon DEF InLists
<1>8. Mapped(n)'
  <2>1. Keyed(snap.types, TagType, n, ValsIn) /\ Keyed(snap.itabs, TagItab, n, SecondsIn)
    BY <1>4, Zenon DEF Mapped
  <2>2. Keyed(snap.types, TagType, n, ValsIn)'
    <3> DEFINE m == snap.types
               f == ValsIn
    <3>1. m' = m /\ f' = f
      BY <1>1, <1>2, Zenon
    <3>2. Keyed(m, TagType, n, f)
      BY <2>1
    <3> HIDE DEF m, f
    <3>3. m' = [x \in DOMAIN m' |-> m'[x]]
      BY <3>1, <3>2, Zenon DEF Keyed
    <3>4. \A x : x \in DOMAIN m' <=>
            \E i \in 1 .. n : Written'[i].tag = TagType /\ Written'[i].vals[1] = x
      BY <3>1, <3>2, Zenon DEF Keyed
    <3>5. \A i \in 1 .. n :
            /\ Written'[i].tag = TagType
            /\ \A j \in i + 1 .. n :
                 Written'[j].tag = TagType => Written'[j].vals[1] # Written'[i].vals[1]
            => m'[Written'[i].vals[1]] = f'[i]
      BY <3>1, <3>2, Zenon DEF Keyed
    <3> QED BY <3>3, <3>4, <3>5, Zenon DEF Keyed, m, f
  <2>3. Keyed(snap.itabs, TagItab, n, SecondsIn)'
    <3> DEFINE m == snap.itabs
               f == SecondsIn
    <3>1. m' = m /\ f' = f
      BY <1>1, <1>2, Zenon
    <3>2. Keyed(m, TagItab, n, f)
      BY <2>1
    <3> HIDE DEF m, f
    <3>3. m' = [x \in DOMAIN m' |-> m'[x]]
      BY <3>1, <3>2, Zenon DEF Keyed
    <3>4. \A x : x \in DOMAIN m' <=>
            \E i \in 1 .. n : Written'[i].tag = TagItab /\ Written'[i].vals[1] = x
      BY <3>1, <3>2, Zenon DEF Keyed
    <3>5. \A i \in 1 .. n :
            /\ Written'[i].tag = TagItab
            /\ \A j \in i + 1 .. n :
                 Written'[j].tag = TagItab => Written'[j].vals[1] # Written'[i].vals[1]
            => m'[Written'[i].vals[1]] = f'[i]
      BY <3>1, <3>2, Zenon DEF Keyed
    <3> QED BY <3>3, <3>4, <3>5, Zenon DEF Keyed, m, f
  <2> QED BY <2>2, <2>3, Zenon DEF Mapped
<1>9. Numerous(n)'
  BY <1>3, <1>4, Zenon DEF Numerous
<1>10. Framed(n)'
  <2>1. \A g : HomeOf(g)' = HomeOf(g)
    BY Zenon DEF HomeOf, Owners
  <2>2. \A r, frames : WithFrames(r, frames)' = WithFrames(r, frames)
    BY Zenon DEF WithFrames
  <2> QED BY <1>1, <1>2, <1>3, <1>4, <2>1, <2>2, Zenon DEF Framed, StackIs
<1>11. RootsJoined(n)'
  <2>1. RootsIn' = RootsIn
    BY <1>2, Zenon DEF RootsIn
  <2> QED BY <1>1, <1>4, <2>1, Zenon DEF RootsJoined
<1>12. Rooted(n)'
  <2>1. /\ \A r : IsSegment(r)' <=> IsSegment(r)
        /\ \A r, root : RootIn(r, root)' <=> RootIn(r, root')
        /\ \A r, f : FieldRoot(r, f)' = FieldRoot(r, f)
        /\ \A r, f : WordPlace(r, f)' = WordPlace(r, f)
        /\ \A r, o : HeldAt(r, o)' = HeldAt(r, o)
    BY SegmentsStay, Zenon
  <2>2. \A r : Sound(r)' <=> Sound(r)
    BY SoundStays, Zenon
  <2> DEFINE c == snap.globals
  <2>3. c' = c
    BY <1>1, Zenon
  <2>4. /\ IsSeq(c)
        /\ \A i \in 1 .. Len(c) : c[i].kind # "otherroot" => \E r \in 1 .. n : IsSegment(r) /\ RootIn(r, c[i])
        /\ \A r \in 1 .. n : IsSegment(r) =>
             \A f \in DOMAIN Written[r].vals[3] :
               Sound(r) /\ HeldAt(r, WordPlace(r, f)) # 0 =>
                 \E i \in 1 .. Len(c) : c[i] = FieldRoot(r, f)
    BY <1>4, Zenon DEF Rooted
  <2> HIDE DEF c
  <2>5. IsSeq(c')
    BY <2>3, <2>4, Zenon
  <2>6. \A i \in 1 .. Len(c') : c'[i].kind # "otherroot" =>
          \E r \in 1 .. n : IsSegment(r)' /\ RootIn(r, c[i])'
    BY <2>1, <2>3, <2>4, Zenon
  <2>7. \A r \in 1 .. n : IsSegment(r)' =>
          \A f \in DOMAIN Written'[r].vals[3] :
            Sound(r)' /\ HeldAt(r, WordPlace(r, f))' # 0 =>
              \E i \in 1 .. Len(c') : c'[i] = FieldRoot(r, f)'
    BY <2>1, <2>2, <2>3, <2>4, Zenon
  <2> QED BY <2>5, <2>6, <2>7, Zenon DEF Rooted, c
<1> QED
  BY <1>5, <1>6, <1>7, <1>8, <1>9, <1>10, <1>11, <1>12, Zenon DEF Collected
-----------------------------------------------------------------------------
(* The inductive invariant                                                  *)

\* The end record, or one of an unknown kind, comes after the first n.
Ended(n) ==
  /\ n \in Nat /\ n + 1 \in 1 .. Count
  /\ \A i \in 1 .. n : dump.records[i].tag \in DOMAIN Shape
  /\ dump.records[n + 1].tag \notin DOMAIN Shape
  /\ Start(dump, n) + Len(EncodeUint(dump.records[n + 1].tag)) <= cut + 1
  /\ dump.records[n + 1].tag # TagEOF => snap.stats["UnknownRecords"] # 0 /\ ~ opts.strict

InOrder(refs) ==
  IsSeq(refs) /\ \A i, j \in 1 .. Len(refs) : i < j => refs[i].addr <= refs[j].addr

\* The snapshot that is returned holds the first n records.
Result(n) ==
  /\ Ended(n) /\ Accepted(n) /\ Collected(n)
  /\ InOrder(snap.refs) /\ (opts.lazy => RefsAre(snap.refs, n))

\* Why a parse fails.
Excused == Faulty \/ Ends = {} \/ cut < Len(Encode(dump))

Starting == status = "header" => snap = EmptySnapshot /\ curG = 0
Reading ==
  status = "records" =>
    dump.header = Header /\ TypedSnap(snap) /\ \E n : AlignedAt(n) /\ ReadSoFar(n)
Returned == status = "ok" => dump.header = Header /\ \E n : Result(n)
Refusing == status = "failed" => Excused

IInv ==
  /\ Given /\ status \in {"header", "records", "ok", "failed", "cancelled"}
  /\ Starting /\ Reading /\ Returned /\ Refusing

LEMMA GivenStays ==
  ASSUME UNCHANGED inputVars
  PROVE  /\ Given' <=> Given
         /\ Excused' <=> Excused
<1>1. dump' = dump /\ cut' = cut /\ file' = file /\ opts' = opts
  BY DEF inputVars
<1>2. Written' = Written /\ Stops' = Stops /\ Ends' = Ends
  BY WrittenStays, Zenon
<1>3. \A i : Sound(i)' <=> Sound(i)
  BY <1>2, SoundStays, Zenon
<1>4. Given' <=> Given
  BY <1>1, Zenon DEF Given
<1>5. Excused' <=> Excused
  BY <1>1, <1>2, <1>3, Zenon DEF Excused, Faulty
<1> QED BY <1>4, <1>5

\* A step that fails, or is cancelled, needs nothing more than its reason.
LEMMA FailedStep ==
  ASSUME Given, UNCHANGED inputVars, status' = "failed", Excused
  PROVE  IInv'
<1>1. Given' /\ Excused'
  BY GivenStays, Zenon
<1>2. status' \in {"header", "records", "ok", "failed", "cancelled"} /\ status' # "header"
      /\ status' # "records" /\ status' # "ok"
  OBVIOUS
<1> QED BY <1>1, <1>2, Zenon DEF IInv, Starting, Reading, Returned, Refusing

LEMMA CancelStep ==
  ASSUME IInv, Cancel
  PROVE  IInv'
<1>1. UNCHANGED inputVars /\ status' = "cancelled"
  BY DEF Cancel
<1>2. Given'
  BY <1>1, GivenStays, Zenon DEF IInv
<1>3. status' \in {"header", "records", "ok", "failed", "cancelled"} /\ status' # "header"
      /\ status' # "records" /\ status' # "ok" /\ status' # "failed"
  BY <1>1
<1> QED BY <1>2, <1>3, Zenon DEF IInv, Starting, Reading, Returned, Refusing

Fresh == snap = EmptySnapshot /\ curG = 0
FreshlyRead == TypedSnap(snap) /\ ReadSoFar(0)

LEMMA FreshIsRead == Fresh => FreshlyRead
BY NothingRead, Zenon DEF Fresh, FreshlyRead

LEMMA HeaderStep ==
  ASSUME IInv, ParseHeader
  PROVE  IInv'
<1> DEFINE line == ReadLine(file, Newline)
           good == line.err = "none" /\ line.val = Header
<1>1. /\ UNCHANGED inputVars /\ status = "header"
      /\ IF good THEN status' = "records" /\ pos' = line.pos /\ UNCHANGED <<snap, curG>> ELSE Fail
  BY DEF ParseHeader
<1>2. Given /\ snap = EmptySnapshot /\ curG = 0
  BY <1>1, Zenon DEF IInv, Starting
<1>3. /\ good => dump.header = Header /\ line.pos = Start(dump, 0) /\ line.pos <= cut + 1
      /\ dump.header = Header /\ cut >= Start(dump, 0) - 1 => good
  BY <1>2, HeaderReads, Zenon
<1> HIDE DEF good, line
<1>4. CASE good
  <2>1. /\ status' = "records" /\ pos' = Start(dump, 0) /\ Start(dump, 0) <= cut + 1
        /\ snap' = EmptySnapshot /\ curG' = 0 /\ dump.header = Header
    BY <1>1, <1>2, <1>3, <1>4
  <2>2. dump' = dump /\ cut' = cut
    BY <1>1 DEF inputVars
  <2>3. TypedSnap(snap)' /\ ReadSoFar(0)'
    <3>1. Fresh'
      BY <2>1, Zenon DEF Fresh
    <3>2. FreshlyRead'
      BY <3>1, FreshIsRead, PTL
    <3> QED BY <3>2, Zenon DEF FreshlyRead
  <2>4. AlignedAt(0)'
    <3>1. Count \in Nat
      BY <1>2, GivenNumbers, Zenon
    <3>2. 0 \in 0 .. Count /\ \A i : i \notin 1 .. 0
      BY <3>1
    <3> QED BY <2>1, <2>2, <3>2, Zenon DEF AlignedAt, Count
  <2>5. Given'
    BY <1>1, <1>2, GivenStays, Zenon
  <2>6. status' \in {"header", "records", "ok", "failed", "cancelled"} /\ status' # "header"
        /\ status' # "failed" /\ status' # "ok"
    BY <2>1
  <2>7. Reading'
    BY <2>1, <2>2, <2>3, <2>4, Zenon DEF Reading
  <2> QED BY <2>5, <2>6, <2>7, Zenon DEF IInv, Starting, Returned, Refusing
<1>5. CASE ~ good
  <2>1. status' = "failed"
    BY <1>1, <1>5 DEF Fail
  <2>2. dump.header # Header \/ cut < Len(Encode(dump))
    <3> SUFFICES ASSUME dump.header = Header PROVE cut < Len(Encode(dump))
      OBVIOUS
    <3> DEFINE first == Start(dump, 0)
               last == Start(dump, Count)
    <3>1. /\ Count \in Nat /\ cut \in Nat /\ last = Len(Encode(dump)) + 1
          /\ Len(Encode(dump)) \in Nat
      BY <1>2, GivenNumbers, Zenon
    <3>2. 0 \in 0 .. Count /\ Count \in 0 .. Count /\ 0 <= Count
      BY <3>1
    <3>3. first \in Nat /\ first <= last
      <4>1. \A n \in 0 .. Count : Start(dump, n) \in Nat \ {0}
        BY <1>2, GivenNumbers, Zenon
      <4>2. first <= last
        <5>1. dump \in Dumps
          BY <1>2, Zenon DEF Given
        <5> QED BY <5>1, <3>2, RecordPlaces, Zenon DEF Count
      <4> HIDE DEF last
      <4> QED BY <3>2, <4>1, <4>2
    <3>4. ~ (cut >= first - 1)
      BY <1>3, <1>5, Zenon
    <3> HIDE DEF first, last
    <3> QED BY <3>1, <3>3, <3>4
  <2>3. Excused
    BY <2>2, Zenon DEF Excused, Faulty
  <2> QED BY <1>1, <1>2, <2>1, <2>3, FailedStep, Zenon
<1> QED BY <1>4, <1>5
-----------------------------------------------------------------------------
(* The end of the records                                                   *)

\* The same elements, by address.
LEMMA SortedRefs ==
  ASSUME NEW s, IsSeq(s), NEW t \in SortedOrders(s)
  PROVE  /\ InOrder(t)
         /\ \A i \in 1 .. Len(t) : \E j \in 1 .. Len(s) : t[i] = s[j]
         /\ \A j \in 1 .. Len(s) : \E i \in 1 .. Len(t) : t[i] = s[j]
<1>1. PICK o \in Bijection(DOMAIN s, DOMAIN s) :
        /\ \A i, j \in DOMAIN s : i < j => s[o[i]].addr <= s[o[j]].addr
        /\ t = [i \in DOMAIN s |-> s[o[i]]]
  BY DEF SortedOrders
<1>2. DOMAIN s = 1 .. Len(s) /\ Len(s) \in Nat
  BY DEF IsSeq
<1> DEFINE D == 1 .. Len(s)
<1>3. /\ \A i \in D : o[i] \in D
      /\ \A j \in D : \E i \in D : o[i] = j
  <2>1. o \in Bijection(D, D)
    BY <1>2
  <2> HIDE DEF D
  <2> QED BY <2>1 DEF Bijection, Injection, Surjection, IsInjective
<1>4. t = [i \in D |-> s[o[i]]]
  BY <1>1, <1>2
<1>5. Len(t) = Len(s) /\ DOMAIN t = D /\ \A i \in D : t[i] = s[o[i]]
  BY <1>2, <1>4
<1>6. IsSeq(t)
  BY <1>2, <1>4, <1>5 DEF IsSeq
<1>7. \A i, j \in D : i < j => t[i].addr <= t[j].addr
  BY <1>1, <1>2, <1>5
<1> HIDE DEF D
<1>8. InOrder(t)
  BY <1>5, <1>6, <1>7, Zenon DEF InOrder, D
<1>9. \A i \in D : \E j \in D : t[i] = s[j]
  BY <1>3, <1>5, Zenon
<1>10. \A j \in D : \E i \in D : t[i] = s[j]
  <2> TAKE j \in D
  <2>1. PICK i \in D : o[i] = j
    BY <1>3
  <2>2. t[i] = s[j]
    BY <1>5, <2>1
  <2> QED BY <2>2
<1>11. 1 .. Len(t) = D /\ 1 .. Len(s) = D
  BY <1>5, Zenon DEF D
<1> QED BY <1>8, <1>9, <1>10, <1>11, Zenon

LEMMA SortedStillRefer ==
  ASSUME NEW s, IsSeq(s), NEW t \in SortedOrders(s), NEW n, RefsAre(s, n)
  PROVE  RefsAre(t, n)
<1>1. /\ \A i \in 1 .. Len(t) : \E j \in 1 .. Len(s) : t[i] = s[j]
      /\ \A j \in 1 .. Len(s) : \E i \in 1 .. Len(t) : t[i] = s[j]
  BY SortedRefs, Zenon
<1>2. \A i \in 1 .. Len(t) : \E r \in 1 .. n : IsFull(r) /\ RefersTo(t[i], r)
  BY <1>1, Zenon DEF RefsAre
<1>3. \A r \in 1 .. n : IsFull(r) => \E i \in 1 .. Len(t) : RefersTo(t[i], r)
  BY <1>1, Zenon DEF RefsAre
<1> QED BY <1>2, <1>3, Zenon DEF RefsAre

\* A parser at the end of what arrived.
LEMMA CutOff ==
  ASSUME Given, NEW n, AlignedAt(n), ~ (n + 1 \in 1 .. Count /\ Start(dump, n + 1) <= cut + 1)
  PROVE  Ends = {} \/ cut < Len(Encode(dump))
<1>1. /\ Count \in Nat /\ cut \in Nat /\ Start(dump, Count) = Len(Encode(dump)) + 1
      /\ Len(Encode(dump)) \in Nat /\ \A k \in 0 .. Count : Start(dump, k) \in Nat \ {0}
  BY GivenNumbers, Zenon
<1>2. n \in 0 .. Count /\ \A i \in 1 .. n : dump.records[i].tag \in DOMAIN Shape
  BY DEF AlignedAt
<1>3. CASE n = Count
  <2>1. DOMAIN dump.records = 1 .. n
    BY <1>3, WrittenDumps, Zenon DEF Given, Count
  <2>2. TagEOF \notin DOMAIN Shape
    BY ShapesAreNames DEF TagEOF
  <2>3. Ends = {}
    BY <1>2, <2>1, <2>2 DEF Ends
  <2> QED BY <2>3
<1>4. CASE n # Count
  <2> DEFINE k == n + 1
  <2>1. k \in 0 .. Count /\ k \in 1 .. Count /\ Count \in 0 .. Count /\ k <= Count
    BY <1>1, <1>2, <1>4
  <2>2. ~ (k \in 1 .. Count /\ Start(dump, k) <= cut + 1)
    OBVIOUS
  <2> HIDE DEF k
  <2>3. dump \in Dumps
    BY DEF Given
  <2>4. Start(dump, k) <= Start(dump, Count)
    BY <2>1, <2>3, RecordPlaces, Zenon DEF Count
  <2>5. Start(dump, k) \in Nat /\ ~ (Start(dump, k) <= cut + 1)
    BY <1>1, <2>1, <2>2
  <2> QED BY <1>1, <2>4, <2>5
<1> QED BY <1>3, <1>4

LEMMA NoTagStep ==
  ASSUME IInv, NoTag
  PROVE  IInv'
<1>1. /\ status = "records" /\ Tag.err # "none" /\ UNCHANGED inputVars /\ status' = "failed"
  BY DEF NoTag, Fail
<1>2. Given /\ \E n : AlignedAt(n)
  BY <1>1, Zenon DEF IInv, Reading
<1>3. PICK n : AlignedAt(n)
  BY <1>2
<1>4. ~ (n + 1 \in 1 .. Count /\ Start(dump, n + 1) <= cut + 1)
  BY <1>1, <1>2, <1>3, TagReads, Zenon
<1>5. Excused
  BY <1>2, <1>3, <1>4, CutOff, Zenon DEF Excused
<1> QED BY <1>1, <1>2, <1>5, FailedStep, Zenon

\* The snapshot is returned: its references are sorted, the rest of it stays.
LEMMA ReturnStep ==
  ASSUME Given, UNCHANGED inputVars, status' = "ok", dump.header = Header,
         NEW n, AlignedAt(n), ReadSoFar(n), Tag.err = "none", Tag.val \notin DOMAIN Shape,
         \A name \in SnapNames \ {"refs", "warnings", "stats"} : snap'[name] = snap[name],
         \A u \in DOMAIN CounterOf : snap'.stats[CounterOf[u]] = snap.stats[CounterOf[u]],
         snap'.refs \in SortedOrders(snap.refs),
         opts.strict => snap'.warnings = snap.warnings,
         Tag.val # TagEOF => snap'.stats["UnknownRecords"] # 0 /\ ~ opts.strict
  PROVE  IInv'
<1>1. dump' = dump /\ cut' = cut /\ opts' = opts /\ Written' = Written
  BY WrittenStays, Zenon DEF inputVars
<1>2. /\ n + 1 \in 1 .. Count /\ Tag.val = dump.records[n + 1].tag
      /\ Tag.pos = Start(dump, n) + Len(EncodeUint(dump.records[n + 1].tag))
      /\ Tag.pos <= cut + 1
  BY TagReads, Zenon
<1>3. n \in Nat /\ \A i \in 1 .. n : dump.records[i].tag \in DOMAIN Shape
  BY DEF AlignedAt
<1>4. Ended(n)'
  <2>1. Start(dump, n) + Len(EncodeUint(dump.records[n + 1].tag)) <= cut + 1
    BY <1>2, Zenon
  <2>2. dump.records[n + 1].tag # TagEOF => snap'.stats["UnknownRecords"] # 0 /\ ~ opts.strict
    BY <1>2, Zenon
  <2>3. dump.records[n + 1].tag \notin DOMAIN Shape
    BY <1>2, Zenon
  <2> QED BY <1>1, <1>2, <1>3, <2>1, <2>2, <2>3, Zenon DEF Ended, Count
<1>5. Accepted(n)'
  <2>1. \A i : Sound(i)' <=> Sound(i)
    BY <1>1, SoundStays, Zenon
  <2> QED BY <1>1, <2>1, Zenon DEF ReadSoFar, Accepted
<1>6. Collected(n)'
  BY <1>1, CollectedStays, Zenon DEF ReadSoFar
<1>7. IsSeq(snap.refs) /\ (opts.lazy => RefsAre(snap.refs, n))
  BY Zenon DEF ReadSoFar, Refd
<1>8. InOrder(snap'.refs) /\ (opts.lazy => RefsAre(snap'.refs, n))
  BY <1>7, SortedRefs, SortedStillRefer, Zenon
<1>9. (opts.lazy => RefsAre(snap.refs, n))' /\ InOrder(snap.refs)'
  <2>1. file' = file
    BY DEF inputVars
  <2>2. \A r : IsFull(r)' <=> IsFull(r)
    BY <1>1, Zenon DEF IsFull
  <2>3. \A ref, r : RefersTo(ref, r)' <=> RefersTo(ref, r)
    BY <1>1, <2>1, Zenon DEF RefersTo, Delivered
  <2> QED BY <1>1, <1>8, <2>2, <2>3, Zenon DEF RefsAre
<1>10. Result(n)'
  BY <1>4, <1>5, <1>6, <1>9, Zenon DEF Result
<1>11. Returned'
  BY <1>1, <1>10, Zenon DEF Returned
<1>12. Given'
  BY GivenStays, Zenon
<1>13. status' \in {"header", "records", "ok", "failed", "cancelled"} /\ status' # "header"
      /\ status' # "records" /\ status' # "failed"
  OBVIOUS
<1> QED BY <1>11, <1>12, <1>13, Zenon DEF IInv, Starting, Reading, Refusing

LEMMA FinishStep ==
  ASSUME IInv, Finish
  PROVE  IInv'
<1>1. /\ status = "records" /\ Tag.err = "none" /\ Tag.val = TagEOF
      /\ UNCHANGED inputVars /\ status' = "ok"
  BY DEF Finish, At, Tagged
<1>2. PICK sorted \in SortedOrders(snap.refs) : snap' = [snap EXCEPT !.refs = sorted]
  BY Zenon DEF Finish
<1>3. Given /\ dump.header = Header /\ TypedSnap(snap) /\ \E n : AlignedAt(n) /\ ReadSoFar(n)
  BY <1>1, Zenon DEF IInv, Reading
<1>4. PICK n : AlignedAt(n) /\ ReadSoFar(n)
  BY <1>3
<1>5. DOMAIN snap = SnapNames
  BY <1>3, Zenon DEF TypedSnap
<1>6. /\ snap'.refs = sorted /\ snap'.warnings = snap.warnings
      /\ \A name \in SnapNames \ {"refs", "warnings", "stats"} : snap'[name] = snap[name]
  <2>1. "refs" \in SnapNames /\ "warnings" \in SnapNames
    BY DEF SnapNames
  <2> QED BY <1>2, <1>5, <2>1
<1>7. snap'.refs \in SortedOrders(snap.refs)
  BY <1>2, <1>6, Zenon
<1>10. \A u \in DOMAIN CounterOf : snap'.stats[CounterOf[u]] = snap.stats[CounterOf[u]]
  <2>1. "stats" \in SnapNames
    BY DEF SnapNames
  <2>2. snap'.stats = snap.stats
    BY <1>2, <1>5, <2>1
  <2> QED BY <2>2, Zenon
<1>8. Tag.val \notin DOMAIN Shape
  BY <1>1, ShapesAreNames DEF TagEOF
<1>9. Tag.val # TagEOF => snap'.stats["UnknownRecords"] # 0 /\ ~ opts.strict
  BY <1>1, Zenon
<1> QED BY <1>1, <1>3, <1>4, <1>6, <1>7, <1>8, <1>9, <1>10, ReturnStep, Zenon

LEMMA UnknownStep ==
  ASSUME IInv, UnknownRecord
  PROVE  IInv'
<1> DEFINE one == [UnknownRecords |-> 1]
<1>1. /\ status = "records" /\ Tag.err = "none" /\ Tag.val \notin DOMAIN Shape /\ Tag.val # TagEOF
      /\ UNCHANGED inputVars
  BY DEF UnknownRecord
<1>2. IF Tolerated(1)
      THEN /\ \E sorted \in SortedOrders(snap.refs) :
                snap' = Counted(Noted([snap EXCEPT !.refs = sorted], 1), one)
           /\ status' = "ok"
      ELSE Fail
  BY Zenon DEF UnknownRecord
<1>3. Given /\ dump.header = Header /\ TypedSnap(snap) /\ \E n : AlignedAt(n) /\ ReadSoFar(n)
  BY <1>1, Zenon DEF IInv, Reading
<1>4. PICK n : AlignedAt(n) /\ ReadSoFar(n)
  BY <1>3
<1>5. CASE Tolerated(1)
  <2>1. ~ opts.strict
    BY <1>5 DEF Tolerated
  <2>2. status' = "ok"
    BY <1>2, <1>5
  <2>3. PICK sorted \in SortedOrders(snap.refs) :
          snap' = Counted(Noted([snap EXCEPT !.refs = sorted], 1), one)
    BY <1>2, <1>5, Zenon
  <2> DEFINE t == [snap EXCEPT !.refs = sorted]
             u == [t EXCEPT !.warnings = @ + 1]
  <2>4. DOMAIN snap = SnapNames /\ snap.stats["UnknownRecords"] = 0
    BY <1>3, Zenon DEF TypedSnap
  <2>5. /\ DOMAIN u = SnapNames /\ u.refs = sorted /\ u.stats = snap.stats
        /\ \A name \in SnapNames \ {"refs", "warnings", "stats"} : u[name] = snap[name]
    <3>1. {"refs", "warnings", "stats"} \subseteq SnapNames
      BY DEF SnapNames
    <3> QED BY <2>4, <3>1
  <2>6. snap' = [u EXCEPT !.stats = [name \in StatNames |->
                   u.stats[name] + IF name \in DOMAIN one THEN one[name] ELSE 0]]
    <3>1. snap' = Counted(u, one)
      BY <2>3, Zenon DEF Noted
    <3> HIDE DEF u, one
    <3> QED BY <3>1 DEF Counted
  <2> HIDE DEF u
  <2>7. /\ snap'.refs = sorted /\ snap'.stats["UnknownRecords"] # 0
        /\ \A name \in SnapNames \ {"refs", "warnings", "stats"} : snap'[name] = snap[name]
    <3>1. {"refs", "warnings", "stats"} \subseteq SnapNames
      BY DEF SnapNames
    <3>2. "UnknownRecords" \in StatNames
      BY DEF StatNames
    <3>3. snap'.refs = sorted
          /\ \A name \in SnapNames \ {"refs", "warnings", "stats"} : snap'[name] = snap[name]
      <4> HIDE DEF one
      <4> QED BY <2>5, <2>6, <3>1
    <3>4. snap'.stats = [name \in StatNames |->
                           u.stats[name] + IF name \in DOMAIN one THEN one[name] ELSE 0]
      <4> HIDE DEF one
      <4> QED BY <2>5, <2>6, <3>1
    <3>5. snap'.stats["UnknownRecords"] = 0 + 1
      BY <3>2, <3>4, <2>4, <2>5
    <3> QED BY <3>3, <3>5
  <2>9. \A i \in DOMAIN CounterOf : snap'.stats[CounterOf[i]] = snap.stats[CounterOf[i]]
    <3>1. snap'.stats = [name \in StatNames |->
                           u.stats[name] + IF name \in DOMAIN one THEN one[name] ELSE 0]
      <4>1. {"refs", "warnings", "stats"} \subseteq SnapNames
        BY DEF SnapNames
      <4> HIDE DEF one
      <4> QED BY <2>5, <2>6, <4>1
    <3>2. DOMAIN one = {"UnknownRecords"}
      OBVIOUS
    <3> HIDE DEF one
    <3> TAKE i \in DOMAIN CounterOf
    <3> DEFINE name == CounterOf[i]
    <3>3. name \in StatNames /\ name # "UnknownRecords" /\ snap.stats[name] \in Nat
      BY <1>3, CountersAreStats, CountersAreOthers, Zenon DEF TypedSnap, TallyOk
    <3> HIDE DEF name
    <3>4. snap'.stats[name] = u.stats[name] + 0
      BY <3>1, <3>2, <3>3
    <3>5. snap'.stats[name] = snap.stats[name]
      BY <2>5, <3>3, <3>4
    <3> QED BY <3>5, Zenon DEF name
  <2>8. snap'.refs \in SortedOrders(snap.refs)
    BY <2>3, <2>7, Zenon
  <2> QED BY <1>1, <1>3, <1>4, <2>1, <2>2, <2>7, <2>8, <2>9, ReturnStep, Zenon
<1>6. CASE ~ Tolerated(1)
  <2>1. status' = "failed"
    BY <1>2, <1>6 DEF Fail
  <2>2. n + 1 \in 1 .. Count /\ Tag.val = dump.records[n + 1].tag
    BY <1>1, <1>3, <1>4, TagReads, Zenon
  <2>3. n \in 0 .. Count /\ \A i \in 1 .. n : dump.records[i].tag \in DOMAIN Shape
    BY <1>4, Zenon DEF AlignedAt
  <2>4. n + 1 <= Count
    BY <2>2
  <2>5. Stops # {} /\ Min(Stops) = n + 1
    <3>1. dump.records[n + 1].tag \notin DOMAIN Shape
      BY <1>1, <2>2, Zenon
    <3> QED BY <1>3, <2>3, <2>4, <3>1, WrittenPrefix, Zenon
  <2>6. Stops # {} /\ dump.records[Min(Stops)].tag # TagEOF
    BY <1>1, <2>2, <2>5, Zenon
  <2>7. Excused
    BY <2>6, Zenon DEF Excused, Faulty
  <2> QED BY <1>1, <1>3, <2>1, <2>7, FailedStep, Zenon
<1> QED BY <1>5, <1>6

\* A record is taken, or it is refused for what the writer did or for what is missing.
LEMMA RecordStep ==
  ASSUME IInv, status = "records", NEW tag \in 1 .. 17, NEW record \in RecordAt(tag),
         ParseStep(tag, record)
  PROVE  IInv'
<1> DEFINE v == record.val
<1>1. /\ UNCHANGED inputVars
      /\ IF record.err # "none" \/ Refused(tag, v) THEN Fail
         ELSE /\ Parsed(tag, v, snap') /\ pos' = record.pos /\ curG' = NextG(tag)
              /\ UNCHANGED status
  BY Zenon DEF ParseStep
<1>2. Given /\ dump.header = Header /\ TypedSnap(snap) /\ \E n : AlignedAt(n) /\ ReadSoFar(n)
  BY Zenon DEF IInv, Reading
<1>3. PICK n : AlignedAt(n) /\ ReadSoFar(n)
  BY <1>2
<1> DEFINE k == n + 1
<1>4. n \in Nat /\ k <= Len(Written) /\ IsSeq(Written) /\ Written[k].tag = tag
  BY <1>2, <1>3, ReadPrefix, Zenon
<1>5. k \in DOMAIN Written
  <2>1. DOMAIN Written = 1 .. Len(Written) /\ Len(Written) \in Nat
    BY <1>4, Zenon DEF IsSeq
  <2> QED BY <1>4, <2>1
<1>6. ParamsKnown(n) /\ Section(n)
  BY <1>3, Zenon DEF ReadSoFar, Collected
<1>7. record.err = "none" => Came(tag, v, Written[k].vals)
  BY <1>2, <1>3, ReadPrefix, RecordCame, Zenon
<1> HIDE DEF v
<1>8. CASE record.err = "none" /\ ~ Refused(tag, v)
  <2>1. Advanced(n, tag, v)
    BY <1>2, <1>3, <1>8, Succeeds, Zenon DEF v
  <2>2. ReadSoFar(k)'
    BY <1>3, <2>1, ReadSoFarStep, Zenon
  <2>3. /\ AlignedAt(k)' /\ Parsed(tag, v, snap') /\ status' = status /\ PartsAreSound(Written[k])
        /\ Given'
    <3>1. Given'
      BY <1>1, <1>2, GivenStays, Zenon
    <3> QED BY <2>1, <3>1, Zenon DEF Advanced
  <2>4. WarningsOf(tag, v) \in Nat
    BY <1>4, <1>6, <1>7, <1>8, <2>3, SoundRecord, Zenon
  <2>5. TypedSnap(snap)'
    <3>1. DOMAIN snap' = SnapNames /\ snap'.warnings = snap.warnings + WarningsOf(tag, v)
          /\ snap'.stats["UnknownRecords"] = snap.stats["UnknownRecords"]
      BY <2>3, Zenon DEF Parsed
    <3>2. snap.warnings \in Nat /\ snap.stats["UnknownRecords"] = 0 /\ TallyOk(snap)
      BY <1>2, Zenon DEF TypedSnap
    <3>5. TallyOk(snap')
      <4>1. Tallied(snap, snap', tag)
        BY <2>3, Zenon DEF Parsed
      <4> SUFFICES ASSUME NEW u \in DOMAIN CounterOf PROVE snap'.stats[CounterOf[u]] \in Nat
        BY Zenon DEF TallyOk
      <4>2. /\ snap'.stats[CounterOf[u]] = snap.stats[CounterOf[u]] + (IF u = tag THEN 1 ELSE 0)
            /\ snap.stats[CounterOf[u]] \in Nat
        BY <3>2, <4>1, Zenon DEF Tallied, TallyOk
      <4> QED BY <4>2
    <3> DEFINE a == snap.warnings
               b == WarningsOf(tag, v)
    <3>3. snap'.warnings = a + b
      BY <3>1, Zenon
    <3>4. a + b \in Nat
      <4>1. a \in Nat /\ b \in Nat
        BY <2>4, <3>2, Zenon
      <4> HIDE DEF a, b
      <4> QED BY <4>1
    <3> QED BY <3>1, <3>2, <3>3, <3>4, <3>5, Zenon DEF TypedSnap
  <2>6. dump' = dump
    BY <1>1 DEF inputVars
  <2>7. Reading'
    BY <1>2, <2>2, <2>3, <2>5, <2>6, Zenon DEF Reading
  <2>8. status' \in {"header", "records", "ok", "failed", "cancelled"} /\ status' # "header"
        /\ status' # "failed" /\ status' # "ok"
    BY <2>3
  <2> QED BY <2>3, <2>7, <2>8, Zenon DEF IInv, Starting, Returned, Refusing
<1>9. CASE record.err # "none" \/ Refused(tag, v)
  <2>1. status' = "failed"
    BY <1>1, <1>9 DEF Fail
  <2>2. cut < Len(Encode(dump)) \/ ~ Sound(k)
    <3>1. ~ PartsAreSound(Written[k]) => ~ Sound(k)
      BY Zenon DEF PartsAreSound, Sound
    <3>2. CASE record.err # "none"
      <4>1. cut < Len(Encode(dump)) \/ ~ PartsAreSound(Written[k])
        BY <1>2, <1>3, <3>2, Unread, Zenon
      <4> QED BY <3>1, <4>1
    <3>3. CASE record.err = "none"
      <4>1. PartsAreSound(Written[k]) => (Sound(k) => ~ Refused(tag, v))
        BY <1>4, <1>6, <1>7, <3>3, SoundRecord, Zenon
      <4> QED BY <1>9, <3>1, <3>3, <4>1, Zenon
    <3> QED BY <3>2, <3>3
  <2>3. Excused
    BY <1>5, <2>2, Zenon DEF Excused, Faulty
  <2> QED BY <1>1, <1>2, <2>1, <2>3, FailedStep, Zenon
<1> QED BY <1>8, <1>9

\* Nothing changes when nothing changes.
LEMMA StutterStep ==
  ASSUME IInv, UNCHANGED vars
  PROVE  IInv'
<1>1. /\ dump' = dump /\ cut' = cut /\ file' = file /\ opts' = opts /\ status' = status
      /\ pos' = pos /\ snap' = snap /\ curG' = curG
  BY DEF vars
<1>2. UNCHANGED inputVars
  BY <1>1 DEF inputVars
<1>3. Written' = Written
  BY <1>2, WrittenStays, Zenon
<1>4. (Given' <=> Given) /\ (Excused' <=> Excused)
  BY <1>2, GivenStays, Zenon
<1>5. \A i : Sound(i)' <=> Sound(i)
  BY <1>3, SoundStays, Zenon
<1>6. \A n : Collected(n) => Collected(n)'
  BY <1>1, <1>3, CollectedStays, Zenon
<1>7. \A n : Accepted(n) => Accepted(n)'
  BY <1>1, <1>5, Zenon DEF Accepted
<1>8. (\A r : IsFull(r)' <=> IsFull(r)) /\ \A ref, r : RefersTo(ref, r)' <=> RefersTo(ref, r)
  <2>1. file' = file
    BY <1>1
  <2>2. \A r : IsFull(r)' <=> IsFull(r)
    BY <1>3, Zenon DEF IsFull
  <2>3. \A ref, r : RefersTo(ref, r)' <=> RefersTo(ref, r)
    BY <1>3, <2>1, Zenon DEF RefersTo, Delivered
  <2> QED BY <2>2, <2>3
<1>9. \A n : RefsAre(snap.refs, n) => RefsAre(snap.refs, n)'
  BY <1>1, <1>8, Zenon DEF RefsAre
<1>10. \A n : ReadSoFar(n) => ReadSoFar(n)'
  <2> SUFFICES ASSUME NEW n, ReadSoFar(n) PROVE ReadSoFar(n)'
    OBVIOUS
  <2>2. Section(n)'
    BY <1>1, <1>3, Zenon DEF ReadSoFar, Section, Owners, Found, Of
  <2>3. Refd(n)'
    BY <1>1, <1>9, Zenon DEF ReadSoFar, Refd
  <2>4. Accepted(n)' /\ Collected(n)'
    BY <1>6, <1>7, Zenon DEF ReadSoFar
  <2> QED BY <2>2, <2>3, <2>4, Zenon DEF ReadSoFar
<1>11. Reading => Reading'
  <2>1. \A n : AlignedAt(n) => AlignedAt(n)'
    BY <1>1, Zenon DEF AlignedAt, Count
  <2> QED BY <1>1, <1>10, <2>1, Zenon DEF Reading, TypedSnap, TallyOk
<1>12. Returned => Returned'
  <2>1. \A n : Ended(n) => Ended(n)'
    BY <1>1, Zenon DEF Ended, Count
  <2>2. InOrder(snap.refs)' <=> InOrder(snap.refs)
    BY <1>1, Zenon
  <2>3. \A n : Result(n) => Result(n)'
    BY <1>1, <1>6, <1>7, <1>9, <2>1, <2>2, Zenon DEF Result
  <2> QED BY <1>1, <2>3, Zenon DEF Returned
<1> QED BY <1>1, <1>4, <1>11, <1>12, Zenon DEF IInv, Starting, Refusing

LEMMA NextStep ==
  ASSUME IInv, Next
  PROVE  IInv'
<1>1. CASE status = "records"
  <2>1. TypedSnap(snap)
    BY <1>1, Zenon DEF IInv, Reading
  <2>2. \/ Cancel \/ ParseHeader \/ NoTag \/ UnknownRecord \/ Finish
        \/ \E tag \in 1 .. 17 : \E record \in RecordAt(tag) : ParseStep(tag, record)
    BY <2>1, StepsOfNext, Zenon
  <2> QED
    BY <1>1, <2>2, CancelStep, HeaderStep, NoTagStep, UnknownStep, FinishStep, RecordStep, Zenon
<1>2. CASE status # "records"
  <2>1. Cancel \/ ParseHeader
    BY <1>2, StoppedSteps, Zenon
  <2> QED BY <2>1, CancelStep, HeaderStep, Zenon
<1> QED BY <1>1, <1>2

\* A run of the parser holds, at every moment, what its invariant says: while
\* it reads, the snapshot is that of the records so far, in the file as in the
\* dump; what it returns is the snapshot of the records before the one it stopped
\* at; and it fails only for a reason (parser.go: parseRecords).
THEOREM Invariant == Spec => []IInv
<1>1. Init => IInv
  <2> SUFFICES ASSUME Init PROVE IInv
    OBVIOUS
  <2>1. /\ dump \in Dumps /\ cut \in 0 .. Len(Encode(dump))
        /\ file = SubSeq(Encode(dump), 1, cut) /\ opts \in OptionSets
        /\ status = "header" /\ snap = EmptySnapshot /\ curG = 0
    BY Zenon DEF Init
  <2>2. Given
    BY <2>1, Zenon DEF Given
  <2>3. status \in {"header", "records", "ok", "failed", "cancelled"} /\ status # "records"
        /\ status # "failed" /\ status # "ok"
    BY <2>1
  <2> QED BY <2>1, <2>2, <2>3, Zenon DEF IInv, Starting, Reading, Returned, Refusing
<1>2. IInv /\ [Next]_vars => IInv'
  BY NextStep, StutterStep, Zenon
<1> QED BY <1>1, <1>2, PTL DEF Spec

\* A dump a correct runtime wrote, and that arrived whole, is never refused
\* (parser.go: parseRecords returns the snapshot at the end record).
THEOREM WholeAccepted == Spec => []WholeDumpsAreAccepted
<1>1. IInv => WholeDumpsAreAccepted
  BY Zenon DEF IInv, Refusing, Excused, WholeDumpsAreAccepted
<1> QED BY <1>1, Invariant, PTL
-----------------------------------------------------------------------------
(* What is returned                                                         *)

\* All the records that count have been read.
LEMMA ReturnedWhole ==
  ASSUME IInv, status = "ok"
  PROVE  /\ Given /\ dump.header = Header /\ Result(Len(Written))
         /\ IsSeq(Written) /\ Len(Written) \in Nat /\ DOMAIN Written = 1 .. Len(Written)
         /\ Stops # {} /\ Min(Stops) = Len(Written) + 1
<1>1. Given /\ dump.header = Header /\ \E n : Result(n)
  BY Zenon DEF IInv, Returned
<1>2. PICK n : Result(n)
  BY <1>1
<1>3. /\ n \in Nat /\ n + 1 \in 1 .. Count /\ \A i \in 1 .. n : dump.records[i].tag \in DOMAIN Shape
      /\ dump.records[n + 1].tag \notin DOMAIN Shape
  BY <1>2, Zenon DEF Result, Ended
<1>4. Count \in Nat
  BY <1>1, GivenNumbers, Zenon
<1>5. n \in 0 .. Count /\ n + 1 <= Count
  BY <1>3, <1>4
<1>6. IsSeq(Written) /\ Len(Written) = n /\ Stops # {} /\ Min(Stops) = n + 1
  BY <1>1, <1>3, <1>5, WrittenPrefix, Zenon
<1>7. DOMAIN Written = 1 .. Len(Written)
  BY <1>6 DEF IsSeq
<1>8. Result(Len(Written)) /\ Len(Written) \in Nat /\ Min(Stops) = Len(Written) + 1
  BY <1>2, <1>3, <1>6, Zenon
<1> QED BY <1>1, <1>6, <1>7, <1>8, Zenon

\* A sequence that follows records is the one made of them.
LEMMA FollowedIs ==
  ASSUME NEW s, NEW N, NEW n \in Nat, NEW f, Follows(s, N, n, f)
  PROVE  /\ s = [i \in DOMAIN Numbers(N, n) |-> f[Numbers(N, n)[i]]]
         /\ DOMAIN Numbers(N, n) = 1 .. Len(Numbers(N, n)) /\ Len(Numbers(N, n)) \in Nat
         /\ \A i \in DOMAIN Numbers(N, n) : Numbers(N, n)[i] \in N /\ Numbers(N, n)[i] \in 1 .. n
<1> DEFINE c == Numbers(N, n)
<1>1. /\ IsSeq(c) /\ \A i \in 1 .. Len(c) : c[i] \in N /\ c[i] \in 1 .. n
  BY NumbersList, Zenon DEF Lists
<1>2. IsSeq(s) /\ Len(s) = Len(c) /\ \A i \in 1 .. Len(s) : s[i] = f[c[i]]
  BY Zenon DEF Follows
<1> HIDE DEF c
<1>3. /\ DOMAIN c = 1 .. Len(c) /\ Len(c) \in Nat /\ s = [i \in 1 .. Len(s) |-> s[i]]
  BY <1>1, <1>2 DEF IsSeq
<1>4. s = [i \in DOMAIN c |-> f[c[i]]]
  BY <1>2, <1>3
<1> QED BY <1>1, <1>3, <1>4, Zenon DEF c

\* The values of the records of a kind, and the numbers of those records.
Numbered(tag) ==
  LET found == Found(tag, Len(Written))
  IN /\ ValsOf(tag) = [i \in DOMAIN found |-> Written[found[i]].vals]
     /\ DOMAIN ValsOf(tag) = 1 .. Len(found) /\ Len(ValsOf(tag)) = Len(found)
     /\ \A i \in 1 .. Len(found) : found[i] \in DOMAIN Written /\ Written[found[i]].tag = tag
     /\ \A k \in DOMAIN Written :
          Written[k].tag = tag => \E i \in 1 .. Len(found) : found[i] = k

LEMMA ValsOfRecords ==
  ASSUME IsSeq(Written), NEW tag
  PROVE  Numbered(tag)
<1> DEFINE found == Found(tag, Len(Written))
<1>1. Len(Written) \in Nat /\ DOMAIN Written = 1 .. Len(Written)
  BY DEF IsSeq
<1>2. Lists(found, Of(tag), Len(Written))
  BY <1>1, NumbersList, Zenon DEF Found
<1>3. ValsOf(tag) = [i \in DOMAIN found |-> Written[found[i]].vals]
  BY Zenon DEF ValsOf, RecordsOf, Found, Of
<1> HIDE DEF found
<1>4. /\ IsSeq(found) /\ \A i \in 1 .. Len(found) : found[i] \in Of(tag)
      /\ \A k \in 1 .. Len(Written) : k \in Of(tag) => \E i \in 1 .. Len(found) : found[i] = k
  BY <1>2, Zenon DEF Lists
<1>5. DOMAIN found = 1 .. Len(found) /\ Len(found) \in Nat
  BY <1>4 DEF IsSeq
<1>6. DOMAIN ValsOf(tag) = 1 .. Len(found)
  BY <1>3, <1>5
<1>7. Len(ValsOf(tag)) = Len(found)
  BY <1>5, <1>6
<1>8. \A i \in 1 .. Len(found) : found[i] \in DOMAIN Written /\ Written[found[i]].tag = tag
  BY <1>4 DEF Of
<1>9. \A k \in DOMAIN Written :
        Written[k].tag = tag => \E i \in 1 .. Len(found) : found[i] = k
  BY <1>1, <1>4, Zenon DEF Of
<1> QED BY <1>3, <1>6, <1>7, <1>8, <1>9, Zenon DEF Numbered, found

\* What follows the records of a kind is made of them.
LEMMA FollowsRecords ==
  ASSUME IsSeq(Written), NEW tag, NEW s, NEW f, Follows(s, Of(tag), Len(Written), f)
  PROVE  /\ s = [i \in DOMAIN RecordsOf(tag) |-> f[RecordsOf(tag)[i]]]
         /\ \A i \in DOMAIN RecordsOf(tag) : RecordsOf(tag)[i] \in DOMAIN Written
<1> DEFINE N == Of(tag)
           n == Len(Written)
<1>1. n \in Nat /\ DOMAIN Written = 1 .. n /\ Follows(s, N, n, f)
  BY DEF IsSeq
<1>2. RecordsOf(tag) = Numbers(N, n)
  BY Zenon DEF RecordsOf, Of
<1> HIDE DEF N, n
<1>3. /\ s = [i \in DOMAIN Numbers(N, n) |-> f[Numbers(N, n)[i]]]
      /\ \A i \in DOMAIN Numbers(N, n) : Numbers(N, n)[i] \in 1 .. n
  BY <1>1, FollowedIs
<1> QED BY <1>1, <1>2, <1>3, Zenon

LEMMA FollowsVals ==
  ASSUME IsSeq(Written), NEW tag, NEW s, Follows(s, Of(tag), Len(Written), ValsIn)
  PROVE  s = ValsOf(tag)
<1> DEFINE R == RecordsOf(tag)
<1>1. s = [i \in DOMAIN R |-> ValsIn[R[i]]] /\ \A i \in DOMAIN R : R[i] \in DOMAIN Written
  BY FollowsRecords, Zenon
<1>2. ValsOf(tag) = [i \in DOMAIN R |-> Written[R[i]].vals]
  BY Zenon DEF ValsOf
<1> HIDE DEF R
<1>3. \A i \in DOMAIN R : ValsIn[R[i]] = Written[R[i]].vals
  BY <1>1, Zenon DEF ValsIn
<1> QED BY <1>1, <1>2, <1>3

LEMMA ListsReturned ==
  ASSUME IInv, status = "ok"
  PROVE  /\ snap.objects = [k \in DOMAIN RecordsOf(TagObject) |-> ObjectAt(RecordsOf(TagObject)[k])]
         /\ snap.data = [k \in DOMAIN RecordsOf(TagData) |-> SegmentAt(RecordsOf(TagData)[k])]
         /\ snap.bss = [k \in DOMAIN RecordsOf(TagBSS) |-> SegmentAt(RecordsOf(TagBSS)[k])]
         /\ snap.finalizers = ValsOf(TagFinalizer) /\ snap.queued = ValsOf(TagQueuedFinalizer)
         /\ snap.threads = ValsOf(TagOSThread) /\ snap.samples = ValsOf(TagAllocSample)
         /\ snap.profiles = ValsOf(TagMemProf)
<1>1. InLists(Len(Written)) /\ IsSeq(Written)
  BY ReturnedWhole, Zenon DEF Result, Collected
<1>2. ASSUME NEW tag, NEW s, Follows(s, Of(tag), Len(Written), SegmentsIn)
      PROVE  s = [k \in DOMAIN RecordsOf(tag) |-> SegmentAt(RecordsOf(tag)[k])]
  <2> DEFINE R == RecordsOf(tag)
  <2>1. s = [i \in DOMAIN R |-> SegmentsIn[R[i]]] /\ \A i \in DOMAIN R : R[i] \in DOMAIN Written
    BY <1>1, <1>2, FollowsRecords, Zenon
  <2> HIDE DEF R
  <2>2. \A i \in DOMAIN R : SegmentsIn[R[i]] = SegmentAt(R[i])
    BY <2>1, Zenon DEF SegmentsIn
  <2>3. s = [i \in DOMAIN R |-> SegmentAt(R[i])]
    BY <2>1, <2>2, Zenon
  <2> QED BY <2>3, Zenon DEF R
<1>3. snap.objects = [k \in DOMAIN RecordsOf(TagObject) |-> ObjectAt(RecordsOf(TagObject)[k])]
  <2> DEFINE R == RecordsOf(TagObject)
  <2>1. /\ snap.objects = [i \in DOMAIN R |-> ObjectsIn[R[i]]]
        /\ \A i \in DOMAIN R : R[i] \in DOMAIN Written
    BY <1>1, FollowsRecords, Zenon DEF InLists
  <2> HIDE DEF R
  <2>2. \A i \in DOMAIN R : ObjectsIn[R[i]] = ObjectAt(R[i])
    BY <2>1, Zenon DEF ObjectsIn
  <2>3. snap.objects = [i \in DOMAIN R |-> ObjectAt(R[i])]
    BY <2>1, <2>2, Zenon
  <2> QED BY <2>3, Zenon DEF R
<1>4. /\ snap.data = [k \in DOMAIN RecordsOf(TagData) |-> SegmentAt(RecordsOf(TagData)[k])]
      /\ snap.bss = [k \in DOMAIN RecordsOf(TagBSS) |-> SegmentAt(RecordsOf(TagBSS)[k])]
  BY <1>1, <1>2, Zenon DEF InLists
<1>5. /\ snap.finalizers = ValsOf(TagFinalizer) /\ snap.queued = ValsOf(TagQueuedFinalizer)
      /\ snap.threads = ValsOf(TagOSThread) /\ snap.samples = ValsOf(TagAllocSample)
      /\ snap.profiles = ValsOf(TagMemProf)
  BY <1>1, FollowsVals, Zenon DEF InLists
<1> QED BY <1>3, <1>4, <1>5, Zenon

LEMMA GoroutinesReturned ==
  ASSUME IInv, status = "ok"
  PROVE  snap.goroutines = [k \in DOMAIN RecordsOf(TagGoroutine) |->
                              GoroutineAt(RecordsOf(TagGoroutine)[k])]
<1> DEFINE L == Len(Written)
           c == snap.goroutines
           R == RecordsOf(TagGoroutine)
<1>1. Framed(L) /\ IsSeq(Written) /\ L \in Nat
  BY ReturnedWhole, Zenon DEF Result, Collected
<1>2. R = Found(TagGoroutine, L)
  BY Zenon DEF RecordsOf, Found, Of
<1>3. IsSeq(c) /\ Len(c) = Len(R) /\ \A m \in 1 .. Len(c) : StackIs(c[m], R[m], L)
  BY <1>1, <1>2, Zenon DEF Framed
<1>4. IsSeq(R)
  BY <1>1, <1>2, NumbersList, Zenon DEF Found, Lists
<1>5. ASSUME NEW g, NEW r, StackIs(g, r, L) PROVE g = GoroutineAt(r)
  <2> DEFINE N == HomeOf(r)
             s == g.frames
             f == FramesIn
             H == Home(r)
  <2>1. Follows(s, N, L, f) /\ g = WithFrames(r, s)
    BY <1>5, Zenon DEF StackIs
  <2>2. H = Numbers(N, L)
    BY Zenon DEF Home, HomeOf
  <2> HIDE DEF N, s, f, H, L
  <2>3. /\ s = [i \in DOMAIN Numbers(N, L) |-> f[Numbers(N, L)[i]]]
        /\ \A i \in DOMAIN Numbers(N, L) : Numbers(N, L)[i] \in 1 .. L
    BY <1>1, <2>1, FollowedIs
  <2>4. s = [i \in DOMAIN H |-> f[H[i]]] /\ \A i \in DOMAIN H : H[i] \in 1 .. L
    BY <2>2, <2>3, Zenon
  <2>5. \A i \in 1 .. L : f[i] = FrameAt(i)
    <3>1. DOMAIN Written = 1 .. L
      BY <1>1 DEF IsSeq, L
    <3> QED BY <3>1, Zenon DEF f, FramesIn
  <2>6. s = [i \in DOMAIN H |-> FrameAt(H[i])]
    BY <2>4, <2>5, Zenon
  <2>7. GoroutineAt(r) = WithFrames(r, [i \in DOMAIN H |-> FrameAt(H[i])])
    BY Zenon DEF GoroutineAt, WithFrames, H
  <2> QED BY <2>1, <2>6, <2>7, Zenon
<1> HIDE DEF c, R, L
<1>6. DOMAIN R = 1 .. Len(R) /\ c = [i \in 1 .. Len(c) |-> c[i]]
  BY <1>3, <1>4 DEF IsSeq
<1>7. \A m \in 1 .. Len(c) : c[m] = GoroutineAt(R[m])
  BY <1>3, <1>5, Zenon
<1>8. c = [k \in DOMAIN R |-> GoroutineAt(R[k])]
  BY <1>3, <1>6, <1>7, Zenon
<1> QED BY <1>8, Zenon DEF c, R

LEMMA FramesReturned ==
  ASSUME IInv
  PROVE  FramesStayHome
<1> SUFFICES ASSUME status = "ok" PROVE FramesStayHome
  BY Zenon DEF FramesStayHome
<1> DEFINE R == RecordsOf(TagGoroutine)
           c == snap.goroutines
<1>1. c = [k \in DOMAIN R |-> GoroutineAt(R[k])]
  BY GoroutinesReturned, Zenon
<1> HIDE DEF R, c
<1>2. ASSUME NEW m \in DOMAIN c
      PROVE  [i \in DOMAIN c[m].frames |-> c[m].frames[i].sp]
               = [i \in DOMAIN Home(R[m]) |-> Written[Home(R[m])[i]].vals[1]]
  <2> DEFINE H == Home(R[m])
             s == c[m].frames
  <2>1. c[m] = GoroutineAt(R[m])
    BY <1>1, <1>2
  <2>2. s = [i \in DOMAIN H |-> FrameAt(H[i])]
    <3>1. GoroutineAt(R[m]).frames = [i \in DOMAIN H |-> FrameAt(H[i])]
      BY DEF GoroutineAt
    <3> QED BY <2>1, <3>1, Zenon
  <2>3. \A k : FrameAt(k).sp = Written[k].vals[1]
    BY DEF FrameAt
  <2> HIDE DEF H, s
  <2>4. [i \in DOMAIN s |-> s[i].sp] = [i \in DOMAIN H |-> Written[H[i]].vals[1]]
    BY <2>2, <2>3
  <2> QED BY <2>4, Zenon DEF H, s
<1> QED BY <1>2, Zenon DEF FramesStayHome, R, c

\* Each goroutine has the frames of its own section, in their order, and no
\* frame is taken for that of the goroutine before (parser.go: parseRecords
\* forgets the goroutine at a record of another kind).
THEOREM FramesAtHome == Spec => []FramesStayHome
BY FramesReturned, Invariant, PTL

\* Under Strict, what is returned was not faulty.
LEMMA StrictReturned ==
  ASSUME IInv, status = "ok", opts.strict
  PROVE  snap.warnings = 0 /\ ~ Faulty
<1>1. /\ dump.header = Header /\ Result(Len(Written)) /\ DOMAIN Written = 1 .. Len(Written)
      /\ Stops # {} /\ Min(Stops) = Len(Written) + 1
  BY ReturnedWhole, Zenon
<1>2. snap.warnings = 0 /\ \A i \in 1 .. Len(Written) : Sound(i)
  BY <1>1, Zenon DEF Result, Accepted
<1>3. dump.records[Len(Written) + 1].tag = TagEOF
  BY <1>1, Zenon DEF Result, Ended
<1>4. dump.records[Min(Stops)].tag = TagEOF
  BY <1>1, <1>3, Zenon
<1> QED BY <1>1, <1>2, <1>4, Zenon DEF Faulty

\* A map with the last of each key.
LEMMA LastMapped ==
  ASSUME IsSeq(Written), NEW tag, NEW m, NEW f, Keyed(m, tag, Len(Written), f)
  PROVE  /\ m = [x \in DOMAIN m |-> m[x]] /\ DOMAIN m = DOMAIN LastOfKey(ValsOf(tag))
         /\ \A x \in DOMAIN m : \E r \in DOMAIN Written :
              m[x] = f[r] /\ LastOfKey(ValsOf(tag))[x] = Written[r].vals
<1> DEFINE L == Len(Written)
           found == Found(tag, L)
           vals == ValsOf(tag)
           keys == Part(vals, 1)
           kept == LastOfKey(vals)
<1>1. DOMAIN Written = 1 .. L /\ L \in Nat
  BY DEF IsSeq
<1>2. /\ m = [x \in DOMAIN m |-> m[x]]
      /\ \A x : x \in DOMAIN m <=> \E i \in 1 .. L : Written[i].tag = tag /\ Written[i].vals[1] = x
      /\ \A i \in 1 .. L :
           /\ Written[i].tag = tag
           /\ \A j \in i + 1 .. L : Written[j].tag = tag => Written[j].vals[1] # Written[i].vals[1]
           => m[Written[i].vals[1]] = f[i]
  BY Zenon DEF Keyed
<1>3. /\ vals = [i \in DOMAIN found |-> Written[found[i]].vals]
      /\ DOMAIN vals = 1 .. Len(found) /\ Len(vals) = Len(found)
      /\ \A i \in 1 .. Len(found) : found[i] \in DOMAIN Written /\ Written[found[i]].tag = tag
      /\ \A k \in DOMAIN Written : Written[k].tag = tag => \E i \in 1 .. Len(found) : found[i] = k
  BY ValsOfRecords, Zenon DEF Numbered
<1>4. \A j, k \in 1 .. Len(found) : j < k => found[j] < found[k]
  BY <1>1, NumbersIncrease, Zenon DEF Found
<1>5. Len(found) \in Nat
  <2>1. IsSeq(found)
    BY <1>1, NumbersList, Zenon DEF Found, Lists
  <2> QED BY <2>1, Zenon DEF IsSeq
<1>6. kept = [x \in Range(keys) |-> vals[Max({i \in DOMAIN vals : vals[i][1] = x})]]
  BY Zenon DEF LastOfKey
<1> DEFINE n == Len(found)
<1> HIDE DEF found, vals, L, kept
<1>7. \A i \in 1 .. n : vals[i] = Written[found[i]].vals
  BY <1>3
<1>8. DOMAIN keys = 1 .. n /\ \A i \in 1 .. n : keys[i] = vals[i][1]
  BY <1>3 DEF Part
<1>9. \A x : x \in Range(keys) <=> \E i \in 1 .. n : keys[i] = x
  BY <1>8 DEF Range
<1> HIDE DEF keys, n
<1>10. /\ n \in Nat /\ DOMAIN vals = 1 .. n
       /\ \A i \in 1 .. n : found[i] \in 1 .. L /\ Written[found[i]].tag = tag
       /\ \A k \in 1 .. L : Written[k].tag = tag => \E i \in 1 .. n : found[i] = k
  BY <1>1, <1>3, <1>5, Zenon DEF n
<1>11. \A x : x \in DOMAIN m <=> x \in Range(keys)
  <2>1. ASSUME NEW x \in DOMAIN m PROVE x \in Range(keys)
    <3>1. PICK k \in 1 .. L : Written[k].tag = tag /\ Written[k].vals[1] = x
      BY <1>2, <2>1, Zenon
    <3>2. PICK i \in 1 .. n : found[i] = k
      BY <1>10, <3>1, Zenon
    <3>3. keys[i] = x
      BY <1>7, <1>8, <3>1, <3>2
    <3> QED BY <1>9, <3>3
  <2>2. ASSUME NEW x \in Range(keys) PROVE x \in DOMAIN m
    <3>1. PICK i \in 1 .. n : keys[i] = x
      BY <1>9, <2>2
    <3>2. /\ found[i] \in 1 .. L /\ Written[found[i]].tag = tag
          /\ Written[found[i]].vals[1] = x
      BY <1>7, <1>8, <1>10, <3>1
    <3> QED BY <1>2, <3>2, Zenon
  <2> QED BY <2>1, <2>2, Zenon
<1>12. ASSUME NEW x \in DOMAIN m
       PROVE  \E r \in DOMAIN Written : m[x] = f[r] /\ kept[x] = Written[r].vals
  <2> DEFINE S == {i \in DOMAIN vals : vals[i][1] = x}
             i == Max(S)
             r == found[i]
  <2>1. S \subseteq 1 .. n /\ S # {}
    <3>1. \E j \in 1 .. n : vals[j][1] = x
      BY <1>8, <1>9, <1>11, <1>12, Zenon
    <3> QED BY <1>10, <3>1
  <2> HIDE DEF S
  <2>2. i \in S /\ \A j \in S : j <= i
    <3>1. S \in SUBSET (0 .. n)
      BY <2>1
    <3> QED BY <1>10, <2>1, <3>1, GreatestOf
  <2>3. i \in 1 .. n /\ vals[i][1] = x /\ \A j \in 1 .. n : vals[j][1] = x => j <= i
    BY <1>10, <2>2 DEF S
  <2>4. r \in 1 .. L /\ Written[r].tag = tag /\ vals[i] = Written[r].vals
    BY <1>7, <1>10, <2>3, Zenon
  <2> HIDE DEF i, r
  <2>5. ASSUME NEW q \in r + 1 .. L, Written[q].tag = tag
        PROVE  Written[q].vals[1] # Written[r].vals[1]
    <3>1. q \in 1 .. L /\ q > r
      BY <1>1, <2>4
    <3>2. PICK j \in 1 .. n : found[j] = q
      BY <1>10, <2>5, <3>1, Zenon
    <3>3. ~ (j <= i)
      <4> SUFFICES ASSUME j <= i PROVE FALSE
        OBVIOUS
      <4>1. j = i \/ j < i
        BY <1>10, <2>3
      <4>2. j < i => found[j] < found[i]
        BY <1>4, <2>3, <3>2, Zenon DEF n
      <4>3. q = found[j] /\ r = found[i] /\ q \in Nat /\ r \in Nat
        BY <1>1, <2>4, <3>1, <3>2 DEF r
      <4> QED BY <3>1, <4>1, <4>2, <4>3
    <3>4. vals[j] = Written[q].vals /\ vals[j][1] # x
      BY <1>7, <2>3, <3>2, <3>3, Zenon
    <3> QED BY <2>3, <2>4, <3>4, Zenon
  <2>6. m[Written[r].vals[1]] = f[r]
    BY <1>2, <2>4, <2>5, Zenon
  <2>7. m[x] = f[r]
    BY <2>3, <2>4, <2>6, Zenon
  <2>8. kept[x] = vals[i]
    BY <1>6, <1>11, <1>12, Zenon DEF i, S
  <2> QED BY <1>1, <2>4, <2>7, <2>8, Zenon
<1>13. DOMAIN kept = Range(keys)
  BY <1>6
<1>14. DOMAIN m = DOMAIN kept
  BY <1>11, <1>13
<1> QED BY <1>2, <1>12, <1>14, Zenon DEF kept, vals

LEMMA MapsReturned ==
  ASSUME IInv, status = "ok"
  PROVE  /\ snap.types = LastOfKey(ValsOf(TagType))
         /\ snap.itabs = [x \in DOMAIN LastOfKey(ValsOf(TagItab)) |->
                            LastOfKey(ValsOf(TagItab))[x][2]]
<1>1. Mapped(Len(Written)) /\ IsSeq(Written)
  BY ReturnedWhole, Zenon DEF Result, Collected
<1>2. snap.types = LastOfKey(ValsOf(TagType))
  <2> DEFINE m == snap.types
             kept == LastOfKey(ValsOf(TagType))
             f == ValsIn
  <2>1. /\ m = [x \in DOMAIN m |-> m[x]] /\ DOMAIN m = DOMAIN kept
        /\ \A x \in DOMAIN m : \E r \in DOMAIN Written : m[x] = f[r] /\ kept[x] = Written[r].vals
    <3>1. IsSeq(Written) /\ Keyed(m, TagType, Len(Written), f)
      BY <1>1, Zenon DEF Mapped
    <3> HIDE DEF m, f
    <3> QED BY <3>1, LastMapped
  <2>2. kept = [x \in DOMAIN kept |-> kept[x]]
    BY DEF LastOfKey
  <2> HIDE DEF m, kept
  <2>3. \A x \in DOMAIN m : m[x] = kept[x]
    BY <2>1, Zenon DEF ValsIn
  <2>4. m = kept
    BY <2>1, <2>2, <2>3
  <2> QED BY <2>4, Zenon DEF m, kept
<1>3. snap.itabs = [x \in DOMAIN LastOfKey(ValsOf(TagItab)) |-> LastOfKey(ValsOf(TagItab))[x][2]]
  <2> DEFINE m == snap.itabs
             kept == LastOfKey(ValsOf(TagItab))
             f == SecondsIn
  <2>1. /\ m = [x \in DOMAIN m |-> m[x]] /\ DOMAIN m = DOMAIN kept
        /\ \A x \in DOMAIN m : \E r \in DOMAIN Written : m[x] = f[r] /\ kept[x] = Written[r].vals
    <3>1. IsSeq(Written) /\ Keyed(m, TagItab, Len(Written), f)
      BY <1>1, Zenon DEF Mapped
    <3> HIDE DEF m, f
    <3> QED BY <3>1, LastMapped
  <2> HIDE DEF m, kept
  <2>2. \A x \in DOMAIN m : m[x] = kept[x][2]
    BY <2>1, Zenon DEF SecondsIn
  <2>3. m = [x \in DOMAIN kept |-> kept[x][2]]
    BY <2>1, <2>2
  <2> QED BY <2>3, Zenon DEF m, kept
<1> QED BY <1>2, <1>3, Zenon

LEMMA SnapshotReturned ==
  ASSUME IInv
  PROVE  SnapshotIsTheDump
<1> SUFFICES ASSUME status = "ok" PROVE SnapshotIsTheDump
  BY Zenon DEF SnapshotIsTheDump
<1> DEFINE L == Len(Written)
<1>1. /\ Collected(L) /\ IsSeq(Written) /\ L \in Nat /\ DOMAIN Written = 1 .. L
  BY ReturnedWhole, Zenon DEF Result
<1>2. opts.strict => snap.warnings = 0 /\ ~ Faulty
  BY StrictReturned, Zenon
<1>3. snap.params = IF AfterParams(L + 1) THEN ParamsAt(L + 1) ELSE NoParams
  BY <1>1, Zenon DEF Collected, ParamsKnown
<1>4. snap.memStats = IF ValsOf(TagMemStats) = <<>> THEN <<>>
                      ELSE ValsOf(TagMemStats)[Len(ValsOf(TagMemStats))]
  <2> DEFINE found == Found(TagMemStats, L)
             vals == ValsOf(TagMemStats)
  <2>1. snap.memStats = IF found = <<>> THEN <<>> ELSE Written[found[Len(found)]].vals
    BY <1>1, Zenon DEF Collected, LatestStats
  <2>2. /\ vals = [i \in DOMAIN found |-> Written[found[i]].vals]
        /\ DOMAIN vals = 1 .. Len(found) /\ Len(vals) = Len(found)
    BY <1>1, ValsOfRecords, Zenon DEF Numbered
  <2>3. IsSeq(found)
    BY <1>1, NumbersList, Zenon DEF Found, Lists
  <2> HIDE DEF found, vals
  <2>4. found = <<>> <=> vals = <<>>
    BY <2>2, <2>3 DEF IsSeq
  <2>5. found # <<>> => vals[Len(vals)] = Written[found[Len(found)]].vals
    BY <2>2, <2>3 DEF IsSeq
  <2> QED BY <2>1, <2>4, <2>5, Zenon DEF vals
<1>5. snap.globals = FlattenSeq([i \in DOMAIN Written |-> RootsAt(i)])
  <2>1. snap.globals = FlattenSeq([i \in DOMAIN Written |-> RootsIn[i]])
    BY <1>1, Zenon DEF Collected, RootsJoined
  <2>2. [i \in DOMAIN Written |-> RootsIn[i]] = [i \in DOMAIN Written |-> RootsAt(i)]
    BY Zenon DEF RootsIn
  <2> QED BY <2>1, <2>2, Zenon
<1>6. \A tag \in DOMAIN CounterOf : snap.stats[CounterOf[tag]] = Len(ValsOf(tag))
  <2> TAKE tag \in DOMAIN CounterOf
  <2>1. snap.stats[CounterOf[tag]] = Len(Found(tag, L))
    BY <1>1, Zenon DEF Collected, Numerous
  <2>2. Len(ValsOf(tag)) = Len(Found(tag, L))
    BY <1>1, ValsOfRecords, Zenon DEF Numbered
  <2> QED BY <2>1, <2>2, Zenon
<1> DEFINE memStats == ValsOf(TagMemStats)
<1> QED
  BY <1>2, <1>3, <1>4, <1>5, <1>6, ListsReturned, GoroutinesReturned, MapsReturned, Zenon
  DEF SnapshotIsTheDump

\* The snapshot returned holds all that the records written before the one that
\* ended the parse say: parameters and memory statistics, each record of a list
\* once and in order with all its values and pointers, the stack of each goroutine,
\* the roots, the last type and itab at each address, and the number of records
\* of each kind; and under Strict nothing in the records was amiss (parser.go:
\* the parse functions).
THEOREM SnapshotIsWritten == Spec => []SnapshotIsTheDump
BY SnapshotReturned, Invariant, PTL
-----------------------------------------------------------------------------
(* Truncation                                                               *)

\* The end record, and those of an unknown kind, have no parts to be read.
LEMMA NoParts ==
  ASSUME NEW record, WellFormed(record), record.tag \notin DOMAIN Shape
  PROVE  Len(FlattenSeq(PartsOf(record))) = 0
<1> DEFINE s == PartsOf(record)
<1>1. record.tag # TagMemProf
  <2>1. 16 \in DOMAIN Shape
    <3>1. DOMAIN Shape = 1 .. 17
      BY ShapesAreNames, Zenon
    <3> QED BY <3>1
  <2> QED BY <2>1, Zenon DEF TagMemProf
<1>2. ShapeOf(record) = <<>>
  BY <1>1 DEF ShapeOf
<1>3. Len(ShapeOf(record)) = 0
  BY <1>2
<1>4. s \in Seq(Seq(Cells)) /\ Len(s) = 0
  BY <1>3, EncodedRecord, Zenon
<1> HIDE DEF s
<1>5. Upto(s, 0) = <<>> /\ Upto(s, Len(s)) = FlattenSeq(s)
  BY <1>4, UptoSteps, Zenon
<1>6. FlattenSeq(s) = <<>>
  BY <1>4, <1>5, Zenon
<1>7. Len(<<>>) = 0
  OBVIOUS
<1> QED BY <1>6, <1>7, Zenon DEF s

\* The cells of the first k records of a dump.
LEMMA FirstRecords ==
  ASSUME NEW d \in Dumps, NEW k \in 1 .. Len(d.records)
  PROVE  LET c == Len(Encode([d EXCEPT !.records = SubSeq(@, 1, k)]))
         IN c \in Nat /\ c + 1 = Start(d, k)
<1> DEFINE s == d.records
           r == SubSeq(s, 1, k)
           e == [d EXCEPT !.records = SubSeq(@, 1, k)]
           lines == Lines(d)
<1>1. /\ d = [header |-> d.header, records |-> s] /\ d.header \in Seq(Cells)
      /\ Len(s) \in Nat /\ DOMAIN s = 1 .. Len(s)
  BY WrittenDumps, Zenon
<1>2. s \in Seq(Range(s))
  BY DumpsAssumption
<1>3. e.header = d.header /\ e.records = r
  <2>1. DOMAIN d = {"header", "records"}
    <3> DEFINE h == d.header
    <3>1. d = [header |-> h, records |-> s]
      BY <1>1, Zenon
    <3> HIDE DEF h, s
    <3> QED BY <3>1
  <2> HIDE DEF r
  <2>2. e = [d EXCEPT !.records = r]
    BY DEF r
  <2> QED BY <2>1, <2>2
<1>4. DOMAIN r = 1 .. k /\ \A i \in 1 .. k : r[i] = s[i]
  <2> DEFINE X == Range(s)
  <2>1. s \in Seq(X) /\ k \in 1 .. Len(s)
    BY <1>2
  <2> HIDE DEF s, X
  <2> QED BY <2>1
<1>5. /\ lines \in Seq(Seq(Cells)) /\ Len(lines) = Len(s)
      /\ \A i \in 1 .. Len(s) : lines[i] = EncodeRecord(s[i])
  BY RecordPlaces, Zenon
<1> HIDE DEF e, r
<1>6. [i \in DOMAIN r |-> EncodeRecord(r[i])] = SubSeq(lines, 1, k)
  <2> DEFINE m == SubSeq(lines, 1, k)
  <2>1. DOMAIN m = 1 .. k /\ (\A i \in 1 .. k : m[i] = lines[i]) /\ m = [i \in 1 .. k |-> m[i]]
    <3> HIDE DEF lines, s
    <3> QED BY <1>5
  <2>2. \A i \in 1 .. k : m[i] = EncodeRecord(r[i])
    <3>1. \A i \in 1 .. k : i \in 1 .. Len(s)
      BY <1>1
    <3> HIDE DEF m, lines, s
    <3> QED BY <1>4, <1>5, <2>1, <3>1, Zenon
  <2> HIDE DEF m
  <2> QED BY <1>4, <2>1, <2>2
<1>7. EncodeRecords(r) = Upto(lines, k)
  BY <1>6, Zenon DEF EncodeRecords, Upto
<1>8. Encode(e) = d.header \o <<Newline>> \o Upto(lines, k)
  BY <1>3, <1>7, Zenon DEF Encode
<1>9. Upto(lines, k) \in Seq(Seq(Cells)) \/ Upto(lines, k) \in Seq(Cells)
  <2> HIDE DEF lines, s
  <2>1. k \in 0 .. Len(lines)
    BY <1>1, <1>5
  <2> QED BY <1>5, <2>1, UptoSteps, Zenon
<1>10. Start(d, k) = Len(d.header) + 2 + Len(Upto(lines, k))
  BY Zenon DEF Start
<1> DEFINE h == d.header
           u == Upto(lines, k)
<1> HIDE DEF h, u, lines
<1>11. IsSeq(u)
  BY <1>9, SequencesAreSeq, Zenon DEF u
<1>12. IsSeq(h) /\ IsSeq(<<Newline>>) /\ Len(<<Newline>>) = 1
  <2>1. IsSeq(h)
    BY <1>1, SequencesAreSeq, Zenon DEF h
  <2>2. IsSeq(<<Newline>>) /\ Len(<<Newline>>) = 1
    BY DEF IsSeq
  <2> QED BY <2>1, <2>2
<1> DEFINE nl == <<Newline>>
<1>13. IsSeq(nl) /\ Len(nl) = 1
  BY <1>12
<1> HIDE DEF nl
<1>14. IsSeq(h \o nl) /\ Len(h \o nl) = Len(h) + Len(nl)
  BY <1>12, <1>13, ConcatOfAny, Zenon
<1> DEFINE hn == h \o nl
<1>15. IsSeq(hn) /\ Len(hn) = Len(h) + Len(nl)
  BY <1>14
<1> HIDE DEF hn
<1>16. Len(hn \o u) = Len(hn) + Len(u)
  BY <1>11, <1>15, ConcatOfAny, Zenon
<1>17. Len(Encode(e)) = Len(hn \o u)
  BY <1>8, Zenon DEF hn, h, nl, u
<1>18. Len(h) \in Nat /\ Len(u) \in Nat
  BY <1>11, <1>12, Zenon DEF IsSeq
<1>19. Start(d, k) = Len(h) + 2 + Len(u)
  BY <1>10, Zenon DEF h, u
<1> DEFINE c == Len(Encode(e))
<1>20. c = Len(h) + 1 + Len(u)
  <2>1. c = Len(hn) + Len(u)
    BY <1>16, <1>17, Zenon
  <2> HIDE DEF c
  <2> QED BY <2>1, <1>13, <1>15, <1>18
<1>21. c \in Nat /\ c + 1 = Start(d, k)
  <2> HIDE DEF c
  <2> QED BY <1>18, <1>19, <1>20
<1> QED BY <1>21, Zenon DEF e

LEMMA TruncatedReturned ==
  ASSUME IInv
  PROVE  TruncationIsAnError
<1> SUFFICES ASSUME status = "ok", snap.stats["UnknownRecords"] = 0
             PROVE  /\ Ends # {}
                    /\ cut >= Len(Encode([dump EXCEPT !.records = SubSeq(@, 1, Min(Ends))]))
  BY Zenon DEF TruncationIsAnError
<1> DEFINE n == Len(Written)
           k == n + 1
<1>1. Given /\ Result(n) /\ n \in Nat /\ Stops # {} /\ Min(Stops) = k
  BY ReturnedWhole, Zenon
<1>2. /\ k \in 1 .. Count /\ dump.records[k].tag \notin DOMAIN Shape
      /\ Start(dump, n) + Len(EncodeUint(dump.records[k].tag)) <= cut + 1
      /\ dump.records[k].tag = TagEOF
  BY <1>1, Zenon DEF Result, Ended
<1>3. dump \in Dumps /\ cut \in 0 .. Len(Encode(dump)) /\ file = SubSeq(Encode(dump), 1, cut)
  BY <1>1, Zenon DEF Given
<1>4. Count \in Nat /\ DOMAIN dump.records = 1 .. Count
  BY <1>3, WrittenDumps, Zenon DEF Count
<1> HIDE DEF n
<1>5. Ends # {} /\ Min(Ends) = k
  <2>1. k \in Ends
    BY <1>2, <1>4, Zenon DEF Ends
  <2>2. Stops \in SUBSET Nat /\ Ends \in SUBSET Nat /\ Ends \subseteq Stops
    <3>1. TagEOF \notin DOMAIN Shape
      BY ShapesAreNames DEF TagEOF
    <3> QED BY <1>4, <3>1 DEF Stops, Ends
  <2>3. \A i \in Stops : Min(Stops) <= i
    BY <1>1, <2>2, LeastOf, Zenon
  <2>4. Min(Ends) \in Ends /\ \A i \in Ends : Min(Ends) <= i
    BY <2>1, <2>2, LeastOf, Zenon
  <2> DEFINE a == Min(Stops)
             b == Min(Ends)
  <2>5. a <= b /\ b <= k /\ b \in Nat /\ a = k
    BY <1>1, <2>1, <2>2, <2>3, <2>4, Zenon
  <2>6. k \in Nat
    BY <1>1
  <2> HIDE DEF a, k
  <2>7. b = k
    <3> HIDE DEF b
    <3> QED BY <2>5, <2>6
  <2> QED BY <2>1, <2>7
<1>6. Start(dump, k) = Start(dump, n) + Len(EncodeUint(dump.records[k].tag))
  <2> DEFINE record == dump.records[k]
             tag == EncodeUint(record.tag)
             parts == FlattenSeq(PartsOf(record))
             p == Start(dump, k - 1)
  <2>1. Start(dump, k) = p + Len(tag) + Len(parts) /\ WellFormed(record)
        /\ Len(tag) \in Nat /\ Len(parts) \in Nat
    BY <1>2, <1>3, RecordsAgree, Zenon DEF Count
  <2>2. Len(parts) = 0
    BY <1>2, <2>1, NoParts, Zenon
  <2>3. k - 1 = n
    BY <1>1
  <2>4. p = Start(dump, n)
    BY <2>3, Zenon
  <2>5. p \in Nat
    <3>1. n \in 0 .. Count
      BY <1>1, <1>2, <1>4
    <3> QED BY <1>1, <2>4, <3>1, GivenNumbers, Zenon
  <2> HIDE DEF p, tag, parts
  <2>6. p + Len(tag) + Len(parts) = p + Len(tag)
    BY <2>1, <2>2, <2>5
  <2> QED BY <2>1, <2>4, <2>6, Zenon DEF tag
<1> DEFINE c == Len(Encode([dump EXCEPT !.records = SubSeq(@, 1, k)]))
<1>7. c \in Nat /\ c + 1 = Start(dump, k)
  <2>1. k \in 1 .. Len(dump.records)
    BY <1>2 DEF Count
  <2> HIDE DEF k
  <2> QED BY <1>3, <2>1, FirstRecords, Zenon
<1>8. c + 1 <= cut + 1
  BY <1>2, <1>6, <1>7, Zenon
<1>9. cut >= c
  <2>1. cut \in Nat
    BY <1>1, GivenNumbers, Zenon
  <2> HIDE DEF c
  <2> QED BY <1>7, <1>8, <2>1
<1> QED BY <1>5, <1>9, Zenon

\* A dump cut anywhere before its end record is not returned as a whole one
\* (parser.go: parseRecords takes the end of the file for an error).
THEOREM TruncationFails == Spec => []TruncationIsAnError
BY TruncatedReturned, Invariant, PTL
LEMMA RootsReturned ==
  ASSUME IInv
  PROVE  RootsAreMemory
<1> SUFFICES ASSUME status = "ok" PROVE RootsAreMemory
  BY Zenon DEF RootsAreMemory
<1> DEFINE L == Len(Written)
           Segments == {r \in DOMAIN Written :
                          Written[r].tag \in {TagData, TagBSS} /\ AfterParams(r)}
           c == snap.globals
<1>1. Rooted(L) /\ DOMAIN Written = 1 .. L
  BY ReturnedWhole, Zenon DEF Result, Collected
<1>2. DOMAIN c = 1 .. Len(c)
  <2>1. IsSeq(c)
    BY <1>1, Zenon DEF Rooted
  <2> QED BY <2>1 DEF IsSeq
<1>3. \A x : x \in Range(c) <=> \E i \in 1 .. Len(c) : c[i] = x
  BY <1>2 DEF Range
<1>4. \A r : r \in Segments <=> r \in 1 .. L /\ IsSegment(r)
  BY <1>1, Zenon DEF IsSegment
<1> HIDE DEF L, Segments
<1>5. ASSUME NEW root \in Range(c), root.kind # "otherroot"
      PROVE  \E r \in Segments : RootIn(r, root)
  <2>1. PICK i \in 1 .. Len(c) : c[i] = root
    BY <1>3, <1>5, Zenon
  <2>2. \E r \in 1 .. L : IsSegment(r) /\ RootIn(r, root)
    BY <1>1, <1>5, <2>1, Zenon DEF Rooted
  <2> QED BY <1>4, <2>2, Zenon
<1>6. ASSUME NEW r \in Segments, NEW field \in Range(Written[r].vals[3]), Sound(r),
             HeldAt(r, DataWord(field, ParamsAt(r).ptrSize)) # 0
      PROVE  [kind |-> SegmentKind(r),
              addr |-> Written[r].vals[1] + DataWord(field, ParamsAt(r).ptrSize),
              target |-> HeldAt(r, DataWord(field, ParamsAt(r).ptrSize)),
              about |-> <<>>] \in Range(c)
  <2>1. PICK f \in DOMAIN Written[r].vals[3] : Written[r].vals[3][f] = field
    BY DEF Range
  <2>2. r \in 1 .. L /\ IsSegment(r)
    BY <1>4, <1>6, Zenon
  <2>3. WordPlace(r, f) = DataWord(field, ParamsAt(r).ptrSize)
    BY <2>1, Zenon DEF WordPlace
  <2>4. \E i \in 1 .. Len(c) : c[i] = FieldRoot(r, f)
    BY <1>1, <1>6, <2>2, <2>3, Zenon DEF Rooted
  <2>5. FieldRoot(r, f) \in Range(c)
    BY <1>3, <2>4, Zenon
  <2> QED BY <2>3, <2>5, Zenon DEF FieldRoot
<1> QED
  BY <1>5, <1>6, Zenon DEF RootsAreMemory, Segments, c, SegmentKind, HeldAt, RootIn

\* Each root taken from a data or BSS segment is a pointer that the segment
\* holds at the root's own address, and each sound pointer field that is not nil
\* has its root (pointers.go: extractPointers keeps slots and targets in step).
THEOREM RootsAreHeld == Spec => []RootsAreMemory
BY RootsReturned, Invariant, PTL
-----------------------------------------------------------------------------
(* Reading contents back                                                    *)

\* A payload w of a file, and some cells in it.
Inside(f, off, w, o, size) ==
  /\ f \in Seq(Cells) /\ off \in Nat \ {0} /\ w \in Seq(Cells)
  /\ w = SubSeq(f, off, off + Len(w) - 1) /\ off + Len(w) - 1 <= Len(f)
  /\ o \in Nat /\ size \in Nat \ {0} /\ o + size <= Len(w)

\* The cells are the same, taken from the file and from the payload.
SamePart(f, off, w, o, size) ==
  SubSeq(f, off + o, off + o + size - 1) = SubSeq(w, o + 1, o + size)

LEMMA WithinPayload ==
  ASSUME NEW f, NEW off, NEW w, NEW o, NEW size, Inside(f, off, w, o, size)
  PROVE  SamePart(f, off, w, o, size)
<1> DEFINE a == SubSeq(f, off + o, off + o + size - 1)
           b == SubSeq(w, o + 1, o + size)
<1> USE DEF Inside
<1>1. a \in Seq(Cells) /\ Len(a) = size /\ \A k \in 1 .. size : a[k] = f[off + o + k - 1]
  OBVIOUS
<1>2. b \in Seq(Cells) /\ Len(b) = size /\ \A k \in 1 .. size : b[k] = w[o + k]
  OBVIOUS
<1>3. \A j \in 1 .. Len(w) : w[j] = f[off + j - 1]
  OBVIOUS
<1>4. \A k \in 1 .. size : a[k] = b[k]
  <2> TAKE k \in 1 .. size
  <2>1. o + k \in 1 .. Len(w) /\ off + (o + k) - 1 = off + o + k - 1
    OBVIOUS
  <2>2. w[o + k] = f[off + (o + k) - 1]
    BY <1>3, <2>1
  <2> HIDE DEF a, b
  <2> QED BY <1>1, <1>2, <2>1, <2>2
<1> HIDE DEF a, b, Inside
<1>5. a = b
  BY <1>1, <1>2, <1>4, SeqEqual
<1> QED BY <1>5, Zenon DEF a, b, SamePart

\* The reference that Read picks: one at the address, or the last before it.
Exact(addr) == {i \in DOMAIN snap.refs : snap.refs[i].addr = addr}
Below(addr) == {i \in DOMAIN snap.refs : snap.refs[i].addr <= addr}
Picked(addr) == Max(IF Exact(addr) # {} THEN Exact(addr) ELSE Below(addr))

LEMMA PickedOne ==
  ASSUME InOrder(snap.refs), NEW addr \in Nat, Below(addr) # {}
  PROVE  /\ Picked(addr) \in 1 .. Len(snap.refs)
         /\ \/ snap.refs[Picked(addr)].addr = addr
            \/ /\ snap.refs[Picked(addr)].addr <= addr
               /\ \A p \in Below(addr) :
                    p = Picked(addr) \/ snap.refs[p].addr <= snap.refs[Picked(addr)].addr
<1> DEFINE s == snap.refs
           E == Exact(addr)
           B == Below(addr)
           S == IF E # {} THEN E ELSE B
           m == Max(S)
<1>1. IsSeq(s) /\ \A i, j \in 1 .. Len(s) : i < j => s[i].addr <= s[j].addr
  BY Zenon DEF InOrder
<1>2. DOMAIN s = 1 .. Len(s) /\ Len(s) \in Nat
  BY <1>1 DEF IsSeq
<1>3. E \subseteq 1 .. Len(s) /\ B \subseteq 1 .. Len(s)
  BY <1>2 DEF Exact, Below
<1>4. (\A i \in E : s[i].addr = addr) /\ \A i \in B : s[i].addr <= addr
  BY DEF Exact, Below
<1> HIDE DEF s, E, B
<1>5. S # {} /\ S \subseteq 1 .. Len(s) /\ (E # {} => S = E) /\ (E = {} => S = B)
  BY <1>3 DEF B
<1> HIDE DEF S
<1>6. S \in SUBSET (0 .. Len(s))
  BY <1>2, <1>5
<1>7. m \in S /\ \A i \in S : i <= m
  BY <1>2, <1>5, <1>6, GreatestOf, Zenon
<1> HIDE DEF m
<1>8. m \in 1 .. Len(s)
  BY <1>5, <1>7
<1>9. s[m].addr = addr \/ (s[m].addr <= addr /\ \A p \in B : p = m \/ s[p].addr <= s[m].addr)
  <2>1. CASE E # {}
    BY <1>4, <1>5, <1>7, <2>1, Zenon
  <2>2. CASE E = {}
    <3>1. s[m].addr <= addr
      BY <1>4, <1>5, <1>7, <2>2, Zenon
    <3>2. ASSUME NEW p \in B PROVE p = m \/ s[p].addr <= s[m].addr
      <4>1. p \in 1 .. Len(s) /\ p <= m
        BY <1>3, <1>5, <1>7, <2>2, <3>2, Zenon
      <4>2. p = m \/ p < m
        BY <1>2, <1>8, <4>1
      <4> QED BY <1>1, <1>8, <4>1, <4>2, Zenon
    <3> QED BY <3>1, <3>2, Zenon
  <2> QED BY <2>1, <2>2
<1>10. Picked(addr) = m
  BY Zenon DEF Picked, m, S, E, B
<1> QED BY <1>8, <1>9, <1>10, Zenon DEF s, B
LEMMA ReadIs ==
  ASSUME NEW addr, NEW size, size # 0
  PROVE  Read(addr, size) =
           IF addr = 0 \/ addr + size > MaxUint \/ Below(addr) = {} THEN Refusal
           ELSE ReadRef(snap.refs[Picked(addr)], addr - snap.refs[Picked(addr)].addr, size)
BY Zenon DEF Read, Picked, Exact, Below

\* Record r has the cells from addr on.
HasCells(r, addr, size) ==
  Written[r].vals[1] <= addr /\ addr + size <= Written[r].vals[1] + Len(Written[r].vals[2])
CellsAt(r, addr, size) ==
  SubSeq(Written[r].vals[2], addr - Written[r].vals[1] + 1, addr - Written[r].vals[1] + size)

\* What reading through a reference to a record gives.
LEMMA RefReads ==
  ASSUME file \in Seq(Cells), NEW r, NEW ref, RefersTo(ref, r), NEW addr \in Nat,
         ref.addr <= addr, NEW size \in Nat \ {0}
  PROVE  LET read == ReadRef(ref, addr - ref.addr, size)
         IN /\ read.ok <=> HasCells(r, addr, size)
            /\ read.ok => read.cells = CellsAt(r, addr, size)
<1> DEFINE base == Written[r].vals[1]
           w == Written[r].vals[2]
           o == addr - ref.addr
           read == ReadRef(ref, o, size)
<1>1. /\ ref.addr = base /\ ref.len = Len(w) /\ base \in Nat
      /\ w \in Seq(Cells) /\ ref.off \in Nat \ {0} /\ ref.off + Len(w) - 1 <= Len(file)
      /\ w = SubSeq(file, ref.off, ref.off + Len(w) - 1)
  <2> DEFINE d == [cells |-> w, off |-> ref.off]
  <2>1. ref.addr = base /\ ref.len = Len(w) /\ Delivered(d, w) /\ base \in Nat
    BY Zenon DEF RefersTo
  <2>2. d.off = ref.off
    OBVIOUS
  <2> HIDE DEF d
  <2> QED BY <2>1, <2>2, Zenon DEF Delivered
<1> DEFINE off == ref.off
           len == Len(w)
           top == Len(file)
<1>2. /\ off \in Nat \ {0} /\ len \in Nat /\ top \in Nat /\ off + len - 1 <= top
      /\ o = addr - base /\ base <= addr /\ base \in Nat
  BY <1>1
<1>3. read = IF o + size > len \/ off + o + size - 1 > top THEN Refusal
             ELSE [ok |-> TRUE, cells |-> SubSeq(file, off + o, off + o + size - 1)]
  BY <1>1, Zenon DEF ReadRef
<1>4. HasCells(r, addr, size) <=> base <= addr /\ addr + size <= base + len
  BY Zenon DEF HasCells
<1>5. CellsAt(r, addr, size) = SubSeq(w, addr - base + 1, addr - base + size)
  BY Zenon DEF CellsAt
<1> HIDE DEF off, len, top, o, read, base, w
<1>6. HasCells(r, addr, size) <=> ~ (o + size > len \/ off + o + size - 1 > top)
  BY <1>2, <1>4
<1>7. CASE HasCells(r, addr, size)
  <2>1. read = [ok |-> TRUE, cells |-> SubSeq(file, off + o, off + o + size - 1)]
    BY <1>3, <1>6, <1>7, Zenon
  <2>2. read.ok /\ read.cells = SubSeq(file, off + o, off + o + size - 1)
    BY <2>1
  <2>3. o \in Nat /\ o + size <= len
    BY <1>2, <1>6, <1>7
  <2>4. SubSeq(file, off + o, off + o + size - 1) = SubSeq(w, o + 1, o + size)
    <3>1. Inside(file, off, w, o, size)
      <4>1. /\ off \in Nat \ {0} /\ w \in Seq(Cells) /\ off + Len(w) - 1 <= Len(file)
            /\ w = SubSeq(file, off, off + Len(w) - 1) /\ o + size <= Len(w) /\ o \in Nat
        BY <1>1, <2>3, Zenon DEF off, len
      <4> QED BY <4>1, Zenon DEF Inside
    <3>2. SamePart(file, off, w, o, size)
      BY <3>1, WithinPayload, Zenon
    <3> QED BY <3>2, Zenon DEF SamePart
  <2>5. CellsAt(r, addr, size) = SubSeq(w, o + 1, o + size)
    BY <1>2, <1>5, Zenon
  <2> QED BY <1>7, <2>2, <2>4, <2>5, Zenon DEF read, o
<1>8. CASE ~ HasCells(r, addr, size)
  <2>1. read = Refusal
    BY <1>3, <1>6, <1>8, Zenon
  <2>2. ~ read.ok
    BY <2>1 DEF Refusal
  <2> QED BY <1>8, <2>2, Zenon DEF read, o
<1> QED BY <1>7, <1>8
\* An object record has an address and contents.
LEMMA ObjectParts ==
  ASSUME IInv, status = "ok", NEW r \in 1 .. Len(Written), Written[r].tag = TagObject
  PROVE  Written[r].vals[1] \in Nat /\ Len(Written[r].vals[2]) \in Nat
<1> DEFINE L == Len(Written)
           w == Written[r]
<1>1. Given /\ Result(L) /\ L \in Nat
  BY ReturnedWhole, Zenon
<1>2. L + 1 \in 1 .. Count /\ \A i \in 1 .. L : dump.records[i].tag \in DOMAIN Shape
  BY <1>1, Zenon DEF Result, Ended
<1>3. Count \in Nat /\ dump \in Dumps
  BY <1>1, GivenNumbers, Zenon DEF Given
<1>4. L \in 0 .. Count
  BY <1>1, <1>2, <1>3
<1>5. w = dump.records[r]
  BY <1>1, <1>2, <1>4, WrittenPrefix, Zenon
<1>6. r \in 1 .. Len(dump.records)
  <2>1. r \in 1 .. Count
    BY <1>1, <1>3, <1>4
  <2> QED BY <2>1 DEF Count
<1>7. WellFormed(w)
  BY <1>3, <1>5, <1>6, WrittenDumps, Zenon
<1>8. TagObject \in DOMAIN Shape \ {TagMemProf}
  <2>1. DOMAIN Shape = 1 .. 17
    BY ShapesAreNames, Zenon
  <2> QED BY <2>1 DEF TagObject, TagMemProf
<1>9. ShapeOf(w) = <<"uint", "bytes", "fields">>
  <2>1. ShapeOf(w) = Shape[w.tag]
    BY <1>7, <1>8, RecordShapes, Zenon
  <2>2. w.tag = TagObject
    OBVIOUS
  <2> QED BY <2>1, <2>2, ShapeTable, Zenon
<1> HIDE DEF w, L
<1>10. \A k \in 1 .. Len(ShapeOf(w)) : Encodable(ShapeOf(w)[k], w.vals[k])
  BY <1>7, RecordShapes, Zenon
<1>11. Encodable("uint", w.vals[1]) /\ Encodable("bytes", w.vals[2])
  BY <1>9, <1>10
<1>12. w.vals[1] \in 0 .. MaxUint /\ w.vals[2] \in Seq(Cells)
  BY <1>11 DEF Encodable
<1>13. w.vals[1] \in Nat /\ Len(w.vals[2]) \in Nat
  BY <1>12, MaxUintIsNat
<1> QED BY <1>13, Zenon DEF w

\* What is read is what a record holds.
LEMMA ReadIsHeld ==
  ASSUME IInv, status = "ok", opts.lazy, NEW addr \in Nat, NEW size \in Nat \ {0},
         Read(addr, size).ok
  PROVE  \E r \in 1 .. Len(Written) :
           /\ Written[r].tag = TagObject /\ HasCells(r, addr, size)
           /\ Read(addr, size).cells = CellsAt(r, addr, size)
<1> DEFINE m == Picked(addr)
           ref == snap.refs[m]
<1>1. Given /\ InOrder(snap.refs) /\ RefsAre(snap.refs, Len(Written))
  BY ReturnedWhole, Zenon DEF Result
<1>2. file \in Seq(Cells)
  BY <1>1, GivenNumbers, Zenon
<1>3. Read(addr, size) = ReadRef(ref, addr - ref.addr, size) /\ Below(addr) # {}
  <2>1. size # 0
    OBVIOUS
  <2>2. Read(addr, size) =
          IF addr = 0 \/ addr + size > MaxUint \/ Below(addr) = {} THEN Refusal
          ELSE ReadRef(ref, addr - ref.addr, size)
    BY <2>1, ReadIs, Zenon
  <2>3. ~ Refusal.ok
    BY DEF Refusal
  <2> QED BY <2>2, <2>3, Zenon
<1>4. m \in 1 .. Len(snap.refs) /\ (ref.addr = addr \/ ref.addr <= addr)
  BY <1>1, <1>3, PickedOne, Zenon
<1>5. PICK r \in 1 .. Len(Written) : IsFull(r) /\ RefersTo(ref, r)
  BY <1>1, <1>4, Zenon DEF RefsAre
<1> HIDE DEF m, ref
<1>6. ref.addr <= addr
  <2>1. addr <= addr
    OBVIOUS
  <2> QED BY <1>4, <2>1, Zenon
<1>7. HasCells(r, addr, size) /\ Read(addr, size).cells = CellsAt(r, addr, size)
  BY <1>2, <1>3, <1>5, <1>6, RefReads, Zenon
<1> QED BY <1>5, <1>7, Zenon DEF IsFull

\* Two records whose cells have no address in common.
Apart(q, r) ==
  \/ Written[q].vals[1] + Len(Written[q].vals[2]) <= Written[r].vals[1]
  \/ Written[q].vals[1] >= Written[r].vals[1] + Len(Written[r].vals[2])

LEMMA HeldIsRead ==
  ASSUME IInv, status = "ok", opts.lazy, NEW addr \in Nat \ {0}, NEW size \in Nat \ {0},
         NEW r \in 1 .. Len(Written), Written[r].tag = TagObject, HasCells(r, addr, size),
         \A q \in 1 .. Len(Written) : q # r /\ Written[q].tag = TagObject => Apart(q, r)
  PROVE  Read(addr, size).ok
<1> DEFINE m == Picked(addr)
           ref == snap.refs[m]
           base == Written[r].vals[1]
           len == Len(Written[r].vals[2])
<1>1. Given /\ InOrder(snap.refs) /\ RefsAre(snap.refs, Len(Written))
  BY ReturnedWhole, Zenon DEF Result
<1>2. file \in Seq(Cells) /\ MaxUint \in Nat
  BY <1>1, GivenNumbers, MaxUintIsNat, Zenon
<1>3. base \in Nat /\ len \in Nat /\ base <= addr /\ addr + size <= base + len
  BY ObjectParts, Zenon DEF HasCells
<1>4. IsFull(r)
  <2>1. len > 0
    <3> HIDE DEF base, len
    <3> QED BY <1>3
  <2> QED BY <2>1, Zenon DEF IsFull
<1>5. PICK p \in 1 .. Len(snap.refs) : RefersTo(snap.refs[p], r)
  BY <1>1, <1>4, Zenon DEF RefsAre
<1>6. snap.refs[p].addr = base /\ base + len <= MaxUint
  BY <1>5, Zenon DEF RefersTo
<1>7. p \in Below(addr)
  <2>1. DOMAIN snap.refs = 1 .. Len(snap.refs)
    <3>1. IsSeq(snap.refs)
      BY <1>1, Zenon DEF InOrder
    <3> QED BY <3>1 DEF IsSeq
  <2>2. snap.refs[p].addr <= addr
    BY <1>3, <1>6, Zenon
  <2> QED BY <1>5, <2>1, <2>2, Zenon DEF Below
<1>8. Read(addr, size) = ReadRef(ref, addr - ref.addr, size)
  <2>1. size # 0 /\ addr # 0 /\ Below(addr) # {}
    BY <1>7
  <2>2. Read(addr, size) =
          IF addr = 0 \/ addr + size > MaxUint \/ Below(addr) = {} THEN Refusal
          ELSE ReadRef(ref, addr - ref.addr, size)
    BY <2>1, ReadIs, Zenon
  <2>3. ~ (addr + size > MaxUint)
    <3> HIDE DEF base, len
    <3> QED BY <1>2, <1>3, <1>6
  <2> QED BY <2>1, <2>2, <2>3, Zenon
<1>9. /\ m \in 1 .. Len(snap.refs)
      /\ ref.addr = addr \/ (ref.addr <= addr /\ \A x \in Below(addr) : x = m \/ snap.refs[x].addr <= ref.addr)
  BY <1>1, <1>7, PickedOne, Zenon
<1>10. PICK q \in 1 .. Len(Written) : IsFull(q) /\ RefersTo(ref, q)
  BY <1>1, <1>9, Zenon DEF RefsAre
<1> DEFINE start == Written[q].vals[1]
           full == Len(Written[q].vals[2])
<1>11. start = ref.addr /\ start \in Nat /\ full \in Nat /\ full > 0 /\ Written[q].tag = TagObject
  <2>1. start = ref.addr /\ full > 0 /\ Written[q].tag = TagObject
    BY <1>10, Zenon DEF RefersTo, IsFull
  <2> QED BY <2>1, ObjectParts, Zenon
<1>12. start <= addr /\ (start = addr \/ base <= start)
  <2>1. start = addr \/ (start <= addr /\ (p = m \/ snap.refs[p].addr <= ref.addr))
    BY <1>7, <1>9, <1>11, Zenon
  <2>2. p = m => base = start
    BY <1>6, <1>11, Zenon
  <2>3. snap.refs[p].addr <= ref.addr => base <= start
    BY <1>6, <1>11, Zenon
  <2> HIDE DEF start, base, m, ref
  <2> QED BY <1>3, <1>11, <2>1, <2>2, <2>3
<1>13. q = r
  <2> SUFFICES ASSUME q # r PROVE FALSE
    OBVIOUS
  <2>1. start + full <= base \/ start >= base + len
    BY <1>11, Zenon DEF Apart
  <2>2. /\ addr \in Nat /\ size \in Nat /\ size > 0
        /\ start \in Nat /\ full \in Nat /\ full > 0
    BY <1>11
  <2> HIDE DEF start, full, base, len
  <2> QED BY ONLY <1>3, <1>12, <2>1, <2>2
<1>14. ref.addr <= addr /\ RefersTo(ref, r)
  BY <1>10, <1>11, <1>12, <1>13, Zenon
<1> HIDE DEF ref, m
<1>15. ReadRef(ref, addr - ref.addr, size).ok
  <2>1. addr \in Nat
    OBVIOUS
  <2> QED BY <1>2, <1>14, <2>1, RefReads, Zenon
<1> QED BY <1>8, <1>15, Zenon
LEMMA ReadsReturned ==
  ASSUME IInv
  PROVE  ReadsAreTheDump
<1> DEFINE objects == ValsOf(TagObject)
           found == Found(TagObject, Len(Written))
           Covering(addr, size) ==
             {i \in DOMAIN objects : /\ objects[i][1] <= addr
                                     /\ addr + size <= objects[i][1] + Len(objects[i][2])}
           Cut(i, addr, size) ==
             SubSeq(objects[i][2], addr - objects[i][1] + 1, addr - objects[i][1] + size)
           Alone(i) ==
             \A j \in DOMAIN objects \ {i} :
               objects[j][1] + Len(objects[j][2]) <= objects[i][1]
                 \/ objects[j][1] >= objects[i][1] + Len(objects[i][2])
<1> SUFFICES ASSUME status = "ok", opts.lazy,
                    NEW addr \in 0 .. MaxUint, NEW size \in 1 .. MaxMemRangeSize
             PROVE  /\ Read(addr, size).ok =>
                         \E i \in Covering(addr, size) : Read(addr, size).cells = Cut(i, addr, size)
                    /\ \A i \in Covering(addr, size) :
                         Alone(i) => addr = 0 \/ Read(addr, size).ok
  BY Zenon DEF ReadsAreTheDump
<1>1. addr \in Nat /\ size \in Nat \ {0}
  <2>1. MaxUint \in Nat /\ MaxMemRangeSize \in Nat
    BY MaxUintIsNat, ReaderAssumption
  <2> QED BY <2>1
<1>2. IsSeq(Written) /\ DOMAIN Written = 1 .. Len(Written)
  BY ReturnedWhole, Zenon
<1>3. /\ objects = [i \in DOMAIN found |-> Written[found[i]].vals]
      /\ DOMAIN objects = 1 .. Len(found)
      /\ \A i \in 1 .. Len(found) : found[i] \in DOMAIN Written /\ Written[found[i]].tag = TagObject
      /\ \A k \in DOMAIN Written :
           Written[k].tag = TagObject => \E i \in 1 .. Len(found) : found[i] = k
  <2>1. Numbered(TagObject)
    BY <1>2, ValsOfRecords, Zenon
  <2> QED BY <2>1, Zenon DEF Numbered
<1> HIDE DEF objects, found
<1>4. \A i \in DOMAIN objects : /\ objects[i] = Written[found[i]].vals
                                /\ found[i] \in 1 .. Len(Written)
                                /\ Written[found[i]].tag = TagObject
  BY <1>2, <1>3
<1>5. \A i \in DOMAIN objects :
        /\ i \in Covering(addr, size) <=> HasCells(found[i], addr, size)
        /\ Cut(i, addr, size) = CellsAt(found[i], addr, size)
  <2> TAKE i \in DOMAIN objects
  <2>1. objects[i] = Written[found[i]].vals
    BY <1>4
  <2>2. i \in Covering(addr, size) <=> HasCells(found[i], addr, size)
    BY <2>1, Zenon DEF HasCells
  <2>3. Cut(i, addr, size) = CellsAt(found[i], addr, size)
    BY <2>1, Zenon DEF CellsAt
  <2> QED BY <2>2, <2>3, Zenon
<1>6. \A i, j \in DOMAIN objects :
        Apart(found[j], found[i])
          <=> \/ objects[j][1] + Len(objects[j][2]) <= objects[i][1]
              \/ objects[j][1] >= objects[i][1] + Len(objects[i][2])
  <2> TAKE i, j \in DOMAIN objects
  <2>1. objects[i] = Written[found[i]].vals /\ objects[j] = Written[found[j]].vals
    BY <1>4
  <2> QED BY <2>1, Zenon DEF Apart
<1>7. \A i \in Covering(addr, size) : i \in DOMAIN objects
  OBVIOUS
<1>8. ASSUME NEW i \in DOMAIN objects, Alone(i), NEW q \in 1 .. Len(Written), q # found[i],
             Written[q].tag = TagObject
      PROVE  Apart(q, found[i])
  <2>1. PICK j \in DOMAIN objects : found[j] = q
    BY <1>2, <1>3, <1>8, Zenon
  <2>2. j # i
    BY <1>8, <2>1, Zenon
  <2>3. Apart(found[j], found[i])
    BY <1>6, <1>8, <2>1, <2>2
  <2> QED BY <2>1, <2>3, Zenon
<1> HIDE DEF Covering, Cut, Alone
<1>9. ASSUME Read(addr, size).ok
      PROVE  \E i \in Covering(addr, size) : Read(addr, size).cells = Cut(i, addr, size)
  <2>1. PICK r \in 1 .. Len(Written) :
          /\ Written[r].tag = TagObject /\ HasCells(r, addr, size)
          /\ Read(addr, size).cells = CellsAt(r, addr, size)
    BY <1>1, <1>9, ReadIsHeld, Zenon
  <2>2. PICK i \in DOMAIN objects : found[i] = r
    BY <1>2, <1>3, <2>1, Zenon
  <2> QED BY <1>5, <2>1, <2>2, Zenon
<1>10. ASSUME NEW i \in Covering(addr, size), Alone(i), addr # 0 PROVE Read(addr, size).ok
  <2>1. i \in DOMAIN objects
    BY <1>7, <1>10, Zenon
  <2> DEFINE r == found[i]
  <2>2. /\ r \in 1 .. Len(Written) /\ Written[r].tag = TagObject /\ HasCells(r, addr, size)
        /\ \A q \in 1 .. Len(Written) : q # r /\ Written[q].tag = TagObject => Apart(q, r)
    BY <1>4, <1>5, <1>8, <1>10, <2>1, Zenon
  <2>3. addr \in Nat \ {0}
    BY <1>1, <1>10
  <2> HIDE DEF r
  <2> QED BY <1>1, <2>2, <2>3, HeldIsRead, Zenon
<1> QED BY <1>9, <1>10, Zenon

\* What is read back through the resolver is what the dump holds there in one
\* object, and a read is granted wherever an object that overlaps no other has
\* all of it, except at address 0 (contentresolver.go: Read).
THEOREM ReadsAreHeld == Spec => []ReadsAreTheDump
BY ReadsReturned, Invariant, PTL
=============================================================================
