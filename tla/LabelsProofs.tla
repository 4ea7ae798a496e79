---------------------------- MODULE LabelsProofs ----------------------------
(***************************************************************************)
(* Proofs about Labels, for every process, table, platform and limit that  *)
(* WorldsAssumption and HostsAssumption allow.  Three arguments:           *)
(*   - what is read is there: a read yields at most what the process has   *)
(*     at that address, whatever the dump lacks and whatever has become    *)
(*     unreadable (HeapReadIsHeap, BodyReadIsMemory), so a string, a label *)
(*     or a list that is decoded is the one the program had set;           *)
(*   - IInv carries this through the decoder: ResultInv about the results  *)
(*     so far, WalkInv about the list at hand, DiagInv about what is told  *)
(*     of them.  Both properties, of the results and of the answers,       *)
(*     follow from it;                                                     *)
(*   - what is there is read: with every object of a goroutine's labels in *)
(*     the dump the probe reads its label map (KeptRead to KeptMapRead).   *)
(***************************************************************************)
EXTENDS Labels, FiniteSetTheorems, WellFoundedInduction, TLAPS

\* A nonempty set of numbers has a smallest one.
LEMMA Smallest ==
  ASSUME NEW S \in SUBSET Nat, S # {}
  PROVE  \E x \in S : \A y \in S : x <= y
<1>1. PICK x \in S : \A y \in S : ~ (<<y, x>> \in OpToRel(<, Nat))
  BY NatLessThanWellFounded, WFMin
<1>2. \A y \in S : ~ (y < x)
  BY <1>1 DEF OpToRel
<1>3. \A y \in S : y \in Nat /\ x \in Nat
  OBVIOUS
<1> QED BY <1>2, <1>3

\* Induction over the numbers, on a set of them.
LEMMA SetInduction ==
  ASSUME NEW S, 0 \in S, \A n \in Nat : n \in S => n + 1 \in S
  PROVE  Nat \subseteq S
<1>1. SUFFICES ASSUME NEW m \in Nat, m \notin S PROVE FALSE
  OBVIOUS
<1>2. PICK low \in Nat \ S : \A n \in Nat \ S : low <= n
  BY <1>1, Smallest
<1>3. low # 0 /\ low - 1 \in Nat
  BY <1>2
<1>4. low - 1 \in S
  BY <1>2, <1>3
<1> QED BY <1>2, <1>3, <1>4

\* A nonempty set of numbers up to b has a largest one.
LEMMA Largest ==
  ASSUME NEW S \in SUBSET Nat, S # {}, NEW b \in Nat, \A x \in S : x <= b
  PROVE  \E x \in S : \A y \in S : y <= x
<1> DEFINE R == {k \in Nat : \E x \in S : b - k <= x}
<1>1. PICK k \in Nat : k \in R /\ \A n \in R : ~ (n < k)
  <2>1. R # {} /\ R \subseteq Nat
    <3>1. PICK x \in S : TRUE
      OBVIOUS
    <3>2. b - b <= x /\ b \in Nat
      BY <3>1
    <3> QED BY <3>2
  <2>2. PICK x \in R : \A y \in R : ~ (<<y, x>> \in OpToRel(<, Nat))
    BY <2>1, NatLessThanWellFounded, WFMin
  <2> QED BY <2>1, <2>2 DEF OpToRel
<1>2. PICK x \in S : b - k <= x
  BY <1>1
<1>3. ASSUME NEW y \in S PROVE y <= x
  <2>1. SUFFICES ASSUME y > x PROVE FALSE
    OBVIOUS
  <2>2. b - y \in R
    OBVIOUS
  <2>3. b - y < k
    BY <1>2, <2>1
  <2> QED BY <1>1, <2>2, <2>3
<1> QED BY <1>2, <1>3

\* The object a read goes to: the last to start, the longest of those.
Before(objects, a) ==
  {o \in objects : o.data # <<>> /\ ~ Overflows(o.addr, Len(o.data)) /\ o.addr <= a}
LastOf(S, o) ==
  o \in S /\ \A p \in S : p.addr < o.addr \/ (p.addr = o.addr /\ Len(p.data) <= Len(o.data))

LEMMA LastExists ==
  ASSUME NEW S, S # {}, NEW a \in Nat, NEW b \in Nat,
         \A o \in S : o.addr \in Nat /\ Len(o.data) \in Nat /\ o.addr <= a /\ Len(o.data) <= b
  PROVE  \E o : LastOf(S, o)
<1> DEFINE A == {o.addr : o \in S}
<1>0. A # {} /\ A \in SUBSET Nat /\ \A x \in A : x <= a
  OBVIOUS
<1>1. PICK x \in A : \A y \in A : y <= x
  <2> HIDE DEF A
  <2> QED BY <1>0, Largest
<1> DEFINE T == {o \in S : o.addr = x}
           B == {Len(o.data) : o \in T}
<1>2. B # {} /\ B \subseteq Nat /\ \A l \in B : l <= b
  BY <1>1
<1>3. PICK l \in B : \A k \in B : k <= l
  BY <1>2, Largest
<1>4. PICK o \in T : Len(o.data) = l
  BY <1>3
<1>5. ASSUME NEW p \in S PROVE p.addr < o.addr \/ (p.addr = o.addr /\ Len(p.data) <= Len(o.data))
  <2>1. p.addr <= x /\ o.addr = x /\ p.addr \in Nat /\ x \in Nat
    BY <1>1, <1>4
  <2>2. p.addr = x => Len(p.data) <= l
    BY <1>3
  <2> QED BY <2>1, <2>2, <1>4
<1> QED BY <1>4, <1>5 DEF LastOf

-----------------------------------------------------------------------------
(* Reading *)

Units == Seq(Nat)

LEMMA EmptySequence == \A S : \A s \in Seq(S) : Len(s) = 0 <=> s = <<>>
OBVIOUS

LEMMA EmptyText == \A text \in Units : Len(text) = 0 <=> text = <<>>
BY DEF Units

LEMMA UnitsAreNumbers == \A s \in Units : \A k \in 1 .. Len(s) : s[k] \in Nat
BY DEF Units

LEMMA CutOf ==
  ASSUME NEW bytes \in Units, NEW k \in Nat, NEW n \in Nat, k + n <= Len(bytes)
  PROVE  /\ Cut(bytes, k, n) \in Units /\ Len(Cut(bytes, k, n)) = n
         /\ \A j \in 1 .. n : Cut(bytes, k, n)[j] = bytes[k + j]
BY DEF Cut, Units

\* What is read in the heap is what the process has there.
LEMMA MemoryReadIsHeap ==
  ASSUME NEW w, NEW objects \in SUBSET w.objects, NEW a \in Nat, NEW n \in Nat \ {0},
         \A o \in w.objects : o.addr \in Nat /\ o.data \in Units
  PROVE  MemoryRead(objects, a, n) \subseteq HeapBytes(w, a, n)
<1> DEFINE S == Before(objects, a)
           o == CHOOSE o \in S : \A p \in S :
                  p.addr < o.addr \/ (p.addr = o.addr /\ Len(p.data) <= Len(o.data))
<1>1. CASE a = 0 \/ Overflows(a, n) \/ S = {}
  <2>1. MemoryRead(objects, a, n) = Unreadable
    BY <1>1 DEF MemoryRead, Before
  <2> QED BY <2>1 DEF Unreadable
<1>2. CASE ~ (a = 0 \/ Overflows(a, n) \/ S = {})
  <2>1. \E p : LastOf(S, p)
    <3>1. AddressLimit \in Nat
      BY AddressAssumption
    <3>2. \A p \in S : p.addr \in Nat /\ Len(p.data) \in Nat /\ p.addr <= a /\ Len(p.data) <= AddressLimit
      BY <3>1 DEF Before, Overflows, Units
    <3> HIDE DEF S
    <3> QED BY <1>2, <3>1, <3>2, LastExists
  <2>2. o \in S
    BY <2>1 DEF LastOf
  <2>3. o \in w.objects
    BY <2>2 DEF Before
  <2>4. MemoryRead(objects, a, n)
          = IF Inside(a, n, o.addr, Len(o.data)) THEN {Cut(o.data, a - o.addr, n)} ELSE Unreadable
    BY <1>2 DEF MemoryRead, Before
  <2> HIDE DEF o
  <2> QED BY <2>3, <2>4 DEF HeapBytes, Unreadable
<1> QED BY <1>1, <1>2

\* The processes of the constant.
LEMMA Processes ==
  ASSUME NEW w \in Worlds
  PROVE  /\ IsProcess(w) /\ w.slide \in Nat /\ w.offset \in Nat
         /\ \A o \in w.objects : o.addr \in Nat /\ o.data \in Units
         /\ \A s \in w.sections :
              s.addr \in Nat /\ s.file \in Units /\ s.live \in Units /\ FileIsMemory(s)
         /\ Len(w.goroutines) \in Nat /\ DOMAIN w.goroutines = 1 .. Len(w.goroutines)
         /\ \A i \in DOMAIN w.goroutines :
              w.goroutines[i].addr \in Nat /\ w.written[i] \in Seq(Units \X Units) /\ Carries(w, i)
BY WorldsAssumption DEF IsProcess, IsList, Units, Texts

LEMMA HeapTypes ==
  ASSUME NEW w \in Worlds, NEW a \in Nat, NEW n \in Nat
  PROVE  /\ \A b \in HeapBytes(w, a, n) : b \in Units /\ Len(b) = n
         /\ HeapWords(w, a) \subseteq Nat
<1>1. ASSUME NEW m \in Nat, NEW b \in HeapBytes(w, a, m) PROVE b \in Units /\ Len(b) = m
  <2>1. PICK o \in w.objects : Inside(a, m, o.addr, Len(o.data)) /\ b = Cut(o.data, a - o.addr, m)
    BY <1>1 DEF HeapBytes
  <2>2. o.addr \in Nat /\ o.data \in Units /\ Len(o.data) \in Nat
    BY Processes DEF Units
  <2>3. a - o.addr \in Nat /\ (a - o.addr) + m <= Len(o.data)
    BY <2>1, <2>2 DEF Inside
  <2> QED BY <2>1, <2>2, <2>3, CutOf
<1>2. \A b \in HeapBytes(w, a, 1) : b[1] \in Nat
  BY <1>1 DEF Units
<1> QED BY <1>1, <1>2 DEF HeapWords

LEMMA HeapReadIsHeap ==
  ASSUME world \in Worlds, NEW a \in Nat, NEW n \in Nat \ {0}
  PROVE  /\ HeapRead(a, n) \subseteq HeapBytes(world, a, n)
         /\ Word(a) \subseteq HeapWords(world, a)
<1>1. ASSUME NEW m \in Nat \ {0} PROVE HeapRead(a, m) \subseteq HeapBytes(world, a, m)
  <2>1. Objects \in SUBSET world.objects
    BY DEF Objects
  <2>2. MemoryRead(Objects, a, m) \subseteq HeapBytes(world, a, m)
    BY <2>1, MemoryReadIsHeap, Processes
  <2> QED BY <2>2 DEF HeapRead, Unreadable
<1>2. HeapRead(a, 1) \subseteq HeapBytes(world, a, 1)
  BY <1>1
<1> QED BY <1>1, <1>2 DEF Word, HeapWords

LEMMA TheIsIn == \A S : S # Unreadable => The(S) \in S
BY DEF The, Unreadable

\* The extra readers serve what the memory has.
LEMMA FileReadIsImage ==
  ASSUME NEW w \in Worlds, NEW a \in Nat, NEW n \in Nat \ {0}
  PROVE  FileRead(w.sections, w.slide, a, n) \subseteq ImageBytes(w, a, n)
<1>0. AddressLimit \in Nat /\ w.slide \in Nat
  BY AddressAssumption, Processes
<1>1. CASE a = 0 \/ Overflows(a, n) \/ a < w.slide
  BY <1>1 DEF FileRead, Unreadable
<1>2. CASE ~ (a = 0 \/ Overflows(a, n) \/ a < w.slide)
  <2> SUFFICES ASSUME NEW b \in FileRead(w.sections, w.slide, a, n) PROVE b \in ImageBytes(w, a, n)
    OBVIOUS
  <2>1. PICK s \in w.sections : /\ FileBacked(s) /\ Inside(a - w.slide, n, s.addr, Len(s.file))
                               /\ b = Cut(s.file, a - w.slide - s.addr, n)
    BY <1>2 DEF FileRead
  <2>2. /\ s.addr \in Nat /\ s.file \in Units /\ s.live \in Units
        /\ Len(s.file) <= Len(s.live) /\ \A k \in 1 .. Len(s.file) : s.file[k] = s.live[k]
    BY <2>1, Processes DEF FileIsMemory, FileBacked, Eligible
  <2>3. Len(s.file) \in Nat /\ Len(s.live) \in Nat
    BY <2>2 DEF Units
  <2> DEFINE at == a - w.slide - s.addr
  <2>4. /\ at \in Nat /\ at + n <= Len(s.file) /\ at + n <= Len(s.live)
        /\ a - (s.addr + w.slide) = at /\ Inside(a, n, s.addr + w.slide, Len(s.live))
    <3> DEFINE x == s.addr
               y == Len(s.file)
               z == Len(s.live)
               slide == w.slide
    <3>1. x \in Nat /\ y \in Nat /\ z \in Nat /\ y <= z /\ slide \in Nat
      BY <1>0, <2>2, <2>3
    <3>2. ~ (a < slide) /\ a - slide >= x /\ (a - slide) + n <= x + y
      BY <1>2, <2>1 DEF Inside
    <3>3. at = a - slide - x
      OBVIOUS
    <3> HIDE DEF x, y, z, slide
    <3>4. /\ a - slide - x \in Nat /\ (a - slide - x) + n <= y /\ (a - slide - x) + n <= z
          /\ a - (x + slide) = a - slide - x /\ a >= x + slide /\ a + n <= (x + slide) + z
      BY <3>1, <3>2
    <3> HIDE DEF at
    <3> QED BY <3>3, <3>4 DEF Inside, x, y, z, slide
  <2> HIDE DEF at
  <2>5. Cut(s.file, at, n) = Cut(s.live, at, n)
    <3>1. /\ Cut(s.file, at, n) \in Units /\ Len(Cut(s.file, at, n)) = n
          /\ \A j \in 1 .. n : Cut(s.file, at, n)[j] = s.file[at + j]
      BY <2>2, <2>4, CutOf
    <3>2. /\ Cut(s.live, at, n) \in Units /\ Len(Cut(s.live, at, n)) = n
          /\ \A j \in 1 .. n : Cut(s.live, at, n)[j] = s.live[at + j]
      BY <2>2, <2>4, CutOf
    <3>3. \A j \in 1 .. n : s.file[at + j] = s.live[at + j]
      <4> SUFFICES ASSUME NEW j \in 1 .. n PROVE s.file[at + j] = s.live[at + j]
        OBVIOUS
      <4>1. at + j \in 1 .. Len(s.file)
        BY <2>3, <2>4
      <4> QED BY <2>2, <4>1
    <3> QED BY <3>1, <3>2, <3>3 DEF Units
  <2>6. b = Cut(s.live, a - (s.addr + w.slide), n)
    BY <2>1, <2>4, <2>5 DEF at
  <2> QED BY <2>4, <2>6 DEF ImageBytes
<1> QED BY <1>1, <1>2

LEMMA LiveReadIsImage ==
  ASSUME NEW w \in Worlds, NEW a \in Nat, NEW n \in Nat \ {0}
  PROVE  LiveRead(w.sections, w.slide, a, n) \subseteq ImageBytes(w, a, n)
<1> SUFFICES ASSUME NEW b \in LiveRead(w.sections, w.slide, a, n) PROVE b \in ImageBytes(w, a, n)
  OBVIOUS
<1>1. PICK s \in w.sections : /\ Inside(a, n, s.addr + w.slide, Len(s.live))
                             /\ b = Cut(s.live, a - w.slide - s.addr, n)
  BY DEF LiveRead, Unreadable
<1>2. s.addr \in Nat /\ w.slide \in Nat
  BY Processes
<1>3. a - w.slide - s.addr = a - (s.addr + w.slide)
  BY <1>2
<1> QED BY <1>1, <1>3 DEF ImageBytes

Readers == {"none", "live", "elf", "image"}

LEMMA BodyReadIsMemory ==
  ASSUME world \in Worlds, reader \in Readers, TrueAddresses, NEW a \in Nat, NEW n \in Nat \ {0},
         NEW extra \in BOOLEAN
  PROVE  StringBody(extra, a, n) \subseteq HeapBytes(world, a, n) \cup ImageBytes(world, a, n)
<1>1. HeapRead(a, n) \subseteq HeapBytes(world, a, n)
  BY HeapReadIsHeap
<1> DEFINE more == ExtraRead(reader, "image" \notin gone, world.sections, world.slide, a, n)
<1>2. more \subseteq ImageBytes(world, a, n)
  <2>1. /\ LiveRead(world.sections, world.slide, a, n) \subseteq ImageBytes(world, a, n)
        /\ FileRead(world.sections, world.slide, a, n) \subseteq ImageBytes(world, a, n)
    BY FileReadIsImage, LiveReadIsImage
  <2>2. reader = "elf" => world.slide = 0
    BY DEF TrueAddresses
  <2> QED BY <2>1, <2>2 DEF ExtraRead, Unreadable, Readers
<1> HIDE DEF more
<1>3. BodyRead(a, n) \subseteq HeapRead(a, n) \cup more
  BY DEF BodyRead, FirstOf, Unreadable, more
<1> QED BY <1>1, <1>2, <1>3 DEF StringBody

-----------------------------------------------------------------------------
(* Decoding *)

Mistakes == {"malformed", "g_object_missing", "labels_object_missing", "label_array_missing",
             "string_missing"}
Statuses == Mistakes \cup {"decoded", "no_labels", "unsupported_runtime"}

\* A string that is decoded is the one the process has.
DecodesTo(found, text) ==
  \/ found.status = "decoded" /\ found.text = text
  \/ found.status \in Mistakes

LEMMA StringIsSpelled ==
  ASSUME world \in Worlds, reader \in Readers, TrueAddresses, NEW a \in Nat, NEW extra \in BOOLEAN,
         NEW text \in Units, Spells(world, a, text)
  PROVE  DecodesTo(DecodeString(extra, a), text)
<1> DEFINE data == Word(a + StringDataOffset)
           len == Word(a + StringLenOffset)
<1>1. /\ data \subseteq HeapWords(world, a + StringDataOffset) /\ data \subseteq Nat
      /\ len \subseteq HeapWords(world, a + StringLenOffset) /\ len \subseteq Nat
  <2>1. a + StringDataOffset \in Nat /\ a + StringLenOffset \in Nat
    BY DEF StringDataOffset, StringLenOffset
  <2> QED BY <2>1, HeapReadIsHeap, HeapTypes
<1>2. CASE Overflows(a, StringLenOffset)
  BY <1>2 DEF DecodeString, NotFound, DecodesTo, Mistakes
<1>3. CASE ~ Overflows(a, StringLenOffset)
  <2>1. DecodeString(extra, a) = StringAt(extra, data, len)
    BY <1>3 DEF DecodeString
  <2> HIDE DEF data, len
  <2>2. CASE data = Unreadable \/ len = Unreadable
    BY <2>1, <2>2 DEF StringAt, NotFound, DecodesTo, Mistakes
  <2>3. CASE ~ (data = Unreadable \/ len = Unreadable)
    <3> DEFINE d == The(data)
               n == The(len)
    <3>1. d \in data /\ n \in len
      BY <2>3, TheIsIn
    <3>2. /\ d \in Nat /\ n \in Nat /\ d \in HeapWords(world, a + StringDataOffset)
          /\ n \in HeapWords(world, a + StringLenOffset)
      BY <1>1, <3>1
    <3> HIDE DEF d, n
    <3>3. /\ n = Len(text)
          /\ n # 0 => HeapBytes(world, d, n) \cup ImageBytes(world, d, n) \subseteq {text}
      BY <3>2 DEF Spells
    <3>4. StringAt(extra, data, len) =
            IF n > MaxStringLen THEN NotFound("malformed")
            ELSE IF n = 0 THEN Found(<<>>)
            ELSE IF d = 0 THEN NotFound("string_missing")
            ELSE Text(StringBody(extra, d, n))
      BY <2>3 DEF StringAt, d, n
    <3>5. n = 0 => text = <<>>
      BY <3>3, EmptyText
    <3>6. n # 0 => DecodesTo(Text(StringBody(extra, d, n)), text)
      <4>1. SUFFICES ASSUME n # 0 PROVE DecodesTo(Text(StringBody(extra, d, n)), text)
        OBVIOUS
      <4> DEFINE body == StringBody(extra, d, n)
      <4>2. body \subseteq {text}
        <5>1. body \subseteq HeapBytes(world, d, n) \cup ImageBytes(world, d, n)
          BY <3>2, <4>1, BodyReadIsMemory
        <5> QED BY <3>3, <4>1, <5>1
      <4> HIDE DEF body
      <4>3. body # Unreadable => The(body) = text
        BY <4>2, TheIsIn
      <4>4. DecodesTo(Text(body), text)
        BY <4>3 DEF Text, Found, NotFound, DecodesTo, Mistakes
      <4> QED BY <4>4 DEF body
    <3> QED BY <2>1, <3>4, <3>5, <3>6 DEF Found, NotFound, DecodesTo, Mistakes
  <2> QED BY <2>2, <2>3
<1> QED BY <1>2, <1>3

Pairs == Units \X Units

\* The labels after one more pair.
LEMMA LatestStart == \A pairs : Latest(pairs, 0) = {}
BY DEF Latest

LEMMA LatestStep ==
  ASSUME NEW pairs \in Seq(Pairs), NEW n \in Nat, n < Len(pairs)
  PROVE  Latest(pairs, n + 1) = Put(Latest(pairs, n), pairs[n + 1][1], pairs[n + 1][2])
<1> DEFINE new == pairs[n + 1]
           Final(k, m) == \A later \in k + 1 .. m : pairs[later][1] # pairs[k][1]
<1>1. new \in Pairs /\ <<new[1], new[2]>> = new
  BY DEF Pairs
<1>2. ASSUME NEW x \in Latest(pairs, n + 1) PROVE x \in Put(Latest(pairs, n), new[1], new[2])
  <2>1. PICK k \in 1 .. n + 1 : Final(k, n + 1) /\ x = pairs[k]
    BY <1>2 DEF Latest
  <2>2. CASE k = n + 1
    BY <1>1, <2>1, <2>2 DEF Put
  <2>3. CASE k # n + 1
    <3>1. k \in 1 .. n /\ n + 1 \in k + 1 .. n + 1 /\ (k + 1 .. n) \subseteq (k + 1 .. n + 1)
      BY <2>1, <2>3
    <3>2. Final(k, n) /\ new[1] # x[1]
      BY <2>1, <3>1
    <3>3. x \in Latest(pairs, n)
      BY <2>1, <3>1, <3>2 DEF Latest
    <3> QED BY <3>2, <3>3 DEF Put
  <2> QED BY <2>2, <2>3
<1>3. ASSUME NEW x \in Put(Latest(pairs, n), new[1], new[2]) PROVE x \in Latest(pairs, n + 1)
  <2>1. CASE x = new
    <3>1. Final(n + 1, n + 1) /\ n + 1 \in 1 .. n + 1
      OBVIOUS
    <3> QED BY <2>1, <3>1 DEF Latest
  <2>2. CASE x # new
    <3>1. x \in Latest(pairs, n) /\ x[1] # new[1]
      BY <1>1, <1>3, <2>2 DEF Put
    <3>2. PICK k \in 1 .. n : Final(k, n) /\ x = pairs[k]
      BY <3>1 DEF Latest
    <3>3. Final(k, n + 1)
      <4> SUFFICES ASSUME NEW later \in k + 1 .. n + 1 PROVE pairs[later][1] # pairs[k][1]
        OBVIOUS
      <4>1. CASE later = n + 1
        BY <3>1, <3>2, <4>1
      <4>2. CASE later # n + 1
        <5>1. later \in k + 1 .. n
          BY <4>2
        <5> QED BY <3>2, <5>1
      <4> QED BY <4>1, <4>2
    <3>4. k \in 1 .. n + 1
      OBVIOUS
    <3> QED BY <3>2, <3>3, <3>4 DEF Latest
  <2> QED BY <2>1, <2>2
<1> QED BY <1>2, <1>3

LEMMA LatestType ==
  ASSUME NEW pairs \in Seq(Pairs), NEW n \in Nat, n <= Len(pairs)
  PROVE  Latest(pairs, n) \in SUBSET Pairs
BY DEF Latest

Walks == [data : Nat, len : Nat, next : Nat \ {0}, status : Statuses, labels : SUBSET Pairs]

\* One label more, or none of them.
GoesOn(after, sofar, pair) ==
  \/ after.status \in Mistakes /\ after.labels = {}
  \/ after = [sofar EXCEPT !.next = @ + 1, !.labels = Put(@, pair[1], pair[2])]

LEMMA LabelIsSpelled ==
  ASSUME world \in Worlds, reader \in Readers, TrueAddresses, NEW extra \in BOOLEAN,
         NEW sofar \in Walks, NEW pair \in Pairs,
         SpellsPair(world, sofar.data, sofar.next, pair)
  PROVE  GoesOn(DecodeLabel(extra, sofar), sofar, pair)
<1> DEFINE at == sofar.data + (sofar.next - 1) * LabelSize
           key == DecodeString(extra, at + LabelKeyOffset)
           value == DecodeString(extra, at + LabelValueOffset)
<1>1. at + LabelKeyOffset \in Nat /\ at + LabelValueOffset \in Nat
  BY DEF Walks, LabelSize, LabelKeyOffset, LabelValueOffset
<1>2. Spells(world, at + LabelKeyOffset, pair[1]) /\ Spells(world, at + LabelValueOffset, pair[2])
  BY DEF SpellsPair
<1>3. pair[1] \in Units /\ pair[2] \in Units
  BY DEF Pairs
<1>4. DecodeLabel(extra, sofar) = WithLabel(sofar, key, value)
  BY DEF DecodeLabel
<1> HIDE DEF at
<1>5. DecodesTo(key, pair[1]) /\ DecodesTo(value, pair[2])
  BY <1>1, <1>2, <1>3, StringIsSpelled
<1> HIDE DEF key, value
<1>6. "decoded" \notin Mistakes
  BY DEF Mistakes
<1>7. CASE key.status # "decoded"
  <2>1. WithLabel(sofar, key, value) = [sofar EXCEPT !.status = key.status, !.labels = {}]
    BY <1>7 DEF WithLabel
  <2>2. key.status \in Mistakes
    BY <1>5, <1>7 DEF DecodesTo
  <2> QED BY <1>4, <2>1, <2>2 DEF GoesOn, Walks
<1>8. CASE key.status = "decoded" /\ value.status # "decoded"
  <2>1. WithLabel(sofar, key, value) = [sofar EXCEPT !.status = value.status, !.labels = {}]
    BY <1>8 DEF WithLabel
  <2>2. value.status \in Mistakes
    BY <1>5, <1>8 DEF DecodesTo
  <2> QED BY <1>4, <2>1, <2>2 DEF GoesOn, Walks
<1>9. CASE key.status = "decoded" /\ value.status = "decoded"
  <2>1. WithLabel(sofar, key, value) =
          [sofar EXCEPT !.next = @ + 1, !.labels = Put(@, key.text, value.text)]
    BY <1>9 DEF WithLabel
  <2>2. key.text = pair[1] /\ value.text = pair[2]
    BY <1>5, <1>6, <1>9 DEF DecodesTo
  <2> QED BY <1>4, <2>1, <2>2 DEF GoesOn
<1> QED BY <1>7, <1>8, <1>9

\* The walk that starts at a label map.
Starts(header, w, pairs) ==
  \/ header.status \in Mistakes
  \/ header = NoWalk /\ pairs = <<>>
  \/ /\ header = [NoWalk EXCEPT !.data = header.data, !.len = Len(pairs)]
     /\ Len(pairs) # 0 /\ header.data \in Nat
     /\ \A k \in 1 .. Len(pairs) : SpellsPair(w, header.data, k, pairs[k])

LEMMA HeaderIsListed ==
  ASSUME world \in Worlds, NEW a \in Nat, NEW pairs \in Seq(Pairs), Lists(world, a, pairs)
  PROVE  Starts(DecodeHeader(a), world, pairs)
<1> DEFINE data == Word(a + SliceDataOffset)
           len == Word(a + SliceLenOffset)
           cap == Word(a + SliceCapOffset)
<1>1. /\ data \subseteq HeapWords(world, a + SliceDataOffset) /\ data \subseteq Nat
      /\ len \subseteq HeapWords(world, a + SliceLenOffset) /\ len \subseteq Nat
  <2>1. a + SliceDataOffset \in Nat /\ a + SliceLenOffset \in Nat
    BY DEF SliceDataOffset, SliceLenOffset
  <2> QED BY <2>1, HeapReadIsHeap, HeapTypes
<1>2. CASE Overflows(a, SliceCapOffset)
  BY <1>2 DEF DecodeHeader, Failed, NoWalk, Starts, Mistakes
<1>3. CASE ~ Overflows(a, SliceCapOffset)
  <2>1. DecodeHeader(a) = SliceAt(data, len, cap)
    BY <1>3 DEF DecodeHeader
  <2> HIDE DEF data, len, cap
  <2>2. CASE Unreadable \in {data, len, cap}
    BY <2>1, <2>2 DEF SliceAt, Failed, NoWalk, Starts, Mistakes
  <2>3. CASE Unreadable \notin {data, len, cap}
    <3> DEFINE d == The(data)
               n == The(len)
               c == The(cap)
    <3>1. d \in data /\ n \in len
      BY <2>3, TheIsIn
    <3>2. /\ d \in Nat /\ n \in Nat /\ d \in HeapWords(world, a + SliceDataOffset)
          /\ n \in HeapWords(world, a + SliceLenOffset)
      BY <1>1, <3>1
    <3>3. DecodeHeader(a) = LabelArray(d, n, c)
      BY <2>1, <2>3 DEF SliceAt
    <3> HIDE DEF d, n, c
    <3>4. n = Len(pairs) /\ \A k \in 1 .. n : SpellsPair(world, d, k, pairs[k])
      BY <3>2 DEF Lists
    <3>5. \/ \E status \in Mistakes : LabelArray(d, n, c) = Failed(status)
          \/ n = 0 /\ LabelArray(d, n, c) = NoWalk
          \/ n # 0 /\ LabelArray(d, n, c) = [NoWalk EXCEPT !.data = d, !.len = n]
      BY DEF LabelArray, Mistakes
    <3>6. CASE \E status \in Mistakes : LabelArray(d, n, c) = Failed(status)
      BY <3>3, <3>6 DEF Failed, NoWalk, Starts
    <3>7. CASE n = 0 /\ LabelArray(d, n, c) = NoWalk
      <4>1. pairs = <<>>
        BY <3>4, <3>7, EmptySequence
      <4> QED BY <3>3, <3>7, <4>1 DEF Starts
    <3>8. CASE n # 0 /\ LabelArray(d, n, c) = [NoWalk EXCEPT !.data = d, !.len = n]
      <4>1. [NoWalk EXCEPT !.data = d, !.len = n].data = d
        BY DEF NoWalk
      <4> QED BY <3>2, <3>3, <3>4, <3>8, <4>1 DEF Starts
    <3> QED BY <3>5, <3>6, <3>7, <3>8
  <2> QED BY <2>2, <2>3
<1> QED BY <1>2, <1>3

LEMMA HeaderIsCarried ==
  ASSUME world \in Worlds, layout = {world.offset}, NEW i \in DOMAIN world.goroutines,
         NEW g, g = world.goroutines[i].addr
  PROVE  LET header == HeaderOf(g, Word(g + The(layout)))
         IN \/ header = Failed("no_labels") /\ world.written[i] = <<>>
            \/ Starts(header, world, world.written[i])
<1> DEFINE pairs == world.written[i]
           field == Word(g + The(layout))
           header == HeaderOf(g, field)
<1>1. g \in Nat /\ world.offset \in Nat /\ pairs \in Seq(Pairs) /\ Carries(world, i)
  BY Processes DEF Pairs
<1>2. The(layout) = world.offset
  BY DEF The
<1>3. field \subseteq HeapWords(world, g + world.offset) /\ field \subseteq Nat
  <2>1. g + world.offset \in Nat
    BY <1>1
  <2>2. /\ Word(g + world.offset) \subseteq HeapWords(world, g + world.offset)
        /\ HeapWords(world, g + world.offset) \subseteq Nat
    BY <2>1, HeapReadIsHeap, HeapTypes
  <2> QED BY <1>2, <2>2
<1> HIDE DEF field, pairs
<1>4. CASE Overflows(g, The(layout)) \/ field = Unreadable
  <2>1. header = Failed("malformed") \/ header = Failed("g_object_missing")
    BY <1>4 DEF HeaderOf
  <2> HIDE DEF header
  <2>2. Starts(header, world, pairs)
    BY <2>1 DEF Failed, NoWalk, Starts, Mistakes
  <2> QED BY <2>2 DEF header, field, pairs
<1>5. CASE ~ (Overflows(g, The(layout)) \/ field = Unreadable)
  <2> DEFINE a == The(field)
  <2>1. a \in field
    BY <1>5, TheIsIn
  <2>2. a \in Nat /\ a \in HeapWords(world, g + world.offset)
    BY <1>3, <2>1
  <2>3. header = IF a = 0 THEN Failed("no_labels") ELSE DecodeHeader(a)
    BY <1>5 DEF HeaderOf
  <2>4. IF a = 0 THEN pairs = <<>> ELSE Lists(world, a, pairs)
    BY <1>1, <2>2 DEF Carries, pairs
  <2> HIDE DEF a, header
  <2>5. a # 0 => Starts(DecodeHeader(a), world, pairs)
    BY <1>1, <2>2, <2>4, HeaderIsListed
  <2>6. \/ header = Failed("no_labels") /\ pairs = <<>>
        \/ Starts(header, world, pairs)
    BY <2>3, <2>4, <2>5
  <2> QED BY <2>6 DEF header, field, pairs
<1> QED BY <1>4, <1>5

\* The table gives the offset of the process, or none.
LEMMA LookupIsTrue ==
  ASSUME NEW w \in Worlds
  PROVE  Lookup(w.version, w.ptrSize, w.bigEndian) \in {NoLayout, {w.offset}}
<1> DEFINE I == {k \in 1 .. Len(VerifiedTable) :
                   Applies(VerifiedTable[k], w.version, w.ptrSize, w.bigEndian)}
           first == IF I # {} THEN Min(I) ELSE 0
<1>1. Lookup(w.version, w.ptrSize, w.bigEndian)
        = IF w.version = <<>> \/ first = 0 THEN NoLayout ELSE {VerifiedTable[first].offset}
  BY DEF Lookup, SelectInSeq
<1>2. first # 0 => VerifiedTable[first].offset = w.offset
  <2>1. SUFFICES ASSUME first # 0 PROVE first \in I
    BY WorldsAssumption DEF IsTrueOf, IsList
  <2>2. I # {} /\ first = Min(I)
    BY <2>1
  <2>3. I \in SUBSET Nat
    BY WorldsAssumption DEF IsList
  <2> HIDE DEF I, first
  <2>4. \E x \in I : \A y \in I : x =< y
    BY <2>2, <2>3, Smallest
  <2> QED BY <2>2, <2>4 DEF Min
<1> QED BY <1>1, <1>2

-----------------------------------------------------------------------------
(* The inductive invariant.  Base has the order of the stages; what it says   *)
(* of results is conditional, as the properties are.                          *)

Base ==
  /\ world \in Worlds /\ reader \in Readers
  /\ pc \in {"parsed", "decoding", "labels", "recovered", "diagnosed", "done"}
  /\ pc = "parsed" => gone = {} /\ results = <<>> /\ cur = 1 /\ answer = NoAnswer
  /\ pc \in {"decoding", "labels"} =>
       /\ answer.kind \in {"pending", "probed"}
       /\ answer.kind = "pending" => layout = {world.offset}
  /\ pc \in {"recovered", "diagnosed"} => answer.kind = "pending"
  /\ pc # "done" => answer.kind \in {"pending", "probed"}

\* A result says what was written, or that it does not know.
TrueResult(res, i) ==
  \/ res.status = "decoded" /\ res.labels = Written(i)
  \/ res.status = "no_labels" /\ res.labels = {} /\ Written(i) = {}
  \/ res.status \in Mistakes /\ res.labels = {}
  \/ res.status = "unsupported_runtime" /\ res.labels = {}

Unsupported(res) == res.status = "unsupported_runtime"
Results == [status : Statuses, labels : SUBSET Pairs]

ResultInv ==
  /\ results \in Seq(Results) /\ Len(results) <= Len(world.goroutines)
  /\ pc \in {"decoding", "labels"} => cur = Len(results) + 1
  /\ pc \in {"recovered", "diagnosed"} => Len(results) = Len(world.goroutines)
  /\ \A i \in 1 .. Len(results) : TrueResult(results[i], i)
  /\ \A i, j \in 1 .. Len(results) :
       Unsupported(results[i]) => Unsupported(results[j]) /\ pc \notin {"decoding", "labels"}

WalkInv ==
  pc = "labels" =>
    /\ cur <= Len(world.goroutines) /\ walk \in Walks /\ walk.status = "decoded"
    /\ walk.len = Len(world.written[cur]) /\ walk.next <= walk.len
    /\ walk.labels = Latest(world.written[cur], walk.next - 1)
    /\ \A k \in 1 .. walk.len : SpellsPair(world, walk.data, k, world.written[cur][k])

DiagInv == pc = "diagnosed" => diag = DiagnosticsFromHeapLabels(results)

IInv == Base /\ (TrueAddresses /\ TrueOffset => ResultInv /\ WalkInv /\ DiagInv)

LEMMA InitBase == ASSUME Init PROVE Base /\ ResultInv /\ WalkInv /\ DiagInv
<1>1. world \in Worlds /\ reader \in Readers
  BY HostsAssumption DEF Init, OpenSelfProcessReader, Readers
<1>2. Base
  BY <1>1 DEF Init, Base, NoAnswer
<1>3. Len(world.goroutines) \in Nat
  BY <1>1, Processes
<1>4. ResultInv
  BY <1>3 DEF Init, ResultInv
<1> QED BY <1>2, <1>4 DEF Init, WalkInv, DiagInv

LEMMA BaseStep == ASSUME Base, [Next]_vars PROVE Base'
<1>1. world \in Worlds /\ reader \in Readers /\ world' = world /\ reader' = reader
  BY DEF Base, Next, vars, LookupLayout, Probe, DecodeGoroutine, NextLabel, DecodedAll, Lose, Diagnose,
     Load, ListBubbles, Cancel, Conclude, Given
<1>2. CASE UNCHANGED vars
  BY <1>2 DEF Base, vars
<1>3. CASE LookupLayout
  <2>1. layout' \in {NoLayout, {world.offset}}
    BY <1>1, <1>3, LookupIsTrue DEF LookupLayout
  <2> QED BY <1>1, <1>3, <2>1 DEF Base, LookupLayout, NoAnswer
<1>4. CASE Probe
  BY <1>1, <1>4 DEF Base, Probe, NoAnswer
<1>5. CASE DecodeGoroutine
  BY <1>1, <1>5 DEF Base, DecodeGoroutine, Given
<1>6. CASE NextLabel
  BY <1>1, <1>6 DEF Base, NextLabel, Given
<1>7. CASE DecodedAll
  BY <1>1, <1>7 DEF Base, DecodedAll, Given
<1>8. CASE \E what \in {"file", "image"} : Lose(what)
  BY <1>1, <1>8 DEF Base, Lose, Given
<1>9. CASE Diagnose
  BY <1>1, <1>9 DEF Base, Diagnose, Given
<1>10. CASE Load \/ ListBubbles \/ Cancel
  <2>1. pc' = "done"
    BY <1>10 DEF Load, ListBubbles, Cancel, Conclude
  <2> QED BY <1>1, <2>1 DEF Base
<1> QED BY <1>2, <1>3, <1>4, <1>5, <1>6, <1>7, <1>8, <1>9, <1>10 DEF Next

\* Nobody changes the offset after the probe, and nobody else calls it so.
LEMMA TruthStays ==
  ASSUME Base, [Next]_vars, (TrueAddresses /\ TrueOffset)'
  PROVE  TrueAddresses /\ TrueOffset
<1>1. TrueAddresses
  BY DEF TrueAddresses, Next, vars, LookupLayout, Probe, DecodeGoroutine, NextLabel, DecodedAll, Lose,
     Diagnose, Load, ListBubbles, Cancel, Conclude, Given
<1>2. SUFFICES ASSUME answer.kind = "probed" PROVE layout = {world.offset}
  BY <1>1 DEF TrueOffset
<1>3. pc \notin {"parsed", "recovered", "diagnosed"}
  BY <1>2 DEF Base, NoAnswer
<1>4. UNCHANGED <<layout, world, answer>>
  BY <1>3 DEF Next, vars, LookupLayout, Probe, DecodeGoroutine, NextLabel, DecodedAll, Lose,
     Diagnose, Load, ListBubbles, Cancel, Conclude, Given
<1> QED BY <1>2, <1>4 DEF TrueOffset

LEMMA OffsetKnown ==
  ASSUME Base, TrueOffset, pc \in {"decoding", "labels"}
  PROVE  layout = {world.offset}
BY DEF Base, TrueOffset

\* A goroutine's result is added.
LEMMA RecordStep ==
  ASSUME world \in Worlds, ResultInv, pc \in {"decoding", "labels"}, cur <= Len(world.goroutines),
         world' = world, NEW status \in Statuses, NEW labels \in SUBSET Pairs, Record(status, labels),
         TrueResult([status |-> status, labels |-> labels], cur), status # "unsupported_runtime",
         pc' = "decoding"
  PROVE  ResultInv'
<1> DEFINE new == [status |-> status, labels |-> labels]
           m == Len(results)
<1>1. /\ results \in Seq(Results) /\ m \in Nat /\ cur = m + 1 /\ new \in Results
      /\ Len(world.goroutines) \in Nat
  BY Processes DEF ResultInv, Results
<1>2. results' = Append(results, new) /\ cur' = cur + 1
  BY DEF Record
<1>3. /\ results' \in Seq(Results) /\ Len(results') = m + 1 /\ results'[m + 1] = new
      /\ \A i \in 1 .. m : results'[i] = results[i]
  <2> HIDE DEF new
  <2> QED BY <1>1, <1>2
<1>4. /\ \A i \in 1 .. m : TrueResult(results[i], i)
      /\ \A i \in 1 .. m : ~ Unsupported(results[i])
  BY DEF ResultInv
<1>5. ~ Unsupported(new)
  BY DEF Unsupported
<1> HIDE DEF new, m
<1>6. ASSUME NEW i \in 1 .. m + 1
      PROVE  TrueResult(results[i], i)' /\ ~ Unsupported(results[i])'
  <2>1. TrueResult(results'[i], i) => TrueResult(results[i], i)'
    BY DEF TrueResult, Written
  <2>0. ~ Unsupported(results'[i]) => ~ Unsupported(results[i])'
    BY DEF Unsupported
  <2>2. CASE i = m + 1
    <3>1. TrueResult(new, m + 1)
      BY <1>1 DEF new
    <3>2. TrueResult(results'[i], i)
      BY <1>3, <2>2, <3>1
    <3>3. ~ Unsupported(results'[i])
      BY <1>3, <1>5, <2>2
    <3> QED BY <2>0, <2>1, <3>2, <3>3
  <2>3. CASE i # m + 1
    <3>1. i \in 1 .. m
      BY <1>1, <2>3
    <3>2. TrueResult(results'[i], i) /\ ~ Unsupported(results'[i])
      BY <1>3, <1>4, <3>1
    <3> QED BY <2>0, <2>1, <3>2
  <2> QED BY <2>2, <2>3
<1>7. Len(results') <= Len(world'.goroutines) /\ cur' = Len(results') + 1
  BY <1>1, <1>2, <1>3
<1> QED BY <1>3, <1>6, <1>7 DEF ResultInv

LEMMA DecodeGoroutineStep ==
  ASSUME IInv, TrueAddresses, TrueOffset, DecodeGoroutine
  PROVE  ResultInv' /\ WalkInv'
<1> DEFINE g == world.goroutines[cur].addr
           header == HeaderOf(g, Word(g + The(layout)))
           pairs == world.written[cur]
<1>1. /\ Base /\ ResultInv /\ pc = "decoding" /\ cur <= Len(world.goroutines) /\ world \in Worlds
      /\ world' = world
  BY DEF IInv, Base, DecodeGoroutine, Given
<1>2. /\ cur \in DOMAIN world.goroutines /\ cur \in Nat \ {0} /\ pairs \in Seq(Pairs)
      /\ Len(world.goroutines) \in Nat
  <2>1. cur = Len(results) + 1 /\ Len(results) \in Nat
    BY <1>1 DEF ResultInv
  <2> QED BY <1>1, <2>1, Processes DEF Pairs
<1>3. layout = {world.offset}
  BY <1>1, OffsetKnown
<1>4. \/ header = Failed("no_labels") /\ pairs = <<>>
      \/ Starts(header, world, pairs)
  BY <1>1, <1>2, <1>3, HeaderIsCarried
<1>5. IF Finished(header) THEN Record(header.status, {}) /\ UNCHANGED <<pc, walk>>
      ELSE pc' = "labels" /\ walk' = header /\ UNCHANGED <<results, cur>>
  BY DEF DecodeGoroutine
<1> HIDE DEF header, pairs
<1>6. pairs = <<>> => Written(cur) = {}
  BY LatestStart DEF Written, pairs
<1>7. CASE Finished(header)
  <2>1. /\ header.status \in Statuses /\ header.status # "unsupported_runtime"
        /\ \/ header.status \in {"no_labels", "decoded"} /\ pairs = <<>>
           \/ header.status \in Mistakes
    <3>1. CASE header = Failed("no_labels") /\ pairs = <<>>
      BY <3>1 DEF Failed, NoWalk, Statuses
    <3>2. CASE header.status \in Mistakes
      BY <3>2 DEF Mistakes, Statuses
    <3>3. CASE header = NoWalk /\ pairs = <<>>
      BY <3>3 DEF NoWalk, Statuses
    <3>4. CASE /\ header = [NoWalk EXCEPT !.data = header.data, !.len = Len(pairs)]
               /\ Len(pairs) # 0
      <4>1. header.status = "decoded" /\ header.next = 1 /\ header.len = Len(pairs)
        BY <3>4 DEF NoWalk
      <4>2. Len(pairs) \in Nat
        BY <1>2
      <4> QED BY <1>7, <3>4, <4>1, <4>2 DEF Finished
    <3> QED BY <1>4, <3>1, <3>2, <3>3, <3>4 DEF Starts
  <2>2. TrueResult([status |-> header.status, labels |-> {}], cur)
    BY <1>6, <2>1 DEF TrueResult
  <2>3. ResultInv'
    <3>1. Record(header.status, {}) /\ pc' = "decoding" /\ {} \in SUBSET Pairs
      BY <1>1, <1>5, <1>7
    <3> QED BY <1>1, <2>1, <2>2, <3>1, RecordStep
  <2> QED BY <1>1, <1>5, <1>7, <2>3 DEF WalkInv
<1>8. CASE ~ Finished(header)
  <2>1. pc' = "labels" /\ walk' = header /\ UNCHANGED <<results, cur>>
    BY <1>5, <1>8
  <2>2. /\ header.status = "decoded" /\ header.next = 1 /\ header.len = Len(pairs) /\ Len(pairs) # 0
        /\ header \in Walks /\ header.labels = {}
        /\ \A k \in 1 .. Len(pairs) : SpellsPair(world, header.data, k, pairs[k])
    <3>0. header.status = "decoded" /\ ~ (header.next > header.len)
      BY <1>8 DEF Finished
    <3>1. CASE header = Failed("no_labels") /\ pairs = <<>>
      BY <3>0, <3>1 DEF Failed, NoWalk
    <3>2. CASE header.status \in Mistakes
      BY <3>0, <3>2 DEF Mistakes
    <3>3. CASE header = NoWalk /\ pairs = <<>>
      BY <3>0, <3>3 DEF NoWalk
    <3>4. CASE /\ header = [NoWalk EXCEPT !.data = header.data, !.len = Len(pairs)]
               /\ Len(pairs) # 0 /\ header.data \in Nat
               /\ \A k \in 1 .. Len(pairs) : SpellsPair(world, header.data, k, pairs[k])
      <4>1. /\ header.status = "decoded" /\ header.next = 1 /\ header.len = Len(pairs)
            /\ header.labels = {}
        BY <3>4 DEF NoWalk
      <4>2. Len(pairs) \in Nat
        BY <1>2
      <4>3. header = [data |-> header.data, len |-> Len(pairs), next |-> 1, status |-> "decoded",
                      labels |-> {}]
        BY <3>4 DEF NoWalk
      <4>4. header \in Walks
        BY <3>4, <4>2, <4>3 DEF Walks, Statuses
      <4> QED BY <3>4, <4>1, <4>4
    <3> QED BY <1>4, <3>1, <3>2, <3>3, <3>4 DEF Starts
  <2>3. ResultInv'
    <3>1. \A i \in 1 .. Len(results) : TrueResult(results[i], i) => TrueResult(results[i], i)'
      BY <1>1, <2>1 DEF TrueResult, Written
    <3> QED BY <1>1, <2>1, <3>1 DEF ResultInv, Unsupported
  <2>4. WalkInv'
    <3>1. Latest(pairs, header.next - 1) = {}
      BY <2>2, LatestStart
    <3>2. header.next <= header.len
      BY <1>2, <2>2
    <3> QED BY <1>1, <2>1, <2>2, <3>1, <3>2 DEF WalkInv, pairs
  <2> QED BY <2>3, <2>4
<1> QED BY <1>7, <1>8

LEMMA NextLabelStep ==
  ASSUME IInv, TrueAddresses, TrueOffset, NextLabel
  PROVE  ResultInv' /\ WalkInv'
<1> DEFINE w == DecodeLabel(TRUE, walk)
           pairs == world.written[cur]
           pair == pairs[walk.next]
           done == [walk EXCEPT !.next = @ + 1, !.labels = Put(@, pair[1], pair[2])]
<1>1. /\ Base /\ ResultInv /\ WalkInv /\ pc = "labels" /\ world \in Worlds /\ reader \in Readers
      /\ world' = world
  BY DEF IInv, Base, NextLabel, Given
<1>2. /\ cur <= Len(world.goroutines) /\ walk \in Walks /\ walk.status = "decoded"
      /\ walk.len = Len(pairs) /\ walk.next <= walk.len
      /\ walk.labels = Latest(pairs, walk.next - 1)
      /\ \A k \in 1 .. walk.len : SpellsPair(world, walk.data, k, pairs[k])
  BY <1>1 DEF WalkInv
<1>3. cur \in DOMAIN world.goroutines /\ pairs \in Seq(Pairs) /\ Len(world.goroutines) \in Nat
  <2>1. cur = Len(results) + 1 /\ Len(results) \in Nat
    BY <1>1 DEF ResultInv
  <2> QED BY <1>1, <1>2, <2>1, Processes DEF Pairs
<1>4. walk.next \in Nat \ {0} /\ walk.next \in 1 .. walk.len /\ walk.next \in 1 .. Len(pairs)
  BY <1>2 DEF Walks
<1> HIDE DEF pairs
<1>5. pair \in Pairs /\ SpellsPair(world, walk.data, walk.next, pair)
  BY <1>2, <1>3, <1>4
<1>6. GoesOn(w, walk, pair)
  <2> HIDE DEF pair
  <2> QED BY <1>1, <1>2, <1>5, LabelIsSpelled
<1>7. IF Finished(w) THEN Record(w.status, w.labels) /\ walk' = NoWalk /\ pc' = "decoding"
      ELSE walk' = w /\ UNCHANGED <<pc, results, cur>>
  BY DEF NextLabel
<1>8. done.labels = Latest(pairs, walk.next)
  <2>1. done.labels = Put(walk.labels, pair[1], pair[2])
    BY <1>2 DEF Walks
  <2>2. Latest(pairs, (walk.next - 1) + 1) = Put(Latest(pairs, walk.next - 1), pair[1], pair[2])
    <3> DEFINE n == walk.next - 1
    <3>1. n \in Nat /\ n < Len(pairs) /\ n + 1 = walk.next
      BY <1>3, <1>4
    <3> HIDE DEF n
    <3>2. Latest(pairs, n + 1) = Put(Latest(pairs, n), pairs[n + 1][1], pairs[n + 1][2])
      BY <1>3, <3>1, LatestStep
    <3> QED BY <3>1, <3>2 DEF n
  <2>3. (walk.next - 1) + 1 = walk.next
    BY <1>4
  <2> QED BY <1>2, <2>1, <2>2, <2>3
<1>9. /\ done.status = "decoded" /\ done.next = walk.next + 1 /\ done.data = walk.data
      /\ done.len = walk.len
  BY <1>2 DEF Walks
<1>10. done.labels \in SUBSET Pairs
  BY <1>3, <1>4, <1>8, LatestType
<1>11. done \in Walks
  <2>1. done.labels = Put(walk.labels, pair[1], pair[2])
    BY <1>2 DEF Walks
  <2>2. Put(walk.labels, pair[1], pair[2]) \in SUBSET Pairs /\ walk.next + 1 \in Nat \ {0}
    BY <1>4, <1>10, <2>1
  <2> HIDE DEF pair
  <2> QED BY <1>2, <2>2 DEF Walks
<1> HIDE DEF w, pair, done
<1>12. CASE Finished(w)
  <2>1. /\ w.status \in Statuses /\ w.labels \in SUBSET Pairs /\ w.status # "unsupported_runtime"
        /\ TrueResult([status |-> w.status, labels |-> w.labels], cur)
    <3>1. CASE w.status \in Mistakes /\ w.labels = {}
      BY <3>1 DEF Mistakes, Statuses, TrueResult
    <3>2. CASE w = done
      <4>1. walk.next = Len(pairs)
        BY <1>2, <1>3, <1>4, <1>9, <1>12, <3>2 DEF Finished
      <4>2. w.labels = Written(cur)
        BY <1>8, <3>2, <4>1 DEF Written, pairs
      <4> QED BY <1>9, <1>10, <3>2, <4>2 DEF Statuses, TrueResult
    <3> QED BY <1>6, <3>1, <3>2 DEF GoesOn, done
  <2>2. Record(w.status, w.labels) /\ pc' = "decoding"
    BY <1>7, <1>12
  <2>3. ResultInv'
    BY <1>1, <1>2, <2>1, <2>2, RecordStep
  <2> QED BY <2>2, <2>3 DEF WalkInv
<1>13. CASE ~ Finished(w)
  <2>1. w = done
    <3>1. ~ (w.status \in Mistakes)
      BY <1>13 DEF Finished, Mistakes
    <3> QED BY <1>6, <3>1 DEF GoesOn, done
  <2>2. walk' = done /\ pc' = pc /\ results' = results /\ cur' = cur
    BY <1>7, <1>13, <2>1
  <2>3. ResultInv'
    <3>1. \A i \in 1 .. Len(results) : TrueResult(results[i], i) => TrueResult(results[i], i)'
      BY <1>1, <2>2 DEF TrueResult, Written
    <3> QED BY <1>1, <2>2, <3>1 DEF ResultInv, Unsupported
  <2>4. WalkInv'
    <3>1. done.next <= done.len
      BY <1>9, <1>13, <2>1, <1>4, <1>11 DEF Finished, Walks
    <3>2. done.next - 1 = walk.next
      BY <1>4, <1>9
    <3> QED BY <1>1, <1>2, <1>8, <1>9, <1>11, <2>2, <3>1, <3>2 DEF WalkInv, pairs
  <2> QED BY <2>3, <2>4
<1> QED BY <1>12, <1>13

LEMMA LookupStep ==
  ASSUME IInv, LookupLayout
  PROVE  ResultInv' /\ WalkInv'
<1> DEFINE none == [status |-> "unsupported_runtime", labels |-> {}]
           n == Len(world.goroutines)
<1>1. /\ world \in Worlds /\ results = <<>> /\ cur = 1 /\ world' = world /\ cur' = cur
  BY DEF IInv, Base, LookupLayout, Given
<1>2. n \in Nat /\ DOMAIN world.goroutines = 1 .. n
  BY <1>1, Processes
<1>3. none \in Results /\ none.status = "unsupported_runtime" /\ none.labels = {}
  BY DEF Results, Statuses
<1> HIDE DEF none
<1>4. CASE layout' = NoLayout
  <2>1. pc' = "recovered" /\ results' = [i \in 1 .. n |-> none]
    BY <1>2, <1>4 DEF LookupLayout, none
  <2>2. results' \in Seq(Results) /\ Len(results') = n
    BY <1>2, <1>3, <2>1
  <2>3. \A i \in 1 .. n : results'[i] = none
    BY <2>1
  <2>4. \A i \in 1 .. n : TrueResult(results[i], i)' /\ Unsupported(results[i])'
    BY <1>3, <2>3 DEF TrueResult, Unsupported
  <2>5. ResultInv'
    BY <1>1, <1>2, <2>1, <2>2, <2>4 DEF ResultInv
  <2> QED BY <2>1, <2>5 DEF WalkInv
<1>5. CASE layout' # NoLayout
  <2>1. pc' = "decoding" /\ results' = <<>>
    BY <1>1, <1>5 DEF LookupLayout
  <2> QED BY <1>1, <1>2, <2>1 DEF ResultInv, WalkInv
<1> QED BY <1>4, <1>5

\* The steps that add no result.
LEMMA ResultsStay ==
  ASSUME IInv, TrueAddresses, TrueOffset, UNCHANGED <<world, results, cur, walk>>,
         \/ pc' = pc
         \/ pc \in {"parsed", "decoding"} /\ pc' = "decoding"
         \/ pc' = "done"
         \/ pc' \in {"recovered", "diagnosed"} /\ pc \notin {"parsed", "labels"}
             /\ Len(results) = Len(world.goroutines)
  PROVE  ResultInv' /\ WalkInv'
<1>1. ResultInv /\ WalkInv /\ Base
  BY DEF IInv
<1>2. \A i \in 1 .. Len(results) : TrueResult(results[i], i) => TrueResult(results[i], i)'
  BY DEF TrueResult, Written
<1>3. pc = "parsed" => Len(results) = 0 /\ cur = 1
  BY <1>1 DEF Base
<1>4. pc \in {"recovered", "diagnosed", "done"} => pc' \notin {"decoding", "labels"}
  OBVIOUS
<1>5. ResultInv'
  BY <1>1, <1>2, <1>3, <1>4 DEF ResultInv, Unsupported
<1>6. WalkInv'
  BY <1>1 DEF WalkInv
<1> QED BY <1>5, <1>6

LEMMA TruthStep ==
  ASSUME IInv, [Next]_vars, (TrueAddresses /\ TrueOffset)'
  PROVE  ResultInv' /\ WalkInv' /\ DiagInv'
<1>1. TrueAddresses /\ TrueOffset /\ Base /\ ResultInv /\ WalkInv /\ DiagInv
  BY TruthStays DEF IInv
<1>2. Len(world.goroutines) \in Nat /\ Len(results) \in Nat
  BY <1>1, Processes DEF Base, ResultInv
<1>3. CASE UNCHANGED vars
  <2>1. ResultInv' /\ WalkInv'
    BY <1>1, <1>3, ResultsStay DEF vars
  <2>2. pc' = pc /\ diag' = diag /\ results' = results /\ world' = world
    BY <1>3 DEF vars
  <2>3. DiagInv'
    <3>1. pc = "diagnosed" => diag = DiagnosticsFromHeapLabels(results)
      BY <1>1 DEF DiagInv
    <3>2. DiagnosticsFromHeapLabels(results)' = DiagnosticsFromHeapLabels(results)
      BY <2>2 DEF DiagnosticsFromHeapLabels, GIDs
    <3> QED BY <2>2, <3>1, <3>2 DEF DiagInv
  <2> QED BY <2>1, <2>3
<1>4. CASE LookupLayout
  <2>1. pc' # "diagnosed"
    BY <1>4 DEF LookupLayout
  <2> QED BY <1>4, <2>1, LookupStep DEF DiagInv
<1>5. CASE Probe
  <2>1. /\ UNCHANGED <<world, results, cur, walk>> /\ pc = "parsed" /\ pc' \in {"decoding", "done"}
    BY <1>5 DEF Probe, Given
  <2> QED BY <1>1, <2>1, ResultsStay DEF DiagInv
<1>6. CASE DecodeGoroutine
  <2>1. pc' # "diagnosed"
    BY <1>6 DEF DecodeGoroutine
  <2> QED BY <1>1, <1>6, <2>1, DecodeGoroutineStep DEF DiagInv
<1>7. CASE NextLabel
  <2>1. pc' # "diagnosed"
    BY <1>7 DEF NextLabel
  <2> QED BY <1>1, <1>7, <2>1, NextLabelStep DEF DiagInv
<1>8. CASE DecodedAll
  <2>1. /\ UNCHANGED <<world, results, cur, walk>> /\ pc = "decoding" /\ pc' \in {"recovered", "done"}
        /\ cur > Len(world.goroutines)
    BY <1>8 DEF DecodedAll, Given
  <2>2. Len(results) = Len(world.goroutines)
    BY <1>1, <1>2, <2>1 DEF ResultInv
  <2> QED BY <1>1, <2>1, <2>2, ResultsStay DEF DiagInv
<1>9. CASE \E what \in {"file", "image"} : Lose(what)
  <2>1. UNCHANGED <<world, results, cur, walk, pc>> /\ pc \in {"decoding", "labels"}
    BY <1>9 DEF Lose, Given
  <2> QED BY <1>1, <2>1, ResultsStay DEF DiagInv
<1>10. CASE Diagnose
  <2>1. /\ UNCHANGED <<world, results, cur, walk>> /\ pc = "recovered" /\ pc' = "diagnosed"
        /\ diag' = DiagnosticsFromHeapLabels(results)
    BY <1>10 DEF Diagnose, Given
  <2>2. Len(results) = Len(world.goroutines)
    BY <1>1, <2>1 DEF ResultInv
  <2>3. ResultInv' /\ WalkInv'
    BY <1>1, <2>1, <2>2, ResultsStay
  <2>4. DiagInv'
    BY <2>1 DEF DiagInv, DiagnosticsFromHeapLabels, GIDs
  <2> QED BY <2>3, <2>4
<1>11. CASE Load \/ ListBubbles \/ Cancel
  <2>1. /\ UNCHANGED <<world, results, cur, walk>> /\ pc' = "done"
    BY <1>11 DEF Load, ListBubbles, Cancel, Conclude, Given
  <2> QED BY <1>1, <2>1, ResultsStay DEF DiagInv
<1> QED BY <1>3, <1>4, <1>5, <1>6, <1>7, <1>8, <1>9, <1>10, <1>11 DEF Next

LEMMA Inductive == Spec => []IInv
<1>1. Init => IInv
  BY InitBase DEF IInv
<1>2. IInv /\ [Next]_vars => IInv'
  <2> SUFFICES ASSUME IInv, [Next]_vars PROVE IInv'
    OBVIOUS
  <2>1. Base'
    BY BaseStep DEF IInv
  <2>2. (TrueAddresses /\ TrueOffset)' => ResultInv' /\ WalkInv' /\ DiagInv'
    BY TruthStep
  <2> QED BY <2>1, <2>2 DEF IInv
<1> QED BY <1>1, <1>2, PTL DEF Spec

\* For every process, table, platform and limit: labels are reported as the
\* program set them or not at all, whatever the dump lacks and whatever
\* becomes unreadable while they are read (heaplabels/decode.go:33-281).
THEOREM LabelsAreTrue == Spec => []DecodedIsWritten
<1>1. IInv => DecodedIsWritten
  <2> SUFFICES ASSUME IInv, TrueAddresses, TrueOffset, NEW i \in DOMAIN results
               PROVE  /\ results[i].status = "decoded" => results[i].labels = Written(i)
                      /\ results[i].status = "no_labels" => Written(i) = {}
    BY DEF DecodedIsWritten
  <2>1. TrueResult(results[i], i)
    BY DEF IInv, ResultInv
  <2> QED BY <2>1 DEF TrueResult, Mistakes
<1> QED BY <1>1, Inductive, PTL

-----------------------------------------------------------------------------
(* What is made of the labels *)

GidOf(i) == world.goroutines[i].gid

LEMMA DistinctGids ==
  ASSUME world \in Worlds
  PROVE  /\ \A i, j \in DOMAIN world.goroutines : GidOf(i) = GidOf(j) => i = j
         /\ GIDs = {GidOf(i) : i \in DOMAIN world.goroutines}
         /\ DOMAIN world.goroutines = 1 .. Len(world.goroutines)
BY WorldsAssumption, Processes DEF IsProcess, GidOf, GIDs

\* A diagnosed recovery: each goroutine has its result.
Diagnosed ==
  /\ world \in Worlds /\ results \in Seq(Results) /\ Len(results) = Len(world.goroutines)
  /\ \A i \in DOMAIN world.goroutines : TrueResult(results[i], i)
  /\ \A i, j \in DOMAIN world.goroutines : Unsupported(results[i]) => Unsupported(results[j])
  /\ diag = DiagnosticsFromHeapLabels(results)

LEMMA DiagnosedThen ==
  ASSUME IInv, TrueAddresses, pc = "diagnosed"
  PROVE  Diagnosed
<1>1. TrueOffset
  BY DEF IInv, Base, TrueOffset
<1>2. /\ world \in Worlds /\ ResultInv /\ DiagInv
  BY <1>1 DEF IInv, Base
<1> QED BY <1>2, DistinctGids DEF Diagnosed, ResultInv, DiagInv

LEMMA ResultOfOne ==
  ASSUME Diagnosed, NEW i \in DOMAIN world.goroutines
  PROVE  ResultOf(GidOf(i)) = results[i]
<1>1. DOMAIN results = DOMAIN world.goroutines
  BY DistinctGids DEF Diagnosed
<1>2. (CHOOSE j \in DOMAIN results : world.goroutines[j].gid = GidOf(i)) = i
  BY <1>1, DistinctGids DEF Diagnosed, GidOf
<1> QED BY <1>2 DEF ResultOf

LEMMA NoSilence ==
  ASSUME Diagnosed, ~ diag.unsupported, NEW i \in DOMAIN world.goroutines,
         GidOf(i) \notin diag.failed
  PROVE  results[i].labels = Written(i)
<1>1. DOMAIN results = DOMAIN world.goroutines /\ DOMAIN results = 1 .. Len(results)
  BY DistinctGids DEF Diagnosed
<1>2. diag.failed = {world.goroutines[j].gid : j \in {j \in DOMAIN results :
                       results[j].status \notin {"decoded", "no_labels", "unsupported_runtime"}}}
  BY DEF Diagnosed, DiagnosticsFromHeapLabels
<1>3. diag.unsupported = (Len(results) > 0 /\ {world.goroutines[j].gid : j \in {j \in DOMAIN results :
                            results[j].status = "unsupported_runtime"}} = GIDs)
  BY DEF Diagnosed, DiagnosticsFromHeapLabels
<1>4. results[i].status \notin Mistakes
  BY <1>1, <1>2 DEF GidOf, Mistakes
<1>5. ~ Unsupported(results[i])
  <2> SUFFICES ASSUME Unsupported(results[i]) PROVE FALSE
    OBVIOUS
  <2>1. \A j \in DOMAIN results : results[j].status = "unsupported_runtime"
    BY <1>1 DEF Diagnosed, Unsupported
  <2>2. {world.goroutines[j].gid : j \in {j \in DOMAIN results :
           results[j].status = "unsupported_runtime"}} = GIDs
    BY <1>1, <2>1 DEF GIDs
  <2>3. Len(results) > 0
    BY <1>1 DEF Diagnosed
  <2> QED BY <1>3, <2>2, <2>3
<1>6. TrueResult(results[i], i)
  BY DEF Diagnosed
<1> QED BY <1>4, <1>5, <1>6 DEF TrueResult, Unsupported

LEMMA SelectedOnes ==
  ASSUME Diagnosed, NEW all \in BOOLEAN
  PROVE  /\ Selected(all) \subseteq DOMAIN world.goroutines
         /\ EligibleGIDs(all) = {GidOf(i) : i \in Selected(all)}
<1>1. GIDs = {GidOf(i) : i \in DOMAIN world.goroutines}
  BY DistinctGids DEF Diagnosed
<1> QED BY <1>1 DEF Selected, EligibleGIDs, GidOf

IndexOf(all) == UNION {ResultOf(g).labels \X {g} : g \in EligibleGIDs(all)}

LEMMA IndexIsTrue ==
  ASSUME Diagnosed, ~ diag.unsupported, NEW all \in BOOLEAN, NEW i \in Selected(all),
         GidOf(i) \notin diag.failed
  PROVE  Written(i) = {l \in Written(i) : <<l, GidOf(i)>> \in IndexOf(all)}
<1>1. i \in DOMAIN world.goroutines /\ GidOf(i) \in EligibleGIDs(all)
  BY SelectedOnes
<1>2. ResultOf(GidOf(i)).labels = Written(i)
  BY <1>1, ResultOfOne, NoSilence
<1>3. \A l \in Written(i) : <<l, GidOf(i)>> \in IndexOf(all)
  BY <1>1, <1>2 DEF IndexOf
<1> QED BY <1>3

-----------------------------------------------------------------------------
(* The list of label sets, for the goroutines and labels of a function F.     *)

GroupOf(F, i) == {j \in DOMAIN F : Marshal(F[j]) = Marshal(F[i])}
IsFirst(F, i) == i \in DOMAIN F /\ \A j \in GroupOf(F, i) : i <= j
BubbleOf(F, i) == [labels |-> F[i], count |-> Cardinality(GroupOf(F, i))]
BubblesOf(F) == {BubbleOf(F, i) : i \in {i \in DOMAIN F : IsFirst(F, i)}}

AccountsBy(F, bubbles, bubble) ==
  /\ \A b \in bubbles :
       /\ b.count = Cardinality({i \in DOMAIN F : bubble[i] = b})
       /\ \E i \in DOMAIN F : bubble[i] = b /\ b.labels = F[i]
  /\ \A b, c \in bubbles : b.labels = c.labels => b = c
  /\ \A i \in DOMAIN F :
       /\ Shown(bubble[i].labels) = Shown(F[i])
       /\ IsText(F[i]) \/ IsText(bubble[i].labels) => bubble[i].labels = F[i]
AccountsFor(F, bubbles) == \E bubble \in [DOMAIN F -> bubbles] : AccountsBy(F, bubbles, bubble)

LabelSets == SUBSET (Units \X Units)

\* JSON shows a string as it is exactly when it consists of characters.
LEMMA TextIsShown ==
  ASSUME NEW t \in Units
  PROVE  /\ (\A k \in DOMAIN t : InCharacter(t, k)) => MarshalString(t) = t
         /\ MarshalString(t) \in Units => MarshalString(t) = t
<1>1. DOMAIN MarshalString(t) = DOMAIN t
  BY DEF MarshalString
<1>2. t = [k \in DOMAIN t |-> t[k]] /\ DOMAIN t = 1 .. Len(t) /\ Len(t) \in Nat
  BY DEF Units
<1>3. ASSUME \A k \in DOMAIN t : InCharacter(t, k) PROVE MarshalString(t) = t
  BY <1>2, <1>3 DEF MarshalString
<1>4. ASSUME MarshalString(t) \in Units PROVE \A k \in DOMAIN t : InCharacter(t, k)
  <2>1. \A k \in DOMAIN MarshalString(t) : MarshalString(t)[k] \in Nat
    BY <1>4 DEF Units
  <2>2. \A k \in DOMAIN t : MarshalString(t)[k] # Escape
    BY <1>1, <2>1 DEF Escape
  <2> QED BY <2>2 DEF MarshalString
<1> QED BY <1>3, <1>4

\* Labels that look alike are the same if one of them is text.
LEMMA TextLooksLikeItself ==
  ASSUME NEW S \in LabelSets, NEW T \in LabelSets, Shown(S) = Shown(T), IsText(S)
  PROVE  S = T
<1>1. ASSUME NEW k \in S PROVE MarshalString(k[1]) = k[1] /\ MarshalString(k[2]) = k[2]
  <2>1. k[1] \in Units /\ k[2] \in Units
    BY DEF LabelSets
  <2>2. \A n \in 1 .. 2 : \A m \in DOMAIN k[n] : InCharacter(k[n], m)
    BY DEF IsText
  <2> QED BY <2>1, <2>2, TextIsShown
<1>2. ASSUME NEW k \in S, NEW l \in T,
             <<MarshalString(l[1]), MarshalString(l[2])>> = <<MarshalString(k[1]), MarshalString(k[2])>>
      PROVE  l = k
  <2>1. /\ k[1] \in Units /\ k[2] \in Units /\ k = <<k[1], k[2]>>
        /\ l[1] \in Units /\ l[2] \in Units /\ l = <<l[1], l[2]>>
    BY DEF LabelSets
  <2>2. MarshalString(l[1]) = k[1] /\ MarshalString(l[2]) = k[2]
    BY <1>1, <1>2
  <2>3. MarshalString(l[1]) = l[1] /\ MarshalString(l[2]) = l[2]
    BY <2>1, <2>2, TextIsShown
  <2> QED BY <2>1, <2>2, <2>3
<1>3. ASSUME NEW k \in S PROVE k \in T
  <2>1. <<MarshalString(k[1]), MarshalString(k[2])>> \in Shown(T)
    BY DEF Shown
  <2>2. PICK l \in T : <<MarshalString(l[1]), MarshalString(l[2])>> =
                       <<MarshalString(k[1]), MarshalString(k[2])>>
    BY <2>1 DEF Shown
  <2> QED BY <1>2, <2>2
<1>4. ASSUME NEW l \in T PROVE l \in S
  <2>1. <<MarshalString(l[1]), MarshalString(l[2])>> \in Shown(S)
    BY DEF Shown
  <2>2. PICK k \in S : <<MarshalString(l[1]), MarshalString(l[2])>> =
                       <<MarshalString(k[1]), MarshalString(k[2])>>
    BY <2>1 DEF Shown
  <2> QED BY <1>2, <2>2
<1> QED BY <1>3, <1>4

LEMMA SameJson ==
  ASSUME NEW S, NEW T, Marshal(S) = Marshal(T)
  PROVE  Shown(S) = Shown(T)
<1>1. ASSUME NEW R PROVE Shown(R) = {<<m[2], m[3]>> : m \in Marshal(R)}
  <2> DEFINE P(l) == Cardinality({m \in R : KeyBefore(m[1], l[1])})
             A(l) == MarshalString(l[1])
             B(l) == MarshalString(l[2])
  <2>1. Marshal(R) = {<<P(l), A(l), B(l)>> : l \in R} /\ Shown(R) = {<<A(l), B(l)>> : l \in R}
    BY DEF Shown, Marshal
  <2> HIDE DEF P, A, B
  <2>2. ASSUME NEW l \in R PROVE <<A(l), B(l)>> \in {<<m[2], m[3]>> : m \in Marshal(R)}
    <3>1. <<P(l), A(l), B(l)>> \in Marshal(R)
      BY <2>1
    <3> QED BY <3>1
  <2>3. ASSUME NEW m \in Marshal(R) PROVE <<m[2], m[3]>> \in Shown(R)
    <3>1. PICK l \in R : m = <<P(l), A(l), B(l)>>
      BY <2>1
    <3>2. m[2] = A(l) /\ m[3] = B(l)
      BY <3>1
    <3> QED BY <2>1, <3>2
  <2> QED BY <2>1, <2>2, <2>3
<1> QED BY <1>1

\* Groups are classes, each with a first member.
LEMMA FirstOfGroup ==
  ASSUME NEW F, DOMAIN F \in SUBSET Nat, NEW i \in DOMAIN F
  PROVE  \E first \in GroupOf(F, i) : IsFirst(F, first) /\ GroupOf(F, first) = GroupOf(F, i)
<1>1. i \in GroupOf(F, i) /\ GroupOf(F, i) \in SUBSET Nat
  BY DEF GroupOf
<1>2. PICK first \in GroupOf(F, i) : \A j \in GroupOf(F, i) : first <= j
  BY <1>1, Smallest
<1>3. GroupOf(F, first) = GroupOf(F, i)
  BY DEF GroupOf
<1>4. first \in DOMAIN F
  BY DEF GroupOf
<1> QED BY <1>2, <1>3, <1>4 DEF IsFirst

LEMMA FirstIsOne ==
  ASSUME NEW F, DOMAIN F \in SUBSET Nat, NEW i, NEW j, IsFirst(F, i), IsFirst(F, j),
         Marshal(F[i]) = Marshal(F[j])
  PROVE  i = j
<1>1. i \in GroupOf(F, j) /\ j \in GroupOf(F, i) /\ i \in Nat /\ j \in Nat
  BY DEF IsFirst, GroupOf
<1>2. i <= j /\ j <= i
  BY <1>1 DEF IsFirst
<1> QED BY <1>1, <1>2

LEMMA GroupsAccount ==
  ASSUME NEW F, DOMAIN F \in SUBSET Nat, \A i \in DOMAIN F : F[i] \in LabelSets
  PROVE  AccountsFor(F, BubblesOf(F))
<1> DEFINE Leads(i, f) == f \in GroupOf(F, i) /\ IsFirst(F, f) /\ GroupOf(F, f) = GroupOf(F, i)
           First(i) == CHOOSE f : Leads(i, f)
           bubble == [i \in DOMAIN F |-> BubbleOf(F, First(i))]
<1>1. ASSUME NEW i \in DOMAIN F PROVE Leads(i, First(i))
  BY FirstOfGroup
<1> HIDE DEF First
<1>2. ASSUME NEW i \in DOMAIN F
      PROVE  /\ First(i) \in DOMAIN F /\ IsFirst(F, First(i)) /\ Marshal(F[First(i)]) = Marshal(F[i])
             /\ bubble[i] = BubbleOf(F, First(i))
             /\ bubble[i].labels = F[First(i)]
  BY <1>1 DEF GroupOf, BubbleOf
<1>3. bubble \in [DOMAIN F -> BubblesOf(F)]
  BY <1>2 DEF BubblesOf
<1>4. \A i, j \in DOMAIN F : IsFirst(F, i) /\ IsFirst(F, j) /\ F[i] = F[j] => i = j
  BY FirstIsOne
<1>5. ASSUME NEW b \in BubblesOf(F)
      PROVE  /\ b.count = Cardinality({i \in DOMAIN F : bubble[i] = b})
             /\ \E i \in DOMAIN F : bubble[i] = b /\ b.labels = F[i]
  <2>1. PICK r \in DOMAIN F : IsFirst(F, r) /\ b = BubbleOf(F, r)
    BY DEF BubblesOf
  <2>2. b.labels = F[r] /\ b.count = Cardinality(GroupOf(F, r))
    BY <2>1 DEF BubbleOf
  <2>3. ASSUME NEW j \in DOMAIN F, bubble[j] = b PROVE j \in GroupOf(F, r)
    <3>1. F[First(j)] = F[r]
      BY <1>2, <2>2, <2>3
    <3> QED BY <1>2, <3>1 DEF GroupOf
  <2>4. ASSUME NEW j \in GroupOf(F, r) PROVE j \in DOMAIN F /\ bubble[j] = b
    <3>1. j \in DOMAIN F /\ Marshal(F[j]) = Marshal(F[r])
      BY DEF GroupOf
    <3>2. First(j) = r
      BY <1>2, <2>1, <3>1, FirstIsOne
    <3> QED BY <1>2, <2>1, <3>1, <3>2
  <2>5. {i \in DOMAIN F : bubble[i] = b} = GroupOf(F, r)
    BY <2>3, <2>4
  <2>6. r \in GroupOf(F, r)
    BY <2>1 DEF GroupOf
  <2> QED BY <2>2, <2>4, <2>5, <2>6
<1>6. ASSUME NEW b \in BubblesOf(F), NEW c \in BubblesOf(F), b.labels = c.labels PROVE b = c
  <2>1. PICK r \in DOMAIN F : IsFirst(F, r) /\ b = BubbleOf(F, r)
    BY DEF BubblesOf
  <2>2. PICK q \in DOMAIN F : IsFirst(F, q) /\ c = BubbleOf(F, q)
    BY DEF BubblesOf
  <2>3. F[r] = F[q]
    BY <1>6, <2>1, <2>2 DEF BubbleOf
  <2> QED BY <1>4, <2>1, <2>2, <2>3
<1>7. ASSUME NEW i \in DOMAIN F
      PROVE  /\ Shown(bubble[i].labels) = Shown(F[i])
             /\ IsText(F[i]) \/ IsText(bubble[i].labels) => bubble[i].labels = F[i]
  <2>1. Shown(F[First(i)]) = Shown(F[i])
    BY <1>2, SameJson
  <2>2. F[First(i)] \in LabelSets /\ F[i] \in LabelSets
    BY <1>2
  <2>3. IsText(F[i]) \/ IsText(F[First(i)]) => F[First(i)] = F[i]
    BY <2>1, <2>2, TextLooksLikeItself
  <2> QED BY <1>2, <2>1, <2>3
<1> HIDE DEF bubble
<1>8. AccountsBy(F, BubblesOf(F), bubble)
  BY <1>5, <1>6, <1>7 DEF AccountsBy
<1> QED BY <1>3, <1>8 DEF AccountsFor

\* The goroutines that had labels, and these.
WrittenOnes(all) == [i \in {i \in Selected(all) : Written(i) # {}} |-> Written(i)]

LEMMA CountsNamed ==
  ASSUME NEW all, NEW bubbles
  PROVE  CountsEveryone(all, bubbles) <=> AccountsFor(WrittenOnes(all), bubbles)
<1> DEFINE L == {i \in Selected(all) : Written(i) # {}}
           W == WrittenOnes(all)
<1>1. DOMAIN W = L /\ \A i \in L : W[i] = Written(i)
  BY DEF WrittenOnes
<1>2. CountsEveryone(all, bubbles) <=>
        \E bubble \in [L -> bubbles] :
          /\ \A b \in bubbles : /\ b.count = Cardinality({i \in L : bubble[i] = b})
                                /\ \E i \in L : bubble[i] = b /\ b.labels = Written(i)
          /\ \A b, c \in bubbles : b.labels = c.labels => b = c
          /\ \A i \in L :
               /\ Shown(bubble[i].labels) = Shown(Written(i))
               /\ IsText(Written(i)) \/ IsText(bubble[i].labels) => bubble[i].labels = Written(i)
  BY DEF CountsEveryone
<1> HIDE DEF L, W
<1>3. ASSUME NEW bubble
      PROVE  AccountsBy(W, bubbles, bubble) <=>
               /\ \A b \in bubbles : /\ b.count = Cardinality({i \in L : bubble[i] = b})
                                     /\ \E i \in L : bubble[i] = b /\ b.labels = Written(i)
               /\ \A b, c \in bubbles : b.labels = c.labels => b = c
               /\ \A i \in L :
                    /\ Shown(bubble[i].labels) = Shown(Written(i))
                    /\ IsText(Written(i)) \/ IsText(bubble[i].labels) => bubble[i].labels = Written(i)
  BY <1>1 DEF AccountsBy
<1>4. AccountsFor(W, bubbles) <=> \E bubble \in [L -> bubbles] : AccountsBy(W, bubbles, bubble)
  BY <1>1 DEF AccountsFor
<1> QED BY <1>2, <1>3, <1>4 DEF W

LEMMA WrittenSets ==
  ASSUME world \in Worlds, NEW i \in DOMAIN world.goroutines
  PROVE  Written(i) \in LabelSets
<1>1. world.written[i] \in Seq(Units \X Units)
  BY Processes
<1>2. \A k \in 1 .. Len(world.written[i]) : world.written[i][k] \in Units \X Units
  BY <1>1
<1> QED BY <1>2 DEF Written, Latest, LabelSets

LEMMA BubblesAreTrue ==
  ASSUME Diagnosed, ~ diag.unsupported, NEW all \in BOOLEAN, diag.failed \cap EligibleGIDs(all) = {}
  PROVE  AccountsFor(WrittenOnes(all), Bubbles(all))
<1>1. /\ Selected(all) \subseteq DOMAIN world.goroutines
      /\ EligibleGIDs(all) = {GidOf(i) : i \in Selected(all)}
  BY SelectedOnes
<1>2. ASSUME NEW i \in Selected(all) PROVE LabelsOf(i) = Written(i)
  <2>1. GidOf(i) \notin diag.failed
    BY <1>1
  <2> QED BY <1>1, <2>1, ResultOfOne, NoSilence DEF LabelsOf, GidOf
<1> DEFINE W == WrittenOnes(all)
           L == Labelled(all)
<1>3. DOMAIN W = L /\ \A i \in L : W[i] = LabelsOf(i)
  BY <1>2 DEF WrittenOnes, Labelled
<1>4. L \subseteq DOMAIN world.goroutines
  BY <1>1 DEF Labelled
<1>5. DOMAIN W \in SUBSET Nat
  <2>1. DOMAIN world.goroutines = 1 .. Len(world.goroutines) /\ Len(world.goroutines) \in Nat
    BY Processes DEF Diagnosed
  <2> QED BY <1>3, <1>4, <2>1
<1>6. \A i \in DOMAIN W : W[i] \in LabelSets
  <2>1. \A i \in L : W[i] = Written(i)
    BY <1>2, <1>3 DEF Labelled
  <2> QED BY <1>3, <1>4, <2>1, WrittenSets DEF Diagnosed
<1> HIDE DEF W, L
<1>7. \A i \in L : GroupOf(W, i) = {j \in L : Marshal(LabelsOf(j)) = Marshal(LabelsOf(i))}
  BY <1>3 DEF GroupOf
<1>8. \A i \in L : Group(all, i) = GroupOf(W, i) /\ BubbleOf(W, i) = [labels |-> LabelsOf(i), count |-> Cardinality(Group(all, i))]
  BY <1>3, <1>7 DEF Group, BubbleOf, L
<1>9. {i \in DOMAIN W : IsFirst(W, i)} = {i \in L : \A j \in Group(all, i) : i <= j}
  BY <1>3, <1>8 DEF IsFirst
<1>10. Bubbles(all) = BubblesOf(W)
  <2>1. Bubbles(all) = {[labels |-> LabelsOf(i), count |-> Cardinality(Group(all, i))] :
                          i \in {i \in L : \A j \in Group(all, i) : i <= j}}
    BY DEF Bubbles, L
  <2>2. BubblesOf(W) = {BubbleOf(W, i) : i \in {i \in L : \A j \in Group(all, i) : i <= j}}
    BY <1>9 DEF BubblesOf
  <2> QED BY <1>8, <2>1, <2>2
<1> QED BY <1>5, <1>6, <1>10, GroupsAccount DEF W

\* The answers NobodySilentlyUnlabelled is about, and no others.
Told(kind) == kind \in {"session", "session_all", "bubbles", "bubbles_all"}

LEMMA SilentOtherwise == ~ Told(answer.kind) => NobodySilentlyUnlabelled
BY DEF Told, NobodySilentlyUnlabelled

LEMMA FailuresSeen ==
  ASSUME NEW all \in BOOLEAN, FailureError(all) = "none"
  PROVE  diag.failed \cap EligibleGIDs(all) = {}
BY DEF FailureError

\* The properties of what a session or a list tells, over the next state.
SessionIsTrue(all) ==
  \A i \in Selected(all) :
    LET gid == world.goroutines[i].gid
    IN gid \in diag.failed \/ Written(i) = {l \in Written(i) : <<l, gid>> \in answer.index}
ListIsTrue(all) == CountsEveryone(all, answer.bubbles)

LEMMA TellingIsTrue ==
  ASSUME NEW all \in BOOLEAN,
         \/ answer.kind = (IF all THEN "session_all" ELSE "session") /\ SessionIsTrue(all)
         \/ answer.kind = (IF all THEN "bubbles_all" ELSE "bubbles") /\ ListIsTrue(all)
  PROVE  NobodySilentlyUnlabelled
BY DEF NobodySilentlyUnlabelled, SessionIsTrue, ListIsTrue

LEMMA LoadTells ==
  ASSUME IInv, TrueAddresses, Load
  PROVE  NobodySilentlyUnlabelled'
<1>1. pc = "diagnosed"
  BY DEF Load
<1>2. Diagnosed
  BY <1>1, DiagnosedThen
<1>3. PICK all \in BOOLEAN :
        /\ answer' = IF diag.unsupported THEN [NoAnswer EXCEPT !.kind = "unsupported"]
                     ELSE [NoAnswer EXCEPT !.kind = IF all THEN "session_all" ELSE "session",
                                           !.index = IndexOf(all)]
        /\ UNCHANGED <<world, diag>>
  BY DEF Load, Conclude, Given, IndexOf
<1>4. CASE diag.unsupported
  <2>1. ~ Told(answer.kind)'
    BY <1>3, <1>4 DEF Told, NoAnswer
  <2> QED BY <2>1, SilentOtherwise, PTL
<1>5. CASE ~ diag.unsupported
  <2>1. answer'.kind = (IF all THEN "session_all" ELSE "session") /\ answer'.index = IndexOf(all)
    BY <1>3, <1>5 DEF NoAnswer
  <2>2. ASSUME NEW i \in Selected(all), GidOf(i) \notin diag.failed
        PROVE  Written(i) = {l \in Written(i) : <<l, GidOf(i)>> \in answer'.index}
    BY <1>2, <1>5, <2>1, <2>2, IndexIsTrue
  <2>3. Selected(all)' = Selected(all) /\ \A i : Written(i)' = Written(i)
    BY <1>3 DEF Selected, EligibleGIDs, GIDs, Written
  <2>4. SessionIsTrue(all)'
    BY <1>3, <2>2, <2>3 DEF SessionIsTrue, GidOf
  <2>5. (answer.kind = (IF all THEN "session_all" ELSE "session") /\ SessionIsTrue(all))'
    BY <2>1, <2>4
  <2> QED BY <2>5, TellingIsTrue, PTL
<1> QED BY <1>4, <1>5

\* The label sets of a process, and the property of it, with the state named.
SelectedIn(w, all) ==
  LET gids == {w.goroutines[i].gid : i \in DOMAIN w.goroutines}
  IN {i \in DOMAIN w.goroutines : w.goroutines[i].gid \in IF all THEN gids ELSE gids \ w.system}
WrittenIn(w, i) == Latest(w.written[i], Len(w.written[i]))
OnesIn(w, all) == [i \in {i \in SelectedIn(w, all) : WrittenIn(w, i) # {}} |-> WrittenIn(w, i)]
NobodyIn(w, r, d, a) ==
  (r = "elf" => w.slide = 0) =>
    /\ \A all \in BOOLEAN :
         a.kind = (IF all THEN "session_all" ELSE "session") =>
           \A i \in SelectedIn(w, all) :
             \/ w.goroutines[i].gid \in d.failed
             \/ WrittenIn(w, i) = {l \in WrittenIn(w, i) : <<l, w.goroutines[i].gid>> \in a.index}
    /\ \A all \in BOOLEAN :
         a.kind = (IF all THEN "bubbles_all" ELSE "bubbles") => AccountsFor(OnesIn(w, all), a.bubbles)

LEMMA OnesNamed == \A all : WrittenOnes(all) = OnesIn(world, all)
BY DEF WrittenOnes, OnesIn, SelectedIn, WrittenIn, Selected, EligibleGIDs, GIDs, Written

LEMMA NobodyNamed == NobodySilentlyUnlabelled <=> NobodyIn(world, reader, diag, answer)
<1>1. \A all : CountsEveryone(all, answer.bubbles) <=> AccountsFor(OnesIn(world, all), answer.bubbles)
  BY CountsNamed, OnesNamed
<1> QED BY <1>1 DEF NobodySilentlyUnlabelled, TrueAddresses, NobodyIn, SelectedIn, WrittenIn, Selected,
           EligibleGIDs, GIDs, Written

LEMMA ListTold ==
  ASSUME NEW all \in BOOLEAN, AccountsFor(OnesIn(world, all), answer.bubbles)
  PROVE  ListIsTrue(all)
BY CountsNamed, OnesNamed DEF ListIsTrue

LEMMA ListTells ==
  ASSUME IInv, TrueAddresses, ListBubbles
  PROVE  NobodySilentlyUnlabelled'
<1>1. pc = "diagnosed"
  BY DEF ListBubbles
<1>2. Diagnosed
  BY <1>1, DiagnosedThen
<1>3. PICK all \in BOOLEAN :
        /\ answer' = IF diag.unsupported THEN [NoAnswer EXCEPT !.kind = "unsupported"]
                     ELSE IF FailureError(all) # "none"
                       THEN [NoAnswer EXCEPT !.kind = FailureError(all)]
                     ELSE [NoAnswer EXCEPT !.kind = IF all THEN "bubbles_all" ELSE "bubbles",
                                           !.bubbles = Bubbles(all)]
        /\ UNCHANGED <<world, diag>>
  BY DEF ListBubbles, Conclude, Given
<1>4. CASE diag.unsupported \/ FailureError(all) # "none"
  <2>1. ~ Told(answer.kind)'
    BY <1>3, <1>4 DEF Told, NoAnswer, FailureError
  <2> QED BY <2>1, SilentOtherwise, PTL
<1>5. CASE ~ diag.unsupported /\ FailureError(all) = "none"
  <2>1. answer'.kind = (IF all THEN "bubbles_all" ELSE "bubbles") /\ answer'.bubbles = Bubbles(all)
    BY <1>3, <1>5 DEF NoAnswer
  <2>2. AccountsFor(OnesIn(world, all), Bubbles(all))
    BY <1>2, <1>5, FailuresSeen, BubblesAreTrue, OnesNamed
  <2>3. AccountsFor(OnesIn(world, all), answer.bubbles)'
    BY <1>3, <2>1, <2>2
  <2>4. ListIsTrue(all)'
    BY <2>3, ListTold, PTL
  <2>5. (answer.kind = (IF all THEN "bubbles_all" ELSE "bubbles") /\ ListIsTrue(all))'
    BY <2>1, <2>4
  <2> QED BY <2>5, TellingIsTrue, PTL
<1> QED BY <1>4, <1>5

\* For every process, table, platform and limit: a goroutine whose labels
\* could not be recovered is among the failed ones that make a query refuse,
\* and a list of label sets that is given counts every goroutine that had
\* labels once, under these labels if they are text and otherwise under labels
\* that look the same in JSON
\* (memusage/compute.go:390-427, snapshot.go:80-97, bubbles.go:46-104).
THEOREM LabelsAreNotLost == Spec => []NobodySilentlyUnlabelled
<1>1. Init => NobodySilentlyUnlabelled
  <2>1. Init => ~ Told(answer.kind)
    BY DEF Init, NoAnswer, Told
  <2> QED BY <2>1, SilentOtherwise
<1>2. IInv /\ IInv' /\ NobodySilentlyUnlabelled /\ [Next]_vars => NobodySilentlyUnlabelled'
  <2> SUFFICES ASSUME IInv, IInv', NobodySilentlyUnlabelled, [Next]_vars
               PROVE  NobodySilentlyUnlabelled'
    OBVIOUS
  <2>1. CASE UNCHANGED vars
    <3>1. NobodySilentlyUnlabelled' <=> NobodyIn(world, reader, diag, answer)'
      BY NobodyNamed, PTL
    <3>2. NobodyIn(world, reader, diag, answer)' <=> NobodyIn(world, reader, diag, answer)
      BY <2>1 DEF vars
    <3> QED BY <3>1, <3>2, NobodyNamed
  <2>2. CASE Load \/ ListBubbles
    <3>1. TrueAddresses' <=> TrueAddresses
      BY <2>2 DEF Load, ListBubbles, Conclude, Given, TrueAddresses
    <3>2. CASE TrueAddresses
      BY <2>2, <3>2, LoadTells, ListTells
    <3>3. CASE ~ TrueAddresses
      BY <3>1, <3>3 DEF NobodySilentlyUnlabelled
    <3> QED BY <3>2, <3>3
  <2>3. CASE Cancel
    <3>1. ~ Told(answer.kind)'
      BY <2>3 DEF Cancel, Conclude, NoAnswer, Told
    <3> QED BY <3>1, SilentOtherwise, PTL
  <2>4. CASE \/ LookupLayout \/ Probe \/ DecodeGoroutine \/ NextLabel \/ DecodedAll \/ Diagnose
             \/ \E what \in {"file", "image"} : Lose(what)
    <3>1. pc # "done"
      BY <2>4 DEF LookupLayout, Probe, DecodeGoroutine, NextLabel, DecodedAll, Diagnose, Lose
    <3>2. answer.kind \in {"pending", "probed"}
      BY <3>1 DEF IInv, Base
    <3>3. answer'.kind \in {"pending", "probed", "inconclusive"}
      BY <2>4, <3>2 DEF LookupLayout, Probe, DecodeGoroutine, NextLabel, DecodedAll, Diagnose, Lose,
         NoAnswer
    <3>4. ~ Told(answer.kind)'
      BY <3>3 DEF Told
    <3> QED BY <3>4, SilentOtherwise, PTL
  <2> QED BY <2>1, <2>2, <2>3, <2>4 DEF Next
<1> QED BY <1>1, <1>2, Inductive, PTL DEF Spec

-----------------------------------------------------------------------------
(* The probe: what the dump holds is read. *)

\* A state in which everything of goroutine i's labels can be read.
Readable(i) ==
  /\ world \in Worlds /\ gone = {} /\ i \in DOMAIN world.goroutines
  /\ world.parts[i] # {} /\ world.parts[i] \cap missing = {}

LEMMA KeptIsRead ==
  ASSUME NEW i, Readable(i), NEW a \in Nat, NEW n \in Nat \ {0}, NEW o \in world.objects,
         o.addr \in world.parts[i], Stands(world, o), Inside(a, n, o.addr, Len(o.data))
  PROVE  /\ a # 0 /\ a + n < AddressLimit /\ HeapRead(a, n) = {Cut(o.data, a - o.addr, n)}
         /\ a - o.addr \in Nat /\ (a - o.addr) + n <= Len(o.data) /\ o.data \in Units
<1> DEFINE S == Before(Objects, a)
           x == o.addr
           y == Len(o.data)
<1>1. /\ \A p \in world.objects : p.addr \in Nat /\ p.data \in Units /\ Len(p.data) \in Nat
      /\ AddressLimit \in Nat
  BY Processes, AddressAssumption DEF Readable, Units
<1>2. x \in Nat /\ y \in Nat /\ x # 0 /\ ~ (x + y >= AddressLimit) /\ a >= x /\ a + n <= x + y
  BY <1>1 DEF Stands, Overflows, Inside
<1>3. /\ a # 0 /\ a + n < AddressLimit /\ y # 0 /\ x <= a /\ a - x \in Nat /\ (a - x) + n <= y
      /\ ~ (a + n >= AddressLimit)
  <2> HIDE DEF x, y
  <2> QED BY <1>1, <1>2
<1>4. o \in S
  <2>1. o.data # <<>>
    BY <1>1, <1>3, EmptyText
  <2>2. o \in Objects
    BY DEF Objects, Readable
  <2> QED BY <1>2, <1>3, <2>1, <2>2 DEF Before, Overflows
<1>5. ASSUME NEW p \in S, p # o PROVE p.addr < x
  <2>1. /\ p \in world.objects /\ p.data # <<>> /\ p.addr <= a
    BY DEF Before, Objects
  <2>2. p.addr + Len(p.data) <= x \/ p.addr >= x + y
    BY <1>5, <2>1 DEF Stands
  <2>3. p.addr \in Nat /\ Len(p.data) \in Nat /\ Len(p.data) # 0
    BY <1>1, <2>1, EmptyText
  <2> HIDE DEF x, y, S
  <2> QED BY <1>2, <2>1, <2>2, <2>3
<1> DEFINE Q(q) == \A p \in S : p.addr < q.addr \/ (p.addr = q.addr /\ Len(p.data) <= Len(q.data))
<1>6. Q(o)
  BY <1>1, <1>4, <1>5
<1>7. ASSUME NEW q \in S, Q(q) PROVE q = o
  <2> SUFFICES ASSUME q # o PROVE FALSE
    OBVIOUS
  <2>1. q.addr < x /\ (x < q.addr \/ x = q.addr)
    BY <1>4, <1>5, <1>7
  <2>2. q.addr \in Nat
    BY <1>1 DEF Before, Objects
  <2> QED BY <1>2, <2>1, <2>2
<1>8. (CHOOSE q \in S : Q(q)) = o
  <2> HIDE DEF S, Q
  <2> QED BY <1>4, <1>6, <1>7
<1>9. HeapRead(a, n) = MemoryRead(Objects, a, n)
  BY DEF HeapRead, Readable
<1>10. MemoryRead(Objects, a, n) = {Cut(o.data, a - o.addr, n)}
  <2>1. S # {} /\ ~ Overflows(a, n) /\ a # 0
    BY <1>3, <1>4 DEF Overflows
  <2>2. MemoryRead(Objects, a, n)
          = LET q == CHOOSE q \in S : Q(q)
            IN IF Inside(a, n, q.addr, Len(q.data)) THEN {Cut(q.data, a - q.addr, n)} ELSE Unreadable
    BY <2>1 DEF MemoryRead, Before
  <2> HIDE DEF S, Q
  <2> QED BY <1>8, <2>2
<1> QED BY <1>1, <1>3, <1>9, <1>10

\* The n units at a are read, as b.
IsRead(a, n, b) ==
  /\ a # 0 /\ a + n < AddressLimit /\ HeapRead(a, n) = {b} /\ b \in Units /\ Len(b) = n
  /\ \A k \in 0 .. n - 1 : Word(a + k) = {b[k + 1]}

LEMMA KeptRead ==
  ASSUME NEW i, Readable(i), NEW a \in Nat, NEW n \in Nat \ {0}, NEW b \in Kept(world, i, a, n)
  PROVE  IsRead(a, n, b)
<1>1. PICK o \in world.objects : /\ o.addr \in world.parts[i] /\ Stands(world, o)
                                /\ Inside(a, n, o.addr, Len(o.data)) /\ b = Cut(o.data, a - o.addr, n)
  BY DEF Kept
<1>2. /\ a # 0 /\ a + n < AddressLimit /\ HeapRead(a, n) = {b}
      /\ a - o.addr \in Nat /\ (a - o.addr) + n <= Len(o.data) /\ o.data \in Units
  BY <1>1, KeptIsRead
<1>3. /\ b \in Units /\ Len(b) = n /\ \A j \in 1 .. n : b[j] = o.data[(a - o.addr) + j]
  BY <1>1, <1>2, CutOf
<1>4. o.addr \in Nat /\ Len(o.data) \in Nat
  BY Processes DEF Readable, Units
<1>5. ASSUME NEW k \in 0 .. n - 1 PROVE Word(a + k) = {b[k + 1]}
  <2>1. Inside(a + k, 1, o.addr, Len(o.data)) /\ a + k \in Nat
    <3> DEFINE x == o.addr
               y == Len(o.data)
    <3>1. x \in Nat /\ y \in Nat /\ a >= x /\ a + n <= x + y
      BY <1>1, <1>4 DEF Inside
    <3> HIDE DEF x, y
    <3>2. a + k >= x /\ a + k + 1 <= x + y /\ a + k \in Nat
      BY <3>1
    <3> QED BY <3>2 DEF x, y, Inside
  <2>2. HeapRead(a + k, 1) = {Cut(o.data, (a + k) - o.addr, 1)}
    BY <1>1, <2>1, KeptIsRead
  <2>3. (a + k) - o.addr \in Nat /\ ((a + k) - o.addr) + 1 <= Len(o.data)
        /\ ((a + k) - o.addr) + 1 = (a - o.addr) + (k + 1)
    <3> DEFINE x == o.addr
               y == Len(o.data)
    <3>1. x \in Nat /\ y \in Nat /\ a - x \in Nat /\ (a - x) + n <= y
      BY <1>2, <1>4
    <3> HIDE DEF x, y
    <3>2. /\ (a + k) - x \in Nat /\ ((a + k) - x) + 1 <= y
          /\ ((a + k) - x) + 1 = (a - x) + (k + 1)
      BY <3>1
    <3> QED BY <3>2 DEF x, y
  <2>4. Cut(o.data, (a + k) - o.addr, 1)[1] = o.data[((a + k) - o.addr) + 1]
    <3> DEFINE d == (a + k) - o.addr
    <3>1. d \in Nat /\ d + 1 <= Len(o.data) /\ o.data \in Units
      BY <1>2, <2>3
    <3>2. 1 \in Nat /\ 1 \in 1 .. 1
      OBVIOUS
    <3> HIDE DEF d
    <3>3. Cut(o.data, d, 1)[1] = o.data[d + 1]
      BY <3>1, <3>2, CutOf
    <3> QED BY <3>3 DEF d
  <2>5. Word(a + k) = {Cut(o.data, (a + k) - o.addr, 1)[1]}
    BY <2>2 DEF Word
  <2>6. b[k + 1] = o.data[(a - o.addr) + (k + 1)]
    <3>1. k + 1 \in 1 .. n
      OBVIOUS
    <3> QED BY <1>3, <3>1
  <2> QED BY <2>3, <2>4, <2>5, <2>6
<1> QED BY <1>2, <1>3, <1>5 DEF IsRead

LEMMA TheOne == \A x : The({x}) = x
BY DEF The

LEMMA KeptStringRead ==
  ASSUME NEW i, Readable(i), NEW a \in Nat, NEW text \in Units, KeptString(world, i, a, text)
  PROVE  DecodeString(FALSE, a) = Found(text)
<1>1. PICK h \in Kept(world, i, a, 2) :
        h[2] = Len(text) /\ (text # <<>> => text \in Kept(world, i, h[1], Len(text)))
  BY DEF KeptString
<1>2. /\ a + 2 < AddressLimit /\ h \in Units /\ Len(h) = 2
      /\ \A k \in 0 .. 2 - 1 : Word(a + k) = {h[k + 1]}
  <2>1. 2 \in Nat \ {0}
    OBVIOUS
  <2>2. IsRead(a, 2, h)
    BY <2>1, KeptRead
  <2> QED BY <2>2 DEF IsRead
<1>3. Word(a + StringDataOffset) = {h[1]} /\ Word(a + StringLenOffset) = {h[2]} /\ h[1] \in Nat
  <2>1. 0 \in 0 .. 2 - 1 /\ 1 \in 0 .. 2 - 1 /\ 0 + 1 = 1 /\ 1 + 1 = 2
    OBVIOUS
  <2>2. Word(a + 0) = {h[0 + 1]} /\ Word(a + 1) = {h[1 + 1]}
    BY <1>2, <2>1
  <2>3. h[1] \in Nat
    <3>1. h \in Seq(Nat) /\ Len(h) = 2
      BY <1>2 DEF Units
    <3> QED BY <3>1
  <2>4. Word(a + 0) = {h[1]} /\ Word(a + 1) = {h[2]}
    BY <2>1, <2>2
  <2> QED BY <2>3, <2>4 DEF StringDataOffset, StringLenOffset
<1>4. ~ Overflows(a, StringLenOffset)
  BY <1>2, AddressAssumption DEF Overflows, StringLenOffset
<1>5. DecodeString(FALSE, a) = StringAt(FALSE, {h[1]}, {h[2]})
  BY <1>3, <1>4 DEF DecodeString
<1>6. Len(text) \in Nat /\ ~ (h[2] > MaxStringLen)
  <2>1. Len(text) \in Nat /\ MaxStringLen \in Nat /\ Len(text) <= MaxStringLen
    BY WorldsAssumption DEF KeptString, Units
  <2> QED BY <1>1, <2>1
<1>7. StringAt(FALSE, {h[1]}, {h[2]}) =
        IF h[2] = 0 THEN Found(<<>>)
        ELSE IF h[1] = 0 THEN NotFound("string_missing")
        ELSE Text(HeapRead(h[1], h[2]))
  BY <1>6, TheOne DEF StringAt, StringBody, Unreadable
<1>8. CASE h[2] = 0
  BY <1>1, <1>5, <1>7, <1>8, EmptyText
<1>9. CASE h[2] # 0
  <2>1. text \in Kept(world, i, h[1], Len(text)) /\ Len(text) \in Nat \ {0}
    BY <1>1, <1>6, <1>9, EmptyText
  <2>2. h[1] # 0 /\ HeapRead(h[1], Len(text)) = {text}
    <3>1. IsRead(h[1], Len(text), text)
      BY <1>3, <2>1, KeptRead
    <3> QED BY <3>1 DEF IsRead
  <2>3. Text({text}) = Found(text)
    BY TheOne DEF Text, Unreadable
  <2> QED BY <1>1, <1>5, <1>7, <1>9, <2>2, <2>3
<1> QED BY <1>8, <1>9

\* The walk over a label array of n labels, after k of them.
WalkAfter(data, n, pairs, k) ==
  [data |-> data, len |-> n, next |-> k + 1, status |-> "decoded", labels |-> Latest(pairs, k)]

LEMMA KeptLabelRead ==
  ASSUME NEW i, Readable(i), NEW data \in Nat, NEW pairs \in Seq(Pairs), NEW k \in Nat, k < Len(pairs),
         KeptArray(world, i, data, pairs)
  PROVE  DecodeLabel(FALSE, WalkAfter(data, Len(pairs), pairs, k))
           = WalkAfter(data, Len(pairs), pairs, k + 1)
<1> DEFINE sofar == WalkAfter(data, Len(pairs), pairs, k)
           pair == pairs[k + 1]
           at == data + ((k + 1) - 1) * LabelSize
<1>1. sofar.data = data /\ sofar.next = k + 1
  BY DEF WalkAfter
<1>2. k + 1 \in 1 .. Len(pairs) /\ pair \in Pairs
  OBVIOUS
<1>3. pair[1] \in Units /\ pair[2] \in Units
  BY <1>2 DEF Pairs
<1>4. at + LabelKeyOffset \in Nat /\ at + LabelValueOffset \in Nat
  BY DEF LabelSize, LabelKeyOffset, LabelValueOffset
<1>5. /\ KeptString(world, i, at + LabelKeyOffset, pair[1])
      /\ KeptString(world, i, at + LabelValueOffset, pair[2])
  BY <1>2 DEF KeptArray
<1>6. DecodeLabel(FALSE, sofar) = WithLabel(sofar, DecodeString(FALSE, at + LabelKeyOffset),
                                                   DecodeString(FALSE, at + LabelValueOffset))
  <2> HIDE DEF sofar
  <2> QED BY <1>1 DEF DecodeLabel
<1> HIDE DEF at, pair
<1>7. /\ DecodeString(FALSE, at + LabelKeyOffset) = Found(pair[1])
      /\ DecodeString(FALSE, at + LabelValueOffset) = Found(pair[2])
  BY <1>3, <1>4, <1>5, KeptStringRead
<1>8. DecodeLabel(FALSE, sofar) = [sofar EXCEPT !.next = @ + 1, !.labels = Put(@, pair[1], pair[2])]
  <2>1. WithLabel(sofar, Found(pair[1]), Found(pair[2]))
          = [sofar EXCEPT !.next = @ + 1, !.labels = Put(@, pair[1], pair[2])]
    <3> HIDE DEF sofar
    <3> QED BY DEF WithLabel, Found
  <2> QED BY <1>6, <1>7, <2>1
<1>9. Latest(pairs, k + 1) = Put(Latest(pairs, k), pair[1], pair[2])
  BY LatestStep DEF pair
<1> QED BY <1>8, <1>9 DEF WalkAfter

\* The recursive function of DecodeLabels.
IsWalked(f, extra, header) ==
  f = [k \in 0 .. header.len |->
         IF k = 0 THEN header
         ELSE IF Finished(f[k - 1]) THEN f[k - 1] ELSE DecodeLabel(extra, f[k - 1])]
Walked(extra, header) == CHOOSE f : IsWalked(f, extra, header)

\* It exists, whatever its values are.
LEMMA WalkedExists ==
  ASSUME NEW extra, NEW header, header.len \in Nat
  PROVE  IsWalked(Walked(extra, header), extra, header)
<1> DEFINE Onward(w) == IF Finished(w) THEN w ELSE DecodeLabel(extra, w)
           Fits(f, k) == f = [j \in 0 .. k |-> IF j = 0 THEN header ELSE Onward(f[j - 1])]
           S == {k \in Nat : \E f : Fits(f, k)}
<1> HIDE DEF Onward
<1>1. 0 \in S
  <2>1. Fits([j \in 0 .. 0 |-> header], 0)
    OBVIOUS
  <2> QED BY <2>1
<1>2. ASSUME NEW k \in Nat, k \in S PROVE k + 1 \in S
  <2>1. PICK f : Fits(f, k)
    BY <1>2
  <2> DEFINE h == [j \in 0 .. k + 1 |-> IF j <= k THEN f[j] ELSE Onward(f[k])]
  <2>2. \A j \in 0 .. k : h[j] = f[j]
    OBVIOUS
  <2>3. \A j \in 0 .. k + 1 : h[j] = IF j = 0 THEN header ELSE Onward(h[j - 1])
    <3> SUFFICES ASSUME NEW j \in 0 .. k + 1
                 PROVE  h[j] = IF j = 0 THEN header ELSE Onward(h[j - 1])
      OBVIOUS
    <3>1. CASE j = k + 1
      <4>1. h[j] = Onward(f[k]) /\ h[j - 1] = f[k] /\ j # 0
        BY <3>1
      <4> HIDE DEF h
      <4> QED BY <4>1, <3>1
    <3>2. CASE j \in 0 .. k
      <4>1. h[j] = f[j] /\ (j # 0 => h[j - 1] = f[j - 1])
        BY <2>2, <3>2
      <4>2. f[j] = IF j = 0 THEN header ELSE Onward(f[j - 1])
        BY <2>1, <3>2
      <4> HIDE DEF h
      <4> QED BY <4>1, <4>2
    <3> QED BY <3>1, <3>2
  <2>4. Fits(h, k + 1)
    <3>1. h = [j \in 0 .. k + 1 |-> h[j]]
      OBVIOUS
    <3> HIDE DEF h
    <3> QED BY <2>3, <3>1
  <2> HIDE DEF h, Fits
  <2> QED BY <2>4
<1>3. header.len \in S
  <2> HIDE DEF S
  <2> QED BY <1>1, <1>2, SetInduction
<1>4. PICK f : IsWalked(f, extra, header)
  BY <1>3 DEF IsWalked, Onward
<1> QED
  BY <1>4 DEF Walked

LEMMA KeptArrayRead ==
  ASSUME NEW i, Readable(i), NEW data \in Nat, NEW pairs \in Seq(Pairs), Len(pairs) # 0,
         KeptArray(world, i, data, pairs)
  PROVE  DecodeLabels(FALSE, WalkAfter(data, Len(pairs), pairs, 0))
           = WalkAfter(data, Len(pairs), pairs, Len(pairs))
<1> DEFINE n == Len(pairs)
           After(k) == WalkAfter(data, n, pairs, k)
           f == Walked(FALSE, After(0))
           S == {k \in Nat : k <= n => f[k] = After(k)}
<1>1. n \in Nat /\ After(0).len = n
  BY DEF WalkAfter
<1>2. IsWalked(f, FALSE, After(0))
  BY <1>1, WalkedExists
<1>3. DecodeLabels(FALSE, After(0)) = f[n]
  BY <1>1 DEF DecodeLabels, Walked, IsWalked
<1> HIDE DEF f
<1>4. f[0] = After(0)
  BY <1>1, <1>2 DEF IsWalked
<1>5. ASSUME NEW k \in Nat, k \in S PROVE k + 1 \in S
  <2> SUFFICES ASSUME k + 1 <= n PROVE f[k + 1] = After(k + 1)
    OBVIOUS
  <2>1. f[k] = After(k) /\ k < n
    BY <1>1, <1>5
  <2>2. ~ Finished(After(k))
    BY <1>1, <2>1 DEF Finished, WalkAfter
  <2>3. k + 1 \in 0 .. After(0).len /\ (k + 1) - 1 = k /\ k + 1 # 0
    BY <1>1, <2>1
  <2>4. f[k + 1] = IF Finished(f[k]) THEN f[k] ELSE DecodeLabel(FALSE, f[k])
    <3> HIDE DEF After
    <3> QED BY <1>2, <2>3 DEF IsWalked
  <2>5. DecodeLabel(FALSE, After(k)) = After(k + 1)
    BY <2>1, KeptLabelRead
  <2> HIDE DEF After
  <2> QED BY <2>1, <2>2, <2>4, <2>5
<1>6. n \in S
  <2>1. 0 \in S
    BY <1>4
  <2> HIDE DEF S
  <2> QED BY <1>1, <1>5, <2>1, SetInduction
<1>7. f[n] = After(n)
  <2>1. n <= n
    BY <1>1
  <2> HIDE DEF n, After
  <2> QED BY <1>6, <2>1
<1> QED BY <1>3, <1>7

\* A walk, field by field.
WalkOf(d, n, k, l) == [data |-> d, len |-> n, next |-> k, status |-> "decoded", labels |-> l]

LEMMA WalkBegins ==
  ASSUME NEW d, NEW n
  PROVE  [NoWalk EXCEPT !.data = d, !.len = n] = WalkOf(d, n, 1, {})
<1>1. NoWalk = WalkOf(0, 0, 1, {})
  BY DEF NoWalk, WalkOf
<1>2. [WalkOf(0, 0, 1, {}) EXCEPT !.data = d] = WalkOf(d, 0, 1, {})
  <2>1. \A v, m, k, l : [WalkOf(v, m, k, l) EXCEPT !.data = d] = WalkOf(d, m, k, l)
    BY DEF WalkOf
  <2> QED BY <2>1
<1>3. [WalkOf(d, 0, 1, {}) EXCEPT !.len = n] = WalkOf(d, n, 1, {})
  <2>1. \A v, m, k, l : [WalkOf(v, m, k, l) EXCEPT !.len = n] = WalkOf(v, n, k, l)
    BY DEF WalkOf
  <2> QED BY <2>1
<1>4. [NoWalk EXCEPT !.data = d] = WalkOf(d, 0, 1, {})
  BY <1>1, <1>2
<1>5. [NoWalk EXCEPT !.data = d, !.len = n] = [[NoWalk EXCEPT !.data = d] EXCEPT !.len = n]
  OBVIOUS
<1> QED BY <1>3, <1>4, <1>5

\* A label map all of whose parts are kept is read as it was written.
ReadsAs(found, pairs) ==
  found.status = "decoded" /\ found.labels = Latest(pairs, Len(pairs))

LEMMA KeptMapRead ==
  ASSUME NEW i, Readable(i), NEW a \in Nat, NEW pairs \in Seq(Pairs),
         NEW map \in Kept(world, i, a, 3),
         map[2] = Len(pairs), map[2] <= map[3], map[2] <= MaxLabels,
         map[2] # 0 => KeptArray(world, i, map[1], pairs)
  PROVE  ReadsAs(DecodeLabelMap(FALSE, a), pairs)
<1> DEFINE n == Len(pairs)
<1>1. IsRead(a, 3, map)
  <2>1. 3 \in Nat \ {0}
    OBVIOUS
  <2> QED BY <2>1, KeptRead
<1>2. a + 3 < AddressLimit /\ map \in Seq(Nat) /\ Len(map) = 3
      /\ \A k \in 0 .. 3 - 1 : Word(a + k) = {map[k + 1]}
  BY <1>1 DEF IsRead, Units
<1>3. map[1] \in Nat /\ map[2] \in Nat /\ map[3] \in Nat /\ n \in Nat
  <2>1. map \in Seq(Nat) /\ 1 \in 1 .. Len(map) /\ 2 \in 1 .. Len(map) /\ 3 \in 1 .. Len(map)
    BY <1>2
  <2>2. \A k \in 1 .. Len(map) : map[k] \in Nat
    BY <2>1, UnitsAreNumbers DEF Units
  <2>3. map[1] \in Nat /\ map[2] \in Nat /\ map[3] \in Nat
    BY <2>1, <2>2
  <2>4. n \in Nat
    OBVIOUS
  <2> QED BY <2>3, <2>4
<1>4. /\ Word(a + SliceDataOffset) = {map[1]} /\ Word(a + SliceLenOffset) = {map[2]}
      /\ Word(a + SliceCapOffset) = {map[3]}
  <2>1. 0 \in 0 .. 3 - 1 /\ 1 \in 0 .. 3 - 1 /\ 2 \in 0 .. 3 - 1 /\ 0 + 1 = 1 /\ 1 + 1 = 2 /\ 2 + 1 = 3
    OBVIOUS
  <2>2. Word(a + 0) = {map[0 + 1]} /\ Word(a + 1) = {map[1 + 1]} /\ Word(a + 2) = {map[2 + 1]}
    BY <1>2, <2>1
  <2>3. Word(a + 0) = {map[1]} /\ Word(a + 1) = {map[2]} /\ Word(a + 2) = {map[3]}
    BY <2>1, <2>2
  <2> QED BY <2>3 DEF SliceDataOffset, SliceLenOffset, SliceCapOffset
<1>5. ~ Overflows(a, SliceCapOffset)
  BY <1>2, AddressAssumption DEF Overflows, SliceCapOffset
<1>6. DecodeHeader(a) = LabelArray(map[1], map[2], map[3])
  <2>1. DecodeHeader(a) = SliceAt({map[1]}, {map[2]}, {map[3]})
    BY <1>4, <1>5 DEF DecodeHeader
  <2> QED BY <2>1, TheOne DEF SliceAt, Unreadable
<1>7. ~ (map[2] > map[3] \/ map[2] > MaxLabels)
  BY <1>3, WorldsAssumption
<1>8. CASE n = 0
  <2>1. DecodeHeader(a) = NoWalk
    BY <1>6, <1>7, <1>8 DEF LabelArray
  <2>2. NoWalk.len = 0 /\ NoWalk.status = "decoded" /\ NoWalk.labels = {}
    BY DEF NoWalk
  <2> DEFINE h == NoWalk
             f == Walked(FALSE, h)
  <2>3. IsWalked(f, FALSE, h)
    <3>1. h.len \in Nat
      BY <2>2
    <3> HIDE DEF h
    <3> QED BY <3>1, WalkedExists
  <2>4. DecodeLabelMap(FALSE, a) = f[0]
    <3>1. h.len = 0 /\ DecodeLabelMap(FALSE, a) = DecodeLabels(FALSE, h)
      BY <2>1, <2>2 DEF DecodeLabelMap
    <3> HIDE DEF h
    <3>2. DecodeLabels(FALSE, h) = f[h.len]
      BY DEF DecodeLabels, Walked, IsWalked
    <3> QED BY <3>1, <3>2
  <2>5. f[0] = NoWalk
    <3>1. h.len = 0
      BY <2>2
    <3> HIDE DEF h, f
    <3>2. 0 \in 0 .. h.len
      BY <3>1
    <3>3. f[0] = h
      BY <2>3, <3>2 DEF IsWalked
    <3> QED BY <3>3 DEF h
  <2> QED BY <1>8, <2>2, <2>4, <2>5, LatestStart DEF ReadsAs
<1>9. CASE n # 0
  <2>1. KeptArray(world, i, map[1], pairs)
    BY <1>9
  <2>2. map[1] # 0 /\ HeapRead(map[1], n * LabelSize) # {}
    <3>1. PICK b : b \in Kept(world, i, map[1], n * LabelSize)
      BY <2>1 DEF KeptArray
    <3>2. n * LabelSize \in Nat \ {0}
      BY <1>3, <1>9 DEF LabelSize
    <3> HIDE DEF n
    <3>3. IsRead(map[1], n * LabelSize, b)
      BY <1>3, <3>1, <3>2, KeptRead
    <3> QED BY <3>3 DEF IsRead
  <2>3. DecodeHeader(a) = [NoWalk EXCEPT !.data = map[1], !.len = n]
    BY <1>6, <1>7, <1>9, <2>2 DEF LabelArray, Unreadable
  <2>4. DecodeHeader(a) = WalkAfter(map[1], n, pairs, 0)
    <3>1. Latest(pairs, 0) = {}
      BY LatestStart
    <3> DEFINE data == map[1]
    <3> HIDE DEF n, data
    <3>2. [NoWalk EXCEPT !.data = data, !.len = n] = WalkOf(data, n, 1, {})
      BY WalkBegins
    <3>3. 0 + 1 = 1
      OBVIOUS
    <3>4. WalkAfter(data, n, pairs, 0) = WalkOf(data, n, 1, {})
      BY <3>1, <3>3, Zenon DEF WalkAfter, WalkOf
    <3> QED BY <2>3, <3>2, <3>4 DEF data
  <2>5. DecodeLabelMap(FALSE, a) = WalkAfter(map[1], n, pairs, n)
    <3>1. DecodeLabelMap(FALSE, a) = DecodeLabels(FALSE, WalkAfter(map[1], n, pairs, 0))
      BY <2>4 DEF DecodeLabelMap
    <3> QED BY <1>3, <1>9, <2>1, <3>1, KeptArrayRead
  <2>6. DecodeLabelMap(FALSE, a).status = "decoded"
        /\ DecodeLabelMap(FALSE, a).labels = Latest(pairs, n)
    <3> DEFINE data == map[1]
    <3> HIDE DEF n, data
    <3>1. /\ WalkAfter(data, n, pairs, n).status = "decoded"
          /\ WalkAfter(data, n, pairs, n).labels = Latest(pairs, n)
      BY DEF WalkAfter
    <3> QED BY <2>5, <3>1 DEF data
  <2> QED BY <2>6 DEF ReadsAs
<1> QED BY <1>8, <1>9

LEMMA KeptIsCandidate ==
  ASSUME NEW i, Readable(i), ~ world.bigEndian, KeptLabels(world, i), world.want \subseteq Written(i)
  PROVE  <<world.offset, i>> \in FindOffsetCandidates(world.want)
<1> DEFINE off == world.offset
           at == world.goroutines[i].addr
           pairs == world.written[i]
<1>1. at \in Nat /\ off \in Nat /\ pairs \in Seq(Pairs) /\ world.ptrSize \in {4, 8}
  BY Processes DEF Readable, Pairs, IsProcess
<1>0. PICK g \in Kept(world, i, at, off + 1) : \E map \in Kept(world, i, g[off + 1], 3) :
        /\ map[2] = Len(pairs) /\ map[2] <= map[3] /\ map[2] <= MaxLabels
        /\ map[2] # 0 => KeptArray(world, i, map[1], pairs)
  BY DEF KeptLabels
<1>2. PICK map \in Kept(world, i, g[off + 1], 3) :
        /\ map[2] = Len(pairs) /\ map[2] <= map[3] /\ map[2] <= MaxLabels
        /\ map[2] # 0 => KeptArray(world, i, map[1], pairs)
  BY <1>0
<1>3. off + 1 \in Nat \ {0}
  BY <1>1
<1>4. IsRead(at, off + 1, g)
  BY <1>1, <1>2, <1>3, KeptRead
<1> DEFINE field == g[off + 1]
<1>5. at # 0 /\ Word(at + off) = {field} /\ field \in Nat
  <2>1. off \in 0 .. (off + 1) - 1 /\ off + 1 \in 1 .. off + 1
    BY <1>1
  <2>2. at # 0 /\ Word(at + off) = {g[off + 1]} /\ g \in Seq(Nat) /\ Len(g) = off + 1
    BY <1>4, <2>1 DEF IsRead, Units
  <2> HIDE DEF off, at
  <2> QED BY <2>1, <2>2
<1>6. field # 0
  <2>1. IsRead(field, 3, map)
    <3>1. 3 \in Nat \ {0}
      OBVIOUS
    <3> QED BY <1>2, <1>5, <3>1, KeptRead
  <2> QED BY <2>1 DEF IsRead
<1>7. ReadsAs(DecodeLabelMap(FALSE, field), pairs)
  BY <1>1, <1>2, <1>5, KeptMapRead
<1>8. LeadsToLabels(Word(at + off), world.want)
  <2>1. Word(at + off) \notin {Unreadable, {0}} /\ The(Word(at + off)) = field
    BY <1>5, <1>6, TheOne DEF Unreadable
  <2>2. HasLabels(DecodeLabelMap(FALSE, field), world.want)
    BY <1>7 DEF ReadsAs, HasLabels, ContainsLabels, Written
  <2> QED BY <2>1, <2>2 DEF LeadsToLabels
<1>9. off \in Offsets(world.goroutines[i])
  <2>1. PICK o \in world.objects : /\ o.addr \in world.parts[i]
                                  /\ Inside(at, off + 1, o.addr, Len(o.data))
    BY <1>2 DEF Kept
  <2>2. o \in Objects
    BY <2>1 DEF Objects, Readable
  <2>3. o.addr \in Nat /\ Len(o.data) \in Nat
    BY Processes DEF Readable, Units
  <2>4. /\ Inside(at, 1, o.addr, Len(o.data)) /\ off \in 0 .. Len(o.data)
        /\ at + off + 1 <= o.addr + Len(o.data)
    <3> DEFINE x == o.addr
               y == Len(o.data)
    <3>1. x \in Nat /\ y \in Nat /\ at >= x /\ at + (off + 1) <= x + y
      BY <2>1, <2>3 DEF Inside
    <3> HIDE DEF x, y, at, off
    <3>2. at >= x /\ at + 1 <= x + y /\ off \in 0 .. y /\ at + off + 1 <= x + y
      BY <1>1, <3>1
    <3> QED BY <3>2 DEF x, y, Inside
  <2> HIDE DEF off
  <2> QED BY <1>5, <2>2, <2>4 DEF Offsets
<1>10. ManualLayout(world.ptrSize, world.bigEndian, 0) # NoLayout
  BY <1>1 DEF ManualLayout, NoLayout
<1>11. i \in DOMAIN world.goroutines
  BY DEF Readable
<1> DEFINE c == <<off, i>>
<1>12. c \in UNION {Offsets(world.goroutines[j]) \X {j} : j \in DOMAIN world.goroutines}
  BY <1>9, <1>11
<1>13. c[1] = off /\ c[2] = i
  OBVIOUS
<1> HIDE DEF c
<1>14. LeadsToLabels(Word(world.goroutines[c[2]].addr + c[1]), world.want)
  BY <1>8, <1>13
<1>15. c \in FindOffsetCandidates(world.want)
  BY <1>10, <1>12, <1>14 DEF FindOffsetCandidates
<1> QED BY <1>15 DEF c

\* The property, with the state named.
CandidateIn(w, m, a) ==
  a.kind \in {"probed", "inconclusive"} /\ ~ w.bigEndian =>
    \A i \in DOMAIN w.goroutines :
      (/\ w.want \subseteq WrittenIn(w, i)
       /\ w.parts[i] # {} /\ w.parts[i] \cap m = {}) => <<w.offset, i>> \in a.candidates

LEMMA CandidateNamed == TrueOffsetIsACandidate <=> CandidateIn(world, missing, answer)
BY DEF TrueOffsetIsACandidate, CandidateIn, WrittenIn, Written, InDump

LEMMA ProbeStep ==
  ASSUME Base, Probe
  PROVE  CandidateIn(world, missing, answer')
<1>1. world \in Worlds /\ gone = {}
  BY DEF Base, Probe
<1>2. answer'.candidates = FindOffsetCandidates(world.want)
  BY DEF Probe, NoAnswer
<1>3. ASSUME ~ world.bigEndian, NEW i \in DOMAIN world.goroutines,
             world.want \subseteq WrittenIn(world, i),
             world.parts[i] # {}, world.parts[i] \cap missing = {}
      PROVE  <<world.offset, i>> \in answer'.candidates
  <2>1. Readable(i) /\ world.want \subseteq Written(i)
    BY <1>1, <1>3 DEF Readable, WrittenIn, Written
  <2>2. KeptLabels(world, i)
    BY <1>1, <1>3, WorldsAssumption DEF IsProcess
  <2> QED BY <1>2, <1>3, <2>1, <2>2, KeptIsCandidate
<1> QED BY <1>3 DEF CandidateIn

\* For every process, dump and limit: when a goroutine had the label the probe
\* looks for and the dump holds everything that label is made of, the probe's
\* candidates have the offset of the labels field, with that goroutine
\* (heaplabels/decode.go:321-365).
THEOREM ProbesMissNothing == Spec => []TrueOffsetIsACandidate
<1>1. Init => TrueOffsetIsACandidate
  BY DEF Init, NoAnswer, TrueOffsetIsACandidate
<1>2. Base /\ TrueOffsetIsACandidate /\ [Next]_vars => TrueOffsetIsACandidate'
  <2> SUFFICES ASSUME Base, TrueOffsetIsACandidate, [Next]_vars
               PROVE  TrueOffsetIsACandidate'
    OBVIOUS
  <2>1. CandidateIn(world, missing, answer)
    BY CandidateNamed
  <2>2. CandidateIn(world, missing, answer)' => TrueOffsetIsACandidate'
    BY CandidateNamed, PTL
  <2>3. world' = world /\ missing' = missing
    BY DEF Next, vars, LookupLayout, Probe, DecodeGoroutine, NextLabel, DecodedAll, Lose, Diagnose,
       Load, ListBubbles, Cancel, Conclude, Given
  <2>4. CASE Probe
    <3>1. CandidateIn(world', missing', answer')
      BY <2>3, <2>4, ProbeStep
    <3> QED BY <2>2, <3>1 DEF CandidateIn
  <2>5. CASE answer' = answer
    <3>1. CandidateIn(world', missing', answer')
      BY <2>1, <2>3, <2>5
    <3> QED BY <2>2, <3>1 DEF CandidateIn
  <2>6. CASE Load \/ ListBubbles \/ Cancel
    <3>1. answer'.kind \notin {"probed", "inconclusive"}
      BY <2>6 DEF Load, ListBubbles, Cancel, Conclude, NoAnswer, FailureError
    <3>2. CandidateIn(world', missing', answer')
      BY <3>1 DEF CandidateIn
    <3> QED BY <2>2, <3>2 DEF CandidateIn
  <2>7. Probe \/ answer' = answer \/ Load \/ ListBubbles \/ Cancel
    BY DEF Next, vars, LookupLayout, DecodeGoroutine, NextLabel, DecodedAll, Lose, Diagnose
  <2> QED BY <2>4, <2>5, <2>6, <2>7
<1>3. IInv => Base
  BY DEF IInv
<1> QED BY <1>1, <1>2, <1>3, Inductive, PTL DEF Spec
=============================================================================
