----------------------------- MODULE DumpReader -----------------------------
(***************************************************************************)
(* Reading primitives of the heap dump parser (heapdump/reader.go) and the *)
(* decoding of pointer fields (heapdump/pointers.go), over a dump file     *)
(* held as a sequence of cells.  A cell stands for one byte of the stream  *)
(* outside payloads, and for one half of a 64-bit word (four bytes) inside *)
(* them, so that the two pointer sizes 4 and 8 are one cell and two.       *)
(*                                                                         *)
(* A varint cell carries a group of bits and a continuation flag; an       *)
(* integer takes at most MaxGroups cells, of which the last can carry bits *)
(* that do not fit.                                                        *)
(***************************************************************************)
EXTENDS Integers, Sequences, FiniteSets, SequencesExt, FiniteSetsExt

CONSTANTS Continue,    \* 0x80, the flag of a varint cell that is not the last
          MaxGroups,   \* 10
          LastGroup,   \* 2, what the MaxGroups-th cell must stay below
          MaxStringBytes, MaxMemRangeSize,   \* limits of a length prefix
          MaxLine                            \* bound of the header line

\* How many values k groups can hold, the last of them the MaxGroups-th.
Capacity[k \in 1 .. MaxGroups] == IF k = 1 THEN LastGroup ELSE Continue * Capacity[k - 1]
MaxUint == Capacity[MaxGroups] - 1   \* math.MaxUint64
Cells == 0 .. 2 * Continue - 1

ASSUME ReaderAssumption ==
  /\ {Continue, MaxGroups, LastGroup, MaxStringBytes, MaxMemRangeSize, MaxLine} \subseteq Nat \ {0}
  /\ 1 < LastGroup /\ LastGroup <= Continue

FieldKindEol == 0
FieldKindPtr == 1
FieldKindIface == 2
FieldKindEface == 3

\* The members of S from 1 to n, in order.
Numbers(S, n) ==
  LET upto[k \in 0 .. n] ==
        IF k = 0 THEN <<>>
        ELSE IF k \in S THEN Append(upto[k - 1], k) ELSE upto[k - 1]
  IN upto[n]

Got(val, pos) == [err |-> "none", val |-> val, pos |-> pos]
Broken(err) == [err |-> err, val |-> 0, pos |-> 0]
-----------------------------------------------------------------------------
(* Uvarint: cells up to the first without the continuation flag, low group *)
(* first.                                                                   *)

FitsLastGroup(last, cell) == last < MaxGroups - 1 \/ cell < LastGroup

\* A low group in front of the rest of the integer.
Shifted(low, rest) ==
  IF rest.err # "none" THEN rest ELSE Got(low + Continue * rest.val, rest.pos)

\* The loop over the cells, from each of its turns on.
Uvarint(f, p) ==
  LET from[i \in 0 .. MaxGroups] ==
        IF i = MaxGroups THEN Broken("overflow")
        ELSE IF p + i > Len(f) THEN Broken(IF i = 0 THEN "EOF" ELSE "ErrUnexpectedEOF")
        ELSE IF f[p + i] >= Continue THEN Shifted(f[p + i] - Continue, from[i + 1])
        ELSE IF FitsLastGroup(i, f[p + i]) THEN Got(f[p + i], p + i + 1)
        ELSE Broken("overflow")
  IN from[0]

Bool(f, p) ==
  LET v == Uvarint(f, p)
  IN IF v.err # "none" \/ v.val \in {0, 1} THEN v ELSE Broken("invalidBool")

\* readPayload: n cells or an unexpected end of file.
Payload(f, p, n) ==
  IF p + n - 1 > Len(f) THEN Broken("ErrUnexpectedEOF")
  ELSE Got([cells |-> SubSeq(f, p, p + n - 1), off |-> p], p + n)

\* A length prefix and a payload.  The position kept with a memory range is the
\* one after the prefix, from which the resolver reads it again.
Sized(f, p, limit) ==
  LET n == Uvarint(f, p)
  IN IF n.err # "none" THEN n
     ELSE IF n.val > limit THEN Broken("limit")
     ELSE Payload(f, n.pos, n.val)

Bytes(f, p) == Sized(f, p, MaxMemRangeSize)

\* The cells of a payload alone.
Plain(read) == IF read.err # "none" THEN read ELSE Got(read.val.cells, read.pos)

String(f, p) == Plain(Sized(f, p, MaxStringBytes))

\* A field in front of the rest of the list.
Listed(kind, offset, rest) ==
  IF offset.err # "none" THEN offset
  ELSE IF rest.err # "none" THEN rest
  ELSE Got(<<[kind |-> kind.val, offset |-> offset.val]>> \o rest.val, rest.pos)

FieldList(f, p) ==
  LET from[q \in 1 .. Len(f) + 1] ==
        LET kind == Uvarint(f, q)
            offset == Uvarint(f, kind.pos)
        IN IF kind.err # "none" THEN kind
           ELSE IF kind.val = FieldKindEol THEN Got(<<>>, kind.pos)
           ELSE Listed(kind, offset, from[offset.pos])
  IN from[p]

\* The header line: everything before the first newline.
ReadLine(f, newline) ==
  LET ends == {i \in 1 .. Min({MaxLine, Len(f)}) : f[i] = newline}
  IN CASE ends # {} -> Got(SubSeq(f, 1, Min(ends) - 1), Min(ends) + 1)
       [] ends = {} /\ Len(f) >= MaxLine -> Broken("headerTooLong")
       [] OTHER -> Broken("ErrUnexpectedEOF")

ReadOne(f, p, shape) ==
  CASE shape = "uint" -> Uvarint(f, p)
    [] shape = "bool" -> Bool(f, p)
    [] shape = "string" -> String(f, p)
    [] shape = "bytes" -> Bytes(f, p)
    [] shape = "fields" -> FieldList(f, p)

\* One more part behind those read so far.
Extended(sofar, part) ==
  IF part.err # "none" THEN Broken(part.err) ELSE Got(Append(sofar.val, part.val), part.pos)

ReadNext(f, sofar, shape) ==
  IF sofar.err # "none" THEN sofar ELSE Extended(sofar, ReadOne(f, sofar.pos, shape))

\* Reads the parts of a record one after the other and stops at the first
\* error, as every parse function of the code does.
ReadAll(f, p, shapes) ==
  LET upto[i \in 0 .. Len(shapes)] ==
        IF i = 0 THEN Got(<<>>, p) ELSE ReadNext(f, upto[i - 1], shapes[i])
  IN upto[Len(shapes)]
-----------------------------------------------------------------------------
(* readPointer and extractPointers.                                         *)

Word(cells, bigEndian) ==
  LET low == IF bigEndian THEN Reverse(cells) ELSE cells
  IN FoldRight(LAMBDA cell, high : cell + 2 * Continue * high, low, 0)

WordAt(cells, offset, params) ==
  Word(SubSeq(cells, offset + 1, offset + params.ptrSize), params.bigEndian)

\* Slip: the last word of a payload counted as out of bounds.
StrictlyInBounds(size, offset, ptrSize) == offset <= size /\ ptrSize < size - offset

InBounds(size, offset, ptrSize) == offset <= size /\ ptrSize <= size - offset

\* The word of a pointer field is the field itself; that of an interface is
\* its second word.
DataWord(field, ptrSize) ==
  IF field.kind = FieldKindPtr THEN field.offset ELSE field.offset + ptrSize

\* Every non-zero pointer of the fields, with its address counted from base
\* when slots are kept, and the number of fields warned about.
Extract(cells, fields, params, base, keepSlots) ==
  LET size == params.ptrSize
      Sound(field) ==
        /\ field.kind \in {FieldKindPtr, FieldKindIface, FieldKindEface}
        /\ field.kind # FieldKindPtr => field.offset <= MaxUint - size
        /\ InBounds(Len(cells), DataWord(field, size), size)
      Wraps(field) == keepSlots /\ DataWord(field, size) > MaxUint - base
      sound == {i \in DOMAIN fields : Sound(fields[i])}
      present == {i \in sound : WordAt(cells, DataWord(fields[i], size), params) # 0}
      wrapped == {i \in present : Wraps(fields[i])}
      kept == Numbers(present \ wrapped, Len(fields))
      Number(kind) == Cardinality({i \in DOMAIN fields : fields[i].kind = kind})
  IN [targets |-> [i \in DOMAIN kept |-> WordAt(cells, DataWord(fields[kept[i]], size), params)],
      slots |-> IF keepSlots THEN [i \in DOMAIN kept |-> base + DataWord(fields[kept[i]], size)]
                ELSE <<>>,
      warned |-> Cardinality(DOMAIN fields \ sound) + Cardinality(wrapped),
      iface |-> Number(FieldKindIface),
      eface |-> Number(FieldKindEface)]
=============================================================================
