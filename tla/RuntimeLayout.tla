---------------------------- MODULE RuntimeLayout ----------------------------
(***************************************************************************)
(* Where the runtime keeps a goroutine's labels (internal/runtimelayout).  *)
(* Offsets count pointers.  A version is the sequence of the parts of its  *)
(* name, "go1.24.3" being <<"go1.24", ".", "3">>.                          *)
(***************************************************************************)
EXTENDS Naturals, Sequences, SequencesExt

CONSTANT VerifiedTable  \* verifiedTable: [prefix, ptrSize, bigEndian, offset], in order

\* with64BitLittleEndianDefaults and its 32-bit twin, in pointers.
SliceDataOffset == 0
SliceLenOffset == 1
SliceCapOffset == 2
StringDataOffset == 0
StringLenOffset == 1
LabelKeyOffset == 0
LabelValueOffset == 2
LabelSize == 4

NoLayout == {}

\* An entry is for one word size and byte order, and a line of versions.
Applies(e, version, ptrSize, bigEndian) ==
  e.ptrSize = ptrSize /\ e.bigEndian = bigEndian /\ IsPrefix(e.prefix, version)

\* Lookup: the offset of the first entry that applies.
Lookup(version, ptrSize, bigEndian) ==
  LET first == SelectInSeq(VerifiedTable, LAMBDA e : Applies(e, version, ptrSize, bigEndian))
  IN IF version = <<>> \/ first = 0 THEN NoLayout ELSE {VerifiedTable[first].offset}

\* Manual accepts any offset of a little-endian target.
ManualLayout(ptrSize, bigEndian, offset) ==
  IF ptrSize \in {4, 8} /\ ~ bigEndian THEN {offset} ELSE NoLayout
=============================================================================
