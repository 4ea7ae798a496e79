---------------------------- MODULE AddressSpace ----------------------------
(***************************************************************************)
(* Reading bytes at a virtual address (internal/addrspace, heaplabels/     *)
(* memory.go).  A pointer is one unit of memory, and so is a character.    *)
(* A read yields the set of its result: {} when the range cannot be read,  *)
(* {bytes} when it can.                                                    *)
(***************************************************************************)
EXTENDS Naturals, Sequences, FiniteSets

CONSTANTS AddressLimit, \* one past the largest uint64
          SignedLimit   \* one past math.MaxInt64

ASSUME AddressAssumption ==
  /\ SignedLimit \in Nat \ {0}
  /\ AddressLimit = 2 * SignedLimit

Unreadable == {}

\* AddUint64 fails.
Overflows(a, b) == a + b >= AddressLimit

Inside(a, n, start, size) == a >= start /\ a + n <= start + size
Cut(bytes, offset, n) == SubSeq(bytes, offset + 1, offset + n)

-----------------------------------------------------------------------------
(* Slip: a plausible mistake; no specification uses it.                       *)

ReadableSection(s) == s.read /\ s.file # <<>>

-----------------------------------------------------------------------------

\* Memory.Read: the last object that starts at or before a, the longest of
\* those that start there; empty objects and objects that overflow are no
\* candidates.
MemoryRead(objects, a, n) ==
  LET before == {o \in objects : o.data # <<>> /\ ~ Overflows(o.addr, Len(o.data)) /\ o.addr <= a}
  IN CASE n = 0 -> {<<>>}
       [] n # 0 /\ (a = 0 \/ Overflows(a, n) \/ before = {}) -> Unreadable
       [] OTHER ->
            LET o == CHOOSE o \in before : \A p \in before :
                       p.addr < o.addr \/ (p.addr = o.addr /\ Len(p.data) <= Len(o.data))
            IN IF Inside(a, n, o.addr, Len(o.data)) THEN {Cut(o.data, a - o.addr, n)} ELSE Unreadable

\* The sections of an executable that OpenELFReader, parsePE and
\* parseMachOSegments keep: what may be written is stale on disk.
FileBacked(s) == s.read /\ ~ s.write /\ s.file # <<>>

\* ELFReader.ReadAtAddr, and with a slide the readers of Windows and macOS:
\* the bytes of the file behind a read-only section.  The file's bytes end
\* before the section's memory may.
FileRead(sections, slide, a, n) ==
  IF n = 0 THEN {<<>>}
  ELSE IF a = 0 \/ Overflows(a, n) \/ a < slide THEN Unreadable
  ELSE {Cut(s.file, a - slide - s.addr, n) :
          s \in {s \in sections : FileBacked(s) /\ Inside(a - slide, n, s.addr, Len(s.file))}}

\* mappingEligibleForStringBody
Eligible(s) == s.read /\ ~ s.write

\* ProcessReader.ReadAtAddr over /proc/self/mem: what is there now, in one
\* read-only mapping.
LiveRead(sections, slide, a, n) ==
  IF n = 0 THEN {<<>>}
  ELSE IF a = 0 \/ Overflows(a, n) \/ a >= SignedLimit THEN Unreadable
  ELSE {Cut(s.live, a - slide - s.addr, n) :
          s \in {s \in sections : Eligible(s) /\ Inside(a, n, s.addr + slide, Len(s.live))}}

\* OpenSelfProcessReader: what stands behind "process" on each platform.
OpenSelfProcessReader(platform, procfs) ==
  CASE platform = "linux" -> IF procfs THEN "live" ELSE "none"
    [] platform = "freebsd" -> IF procfs THEN "live" ELSE "elf"
    [] platform \in {"darwin", "windows"} -> "image"

\* The extra reader of label strings.  `present' says that its mapping or its
\* file can still be read.
ExtraRead(reader, present, sections, slide, a, n) ==
  IF ~ present THEN Unreadable
  ELSE CASE reader = "none" -> Unreadable
         [] reader = "live" -> LiveRead(sections, slide, a, n)
         [] reader = "elf" -> FileRead(sections, 0, a, n)
         [] reader = "image" -> IF a + n > SignedLimit THEN Unreadable
                                ELSE FileRead(sections, slide, a, n)

\* Composite.ReadAtAddr over the heap and the extra reader: the first that can.
FirstOf(a, n, fromHeap, fromExtra) ==
  CASE n = 0 -> {<<>>}
    [] n # 0 /\ (a = 0 \/ Overflows(a, n)) -> Unreadable
    [] OTHER -> IF fromHeap # Unreadable THEN fromHeap ELSE fromExtra
=============================================================================
