------------------------------ MODULE Executable ------------------------------
(***************************************************************************)
(* The executable image (src/src/executable/executable.cpp): its segments, *)
(* the lookup of an address and the validation every consumer performs     *)
(* before it uses an image.                                                *)
(*                                                                         *)
(* An image is a record                                                    *)
(*   version      the format version                                       *)
(*   segments     a sequence of [name, type, virtual_address,              *)
(*                virtual_size, flags, data]                               *)
(*   entry_point  an address                                               *)
(*   debug_files  the source-file indices its debug entries name           *)
(*   file_count   the number of source files it lists                      *)
(***************************************************************************)
EXTENDS VirtualMemory

CONSTANT kExeVersion    \* the one format version the code accepts

SegmentType == {"Text", "Rodata", "Data", "Bss"}

Segment ==
  [name: Name, type: SegmentType, virtual_address: Word, virtual_size: Word,
   flags: SUBSET Permission, data: Seq(Byte)]

Executable ==
  [version: Nat, segments: Seq(Segment), entry_point: Word,
   debug_files: Seq(Nat), file_count: Nat]

SegmentHolds(segment, address) ==
  /\ address >= segment.virtual_address
  /\ address - segment.virtual_address < segment.virtual_size

NoSegment == 0    \* nullptr

findSegment(executable, address) ==
  LET segments == executable.segments IN
  IF \E i \in DOMAIN segments : SegmentHolds(segments[i], address)
    THEN CHOOSE i \in DOMAIN segments :
           /\ SegmentHolds(segments[i], address)
           /\ \A j \in 1 .. i - 1 : ~SegmentHolds(segments[j], address)
    ELSE NoSegment

SegmentMayTouchEnd(segment) ==
  /\ segment.virtual_size # 0
  /\ segment.virtual_size >= Len(segment.data)
  /\ segment.virtual_address <= WordModulus - segment.virtual_size
  /\ segment.type = "Bss" => segment.data = <<>>
  /\ ~({"Write", "Exec"} \subseteq segment.flags)

SegmentWellFormed(segment) ==
  /\ segment.virtual_size # 0
  /\ segment.virtual_size >= Len(segment.data)
  /\ segment.virtual_address <= MaxWord - segment.virtual_size
  /\ segment.type = "Bss" => segment.data = <<>>
  /\ ~({"Write", "Exec"} \subseteq segment.flags)

SegmentsOverlap(a, b) ==
  /\ a.virtual_address < Add(b.virtual_address, b.virtual_size)
  /\ b.virtual_address < Add(a.virtual_address, a.virtual_size)

EntryExecutable(executable) ==
  LET i == findSegment(executable, executable.entry_point) IN
  /\ executable.entry_point % WordSize = 0
  /\ i # NoSegment
  /\ "Exec" \in executable.segments[i].flags

\* validate() succeeds.  What it says when it fails is left out, and with it
\* the order of the tests.
validate(executable) ==
  /\ executable.version = kExeVersion
  /\ executable.segments # <<>>
  /\ \A i \in DOMAIN executable.segments :
       SegmentWellFormed(executable.segments[i])
  /\ \A i, j \in DOMAIN executable.segments :
       i < j => ~SegmentsOverlap(executable.segments[i], executable.segments[j])
  /\ EntryExecutable(executable)
  /\ \A k \in DOMAIN executable.debug_files :
       executable.debug_files[k] < executable.file_count

=============================================================================
