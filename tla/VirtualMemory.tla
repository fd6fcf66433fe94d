---------------------------- MODULE VirtualMemory ----------------------------
(***************************************************************************)
(* The VM's address space (src/src/vm/memory.cpp): a list of named,        *)
(* permissioned regions, and the bump allocator that lives in the region   *)
(* called "heap".                                                          *)
(*                                                                         *)
(* This module holds the operations as operators on a list of regions; the *)
(* modules that own an address space (VirtualMachine, HeapAllocator) keep  *)
(* the list in a variable and apply them.  All arithmetic is that of u64:  *)
(* modulo WordModulus.                                                     *)
(***************************************************************************)
EXTENDS Integers, Sequences

CONSTANTS
  WordModulus,      \* 2^64 in the code: u64 arithmetic is modulo this
  WordSize,         \* sizeof(u64) = isa::kInstructionSize = 8 in the code
  Name,             \* the names of regions and segments
  Byte,             \* the values of a u8
  ZeroByte,         \* u8{0}
  LoadWord(_),      \* byteorder::load<u64>: WordSize bytes to a word
  StoreWord(_)      \* byteorder::store<u64>: a word to WordSize bytes

Word == 0 .. WordModulus - 1

\* WordSize divides WordModulus, as 8 divides 2^64, and a word survives a
\* store followed by a load.
ASSUME MemoryAssumption ==
  /\ WordSize \in Nat \ {0}
  /\ WordModulus \in Nat
  /\ WordModulus > WordSize
  /\ WordModulus % WordSize = 0
  /\ {"stack", "heap"} \subseteq Name
  /\ ZeroByte \in Byte
  /\ \A w \in Word : /\ StoreWord(w) \in [1 .. WordSize -> Byte]
                     /\ LoadWord(StoreWord(w)) = w
  /\ \A bytes \in [1 .. WordSize -> Byte] : LoadWord(bytes) \in Word

-----------------------------------------------------------------------------
(***************************************************************************)
(* Unsigned arithmetic of two words.                                       *)
(***************************************************************************)
Add(a, b) == IF a + b < WordModulus THEN a + b ELSE a + b - WordModulus
Sub(a, b) == IF a >= b THEN a - b ELSE a - b + WordModulus
MaxWord   == WordModulus - 1

-----------------------------------------------------------------------------
(***************************************************************************)
(* Regions.  data holds one byte per address of the region, data[1] being  *)
(* the byte at base.                                                       *)
(***************************************************************************)
Permission == {"Read", "Write", "Exec"}

Mapping(name, base, size, permissions, initial) ==
  [name |-> name, base |-> base, size |-> size, permissions |-> permissions,
   data |-> [k \in 1 .. size |->
               IF k <= Len(initial) THEN initial[k] ELSE ZeroByte]]

CanMapIfStartIsFree(regions, base, size) ==
  /\ size # 0
  /\ base <= MaxWord - size
  /\ \A i \in DOMAIN regions :
       ~ /\ base < Add(regions[i].base, regions[i].size)
         /\ regions[i].base <= base

\* The conditions under which addRegion() maps the range: it is not empty, it
\* does not wrap the address space and it meets no region mapped before it.
CanMap(regions, base, size) ==
  /\ size # 0
  /\ base <= MaxWord - size
  /\ \A i \in DOMAIN regions :
       ~ /\ base < Add(regions[i].base, regions[i].size)
         /\ regions[i].base < Add(base, size)

addRegion(regions, region) == Append(regions, region)

Contains(region, address) ==
  /\ address >= region.base
  /\ address - region.base < region.size

NoRegion == 0    \* nullptr

\* The index of the first region that contains the address, or NoRegion.
regionAt(regions, address) ==
  IF \E i \in DOMAIN regions : Contains(regions[i], address)
    THEN CHOOSE i \in DOMAIN regions :
           /\ Contains(regions[i], address)
           /\ \A j \in 1 .. i - 1 : ~Contains(regions[j], address)
    ELSE NoRegion

-----------------------------------------------------------------------------
(***************************************************************************)
(* Accesses.  checkAccess() makes its tests in this order; every caller    *)
(* passes size > 0.                                                        *)
(***************************************************************************)
Denied(needed) ==
  CASE needed = "Read"  -> "ReadDenied"
    [] needed = "Write" -> "WriteDenied"
    [] needed = "Exec"  -> "ExecuteDenied"

AccessErrors ==
  {"Unmapped", "CrossesRegionEnd", "ReadDenied", "WriteDenied", "ExecuteDenied"}

checkBoundsOnly(regions, address, size, needed) ==
  LET i == regionAt(regions, address) IN
  IF i = NoRegion THEN "Unmapped"
  ELSE IF size > regions[i].size - (address - regions[i].base)
    THEN "CrossesRegionEnd"
  ELSE "Ok"

checkAccess(regions, address, size, needed) ==
  LET i == regionAt(regions, address) IN
  IF i = NoRegion THEN "Unmapped"
  ELSE IF size > regions[i].size - (address - regions[i].base)
    THEN "CrossesRegionEnd"
  ELSE IF needed \notin regions[i].permissions THEN Denied(needed)
  ELSE "Ok"

\* The bytes an access that checkAccess() lets through reads.
BytesAt(regions, address, size) ==
  LET region == regions[regionAt(regions, address)] IN
  [k \in 1 .. size |-> region.data[address - region.base + k]]

\* readU64() and fetchInstruction() differ in the permission they ask for.
WordAt(regions, address) == LoadWord(BytesAt(regions, address, WordSize))

\* The regions after the bytes are stored at an address that checkAccess()
\* lets the caller write.
Stored(regions, address, bytes) ==
  LET i      == regionAt(regions, address)
      offset == address - regions[i].base
  IN  [regions EXCEPT ![i].data =
         [k \in 1 .. regions[i].size |->
            IF k > offset /\ k - offset <= Len(bytes)
              THEN bytes[k - offset] ELSE regions[i].data[k]]]

\* A list of regions as the operations above leave it: each lies in the address
\* space and has a byte for each of its addresses.
Region == [name: Name, base: Word, size: Word,
           permissions: SUBSET Permission, data: Seq(Byte)]

WellFormed(regions) ==
  /\ regions \in Seq(Region)
  /\ \A i \in DOMAIN regions :
       /\ regions[i].size > 0
       /\ regions[i].base + regions[i].size < WordModulus
       /\ Len(regions[i].data) = regions[i].size

-----------------------------------------------------------------------------
(***************************************************************************)
(* The bump allocator.  RoundUp is (size + 7) & ~7 with the wrap of the    *)
(* addition; end - rounded is a u64 subtraction and wraps too.             *)
(***************************************************************************)
RoundUp(size) ==
  LET sum == Add(size, WordSize - 1) IN sum - (sum % WordSize)

CanAllocateIfRoomLeft(regions, heapNext, size) ==
  LET i == regionAt(regions, heapNext) IN
  /\ i # NoRegion
  /\ regions[i].name = "heap"
  /\ RoundUp(size) >= size
  /\ heapNext < Add(regions[i].base, regions[i].size)

CanAllocate(regions, heapNext, size) ==
  LET i == regionAt(regions, heapNext) IN
  /\ i # NoRegion
  /\ regions[i].name = "heap"
  /\ RoundUp(size) >= size
  /\ heapNext <= Sub(Add(regions[i].base, regions[i].size), RoundUp(size))

BumpedRoundedDown(heapNext, size) == Add(heapNext, size - (size % WordSize))

\* The block starts at heapNext; this is the allocation pointer afterwards.
Bumped(heapNext, size) == Add(heapNext, RoundUp(size))

=============================================================================
