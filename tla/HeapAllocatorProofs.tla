------------------------- MODULE HeapAllocatorProofs -------------------------
(***************************************************************************)
(* For every heap and every list of other regions: as long as no program   *)
(* asks for more than the address where the heap ends, the subtraction     *)
(* end - rounded in allocate() cannot wrap, and then the blocks it hands   *)
(* out keep the promise of BlockAllocator.                                 *)
(***************************************************************************)
EXTENDS HeapAllocator, VirtualMemoryProofs

\* No program asks for more than the address at which the heap ends.
FittingRequests == Sizes \subseteq 0 .. HeapEnd

\* The inductive invariant: BlocksBelowPointer, and blocks are what they are.
HeapInv ==
  /\ BlocksBelowPointer
  /\ \A block \in blocks : block \in [start: Nat, size: Nat]
  /\ answer # 0 => \E block \in blocks : block.start = answer

\* The constants as numbers.
LEMMA HeapTypes ==
  /\ HeapBase \in Nat /\ HeapSize \in Nat /\ HeapEnd \in Nat
  /\ HeapBase > 0 /\ HeapBase < HeapEnd /\ HeapEnd < WordModulus
  /\ HeapBase % WordSize = 0 /\ HeapEnd % WordSize = 0
<1>1. /\ HeapBase \in Nat /\ HeapSize \in Nat
      /\ HeapSize # 0 /\ HeapBase <= WordModulus - 1 - HeapSize
  BY HeapAssumption, WordTypes DEF CanMap, MaxWord, Word
<1>2. HeapEnd % WordSize = 0
  BY <1>1, AlignedSums, HeapAssumption, WordTypes DEF HeapEnd
<1>3. QED
  BY <1>1, <1>2, HeapAssumption, WordTypes DEF HeapEnd

\* A request that allocate() grants is rounded up and fits below the heap's
\* end: the region it finds under the pointer is the heap, and end - rounded
\* does not wrap.
LEMMA GrantedFits ==
  ASSUME FittingRequests,
         NEW next \in HeapBase .. HeapEnd, next % WordSize = 0,
         NEW size \in Sizes,
         CanAllocate(Regions, next, size)
  PROVE  /\ next + RoundUp(size) <= HeapEnd
         /\ RoundUp(size) \in Nat /\ size <= RoundUp(size)
         /\ Bumped(next, size) = next + RoundUp(size)
         /\ (next + RoundUp(size)) % WordSize = 0
<1> DEFINE i == regionAt(Regions, next)
           n == Len(Others)
<1>1. n \in Nat /\ DOMAIN Regions = 1 .. n + 1 /\ Regions[n + 1] = HeapRegion
      /\ \A j \in 1 .. n : Regions[j] = Others[j]
  BY HeapAssumption DEF Regions, addRegion, WellFormed
<1>2. i # NoRegion /\ Regions[i].name = "heap"
      /\ RoundUp(size) >= size
      /\ next <= Sub(Add(Regions[i].base, Regions[i].size), RoundUp(size))
  BY DEF CanAllocate
<1>3. i \in 1 .. n + 1
  BY <1>1, <1>2, RegionAtFacts
<1> HIDE DEF i
<1>4. i = n + 1
  <2>1. i \notin 1 .. n
    BY <1>1, <1>2, HeapAssumption
  <2>2. QED
    BY <1>1, <1>3, <2>1
<1>5. Regions[i].base = HeapBase /\ Regions[i].size = HeapSize
  BY <1>1, <1>4 DEF HeapRegion, Mapping
<1>6. Add(Regions[i].base, Regions[i].size) = HeapEnd
  BY <1>5, HeapTypes, WordTypes DEF Add, HeapEnd
<1>7. size \in Word /\ size <= HeapEnd
  BY HeapTypes, WordTypes DEF FittingRequests, Word
<1>8. RoundUp(size) \in Nat /\ RoundUp(size) <= HeapEnd /\ RoundUp(size) % WordSize = 0
  <2>1. RoundUp(size) \in Word
    BY <1>7, RoundUpBounds
  <2>2. RoundUp(size) <= HeapEnd
    BY <1>2, <1>7, RoundUpBounds, HeapTypes
  <2>3. QED
    BY <1>7, <2>1, <2>2, RoundUpBounds, WordTypes DEF Word
<1>9. next + RoundUp(size) <= HeapEnd
  BY <1>2, <1>6, <1>8, HeapTypes DEF Sub
<1>10. Bumped(next, size) = next + RoundUp(size)
  BY <1>8, <1>9, HeapTypes, WordTypes DEF Bumped, Add
<1>11. (next + RoundUp(size)) % WordSize = 0
  <2>1. next \in Int /\ RoundUp(size) \in Int
    BY <1>8, HeapTypes
  <2>2. QED
    BY <1>8, <2>1, AlignedSums
<1>12. QED
  BY <1>2, <1>8, <1>9, <1>10, <1>11

\* HeapInv holds throughout: the blocks handed out lie between the heap's base
\* and the allocation pointer, which moves up by what it hands out.
THEOREM HeapInvariant ==
  ASSUME FittingRequests PROVE Spec => []HeapInv
<1>1. Init => HeapInv
  BY HeapTypes DEF Init, HeapInv, BlocksBelowPointer
<1>2. ASSUME HeapInv, [Next]_vars PROVE HeapInv'
  <2>1. CASE UNCHANGED vars
    BY <1>2, <2>1 DEF vars, HeapInv, BlocksBelowPointer
  <2>2. ASSUME NEW size \in Sizes, AllocateSucceeds(size) PROVE HeapInv'
    <3> DEFINE granted == [start |-> heapNext, size |-> size]
    <3>1. heapNext \in HeapBase .. HeapEnd /\ heapNext % WordSize = 0
      BY <1>2 DEF HeapInv, BlocksBelowPointer
    <3>2. /\ heapNext' = heapNext + RoundUp(size)
          /\ RoundUp(size) \in Nat /\ size <= RoundUp(size)
          /\ heapNext' <= HeapEnd /\ heapNext' % WordSize = 0
      BY <1>2, <2>2, <3>1, GrantedFits DEF AllocateSucceeds
    <3>3. size \in Nat
      BY <1>2, HeapTypes DEF FittingRequests
    <3>4. blocks' = blocks \cup {granted} /\ answer' = granted.start
      BY <2>2 DEF AllocateSucceeds
    <3>5. granted \in [start: Nat, size: Nat]
      BY <3>1, <3>3, HeapTypes
    <3>6. heapNext' \in HeapBase .. HeapEnd
      BY <3>1, <3>2, HeapTypes
    <3>7. ASSUME NEW block \in blocks'
          PROVE  /\ block \in [start: Nat, size: Nat]
                 /\ HeapBase <= block.start
                 /\ block.start + block.size <= heapNext'
      <4>1. CASE block = granted
        BY <3>1, <3>2, <3>3, <3>5, <4>1, HeapTypes
      <4>2. CASE block \in blocks
        BY <1>2, <3>1, <3>2, <4>2, HeapTypes DEF HeapInv, BlocksBelowPointer
      <4>3. QED
        BY <3>4, <4>1, <4>2
    <3>8. \E block \in blocks' : block.start = answer'
      BY <3>4
    <3>9. QED
      BY <3>2, <3>6, <3>7, <3>8 DEF HeapInv, BlocksBelowPointer
  <2>3. ASSUME NEW size \in Sizes, AllocateFails(size) PROVE HeapInv'
    BY <1>2, <2>3 DEF AllocateFails, HeapInv, BlocksBelowPointer
  <2>4. QED
    BY <1>2, <2>1, <2>2, <2>3 DEF Next
<1>3. QED
  BY <1>1, <1>2, PTL DEF Spec

\* BlocksBelowPointer, which the run heap_fitting checks, for every heap.
THEOREM BlocksStayBelowPointer ==
  ASSUME FittingRequests PROVE Spec => []BlocksBelowPointer
<1>0. Spec => []HeapInv
  BY HeapInvariant
<1>1. HeapInv => BlocksBelowPointer
  BY DEF HeapInv
<1>2. QED
  BY <1>0, <1>1, PTL

\* A program that is answered with an address owns a block there, all of it in
\* the heap.
THEOREM AnswersStayUsable ==
  ASSUME FittingRequests PROVE Spec => []AnswersAreUsable
<1>0. Spec => []HeapInv
  BY HeapInvariant
<1>1. HeapInv => AnswersAreUsable
  <2>1. SUFFICES ASSUME HeapInv, answer # 0 PROVE AnswersAreUsable
    BY DEF AnswersAreUsable
  <2>2. PICK block \in blocks : block.start = answer
    BY <2>1 DEF HeapInv
  <2>3. /\ HeapBase <= block.start
        /\ block.start + block.size <= HeapBase + HeapSize
    BY <2>1, HeapTypes DEF HeapInv, BlocksBelowPointer, HeapEnd
  <2>4. QED
    BY <2>2, <2>3 DEF AnswersAreUsable, Promise!InHeap
<1>2. QED
  BY <1>0, <1>1, PTL

\* The bump allocator implements the abstract one: a call that succeeds is a
\* Grant of a block apart from all others, a call that fails a Refuse.
THEOREM AllocatorKeepsPromise ==
  ASSUME FittingRequests PROVE Spec => KeepsPromise
<1>0. Spec => []HeapInv
  BY HeapInvariant
<1>1. Init => Promise!BlockInit
  BY DEF Init, Promise!BlockInit
<1>2. ASSUME HeapInv, [Next]_vars
      PROVE  [Promise!BlockNext]_blocks
  <2>1. CASE UNCHANGED vars
    BY <2>1 DEF vars
  <2>2. ASSUME NEW size \in Sizes, AllocateSucceeds(size)
        PROVE  Promise!BlockNext
    <3> DEFINE granted == [start |-> heapNext, size |-> size]
    <3>1. heapNext \in HeapBase .. HeapEnd /\ heapNext % WordSize = 0
      BY <1>2 DEF HeapInv, BlocksBelowPointer
    <3>2. heapNext + size <= HeapEnd /\ size \in Nat
      <4>1. size \in Nat
        BY <1>2, HeapTypes DEF FittingRequests
      <4>2. /\ heapNext + RoundUp(size) <= HeapEnd
            /\ RoundUp(size) \in Nat /\ size <= RoundUp(size)
        BY <1>2, <2>2, <3>1, GrantedFits DEF AllocateSucceeds
      <4>3. QED
        BY <3>1, <4>1, <4>2, HeapTypes
    <3>3. Promise!InHeap(granted)
      BY <3>1, <3>2, HeapTypes DEF Promise!InHeap, HeapEnd
    <3>4. \A other \in blocks : Promise!Apart(granted, other)
      BY <1>2 DEF HeapInv, BlocksBelowPointer, Promise!Apart
    <3>5. blocks' = blocks \cup {granted}
      BY <2>2 DEF AllocateSucceeds
    <3>6. heapNext \in HeapBase .. HeapBase + HeapSize
      BY <3>1 DEF HeapEnd
    <3>7. Promise!Grant(size)
      BY <3>1, <3>3, <3>4, <3>5, <3>6 DEF Promise!Grant
    <3>8. QED
      BY <3>7 DEF Promise!BlockNext
  <2>3. ASSUME NEW size \in Sizes, AllocateFails(size)
        PROVE  UNCHANGED blocks
    BY <2>3 DEF AllocateFails
  <2>4. QED
    BY <1>2, <2>1, <2>2, <2>3 DEF Next
<1>3. QED
  BY <1>0, <1>1, <1>2, PTL DEF Spec, KeepsPromise, Promise!BlockSpec

=============================================================================
