---------------------------- MODULE HeapAllocator ----------------------------
(***************************************************************************)
(* The heap of a loaded program: VirtualMemory::allocate() called any      *)
(* number of times through the allocate system call, with any size that    *)
(* R1 can hold.  The other regions of the address space are lists of       *)
(* ranges the heap does not meet; allocate() looks its own region up by    *)
(* the allocation pointer.                                                 *)
(***************************************************************************)
EXTENDS VirtualMemory

CONSTANTS
  HeapBase, HeapSize,  \* kHeapBase, kHeapSize
  Others,              \* the regions mapped before the heap
  Sizes                \* the sizes programs ask for

HeapRegion == Mapping("heap", HeapBase, HeapSize, {"Read", "Write"}, <<>>)
Regions    == addRegion(Others, HeapRegion)
HeapEnd    == HeapBase + HeapSize

ASSUME HeapAssumption ==
  /\ HeapBase \in Word /\ HeapSize \in Word
  \* Nothing is mapped at address 0; kHeapBase and kHeapSize are multiples of 8.
  /\ HeapBase > 0 /\ HeapBase % WordSize = 0 /\ HeapSize % WordSize = 0
  /\ WellFormed(Others)
  \* The loader maps the heap only where no other region is.
  /\ CanMap(Others, HeapBase, HeapSize)
  \* The linker calls no segment "heap".
  /\ \A i \in DOMAIN Others : Others[i].name # "heap"
  /\ Sizes \subseteq Word

VARIABLES
  heapNext,  \* heap_next_
  answer,    \* what the last call left in R14; 0 is failure
  blocks     \* history: the blocks handed out, as [start, size]

vars == <<heapNext, answer, blocks>>

Init == heapNext = HeapBase /\ answer = 0 /\ blocks = {}

AllocateSucceeds(size) ==
  /\ CanAllocate(Regions, heapNext, size)
  /\ answer' = heapNext
  /\ heapNext' = Bumped(heapNext, size)
  /\ blocks' = blocks \cup {[start |-> heapNext, size |-> size]}

AllocateFails(size) ==
  /\ ~CanAllocate(Regions, heapNext, size)
  /\ answer' = 0
  /\ UNCHANGED <<heapNext, blocks>>

Next == \E size \in Sizes : AllocateSucceeds(size) \/ AllocateFails(size)

Spec == Init /\ [][Next]_vars

-----------------------------------------------------------------------------
Promise == INSTANCE BlockAllocator

\* Every call of allocate() behaves as the abstract allocator: blocks are in
\* the heap, word-aligned and never overlap, whatever was asked before.
KeepsPromise == Promise!BlockSpec

\* The allocation pointer is a byte count away from the heap's base, word-aligned,
\* and every block handed out lies below it.
BlocksBelowPointer ==
  /\ heapNext \in HeapBase .. HeapEnd
  /\ heapNext % WordSize = 0
  /\ \A block \in blocks :
       /\ HeapBase <= block.start
       /\ block.start + block.size <= heapNext

\* ADR-011: "R14 = address, or 0 on failure".  An answer other than 0 is the
\* start of a block the program may use to its end.
AnswersAreUsable ==
  answer # 0 =>
    \E block \in blocks : block.start = answer /\ Promise!InHeap(block)

=============================================================================
