---------------------------- MODULE BlockAllocator ----------------------------
(***************************************************************************)
(* What allocate() promises a program (docs/adr/ADR-011-runtime-abi.md,    *)
(* include/minitool/vm/memory.hpp): each call answers with a block of at   *)
(* least the size asked for, inside the heap, word-aligned and sharing no  *)
(* byte with a block handed out before, or with failure.                   *)
(***************************************************************************)
EXTENDS Integers

CONSTANTS HeapBase, HeapSize, WordSize, Sizes

VARIABLE blocks    \* the blocks handed out, as [start, size]

BlockInit == blocks = {}

InHeap(block) ==
  HeapBase <= block.start /\ block.start + block.size <= HeapBase + HeapSize

Apart(a, b) == a.start + a.size <= b.start \/ b.start + b.size <= a.start

Grant(size) ==
  \E start \in HeapBase .. HeapBase + HeapSize :
    LET block == [start |-> start, size |-> size] IN
    /\ start % WordSize = 0
    /\ InHeap(block)
    /\ \A other \in blocks : Apart(block, other)
    /\ blocks' = blocks \cup {block}

Refuse == UNCHANGED blocks

BlockNext == Refuse \/ \E size \in Sizes : Grant(size)

BlockSpec == BlockInit /\ [][BlockNext]_blocks

=============================================================================
