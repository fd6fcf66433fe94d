--------------------------- MODULE MCHeapAllocator ---------------------------
(***************************************************************************)
(* A heap of five words of two 4-bit bytes at address 32, next to a data   *)
(* region that ends where it starts and below a stack that starts where it *)
(* ends.                                                                   *)
(***************************************************************************)
EXTENDS HeapAllocator

MCLoadWord(bytes) == bytes[1] + 16 * bytes[2]
MCStoreWord(word) == <<word % 16, word \div 16>>

ReadWrite == {"Read", "Write"}
MCOthers == << Mapping("data", 28, 4, ReadWrite, <<1>>),
               Mapping("stack", 42, 4, ReadWrite, <<>>) >>

\* Requests up to the address where the heap ends, and all requests.
FittingSizes == 0 .. HeapEnd
AllSizes == Word
=============================================================================
