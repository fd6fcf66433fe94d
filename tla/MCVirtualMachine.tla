--------------------------- MODULE MCVirtualMachine ---------------------------
(***************************************************************************)
(* Small machines for TLC: 4-bit bytes and words of two of them, so 256    *)
(* addresses; a stack of two words, a heap of three, a data segment of one *)
(* and a half.                                                             *)
(***************************************************************************)
EXTENDS VirtualMachine, FiniteSets

CONSTANTS Programs    \* the sequences of words placed in .text

LOCAL INSTANCE Bitwise

BitAnd(a, b) == a & b
BitOr(a, b)  == a | b
BitXor(a, b) == a ^^ b

Isa == INSTANCE Semantics WITH WordBits <- 8

MCLoadWord(bytes) == bytes[1] + 16 * bytes[2]
MCStoreWord(word) == <<word % 16, word \div 16>>

MCEvaluateBinary(opcode, a, b) == Isa!evaluateBinary(opcode, a, b)
MCEvaluateUnary(opcode, a)     == Isa!evaluateUnary(opcode, a)
MCBranchTaken(opcode, flags)   == Isa!branchTaken(opcode, flags)
MCFlags == SUBSET {"ZF", "SF", "CF", "OF"}

-----------------------------------------------------------------------------
\* The layout.  Addresses below the stack limit, within its size, are 108..111.
TextBase == 16
DataBase == 48
MCHeapBase  == 64
MCStackTop  == 116
MCRegister  == {1, 2, 3, 14}

\* The instructions of the model, by the word that encodes them.  A word that
\* is not listed does not decode; 0 is NOP as in the code.
Op(opcode, dst, src, imm) ==
  [opcode |-> opcode, dst |-> dst, src |-> src, imm |-> imm % WordModulus]

Code ==
  << Op("HALT", 1, 1, 0),               \* 1
     Op("MOVI", 1, 1, 1),               \* 2
     Op("MOVI", 1, 1, 17),              \* 3  an odd address in .text
     Op("MOVI", 2, 1, DataBase),        \* 4
     Op("MOVI", 2, 1, TextBase),        \* 5
     Op("MOVI", 3, 1, 2),               \* 6
     Op("MOV", 14, 1, 0),               \* 7
     Op("LOAD", 1, 2, 0),               \* 8
     Op("LOAD", 1, 2, 2),               \* 9  past the end of .data
     Op("STORE", 2, 3, 0),              \* 10
     Op("STORE", 2, 3, 63),             \* 11 just below the stack
     Op("PUSH", 1, 1, 0),               \* 12
     Op("POP", 3, 1, 0),                \* 13
     Op("CALL", 1, 1, 0),               \* 14 to the next instruction
     Op("RET", 1, 1, 0),                \* 15
     Op("JMP", 1, 1, -4),               \* 16 one instruction back
     Op("JE", 1, 1, 2),                 \* 17
     Op("CMP", 1, 3, 0),                \* 18
     Op("DIV", 1, 3, 0),                \* 19
     Op("DEC", 3, 1, 0),                \* 20
     Op("SYSCALL", 1, 1, 0),            \* 21 exit
     Op("SYSCALL", 1, 1, 1),            \* 22 write
     Op("SYSCALL", 1, 1, 2),            \* 23 read
     Op("SYSCALL", 1, 1, 3),            \* 24 allocate
     Op("SYSCALL", 1, 1, 4),            \* 25 no such call
     Op("MOVI", 1, 1, 0),               \* 26
     Op("MOVI", 2, 1, DataBase + 1),    \* 27 an odd address in .data
     Op("PUSH", 2, 1, 0),               \* 28
     Op("LEA", 3, 1, 9),                \* 29
     Op("MOVI", 3, 1, 3),               \* 30
     Op("CALL", 1, 1, 2),               \* 31 over one instruction
     Op("CALL", 1, 1, -6),              \* 32 three instructions back
     Op("MOVI", 3, 1, 35),              \* 33 a word of two non-zero bytes
     Op("STORE", 2, 3, 60),             \* 34 as far below it as it is large
     Op("LOAD", 1, 2, 59),              \* 35 one further below
     Op("LOAD", 1, 2, 67)               \* 36 past the top of the stack
  >>

MCDecode(word) ==
  IF word = 0 THEN Op("NOP", 1, 1, 0)
  ELSE IF word \in DOMAIN Code THEN Code[word]
  ELSE Undecodable

-----------------------------------------------------------------------------
\* Images.
Bytes(words) ==
  [k \in 1 .. 2 * Len(words) |-> MCStoreWord(words[(k + 1) \div 2])[2 - (k % 2)]]

Seg(name, type, address, size, flags, data) ==
  [name |-> name, type |-> type, virtual_address |-> address,
   virtual_size |-> size, flags |-> flags, data |-> data]

Text(words) ==
  Seg("text", "Text", TextBase, 2 * Len(words), {"Read", "Exec"}, Bytes(words))
Data == Seg("data", "Data", DataBase, 3, {"Read", "Write"}, <<5>>)

Image(segments, entry) ==
  [version |-> 1, segments |-> segments, entry_point |-> entry,
   debug_files |-> <<0>>, file_count |-> 1]

ProgramImages == {Image(<<Text(p), Data>>, TextBase) : p \in Programs}

\* Images that validate() refuses, images it accepts but that do not leave room
\* for the stack or the heap, and one with a segment called "heap".
OddImages ==
  LET text == Text(<<12, 15>>) IN
  { Image(<<>>, TextBase),
    Image(<<text, [Data EXCEPT !.virtual_address = TextBase + 3]>>, TextBase),
    Image(<<[text EXCEPT !.flags = Permission]>>, TextBase),
    Image(<<text>>, TextBase + 4),
    Image(<<text, [Data EXCEPT !.virtual_address = 253]>>, TextBase),
    [Image(<<text>>, TextBase) EXCEPT !.debug_files = <<1>>],
    [Image(<<text>>, TextBase) EXCEPT !.version = 2],
    Image(<<text, [Data EXCEPT !.virtual_address = MCStackTop - 1]>>, TextBase),
    Image(<<text, [Data EXCEPT !.virtual_address = MCHeapBase - 2]>>, TextBase),
    Image(<<text, [Data EXCEPT !.name = "heap"]>>, TextBase),
    Image(<<text, [Data EXCEPT !.name = "heap"],
            [Data EXCEPT !.virtual_address = MCHeapBase - 2]>>, TextBase) }

ReloadImages == OddImages \cup ProgramImages

MCInputs == {<<3, 7, 9>>}

-----------------------------------------------------------------------------
\* Programs that exercise each family of instructions.
WrittenPrograms ==
  { <<12, 12, 12, 1>>,            \* overflow the stack
    <<14, 13, 13, 1>>,            \* call, then pop once too often
    <<3, 12, 15, 1>>,             \* return to an odd address
    <<4, 28, 15, 1>>,             \* return into .data
    <<5, 6, 10, 1>>,              \* store into .text
    <<4, 29, 10, 8, 21>>,         \* store, load, exit
    <<27, 6, 10, 8, 9, 9>>,       \* unaligned store, then a load that crosses
    <<4, 11, 34, 35, 36, 0, 1>>,  \* access just below the stack, and past it
    <<6, 2, 19, 20, 20, 19>>,     \* divide, count down to zero, divide
    <<26, 18, 17, 25, 16, 1>>,    \* compare and branch, loop
    <<2, 4, 6, 22, 3, 22>>,       \* write to stdout, then to a bad descriptor
    <<26, 4, 6, 23, 22, 23>>,     \* read, write to a bad descriptor, read
    <<26, 5, 6, 23, 4, 23, 23>>,  \* read into .text, then into .data
    <<3, 24, 2, 24, 24, 24, 24>>, \* allocate until the heap is full
    <<25, 200>>,                  \* unknown call, undecodable word
    <<0, 16>> }                   \* run off the start of .text

\* Every program of the given length over some of the words.
Sweep(words, n) == [1 .. n -> words]
SweptPrograms == Sweep({0, 1, 4, 6, 10, 12, 13, 14, 15, 16}, 4) \cup WrittenPrograms

\* Programs to be loaded one after another, each leaving a different stack.
ReloadPrograms == {<<12, 14, 13>>, <<2, 24, 12, 21>>}
=============================================================================
