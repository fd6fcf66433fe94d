----------------------------- MODULE MCToolchain -----------------------------
(***************************************************************************)
(* Files to assemble.  A byte has two bits, so that a word of eight bytes  *)
(* has 16: 6 for the opcode, 2 for each register and 6 for the immediate.  *)
(***************************************************************************)
EXTENDS Toolchain

LOCAL INSTANCE Bitwise

BitAnd(a, b) == a & b
BitOr(a, b)  == a | b
BitXor(a, b) == a ^^ b

ALU == INSTANCE Semantics WITH WordBits <- 16

MCByte == 0 .. 3
MCLoadWord(bytes) ==
  bytes[1] + 4 * bytes[2] + 16 * bytes[3] + 64 * bytes[4] + 256 * bytes[5]
    + 1024 * bytes[6] + 4096 * bytes[7] + 16384 * bytes[8]
MCStoreWord(word) == [k \in 1 .. 8 |-> (word \div 4 ^ (k - 1)) % 4]
MCImmediateUse(word) ==
  LET instruction == decode(word) IN
  IF instruction = Undecodable THEN "Undecodable"
  ELSE IF ~usesImm(Format(instruction.opcode)) THEN "None"
  ELSE IF instruction.opcode = "SYSCALL" THEN "Unsigned" ELSE "Signed"
MCEvaluateBinary(opcode, a, b) == ALU!evaluateBinary(opcode, a, b)
MCEvaluateUnary(opcode, a) == ALU!evaluateUnary(opcode, a)
MCBranchTaken(opcode, flags) == ALU!branchTaken(opcode, flags)

-----------------------------------------------------------------------------
Operand(type, reg, immediate, symbol, text) ==
  [type |-> type, reg |-> reg, immediate |-> immediate % WordModulus,
   symbol |-> symbol, text |-> text]
R(reg)     == Operand("Register", reg, 0, "", <<>>)
I(n)       == Operand("Immediate", 0, n, "", <<>>)
S(name, n) == Operand("Symbol", 0, n, name, <<>>)
M(reg, n)  == Operand("Memory", reg, n, "", <<>>)
T(text)    == Operand("String", 0, 0, "", text)

L(name) == <<[node |-> "label", name |-> name]>>
D(type, operands) == <<[node |-> "directive", type |-> type, operands |-> operands]>>
X(mnemonic, operands) ==
  <<[node |-> "instruction", mnemonic |-> mnemonic, operands |-> operands]>>

X1(mnemonic, a)    == X(mnemonic, <<R(a)>>)
X2(mnemonic, a, b) == X(mnemonic, <<R(a), R(b)>>)
Movi(a, n)         == X("MOVI", <<R(a), I(n)>>)
Jump(mnemonic, name) == X(mnemonic, <<S(name, 0)>>)
Sys(n) == X("SYSCALL", <<I(n)>>)
Nop    == X("NOP", <<>>)
Halt   == X("HALT", <<>>)
Ret    == X("RET", <<>>)
Section(name) == D("Section", <<S(name, 0)>>)

-----------------------------------------------------------------------------
\* Programs for the optimizer.
Plain == {Movi(1, 1), Movi(2, 1), X2("MOV", 1, 2), X2("MOV", 2, 1),
          X("LEA", <<R(2), I(3)>>), X2("ADD", 1, 2), X2("DIV", 1, 2), X1("NOT", 1),
          X1("PUSH", 1), X1("POP", 1), X1("POP", 2), X("STORE", <<M(2, 0), R(1)>>),
          X("LOAD", <<R(1), M(2, 0)>>), Nop, Sys(1)}

Straight == {Movi(1, 31) \o h1 \o h2 \o h3 \o Halt : h1, h2, h3 \in Plain}

\* The flags of an instruction, across what follows to a branch on them or not.
Setters == {X2("ADD", 1, 2), X2("SUB", 1, 2), X2("CMP", 1, 2), X1("NOT", 1)}
Between == {Nop, Sys(1), Jump("JMP", "k") \o Nop \o L("k"), L("k"), X1("INC", 2),
            Jump("CALL", "f"), X1("PUSH", 1) \o X1("POP", 2)}
Leaving == {Jump("JE", "e") \o Movi(1, 7), Jump("JL", "e") \o Halt, Jump("JMP", "e") \o Nop,
            Jump("JMP", "x"), Jump("CALL", "x"), Sys(0), Sys(1)}
Branching2 ==
  {Movi(1, 1) \o Movi(2, 1) \o setter \o between \o leaving \o L("e") \o Sys(1) \o Halt
     \o L("f") \o callee \o Ret :
     setter \in Setters, between \in Between, leaving \in Leaving,
     callee \in {Nop, X1("DEC", 1)}}

\* A loop counts down on flags that the body may destroy; blocks in an order in
\* which liveness travels backwards.
Loops ==
  {Movi(1, 2) \o L("k") \o X1("DEC", 1) \o body \o Jump("JNE", "k") \o Halt :
     body \in {Nop, Sys(1), X1("NOT", 2), X2("MOV", 2, 1), Movi(2, 1) \o X2("ADD", 2, 2)}}
Backwards ==
  {Jump("JMP", "f") \o L("e") \o last \o L("k") \o Jump("JMP", "e") \o
     L("f") \o Movi(1, 1) \o Movi(2, 1) \o X2("SUB", 1, 2) \o Jump("JMP", "k") :
     last \in {Jump("JE", "x") \o Halt, Sys(1) \o Halt}}

\* Labels next to each other, at the end and around data.
Edges ==
  {Jump("JMP", "e") \o L("k") \o L("e"),
   Movi(1, 1) \o X2("ADD", 1, 1) \o Jump("JE", "e") \o Nop \o L("e"),
   Movi(1, 1) \o X1("INC", 1) \o Halt \o D("Qword", <<S("k", 0)>>) \o Nop \o L("k") \o Ret,
   Jump("JMP", "k") \o D("Align", <<I(8)>>) \o L("k") \o Halt,
   X("MOVI", <<R(1), S("k", 8)>>) \o X2("MOV", 2, 1) \o L("k") \o Halt,
   Jump("JMP", "k") \o Jump("JMP", "k") \o L("e") \o L("k") \o Sys(0) \o Movi(1, 1),
   <<>>, L("k")}

\* An immediate at the limit of its field, and past it.
Limits ==
  {Movi(1, n) \o op \o Sys(1) \o Halt :
     n \in {31, -32}, op \in {X1("INC", 1), X1("DEC", 1), X1("NEG", 1), X2("MOV", 2, 1)}}

\* Pairs of PUSH and POP around each other: a round removes the innermost one.
Nested(n) ==
  LET Around[k \in 0 .. n] ==
        IF k = 0 THEN <<>> ELSE X1("PUSH", 1) \o Around[k - 1] \o X1("POP", 1)
  IN  Around[n] \o Halt

Programs == Straight \cup Branching2 \cup Loops \cup Backwards \cup Edges \cup Limits
              \cup {Nested(n) : n \in 2 .. 9}

-----------------------------------------------------------------------------
\* Pieces of files, some of them wrong.
Pieces ==
  {Section(".data") \o L("a") \o D("Byte", <<I(1), I(-1)>>) \o D("Align", <<I(4)>>)
     \o L("b") \o D("Qword", <<I(5), S("a", 8), S("x", 0), I(-6), I(7)>>),
   Section(".bss") \o D("Space", <<I(3)>>) \o L("c") \o D("Align", <<I(16)>>)
     \o L("d") \o D("Space", <<I(1), I(0)>>),
   Section(".rodata") \o D("Asciz", <<T(<<1, 2>>)>>) \o L(".Ls")
     \o D("Dword", <<S(".Ls", 0)>>) \o D("Word", <<I(3)>>),
   X("LEA", <<R(1), S("a", 0)>>) \o Jump("CALL", "x") \o L("t") \o Halt \o Nop,
   Section(".text") \o Jump("JMP", ".Ls"),
   D("Byte", <<I(2)>>) \o Movi(2, -1) \o X("STORE", <<M(1, 8), R(2)>>),
   D("Space", <<I(2), I(3)>>) \o L("u"),
   D("Global", <<S("a", 0), S("t", 0)>>), D("Weak", <<S("a", 0), S("w", 0)>>),
   D("Extern", <<S("x", 0)>>), D("Extern", <<S("c", 0), S("w", 0)>>)}

Wrong ==
  {L("a") \o L("a"), Section(".code"), D("Section", <<I(1)>>), D("Section", <<>>),
   X("ADD", <<R(1)>>), X("JUMP", <<>>), X("MOVI", <<R(1), R(2)>>), X1("JMP", 1),
   X("MOVI", <<R(1), I(32)>>), X("JMP", <<I(12)>>), X("JMP", <<I(40)>>), Sys(-1),
   Sys(64), X("LOAD", <<R(1), M(2, 32)>>), X("LOAD", <<R(1), I(0)>>), Jump("SYSCALL", "a"),
   D("Byte", <<I(4)>>), D("Byte", <<S("a", 0)>>), D("Byte", <<R(1)>>), D("Word", <<>>),
   D("Global", <<>>), D("Weak", <<S("a", 8)>>), D("Asciz", <<I(1)>>), D("Align", <<I(3)>>),
   D("Align", <<I(0)>>), D("Space", <<I(-1)>>), D("Space", <<I(1), I(4)>>)}

Files ==
  {p \o q : p \in Pieces \cup Wrong, q \in Pieces}
    \cup {p \o q \o r : p, q, r \in Pieces}

Built(sources, level, debug) ==
  {[source |-> s, opt_level |-> level, emit_debug_info |-> debug] : s \in sources}

MCBuilds ==
  Built(Programs, "O1", TRUE) \cup Built(Files, "O0", TRUE)
    \cup Built(Edges \cup {p \o q : p, q \in Pieces}, "O1", FALSE)

\* A branch over a displacement written as a number.
Displaced ==
  {Movi(1, 1) \o X("JMP", <<I(8)>>) \o Nop \o Movi(1, 2) \o Sys(0)}
DisplacedBuilds == Built(Displaced, "O1", TRUE)

=============================================================================
