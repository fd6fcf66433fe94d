------------------------------ MODULE AluMachine ------------------------------
(***************************************************************************)
(* The ALU at work: two registers and FLAGS, and any sequence of ALU       *)
(* instructions on them, written back as execute() does (src/src/vm/vm.cpp *)
(* with src/src/isa/semantics.cpp).  The properties compare what the       *)
(* instructions compute with integer arithmetic, which knows no words.     *)
(***************************************************************************)
EXTENDS Semantics

CONSTANT NoComparison

VARIABLES
  dst, src,  \* the operands, and dst the result
  flags,     \* cpu_.flags
  last,      \* the instruction executed last: its opcode and its operands
  compared   \* history: what the last CMP compared, while FLAGS is still its

vars == <<dst, src, flags, last, compared>>

NotYet == [opcode |-> "NOP", a |-> 0, b |-> 0]

Init ==
  /\ dst \in Operand /\ src \in Operand
  /\ flags = {}
  /\ last = NotYet
  /\ compared = NoComparison

\* What execute() does with an AluResult.
WriteBack(opcode, alu) ==
  /\ dst' = IF alu.writes_value THEN alu.value ELSE dst
  /\ flags' = IF alu.writes_flags THEN alu.flags ELSE flags
  /\ last' = [opcode |-> opcode, a |-> dst, b |-> src]
  /\ compared' = IF opcode = "CMP" THEN [a |-> dst, b |-> src]
                 ELSE IF opcode = "NOT" THEN compared
                 ELSE NoComparison
  /\ UNCHANGED src

\* A division by zero traps and the program does not go on.
Binary(opcode) ==
  LET alu == evaluateBinary(opcode, dst, src) IN
  alu.error = "None" /\ WriteBack(opcode, alu)

Unary(opcode) == WriteBack(opcode, evaluateUnary(opcode, dst))

Next ==
  \/ \E opcode \in BinaryOpcode : Binary(opcode)
  \/ \E opcode \in UnaryOpcode : Unary(opcode)

Spec == Init /\ [][Next]_vars

-----------------------------------------------------------------------------
\* docs/isa.md, section 5: "Conditional branches use signed comparisons".  Each
\* branch decides what it is named for about the operands of the last CMP, even
\* if their difference overflows and other instructions came in between, as long
\* as those left FLAGS alone.
BranchesCompareSigned ==
  compared # NoComparison =>
    LET x == Signed(compared.a)
        y == Signed(compared.b)
    IN  /\ branchTaken("JE", flags)  <=> x = y
        /\ branchTaken("JNE", flags) <=> x # y
        /\ branchTaken("JL", flags)  <=> x < y
        /\ branchTaken("JLE", flags) <=> x <= y
        /\ branchTaken("JG", flags)  <=> x > y
        /\ branchTaken("JGE", flags) <=> x >= y

\* The exact result of an instruction on numbers, taking the operands as
\* unsigned or as signed.
Exact(opcode, x, y) ==
  CASE opcode = "ADD" -> x + y
    [] opcode = "SUB" -> x - y
    [] opcode = "MUL" -> x * y
    [] opcode = "INC" -> x + 1
    [] opcode = "DEC" -> x - 1
    [] opcode = "NEG" -> -x

\* CF is set exactly when the result as unsigned numbers does not fit a word, OF
\* exactly when the result as signed numbers does not (never for MUL), and the
\* word stored is the low word of both.
FlagsReportOverflow ==
  LET op == last.opcode
      unsigned == Exact(op, last.a, last.b)
      signed   == Exact(op, Signed(last.a), Signed(last.b))
  IN  op \in {"ADD", "SUB", "MUL", "INC", "DEC", "NEG"} =>
        /\ dst = Wrap(unsigned) /\ dst = Wrap(signed)
        /\ ("CF" \in flags) <=> (unsigned \notin Operand)
        /\ ("OF" \in flags) <=> (op # "MUL" /\ Signed(dst) # signed)
        /\ ("ZF" \in flags) <=> (dst = 0)
        /\ ("SF" \in flags) <=> (Signed(dst) < 0)

\* DIV and MOD truncate towards zero and belong together: quotient times divisor
\* plus remainder is the dividend, the remainder is smaller than the divisor and
\* has the sign of the dividend; the one quotient that does not fit wraps.
DivisionIsExact ==
  last.opcode \in {"DIV", "MOD"} =>
    LET x == Signed(last.a)
        y == Signed(last.b)
        q == Signed(evaluateBinary("DIV", last.a, last.b).value)
        r == Signed(evaluateBinary("MOD", last.a, last.b).value)
    IN  /\ dst = evaluateBinary(last.opcode, last.a, last.b).value
        /\ Wrap(y * q + r) = last.a
        /\ Magnitude(r) < Magnitude(y)
        /\ r # 0 => (r < 0 <=> x < 0)
        /\ (y * q + r # x) <=> (y = -1 /\ x < 0 /\ Signed(Wrap(-x)) = x)

\* A shift by n is n shifts by one, and CF is the bit the last of them moves
\* out; a shift by zero, or by a multiple of the word length, moves nothing.
ShiftsCompose ==
  last.opcode \in {"SHL", "SHR", "SAR"} =>
    LET n == last.b % WordBits
        shorter == evaluateBinary(last.opcode, last.a, n - 1).value
        out == Bit(shorter, IF last.opcode = "SHL" THEN WordBits - 1 ELSE 0)
    IN  IF n = 0 THEN dst = last.a /\ "CF" \notin flags
        ELSE /\ dst = CASE last.opcode = "SHL" -> Wrap(2 * shorter)
                        [] last.opcode = "SHR" -> shorter \div 2
                        [] last.opcode = "SAR" -> Wrap(Signed(shorter) \div 2)
             /\ ("CF" \in flags) <=> (out = 1)

=============================================================================
