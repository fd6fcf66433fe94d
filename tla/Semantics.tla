------------------------------ MODULE Semantics ------------------------------
(***************************************************************************)
(* What the ALU and branch instructions mean (src/src/isa/semantics.cpp):  *)
(* the one definition that the VM executes and the optimizer folds with.   *)
(*                                                                         *)
(* Words have WordBits bits, 64 in the code.  FLAGS is the set of the bits *)
(* that are on.  The bit tricks of the source on sign bits are written as  *)
(* the statements about signs that they compute.                           *)
(***************************************************************************)
EXTENDS Integers

CONSTANTS
  WordBits,      \* a power of two, so that b & (WordBits - 1) is b % WordBits
  BitAnd(_, _),  \* a & b
  BitOr(_, _),   \* a | b
  BitXor(_, _)   \* a ^ b

Modulus == 2 ^ WordBits
SignBit == 2 ^ (WordBits - 1)

BinaryOpcode == {"ADD", "SUB", "MUL", "DIV", "MOD", "AND", "OR", "XOR", "SHL",
                 "SHR", "SAR", "CMP", "TEST"}
UnaryOpcode  == {"INC", "DEC", "NEG", "NOT"}

Operand  == 0 .. Modulus - 1
FlagBits == {"ZF", "SF", "CF", "OF"}

\* A word has a sign bit and another; the bitwise operators give words.  What the
\* proofs know of powers of two is that exponents add up.
ASSUME SemanticsAssumption ==
  /\ WordBits \in Nat /\ WordBits > 1
  /\ 2 ^ 0 = 1 /\ 2 ^ 1 = 2
  /\ \A n \in 0 .. WordBits : 2 ^ n \in Nat \ {0}
  /\ \A m, n \in 0 .. WordBits : m + n <= WordBits => 2 ^ (m + n) = 2 ^ m * 2 ^ n
  /\ \A a, b \in Operand : {BitAnd(a, b), BitOr(a, b), BitXor(a, b)} \subseteq Operand

Wrap(x)     == x % Modulus
Negative(x) == x >= SignBit
Signed(x)   == IF Negative(x) THEN x - Modulus ELSE x
When(condition, flag) == IF condition THEN {flag} ELSE {}

zeroAndSign(result) ==
  When(result = 0, "ZF") \cup When(Negative(result), "SF")

SubtractionFlagsAsAddition(result, a, b) ==
  When(a < b, "CF") \cup
  When(Negative(a) = Negative(b) /\ Negative(a) # Negative(result), "OF")

\* The borrow and the overflow of a - b.
SubtractionFlags(result, a, b) ==
  When(a < b, "CF") \cup
  When(Negative(a) # Negative(b) /\ Negative(a) # Negative(result), "OF")

AdditionFlagsOffByOne(result, a, b) ==
  When(result <= a, "CF") \cup
  When(Negative(a) = Negative(b) /\ Negative(a) # Negative(result), "OF")

\* The carry and the overflow of a + b.
AdditionFlags(result, a, b) ==
  When(result < a, "CF") \cup
  When(Negative(a) = Negative(b) /\ Negative(a) # Negative(result), "OF")

computeFlags(result, a, b, isSubtraction) ==
  zeroAndSign(result) \cup
  IF isSubtraction THEN SubtractionFlags(result, a, b)
                   ELSE AdditionFlags(result, a, b)

\* An AluResult: the value and flags, and which of them the CPU writes back.
Writes(value, flags) ==
  [error |-> "None", value |-> value, flags |-> flags,
   writes_value |-> TRUE, writes_flags |-> TRUE]
WritesFlags(a, flags) == [Writes(a, flags) EXCEPT !.writes_value = FALSE]
Logical(value) == Writes(value, zeroAndSign(value))
AluFails(error) ==
  [error |-> error, value |-> 0, flags |-> {},
   writes_value |-> FALSE, writes_flags |-> FALSE]

-----------------------------------------------------------------------------
\* C++ division of signed integers truncates towards zero.
Magnitude(x) == IF x < 0 THEN -x ELSE x
Quotient(x, y) ==
  LET q == Magnitude(x) \div Magnitude(y) IN
  IF (x < 0) = (y < 0) THEN q ELSE -q
RemainderEuclidean(x, y) == x % Magnitude(y)
Remainder(x, y) == x - y * Quotient(x, y)

Multiply(a, b) ==
  LET result == Wrap(a * b) IN
  Writes(result,
         zeroAndSign(result) \cup When(a # 0 /\ result \div a # b, "CF"))

\* The divisor -1 is taken apart because MIN / -1 overflows in C++.
Divide(a, b) ==
  IF b = 0 THEN AluFails("DivisionByZero")
  ELSE IF Signed(b) = -1 THEN Logical(Wrap(-a))
  ELSE Logical(Wrap(Quotient(Signed(a), Signed(b))))

Modulo(a, b) ==
  IF b = 0 THEN AluFails("DivisionByZero")
  ELSE IF Signed(b) = -1 THEN Logical(0)
  ELSE Logical(Wrap(Remainder(Signed(a), Signed(b))))

ShiftCount(b) == b % WordBits
Bit(x, n) == (x \div 2 ^ n) % 2

ShiftLeft(a, b) ==
  LET count  == ShiftCount(b)
      result == Wrap(a * 2 ^ count)
  IN  Writes(result, zeroAndSign(result) \cup
        When(count # 0 /\ Bit(a, WordBits - count) = 1, "CF"))

ShiftedRightCarriesNextBit(a, count, fill) ==
  LET result == IF count = 0 THEN a ELSE (a \div 2 ^ count) + fill IN
  Writes(result, zeroAndSign(result) \cup
    When(IF count = 0 THEN FALSE ELSE Bit(a, count) = 1, "CF"))

\* SHR and SAR differ in what they shift in at the top.
ShiftedRight(a, count, fill) ==
  LET result == IF count = 0 THEN a ELSE (a \div 2 ^ count) + fill IN
  Writes(result, zeroAndSign(result) \cup
    When(IF count = 0 THEN FALSE ELSE Bit(a, count - 1) = 1, "CF"))

ShiftRight(a, b) == ShiftedRight(a, ShiftCount(b), 0)

ShiftArithmetic(a, b) ==
  LET count == ShiftCount(b) IN
  ShiftedRight(a, count,
    IF Negative(a) THEN Modulus - 2 ^ (WordBits - count) ELSE 0)

evaluateBinary(opcode, a, b) ==
  CASE opcode = "ADD"  -> Writes(Wrap(a + b), computeFlags(Wrap(a + b), a, b, FALSE))
    [] opcode = "SUB"  -> Writes(Wrap(a - b), computeFlags(Wrap(a - b), a, b, TRUE))
    [] opcode = "MUL"  -> Multiply(a, b)
    [] opcode = "DIV"  -> Divide(a, b)
    [] opcode = "MOD"  -> Modulo(a, b)
    [] opcode = "AND"  -> Logical(BitAnd(a, b))
    [] opcode = "OR"   -> Logical(BitOr(a, b))
    [] opcode = "XOR"  -> Logical(BitXor(a, b))
    [] opcode = "SHL"  -> ShiftLeft(a, b)
    [] opcode = "SHR"  -> ShiftRight(a, b)
    [] opcode = "SAR"  -> ShiftArithmetic(a, b)
    [] opcode = "CMP"  -> WritesFlags(a, computeFlags(Wrap(a - b), a, b, TRUE))
    [] opcode = "TEST" -> WritesFlags(a, zeroAndSign(BitAnd(a, b)))
    [] OTHER           -> AluFails("NotArithmetic")

evaluateUnary(opcode, a) ==
  CASE opcode = "INC" -> Writes(Wrap(a + 1), computeFlags(Wrap(a + 1), a, 1, FALSE))
    [] opcode = "DEC" -> Writes(Wrap(a - 1), computeFlags(Wrap(a - 1), a, 1, TRUE))
    [] opcode = "NEG" -> Writes(Wrap(-a), computeFlags(Wrap(-a), 0, a, TRUE))
    [] opcode = "NOT" -> [Writes(Modulus - 1 - a, {}) EXCEPT !.writes_flags = FALSE]
    [] OTHER          -> AluFails("NotArithmetic")

branchTaken(opcode, flags) ==
  LET less == ("SF" \in flags) # ("OF" \in flags) IN
  CASE opcode \in {"JMP", "CALL"} -> TRUE
    [] opcode = "JE"  -> "ZF" \in flags
    [] opcode = "JNE" -> "ZF" \notin flags
    [] opcode = "JG"  -> "ZF" \notin flags /\ ~less
    [] opcode = "JL"  -> less
    [] opcode = "JGE" -> ~less
    [] opcode = "JLE" -> "ZF" \in flags \/ less
    [] OTHER          -> FALSE

=============================================================================
