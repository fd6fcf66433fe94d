---------------------------- MODULE InstructionSet ----------------------------
(***************************************************************************)
(* The table of instructions (src/src/isa/opcode.cpp) and their encoding   *)
(* as words (src/src/isa/encoding.cpp).                                    *)
(*                                                                         *)
(* An instruction is a record [opcode, dst, src, imm]; imm is an i64 as    *)
(* its bit pattern.  Opcodes are numbered by their place in the table,     *)
(* which keeps their order but not the gaps between the groups.            *)
(***************************************************************************)
EXTENDS ObjectFile

CONSTANTS
  RegisterCount,    \* kRegisterCount
  Undecodable       \* what decode() returns for a word that is no instruction

ASSUME InstructionSetAssumption ==
  /\ RegisterCount \in Nat \ {0}
  \* The opcode, two registers and an immediate fit into a word.
  /\ 36 * RegisterCount * RegisterCount * ImmediateModulus <= WordModulus

kOpcodes ==
  <<"NOP", "HALT", "SYSCALL", "MOV", "MOVI", "LOAD", "STORE", "LEA", "PUSH",
    "POP", "ADD", "SUB", "MUL", "DIV", "MOD", "INC", "DEC", "NEG", "AND", "OR",
    "XOR", "NOT", "SHL", "SHR", "SAR", "CMP", "TEST", "JMP", "JE", "JNE", "JG",
    "JL", "JGE", "JLE", "CALL", "RET">>

Opcode == {kOpcodes[n] : n \in DOMAIN kOpcodes}

BinaryAlu == {"ADD", "SUB", "MUL", "DIV", "MOD", "AND", "OR", "XOR", "SHL",
              "SHR", "SAR", "CMP", "TEST"}
UnaryAlu  == {"INC", "DEC", "NEG", "NOT"}
readsFlags == {"JE", "JNE", "JG", "JL", "JGE", "JLE"}

\* The columns of the table.
Format(opcode) ==
  CASE opcode \in {"NOP", "HALT", "RET"}             -> "None"
    [] opcode \in UnaryAlu \cup {"PUSH", "POP"}      -> "Reg1"
    [] opcode \in BinaryAlu \cup {"MOV"}             -> "Reg2"
    [] opcode \in {"MOVI", "LEA"}                    -> "RegImm"
    [] opcode \in {"LOAD", "STORE"}                  -> "Mem"
    [] opcode \in readsFlags \cup {"JMP", "CALL"}    -> "Jump"
    [] opcode = "SYSCALL"                            -> "SysImm"

reads_dst     == BinaryAlu \cup UnaryAlu \cup {"STORE", "PUSH"}
writes_dst    == ((BinaryAlu \cup UnaryAlu) \ {"CMP", "TEST"})
                   \cup {"MOV", "MOVI", "LOAD", "LEA", "POP"}
writes_flags  == (BinaryAlu \cup UnaryAlu) \ {"NOT"}
is_terminator == {"HALT", "JMP", "RET"}
is_branch     == readsFlags \cup {"JMP", "CALL", "RET"}

operandCount(format) ==
  CASE format = "None" -> 0
    [] format \in {"Reg1", "Jump", "SysImm"} -> 1
    [] format \in {"Reg2", "RegImm", "Mem"}  -> 2

-----------------------------------------------------------------------------
(***************************************************************************)
(* encode() and decode().  A field that the format does not use is zero.   *)
(***************************************************************************)
usesDst(format) == format \in {"Reg1", "Reg2", "RegImm", "Mem"}
usesSrc(format) == format \in {"Reg2", "Mem"}
usesImm(format) == format \in {"RegImm", "Mem", "Jump", "SysImm"}

IsNegative(value) == value >= WordModulus \div 2

ImmediateFits(format, imm) ==
  IF format = "SysImm" THEN ~IsNegative(imm) /\ fitsUnsigned(imm, ImmediateModulus)
                       ELSE fitsSigned(imm, ImmediateModulus)

EncodeError(instruction) ==
  LET format == Format(instruction.opcode) IN
  IF \/ instruction.dst \notin 0 .. RegisterCount - 1
     \/ instruction.src \notin 0 .. RegisterCount - 1
    THEN "InvalidRegister"
  ELSE IF \/ ~usesDst(format) /\ instruction.dst # 0
          \/ ~usesSrc(format) /\ instruction.src # 0
          \/ ~usesImm(format) /\ instruction.imm # 0
    THEN "NonCanonicalOperand"
  ELSE IF usesImm(format) /\ ~ImmediateFits(format, instruction.imm)
    THEN "ImmediateOutOfRange" ELSE "None"

OpcodeNumber == [opcode \in Opcode |->
                   (CHOOSE n \in DOMAIN kOpcodes : kOpcodes[n] = opcode) - 1]

Fields(instruction) ==
  ((OpcodeNumber[instruction.opcode] * RegisterCount + instruction.dst)
      * RegisterCount + instruction.src) * ImmediateModulus

encode(instruction) == Fields(instruction) + (instruction.imm % ImmediateModulus)

signExtendInclusive(bits) ==
  IF bits <= ImmediateModulus \div 2 THEN bits
  ELSE WordModulus - ImmediateModulus + bits

signExtend(bits) ==
  IF bits < ImmediateModulus \div 2 THEN bits
  ELSE WordModulus - ImmediateModulus + bits

decode(word) ==
  LET imm    == word % ImmediateModulus
      src    == (word \div ImmediateModulus) % RegisterCount
      dst    == (word \div (ImmediateModulus * RegisterCount)) % RegisterCount
      number == word \div (ImmediateModulus * RegisterCount * RegisterCount)
      opcode == kOpcodes[number + 1]
      format == Format(opcode)
  IN  IF number + 1 \notin DOMAIN kOpcodes THEN Undecodable
      ELSE IF \/ ~usesDst(format) /\ dst # 0
              \/ ~usesSrc(format) /\ src # 0
              \/ ~usesImm(format) /\ imm # 0 THEN Undecodable
      ELSE [opcode |-> opcode, dst |-> dst, src |-> src,
            imm |-> IF usesImm(format) /\ format # "SysImm" THEN signExtend(imm)
                    ELSE imm]

=============================================================================
