------------------------------- MODULE FrontEnd -------------------------------
(***************************************************************************)
(* From the parse tree of a file to its IR: the semantic checks            *)
(* (src/src/assembler/sema.cpp) and the lowering (src/src/ir/lower.cpp).   *)
(*                                                                         *)
(* A statement is a label, a directive or an instruction; its line is its  *)
(* place in the file.  An operand is [type, reg, immediate, symbol, text], *)
(* immediate being an i64 as its bit pattern and text a string's bytes.    *)
(* Both stages go through all statements and collect every error.          *)
(***************************************************************************)
EXTENDS InstructionSet, FiniteSets

CONSTANTS
  ByteModulus,    \* 2^8: the values of a byte
  LocalName,      \* the names that start with .L
  NoSymbol        \* std::nullopt

ASSUME FrontEndAssumption ==
  /\ Byte = 0 .. ByteModulus - 1 /\ ZeroByte = 0
  /\ ByteModulus \in Nat \ {0}
  /\ LocalName \subseteq SymbolName
  /\ WordSize = 8 /\ PowerOfTwo(WordSize)
  /\ WordModulus = ByteModulus ^ WordSize
  /\ \A n \in 0 .. WordSize : ByteModulus ^ n \in Nat \ {0}
  /\ NoSymbol \notin [name : STRING, addend : Word]

Error(line, code) == [line |-> line, code |-> code]
When(condition, line, code) == IF condition THEN {Error(line, code)} ELSE {}

SectionKind == {"Text", "Rodata", "Data", "Bss"}
NoKind == "None"
sectionKindFromName(name) ==
  CASE name = ".text" -> "Text" [] name = ".rodata" -> "Rodata"
    [] name = ".data" -> "Data" [] name = ".bss"    -> "Bss"
    [] OTHER -> NoKind

dataDirectiveWidth(type) ==
  CASE type = "Byte" -> 1 [] type = "Word" -> 2
    [] type = "Dword" -> 4 [] type = "Qword" -> 8

DataDirective == {"Byte", "Word", "Dword", "Qword"}
Binding       == {"Global", "Extern", "Weak"}

\* What the parser yields.
SourceOperand ==
  [type : {"Register", "Immediate", "Symbol", "Memory", "String"},
   reg : 0 .. RegisterCount - 1, immediate : Word, symbol : STRING, text : Seq(Byte)]
LabelStatement == [node : {"label"}, name : STRING]
DirectiveStatement ==
  [node : {"directive"}, operands : Seq(SourceOperand),
   type : {"Section", "Asciz", "Align", "Space"} \cup DataDirective \cup Binding]
InstructionStatement ==
  [node : {"instruction"}, mnemonic : STRING, operands : Seq(SourceOperand)]
Statement == LabelStatement \cup DirectiveStatement \cup InstructionStatement

-----------------------------------------------------------------------------
(***************************************************************************)
(* Semantic analysis: the errors of one statement.                         *)
(***************************************************************************)
checkLabel(program, line) ==
  When(\E earlier \in 1 .. line - 1 :
         program[earlier].node = "label" /\ program[earlier].name = program[line].name,
       line, "DuplicateSymbol")

isValueOperand(operand) == operand.type \in {"Immediate", "Symbol"}

\* Of a symbol the linker will check the value.  A memory operand is not an
\* immediate either, so its displacement passes unchecked.
checkSignedRange(operand, line) ==
  When(operand.type = "Immediate" /\ ~fitsSigned(operand.immediate, ImmediateModulus),
       line, "IntegerOverflow")

requireKind(operand, wanted, line) ==
  When(operand.type # wanted, line, "InvalidOperand")

checkRegImm(operands, line) ==
  requireKind(operands[1], "Register", line) \cup
  IF operands[1].type = "Register" /\ ~isValueOperand(operands[2])
    THEN {Error(line, "InvalidOperand")} ELSE checkSignedRange(operands[2], line)

\* STORE names the memory first, LOAD the register.
MemoryOperand(mnemonic, operands) ==
  IF mnemonic = "STORE" THEN operands[1] ELSE operands[2]
RegisterOperand(mnemonic, operands) ==
  IF mnemonic = "STORE" THEN operands[2] ELSE operands[1]

checkMem(mnemonic, operands, line) ==
  LET memory == MemoryOperand(mnemonic, operands) IN
  requireKind(RegisterOperand(mnemonic, operands), "Register", line) \cup
  IF memory.type = "Memory" THEN checkSignedRange(memory, line)
                            ELSE {Error(line, "InvalidOperand")}

\* A literal displacement counts bytes.
checkJump(operand, line) ==
  IF ~isValueOperand(operand) THEN {Error(line, "InvalidOperand")}
  ELSE IF checkSignedRange(operand, line) # {} THEN checkSignedRange(operand, line)
  ELSE When(operand.type = "Immediate" /\ operand.immediate % WordSize # 0,
            line, "InvalidOperand")

checkSysImm(operand, line) ==
  IF operand.type # "Immediate" THEN {Error(line, "InvalidOperand")}
  ELSE When(~ImmediateFits("SysImm", operand.immediate), line, "IntegerOverflow")

checkInstruction(statement, line) ==
  LET operands == statement.operands
      format   == Format(statement.mnemonic)
  IN  IF statement.mnemonic \notin Opcode THEN {Error(line, "InvalidOpcode")}
      ELSE IF Len(operands) # operandCount(format) THEN {Error(line, "InvalidOperand")}
      ELSE CASE format = "None"   -> {}
             [] format = "Reg1"   -> requireKind(operands[1], "Register", line)
             [] format = "Reg2"   -> requireKind(operands[1], "Register", line) \cup
                                     requireKind(operands[2], "Register", line)
             [] format = "RegImm" -> checkRegImm(operands, line)
             [] format = "Mem"    -> checkMem(statement.mnemonic, operands, line)
             [] format = "Jump"   -> checkJump(operands[1], line)
             [] format = "SysImm" -> checkSysImm(operands[1], line)

\* `.byte 255` and `.byte -1` are the same byte.
fitsInWidth(value, bytes) ==
  \/ bytes >= WordSize
  \/ fitsSigned(value, ByteModulus ^ bytes)
  \/ fitsUnsigned(value, ByteModulus ^ bytes)

checkData(operand, width, line) ==
  IF ~isValueOperand(operand) THEN {Error(line, "InvalidDirective")}
  ELSE IF operand.type = "Symbol" THEN When(width \notin {4, 8}, line, "InvalidRelocation")
  ELSE When(~fitsInWidth(operand.immediate, width), line, "IntegerOverflow")

OperandsAllowed(type) ==
  CASE type \in {"Section", "Asciz", "Align"} -> {1}
    [] type = "Space" -> {1, 2}
    [] OTHER -> Nat \ {0}

checkDirective(statement, line) ==
  LET operands == statement.operands
      type     == statement.type
      first    == operands[1]
      invalid  == {Error(line, "InvalidDirective")}
  IN  IF Len(operands) \notin OperandsAllowed(type) THEN invalid
      ELSE CASE type = "Section" ->
                  IF first.type # "Symbol" THEN invalid
                  ELSE When(sectionKindFromName(first.symbol) = NoKind,
                            line, "InvalidSectionReference")
             [] type \in Binding ->
                  When(\E k \in DOMAIN operands :
                         operands[k].type # "Symbol" \/ operands[k].immediate # 0,
                       line, "InvalidDirective")
             [] type \in DataDirective ->
                  UNION {checkData(operands[k], dataDirectiveWidth(type), line) :
                           k \in DOMAIN operands}
             [] type = "Asciz" -> When(first.type # "String", line, "InvalidDirective")
             [] type = "Align" ->
                  When(\/ first.type # "Immediate" \/ first.immediate = 0
                       \/ IsNegative(first.immediate) \/ ~PowerOfTwo(first.immediate),
                       line, "InvalidDirective")
             [] type = "Space" ->
                  When(\/ first.type # "Immediate" \/ IsNegative(first.immediate)
                       \/ /\ Len(operands) = 2
                          /\ \/ operands[2].type # "Immediate"
                             \/ ~fitsInWidth(operands[2].immediate, 1),
                       line, "InvalidDirective")

checkStatement(program, line) ==
  CASE program[line].node = "label"       -> checkLabel(program, line)
    [] program[line].node = "directive"   -> checkDirective(program[line], line)
    [] program[line].node = "instruction" -> checkInstruction(program[line], line)

analyze(program) == UNION {checkStatement(program, line) : line \in DOMAIN program}

-----------------------------------------------------------------------------
(***************************************************************************)
(* The IR.  An item of a section is a record with a kind and a line:       *)
(*   instruction   machine, and the symbol and addend its immediate is     *)
(*                 the address of, or NoSymbol                             *)
(*   label         name                                                    *)
(*   bytes         data                                                    *)
(*   value         the address of a symbol stored in width bytes           *)
(*   space         size bytes of fill                                      *)
(*   align         alignment                                               *)
(* A section that was never entered is one without items.                  *)
(***************************************************************************)
IsInstruction(item) == item.kind = "instruction"
IsLabel(item)       == item.kind = "label"
isSymbolic(item)    == item.symbol # NoSymbol
SymbolRef(operand)  == [name |-> operand.symbol, addend |-> operand.immediate]

instructionCount(items) == Cardinality({i \in DOMAIN items : IsInstruction(items[i])})

-----------------------------------------------------------------------------
(***************************************************************************)
(* Lowering.  Its state is the section it is in, the sections and names so *)
(* far and the errors.  vector::at() with an index past the end throws.    *)
(***************************************************************************)
LowererStart ==
  [current |-> "Text", sections |-> [kind \in SectionKind |-> <<>>],
   globals |-> <<>>, externs |-> <<>>, weaks |-> <<>>, errors |-> {}]

Emit(lowerer, item) == [lowerer EXCEPT !.sections[lowerer.current] = Append(@, item)]
Report(lowerer, line, code) == [lowerer EXCEPT !.errors = @ \cup {Error(line, code)}]

InitialisableSection(lowerer) == lowerer.current # "Bss"

Machine(opcode, dst, src, imm) ==
  [opcode |-> opcode, dst |-> dst, src |-> src, imm |-> imm]

\* setValue()
ValueOf(operand)  == IF operand.type = "Symbol" THEN 0 ELSE operand.immediate
SymbolOf(operand) == IF operand.type = "Symbol" THEN SymbolRef(operand) ELSE NoSymbol

\* For STORE, dst is the base of the memory operand.
lowerMem(mnemonic, operands) ==
  LET memory   == MemoryOperand(mnemonic, operands)
      register == RegisterOperand(mnemonic, operands)
  IN  IF mnemonic = "STORE"
        THEN Machine(mnemonic, memory.reg, register.reg, memory.immediate)
        ELSE Machine(mnemonic, register.reg, memory.reg, memory.immediate)

lowerMachine(mnemonic, operands) ==
  LET format == Format(mnemonic) IN
  CASE format = "None"   -> Machine(mnemonic, 0, 0, 0)
    [] format = "Reg1"   -> Machine(mnemonic, operands[1].reg, 0, 0)
    [] format = "Reg2"   -> Machine(mnemonic, operands[1].reg, operands[2].reg, 0)
    [] format = "RegImm" -> Machine(mnemonic, operands[1].reg, 0, ValueOf(operands[2]))
    [] format = "Mem"    -> lowerMem(mnemonic, operands)
    [] format = "Jump"   -> Machine(mnemonic, 0, 0, ValueOf(operands[1]))
    [] format = "SysImm" -> Machine(mnemonic, 0, 0, operands[1].immediate)

lowerSymbol(mnemonic, operands) ==
  CASE Format(mnemonic) = "RegImm" -> SymbolOf(operands[2])
    [] Format(mnemonic) = "Jump"   -> SymbolOf(operands[1])
    [] OTHER -> NoSymbol

lowerInstruction(lowerer, statement, line) ==
  LET mnemonic == statement.mnemonic
      operands == statement.operands
  IN  IF mnemonic \notin Opcode THEN Report(lowerer, line, "InvalidOpcode")
      ELSE IF lowerer.current # "Text"
        THEN Report(lowerer, line, "InvalidSectionReference")
      ELSE IF Len(operands) < operandCount(Format(mnemonic))
        THEN Report(lowerer, line, "out_of_range")
      ELSE Emit(lowerer, [kind |-> "instruction", line |-> line,
                          machine |-> lowerMachine(mnemonic, operands),
                          symbol |-> lowerSymbol(mnemonic, operands)])

\* The low bytes of a value, least significant first.
LowBytes(value, width) ==
  [k \in 1 .. width |-> (value \div ByteModulus ^ (k - 1)) % ByteModulus]

\* Literals next to each other become one run of bytes; a symbol ends the run.
lowerValue(lowerer, operand, width, line, startsRun) ==
  LET items == lowerer.sections[lowerer.current]
      bytes == LowBytes(operand.immediate, width)
  IN  IF operand.type = "Symbol"
        THEN Emit(lowerer, [kind |-> "value", line |-> line, width |-> width,
                            symbol |-> SymbolRef(operand)])
      ELSE IF startsRun
        THEN Emit(lowerer, [kind |-> "bytes", line |-> line, data |-> bytes])
      ELSE [lowerer EXCEPT !.sections[lowerer.current][Len(items)].data = @ \o bytes]

LoweringData(lowerer, statement, line) ==
  LET operands == statement.operands
      StartsRun(k) == k = 1 \/ operands[k - 1].type = "Symbol"
      l[k \in 0 .. Len(operands)] ==
        IF k = 0 THEN lowerer
        ELSE lowerValue(l[k - 1], operands[k], dataDirectiveWidth(statement.type), line,
                        StartsRun(k))
  IN  l

lowerData(lowerer, statement, line) ==
  LoweringData(lowerer, statement, line)[Len(statement.operands)]

lowerSpace(lowerer, operands, line) ==
  LET fill == IF Len(operands) > 1 THEN operands[2].immediate % ByteModulus ELSE 0 IN
  IF fill # 0 /\ ~InitialisableSection(lowerer)
    THEN Report(lowerer, line, "InvalidSectionReference")
    ELSE Emit(lowerer, [kind |-> "space", line |-> line, fill |-> fill,
                        size |-> operands[1].immediate])

Names(operands) == [k \in DOMAIN operands |-> operands[k].symbol]

lowerDirective(lowerer, statement, line) ==
  LET operands == statement.operands
      type     == statement.type
      kind     == sectionKindFromName(operands[1].symbol)
      refused  == Report(lowerer, line, "InvalidSectionReference")
  IN  CASE operands = <<>> /\ type \notin DataDirective \cup Binding ->
             Report(lowerer, line, "out_of_range")
        [] type = "Section" /\ operands # <<>> ->
             IF kind = NoKind THEN refused ELSE [lowerer EXCEPT !.current = kind]
        [] type = "Global" -> [lowerer EXCEPT !.globals = @ \o Names(operands)]
        [] type = "Extern" -> [lowerer EXCEPT !.externs = @ \o Names(operands)]
        [] type = "Weak"   -> [lowerer EXCEPT !.weaks = @ \o Names(operands)]
        [] type \in DataDirective ->
             IF InitialisableSection(lowerer) THEN lowerData(lowerer, statement, line)
             ELSE refused
        [] type = "Asciz" /\ operands # <<>> ->
             IF InitialisableSection(lowerer)
               THEN Emit(lowerer, [kind |-> "bytes", line |-> line,
                                   data |-> operands[1].text \o <<ZeroByte>>])
               ELSE refused
        [] type = "Align" /\ operands # <<>> ->
             Emit(lowerer, [kind |-> "align", line |-> line,
                            alignment |-> operands[1].immediate])
        [] type = "Space" /\ operands # <<>> -> lowerSpace(lowerer, operands, line)

lowerStatement(lowerer, program, line) ==
  LET statement == program[line] IN
  CASE statement.node = "label" ->
         Emit(lowerer, [kind |-> "label", line |-> line, name |-> statement.name])
    [] statement.node = "directive"   -> lowerDirective(lowerer, statement, line)
    [] statement.node = "instruction" -> lowerInstruction(lowerer, statement, line)

Lowering(program) ==
  LET l[line \in 0 .. Len(program)] ==
        IF line = 0 THEN LowererStart ELSE lowerStatement(l[line - 1], program, line)
  IN  l

lower(program) == Lowering(program)[Len(program)]

=============================================================================
