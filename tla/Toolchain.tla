------------------------------ MODULE Toolchain ------------------------------
(***************************************************************************)
(* assembleSource() (src/src/assembler/pipeline.cpp): one file through the *)
(* semantic analysis, the lowering, the optimizer and the assembler.  The  *)
(* first stage that finds an error is the last.  The parse tree is the     *)
(* input; the optimizer takes one step per pass, every other stage one.    *)
(***************************************************************************)
EXTENDS Assembler

LOCAL Fold == INSTANCE SequencesExt

CONSTANTS
  BranchTaken(_, _),  \* isa::branchTaken(opcode, flags)
  NoFlags,            \* FLAGS when a program starts
  Builds,             \* [source, opt_level, emit_debug_info]: what is assembled
  File,               \* the name of the source file
  StackDepth,         \* bound: words on the stack of an observed execution
  MemoryWords,        \* bound: words of data of an observed execution
  Fuel,               \* bound: instructions of an observed execution
  NoObject            \* no object was made

ASSUME ToolchainAssumption ==
  Builds \subseteq [source : Seq(Statement), opt_level : {"O0", "O1"},
                    emit_debug_info : BOOLEAN]

VARIABLES
  build,     \* the source and the options
  stage,     \* parsed, analyzed, lowered, optimizing, laidout, bound, done
             \* or failed
  data,      \* the sections of the IR other than .text
  names,     \* the IR's globals, weaks and externs
  errors,    \* the diagnostics
  object,    \* the object being built
  original   \* history: .text as it was lowered

pipeline == <<build, stage, data, names, errors, object, original>>
vars     == <<optimizer, pipeline>>

Sections == [data EXCEPT !["Text"] = items]

NoNames == [globals |-> <<>>, weaks |-> <<>>, externs |-> <<>>]

Init ==
  /\ build \in Builds
  /\ stage = "parsed"
  /\ data = [kind \in SectionKind |-> <<>>] /\ names = NoNames
  /\ errors = {} /\ object = NoObject
  /\ items = <<>> /\ original = <<>>
  /\ remove = {} /\ changed = FALSE /\ round = 0 /\ phase = "idle"
  /\ stats = NoStats

Advance(from, to, found) ==
  /\ stage = from
  /\ errors' = errors \cup found
  /\ stage' = IF found = {} THEN to ELSE "failed"

Analyze ==
  /\ Advance("parsed", "analyzed", analyze(build.source))
  /\ UNCHANGED <<optimizer, build, data, names, object, original>>

Lower ==
  LET lowerer == lower(build.source) IN
  /\ Advance("analyzed", "lowered", lowerer.errors)
  /\ items' = lowerer.sections["Text"] /\ original' = items'
  /\ data' = [lowerer.sections EXCEPT !["Text"] = <<>>]
  /\ names' = [globals |-> lowerer.globals, weaks |-> lowerer.weaks,
               externs |-> lowerer.externs]
  /\ UNCHANGED <<remove, changed, round, phase, stats, build, object>>

\* Optimizer::run()
StartOptimizer ==
  LET count == instructionCount(items) IN
  /\ Advance("lowered", "optimizing", {})
  /\ phase' = IF build.opt_level = "O0" THEN "idle" ELSE "unreachable"
  /\ stats' = [stats EXCEPT !.before = count, !.after = count]
  /\ UNCHANGED <<items, remove, changed, round, build, data, names, object, original>>

Optimize ==
  /\ stage = "optimizing"
  /\ OptimizerStep
  /\ UNCHANGED pipeline

Layout ==
  /\ phase = "idle"
  /\ Advance("optimizing", "laidout", {})
  /\ object' = layoutAndDefineSymbols(File, Sections)
  /\ UNCHANGED <<optimizer, build, data, names, original>>

Bind ==
  /\ Advance("laidout", "bound", {})
  /\ object' = applyBindings(object, names.globals, names.weaks, names.externs)
  /\ UNCHANGED <<optimizer, build, data, names, original>>

Stripped(obj) == [obj EXCEPT !.debug_info = <<>>, !.source_files = <<>>]

\* The assembler looks at its errors at the end.
EmitObject ==
  LET emitted == emit(object, Sections) IN
  /\ Advance("bound", "done", emitted.errors)
  /\ object' = IF build.emit_debug_info THEN emitted ELSE Stripped(emitted)
  /\ UNCHANGED <<optimizer, build, data, names, original>>

Next == \/ Analyze \/ Lower \/ StartOptimizer \/ Optimize \/ Layout \/ Bind
        \/ EmitObject

Spec == Init /\ [][Next]_vars

-----------------------------------------------------------------------------
(***************************************************************************)
(* An execution of a text section, as the VM would run it once it is       *)
(* linked.  A branch to a name this file does not define leaves it, and    *)
(* whoever is there sees the registers and FLAGS; a program that leaves    *)
(* at the end of the section has nothing to go on with.                    *)
(***************************************************************************)
Boot == [at |-> 1, registers |-> [r \in 0 .. RegisterCount - 1 |-> 0],
         flags |-> NoFlags, stack |-> <<>>, memory |-> [a \in 0 .. MemoryWords - 1 |-> 0],
         output |-> <<>>, status |-> "running"]

\* The first item from i on that takes up space, Len(text) + 1 if none does.
Following(text, i) ==
  CHOOSE j \in i .. Len(text) + 1 :
    /\ j = Len(text) + 1 \/ ~IsLabel(text[j])
    /\ \A k \in i .. j - 1 : IsLabel(text[k])

OffsetOf(text, i) ==
  Fold!FoldLeft(LAMBDA l, item : IF IsLabel(item) THEN l ELSE layoutItem(l, item, 1),
                [offset |-> 0, alignment |-> WordSize], SubSeq(text, 1, i - 1)).offset

\* The item at an offset of the section, Len(text) + 1 if none is.
ItemAt(text, offset) ==
  LET found == {i \in DOMAIN text : ~IsLabel(text[i]) /\ OffsetOf(text, i) = offset} IN
  IF found = {} THEN Len(text) + 1 ELSE CHOOSE i \in found : TRUE

Defines(text, name) == \E i \in DOMAIN text : IsLabel(text[i]) /\ text[i].name = name

Destination(text, i) ==
  LET symbol == text[i].symbol
      label  == CHOOSE j \in DOMAIN text : IsLabel(text[j]) /\ text[j].name = symbol.name
  IN  IF symbol = NoSymbol
        THEN ItemAt(text, Add(OffsetOf(text, i) + WordSize, text[i].machine.imm))
      ELSE IF symbol.addend = 0 THEN label
      ELSE ItemAt(text, Add(OffsetOf(text, label), symbol.addend))

Stops(m, status) == [m EXCEPT !.status = status]

Address(m, base, machine) == Add(m.registers[base], machine.imm)

Transfer(m, text, i, pushed) ==
  IF isSymbolic(text[i]) /\ ~Defines(text, text[i].symbol.name) THEN Stops(m, "left")
  ELSE [m EXCEPT !.at = Destination(text, i), !.stack = pushed \o @]

ExecuteAlu(m, machine) ==
  LET a   == m.registers[machine.dst]
      alu == IF machine.opcode \in BinaryAlu
               THEN EvaluateBinary(machine.opcode, a, m.registers[machine.src])
               ELSE EvaluateUnary(machine.opcode, a)
  IN  IF alu.error # "None" THEN Stops(m, alu.error)
      ELSE [m EXCEPT !.registers[machine.dst] = IF alu.writes_value THEN alu.value ELSE @,
                     !.flags = IF alu.writes_flags THEN alu.flags ELSE @]

\* SYSCALL 0 exits, SYSCALL 1 writes R1 and returns 1 in R0.
ExecuteSyscall(m, machine) ==
  IF machine.imm = 0 THEN Stops(m, "exit")
  ELSE [m EXCEPT !.output = Append(@, m.registers[1]), !.registers[0] = 1]

Execute(m, text, i) ==
  LET machine == text[i].machine
      op      == machine.opcode
      n       == [m EXCEPT !.at = i + 1]
      value   == IF isSymbolic(text[i]) THEN text[i].symbol ELSE machine.imm
      address == Address(m, IF op = "STORE" THEN machine.dst ELSE machine.src, machine)
  IN  CASE op = "NOP" -> n
        [] op = "HALT" -> Stops(n, "halted")
        [] op = "SYSCALL" -> ExecuteSyscall(n, machine)
        [] op = "MOV" -> [n EXCEPT !.registers[machine.dst] = m.registers[machine.src]]
        [] op \in {"MOVI", "LEA"} -> [n EXCEPT !.registers[machine.dst] = value]
        [] op \in {"LOAD", "STORE"} ->
             IF address \notin DOMAIN m.memory THEN Stops(n, "InvalidMemoryAccess")
             ELSE IF op = "LOAD" THEN [n EXCEPT !.registers[machine.dst] = m.memory[address]]
             ELSE [n EXCEPT !.memory[address] = m.registers[machine.src]]
        [] op = "PUSH" ->
             IF Len(m.stack) = StackDepth THEN Stops(n, "StackOverflow")
             ELSE [n EXCEPT !.stack = <<m.registers[machine.dst]>> \o @]
        [] op = "POP" ->
             IF m.stack = <<>> THEN Stops(n, "StackUnderflow")
             ELSE [n EXCEPT !.registers[machine.dst] = Head(m.stack), !.stack = Tail(@)]
        [] op \in BinaryAlu \cup UnaryAlu -> ExecuteAlu(n, machine)
        [] op = "JMP" -> Transfer(n, text, i, <<>>)
        [] op \in readsFlags ->
             IF BranchTaken(op, m.flags) THEN Transfer(n, text, i, <<>>) ELSE n
        [] op = "CALL" ->
             IF Len(m.stack) = StackDepth THEN Stops(n, "StackOverflow")
             ELSE Transfer(n, text, i, <<i + 1>>)
        [] op = "RET" ->
             IF m.stack = <<>> THEN Stops(n, "StackUnderflow")
             ELSE [n EXCEPT !.at = Head(m.stack), !.stack = Tail(@)]

StepOf(m, text) ==
  LET i == Following(text, m.at) IN
  IF m.status # "running" THEN m
  ELSE IF i > Len(text) THEN Stops(m, "end")
  ELSE IF ~IsInstruction(text[i]) THEN Stops(m, "IllegalInstruction")
  ELSE Execute(m, text, i)

Run(text) ==
  Fold!FoldLeft(LAMBDA m, k : StepOf(m, text), Boot, [k \in 1 .. Fuel |-> k])

\* What can be seen of an execution when it stops: its output and how it
\* stopped; the registers, the data and the depth of the stack unless it trapped;
\* and FLAGS where other code goes on.
Observed(m) ==
  LET traps == m.status \notin {"halted", "exit", "left", "end"} IN
  [status |-> m.status, output |-> m.output, memory |-> m.memory,
   registers |-> IF traps THEN <<>> ELSE m.registers,
   depth |-> IF traps THEN 0 ELSE Len(m.stack),
   flags |-> IF m.status = "left" THEN m.flags ELSE NoFlags]

-----------------------------------------------------------------------------
Optimized == stage = "optimizing" /\ phase = "idle"

\* docs/optimizer.md, section 6: optimizing "may never change behaviour".  What
\* can be seen of the program is the same before and after, for every program
\* that stops, except that a stack overflow may no longer happen.
SameBehaviour ==
  Optimized =>
    LET before == Run(original) IN
    before.status \notin {"running", "StackOverflow"} =>
      Observed(Run(items)) = Observed(before)

\* Whether the FLAGS that item i finds may be read, asked of each item instead
\* of blocks: the least solution, reached in as many rounds as there are items.
FlagsNeeded ==
  LET n == Len(items)
      Targets(i) == IF isSymbolic(items[i]) THEN Labels(items[i].symbol.name) ELSE {}
      Needs(need, i) ==
        IF i > n THEN FALSE
        ELSE IF ~IsInstruction(items[i]) THEN need[i + 1]
        ELSE IF OpcodeAt(i) \in readsFlags \cup {"CALL", "RET"} THEN TRUE
        ELSE IF OpcodeAt(i) \in writes_flags \cup {"HALT"} THEN FALSE
        ELSE IF OpcodeAt(i) = "JMP"
          THEN Targets(i) = {} \/ \E j \in Targets(i) : need[j]
        ELSE need[i + 1]
  IN  Fold!FoldLeft(LAMBDA need, k : [i \in 1 .. n + 1 |-> Needs(need, i)],
                    [i \in 1 .. n + 1 |-> FALSE], [k \in 1 .. n + 1 |-> k])

\* ControlFlow's answer is right and as good as it can be: FLAGS is called dead
\* after an instruction exactly if no way onwards reads it before it is written.
LivenessIsExact ==
  phase = "fold" =>
    LET blocks == splitBlocks
        live   == computeFlagLiveness(blocks, FALSE)
        needed == FlagsNeeded
    IN  \A b \in DOMAIN blocks : \A i \in Instructions(blocks[b]) :
          OpcodeAt(i) \in writes_flags =>
            (flagsDeadAfter(blocks[b], i, live[b]) <=> ~needed[i + 1])

\* OptStats: every instruction that goes is counted by exactly one of the
\* counters, in whatever round and by whichever pass.
StatsBalance ==
  stage = "optimizing" =>
    stats.before = instructionCount(items) - Cardinality(remove)
                     + stats.identities_eliminated + stats.dead_stores_removed
                     + stats.unreachable_removed + stats.peepholes_applied

\* No pass finds anything to do.
NothingIsLeft ==
  LET blocks == splitBlocks IN
  /\ \A i \in DOMAIN items : ~Unreachable(i) /\ ~JumpsToNext(i) /\ ~Identity(i)
  /\ PushPopPairs = {}
  /\ \A b \in DOMAIN blocks :
       \A i \in Instructions(blocks[b]) : ~DeadStore(blocks[b], i)
  /\ FoldBlocks(blocks, computeFlagLiveness(blocks, FALSE)).folded = 0

\* Rounds that end before the bound end because there is nothing left to do, and
\* optimizing the output again would change nothing: whether one pass left work to
\* another is for `changed` to remember.  The claim stops at kMaxIterations.  At the
\* bound work may be left, although docs/optimizer.md, section 3, calls it "a safety
\* net rather than a real limit".
StopsEarlyAtFixedPoint ==
  Optimized /\ build.opt_level = "O1" /\ round < kMaxIterations => NothingIsLeft

\* What sema accepts, the later stages can handle: lowering finds the operands it
\* takes, no label is defined twice, both passes of the assembler agree and every
\* instruction, rewritten or not, can be encoded.  The one thing that gets past
\* sema is the displacement of a memory operand.
SemaSuffices ==
  \A e \in errors :
    /\ e.code \notin {"out_of_range", InternalError, "NonCanonicalOperand",
                      "InvalidRegister"}
    /\ e.code = "DuplicateSymbol" => object = NoObject
    /\ e.code = "ImmediateOutOfRange" =>
         build.source[e.line].mnemonic \in {"LOAD", "STORE"}

\* The bytes that pass 2 has made when it comes to item i of a section.
BytesBefore(contents, i) ==
  Written(Emitting(EmptyObject(File, <<"Text">>), 1, contents)[i - 1], 1)

\* A label that pass 1 placed denotes the byte that pass 2 puts there, and every
\* label of the source is a symbol of the object, whatever was optimized away.
LabelsDenoteTheirBytes ==
  stage = "done" =>
    /\ \A line \in DOMAIN build.source :
         build.source[line].node = "label" =>
           \E i \in DOMAIN object.symbols :
             object.symbols[i].name = build.source[line].name /\ object.symbols[i].defined
    /\ \A i \in DOMAIN object.symbols :
         LET symbol   == object.symbols[i]
             contents == Sections[object.sections[symbol.section].type]
         IN  symbol.defined =>
               \E k \in DOMAIN contents :
                 /\ IsLabel(contents[k]) /\ contents[k].name = symbol.name
                 /\ symbol.value = BytesBefore(contents, k)

\* The object can be read back, each relocation is for the item whose bytes it
\* is about and names the symbol that item names, and a symbol this file does not
\* define is one another may.
RelocationsFollowReferences ==
  stage = "done" =>
    /\ Readable(object)
    /\ \A n \in DOMAIN object.relocations :
         LET r        == object.relocations[n]
             contents == Sections[object.sections[r.section].type]
         IN  \E k \in DOMAIN contents :
               /\ contents[k].kind \in {"instruction", "value"}
               /\ isSymbolic(contents[k])
               /\ contents[k].symbol = [name |-> object.symbols[r.symbol].name,
                                        addend |-> r.addend]
               /\ r.offset = BytesBefore(contents, k)
    /\ \A i \in DOMAIN object.symbols :
         object.symbols[i].binding = "Local" => object.symbols[i].defined

\* The word at a debug entry decodes to the instruction that was made of its
\* line, and at -O0 that is the instruction written there.
DebugEntriesDecode ==
  stage = "done" =>
    \A n \in DOMAIN object.debug_info :
      LET entry == object.debug_info[n]
          bytes == object.sections[entry.section].data
          word  == LoadWord(SubSeq(bytes, entry.offset + 1, entry.offset + WordSize))
      IN  /\ \E k \in DOMAIN items :
               /\ IsInstruction(items[k]) /\ items[k].line = entry.line
               /\ decode(word) = IF isSymbolic(items[k])
                                   THEN [items[k].machine EXCEPT !.imm = 0]
                                   ELSE items[k].machine
          /\ build.opt_level = "O0" =>
               decode(word).opcode = build.source[entry.line].mnemonic

=============================================================================
