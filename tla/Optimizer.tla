------------------------------- MODULE Optimizer -------------------------------
(***************************************************************************)
(* The optimizer (src/src/optimizer/optimizer.cpp) at work on the .text of *)
(* one file.  Each pass is one step: it marks items for removal or         *)
(* rewrites them in place; the last step of a round drops what is marked   *)
(* and decides whether another round follows.                              *)
(*                                                                         *)
(* Items are numbered from 1, and a block is the range of items it spans,  *)
(* [begin, last].  The loops over the items are written as the set of      *)
(* items they mark, except for constant folding, where what is known of    *)
(* the registers depends on the items before.                              *)
(***************************************************************************)
EXTENDS FrontEnd

LOCAL Fold == INSTANCE SequencesExt
Sets == INSTANCE FiniteSetsExt

CONSTANTS
  EvaluateBinary(_, _, _),  \* isa::evaluateBinary(opcode, a, b)
  EvaluateUnary(_, _),      \* isa::evaluateUnary(opcode, a)
  kMaxIterations,           \* the most rounds of passes
  Unknown                   \* a register whose value is not known

ASSUME OptimizerAssumption == kMaxIterations \in Nat \ {0}

VARIABLES
  items,      \* the items of .text
  remove,     \* the items marked for removal
  changed,    \* some pass of this round did something
  round,      \* the rounds completed
  phase,      \* the pass to come: unreachable, pushpop, jump, fold, identity,
              \* deadstore, compact; or idle
  stats       \* OptStats

optimizer == <<items, remove, changed, round, phase, stats>>

NoStats == [constants_folded |-> 0, identities_eliminated |-> 0,
            dead_stores_removed |-> 0, unreachable_removed |-> 0,
            peepholes_applied |-> 0, before |-> 0, after |-> 0]

Kept(i)        == i \in DOMAIN items /\ i \notin remove
KeptOperation(i) == Kept(i) /\ IsInstruction(items[i])
Has(i, opcode) == KeptOperation(i) /\ items[i].machine.opcode = opcode

-----------------------------------------------------------------------------
(***************************************************************************)
(* What an instruction reads and writes.                                   *)
(***************************************************************************)
endsBlock(opcode) == opcode \in is_branch \cup is_terminator \cup {"SYSCALL"}

readsRegister(machine, register) ==
  \/ machine.opcode \in reads_dst /\ machine.dst = register
  \/ Format(machine.opcode) \in {"Reg2", "Mem"} /\ machine.src = register

writesRegister(machine, register) ==
  machine.opcode \in writes_dst /\ machine.dst = register

-----------------------------------------------------------------------------
(***************************************************************************)
(* ControlFlow: the blocks of a section and whether FLAGS is live at the   *)
(* end of each.  Marked items still count: the graph is built from all.    *)
(***************************************************************************)
Instructions(block) == {i \in block.begin .. block.last : IsInstruction(items[i])}
OpcodeAt(i) == items[i].machine.opcode

EndsAt(i) == IsInstruction(items[i]) /\ endsBlock(OpcodeAt(i))

Starts == {i \in DOMAIN items :
             /\ ~IsLabel(items[i])
             /\ i = 1 \/ IsLabel(items[i - 1]) \/ EndsAt(i - 1)}

\* The k-th of the numbers is the one that has k - 1 before it.
InOrder(numbers) ==
  [k \in 1 .. Cardinality(numbers) |->
     CHOOSE i \in numbers : Cardinality({j \in numbers : j < i}) = k - 1]

\* A section without code or data has one empty block.
splitBlocks ==
  LET From(begin) ==
        [begin |-> begin,
         last  |-> Sets!Min({i \in Starts : i > begin}
                         \cup {i \in DOMAIN items : i > begin /\ IsLabel(items[i])}
                         \cup {Len(items) + 1}) - 1]
      begins == InOrder(Starts)
  IN  IF begins = <<>> THEN <<[begin |-> 1, last |-> 0]>>
      ELSE [b \in DOMAIN begins |-> From(begins[b])]

\* label_block_: the block after the label, which need not exist.
LabelBlock(i) == Cardinality({s \in Starts : s < i}) + 1

Labels(name) == {i \in DOMAIN items : IsLabel(items[i]) /\ items[i].name = name}

terminator(block) ==
  IF Instructions(block) = {} THEN 0 ELSE Sets!Max(Instructions(block))

FallsThrough(block) ==
  terminator(block) = 0 \/ OpcodeAt(terminator(block)) \notin is_terminator

Branching(block) ==
  terminator(block) # 0 /\ OpcodeAt(terminator(block)) \in is_branch

Symbolic(block) ==
  LET last == terminator(block) IN
  Branching(block) /\ OpcodeAt(last) # "CALL" /\ isSymbolic(items[last])

Target(block) == Labels(items[terminator(block)].symbol.name)

successors(blocks, b) ==
  {s \in {b + 1} : FallsThrough(blocks[b]) /\ s <= Len(blocks)} \cup
  IF Symbolic(blocks[b]) THEN {LabelBlock(i) : i \in Target(blocks[b])} ELSE {}

unknown_successor(block) ==
  Branching(block) /\ (~Symbolic(block) \/ Target(block) = {})

FlagUsers(block) ==
  {i \in Instructions(block) : OpcodeAt(i) \in readsFlags \cup writes_flags}

blockReadsFlagsBeforeWriting(block) ==
  FlagUsers(block) # {} /\ OpcodeAt(Sets!Min(FlagUsers(block))) \in readsFlags

blockWritesFlags(block) ==
  \E i \in Instructions(block) : OpcodeAt(i) \in writes_flags

\* One visit of the loop.  live_in[Len(blocks) + 1] is past the end of the
\* vector: a label at the very end of the section leads there, and the code
\* reads whatever bit it finds.
VisitBlock(blocks, live, b) ==
  LET out == unknown_successor(blocks[b])
               \/ \E s \in successors(blocks, b) : live.into[s]
  IN  [into |-> [live.into EXCEPT ![b] =
                   \/ blockReadsFlagsBeforeWriting(blocks[b])
                   \/ out /\ ~blockWritesFlags(blocks[b])],
       out  |-> [live.out EXCEPT ![b] = out]]

Sweep(blocks, live) ==
  Fold!FoldLeft(LAMBDA l, k : VisitBlock(blocks, l, Len(blocks) + 1 - k), live,
                [k \in DOMAIN blocks |-> k])

SweepsOnce(blocks) == 1

\* The loop runs until a sweep changes nothing.  Every sweep but the last adds
\* a block to live_in, so one more than there are blocks is enough.
Sweeps(blocks) == Len(blocks) + 1

computeFlagLiveness(blocks, garbage) ==
  Fold!FoldLeft(LAMBDA l, k : Sweep(blocks, l),
     [into |-> [b \in 1 .. Len(blocks) + 1 |->
                  IF b <= Len(blocks) THEN blockReadsFlagsBeforeWriting(blocks[b])
                  ELSE garbage],
      out  |-> [b \in DOMAIN blocks |-> TRUE]],
     [k \in 1 .. Sweeps(blocks) |-> k]).out

flagsDeadAfter(block, i, liveOut) ==
  LET users == {j \in FlagUsers(block) : j > i} IN
  IF users = {} THEN ~liveOut ELSE OpcodeAt(Sets!Min(users)) \in writes_flags

-----------------------------------------------------------------------------
(***************************************************************************)
(* The passes, in the order in which they run.                             *)
(***************************************************************************)
Marks(marked, counter) ==
  /\ remove' = remove \cup marked
  /\ stats' = [stats EXCEPT ![counter] = @ + Cardinality(marked)]
  /\ changed' = (changed \/ marked # {})

Pass(this, next) == phase = this /\ phase' = next

\* Between a terminator and the next label.
Unreachable(i) ==
  /\ IsInstruction(items[i])
  /\ \E j \in 1 .. i - 1 :
       /\ IsInstruction(items[j]) /\ OpcodeAt(j) \in is_terminator
       /\ \A k \in j .. i : ~IsLabel(items[k])

RemoveUnreachable ==
  /\ Pass("unreachable", "pushpop")
  /\ Marks({i \in DOMAIN items : Unreachable(i)}, "unreachable_removed")
  /\ UNCHANGED <<items, round>>

PushPopPairs == {i \in DOMAIN items : Has(i, "PUSH") /\ Has(i + 1, "POP")}

Moved(i) ==
  Machine("MOV", items[i + 1].machine.dst, items[i].machine.dst, 0)

\* A pair on one register goes; on two it becomes a move.
PushPop ==
  LET same == {i \in PushPopPairs : items[i].machine.dst = items[i + 1].machine.dst} IN
  /\ Pass("pushpop", "jump")
  /\ items' = [i \in DOMAIN items |->
                 IF i \in PushPopPairs \ same
                   THEN [items[i] EXCEPT !.machine = Moved(i)] ELSE items[i]]
  /\ Marks({i + 1 : i \in PushPopPairs} \cup same, "peepholes_applied")
  /\ UNCHANGED round

\* Only labels and marked items lie between the jump and its label.
JumpsToNext(i) ==
  /\ Has(i, "JMP") /\ isSymbolic(items[i]) /\ items[i].symbol.addend = 0
  /\ \E j \in Labels(items[i].symbol.name) :
       j > i /\ \A k \in i + 1 .. j - 1 : IsLabel(items[k]) \/ k \in remove

JumpToNext ==
  /\ Pass("jump", "fold")
  /\ Marks({i \in DOMAIN items : JumpsToNext(i)}, "peepholes_applied")
  /\ UNCHANGED <<items, round>>

\* ConstantMap, and what becomes of an item under it.
NothingKnown == [register \in 0 .. RegisterCount - 1 |-> Unknown]

RewrittenKeepsSource(item, value) ==
  [item EXCEPT !.machine = Machine("MOVI", item.machine.dst, item.machine.src, value)]

Rewritten(item, value) ==
  [item EXCEPT !.machine = Machine("MOVI", item.machine.dst, 0, value)]

\* A word that fits the immediate of MOVI.
Representable(value) == value \in Word /\ fitsSigned(value, ImmediateModulus)

Knows(folding, register, value) == [folding EXCEPT !.known[register] = value]

Folded(folding, i, value) ==
  [Knows(folding, folding.items[i].machine.dst, value) EXCEPT
     !.items[i] = Rewritten(@, value), !.folded = @ + 1]

Clobbers(folding, machine) ==
  IF writesRegister(machine, machine.dst) THEN Knows(folding, machine.dst, Unknown)
  ELSE folding

FoldMove(folding, i) ==
  LET machine == folding.items[i].machine
      value   == folding.known[machine.src]
  IN  IF value # Unknown /\ Representable(value)
        THEN Folded(folding, i, value)
        ELSE Knows(folding, machine.dst, value)

\* A division by zero stays, and so does the FLAGS write of an instruction
\* whose flags may be read.
FoldAlu(folding, i, flagsDead) ==
  LET machine == folding.items[i].machine
      lhs     == folding.known[machine.dst]
      rhs     == IF machine.opcode \in BinaryAlu THEN folding.known[machine.src] ELSE 0
      alu     == IF machine.opcode \in BinaryAlu
                   THEN EvaluateBinary(machine.opcode, lhs, rhs)
                   ELSE EvaluateUnary(machine.opcode, lhs)
  IN  IF lhs = Unknown \/ rhs = Unknown THEN Clobbers(folding, machine)
      ELSE IF alu.error # "None" THEN Knows(folding, machine.dst, Unknown)
      ELSE IF ~alu.writes_value THEN folding
      ELSE IF /\ ~alu.writes_flags \/ flagsDead
              /\ Representable(alu.value)
        THEN Folded(folding, i, alu.value)
        ELSE Knows(folding, machine.dst, alu.value)

FoldItem(folding, i, flagsDead) ==
  LET machine == folding.items[i].machine IN
  CASE ~KeptOperation(i) -> folding
    [] KeptOperation(i) /\ isSymbolic(items[i]) -> Knows(folding, machine.dst, Unknown)
    [] KeptOperation(i) /\ ~isSymbolic(items[i]) ->
         CASE machine.opcode \in {"MOVI", "LEA"} ->
                Knows(folding, machine.dst, machine.imm)
           [] machine.opcode = "MOV" -> FoldMove(folding, i)
           [] machine.opcode \in BinaryAlu \cup UnaryAlu ->
                FoldAlu(folding, i, flagsDead)
           [] OTHER -> Clobbers(folding, machine)

\* The loop over the items of a block, at the start of which nothing is known.
FoldingBlock(folding, block, liveOut) ==
  LET f[i \in block.begin - 1 .. block.last] ==
        IF i = block.begin - 1 THEN [folding EXCEPT !.known = NothingKnown]
        ELSE FoldItem(f[i - 1], i, flagsDeadAfter(block, i, liveOut))
  IN  f

FoldBlock(folding, block, liveOut) == FoldingBlock(folding, block, liveOut)[block.last]

NothingFolded == [items |-> items, known |-> NothingKnown, folded |-> 0]

FoldingBlocks(blocks, liveOut) ==
  LET f[b \in 0 .. Len(blocks)] ==
        IF b = 0 THEN NothingFolded ELSE FoldBlock(f[b - 1], blocks[b], liveOut[b])
  IN  f

FoldBlocks(blocks, liveOut) == FoldingBlocks(blocks, liveOut)[Len(blocks)]

FoldConstants ==
  \E garbage \in BOOLEAN :
    LET blocks  == splitBlocks
        folding == FoldBlocks(blocks, computeFlagLiveness(blocks, garbage))
    IN  /\ Pass("fold", "identity")
        /\ items' = folding.items
        /\ stats' = [stats EXCEPT !.constants_folded = @ + folding.folded]
        /\ changed' = (changed \/ folding.folded > 0)
        /\ UNCHANGED <<remove, round>>

IdentityMarkedToo(i) ==
  /\ IsInstruction(items[i]) /\ ~isSymbolic(items[i])
  /\ \/ OpcodeAt(i) = "NOP"
     \/ OpcodeAt(i) = "MOV" /\ items[i].machine.dst = items[i].machine.src

Identity(i) ==
  /\ KeptOperation(i) /\ ~isSymbolic(items[i])
  /\ \/ OpcodeAt(i) = "NOP"
     \/ OpcodeAt(i) = "MOV" /\ items[i].machine.dst = items[i].machine.src

RemoveIdentities ==
  /\ Pass("identity", "deadstore")
  /\ Marks({i \in DOMAIN items : Identity(i)}, "identities_eliminated")
  /\ UNCHANGED <<items, round>>

DeadStoreAnyUse(block, i) ==
  LET register == items[i].machine.dst IN
  /\ KeptOperation(i) /\ OpcodeAt(i) \in {"MOVI", "MOV", "LEA"}
  /\ \E j \in Instructions(block) :
       j > i /\ j \notin remove /\ writesRegister(items[j].machine, register)

\* The register of a move is written again in its block before it is read.
DeadStore(block, i) ==
  LET register == items[i].machine.dst
      users == {j \in Instructions(block) :
                  /\ j > i /\ j \notin remove
                  /\ \/ readsRegister(items[j].machine, register)
                     \/ writesRegister(items[j].machine, register)}
  IN  /\ KeptOperation(i) /\ OpcodeAt(i) \in {"MOVI", "MOV", "LEA"}
      /\ users # {}
      /\ ~readsRegister(items[Sets!Min(users)].machine, register)

RemoveDeadStores ==
  LET blocks == splitBlocks IN
  /\ Pass("deadstore", "compact")
  /\ Marks(UNION {{i \in Instructions(blocks[b]) : DeadStore(blocks[b], i)} :
                    b \in DOMAIN blocks}, "dead_stores_removed")
  /\ UNCHANGED <<items, round>>

KeptItems ==
  LET kept == InOrder(DOMAIN items \ remove) IN
  [k \in DOMAIN kept |-> items[kept[k]]]

CompactOnce ==
  /\ phase = "compact"
  /\ items' = KeptItems
  /\ remove' = {} /\ changed' = FALSE /\ round' = round + 1
  /\ phase' = "idle"
  /\ stats' = [stats EXCEPT !.after = instructionCount(items')]

\* The end of runPasses(), the loop of optimizeSection(), and the count that
\* run() makes at the end.
Compact ==
  /\ phase = "compact"
  /\ items' = KeptItems
  /\ remove' = {} /\ changed' = FALSE /\ round' = round + 1
  /\ IF changed /\ round + 1 < kMaxIterations
       THEN phase' = "unreachable" /\ UNCHANGED stats
       ELSE /\ phase' = "idle"
            /\ stats' = [stats EXCEPT !.after = instructionCount(items')]

OptimizerStep ==
  \/ RemoveUnreachable \/ PushPop \/ JumpToNext \/ FoldConstants
  \/ RemoveIdentities \/ RemoveDeadStores \/ Compact

=============================================================================
