---------------------------- MODULE VirtualMachine ----------------------------
(***************************************************************************)
(* The virtual CPU (src/src/vm/vm.cpp) with the address space and the      *)
(* system calls (src/src/vm/syscall.cpp) it owns.                          *)
(*                                                                         *)
(* A client loads images, single-steps and runs under a budget, in any     *)
(* order.  One step of the model is one API call, except that run() is the *)
(* loop it is in the code: RunCall enters it, each RunIterate is one pass  *)
(* and one of the Run... actions leaves it.                                *)
(*                                                                         *)
(* The instruction encoding and the ALU are parameters here: the machine   *)
(* calls isa::decode, isa::evaluateBinary, isa::evaluateUnary and          *)
(* isa::branchTaken and what is proved about it holds whatever they do.    *)
(* Module Semantics models the last three.                                 *)
(***************************************************************************)
EXTENDS Executable

CONSTANTS
  StackTop, StackSize,     \* kStackTop, kStackSize
  HeapBase, HeapSize,      \* kHeapBase, kHeapSize
  MaxTransfer,             \* kMaxTransfer: longest read or write
  Register,                \* register numbers, 1, 2, 3 and 14 among them
  Flags,                   \* values of the FLAGS register
  NoFlags,                 \* u64 flags = 0
  Decode(_),               \* isa::decode: a word to an instruction
  Undecodable,             \* ... or to this
  EvaluateBinary(_, _, _), \* isa::evaluateBinary(opcode, a, b)
  EvaluateUnary(_, _),     \* isa::evaluateUnary(opcode, a)
  BranchTaken(_, _),       \* isa::branchTaken(opcode, flags)
  Images,                  \* the executables a client may load
  Inputs,                  \* what may be waiting on the host's stdin
  Budgets,                 \* the budgets a client passes to run()
  MaxInstructions,         \* bound: instructions executed after one load
  MaxLoads,                \* bound: calls of load()
  NoImage, NoTrace         \* nothing loaded, nothing executed yet

\* The registers of the system-call ABI: kArg1..kArg3 and kReturnValue.
Arg1 == 1
Arg2 == 2
Arg3 == 3
ReturnValue == 14

BinaryAlu == {"ADD", "SUB", "MUL", "DIV", "MOD", "AND", "OR", "XOR", "SHL",
              "SHR", "SAR", "CMP", "TEST"}
UnaryAlu == {"INC", "DEC", "NEG", "NOT"}
Branches == {"JMP", "JE", "JNE", "JG", "JL", "JGE", "JLE"}
Opcode == BinaryAlu \cup UnaryAlu \cup Branches \cup
          {"NOP", "HALT", "SYSCALL", "MOV", "MOVI", "LEA", "LOAD", "STORE",
           "PUSH", "POP", "CALL", "RET"}

\* imm is the sign-extended immediate as a u64.
Instruction == [opcode: Opcode, dst: Register, src: Register, imm: Word]

AluResult ==
  [error: {"None", "DivisionByZero", "NotArithmetic"}, value: Word,
   flags: Flags, writes_value: BOOLEAN, writes_flags: BOOLEAN]

ASSUME MachineAssumption ==
  /\ StackTop \in Word /\ StackSize \in Word /\ HeapBase \in Word
  /\ HeapSize \in Word /\ MaxTransfer \in Word
  \* The stack holds a whole number of words, at least one, all of them in the
  \* address space, and its top is word-aligned; the heap does not wrap.
  /\ StackSize > 0 /\ StackSize % WordSize = 0
  /\ StackTop % WordSize = 0
  /\ StackSize <= StackTop
  /\ HeapSize > 0 /\ HeapBase <= MaxWord - HeapSize
  /\ {Arg1, Arg2, Arg3, ReturnValue} \subseteq Register
  /\ NoFlags \in Flags
  /\ Undecodable \notin Instruction
  /\ Images \subseteq Executable
  /\ NoImage \notin Images
  /\ Inputs \subseteq Seq(Byte)
  /\ Budgets \subseteq Nat
  /\ MaxInstructions \in Nat /\ MaxLoads \in Nat

\* What the machine may rely on: decode() yields an instruction or fails, and
\* the ALU yields a word and flags, except for a division by zero.
ASSUME IsaAssumption ==
  /\ \A w \in Word : Decode(w) \in Instruction \cup {Undecodable}
  /\ \A op \in BinaryAlu, a, b \in Word :
       /\ EvaluateBinary(op, a, b) \in AluResult
       /\ EvaluateBinary(op, a, b).error =
            IF op \in {"DIV", "MOD"} /\ b = 0 THEN "DivisionByZero" ELSE "None"
  /\ \A op \in UnaryAlu, a \in Word :
       /\ EvaluateUnary(op, a) \in AluResult
       /\ EvaluateUnary(op, a).error = "None"
  /\ \A op \in Branches, f \in Flags : BranchTaken(op, f) \in BOOLEAN

VARIABLES
  regions, heapNext,  \* memory_: its regions and its allocation pointer
  cpu,                \* cpu_: registers, pc, sp, flags, halted, ...
  loaded,             \* loaded_
  host,               \* the syscall provider's input, output, error_output
  call,               \* the run() in progress, if any
  fault,              \* what the last step() returned
  result,             \* what the last run() returned
  trace,              \* what the trace sink was last called with
  image,              \* history: the image whose segments are mapped
  loads               \* history: calls of load() so far

memory == <<regions, heapNext>>
vars == <<regions, heapNext, cpu, loaded, host, call, fault, result, trace,
          image, loads>>

-----------------------------------------------------------------------------
VMErrors == {"None", "InvalidMemoryAccess", "PermissionViolation",
             "IllegalInstruction", "DivisionByZero", "StackOverflow",
             "StackUnderflow", "SyscallError", "BudgetExhausted", "NotLoaded"}

StackLimit == StackTop - StackSize
NoFault    == [error |-> "None", pc |-> 0]
NoCall     == [running |-> FALSE, budget |-> 0, executed |-> 0, start |-> 0]
NoResult   == [error |-> "None", exit_code |-> 0, instructions |-> 0, pc |-> 0]

PowerOn ==
  [registers |-> [r \in Register |-> 0], pc |-> 0, sp |-> 0, flags |-> NoFlags,
   halted |-> FALSE, instruction_count |-> 0, exit_code |-> 0]

Init ==
  /\ regions = <<>> /\ heapNext = 0
  /\ cpu = PowerOn
  /\ loaded = FALSE
  /\ host \in [input: Inputs, output: {<<>>}, error_output: {<<>>}]
  /\ call = NoCall /\ fault = NoFault /\ result = NoResult
  /\ trace = NoTrace /\ image = NoImage /\ loads = 0

-----------------------------------------------------------------------------
(***************************************************************************)
(* load(): validate, clear the address space, map the segments, the stack  *)
(* and the heap in that order until one cannot be mapped, and reset the    *)
(* CPU if all could.  A load that fails after validation leaves the        *)
(* regions mapped so far, and the CPU and loaded_ as they were.            *)
(***************************************************************************)
permissionsOf(flags) ==
  flags \cup (IF "Exec" \in flags THEN {"Read"} ELSE {})

SegmentMapping(segment) ==
  Mapping(segment.name, segment.virtual_address, segment.virtual_size,
          permissionsOf(segment.flags), segment.data)

StackMapping == Mapping("stack", StackLimit, StackSize, {"Read", "Write"}, <<>>)
HeapMapping  == Mapping("heap", HeapBase, HeapSize, {"Read", "Write"}, <<>>)

Layout(executable) ==
  [k \in 1 .. Len(executable.segments) |-> SegmentMapping(executable.segments[k])]
    \o <<StackMapping, HeapMapping>>

FirstMappings(executable, n) == [k \in 1 .. n |-> Layout(executable)[k]]

MapsNext(executable, n) ==
  LET next == Layout(executable)[n + 1] IN
  CanMap(FirstMappings(executable, n), next.base, next.size)

\* heap_next_ after the regions are added: the base of the last one that is
\* called "heap", whoever asked for it.
HeapStart(mapped) ==
  LET heaps == {i \in DOMAIN mapped : mapped[i].name = "heap"} IN
  IF heaps = {} THEN 0
  ELSE mapped[CHOOSE i \in heaps : \A j \in heaps : j <= i].base

ResetKeepsSp(executable) ==
  [PowerOn EXCEPT !.pc = executable.entry_point, !.sp = cpu.sp]

\* The CPU of a program that is about to start.
Reset(executable) ==
  [PowerOn EXCEPT !.pc = executable.entry_point, !.sp = StackTop]

LoadRejected(executable) ==
  /\ ~validate(executable)
  /\ UNCHANGED <<memory, cpu, loaded, host, call, fault, result, trace, image>>

LoadUnmappable(executable) ==
  /\ validate(executable)
  /\ \E n \in 0 .. Len(executable.segments) + 1 :
       /\ \A m \in 0 .. n - 1 : MapsNext(executable, m)
       /\ ~MapsNext(executable, n)
       /\ regions' = FirstMappings(executable, n)
  /\ heapNext' = HeapStart(regions')
  /\ image' = executable
  /\ trace' = NoTrace /\ fault' = NoFault
  /\ UNCHANGED <<cpu, loaded, host, call, result>>

LoadCompletes(executable) ==
  /\ validate(executable)
  /\ \A m \in 0 .. Len(executable.segments) + 1 : MapsNext(executable, m)
  /\ regions' = Layout(executable)
  /\ heapNext' = HeapStart(regions')
  /\ cpu' = Reset(executable)
  /\ loaded' = TRUE
  /\ image' = executable
  /\ trace' = NoTrace /\ fault' = NoFault
  /\ UNCHANGED <<host, call, result>>

LoadCall ==
  /\ ~call.running
  /\ loads < MaxLoads
  /\ loads' = loads + 1
  /\ \E executable \in Images : \/ LoadRejected(executable)
                                \/ LoadUnmappable(executable)
                                \/ LoadCompletes(executable)

-----------------------------------------------------------------------------
(***************************************************************************)
(* How an instruction ends.  The PC has moved on and the instruction has   *)
(* been counted before it executes, so a trap keeps both.                  *)
(***************************************************************************)
Advanced == [cpu EXCEPT !.pc = Add(cpu.pc, WordSize),
                        !.instruction_count = cpu.instruction_count + 1]

Returns(error) == fault' = [error |-> error, pc |-> cpu.pc]

TrapHalts(error) ==
  /\ Returns(error)
  /\ cpu' = [Advanced EXCEPT !.halted = TRUE]
  /\ UNCHANGED <<memory, host>>

Trap(error) ==
  /\ Returns(error)
  /\ cpu' = Advanced
  /\ UNCHANGED <<memory, host>>

Done(after) ==
  /\ fault' = NoFault
  /\ cpu' = after

faultFromMemoryAnyDepth(access, address) ==
  CASE access \in {"ReadDenied", "WriteDenied", "ExecuteDenied"} ->
         "PermissionViolation"
    [] access \in {"Unmapped", "CrossesRegionEnd"} ->
         IF address < StackLimit THEN "StackOverflow" ELSE "InvalidMemoryAccess"
    [] OTHER -> "None"

\* faultFromMemory(): an access below the stack, within its size of its limit,
\* is called a stack overflow.
faultFromMemory(access, address) ==
  CASE access \in {"ReadDenied", "WriteDenied", "ExecuteDenied"} ->
         "PermissionViolation"
    [] access \in {"Unmapped", "CrossesRegionEnd"} ->
         IF address < StackLimit /\ StackLimit - address <= StackSize
           THEN "StackOverflow" ELSE "InvalidMemoryAccess"
    [] OTHER -> "None"

AccessError(address, needed) ==
  faultFromMemory(checkAccess(regions, address, WordSize, needed), address)

PushError ==
  IF cpu.sp < Add(StackLimit, WordSize) THEN "StackOverflow"
  ELSE AccessError(Sub(cpu.sp, WordSize), "Write")

PopErrorPastTop ==
  IF cpu.sp > StackTop THEN "StackUnderflow"
  ELSE AccessError(cpu.sp, "Read")

PopError ==
  IF cpu.sp >= StackTop THEN "StackUnderflow"
  ELSE AccessError(cpu.sp, "Read")

\* push(value) and what the caller does to the CPU afterwards.
Pushes(value, after) ==
  \/ /\ PushError # "None"
     /\ Trap(PushError)
  \/ /\ PushError = "None"
     /\ regions' = Stored(regions, Sub(cpu.sp, WordSize), StoreWord(value))
     /\ Done([after EXCEPT !.sp = Sub(cpu.sp, WordSize)])
     /\ UNCHANGED <<heapNext, host>>

\* pop() and the CPU its caller makes of the value popped.
Popped == WordAt(regions, cpu.sp)

Pops(after) ==
  \/ /\ PopError # "None"
     /\ Trap(PopError)
  \/ /\ PopError = "None"
     /\ Done([after EXCEPT !.sp = Add(cpu.sp, WordSize)])
     /\ UNCHANGED <<memory, host>>

-----------------------------------------------------------------------------
(***************************************************************************)
(* execute(), one action per opcode or family of opcodes.                  *)
(***************************************************************************)
Reg(r) == cpu.registers[r]
SetReg(r, value) == [Advanced EXCEPT !.registers[r] = value]
branchDoesNotWrap(displacement) == cpu.pc + WordSize + displacement
branchTarget(displacement) == Add(Add(cpu.pc, WordSize), displacement)

Nop(i) ==
  /\ i.opcode = "NOP"
  /\ Done(Advanced)
  /\ UNCHANGED <<memory, host>>

Halt(i) ==
  /\ i.opcode = "HALT"
  /\ Done([Advanced EXCEPT !.halted = TRUE])
  /\ UNCHANGED <<memory, host>>

Move(i) ==
  /\ \/ i.opcode = "MOV" /\ Done(SetReg(i.dst, Reg(i.src)))
     \/ i.opcode \in {"MOVI", "LEA"} /\ Done(SetReg(i.dst, i.imm))
  /\ UNCHANGED <<memory, host>>

Load(i) ==
  LET address == Add(Reg(i.src), i.imm)
      error   == AccessError(address, "Read")
  IN  /\ i.opcode = "LOAD"
      /\ \/ error # "None" /\ Trap(error)
         \/ /\ error = "None"
            /\ Done(SetReg(i.dst, WordAt(regions, address)))
            /\ UNCHANGED <<memory, host>>

Store(i) ==
  LET address == Add(Reg(i.dst), i.imm)
      error   == AccessError(address, "Write")
  IN  /\ i.opcode = "STORE"
      /\ \/ error # "None" /\ Trap(error)
         \/ /\ error = "None"
            /\ regions' = Stored(regions, address, StoreWord(Reg(i.src)))
            /\ Done(Advanced)
            /\ UNCHANGED <<heapNext, host>>

Push(i) == i.opcode = "PUSH" /\ Pushes(Reg(i.dst), Advanced)

Pop(i) == i.opcode = "POP" /\ Pops(SetReg(i.dst, Popped))

Call(i) ==
  /\ i.opcode = "CALL"
  /\ Pushes(Advanced.pc, [Advanced EXCEPT !.pc = branchTarget(i.imm)])

Ret(i) == i.opcode = "RET" /\ Pops([Advanced EXCEPT !.pc = Popped])

Branch(i) ==
  /\ i.opcode \in Branches
  /\ Done(IF BranchTaken(i.opcode, cpu.flags)
            THEN [Advanced EXCEPT !.pc = branchTarget(i.imm)] ELSE Advanced)
  /\ UNCHANGED <<memory, host>>

AluFault(error) ==
  IF error = "DivisionByZero" THEN "DivisionByZero" ELSE "IllegalInstruction"

Alu(i) ==
  LET alu == IF i.opcode \in BinaryAlu
               THEN EvaluateBinary(i.opcode, Reg(i.dst), Reg(i.src))
               ELSE EvaluateUnary(i.opcode, Reg(i.dst))
  IN  /\ i.opcode \in BinaryAlu \cup UnaryAlu
      /\ \/ alu.error # "None" /\ Trap(AluFault(alu.error))
         \/ /\ alu.error = "None"
            /\ Done([Advanced EXCEPT
                 !.registers[i.dst] = IF alu.writes_value THEN alu.value ELSE @,
                 !.flags = IF alu.writes_flags THEN alu.flags ELSE @])
            /\ UNCHANGED <<memory, host>>

-----------------------------------------------------------------------------
(***************************************************************************)
(* SYSCALL: the immediate is the number of the service.                    *)
(***************************************************************************)
SyscallNumber == 0 .. 3

Exit(i) ==
  /\ i.imm = 0
  /\ Done([Advanced EXCEPT !.halted = TRUE, !.exit_code = Reg(Arg1)])
  /\ UNCHANGED <<memory, host>>

\* Empty transfers touch no memory and cannot fail on it.
Reachable(address, length, needed) ==
  length = 0 \/ checkAccess(regions, address, length, needed) = "Ok"

doWrite(i) ==
  LET ok == /\ Reg(Arg1) \in {1, 2}
            /\ Reg(Arg3) <= MaxTransfer
            /\ Reachable(Reg(Arg2), Reg(Arg3), "Read")
      text == IF Reg(Arg3) = 0 THEN <<>>
              ELSE BytesAt(regions, Reg(Arg2), Reg(Arg3))
  IN  /\ i.imm = 1
      /\ \/ ~ok /\ Trap("SyscallError")
         \/ /\ ok
            /\ host' = IF Reg(Arg1) = 1
                         THEN [host EXCEPT !.output = @ \o text]
                         ELSE [host EXCEPT !.error_output = @ \o text]
            /\ Done(SetReg(ReturnValue, Reg(Arg3)))
            /\ UNCHANGED memory

Shorter(a, b) == IF a <= b THEN a ELSE b

\* The bytes leave the input before it is known whether they can be stored.
doRead(i) ==
  LET accepted == Reg(Arg1) = 0 /\ Reg(Arg3) <= MaxTransfer
      count    == Shorter(Reg(Arg3), Len(host.input))
      bytes    == SubSeq(host.input, 1, count)
      rest     == SubSeq(host.input, count + 1, Len(host.input))
  IN  /\ i.imm = 2
      /\ \/ ~accepted /\ Trap("SyscallError")
         \/ /\ accepted
            /\ ~Reachable(Reg(Arg2), count, "Write")
            /\ Returns("SyscallError")
            /\ cpu' = Advanced
            /\ host' = [host EXCEPT !.input = rest]
            /\ UNCHANGED memory
         \/ /\ accepted
            /\ Reachable(Reg(Arg2), count, "Write")
            /\ regions' = IF count = 0 THEN regions
                          ELSE Stored(regions, Reg(Arg2), bytes)
            /\ Done(SetReg(ReturnValue, count))
            /\ host' = [host EXCEPT !.input = rest]
            /\ UNCHANGED heapNext

doAllocate(i) ==
  /\ i.imm = 3
  /\ \/ /\ CanAllocate(regions, heapNext, Reg(Arg1))
        /\ Done(SetReg(ReturnValue, heapNext))
        /\ heapNext' = Bumped(heapNext, Reg(Arg1))
     \/ /\ ~CanAllocate(regions, heapNext, Reg(Arg1))
        /\ Done(SetReg(ReturnValue, 0))
        /\ UNCHANGED heapNext
  /\ UNCHANGED <<regions, host>>

UnknownSyscall(i) == i.imm \notin SyscallNumber /\ Trap("SyscallError")

Syscall(i) ==
  /\ i.opcode = "SYSCALL"
  /\ \/ Exit(i) \/ doWrite(i) \/ doRead(i) \/ doAllocate(i) \/ UnknownSyscall(i)

Execute(i) ==
  \/ Nop(i) \/ Halt(i) \/ Syscall(i) \/ Move(i) \/ Load(i) \/ Store(i)
  \/ Push(i) \/ Pop(i) \/ Call(i) \/ Ret(i) \/ Branch(i) \/ Alu(i)

-----------------------------------------------------------------------------
(***************************************************************************)
(* step(): the tests before the PC moves leave the machine as it is.       *)
(***************************************************************************)
Stays == UNCHANGED <<memory, cpu, host, trace>>

FetchError == AccessError(cpu.pc, "Exec")
Aligned(address) == address % WordSize = 0

StepNotLoaded  == ~loaded /\ Returns("NotLoaded") /\ Stays
StepHalted     == loaded /\ cpu.halted /\ fault' = NoFault /\ Stays
Fetching       == loaded /\ ~cpu.halted
StepMisaligned ==
  Fetching /\ ~Aligned(cpu.pc) /\ Returns("IllegalInstruction") /\ Stays

StepFetchFault ==
  /\ Fetching /\ Aligned(cpu.pc)
  /\ FetchError # "None"
  /\ Returns(FetchError)
  /\ Stays

Fetched == WordAt(regions, cpu.pc)

StepUndecodable ==
  /\ Fetching /\ Aligned(cpu.pc) /\ FetchError = "None"
  /\ Decode(Fetched) = Undecodable
  /\ Returns("IllegalInstruction")
  /\ Stays

StepExecutes ==
  /\ Fetching /\ Aligned(cpu.pc) /\ FetchError = "None"
  /\ Decode(Fetched) # Undecodable
  /\ trace' = [pc |-> cpu.pc, word |-> Fetched]
  /\ Execute(Decode(Fetched))

Step ==
  /\ \/ StepNotLoaded \/ StepHalted \/ StepMisaligned \/ StepFetchFault
     \/ StepUndecodable \/ StepExecutes
  /\ UNCHANGED <<loaded, image, loads>>

\* A client calls step() directly.
StepCall ==
  /\ ~call.running
  /\ cpu.instruction_count < MaxInstructions
  /\ Step
  /\ UNCHANGED <<call, result>>

-----------------------------------------------------------------------------
(***************************************************************************)
(* run(budget).                                                            *)
(***************************************************************************)
RunNotLoaded ==
  /\ ~call.running /\ ~loaded
  /\ result' = [NoResult EXCEPT !.error = "NotLoaded"]
  /\ UNCHANGED <<memory, cpu, loaded, host, call, fault, trace, image, loads>>

RunCall(budget) ==
  /\ ~call.running /\ loaded
  /\ cpu.instruction_count + budget <= MaxInstructions
  /\ call' = [running |-> TRUE, budget |-> budget, executed |-> 0,
              start |-> cpu.instruction_count]
  /\ fault' = NoFault
  /\ UNCHANGED <<memory, cpu, loaded, host, result, trace, image, loads>>

RunCharges ==
  /\ call' = [call EXCEPT !.executed = call.executed + 1]
  /\ UNCHANGED result

RunRetries == UNCHANGED <<call, result>>

RunFaults ==
  /\ call' = NoCall
  /\ result' = [error |-> fault'.error, exit_code |-> 0,
                instructions |-> cpu'.instruction_count, pc |-> fault'.pc]

RunIterate ==
  /\ call.running /\ ~cpu.halted
  /\ call.executed < call.budget
  /\ Step
  /\ IF fault'.error = "None" THEN RunCharges ELSE RunFaults

\* What run() returns when it leaves the loop without a fault.
RunReturns(error, exitCode) ==
  /\ call' = NoCall
  /\ result' = [error |-> error, exit_code |-> exitCode,
                instructions |-> cpu.instruction_count, pc |-> cpu.pc]
  /\ UNCHANGED <<memory, cpu, loaded, host, fault, trace, image, loads>>

RunExhausted ==
  /\ call.running /\ ~cpu.halted
  /\ call.executed >= call.budget
  /\ RunReturns("BudgetExhausted", 0)

RunHalted ==
  /\ call.running /\ cpu.halted
  /\ RunReturns("None", cpu.exit_code)

-----------------------------------------------------------------------------
ClientCalls ==
  \/ LoadCall
  \/ StepCall
  \/ RunNotLoaded
  \/ \E budget \in Budgets : RunCall(budget)

RunLoop == RunIterate \/ RunExhausted \/ RunHalted

Next == ClientCalls \/ RunLoop

Spec == Init /\ [][Next]_vars

\* run() is a loop of the calling thread: once entered it keeps going.
FairSpec == Spec /\ WF_vars(RunLoop)

-----------------------------------------------------------------------------
CPUState ==
  [registers: [Register -> Word], pc: Word, sp: Word, flags: Flags,
   halted: BOOLEAN, instruction_count: Nat, exit_code: Word]

HostState == [input: Seq(Byte), output: Seq(Byte), error_output: Seq(Byte)]

\* The machine's state has the shape the code gives it; every region lies in
\* the address space and has a byte for each of its addresses.
TypeOK ==
  /\ WellFormed(regions)
  /\ heapNext \in Word
  /\ cpu \in CPUState
  /\ loaded \in BOOLEAN
  /\ host \in HostState
  /\ call \in [running: BOOLEAN, budget: Nat, executed: Nat, start: Nat]
  /\ fault \in [error: VMErrors, pc: Word]
  /\ result \in [error: VMErrors, exit_code: Word, instructions: Nat, pc: Word]
  /\ trace \in [pc: Word, word: Word] \cup {NoTrace}
  /\ image = NoImage \/ image \in Executable
  /\ loads \in Nat

-----------------------------------------------------------------------------
\* SP stays inside the stack and word-aligned from the moment a program is
\* loaded, whatever it executes and however its calls fail: push() and pop()
\* are the only code that moves it and they test the bound before they do.
StackDiscipline ==
  loaded => /\ cpu.sp \in StackLimit .. StackTop
            /\ (StackTop - cpu.sp) % WordSize = 0

\* validate() refuses every segment that addRegion() would refuse, so a load
\* that gets past it can only stop at the stack or at the heap.
ValidatedSegmentsMap ==
  image # NoImage => Len(regions) >= Len(image.segments)

\* No two regions share an address, so the first region that contains an
\* address is the only one, and adjacent regions stay separate.
RegionsDisjoint ==
  \A i, j \in DOMAIN regions :
    i # j => \/ regions[i].base + regions[i].size <= regions[j].base
             \/ regions[j].base + regions[j].size <= regions[i].base

\* There is no self-modifying code: each instruction executed is, byte for
\* byte, what an executable segment of the image holds at that address.
ExecutesImageCode ==
  trace # NoTrace =>
    \E k \in DOMAIN image.segments :
      LET mapped == SegmentMapping(image.segments[k])
          offset == trace.pc - mapped.base
      IN  /\ "Exec" \in image.segments[k].flags
          /\ offset >= 0 /\ offset + WordSize <= mapped.size
          /\ trace.word =
               LoadWord([n \in 1 .. WordSize |-> mapped.data[offset + n]])

\* While run() is in its loop the instructions counted since it was entered
\* are the iterations it has charged to the budget, and never exceed it.
BudgetAccounting ==
  call.running => /\ cpu.instruction_count = call.start + call.executed
                  /\ call.executed <= call.budget

-----------------------------------------------------------------------------
Executing == cpu'.instruction_count # cpu.instruction_count /\ trace' # NoTrace

StackMapped == Len(regions) > Len(image.segments)

\* Once the stack is mapped an instruction that uses it fails only as a stack
\* overflow or a stack underflow: the memory accesses inside push() and pop()
\* cannot fail, because the bound tests before them leave only whole, mapped
\* slots.
StackErrorsAreNamed ==
  [][Executing /\ StackMapped =>
       LET opcode == Decode(trace'.word).opcode IN
       /\ opcode \in {"PUSH", "CALL"} =>
            fault'.error \in {"None", "StackOverflow"}
       /\ opcode \in {"POP", "RET"} =>
            fault'.error \in {"None", "StackUnderflow"}]_vars

\* A fault is precise: a step that fails names the instruction it failed at
\* and has changed no register, no flag, no memory, no output, and neither SP
\* nor the halted state.
FaultsArePrecise ==
  [][fault'.error # "None" =>
       /\ fault'.pc = cpu.pc \/ fault' = fault
       /\ cpu' = [cpu EXCEPT !.pc = cpu'.pc,
                             !.instruction_count = cpu'.instruction_count]
       /\ UNCHANGED <<regions, heapNext>>
       /\ host' = [host EXCEPT !.input = host'.input]]_vars

\* The bytes from the address on lie in one region; in one with the permission.
InOneRegion(address, length) ==
  \E i \in DOMAIN regions :
    /\ regions[i].base <= address
    /\ address + length <= regions[i].base + regions[i].size

Allowed(address, length, needed) ==
  \E i \in DOMAIN regions :
    /\ regions[i].base <= address
    /\ address + length <= regions[i].base + regions[i].size
    /\ needed \in regions[i].permissions

BelowStack(address) == address \in StackLimit - StackSize .. StackLimit - 1

\* Why the word at an address cannot be accessed.
MemoryFault(error, address, needed) ==
  LET mapped == InOneRegion(address, WordSize) IN
  \/ /\ error = "PermissionViolation"
     /\ mapped /\ ~Allowed(address, WordSize, needed)
  \/ error = "StackOverflow" /\ ~mapped /\ BelowStack(address)
  \/ error = "InvalidMemoryAccess" /\ ~mapped /\ ~BelowStack(address)

\* Why there is no instruction at PC.
FetchFault(error) ==
  \/ error = "IllegalInstruction" /\ ~Aligned(cpu.pc)
  \/ /\ error = "IllegalInstruction"
     /\ Allowed(cpu.pc, WordSize, "Exec") /\ Decode(Fetched) = Undecodable
  \/ Aligned(cpu.pc) /\ MemoryFault(error, cpu.pc, "Exec")

\* Why a system call is refused.
Transferable(length, needed) ==
  /\ Reg(Arg3) <= MaxTransfer
  /\ length = 0 \/ Allowed(Reg(Arg2), length, needed)

RequestFault(number) ==
  \/ number = 1 /\ ~(Reg(Arg1) \in {1, 2} /\ Transferable(Reg(Arg3), "Read"))
  \/ /\ number = 2
     /\ ~ /\ Reg(Arg1) = 0
          /\ Transferable(Shorter(Reg(Arg3), Len(host.input)), "Write")
  \/ number \notin SyscallNumber

PushFault(error) ==
  IF cpu.sp = StackLimit THEN error = "StackOverflow"
  ELSE MemoryFault(error, cpu.sp - WordSize, "Write")

PopFault(error) ==
  IF cpu.sp = StackTop THEN error = "StackUnderflow"
  ELSE MemoryFault(error, cpu.sp, "Read")

\* Why an instruction cannot do what it should; those not named here always can.
InstructionFault(error, i) ==
  \/ i.opcode = "LOAD" /\ MemoryFault(error, Add(Reg(i.src), i.imm), "Read")
  \/ i.opcode = "STORE" /\ MemoryFault(error, Add(Reg(i.dst), i.imm), "Write")
  \/ i.opcode \in {"PUSH", "CALL"} /\ PushFault(error)
  \/ i.opcode \in {"POP", "RET"} /\ PopFault(error)
  \/ i.opcode \in {"DIV", "MOD"} /\ error = "DivisionByZero" /\ Reg(i.src) = 0
  \/ i.opcode = "SYSCALL" /\ error = "SyscallError" /\ RequestFault(i.imm)

\* The error is what stopped the step: the instruction at PC if it was counted,
\* or else its fetch.
Explains(error) ==
  IF cpu'.instruction_count = cpu.instruction_count THEN FetchFault(error)
  ELSE InstructionFault(error, Decode(Fetched))

\* What run() reports is what happened: success with the exit code exactly when
\* the program has halted, exhaustion exactly when the whole budget was spent and
\* the last instruction succeeded, and otherwise the one error that the state
\* before the last step accounts for, with the address of the instruction that
\* met it and not the PC, which may have moved on.
RunReportIsHonest ==
  [][call.running /\ ~call'.running =>
       LET spent == cpu'.instruction_count - call.start
           error == result'.error
       IN  /\ result'.instructions = cpu'.instruction_count
           /\ spent <= call.budget
           /\ result'.pc = cpu.pc
           /\ error = "None" <=> cpu'.halted
           /\ error = "None" => result'.exit_code = cpu'.exit_code
           /\ error = "BudgetExhausted" <=>
                (~cpu'.halted /\ spent = call.budget /\ cpu' = cpu)
           /\ error \notin {"None", "BudgetExhausted"} => Explains(error)]_vars

\* The budget bounds every run: run() always returns.
RunReturnsEventually == call.running ~> ~call.running

=============================================================================
