------------------------- MODULE VirtualMachineProofs -------------------------
(***************************************************************************)
(* The safety of the virtual machine for every word size, memory layout,   *)
(* instruction encoding, ALU, set of images and sequence of client calls.  *)
(*                                                                         *)
(* Every instruction has the same kind of Effect on the machine, whatever  *)
(* it is; one lemma per family of opcodes shows it, and the stack          *)
(* discipline, the accounting of run(), the precision of faults and the    *)
(* integrity of the code that is executed use nothing else about           *)
(* execution.  What run() reports, proved last, needs to know of each      *)
(* instruction why it fails.                                               *)
(***************************************************************************)
EXTENDS VirtualMachine, VirtualMemoryProofs, SequenceTheorems

\* SP moves only by a word, and only within the bounds that push() and pop() test.
SpMoves ==
  \/ cpu'.sp = cpu.sp
  \/ cpu.sp >= StackLimit + WordSize /\ cpu'.sp = cpu.sp - WordSize
  \/ cpu.sp < StackTop /\ cpu'.sp = Add(cpu.sp, WordSize)

\* What a failing instruction leaves behind.
Precise ==
  fault'.error # "None" =>
    /\ fault'.pc = cpu.pc
    /\ cpu' = Advanced
    /\ UNCHANGED memory
    /\ host' = [host EXCEPT !.input = host'.input]

FaultRecord == [error: VMErrors, pc: Word]

\* What executing an instruction may do.
Effect ==
  /\ cpu' \in CPUState
  /\ cpu'.instruction_count = cpu.instruction_count + 1
  /\ SpMoves
  /\ heapNext' \in Word
  /\ host' \in HostState
  /\ fault' \in FaultRecord
  /\ fault'.error \notin {"BudgetExhausted", "NotLoaded"}
  /\ Evolves(regions, regions')
  /\ Precise

-----------------------------------------------------------------------------
\* The layout constants as numbers.
LEMMA LayoutTypes ==
  /\ StackTop \in Nat /\ StackSize \in Nat /\ StackLimit \in Nat
  /\ StackTop < WordModulus /\ StackLimit + WordSize <= StackTop
  /\ StackTop % WordSize = 0 /\ StackLimit % WordSize = 0
  /\ Add(StackLimit, WordSize) = StackLimit + WordSize
  /\ WordSize \in Word
<1>1. /\ StackTop \in Nat /\ StackSize \in Nat /\ StackTop < WordModulus
      /\ StackSize > 0 /\ StackSize <= StackTop
      /\ StackTop % WordSize = 0 /\ StackSize % WordSize = 0
  BY MachineAssumption, WordTypes DEF Word
<1>2. StackLimit \in Nat /\ StackLimit < StackTop
  BY <1>1 DEF StackLimit
<1>3. StackLimit % WordSize = 0
  BY <1>1, AlignedSums DEF StackLimit
<1>4. StackLimit + WordSize <= StackTop
  BY <1>1, <1>2, <1>3, AlignedGap
<1>5. QED
  BY <1>1, <1>2, <1>3, <1>4, WordTypes DEF Add, Word

\* An address that AccessError() accepts is one that checkAccess() lets through.
LEMMA AccessErrorFacts ==
  ASSUME WellFormed(regions), NEW address \in Word, NEW needed \in Permission
  PROVE  /\ AccessError(address, needed) \in
              {"None", "PermissionViolation", "StackOverflow", "InvalidMemoryAccess"}
         /\ AccessError(address, needed) = "None" =>
              checkAccess(regions, address, WordSize, needed) = "Ok"
<1> DEFINE check == checkAccess(regions, address, WordSize, needed)
<1>1. check \in AccessErrors \cup {"Ok"}
  BY CheckedAccess, WordTypes
<1> HIDE DEF check
<1>2. AccessError(address, needed) = faultFromMemory(check, address)
  BY DEF AccessError, check
<1>3. CASE check \in {"ReadDenied", "WriteDenied", "ExecuteDenied"}
  BY <1>2, <1>3 DEF faultFromMemory, check
<1>4. CASE check \in {"Unmapped", "CrossesRegionEnd"}
  BY <1>2, <1>4 DEF faultFromMemory, check
<1>5. CASE check = "Ok"
  BY <1>2, <1>5 DEF faultFromMemory, check
<1>6. QED
  BY <1>1, <1>3, <1>4, <1>5 DEF AccessErrors

\* Regions that do not change evolve.
LEMMA EvolvesUnchanged ==
  ASSUME WellFormed(regions), UNCHANGED regions
  PROVE  Evolves(regions, regions')
  BY DEF Evolves

\* The CPU that step() hands to execute().
LEMMA AdvancedFacts ==
  ASSUME TypeOK
  PROVE  /\ Advanced \in CPUState
         /\ Advanced.sp = cpu.sp /\ Advanced.registers = cpu.registers
         /\ Advanced.instruction_count = cpu.instruction_count + 1
         /\ Advanced.flags = cpu.flags
<1>1. cpu \in CPUState /\ Add(cpu.pc, WordSize) \in Word
  <2>1. cpu \in CPUState
    BY DEF TypeOK
  <2>2. cpu.pc \in Word /\ WordSize \in Word
    BY <2>1, LayoutTypes DEF CPUState
  <2>3. QED
    BY <2>1, <2>2, WordArithmetic
<1> DEFINE next == Add(cpu.pc, WordSize)
           count == cpu.instruction_count + 1
<1>2. count \in Nat /\ next \in Word
  BY <1>1 DEF CPUState
<1>3. Advanced = [cpu EXCEPT !.pc = next, !.instruction_count = count]
  BY DEF Advanced
<1> HIDE DEF next, count
<1>4. QED
  BY <1>1, <1>2, <1>3 DEF CPUState, count

\* A trap has the effect of an instruction.
LEMMA TrapEffect ==
  ASSUME TypeOK,
         NEW e \in VMErrors \ {"None", "BudgetExhausted", "NotLoaded"}, Trap(e)
  PROVE  Effect
<1>1. /\ fault' = [error |-> e, pc |-> cpu.pc] /\ cpu' = Advanced
      /\ UNCHANGED <<regions, heapNext, host>>
  BY DEF Trap, Returns, memory
<1>2. fault' \in FaultRecord /\ fault'.pc = cpu.pc
      /\ fault'.error \notin {"BudgetExhausted", "NotLoaded"}
  BY <1>1 DEF FaultRecord, TypeOK, CPUState
<1>3. Evolves(regions, regions')
  BY <1>1, EvolvesUnchanged DEF TypeOK
<1>4. host' = [host EXCEPT !.input = host'.input] /\ host' \in HostState
  BY <1>1 DEF TypeOK, HostState
<1>5. QED
  BY <1>1, <1>2, <1>3, <1>4, AdvancedFacts
     DEF Effect, SpMoves, Precise, TypeOK, memory

\* So does an instruction that succeeds and leaves a proper machine.
LEMMA DoneEffect ==
  ASSUME TypeOK, NEW after \in CPUState, Done(after),
         after.instruction_count = cpu.instruction_count + 1,
         \/ after.sp = cpu.sp
         \/ cpu.sp >= StackLimit + WordSize /\ after.sp = cpu.sp - WordSize
         \/ cpu.sp < StackTop /\ after.sp = Add(cpu.sp, WordSize),
         heapNext' \in Word, host' \in HostState, Evolves(regions, regions')
  PROVE  Effect
<1>1. cpu' = after /\ fault' = NoFault
  BY DEF Done
<1>2. fault' \in FaultRecord /\ fault'.error = "None"
  BY <1>1, WordTypes DEF NoFault, FaultRecord, VMErrors, Word
<1>3. QED
  BY <1>1, <1>2 DEF Effect, SpMoves, Precise

\* An instruction that only changes registers, flags, PC or the halted state.
LEMMA QuietEffect ==
  ASSUME TypeOK, NEW after \in CPUState, Done(after),
         after.instruction_count = cpu.instruction_count + 1,
         after.sp = cpu.sp, UNCHANGED <<memory, host>>
  PROVE  Effect
<1>1. UNCHANGED <<regions, heapNext, host>>
  BY DEF memory
<1>2. heapNext' \in Word /\ host' \in HostState /\ Evolves(regions, regions')
  BY <1>1, EvolvesUnchanged DEF TypeOK
<1>3. QED
  BY <1>2, DoneEffect

\* Writing a register of the advanced CPU.
LEMMA SetRegFacts ==
  ASSUME TypeOK, NEW r \in Register, NEW value \in Word
  PROVE  /\ SetReg(r, value) \in CPUState
         /\ SetReg(r, value).sp = cpu.sp
         /\ SetReg(r, value).instruction_count = cpu.instruction_count + 1
  BY AdvancedFacts DEF SetReg, CPUState

\* Branch targets are words, as is whatever a register holds.
LEMMA OperandFacts ==
  ASSUME TypeOK
  PROVE  /\ \A d \in Word : branchTarget(d) \in Word
         /\ \A r \in Register : Reg(r) \in Word
         /\ {Arg1, Arg2, Arg3, ReturnValue} \subseteq Register
         /\ 0 \in Word
<1>1. cpu \in CPUState
  BY DEF TypeOK
<1>2. \A d \in Word : branchTarget(d) \in Word
  BY <1>1, WordArithmetic, LayoutTypes DEF branchTarget, CPUState
<1>3. QED
  BY <1>1, <1>2, MachineAssumption, WordTypes DEF Reg, CPUState, Word

-----------------------------------------------------------------------------
(***************************************************************************)
(* The effect of each family of opcodes.                                   *)
(***************************************************************************)

\* NOP, HALT, the moves and the branches.
LEMMA SimpleEffect ==
  ASSUME TypeOK, NEW i \in Instruction,
         Nop(i) \/ Halt(i) \/ Move(i) \/ Branch(i)
  PROVE  Effect
<1>1. i.dst \in Register /\ i.src \in Register /\ i.imm \in Word
  BY DEF Instruction
<1>2. CASE Nop(i)
  BY <1>2, AdvancedFacts, QuietEffect DEF Nop
<1>3. CASE Halt(i)
  <2>1. [Advanced EXCEPT !.halted = TRUE] \in CPUState
    BY AdvancedFacts DEF CPUState
  <2>2. QED
    BY <1>3, <2>1, AdvancedFacts, QuietEffect DEF Halt, CPUState
<1>4. CASE Move(i)
  <2>1. PICK value \in Word : Done(SetReg(i.dst, value))
    BY <1>1, <1>4, OperandFacts DEF Move
  <2>2. QED
    BY <1>1, <1>4, <2>1, SetRegFacts, QuietEffect DEF Move
<1>5. CASE Branch(i)
  <2>1. [Advanced EXCEPT !.pc = branchTarget(i.imm)] \in CPUState
    BY <1>1, AdvancedFacts, OperandFacts DEF CPUState
  <2>2. QED
    BY <1>5, <2>1, AdvancedFacts, QuietEffect DEF Branch, CPUState
<1>6. QED
  BY <1>2, <1>3, <1>4, <1>5

\* The ALU instructions.
LEMMA AluEffect ==
  ASSUME TypeOK, NEW i \in Instruction, Alu(i)
  PROVE  Effect
<1> DEFINE alu == IF i.opcode \in BinaryAlu
                    THEN EvaluateBinary(i.opcode, Reg(i.dst), Reg(i.src))
                    ELSE EvaluateUnary(i.opcode, Reg(i.dst))
           after == [Advanced EXCEPT
                      !.registers[i.dst] = IF alu.writes_value THEN alu.value ELSE @,
                      !.flags = IF alu.writes_flags THEN alu.flags ELSE @]
<1>1. i.dst \in Register /\ i.src \in Register
  BY DEF Instruction
<1>2. alu \in AluResult
  BY <1>1, OperandFacts, IsaAssumption DEF Alu
<1>3. \/ Trap("DivisionByZero")
      \/ Trap("IllegalInstruction")
      \/ Done(after) /\ UNCHANGED <<memory, host>>
  BY DEF Alu, AluFault
<1> HIDE DEF alu
<1>4. CASE Done(after) /\ UNCHANGED <<memory, host>>
  <2>1. alu.value \in Word /\ alu.flags \in Flags
    BY <1>2 DEF AluResult
  <2>2. after \in CPUState
    BY <1>1, <2>1, AdvancedFacts DEF CPUState
  <2>3. after.sp = cpu.sp /\ after.instruction_count = cpu.instruction_count + 1
    BY AdvancedFacts DEF CPUState
  <2> HIDE DEF after
  <2>4. QED
    BY <1>4, <2>2, <2>3, QuietEffect
<1>5. QED
  BY <1>3, <1>4, TrapEffect DEF VMErrors

\* LOAD and STORE.
LEMMA LoadStoreEffect ==
  ASSUME TypeOK, NEW i \in Instruction, Load(i) \/ Store(i)
  PROVE  Effect
<1>1. i.dst \in Register /\ i.src \in Register /\ i.imm \in Word
  BY DEF Instruction
<1>2. Add(Reg(i.src), i.imm) \in Word /\ Add(Reg(i.dst), i.imm) \in Word
  BY <1>1, OperandFacts, WordArithmetic
<1>3. WellFormed(regions)
  BY DEF TypeOK
<1>4. CASE Load(i)
  <2> DEFINE address == Add(Reg(i.src), i.imm)
             error   == AccessError(address, "Read")
  <2>1. \/ error # "None" /\ Trap(error)
        \/ /\ error = "None" /\ Done(SetReg(i.dst, WordAt(regions, address)))
           /\ UNCHANGED <<memory, host>>
    BY <1>4 DEF Load
  <2>2. CASE error # "None" /\ Trap(error)
    BY <1>2, <1>3, <2>2, AccessErrorFacts, TrapEffect DEF Permission, VMErrors
  <2>3. CASE /\ error = "None" /\ Done(SetReg(i.dst, WordAt(regions, address)))
             /\ UNCHANGED <<memory, host>>
    <3>1. WordAt(regions, address) \in Word
      BY <1>2, <1>3, <2>3, AccessErrorFacts, WordAtType DEF Permission
    <3>2. QED
      BY <1>1, <2>3, <3>1, SetRegFacts, QuietEffect
  <2>4. QED
    BY <2>1, <2>2, <2>3
<1>5. CASE Store(i)
  <2> DEFINE address == Add(Reg(i.dst), i.imm)
             error   == AccessError(address, "Write")
  <2>1. \/ error # "None" /\ Trap(error)
        \/ /\ error = "None"
           /\ regions' = Stored(regions, address, StoreWord(Reg(i.src)))
           /\ Done(Advanced)
           /\ UNCHANGED <<heapNext, host>>
    BY <1>5 DEF Store
  <2>2. CASE error # "None" /\ Trap(error)
    BY <1>2, <1>3, <2>2, AccessErrorFacts, TrapEffect DEF Permission, VMErrors
  <2>3. CASE /\ error = "None"
             /\ regions' = Stored(regions, address, StoreWord(Reg(i.src)))
             /\ Done(Advanced)
             /\ UNCHANGED <<heapNext, host>>
    <3>1. StoreWord(Reg(i.src)) \in [1 .. WordSize -> Byte]
      BY <1>1, OperandFacts, MemoryAssumption
    <3>2. checkAccess(regions, address, WordSize, "Write") = "Ok"
      BY <1>2, <1>3, <2>3, AccessErrorFacts DEF Permission
    <3>3. Evolves(regions, regions')
      BY <1>2, <1>3, <2>3, <3>1, <3>2, StoredEvolves, WordTypes
    <3>4. QED
      BY <2>3, <3>3, AdvancedFacts, DoneEffect DEF TypeOK
  <2>4. QED
    BY <2>1, <2>2, <2>3
<1>6. QED
  BY <1>4, <1>5

-----------------------------------------------------------------------------
(***************************************************************************)
(* The stack.                                                              *)
(***************************************************************************)

\* push() either traps or moves SP down a word from inside the stack.
LEMMA PushFacts ==
  ASSUME TypeOK
  PROVE  /\ PushError \in VMErrors \ {"BudgetExhausted", "NotLoaded"}
         /\ PushError = "None" =>
              /\ cpu.sp >= StackLimit + WordSize
              /\ Sub(cpu.sp, WordSize) = cpu.sp - WordSize
              /\ Sub(cpu.sp, WordSize) \in Word
              /\ checkAccess(regions, Sub(cpu.sp, WordSize), WordSize, "Write") = "Ok"
<1>1. cpu.sp \in Word /\ cpu.sp \in Nat /\ WellFormed(regions)
  BY WordTypes DEF TypeOK, CPUState, Word
<1>2. Sub(cpu.sp, WordSize) \in Word /\ "Write" \in Permission
  BY <1>1, WordArithmetic, LayoutTypes DEF Permission
<1>3. CASE cpu.sp < Add(StackLimit, WordSize)
  BY <1>3 DEF PushError, VMErrors
<1>4. CASE ~(cpu.sp < Add(StackLimit, WordSize))
  <2>1. cpu.sp >= StackLimit + WordSize /\ Sub(cpu.sp, WordSize) = cpu.sp - WordSize
    BY <1>1, <1>4, LayoutTypes, WordTypes DEF Sub
  <2>2. PushError = AccessError(Sub(cpu.sp, WordSize), "Write")
    BY <1>4 DEF PushError
  <2>3. QED
    BY <1>1, <1>2, <2>1, <2>2, AccessErrorFacts DEF VMErrors
<1>5. QED
  BY <1>3, <1>4

\* pop() either traps or moves SP up a word from below the stack's top.
LEMMA PopFacts ==
  ASSUME TypeOK
  PROVE  /\ PopError \in VMErrors \ {"BudgetExhausted", "NotLoaded"}
         /\ PopError = "None" =>
              /\ cpu.sp < StackTop
              /\ Add(cpu.sp, WordSize) \in Word
              /\ Popped \in Word
<1>1. cpu.sp \in Word /\ cpu.sp \in Nat /\ WellFormed(regions)
  BY WordTypes DEF TypeOK, CPUState, Word
<1>2. Add(cpu.sp, WordSize) \in Word /\ "Read" \in Permission
  BY <1>1, WordArithmetic, LayoutTypes DEF Permission
<1>3. CASE cpu.sp >= StackTop
  BY <1>3 DEF PopError, VMErrors
<1>4. CASE ~(cpu.sp >= StackTop)
  <2>1. PopError = AccessError(cpu.sp, "Read") /\ cpu.sp < StackTop
    BY <1>1, <1>4, LayoutTypes DEF PopError
  <2>2. PopError = "None" => Popped \in Word
    BY <1>1, <1>2, <2>1, AccessErrorFacts, WordAtType DEF Popped
  <2>3. QED
    BY <1>1, <1>2, <2>1, <2>2, AccessErrorFacts DEF VMErrors
<1>5. QED
  BY <1>3, <1>4

\* A push that succeeds moves SP one word down inside the stack; one that fails
\* is a trap.
LEMMA PushesEffect ==
  ASSUME TypeOK, NEW value \in Word, NEW after \in CPUState,
         after.instruction_count = cpu.instruction_count + 1,
         Pushes(value, after)
  PROVE  Effect
<1> DEFINE slot == Sub(cpu.sp, WordSize)
<1>1. CASE PushError # "None" /\ Trap(PushError)
  BY <1>1, PushFacts, TrapEffect
<1>2. CASE /\ PushError = "None"
           /\ regions' = Stored(regions, slot, StoreWord(value))
           /\ Done([after EXCEPT !.sp = slot])
           /\ UNCHANGED <<heapNext, host>>
  <2>1. /\ slot \in Word /\ slot = cpu.sp - WordSize
        /\ cpu.sp >= StackLimit + WordSize
        /\ checkAccess(regions, slot, WordSize, "Write") = "Ok"
    BY <1>2, PushFacts
  <2>2. Evolves(regions, regions')
    <3>1. StoreWord(value) \in [1 .. WordSize -> Byte] /\ WellFormed(regions)
      BY MemoryAssumption DEF TypeOK
    <3>2. QED
      BY <1>2, <2>1, <3>1, StoredEvolves, WordTypes
  <2> DEFINE final == [after EXCEPT !.sp = slot]
  <2> HIDE DEF slot
  <2>3. /\ final \in CPUState /\ final.sp = slot
        /\ final.instruction_count = cpu.instruction_count + 1
    BY <2>1 DEF CPUState
  <2>4. Done(final)
    BY <1>2 DEF slot
  <2>5. heapNext' \in Word /\ host' \in HostState
    BY <1>2 DEF TypeOK
  <2> HIDE DEF final
  <2>6. QED
    BY <2>1, <2>2, <2>3, <2>4, <2>5, DoneEffect
<1>3. QED
  BY <1>1, <1>2 DEF Pushes

\* A pop that succeeds moves SP one word up; one that fails is a trap.
LEMMA PopsEffect ==
  ASSUME TypeOK, NEW after,
         PopError = "None" =>
           /\ after \in CPUState
           /\ after.instruction_count = cpu.instruction_count + 1,
         Pops(after)
  PROVE  Effect
<1> DEFINE slot == Add(cpu.sp, WordSize)
           final == [after EXCEPT !.sp = slot]
<1>1. CASE PopError # "None" /\ Trap(PopError)
  BY <1>1, PopFacts, TrapEffect
<1>2. CASE PopError = "None" /\ Done(final) /\ UNCHANGED <<memory, host>>
  <2>1. slot \in Word /\ cpu.sp < StackTop
    BY <1>2, PopFacts
  <2> HIDE DEF slot
  <2>2. /\ final \in CPUState /\ final.sp = slot
        /\ final.instruction_count = cpu.instruction_count + 1
    BY <1>2, <2>1 DEF CPUState
  <2> HIDE DEF final
  <2>3. UNCHANGED <<regions, heapNext, host>>
    BY <1>2 DEF memory
  <2>4. heapNext' \in Word /\ host' \in HostState /\ Evolves(regions, regions')
    BY <2>3, EvolvesUnchanged DEF TypeOK
  <2>5. QED
    BY <1>2, <2>1, <2>2, <2>4, DoneEffect DEF slot
<1>3. QED
  BY <1>1, <1>2 DEF Pops

\* PUSH, POP, CALL and RET.
LEMMA StackEffect ==
  ASSUME TypeOK, NEW i \in Instruction,
         Push(i) \/ Pop(i) \/ Call(i) \/ Ret(i)
  PROVE  Effect
<1>1. i.dst \in Register /\ i.src \in Register /\ i.imm \in Word
  BY DEF Instruction
<1>2. CASE Push(i)
  BY <1>1, <1>2, AdvancedFacts, OperandFacts, PushesEffect DEF Push
<1>3. CASE Pop(i)
  <2>1. PopError = "None" =>
          /\ SetReg(i.dst, Popped) \in CPUState
          /\ SetReg(i.dst, Popped).instruction_count = cpu.instruction_count + 1
    BY <1>1, PopFacts, SetRegFacts
  <2>2. Pops(SetReg(i.dst, Popped))
    BY <1>3 DEF Pop
  <2>3. QED
    BY <2>1, <2>2, PopsEffect
<1>4. CASE Call(i)
  <2> DEFINE after == [Advanced EXCEPT !.pc = branchTarget(i.imm)]
  <2>1. /\ after \in CPUState
        /\ after.instruction_count = cpu.instruction_count + 1
    BY <1>1, AdvancedFacts, OperandFacts DEF CPUState
  <2>2. Advanced.pc \in Word
    BY AdvancedFacts DEF CPUState
  <2>3. Pushes(Advanced.pc, after)
    BY <1>4 DEF Call
  <2> HIDE DEF after
  <2>4. QED
    BY <2>1, <2>2, <2>3, PushesEffect
<1>5. CASE Ret(i)
  <2> DEFINE after == [Advanced EXCEPT !.pc = Popped]
  <2>1. PopError = "None" =>
          /\ after \in CPUState
          /\ after.instruction_count = cpu.instruction_count + 1
    BY PopFacts, AdvancedFacts DEF CPUState
  <2>2. Pops(after)
    BY <1>5 DEF Ret
  <2> HIDE DEF after
  <2>3. QED
    BY <2>1, <2>2, PopsEffect
<1>6. QED
  BY <1>2, <1>3, <1>4, <1>5

-----------------------------------------------------------------------------
(***************************************************************************)
(* The system calls.                                                       *)
(***************************************************************************)

\* The write system call changes nothing but the output, R14, the PC and the count.
LEMMA WriteEffect ==
  ASSUME TypeOK, NEW i \in Instruction, doWrite(i)
  PROVE  Effect
<1> DEFINE text == IF Reg(Arg3) = 0 THEN <<>>
                   ELSE BytesAt(regions, Reg(Arg2), Reg(Arg3))
           ok   == /\ Reg(Arg1) \in {1, 2}
                   /\ Reg(Arg3) <= MaxTransfer
                   /\ Reachable(Reg(Arg2), Reg(Arg3), "Read")
           output == IF Reg(Arg1) = 1
                       THEN [host EXCEPT !.output = @ \o text]
                       ELSE [host EXCEPT !.error_output = @ \o text]
<1>1. /\ Reg(Arg2) \in Word /\ Reg(Arg3) \in Word /\ ReturnValue \in Register
      /\ Reg(Arg3) \in Nat /\ WellFormed(regions)
  BY OperandFacts, WordTypes DEF TypeOK, Word
<1>2. \/ Trap("SyscallError")
      \/ /\ ok /\ host' = output
         /\ Done(SetReg(ReturnValue, Reg(Arg3))) /\ UNCHANGED memory
  BY DEF doWrite
<1>3. CASE /\ ok /\ host' = output
           /\ Done(SetReg(ReturnValue, Reg(Arg3))) /\ UNCHANGED memory
  <2>1. text \in Seq(Byte)
    <3>1. CASE Reg(Arg3) = 0
      BY <3>1
    <3>2. CASE Reg(Arg3) # 0
      <4>1. checkAccess(regions, Reg(Arg2), Reg(Arg3), "Read") = "Ok"
        BY <1>3, <3>2 DEF Reachable
      <4>2. text \in [1 .. Reg(Arg3) -> Byte]
        BY <1>1, <3>2, <4>1, BytesAtType DEF Permission
      <4>3. QED
        BY <1>1, <4>2
    <3>3. QED
      BY <3>1, <3>2
  <2> HIDE DEF text
  <2>2. host \in HostState
    BY DEF TypeOK
  <2>3. host.output \o text \in Seq(Byte) /\ host.error_output \o text \in Seq(Byte)
    BY <2>1, <2>2 DEF HostState
  <2>4. host' \in HostState
    BY <1>3, <2>2, <2>3 DEF HostState
  <2>5. UNCHANGED <<regions, heapNext>>
    BY <1>3 DEF memory
  <2>6. heapNext' \in Word /\ Evolves(regions, regions')
    BY <2>5, EvolvesUnchanged DEF TypeOK
  <2>7. QED
    BY <1>1, <1>3, <2>4, <2>6, SetRegFacts, DoneEffect
<1>4. QED
  BY <1>2, <1>3, TrapEffect DEF VMErrors

\* The read system call consumes input and stores only where it may write.
LEMMA ReadEffect ==
  ASSUME TypeOK, NEW i \in Instruction, doRead(i)
  PROVE  Effect
<1> DEFINE count == Shorter(Reg(Arg3), Len(host.input))
           bytes == SubSeq(host.input, 1, count)
           rest  == SubSeq(host.input, count + 1, Len(host.input))
           ok    == Reachable(Reg(Arg2), count, "Write")
           taken == [host EXCEPT !.input = rest]
<1>1. /\ Reg(Arg2) \in Word /\ Reg(Arg3) \in Word /\ ReturnValue \in Register
      /\ Reg(Arg3) \in Nat /\ WellFormed(regions) /\ host \in HostState
  BY OperandFacts, WordTypes DEF TypeOK, Word
<1>2. /\ host.input \in Seq(Byte) /\ Len(host.input) \in Nat
      /\ host.output \in Seq(Byte) /\ host.error_output \in Seq(Byte)
  BY <1>1 DEF HostState
<1>3. count \in Nat /\ count \in Word /\ count <= Len(host.input)
  BY <1>1, <1>2, WordTypes DEF Shorter, Word
<1>4. \/ Trap("SyscallError")
      \/ /\ Returns("SyscallError") /\ cpu' = Advanced
         /\ host' = taken /\ UNCHANGED memory
      \/ /\ ok /\ regions' = IF count = 0 THEN regions
                             ELSE Stored(regions, Reg(Arg2), bytes)
         /\ Done(SetReg(ReturnValue, count))
         /\ host' = taken /\ UNCHANGED heapNext
  BY DEF doRead
<1> HIDE DEF count
<1>5. /\ rest \in Seq(Byte) /\ bytes \in Seq(Byte)
      /\ bytes \in [1 .. count -> Byte]
  <2>1. \A k \in 1 .. Len(host.input) : host.input[k] \in Byte
    BY <1>2
  <2>2. bytes \in Seq(Byte) /\ Len(bytes) = count
    BY <1>3, <2>1, SubSeqProperties
  <2>3. rest \in Seq(Byte)
    BY <1>2, <1>3, <2>1, SubSeqProperties
  <2> HIDE DEF bytes, rest
  <2>4. QED
    BY <2>2, <2>3
<1>6. taken \in HostState /\ taken = [host EXCEPT !.input = taken.input]
  <2> HIDE DEF rest
  <2>1. QED
    BY <1>1, <1>5 DEF HostState
<1> HIDE DEF bytes, rest, taken
<1>7. CASE /\ Returns("SyscallError") /\ cpu' = Advanced
           /\ host' = taken /\ UNCHANGED memory
  <2>1. UNCHANGED <<regions, heapNext>> /\ fault' = [error |-> "SyscallError", pc |-> cpu.pc]
    BY <1>7 DEF memory, Returns
  <2>2. fault' \in FaultRecord /\ fault'.pc = cpu.pc
        /\ fault'.error \notin {"BudgetExhausted", "NotLoaded"}
    BY <2>1 DEF FaultRecord, TypeOK, CPUState, VMErrors
  <2>3. heapNext' \in Word /\ Evolves(regions, regions')
    BY <2>1, EvolvesUnchanged DEF TypeOK
  <2>4. QED
    BY <1>6, <1>7, <2>2, <2>3, AdvancedFacts DEF Effect, SpMoves, Precise
<1>8. CASE /\ ok /\ regions' = IF count = 0 THEN regions
                               ELSE Stored(regions, Reg(Arg2), bytes)
           /\ Done(SetReg(ReturnValue, count))
           /\ host' = taken /\ UNCHANGED heapNext
  <2>1. Evolves(regions, regions')
    <3>1. CASE count = 0
      BY <1>1, <1>8, <3>1, EvolvesUnchanged
    <3>2. CASE count # 0
      BY <1>1, <1>3, <1>5, <1>8, <3>2, StoredEvolves DEF Reachable
    <3>3. QED
      BY <3>1, <3>2
  <2>2. heapNext' \in Word
    BY <1>8 DEF TypeOK
  <2>3. QED
    BY <1>1, <1>3, <1>6, <1>8, <2>1, <2>2, SetRegFacts, DoneEffect
<1>9. QED
  BY <1>4, <1>7, <1>8, TrapEffect DEF VMErrors

\* The allocate system call moves the allocation pointer and answers in R14.
LEMMA AllocateEffect ==
  ASSUME TypeOK, NEW i \in Instruction, doAllocate(i)
  PROVE  Effect
<1>1. /\ Reg(Arg1) \in Word /\ ReturnValue \in Register /\ 0 \in Word
      /\ heapNext \in Word
  BY OperandFacts DEF TypeOK
<1>2. Bumped(heapNext, Reg(Arg1)) \in Word
  BY <1>1, RoundUpBounds, WordArithmetic DEF Bumped
<1>3. heapNext' \in Word
  BY <1>1, <1>2 DEF doAllocate
<1>4. PICK value \in Word : Done(SetReg(ReturnValue, value))
  BY <1>1 DEF doAllocate
<1>5. host' \in HostState /\ Evolves(regions, regions')
  BY EvolvesUnchanged DEF doAllocate, TypeOK
<1>6. QED
  BY <1>1, <1>3, <1>4, <1>5, SetRegFacts, DoneEffect

\* Every SYSCALL instruction has the effect the others have.
LEMMA SyscallEffect ==
  ASSUME TypeOK, NEW i \in Instruction, Syscall(i)
  PROVE  Effect
<1>1. CASE Exit(i)
  <2> DEFINE after == [Advanced EXCEPT !.halted = TRUE, !.exit_code = Reg(Arg1)]
  <2>1. /\ after \in CPUState /\ after.sp = cpu.sp
        /\ after.instruction_count = cpu.instruction_count + 1
    BY AdvancedFacts, OperandFacts DEF CPUState
  <2>2. Done(after) /\ UNCHANGED <<memory, host>>
    BY <1>1 DEF Exit
  <2> HIDE DEF after
  <2>3. QED
    BY <2>1, <2>2, QuietEffect
<1>2. CASE UnknownSyscall(i)
  BY <1>2, TrapEffect DEF UnknownSyscall, VMErrors
<1>3. QED
  BY <1>1, <1>2, WriteEffect, ReadEffect, AllocateEffect DEF Syscall

\* Whatever the instruction, its effect is an instruction's effect.
LEMMA ExecuteEffect ==
  ASSUME TypeOK, NEW i \in Instruction, Execute(i)
  PROVE  Effect
  BY SimpleEffect, AluEffect, LoadStoreEffect, StackEffect, SyscallEffect
     DEF Execute

-----------------------------------------------------------------------------
(***************************************************************************)
(* step().                                                                 *)
(***************************************************************************)
TraceRecord == [pc: Word, word: Word]

\* A call of step() that does not reach execute().
StepStays ==
  /\ Stays
  /\ fault' \in FaultRecord
  /\ fault'.error # "BudgetExhausted"
  /\ fault'.error # "None" => fault'.pc = cpu.pc
  /\ fault'.error = "None" => cpu.halted

\* step() either leaves the machine alone or has an instruction's effect.
LEMMA StepEffect ==
  ASSUME TypeOK, Step
  PROVE  /\ StepStays \/ (StepExecutes /\ Effect /\ trace' \in TraceRecord)
         /\ UNCHANGED <<loaded, image, loads>>
<1>1. UNCHANGED <<loaded, image, loads>>
  BY DEF Step
<1>2. cpu.pc \in Word /\ WellFormed(regions) /\ "Exec" \in Permission
  BY DEF TypeOK, CPUState, Permission
<1>3. ASSUME NEW e \in VMErrors \ {"None", "BudgetExhausted"}, Returns(e), Stays
      PROVE  StepStays
  BY <1>2, <1>3 DEF StepStays, Returns, FaultRecord
<1>4. CASE StepNotLoaded
  BY <1>1, <1>3, <1>4 DEF StepNotLoaded, VMErrors
<1>5. CASE StepHalted
  BY <1>1, <1>5, WordTypes DEF StepHalted, StepStays, NoFault, FaultRecord, VMErrors, Word
<1>6. CASE StepMisaligned
  BY <1>1, <1>3, <1>6 DEF StepMisaligned, VMErrors
<1>7. CASE StepFetchFault
  <2>1. FetchError \in VMErrors \ {"BudgetExhausted"}
    BY <1>2, AccessErrorFacts DEF FetchError, VMErrors
  <2>2. QED
    BY <1>1, <1>3, <1>7, <2>1 DEF StepFetchFault
<1>8. CASE StepUndecodable
  BY <1>1, <1>3, <1>8 DEF StepUndecodable, VMErrors
<1>9. CASE StepExecutes
  <2>1. FetchError = "None" /\ Decode(Fetched) # Undecodable
        /\ Execute(Decode(Fetched)) /\ trace' = [pc |-> cpu.pc, word |-> Fetched]
    BY <1>9 DEF StepExecutes
  <2>2. Fetched \in Word
    BY <1>2, <2>1, AccessErrorFacts, WordAtType DEF FetchError, Fetched
  <2>3. Decode(Fetched) \in Instruction
    BY <2>1, <2>2, IsaAssumption
  <2>4. Effect
    BY <2>1, <2>3, ExecuteEffect
  <2>5. QED
    BY <1>1, <1>2, <1>9, <2>1, <2>2, <2>4 DEF TraceRecord
<1>10. QED
  BY <1>1, <1>4, <1>5, <1>6, <1>7, <1>8, <1>9 DEF Step

-----------------------------------------------------------------------------
(***************************************************************************)
(* load().                                                                 *)
(***************************************************************************)
\* What addRegion() stores is a region with a byte for each address.
LEMMA MappingType ==
  ASSUME NEW name \in Name, NEW base \in Word, NEW size \in Word,
         NEW permissions \in SUBSET Permission, NEW initial \in Seq(Byte)
  PROVE  /\ Mapping(name, base, size, permissions, initial) \in Region
         /\ Len(Mapping(name, base, size, permissions, initial).data) =
              Mapping(name, base, size, permissions, initial).size
<1> DEFINE data == [k \in 1 .. size |->
                      IF k <= Len(initial) THEN initial[k] ELSE ZeroByte]
<1>1. size \in Nat
  BY WordTypes DEF Word
<1>2. data \in [1 .. size -> Byte]
  BY <1>1, MemoryAssumption
<1>3. data \in Seq(Byte) /\ Len(data) = size
  <2> HIDE DEF data
  <2>1. QED
    BY <1>1, <1>2
<1>4. Mapping(name, base, size, permissions, initial) =
        [name |-> name, base |-> base, size |-> size,
         permissions |-> permissions, data |-> data]
  BY DEF Mapping
<1> HIDE DEF data
<1>5. QED
  BY <1>3, <1>4 DEF Region

\* Layout lists the segments, the stack and the heap, in this order.
LEMMA LayoutSegments ==
  ASSUME NEW executable \in Executable
  PROVE  LET n == Len(executable.segments) IN
         /\ \A k \in 1 .. n :
              Layout(executable)[k] = SegmentMapping(executable.segments[k])
         /\ Layout(executable)[n + 1] = StackMapping
         /\ Layout(executable)[n + 2] = HeapMapping
         /\ Layout(executable) = [k \in 1 .. n + 2 |-> Layout(executable)[k]]
<1> DEFINE n == Len(executable.segments)
           mappings == [m \in 1 .. n |-> SegmentMapping(executable.segments[m])]
<1>1. n \in Nat
  BY DEF Executable
<1>2. Layout(executable) = mappings \o <<StackMapping, HeapMapping>>
  BY DEF Layout
<1>3. mappings \in Seq({SegmentMapping(executable.segments[m]) : m \in 1 .. n})
      /\ Len(mappings) = n
  BY <1>1
<1>4. \A k \in 1 .. n : Layout(executable)[k] = SegmentMapping(executable.segments[k])
  BY <1>1, <1>2, <1>3
<1> HIDE DEF mappings
<1>5. /\ Layout(executable)[n + 1] = StackMapping
      /\ Layout(executable)[n + 2] = HeapMapping
  BY <1>1, <1>2, <1>3, SMTT(30)
<1>6. Layout(executable) = [k \in 1 .. n + 2 |-> Layout(executable)[k]]
  BY <1>1, <1>2, <1>3
<1>7. QED
  BY <1>4, <1>5, <1>6

\* The regions load() asks for, one by one.
LEMMA LayoutType ==
  ASSUME NEW executable \in Executable,
         NEW k \in 1 .. Len(executable.segments) + 2
  PROVE  /\ Layout(executable)[k] \in Region
         /\ Len(Layout(executable)[k].data) = Layout(executable)[k].size
<1> DEFINE n == Len(executable.segments)
<1>1. executable.segments \in Seq(Segment) /\ n \in Nat
  BY DEF Executable
<1>2. /\ k <= n => Layout(executable)[k] = SegmentMapping(executable.segments[k])
      /\ k = n + 1 => Layout(executable)[k] = StackMapping
      /\ k = n + 2 => Layout(executable)[k] = HeapMapping
  BY <1>1, LayoutSegments
<1>3. CASE k <= n
  <2> DEFINE segment == executable.segments[k]
  <2>1. segment \in Segment
    BY <1>1, <1>3
  <2>2. Layout(executable)[k] = SegmentMapping(segment)
    BY <1>2, <1>3
  <2> HIDE DEF segment
  <2>3. permissionsOf(segment.flags) \in SUBSET Permission
    BY <2>1 DEF permissionsOf, Segment, Permission
  <2>4. /\ segment.name \in Name /\ segment.virtual_address \in Word
        /\ segment.virtual_size \in Word /\ segment.data \in Seq(Byte)
    BY <2>1 DEF Segment
  <2>5. /\ SegmentMapping(segment) \in Region
        /\ Len(SegmentMapping(segment).data) = SegmentMapping(segment).size
    BY <2>3, <2>4, MappingType DEF SegmentMapping
  <2>6. QED
    BY <2>2, <2>5
<1>4. CASE k = n + 1
  <2>1. StackLimit \in Word /\ StackSize \in Word /\ <<>> \in Seq(Byte)
    BY LayoutTypes, MachineAssumption, WordTypes DEF Word
  <2>2. {"Read", "Write"} \in SUBSET Permission /\ "stack" \in Name
    BY MemoryAssumption DEF Permission
  <2>3. /\ StackMapping \in Region
        /\ Len(StackMapping.data) = StackMapping.size
    BY <2>1, <2>2, MappingType DEF StackMapping
  <2>4. QED
    BY <1>2, <1>4, <2>3
<1>5. CASE k = n + 2
  <2>1. HeapBase \in Word /\ HeapSize \in Word /\ <<>> \in Seq(Byte)
    BY MachineAssumption
  <2>2. {"Read", "Write"} \in SUBSET Permission /\ "heap" \in Name
    BY MemoryAssumption DEF Permission
  <2>3. /\ HeapMapping \in Region
        /\ Len(HeapMapping.data) = HeapMapping.size
    BY <2>1, <2>2, MappingType DEF HeapMapping
  <2>4. QED
    BY <1>2, <1>5, <2>3
<1>6. QED
  BY <1>1, <1>3, <1>4, <1>5

\* However far load() gets, what it has mapped is well formed.
LEMMA MappedWellFormed ==
  ASSUME NEW executable \in Executable,
         NEW n \in 0 .. Len(executable.segments) + 2,
         \A m \in 0 .. n - 1 : MapsNext(executable, m),
         NEW mapped, DOMAIN mapped = 1 .. n,
         mapped = [k \in 1 .. n |-> Layout(executable)[k]]
  PROVE  WellFormed(mapped) /\ Len(mapped) = n
<1>1. Len(executable.segments) \in Nat
  BY DEF Executable
<1>2. ASSUME NEW k \in 1 .. n
      PROVE  /\ mapped[k] \in Region
             /\ mapped[k].size > 0
             /\ mapped[k].base + mapped[k].size < WordModulus
             /\ Len(mapped[k].data) = mapped[k].size
  <2>1. /\ mapped[k] = Layout(executable)[k] /\ k \in 1 .. Len(executable.segments) + 2
        /\ k - 1 \in 0 .. n - 1 /\ k - 1 + 1 = k
    BY <1>1
  <2>2. mapped[k] \in Region /\ Len(mapped[k].data) = mapped[k].size
    BY <2>1, LayoutType
  <2>3. MapsNext(executable, k - 1)
    BY <2>1
  <2>4. mapped[k].size # 0 /\ mapped[k].base <= MaxWord - mapped[k].size
    BY <2>1, <2>3 DEF MapsNext, CanMap
  <2>5. mapped[k].size \in Nat /\ mapped[k].base \in Nat
    BY <2>2, WordTypes DEF Region, Word
  <2>6. QED
    BY <2>2, <2>4, <2>5, WordTypes DEF MaxWord
<1>3. n \in Nat /\ mapped \in Seq(Region) /\ Len(mapped) = n
  <2>1. mapped \in [1 .. n -> Region] /\ n \in Nat
    BY <1>1, <1>2
  <2>2. QED
    BY <2>1
<1>4. QED
  BY <1>2, <1>3 DEF WellFormed

\* The allocation pointer starts at a region's base or at 0.
LEMMA HeapStartType ==
  ASSUME NEW mapped, WellFormed(mapped)
  PROVE  HeapStart(mapped) \in Word
<1> DEFINE n     == Len(mapped)
           heaps == {i \in DOMAIN mapped : mapped[i].name = "heap"}
           Last(i) == \A j \in heaps : j <= i
           gaps  == {n - i : i \in heaps}
<1>1. n \in Nat /\ DOMAIN mapped = 1 .. n
  BY DEF WellFormed
<1>2. CASE heaps = {}
  BY <1>2, WordTypes DEF HeapStart, Word
<1>3. CASE heaps # {}
  <2>1. gaps \subseteq Nat /\ gaps # {}
    BY <1>1, <1>3
  <2>2. PICK gap \in gaps : \A other \in gaps : gap <= other
    BY <2>1, LeastNumber
  <2>3. PICK i \in heaps : gap = n - i
    BY <2>2
  <2>4. ASSUME NEW j \in heaps PROVE j <= i
    <3>1. n - j \in gaps
      OBVIOUS
    <3>2. n - i <= n - j
      BY <2>2, <2>3, <3>1
    <3>3. QED
      BY <1>1, <3>2
  <2>5. (CHOOSE k \in heaps : Last(k)) \in heaps
    BY <2>3, <2>4
  <2>6. HeapStart(mapped) = mapped[CHOOSE k \in heaps : Last(k)].base
    BY <1>3 DEF HeapStart
  <2>7. \A k \in heaps : mapped[k].base \in Word
    BY RegionTypes DEF Region
  <2>8. QED
    BY <2>5, <2>6, <2>7
<1>4. QED
  BY <1>2, <1>3

-----------------------------------------------------------------------------
(***************************************************************************)
(* The type invariant.                                                     *)
(***************************************************************************)
ResultRecord == [error: VMErrors, exit_code: Word, instructions: Nat, pc: Word]
CallRecord   == [running: BOOLEAN, budget: Nat, executed: Nat, start: Nat]

\* The records the machine starts with and returns to have their types.
LEMMA InitialRecords ==
  /\ PowerOn \in CPUState
  /\ NoCall \in CallRecord /\ NoFault \in FaultRecord /\ NoResult \in ResultRecord
  /\ 0 \in Word
<1>1. 0 \in Word
  BY WordTypes DEF Word
<1>2. PowerOn \in CPUState
  BY <1>1, MachineAssumption DEF PowerOn, CPUState
<1>3. QED
  BY <1>1, <1>2 DEF NoCall, CallRecord, NoFault, FaultRecord, NoResult,
                    ResultRecord, VMErrors

\* TypeOK, with the abbreviations above for its records.
Typed ==
  /\ WellFormed(regions) /\ heapNext \in Word /\ cpu \in CPUState
  /\ loaded \in BOOLEAN /\ host \in HostState /\ call \in CallRecord
  /\ fault \in FaultRecord /\ result \in ResultRecord
  /\ trace \in TraceRecord \cup {NoTrace}
  /\ (image = NoImage \/ image \in Executable) /\ loads \in Nat

\* TypeOK field by field, in the form the provers use.
LEMMA TypeOKRecords == (TypeOK <=> Typed) /\ (TypeOK' <=> Typed')
  BY DEF TypeOK, Typed, CallRecord, FaultRecord, ResultRecord, TraceRecord

\* The machine starts with its type.
LEMMA InitType == Init => TypeOK
<1> SUFFICES ASSUME Init PROVE TypeOK
  OBVIOUS
<1>1. WellFormed(regions)
  BY DEF Init, WellFormed
<1>2. host \in HostState
  <2>1. Inputs \subseteq Seq(Byte) /\ {<<>>} \subseteq Seq(Byte)
    BY MachineAssumption
  <2>2. host \in [input: Inputs, output: {<<>>}, error_output: {<<>>}]
    BY DEF Init
  <2> DEFINE bytes == Seq(Byte)
             empty == {<<>>}
  <2> HIDE DEF bytes, empty
  <2>3. host \in [input: bytes, output: bytes, error_output: bytes]
    <3>1. Inputs \subseteq bytes /\ empty \subseteq bytes
      BY <2>1 DEF bytes, empty
    <3>2. host \in [input: Inputs, output: empty, error_output: empty]
      BY <2>2 DEF empty
    <3>3. QED
      BY <3>1, <3>2
  <2>4. QED
    BY <2>3 DEF HostState, bytes
<1>3. QED
  BY <1>1, <1>2, InitialRecords, TypeOKRecords DEF Typed, Init

\* step() keeps the types of what it may change.
LEMMA StepType ==
  ASSUME TypeOK, Step
  PROVE  /\ WellFormed(regions') /\ heapNext' \in Word /\ cpu' \in CPUState
         /\ host' \in HostState /\ fault' \in FaultRecord
         /\ trace' \in TraceRecord \cup {NoTrace}
         /\ UNCHANGED <<loaded, image, loads>>
<1>1. CASE StepStays
  BY <1>1, StepEffect, TypeOKRecords DEF Typed, StepStays, Stays, memory
<1>2. CASE Effect /\ trace' \in TraceRecord
  BY <1>2, StepEffect DEF Effect, Evolves
<1>3. QED
  BY <1>1, <1>2, StepEffect

\* load() keeps the types, however it ends.
LEMMA LoadType ==
  ASSUME TypeOK, LoadCall
  PROVE  TypeOK'
<1>1. loads' \in Nat
  BY DEF LoadCall, TypeOK
<1>2. PICK executable \in Images : \/ LoadRejected(executable)
                                   \/ LoadUnmappable(executable)
                                   \/ LoadCompletes(executable)
  BY DEF LoadCall
<1>3. executable \in Executable /\ Len(executable.segments) \in Nat
  BY MachineAssumption DEF Executable
<1>4. CASE LoadRejected(executable)
  BY <1>1, <1>4 DEF LoadRejected, TypeOK, memory
<1>5. CASE LoadUnmappable(executable)
  <2>1. PICK n \in 0 .. Len(executable.segments) + 1 :
          /\ \A m \in 0 .. n - 1 : MapsNext(executable, m)
          /\ regions' = [k \in 1 .. n |-> Layout(executable)[k]]
    BY <1>5 DEF LoadUnmappable, FirstMappings
  <2>2. WellFormed(regions')
    BY <1>3, <2>1, MappedWellFormed
  <2>3. heapNext' \in Word
    BY <1>5, <2>2, HeapStartType DEF LoadUnmappable
  <2>4. QED
    BY <1>1, <1>3, <1>5, <2>2, <2>3, InitialRecords, TypeOKRecords
       DEF Typed, LoadUnmappable
<1>6. CASE LoadCompletes(executable)
  <2> DEFINE n == Len(executable.segments) + 2
  <2>1. /\ \A m \in 0 .. n - 1 : MapsNext(executable, m)
        /\ regions' = Layout(executable)
    BY <1>3, <1>6 DEF LoadCompletes
  <2>2. Layout(executable) = [k \in 1 .. n |-> Layout(executable)[k]]
    BY <1>3, LayoutSegments
  <2>3. WellFormed(regions')
    BY <1>3, <2>1, <2>2, MappedWellFormed
  <2>4. heapNext' \in Word
    BY <1>6, <2>3, HeapStartType DEF LoadCompletes
  <2>5. cpu' \in CPUState
    <3>1. executable.entry_point \in Word /\ StackTop \in Word
      BY <1>3, MachineAssumption DEF Executable
    <3>2. QED
      BY <1>6, <3>1, InitialRecords DEF LoadCompletes, Reset, CPUState
  <2>6. QED
    BY <1>1, <1>3, <1>6, <2>3, <2>4, <2>5, InitialRecords, TypeOKRecords
       DEF Typed, LoadCompletes
<1>7. QED
  BY <1>2, <1>4, <1>5, <1>6

\* Every action keeps the types.
LEMMA NextType == TypeOK /\ [Next]_vars => TypeOK'
<1> SUFFICES ASSUME TypeOK, [Next]_vars PROVE TypeOK'
  OBVIOUS
<1>1. CASE LoadCall
  BY <1>1, LoadType
<1>2. CASE StepCall
  <2>1. Step /\ UNCHANGED <<call, result>>
    BY <1>2 DEF StepCall
  <2>2. QED
    BY <2>1, StepType, TypeOKRecords DEF Typed
<1>3. CASE RunNotLoaded
  <2>1. result' \in ResultRecord
    BY <1>3, InitialRecords DEF RunNotLoaded, ResultRecord, VMErrors
  <2>2. QED
    BY <1>3, <2>1, TypeOKRecords DEF Typed, RunNotLoaded, memory
<1>4. CASE \E budget \in Budgets : RunCall(budget)
  <2>1. call' \in CallRecord /\ fault' \in FaultRecord
    BY <1>4, MachineAssumption, InitialRecords
       DEF RunCall, CallRecord, TypeOK, CPUState
  <2>2. QED
    BY <1>4, <2>1, TypeOKRecords DEF Typed, RunCall, memory
<1>5. CASE RunIterate
  <2>1. Step
    BY <1>5 DEF RunIterate
  <2>2. call' \in CallRecord
    <3>1. [call EXCEPT !.executed = call.executed + 1] \in CallRecord
      BY DEF TypeOK, CallRecord
    <3>2. QED
      BY <1>5, <3>1, InitialRecords DEF RunIterate, RunCharges, RunFaults
  <2>3. result' \in ResultRecord
    BY <1>5, <2>1, StepType, InitialRecords, TypeOKRecords
       DEF Typed, RunIterate, RunCharges, RunFaults, ResultRecord, FaultRecord, CPUState
  <2>4. QED
    BY <2>1, <2>2, <2>3, StepType, TypeOKRecords DEF Typed
<1>6. CASE RunExhausted \/ RunHalted
  <2>1. PICK error \in VMErrors, code \in Word : RunReturns(error, code)
    BY <1>6, InitialRecords DEF RunExhausted, RunHalted, VMErrors, TypeOK, CPUState
  <2>2. result' \in ResultRecord /\ call' \in CallRecord
    BY <2>1, InitialRecords DEF RunReturns, ResultRecord, TypeOK, CPUState
  <2>3. QED
    BY <2>1, <2>2, TypeOKRecords DEF Typed, RunReturns, memory
<1>7. CASE UNCHANGED vars
  BY <1>7 DEF vars, TypeOK
<1>8. QED
  BY <1>1, <1>2, <1>3, <1>4, <1>5, <1>6, <1>7 DEF Next, ClientCalls, RunLoop

\* The machine keeps its types through every sequence of loads, steps and runs:
\* no operation of vm.cpp, memory.cpp or syscall.cpp leaves the address space,
\* the CPU or what it returns malformed, whatever the image and its code do.
THEOREM TypeCorrect == Spec => []TypeOK
<1>1. Init => TypeOK
  BY InitType
<1>2. TypeOK /\ [Next]_vars => TypeOK'
  BY NextType
<1>3. QED
  BY <1>1, <1>2, PTL DEF Spec

-----------------------------------------------------------------------------
(***************************************************************************)
(* The stack.  StackDiscipline is inductive on its own, given the types.   *)
(***************************************************************************)

\* A move of SP that push() or pop() makes stays on the stack.
LEMMA SpMovesStay ==
  ASSUME TypeOK, StackDiscipline, loaded, SpMoves
  PROVE  /\ cpu'.sp \in StackLimit .. StackTop
         /\ (StackTop - cpu'.sp) % WordSize = 0
<1>1. /\ StackTop \in Nat /\ StackLimit \in Nat /\ StackTop < WordModulus
      /\ StackTop % WordSize = 0
  BY LayoutTypes
<1>2. /\ cpu.sp \in StackLimit .. StackTop /\ cpu.sp \in Nat
      /\ (StackTop - cpu.sp) % WordSize = 0
  BY <1>1 DEF StackDiscipline
<1>3. cpu.sp % WordSize = 0
  <2> DEFINE used == StackTop - cpu.sp
  <2>1. used \in Int /\ used % WordSize = 0 /\ StackTop - used = cpu.sp
    BY <1>1, <1>2
  <2> HIDE DEF used
  <2>2. (StackTop - used) % WordSize = 0
    BY <1>1, <2>1, AlignedSums
  <2>3. QED
    BY <2>1, <2>2
<1> DEFINE sp == cpu.sp
<1>4. /\ sp \in Int /\ sp % WordSize = 0 /\ StackTop \in Int /\ WordSize \in Int
      /\ WordSize % WordSize = 0
  BY <1>1, <1>2, <1>3, WordTypes, WordSizeAligned
<1>5. (sp - WordSize) % WordSize = 0 /\ (sp + WordSize) % WordSize = 0
  <2> HIDE DEF sp
  <2>1. QED
    BY <1>4, AlignedSums
<1>6. ASSUME NEW p \in Int, p % WordSize = 0
      PROVE  (StackTop - p) % WordSize = 0
  BY <1>1, <1>4, <1>6, AlignedSums
<1>7. CASE cpu'.sp = cpu.sp
  BY <1>2, <1>7
<1>8. CASE cpu.sp >= StackLimit + WordSize /\ cpu'.sp = cpu.sp - WordSize
  <2>1. cpu'.sp \in StackLimit .. StackTop
    BY <1>1, <1>2, <1>8, WordTypes
  <2>2. cpu'.sp % WordSize = 0
    BY <1>8, <1>5
  <2>3. cpu'.sp \in Int
    BY <1>1, <2>1
  <2>4. QED
    BY <1>6, <2>1, <2>2, <2>3
<1>9. CASE cpu.sp < StackTop /\ cpu'.sp = Add(cpu.sp, WordSize)
  <2>1. cpu.sp + WordSize <= StackTop
    BY <1>1, <1>2, <1>3, <1>9, AlignedGap
  <2>2. cpu'.sp = cpu.sp + WordSize /\ cpu'.sp \in StackLimit .. StackTop
    BY <1>1, <1>2, <1>9, <2>1, WordTypes DEF Add
  <2>3. cpu'.sp % WordSize = 0
    BY <1>5, <2>2
  <2>4. cpu'.sp \in Int
    BY <1>1, <2>2
  <2>5. QED
    BY <1>6, <2>2, <2>3, <2>4
<1>10. QED
  BY <1>7, <1>8, <1>9 DEF SpMoves

\* step() keeps SP inside the stack.
LEMMA StepStack ==
  ASSUME TypeOK, StackDiscipline, Step
  PROVE  StackDiscipline'
<1>1. UNCHANGED loaded
  BY StepEffect
<1>2. CASE StepStays
  BY <1>1, <1>2 DEF StepStays, Stays, StackDiscipline
<1>3. CASE Effect
  BY <1>1, <1>3, SpMovesStay DEF Effect, StackDiscipline
<1>4. QED
  BY <1>2, <1>3, StepEffect

\* Every call keeps SP inside the stack.
LEMMA NextStack == TypeOK /\ StackDiscipline /\ [Next]_vars => StackDiscipline'
<1> SUFFICES ASSUME TypeOK, StackDiscipline, [Next]_vars PROVE StackDiscipline'
  OBVIOUS
<1>1. CASE UNCHANGED <<cpu, loaded>>
  BY <1>1 DEF StackDiscipline
<1>2. CASE LoadCall
  <2>1. CASE \E executable \in Images : LoadCompletes(executable)
    <3>1. cpu'.sp = StackTop
      BY <2>1 DEF LoadCompletes, Reset, PowerOn
    <3>2. StackTop \in StackLimit .. StackTop /\ (StackTop - StackTop) % WordSize = 0
      BY LayoutTypes, AlignedSums, WordTypes
    <3>3. QED
      BY <3>1, <3>2 DEF StackDiscipline
  <2>2. QED
    BY <1>1, <1>2, <2>1 DEF LoadCall, LoadRejected, LoadUnmappable
<1>3. CASE StepCall \/ RunIterate
  BY <1>3, StepStack DEF StepCall, RunIterate
<1>4. QED
  BY <1>1, <1>2, <1>3
     DEF Next, ClientCalls, RunLoop, RunNotLoaded, RunCall, RunExhausted,
         RunHalted, RunReturns, vars

\* However a program pushes, pops, calls and returns, and however often it is
\* stepped past a fault, SP stays between the limit and the top of the stack and
\* on a word boundary: no slot of the stack is ever split.
THEOREM StackIsKept == Spec => []StackDiscipline
<1>1. Init => StackDiscipline
  BY DEF Init, StackDiscipline
<1>2. QED
  BY <1>1, TypeCorrect, NextStack, PTL DEF Spec

-----------------------------------------------------------------------------
(***************************************************************************)
(* run().  While it loops a program is loaded, which BudgetAccounting does *)
(* not say and what run() reports of a fault needs.                        *)
(***************************************************************************)
RunInv ==
  call.running => /\ cpu.instruction_count = call.start + call.executed
                  /\ call.executed <= call.budget
                  /\ loaded

\* Every call keeps the books of run().
LEMMA NextRun == TypeOK /\ RunInv /\ [Next]_vars => RunInv'
<1> SUFFICES ASSUME TypeOK, RunInv, [Next]_vars PROVE RunInv'
  OBVIOUS
<1>1. CASE UNCHANGED <<call, cpu, loaded>>
  BY <1>1 DEF RunInv
<1>2. CASE LoadCall \/ StepCall \/ RunNotLoaded
  <2>1. ~call.running /\ UNCHANGED call
    BY <1>2 DEF LoadCall, LoadRejected, LoadUnmappable, LoadCompletes, StepCall,
                RunNotLoaded
  <2>2. QED
    BY <2>1 DEF RunInv
<1>3. CASE \E budget \in Budgets : RunCall(budget)
  <2>1. PICK budget \in Budgets : RunCall(budget)
    BY <1>3
  <2>2. /\ budget \in Nat /\ cpu.instruction_count \in Nat
        /\ loaded' /\ UNCHANGED cpu
        /\ call' = [running |-> TRUE, budget |-> budget, executed |-> 0,
                    start |-> cpu.instruction_count]
    BY <2>1, MachineAssumption DEF RunCall, TypeOK, CPUState
  <2>3. QED
    BY <2>2 DEF RunInv
<1>4. CASE RunIterate
  <2>1. CASE fault'.error # "None"
    BY <1>4, <2>1 DEF RunIterate, RunFaults, NoCall, RunInv
  <2>2. CASE fault'.error = "None"
    <3>1. /\ Step /\ ~cpu.halted /\ call.running /\ call.executed < call.budget
          /\ call' = [call EXCEPT !.executed = call.executed + 1]
      BY <1>4, <2>2 DEF RunIterate, RunCharges
    <3>2. Effect /\ UNCHANGED loaded
      BY <2>2, <3>1, StepEffect DEF StepStays
    <3>3. /\ cpu.instruction_count \in Nat /\ call.executed \in Nat
          /\ call.budget \in Nat /\ call.start \in Nat
      BY DEF TypeOK, CPUState
    <3>4. /\ call'.executed = call.executed + 1 /\ call'.start = call.start
          /\ call'.budget = call.budget
      BY <3>1 DEF TypeOK
    <3>5. QED
      BY <2>2, <3>1, <3>2, <3>3, <3>4 DEF RunInv, Effect
  <2>3. QED
    BY <2>1, <2>2
<1>5. CASE RunExhausted \/ RunHalted
  BY <1>5 DEF RunExhausted, RunHalted, RunReturns, NoCall, RunInv
<1>6. QED
  BY <1>1, <1>2, <1>3, <1>4, <1>5 DEF Next, ClientCalls, RunLoop, vars

\* The books of run() hold in every reachable state.
LEMMA RunInvariant == Spec => []RunInv
<1>1. Init => RunInv
  BY DEF Init, NoCall, RunInv
<1>2. QED
  BY <1>1, TypeCorrect, NextRun, PTL DEF Spec

\* The budget of run() is charged exactly one unit per instruction executed,
\* whatever the instruction, and is never overdrawn.
THEOREM BudgetIsKept == Spec => []BudgetAccounting
<1>1. RunInv => BudgetAccounting
  BY DEF RunInv, BudgetAccounting
<1>2. QED
  BY <1>1, RunInvariant, PTL

-----------------------------------------------------------------------------
(***************************************************************************)
(* Faults.                                                                 *)
(***************************************************************************)
\* Every step that fails has left all but the PC, the count and the input.
LEMMA NextPrecise ==
  ASSUME TypeOK, [Next]_vars, fault'.error # "None"
  PROVE  /\ fault'.pc = cpu.pc \/ fault' = fault
         /\ cpu' = [cpu EXCEPT !.pc = cpu'.pc,
                               !.instruction_count = cpu'.instruction_count]
         /\ UNCHANGED <<regions, heapNext>>
         /\ host' = [host EXCEPT !.input = host'.input]
<1>1. cpu \in CPUState /\ host \in HostState
  BY DEF TypeOK
<1>2. ASSUME UNCHANGED cpu
      PROVE  cpu' = [cpu EXCEPT !.pc = cpu'.pc,
                                !.instruction_count = cpu'.instruction_count]
  BY <1>1, <1>2 DEF CPUState
<1>3. ASSUME UNCHANGED host
      PROVE  host' = [host EXCEPT !.input = host'.input]
  BY <1>1, <1>3 DEF HostState
<1>4. CASE UNCHANGED <<fault, cpu, regions, heapNext, host>>
  BY <1>2, <1>3, <1>4
<1>5. CASE Step
  <2>1. CASE StepStays
    BY <1>2, <1>3, <2>1 DEF StepStays, Stays, memory
  <2>2. CASE Effect
    <3>1. /\ fault'.pc = cpu.pc /\ cpu' = Advanced /\ UNCHANGED <<regions, heapNext>>
          /\ host' = [host EXCEPT !.input = host'.input]
      BY <2>2 DEF Effect, Precise, memory
    <3>2. Advanced = [cpu EXCEPT !.pc = Advanced.pc,
                                 !.instruction_count = Advanced.instruction_count]
      BY <1>1 DEF Advanced, CPUState
    <3>3. QED
      BY <3>1, <3>2
  <2>3. QED
    BY <1>5, <2>1, <2>2, StepEffect
<1>6. CASE LoadCall
  <2>1. PICK executable \in Images : \/ LoadRejected(executable)
                                     \/ LoadUnmappable(executable)
                                     \/ LoadCompletes(executable)
    BY <1>6 DEF LoadCall
  <2>2. LoadRejected(executable)
    BY <2>1 DEF LoadUnmappable, LoadCompletes, NoFault
  <2>3. QED
    BY <1>4, <2>2 DEF LoadRejected, memory
<1>7. CASE \E budget \in Budgets : RunCall(budget)
  BY <1>7 DEF RunCall, NoFault
<1>8. QED
  BY <1>4, <1>5, <1>6, <1>7
     DEF Next, ClientCalls, RunLoop, StepCall, RunIterate, RunNotLoaded,
         RunExhausted, RunHalted, RunReturns, memory, vars

\* No instruction that faults has had half of its effect: registers, flags, SP,
\* memory and output are as they were, and the fault names its address.  (A read
\* system call may have consumed input.)
THEOREM FaultsAreAlwaysPrecise == Spec => FaultsArePrecise
<1>1. TypeOK /\ [Next]_vars =>
        [fault'.error # "None" =>
           /\ fault'.pc = cpu.pc \/ fault' = fault
           /\ cpu' = [cpu EXCEPT !.pc = cpu'.pc,
                                 !.instruction_count = cpu'.instruction_count]
           /\ UNCHANGED <<regions, heapNext>>
           /\ host' = [host EXCEPT !.input = host'.input]]_vars
  BY NextPrecise
<1>2. QED
  BY <1>1, TypeCorrect, PTL DEF Spec, FaultsArePrecise

-----------------------------------------------------------------------------
(***************************************************************************)
(* The address space.  ImageInv says how the regions relate to the image   *)
(* they were mapped from: each is the mapping load() asked for, except for *)
(* the bytes of those that may be written.                                 *)
(***************************************************************************)
SameMapping(region, mapping) ==
  /\ region.name = mapping.name
  /\ region.base = mapping.base
  /\ region.size = mapping.size
  /\ region.permissions = mapping.permissions
  /\ "Write" \notin mapping.permissions => region.data = mapping.data

ImageInv ==
  /\ image = NoImage => regions = <<>> /\ trace = NoTrace
  /\ image # NoImage =>
       /\ image \in Executable
       /\ validate(image)
       /\ Len(image.segments) <= Len(regions)
       /\ Len(regions) <= Len(image.segments) + 2
       /\ \A k \in 1 .. Len(regions) : SameMapping(regions[k], Layout(image)[k])

\* The first segments of a validated image can be mapped one after another.
LEMMA SegmentsMap ==
  ASSUME NEW executable \in Executable, validate(executable),
         NEW n \in 0 .. Len(executable.segments) - 1
  PROVE  MapsNext(executable, n)
<1> DEFINE segments == executable.segments
           total == Len(segments)
           next  == segments[n + 1]
<1>1. /\ segments \in Seq(Segment) /\ total \in Nat /\ n + 1 \in 1 .. total
      /\ n \in Nat /\ n < total
  BY DEF Executable
<1>2. SegmentWellFormed(next)
  BY <1>1 DEF validate
<1>3. \A i \in 1 .. n : ~SegmentsOverlap(segments[i], next)
  BY <1>1 DEF validate
<1>4. \A k \in 1 .. total : Layout(executable)[k] = SegmentMapping(segments[k])
  BY <1>1, LayoutSegments
<1>5. \A k \in 1 .. total : /\ SegmentMapping(segments[k]).base = segments[k].virtual_address
                            /\ SegmentMapping(segments[k]).size = segments[k].virtual_size
  BY DEF SegmentMapping, Mapping
<1>6. /\ Layout(executable)[n + 1].base = next.virtual_address
      /\ Layout(executable)[n + 1].size = next.virtual_size
  BY <1>1, <1>4, <1>5
<1>7. ASSUME NEW i \in 1 .. n
      PROVE  /\ FirstMappings(executable, n)[i].base = segments[i].virtual_address
             /\ FirstMappings(executable, n)[i].size = segments[i].virtual_size
  <2>1. i \in 1 .. total
    BY <1>1
  <2>2. QED
    BY <1>4, <1>5, <2>1 DEF FirstMappings
<1>8. DOMAIN FirstMappings(executable, n) = 1 .. n
  BY DEF FirstMappings
<1> HIDE DEF segments
<1>9. \A i \in 1 .. n : ~(next.virtual_address < Add(segments[i].virtual_address, segments[i].virtual_size)
                          /\ segments[i].virtual_address < Add(next.virtual_address, next.virtual_size))
  BY <1>3 DEF SegmentsOverlap
<1> HIDE DEF next
<1>10. CanMap(FirstMappings(executable, n), next.virtual_address, next.virtual_size)
  BY <1>2, <1>7, <1>8, <1>9 DEF CanMap, SegmentWellFormed
<1>11. QED
  BY <1>6, <1>10 DEF MapsNext

\* load() establishes ImageInv, however far it gets.
LEMMA LoadImage ==
  ASSUME ImageInv, LoadCall
  PROVE  ImageInv'
<1>1. PICK executable \in Images : \/ LoadRejected(executable)
                                   \/ LoadUnmappable(executable)
                                   \/ LoadCompletes(executable)
  BY DEF LoadCall
<1>2. /\ executable \in Executable /\ Len(executable.segments) \in Nat
      /\ executable # NoImage
  BY MachineAssumption DEF Executable
<1>3. CASE LoadRejected(executable)
  BY <1>3 DEF LoadRejected, ImageInv, memory
<1>4. CASE LoadUnmappable(executable)
  <2>1. PICK n \in 0 .. Len(executable.segments) + 1 :
          /\ ~MapsNext(executable, n)
          /\ regions' = [k \in 1 .. n |-> Layout(executable)[k]]
    BY <1>4 DEF LoadUnmappable, FirstMappings
  <2>2. validate(executable) /\ image' = executable
    BY <1>4 DEF LoadUnmappable
  <2>3. Len(executable.segments) <= n /\ n \in Nat
    BY <1>2, <2>1, <2>2, SegmentsMap
  <2>4. Len(regions') = n
    BY <2>1, <2>3
  <2>5. \A k \in 1 .. Len(regions') : SameMapping(regions'[k], Layout(executable)[k])
    BY <2>1, <2>4 DEF SameMapping
  <2>6. QED
    BY <1>2, <2>1, <2>2, <2>3, <2>4, <2>5 DEF ImageInv
<1>5. CASE LoadCompletes(executable)
  <2> DEFINE n == Len(executable.segments) + 2
  <2>1. regions' = Layout(executable) /\ validate(executable) /\ image' = executable
    BY <1>5 DEF LoadCompletes
  <2>2. regions' = [k \in 1 .. n |-> Layout(executable)[k]]
    BY <1>2, <2>1, LayoutSegments
  <2>3. Len(regions') = n
    BY <1>2, <2>2
  <2>4. \A k \in 1 .. Len(regions') : SameMapping(regions'[k], Layout(executable)[k])
    BY <2>1 DEF SameMapping
  <2>5. QED
    BY <1>2, <2>1, <2>3, <2>4 DEF ImageInv
<1>6. QED
  BY <1>1, <1>3, <1>4, <1>5

\* An instruction leaves the regions what they were mapped as.
LEMMA StepImage ==
  ASSUME TypeOK, ImageInv, Step
  PROVE  ImageInv'
<1>1. UNCHANGED image
  BY StepEffect
<1>2. CASE StepStays
  BY <1>1, <1>2 DEF StepStays, Stays, memory, ImageInv
<1>3. CASE StepExecutes /\ Effect
  <2>1. image # NoImage
    <3>1. SUFFICES ASSUME image = NoImage PROVE FALSE
      OBVIOUS
    <3>2. regions = <<>>
      BY <3>1 DEF ImageInv
    <3>3. regionAt(regions, cpu.pc) = NoRegion
      BY <3>2 DEF regionAt
    <3>4. FetchError = faultFromMemory("Unmapped", cpu.pc)
      BY <3>3 DEF FetchError, AccessError, checkAccess
    <3>5. FetchError # "None"
      BY <3>4 DEF faultFromMemory
    <3>6. QED
      BY <1>3, <3>5 DEF StepExecutes
  <2>2. /\ Len(regions') = Len(regions)
        /\ \A k \in 1 .. Len(regions) :
             /\ regions'[k].name = regions[k].name
             /\ regions'[k].base = regions[k].base
             /\ regions'[k].size = regions[k].size
             /\ regions'[k].permissions = regions[k].permissions
             /\ "Write" \notin regions[k].permissions => regions'[k].data = regions[k].data
    BY <1>3 DEF Effect, Evolves
  <2>3. QED
    BY <1>1, <2>1, <2>2 DEF ImageInv, SameMapping
<1>4. QED
  BY <1>2, <1>3, StepEffect

\* Every call keeps the mapped regions those of the image.
LEMMA NextImage == TypeOK /\ ImageInv /\ [Next]_vars => ImageInv'
<1> SUFFICES ASSUME TypeOK, ImageInv, [Next]_vars PROVE ImageInv'
  OBVIOUS
<1>1. CASE UNCHANGED <<regions, image, trace>>
  BY <1>1 DEF ImageInv
<1>2. CASE LoadCall
  BY <1>2, LoadImage
<1>3. CASE StepCall \/ RunIterate
  BY <1>3, StepImage DEF StepCall, RunIterate
<1>4. QED
  BY <1>1, <1>2, <1>3
     DEF Next, ClientCalls, RunLoop, RunNotLoaded, RunCall, RunExhausted,
         RunHalted, RunReturns, memory, vars

\* The mapped regions are those of the image in every reachable state.
LEMMA ImageInvariant == Spec => []ImageInv
<1>1. Init => ImageInv
  BY DEF Init, ImageInv
<1>2. QED
  BY <1>1, TypeCorrect, NextImage, PTL DEF Spec

\* A segment that validate() accepts is never refused by the address space, so
\* an image that passes it always has all of its segments mapped.
THEOREM ValidatedSegmentsAlwaysMap == Spec => []ValidatedSegmentsMap
<1>1. TypeOK /\ ImageInv => ValidatedSegmentsMap
  BY DEF ImageInv, ValidatedSegmentsMap, TypeOK, WellFormed, Executable
<1>2. QED
  BY <1>1, TypeCorrect, ImageInvariant, PTL

-----------------------------------------------------------------------------
(***************************************************************************)
(* Disjointness.                                                           *)
(***************************************************************************)
Apart(a, b) == a.base + a.size <= b.base \/ b.base + b.size <= a.base

AllApart(mapped) ==
  \A i, j \in DOMAIN mapped : i # j => Apart(mapped[i], mapped[j])

\* Regions that addRegion() accepted one after another are apart.
LEMMA MappedApart ==
  ASSUME NEW executable \in Executable,
         NEW n \in 0 .. Len(executable.segments) + 2,
         \A m \in 0 .. n - 1 : MapsNext(executable, m),
         NEW mapped, DOMAIN mapped = 1 .. n,
         mapped = [k \in 1 .. n |-> Layout(executable)[k]]
  PROVE  AllApart(mapped)
<1>1. WellFormed(mapped) /\ Len(executable.segments) \in Nat /\ n \in Nat
  <2>1. Len(executable.segments) \in Nat
    BY DEF Executable
  <2>2. WellFormed(mapped)
    BY MappedWellFormed
  <2>3. QED
    BY <2>1, <2>2
<1>2. ASSUME NEW i \in 1 .. n, NEW j \in 1 .. n, i < j
      PROVE  Apart(mapped[i], mapped[j])
  <2>1. /\ mapped[i].base \in Nat /\ mapped[i].size \in Nat
        /\ mapped[j].base \in Nat /\ mapped[j].size \in Nat
        /\ mapped[i].base + mapped[i].size < WordModulus
        /\ mapped[j].base + mapped[j].size < WordModulus
    BY <1>1, RegionTypes
  <2>2. j - 1 \in 0 .. n - 1 /\ j - 1 + 1 = j /\ i \in 1 .. j - 1
    BY <1>1, <1>2
  <2>3. MapsNext(executable, j - 1)
    BY <2>2
  <2>4. Layout(executable)[j - 1 + 1] = mapped[j]
    BY <2>2
  <2>5. CanMap(FirstMappings(executable, j - 1), mapped[j].base, mapped[j].size)
    BY <2>3, <2>4 DEF MapsNext
  <2>6. i \in DOMAIN FirstMappings(executable, j - 1)
        /\ FirstMappings(executable, j - 1)[i] = mapped[i]
    BY <2>2 DEF FirstMappings
  <2>7. ~ /\ mapped[j].base < Add(mapped[i].base, mapped[i].size)
          /\ mapped[i].base < Add(mapped[j].base, mapped[j].size)
    BY <2>5, <2>6 DEF CanMap
  <2>8. QED
    BY <2>1, <2>7, WordTypes, SMTT(30) DEF Add, Apart
<1>3. ASSUME NEW i \in 1 .. n, NEW j \in 1 .. n, i # j
      PROVE  Apart(mapped[i], mapped[j])
  <2>1. i < j \/ j < i
    BY <1>1, <1>3
  <2>2. QED
    BY <1>2, <2>1 DEF Apart
<1>4. \A i, j \in 1 .. n : i # j => Apart(mapped[i], mapped[j])
  BY <1>3
<1>5. QED
  BY <1>4 DEF AllApart

\* Every call keeps the regions apart.
LEMMA NextApart == TypeOK /\ RegionsDisjoint /\ [Next]_vars => RegionsDisjoint'
<1> SUFFICES ASSUME TypeOK, RegionsDisjoint, [Next]_vars PROVE RegionsDisjoint'
  OBVIOUS
<1>1. CASE UNCHANGED regions
  BY <1>1 DEF RegionsDisjoint
<1>2. CASE LoadCall
  <2>1. PICK executable \in Images : \/ LoadRejected(executable)
                                     \/ LoadUnmappable(executable)
                                     \/ LoadCompletes(executable)
    BY <1>2 DEF LoadCall
  <2>2. executable \in Executable /\ Len(executable.segments) \in Nat
    BY MachineAssumption DEF Executable
  <2>3. CASE LoadRejected(executable)
    BY <1>1, <2>3 DEF LoadRejected, memory
  <2>4. CASE LoadUnmappable(executable)
    <3>1. PICK n \in 0 .. Len(executable.segments) + 1 :
            /\ \A m \in 0 .. n - 1 : MapsNext(executable, m)
            /\ regions' = [k \in 1 .. n |-> Layout(executable)[k]]
      BY <2>4 DEF LoadUnmappable, FirstMappings
    <3>2. AllApart(regions')
      BY <2>2, <3>1, MappedApart
    <3>3. QED
      BY <3>2 DEF RegionsDisjoint, AllApart, Apart
  <2>5. CASE LoadCompletes(executable)
    <3> DEFINE n == Len(executable.segments) + 2
    <3>1. /\ \A m \in 0 .. n - 1 : MapsNext(executable, m)
          /\ regions' = Layout(executable)
      BY <2>2, <2>5 DEF LoadCompletes
    <3>2. regions' = [k \in 1 .. n |-> Layout(executable)[k]]
      BY <2>2, <3>1, LayoutSegments
    <3>3. AllApart(regions')
      BY <2>2, <3>1, <3>2, MappedApart
    <3>4. QED
      BY <3>3 DEF RegionsDisjoint, AllApart, Apart
  <2>6. QED
    BY <2>1, <2>3, <2>4, <2>5
<1>3. CASE Step
  <2>1. CASE StepStays
    BY <1>1, <2>1 DEF StepStays, Stays, memory
  <2>2. CASE Effect
    <3>1. /\ DOMAIN regions = 1 .. Len(regions) /\ DOMAIN regions' = 1 .. Len(regions)
          /\ \A k \in 1 .. Len(regions) : /\ regions'[k].base = regions[k].base
                                          /\ regions'[k].size = regions[k].size
      BY <2>2 DEF Effect, Evolves, TypeOK, WellFormed
    <3>2. QED
      BY <3>1 DEF RegionsDisjoint
  <2>3. QED
    BY <1>3, <2>1, <2>2, StepEffect
<1>4. QED
  BY <1>1, <1>2, <1>3
     DEF Next, ClientCalls, RunLoop, StepCall, RunIterate, RunNotLoaded, RunCall,
         RunExhausted, RunHalted, RunReturns, memory, vars

\* Whatever is loaded and however the load ends, no two regions of the address
\* space share an address.
THEOREM RegionsStayDisjoint == Spec => []RegionsDisjoint
<1>1. Init => RegionsDisjoint
  BY DEF Init, RegionsDisjoint
<1>2. QED
  BY <1>1, TypeCorrect, NextApart, PTL DEF Spec

-----------------------------------------------------------------------------
(***************************************************************************)
(* The code that is executed.                                              *)
(***************************************************************************)

\* A word fetched through the EXECUTE permission comes from a segment that is
\* executable, hence not writable, hence as the image has it.
LEMMA FetchFromImage ==
  ASSUME TypeOK, ImageInv, image # NoImage, FetchError = "None"
  PROVE  \E k \in DOMAIN image.segments :
           LET mapped == SegmentMapping(image.segments[k])
               offset == cpu.pc - mapped.base
           IN  /\ "Exec" \in image.segments[k].flags
               /\ offset >= 0 /\ offset + WordSize <= mapped.size
               /\ Fetched = LoadWord([n \in 1 .. WordSize |-> mapped.data[offset + n]])
<1> DEFINE k == regionAt(regions, cpu.pc)
           total == Len(image.segments)
<1>1. cpu.pc \in Word /\ WellFormed(regions) /\ "Exec" \in Permission
      /\ WordSize \in Nat /\ cpu.pc \in Nat
  BY WordTypes DEF TypeOK, CPUState, Permission, Word
<1>2. checkAccess(regions, cpu.pc, WordSize, "Exec") = "Ok"
  BY <1>1, AccessErrorFacts DEF FetchError
<1>3. /\ k \in DOMAIN regions /\ regions[k].base <= cpu.pc
      /\ cpu.pc - regions[k].base + WordSize <= regions[k].size
      /\ "Exec" \in regions[k].permissions
  BY <1>1, <1>2, CheckedAccess
<1>4. Fetched = LoadWord([n \in 1 .. WordSize |->
                            regions[k].data[cpu.pc - regions[k].base + n]])
  BY DEF Fetched, WordAt, BytesAt
<1>5. /\ image \in Executable /\ validate(image) /\ total \in Nat
      /\ Len(regions) <= total + 2 /\ Len(regions) \in Nat
      /\ DOMAIN regions = 1 .. Len(regions)
      /\ SameMapping(regions[k], Layout(image)[k])
  <2> HIDE DEF k
  <2>1. /\ image \in Executable /\ validate(image)
        /\ Len(regions) <= total + 2
        /\ \A j \in 1 .. Len(regions) : SameMapping(regions[j], Layout(image)[j])
    BY DEF ImageInv
  <2>2. image.segments \in Seq(Segment)
    BY <2>1 DEF Executable
  <2>3. total \in Nat
    BY <2>2
  <2>4. Len(regions) \in Nat /\ DOMAIN regions = 1 .. Len(regions)
    BY <1>1 DEF WellFormed
  <2>5. QED
    BY <1>3, <2>1, <2>3, <2>4
<1> HIDE DEF k
<1>6. k \in 1 .. total
  <2>1. "Exec" \in Layout(image)[k].permissions
    BY <1>3, <1>5 DEF SameMapping
  <2>2. "Exec" \notin StackMapping.permissions /\ "Exec" \notin HeapMapping.permissions
    BY DEF StackMapping, HeapMapping, Mapping
  <2>3. k # total + 1 /\ k # total + 2
    BY <1>5, <2>1, <2>2, LayoutSegments
  <2>4. QED
    BY <1>3, <1>5, <2>3
<1> DEFINE segment == image.segments[k]
<1>7. Layout(image)[k] = SegmentMapping(segment)
  BY <1>5, <1>6, LayoutSegments
<1>8. SegmentWellFormed(segment) /\ k \in DOMAIN image.segments
  <2>1. image.segments \in Seq(Segment)
    BY <1>5 DEF Executable
  <2>2. k \in DOMAIN image.segments
    BY <1>6, <2>1
  <2>3. QED
    BY <1>5, <2>2 DEF validate
<1> HIDE DEF segment
<1>9. SegmentMapping(segment).permissions = permissionsOf(segment.flags)
  BY DEF SegmentMapping, Mapping
<1>10. "Exec" \in permissionsOf(segment.flags)
  BY <1>3, <1>5, <1>7, <1>9 DEF SameMapping
<1>11. "Exec" \in segment.flags
  BY <1>10 DEF permissionsOf
<1>12. "Write" \notin permissionsOf(segment.flags)
  BY <1>8, <1>11 DEF SegmentWellFormed, permissionsOf
<1>13. /\ regions[k].data = SegmentMapping(segment).data
       /\ regions[k].base = SegmentMapping(segment).base
       /\ regions[k].size = SegmentMapping(segment).size
  BY <1>5, <1>7, <1>9, <1>12 DEF SameMapping
<1>14. regions[k].base \in Nat /\ regions[k].size \in Nat
  BY <1>1, <1>3, RegionTypes
<1> DEFINE mapped == SegmentMapping(segment)
           offset == cpu.pc - mapped.base
<1>15. /\ offset >= 0 /\ offset + WordSize <= mapped.size
       /\ Fetched = LoadWord([n \in 1 .. WordSize |-> mapped.data[offset + n]])
  <2>1. offset = cpu.pc - regions[k].base
    BY <1>13
  <2>2. offset >= 0 /\ offset + WordSize <= regions[k].size
    BY <1>1, <1>3, <1>14, <2>1
  <2>3. QED
    BY <1>4, <1>13, <2>1, <2>2
<1>16. QED
  BY <1>8, <1>11, <1>15 DEF segment

\* Every step executes a word of an executable segment of the image.
LEMMA NextCode ==
  TypeOK /\ ImageInv /\ ExecutesImageCode /\ [Next]_vars => ExecutesImageCode'
<1> SUFFICES ASSUME TypeOK, ImageInv, ExecutesImageCode, [Next]_vars
             PROVE  ExecutesImageCode'
  OBVIOUS
<1>1. CASE UNCHANGED <<trace, image>>
  BY <1>1 DEF ExecutesImageCode
<1>2. CASE trace' = NoTrace
  BY <1>2 DEF ExecutesImageCode
<1>3. CASE Step
  <2>1. UNCHANGED image
    BY <1>3, StepEffect
  <2>2. CASE StepStays
    BY <1>1, <2>1, <2>2 DEF StepStays, Stays
  <2>3. CASE StepExecutes
    <3>1. /\ FetchError = "None"
          /\ trace' = [pc |-> cpu.pc, word |-> Fetched]
      BY <2>3 DEF StepExecutes
    <3>2. image # NoImage
      <4>1. SUFFICES ASSUME image = NoImage PROVE FALSE
        OBVIOUS
      <4>2. regionAt(regions, cpu.pc) = NoRegion
        BY <4>1 DEF ImageInv, regionAt
      <4>3. FetchError = faultFromMemory("Unmapped", cpu.pc)
        BY <4>2 DEF FetchError, AccessError, checkAccess
      <4>4. QED
        BY <3>1, <4>3 DEF faultFromMemory
    <3>3. QED
      BY <2>1, <3>1, <3>2, FetchFromImage DEF ExecutesImageCode
  <2>4. QED
    BY <1>3, <2>2, <2>3, StepEffect
<1>4. CASE LoadCall
  BY <1>1, <1>2, <1>4 DEF LoadCall, LoadRejected, LoadUnmappable, LoadCompletes
<1>5. QED
  BY <1>1, <1>3, <1>4
     DEF Next, ClientCalls, RunLoop, StepCall, RunIterate, RunNotLoaded, RunCall,
         RunExhausted, RunHalted, RunReturns, vars

\* There is no self-modifying code: however a program stores, pushes, reads
\* input and jumps, what it executes is what an executable segment of its image
\* holds at that address.  The argument rests on validate() refusing W+X
\* segments, on checkAccess(), and on the stack and the heap not being
\* executable.
THEOREM OnlyImageCodeExecutes == Spec => []ExecutesImageCode
<1>1. Init => ExecutesImageCode
  BY DEF Init, ExecutesImageCode
<1>2. QED
  BY <1>1, TypeCorrect, ImageInvariant, NextCode, PTL DEF Spec

-----------------------------------------------------------------------------
(***************************************************************************)
(* The errors of the stack instructions.                                   *)
(***************************************************************************)

\* Once the stack is mapped, every whole slot of it can be read and written: its
\* region is the only one that contains the slot.
LEMMA StackSlotsAccessible ==
  ASSUME TypeOK, ImageInv, RegionsDisjoint, image # NoImage, StackMapped,
         NEW address \in Word, StackLimit <= address,
         address + WordSize <= StackTop, NEW needed \in {"Read", "Write"}
  PROVE  AccessError(address, needed) = "None"
<1> DEFINE s == Len(image.segments) + 1
           i == regionAt(regions, address)
<1>1. /\ image \in Executable /\ Len(image.segments) \in Nat
      /\ WellFormed(regions) /\ Len(regions) \in Nat
      /\ DOMAIN regions = 1 .. Len(regions)
  BY DEF ImageInv, TypeOK, WellFormed, Executable
<1>2. s \in DOMAIN regions /\ s \in 1 .. Len(regions)
  BY <1>1 DEF StackMapped
<1>3. /\ regions[s].base = StackLimit /\ regions[s].size = StackSize
      /\ regions[s].permissions = {"Read", "Write"}
  <2>1. SameMapping(regions[s], Layout(image)[s])
    BY <1>2 DEF ImageInv
  <2>2. Layout(image)[s] = StackMapping
    BY <1>1, LayoutSegments
  <2>3. QED
    BY <2>1, <2>2 DEF SameMapping, StackMapping, Mapping
<1>4. /\ address \in Nat /\ StackLimit \in Nat /\ StackSize \in Nat
      /\ StackTop = StackLimit + StackSize /\ WordSize \in Nat /\ WordSize > 0
  BY LayoutTypes, WordTypes DEF Word, StackLimit
<1> HIDE DEF s
<1>5. Contains(regions[s], address)
  BY <1>3, <1>4 DEF Contains
<1>6. i \in DOMAIN regions /\ Contains(regions[i], address) /\ i # NoRegion
  BY <1>1, <1>2, <1>5, RegionAtFacts
<1> HIDE DEF i
<1>7. i = s
  <2>1. SUFFICES ASSUME i # s PROVE FALSE
    OBVIOUS
  <2>2. \/ regions[i].base + regions[i].size <= regions[s].base
        \/ regions[s].base + regions[s].size <= regions[i].base
    BY <1>2, <1>6, <2>1 DEF RegionsDisjoint
  <2>3. regions[i].base \in Nat /\ regions[i].size \in Nat
    BY <1>1, <1>6, RegionTypes
  <2>4. QED
    BY <1>3, <1>4, <1>6, <2>2, <2>3 DEF Contains
<1>8. checkAccess(regions, address, WordSize, needed) = "Ok"
  BY <1>3, <1>4, <1>6, <1>7 DEF checkAccess, i
<1>9. QED
  BY <1>8 DEF AccessError, faultFromMemory

\* With the stack mapped and SP inside it, PushError and PopError only name the
\* two stack errors.
LEMMA StackErrors ==
  ASSUME TypeOK, ImageInv, RegionsDisjoint, StackDiscipline, loaded,
         image # NoImage, StackMapped
  PROVE  /\ PushError \in {"None", "StackOverflow"}
         /\ PopError \in {"None", "StackUnderflow"}
<1>1. /\ cpu.sp \in StackLimit .. StackTop /\ cpu.sp \in Word /\ cpu.sp \in Nat
      /\ StackLimit \in Nat /\ StackTop \in Nat /\ WordSize \in Nat
      /\ Add(StackLimit, WordSize) = StackLimit + WordSize
      /\ (StackTop - cpu.sp) % WordSize = 0 /\ StackTop < WordModulus
  BY LayoutTypes, WordTypes DEF StackDiscipline, TypeOK, CPUState, Word
<1>2. PushError \in {"None", "StackOverflow"}
  <2>1. CASE cpu.sp < Add(StackLimit, WordSize)
    BY <2>1 DEF PushError
  <2>2. CASE ~(cpu.sp < Add(StackLimit, WordSize))
    <3> DEFINE slot == Sub(cpu.sp, WordSize)
    <3>1. /\ slot = cpu.sp - WordSize /\ StackLimit <= slot
          /\ slot + WordSize <= StackTop /\ slot \in Word
      BY <1>1, <2>2, WordTypes DEF Sub, Word
    <3> HIDE DEF slot
    <3>2. AccessError(slot, "Write") = "None"
      BY <3>1, StackSlotsAccessible
    <3>3. QED
      BY <2>2, <3>2 DEF PushError, slot
  <2>3. QED
    BY <2>1, <2>2
<1>3. PopError \in {"None", "StackUnderflow"}
  <2>1. CASE cpu.sp >= StackTop
    BY <2>1 DEF PopError
  <2>2. CASE cpu.sp < StackTop
    <3> DEFINE used == StackTop - cpu.sp
    <3>1. used \in Int /\ used % WordSize = 0 /\ 0 < used /\ 0 % WordSize = 0
      BY <1>1, <2>2, WordTypes
    <3> HIDE DEF used
    <3>2. 0 + WordSize <= used
      BY <3>1, AlignedGap
    <3>3. cpu.sp + WordSize <= StackTop
      BY <1>1, <3>2 DEF used
    <3>4. AccessError(cpu.sp, "Read") = "None"
      BY <1>1, <3>3, StackSlotsAccessible
    <3>5. QED
      BY <1>1, <2>2, <3>4 DEF PopError
  <2>3. QED
    BY <1>1, <2>1, <2>2
<1>4. QED
  BY <1>2, <1>3

\* Only the stack instructions have these opcodes.
LEMMA StackInstructions ==
  ASSUME NEW i, Execute(i)
  PROVE  /\ i.opcode = "PUSH" => Push(i)
         /\ i.opcode = "POP" => Pop(i)
         /\ i.opcode = "CALL" => Call(i)
         /\ i.opcode = "RET" => Ret(i)
  BY DEF Execute, Nop, Halt, Syscall, Move, Load, Store, Push, Pop, Call, Ret,
         Branch, Alu, Branches, BinaryAlu, UnaryAlu

\* Every stack instruction fails only by one of the two names.
LEMMA NextNamed ==
  ASSUME TypeOK, ImageInv, RegionsDisjoint, StackDiscipline, [Next]_vars,
         Executing, StackMapped
  PROVE  LET opcode == Decode(trace'.word).opcode IN
         /\ opcode \in {"PUSH", "CALL"} => fault'.error \in {"None", "StackOverflow"}
         /\ opcode \in {"POP", "RET"} => fault'.error \in {"None", "StackUnderflow"}
<1>1. Step
  BY DEF Executing, Next, ClientCalls, RunLoop, LoadCall, LoadRejected,
         LoadUnmappable, LoadCompletes, StepCall, RunIterate, RunNotLoaded,
         RunCall, RunExhausted, RunHalted, RunReturns, vars
<1>2. StepExecutes /\ Effect
  BY <1>1, StepEffect DEF StepStays, Stays, Executing
<1>3. /\ loaded /\ FetchError = "None" /\ Execute(Decode(Fetched))
      /\ trace' = [pc |-> cpu.pc, word |-> Fetched]
  BY <1>2 DEF StepExecutes, Fetching
<1>4. image # NoImage
  <2>1. SUFFICES ASSUME image = NoImage PROVE FALSE
    OBVIOUS
  <2>2. regionAt(regions, cpu.pc) = NoRegion
    BY <2>1 DEF ImageInv, regionAt
  <2>3. FetchError = faultFromMemory("Unmapped", cpu.pc)
    BY <2>2 DEF FetchError, AccessError, checkAccess
  <2>4. QED
    BY <1>3, <2>3 DEF faultFromMemory
<1>5. /\ PushError \in {"None", "StackOverflow"}
      /\ PopError \in {"None", "StackUnderflow"}
  BY <1>3, <1>4, StackErrors
<1> DEFINE i == Decode(Fetched)
<1>6. trace'.word = Fetched
  BY <1>3
<1> HIDE DEF i
<1>7. ASSUME i.opcode \in {"PUSH", "CALL"}
      PROVE  fault'.error \in {"None", "StackOverflow"}
  <2>1. Push(i) \/ Call(i)
    BY <1>3, <1>7, StackInstructions DEF i
  <2>2. (fault' = [error |-> PushError, pc |-> cpu.pc]) \/ fault' = NoFault
    BY <2>1 DEF Push, Call, Pushes, Trap, Returns, Done
  <2>3. QED
    BY <1>5, <2>2 DEF NoFault
<1>8. ASSUME i.opcode \in {"POP", "RET"}
      PROVE  fault'.error \in {"None", "StackUnderflow"}
  <2>1. Pop(i) \/ Ret(i)
    BY <1>3, <1>8, StackInstructions DEF i
  <2>2. (fault' = [error |-> PopError, pc |-> cpu.pc]) \/ fault' = NoFault
    BY <2>1 DEF Pop, Ret, Pops, Trap, Returns, Done
  <2>3. QED
    BY <1>5, <2>2 DEF NoFault
<1>9. QED
  BY <1>6, <1>7, <1>8 DEF i

\* Once the stack is mapped push() and pop() fail only by name: their bound
\* tests leave no access for memory to refuse, so STACK_OVERFLOW and
\* STACK_UNDERFLOW are the only errors of PUSH, POP, CALL and RET.
THEOREM StackErrorsAreAlwaysNamed == Spec => StackErrorsAreNamed
<1>1. TypeOK /\ ImageInv /\ RegionsDisjoint /\ StackDiscipline /\ [Next]_vars =>
        [Executing /\ StackMapped =>
           LET opcode == Decode(trace'.word).opcode IN
           /\ opcode \in {"PUSH", "CALL"} =>
                fault'.error \in {"None", "StackOverflow"}
           /\ opcode \in {"POP", "RET"} =>
                fault'.error \in {"None", "StackUnderflow"}]_vars
  BY NextNamed
<1>2. QED
  BY <1>1, TypeCorrect, ImageInvariant, RegionsStayDisjoint, StackIsKept, PTL
     DEF Spec, StackErrorsAreNamed

-----------------------------------------------------------------------------
(***************************************************************************)
(* What run() reports.  The error of a step that fails is the one that the *)
(* state before it explains, because the first region that contains an     *)
(* address is the only one and because SP is on a slot of the stack.       *)
(***************************************************************************)

\* An access lies in a region of the list only if it lies in the one that
\* regionAt() finds.
LEMMA OnlyRegionAt ==
  ASSUME WellFormed(regions), RegionsDisjoint, NEW address \in Word,
         NEW size \in Nat, size > 0, NEW j \in DOMAIN regions,
         regions[j].base <= address,
         address + size <= regions[j].base + regions[j].size
  PROVE  regionAt(regions, address) = j
<1> DEFINE i == regionAt(regions, address)
<1>1. /\ Len(regions) \in Nat /\ DOMAIN regions = 1 .. Len(regions)
      /\ address \in Nat /\ NoRegion \notin DOMAIN regions
  BY WordTypes DEF WellFormed, Word, NoRegion
<1>2. regions[j].base \in Nat /\ regions[j].size \in Nat
  BY RegionTypes
<1>3. Contains(regions[j], address)
  BY <1>1, <1>2 DEF Contains
<1>4. i \in DOMAIN regions /\ Contains(regions[i], address)
  BY <1>1, <1>3, RegionAtFacts
<1> HIDE DEF i
<1>5. SUFFICES ASSUME i # j PROVE FALSE
  BY DEF i
<1>6. regions[i].base \in Nat /\ regions[i].size \in Nat
  BY <1>4, RegionTypes
<1>7. \/ regions[i].base + regions[i].size <= regions[j].base
      \/ regions[j].base + regions[j].size <= regions[i].base
  BY <1>4, <1>5 DEF RegionsDisjoint
<1>8. QED
  BY <1>1, <1>2, <1>3, <1>4, <1>6, <1>7 DEF Contains

\* checkAccess() looks at one region only, and its answer holds of all of them.
LEMMA CheckedAgainstAll ==
  ASSUME WellFormed(regions), RegionsDisjoint, NEW address \in Word,
         NEW size \in Nat, size > 0, NEW needed \in Permission
  PROVE  LET check == checkAccess(regions, address, size, needed) IN
         /\ check = "Ok" <=> Allowed(address, size, needed)
         /\ check \in {"Unmapped", "CrossesRegionEnd"} => ~InOneRegion(address, size)
         /\ check \in {"ReadDenied", "WriteDenied", "ExecuteDenied"} =>
              InOneRegion(address, size) /\ ~Allowed(address, size, needed)
<1> DEFINE i == regionAt(regions, address)
           check == checkAccess(regions, address, size, needed)
<1>1. /\ Len(regions) \in Nat /\ DOMAIN regions = 1 .. Len(regions)
      /\ address \in Nat /\ NoRegion \notin DOMAIN regions
  BY WordTypes DEF WellFormed, Word, NoRegion
<1>2. i # NoRegion => i \in DOMAIN regions /\ Contains(regions[i], address)
  BY <1>1, RegionAtFacts
<1>3. ASSUME NEW j \in DOMAIN regions, regions[j].base <= address,
             address + size <= regions[j].base + regions[j].size
      PROVE  i = j
  BY <1>3, OnlyRegionAt
<1>4. check = IF i = NoRegion THEN "Unmapped"
              ELSE IF size > regions[i].size - (address - regions[i].base)
                THEN "CrossesRegionEnd"
              ELSE IF needed \notin regions[i].permissions THEN Denied(needed)
              ELSE "Ok"
  BY DEF checkAccess
<1>5. Denied(needed) \in {"ReadDenied", "WriteDenied", "ExecuteDenied"}
  BY DeniedFails
<1> HIDE DEF i, check
<1>6. CASE i = NoRegion
  <2>1. ~InOneRegion(address, size) /\ ~Allowed(address, size, needed)
    BY <1>1, <1>3, <1>6 DEF InOneRegion, Allowed
  <2>2. QED
    BY <1>4, <1>6, <2>1 DEF check
<1>7. CASE i # NoRegion
  <2>1. /\ i \in DOMAIN regions /\ regions[i].base <= address
        /\ regions[i].base \in Nat /\ regions[i].size \in Nat
    <3>1. i \in DOMAIN regions /\ Contains(regions[i], address)
      BY <1>2, <1>7
    <3>2. regions[i].base \in Nat /\ regions[i].size \in Nat
      BY <3>1, RegionTypes
    <3>3. QED
      BY <3>1, <3>2 DEF Contains
  <2>2. size > regions[i].size - (address - regions[i].base) <=>
          ~(address + size <= regions[i].base + regions[i].size)
    BY <1>1, <2>1
  <2>3. InOneRegion(address, size) <=>
          address + size <= regions[i].base + regions[i].size
    BY <1>3, <2>1 DEF InOneRegion
  <2>4. Allowed(address, size, needed) <=>
          InOneRegion(address, size) /\ needed \in regions[i].permissions
    BY <1>3, <2>1, <2>3 DEF Allowed
  <2>5. QED
    BY <1>4, <1>5, <1>7, <2>2, <2>3, <2>4 DEF check
<1>8. QED
  BY <1>6, <1>7

\* The error of a word access that fails is the one that memory explains.
LEMMA AccessErrorExplained ==
  ASSUME WellFormed(regions), RegionsDisjoint, NEW address \in Word,
         NEW needed \in Permission
  PROVE  /\ AccessError(address, needed) # "None" =>
              MemoryFault(AccessError(address, needed), address, needed)
         /\ AccessError(address, needed) = "None" =>
              Allowed(address, WordSize, needed)
<1> DEFINE check == checkAccess(regions, address, WordSize, needed)
           error == AccessError(address, needed)
<1>1. check \in AccessErrors \cup {"Ok"}
  BY CheckedAccess, WordTypes
<1>2. error = faultFromMemory(check, address)
  BY DEF AccessError
<1>3. /\ check = "Ok" <=> Allowed(address, WordSize, needed)
      /\ check \in {"Unmapped", "CrossesRegionEnd"} => ~InOneRegion(address, WordSize)
      /\ check \in {"ReadDenied", "WriteDenied", "ExecuteDenied"} =>
           InOneRegion(address, WordSize) /\ ~Allowed(address, WordSize, needed)
  BY CheckedAgainstAll, WordTypes
<1>4. BelowStack(address) <=>
        address < StackLimit /\ StackLimit - address <= StackSize
  BY LayoutTypes, WordTypes DEF BelowStack, Word
<1> HIDE DEF check, error
<1>5. CASE check \in {"ReadDenied", "WriteDenied", "ExecuteDenied"}
  <2>1. error = "PermissionViolation"
    BY <1>2, <1>5 DEF faultFromMemory
  <2>2. QED
    BY <1>3, <1>5, <2>1 DEF MemoryFault, error
<1>6. CASE check \in {"Unmapped", "CrossesRegionEnd"}
  <2>1. error = IF BelowStack(address) THEN "StackOverflow"
                ELSE "InvalidMemoryAccess"
    BY <1>2, <1>4, <1>6 DEF faultFromMemory
  <2>2. QED
    BY <1>3, <1>6, <2>1 DEF MemoryFault, error
<1>7. CASE check = "Ok"
  <2>1. error = "None"
    BY <1>2, <1>7 DEF faultFromMemory
  <2>2. QED
    BY <1>3, <1>7, <2>1 DEF error
<1>8. QED
  BY <1>1, <1>5, <1>6, <1>7 DEF AccessErrors

\* push() and pop() fail at the two ends of the stack or because memory does.
LEMMA StackFaults ==
  ASSUME TypeOK, RegionsDisjoint, StackDiscipline, loaded
  PROVE  /\ PushError # "None" => PushFault(PushError)
         /\ PopError # "None" => PopFault(PopError)
<1>1. /\ cpu.sp \in StackLimit .. StackTop /\ cpu.sp \in Word /\ cpu.sp \in Nat
      /\ StackLimit \in Nat /\ StackTop \in Nat /\ StackTop < WordModulus
      /\ Add(StackLimit, WordSize) = StackLimit + WordSize
      /\ (StackTop - cpu.sp) % WordSize = 0 /\ WellFormed(regions)
      /\ StackTop % WordSize = 0 /\ StackLimit % WordSize = 0
  BY LayoutTypes, WordTypes DEF StackDiscipline, TypeOK, CPUState, Word
<1>2. PushError # "None" => PushFault(PushError)
  <2>1. CASE cpu.sp < Add(StackLimit, WordSize)
    <3> DEFINE used == StackTop - cpu.sp
    <3>1. cpu.sp % WordSize = 0
      <4>1. used \in Int /\ used % WordSize = 0 /\ StackTop - used = cpu.sp
        BY <1>1
      <4> HIDE DEF used
      <4>2. (StackTop - used) % WordSize = 0
        BY <1>1, <4>1, AlignedSums
      <4>3. QED
        BY <4>1, <4>2
    <3>2. StackLimit < cpu.sp => StackLimit + WordSize <= cpu.sp
      BY <1>1, <3>1, AlignedGap
    <3>3. cpu.sp = StackLimit
      BY <1>1, <2>1, <3>2, WordTypes
    <3>4. QED
      BY <2>1, <3>3 DEF PushError, PushFault
  <2>2. CASE ~(cpu.sp < Add(StackLimit, WordSize))
    <3> DEFINE slot == Sub(cpu.sp, WordSize)
    <3>1. slot = cpu.sp - WordSize /\ slot \in Word /\ cpu.sp # StackLimit
      BY <1>1, <2>2, WordTypes DEF Sub, Word
    <3>2. PushError = AccessError(slot, "Write")
      BY <2>2 DEF PushError
    <3> HIDE DEF slot
    <3>3. PushError # "None" => MemoryFault(PushError, slot, "Write")
      BY <1>1, <3>1, <3>2, AccessErrorExplained DEF Permission
    <3>4. QED
      BY <3>1, <3>3 DEF PushFault
  <2>3. QED
    BY <2>1, <2>2
<1>3. PopError # "None" => PopFault(PopError)
  <2>1. CASE cpu.sp >= StackTop
    BY <1>1, <2>1 DEF PopError, PopFault
  <2>2. CASE ~(cpu.sp >= StackTop)
    <3>1. PopError = AccessError(cpu.sp, "Read") /\ cpu.sp # StackTop
      BY <1>1, <2>2 DEF PopError
    <3>2. PopError # "None" => MemoryFault(PopError, cpu.sp, "Read")
      BY <1>1, <3>1, AccessErrorExplained DEF Permission
    <3>3. QED
      BY <3>1, <3>2 DEF PopFault
  <2>3. QED
    BY <2>1, <2>2
<1>4. QED
  BY <1>2, <1>3

\* A transfer that cannot be made is one that no region allows.
LEMMA RefusedTransfer ==
  ASSUME TypeOK, RegionsDisjoint, NEW length \in Nat, NEW needed \in Permission
  PROVE  Transferable(length, needed) <=>
           /\ Reg(Arg3) <= MaxTransfer
           /\ Reachable(Reg(Arg2), length, needed)
<1>1. WellFormed(regions) /\ Reg(Arg2) \in Word
  BY OperandFacts DEF TypeOK
<1>2. CASE length = 0
  BY <1>2 DEF Transferable, Reachable
<1>3. CASE length # 0
  <2>1. Allowed(Reg(Arg2), length, needed) <=>
          checkAccess(regions, Reg(Arg2), length, needed) = "Ok"
    BY <1>1, <1>3, CheckedAgainstAll
  <2>2. QED
    BY <1>3, <2>1 DEF Transferable, Reachable
<1>4. QED
  BY <1>2, <1>3

\* A system call fails only because it asks for what it may not have.
LEMMA SyscallFaults ==
  ASSUME TypeOK, RegionsDisjoint, NEW i \in Instruction, Syscall(i),
         fault'.error # "None"
  PROVE  fault'.error = "SyscallError" /\ RequestFault(i.imm)
<1> DEFINE count == Shorter(Reg(Arg3), Len(host.input))
<1>1. Reg(Arg3) \in Nat /\ count \in Nat
  <2>1. host.input \in Seq(Byte)
    BY DEF TypeOK, HostState
  <2>2. Reg(Arg3) \in Word
    BY OperandFacts
  <2>3. Len(host.input) \in Nat
    BY <2>1
  <2>4. QED
    BY <2>2, <2>3, WordTypes DEF Shorter, Word
<1>2. "Read" \in Permission /\ "Write" \in Permission /\ NoFault.error = "None"
  BY DEF Permission, NoFault
<1>3. ~Exit(i) /\ ~doAllocate(i)
  BY <1>2 DEF Exit, doAllocate, Done
<1>4. CASE doWrite(i)
  <2>1. /\ i.imm = 1 /\ Trap("SyscallError")
        /\ ~ /\ Reg(Arg1) \in {1, 2} /\ Reg(Arg3) <= MaxTransfer
             /\ Reachable(Reg(Arg2), Reg(Arg3), "Read")
    BY <1>2, <1>4 DEF doWrite, Done
  <2>2. ~(Reg(Arg1) \in {1, 2} /\ Transferable(Reg(Arg3), "Read"))
    BY <1>1, <1>2, <2>1, RefusedTransfer
  <2>3. QED
    BY <2>1, <2>2 DEF RequestFault, Trap, Returns
<1>5. CASE doRead(i)
  <2>1. /\ i.imm = 2 /\ Returns("SyscallError")
        /\ ~ /\ Reg(Arg1) = 0 /\ Reg(Arg3) <= MaxTransfer
             /\ Reachable(Reg(Arg2), count, "Write")
    BY <1>2, <1>5 DEF doRead, Done, Trap
  <2> HIDE DEF count
  <2>2. ~(Reg(Arg1) = 0 /\ Transferable(count, "Write"))
    BY <1>1, <1>2, <2>1, RefusedTransfer
  <2>3. QED
    BY <2>1, <2>2 DEF RequestFault, Returns, count
<1>6. CASE UnknownSyscall(i)
  BY <1>6 DEF UnknownSyscall, RequestFault, Trap, Returns
<1>7. QED
  BY <1>3, <1>4, <1>5, <1>6 DEF Syscall

\* The ALU fails only on a division by zero.
LEMMA AluFaults ==
  ASSUME TypeOK, NEW i \in Instruction, Alu(i), fault'.error # "None"
  PROVE  /\ i.opcode \in {"DIV", "MOD"} /\ Reg(i.src) = 0
         /\ fault'.error = "DivisionByZero"
<1> DEFINE alu == IF i.opcode \in BinaryAlu
                    THEN EvaluateBinary(i.opcode, Reg(i.dst), Reg(i.src))
                    ELSE EvaluateUnary(i.opcode, Reg(i.dst))
<1>1. Reg(i.dst) \in Word /\ Reg(i.src) \in Word
  BY OperandFacts DEF Instruction
<1>2. /\ i.opcode \in BinaryAlu \cup UnaryAlu
      /\ alu.error # "None" /\ Trap(AluFault(alu.error))
  BY DEF Alu, Done, NoFault
<1>3. i.opcode \in BinaryAlu
  BY <1>1, <1>2, IsaAssumption
<1>4. alu.error = IF i.opcode \in {"DIV", "MOD"} /\ Reg(i.src) = 0
                    THEN "DivisionByZero" ELSE "None"
  BY <1>1, <1>3, IsaAssumption
<1> HIDE DEF alu
<1>5. QED
  BY <1>2, <1>4 DEF AluFault, Trap, Returns

\* Whatever the instruction, the state before it explains why it failed.
LEMMA ExecuteFaults ==
  ASSUME TypeOK, RegionsDisjoint, StackDiscipline, loaded,
         NEW i \in Instruction, Execute(i), fault'.error # "None"
  PROVE  InstructionFault(fault'.error, i)
<1>1. /\ Add(Reg(i.src), i.imm) \in Word /\ Add(Reg(i.dst), i.imm) \in Word
      /\ WellFormed(regions) /\ "Read" \in Permission /\ "Write" \in Permission
  <2>1. i.dst \in Register /\ i.src \in Register /\ i.imm \in Word
    BY DEF Instruction
  <2>2. QED
    BY <2>1, OperandFacts, WordArithmetic DEF TypeOK, Permission
<1>2. NoFault.error = "None"
  BY DEF NoFault
<1>3. ~(Nop(i) \/ Halt(i) \/ Move(i) \/ Branch(i))
  BY <1>2 DEF Nop, Halt, Move, Branch, Done
<1>4. CASE Load(i)
  <2> DEFINE error == AccessError(Add(Reg(i.src), i.imm), "Read")
  <2>1. i.opcode = "LOAD" /\ fault'.error = error /\ error # "None"
    BY <1>2, <1>4 DEF Load, Done, Trap, Returns
  <2>2. QED
    BY <1>1, <2>1, AccessErrorExplained DEF InstructionFault
<1>5. CASE Store(i)
  <2> DEFINE error == AccessError(Add(Reg(i.dst), i.imm), "Write")
  <2>1. i.opcode = "STORE" /\ fault'.error = error /\ error # "None"
    BY <1>2, <1>5 DEF Store, Done, Trap, Returns
  <2>2. QED
    BY <1>1, <2>1, AccessErrorExplained DEF InstructionFault
<1>6. CASE Push(i) \/ Call(i)
  <2>1. /\ i.opcode \in {"PUSH", "CALL"}
        /\ fault'.error = PushError /\ PushError # "None"
    BY <1>2, <1>6 DEF Push, Call, Pushes, Done, Trap, Returns
  <2>2. QED
    BY <2>1, StackFaults DEF InstructionFault
<1>7. CASE Pop(i) \/ Ret(i)
  <2>1. /\ i.opcode \in {"POP", "RET"}
        /\ fault'.error = PopError /\ PopError # "None"
    BY <1>2, <1>7 DEF Pop, Ret, Pops, Done, Trap, Returns
  <2>2. QED
    BY <2>1, StackFaults DEF InstructionFault
<1>8. CASE Alu(i)
  BY <1>8, AluFaults DEF InstructionFault
<1>9. CASE Syscall(i)
  BY <1>9, SyscallFaults DEF InstructionFault, Syscall
<1>10. QED
  BY <1>3, <1>4, <1>5, <1>6, <1>7, <1>8, <1>9 DEF Execute

\* A step that fails names its address and an error that the state before it
\* explains.
LEMMA StepFaults ==
  ASSUME TypeOK, RegionsDisjoint, StackDiscipline, loaded, Step,
         fault'.error # "None"
  PROVE  /\ fault'.pc = cpu.pc /\ cpu'.halted = cpu.halted
         /\ fault'.error # "BudgetExhausted"
         /\ \/ cpu'.instruction_count = cpu.instruction_count
            \/ cpu'.instruction_count = cpu.instruction_count + 1
         /\ Explains(fault'.error)
<1>1. cpu.pc \in Word /\ WellFormed(regions) /\ "Exec" \in Permission
      /\ cpu.instruction_count \in Nat /\ cpu \in CPUState
  BY DEF TypeOK, CPUState, Permission
<1>2. ASSUME NEW e, Returns(e), Stays, FetchFault(e), e # "BudgetExhausted"
      PROVE  /\ fault'.pc = cpu.pc /\ UNCHANGED cpu
             /\ fault'.error # "BudgetExhausted" /\ Explains(fault'.error)
  BY <1>2 DEF Returns, Stays, Explains
<1>3. ~StepNotLoaded /\ ~StepHalted
  BY DEF StepNotLoaded, StepHalted, NoFault
<1>4. CASE StepMisaligned
  BY <1>2, <1>4 DEF StepMisaligned, FetchFault
<1>5. CASE StepFetchFault
  <2>1. FetchError # "None" /\ Aligned(cpu.pc) /\ Returns(FetchError) /\ Stays
    BY <1>5 DEF StepFetchFault
  <2>2. FetchError # "BudgetExhausted"
    BY <1>1, AccessErrorFacts DEF FetchError
  <2>3. FetchFault(FetchError)
    BY <1>1, <2>1, AccessErrorExplained DEF FetchError, FetchFault
  <2>4. QED
    BY <1>2, <2>1, <2>2, <2>3
<1>6. CASE StepUndecodable
  <2>1. FetchFault("IllegalInstruction")
    BY <1>1, <1>6, AccessErrorExplained DEF StepUndecodable, FetchError, FetchFault
  <2>2. QED
    BY <1>2, <1>6, <2>1 DEF StepUndecodable
<1>7. CASE StepExecutes
  <2>1. FetchError = "None" /\ Decode(Fetched) # Undecodable
        /\ Execute(Decode(Fetched))
    BY <1>7 DEF StepExecutes
  <2>2. Fetched \in Word
    BY <1>1, <2>1, AccessErrorFacts, WordAtType DEF FetchError, Fetched
  <2>3. Decode(Fetched) \in Instruction
    BY <2>1, <2>2, IsaAssumption
  <2>4. InstructionFault(fault'.error, Decode(Fetched))
    BY <2>1, <2>3, ExecuteFaults
  <2>5. Effect
    BY <2>1, <2>3, ExecuteEffect
  <2>6. /\ cpu' = Advanced /\ fault'.pc = cpu.pc
        /\ cpu'.instruction_count = cpu.instruction_count + 1
        /\ fault'.error # "BudgetExhausted"
    BY <2>5 DEF Effect, Precise
  <2>7. Advanced.halted = cpu.halted
    BY <1>1 DEF Advanced, CPUState
  <2>8. cpu'.instruction_count # cpu.instruction_count
    BY <1>1, <2>6
  <2>9. QED
    BY <2>4, <2>6, <2>7, <2>8 DEF Explains
<1>8. QED
  BY <1>3, <1>4, <1>5, <1>6, <1>7 DEF Step

\* The step in which run() returns reports what happened.
LEMMA NextHonest ==
  ASSUME TypeOK, RunInv, RegionsDisjoint, StackDiscipline, [Next]_vars,
         call.running, ~call'.running
  PROVE  LET spent == cpu'.instruction_count - call.start
             error == result'.error
         IN  /\ result'.instructions = cpu'.instruction_count
             /\ spent <= call.budget
             /\ result'.pc = cpu.pc
             /\ error = "None" <=> cpu'.halted
             /\ error = "None" => result'.exit_code = cpu'.exit_code
             /\ error = "BudgetExhausted" <=>
                  (~cpu'.halted /\ spent = call.budget /\ cpu' = cpu)
             /\ error \notin {"None", "BudgetExhausted"} => Explains(error)
<1>1. /\ cpu.instruction_count \in Nat /\ call.executed \in Nat
      /\ call.budget \in Nat /\ call.start \in Nat /\ cpu.halted \in BOOLEAN
      /\ cpu.instruction_count = call.start + call.executed
      /\ call.executed <= call.budget /\ loaded
  BY DEF TypeOK, CPUState, RunInv
<1>2. CASE RunIterate
  <2>1. Step /\ ~cpu.halted /\ call.executed < call.budget
    BY <1>2 DEF RunIterate
  <2>2. fault'.error # "None"
    <3>1. SUFFICES ASSUME fault'.error = "None" PROVE FALSE
      OBVIOUS
    <3>2. call' = [call EXCEPT !.executed = call.executed + 1]
      BY <1>2, <3>1 DEF RunIterate, RunCharges
    <3>3. QED
      BY <3>2 DEF TypeOK
  <2>3. /\ result'.error = fault'.error /\ result'.pc = fault'.pc
        /\ result'.instructions = cpu'.instruction_count
    BY <1>2, <2>2 DEF RunIterate, RunFaults
  <2>4. /\ fault'.pc = cpu.pc /\ cpu'.halted = cpu.halted
        /\ fault'.error # "BudgetExhausted" /\ Explains(fault'.error)
        /\ \/ cpu'.instruction_count = cpu.instruction_count
           \/ cpu'.instruction_count = cpu.instruction_count + 1
    BY <1>1, <2>1, <2>2, StepFaults
  <2>5. Explains(result'.error)
    BY <2>3, <2>4
  <2>6. cpu' = cpu => cpu'.instruction_count - call.start # call.budget
    BY <1>1, <2>1
  <2>7. cpu'.instruction_count - call.start <= call.budget
    BY <1>1, <2>1, <2>4
  <2>8. QED
    BY <2>1, <2>2, <2>3, <2>4, <2>5, <2>6, <2>7
<1>3. CASE RunExhausted
  BY <1>1, <1>3 DEF RunExhausted, RunReturns
<1>4. CASE RunHalted
  BY <1>1, <1>4 DEF RunHalted, RunReturns
<1>5. CASE ClientCalls \/ UNCHANGED vars
  BY <1>5 DEF ClientCalls, LoadCall, StepCall, RunNotLoaded, RunCall, vars
<1>6. QED
  BY <1>2, <1>3, <1>4, <1>5 DEF Next, RunLoop

\* Whatever the program, the image and the budget, what run() reports is what
\* happened: a success is a halt and carries its exit code, an exhausted budget
\* was spent to the last instruction, and any other error is the one that the
\* state before the last step explains, at the address of its instruction.
THEOREM RunReportsAreHonest == Spec => RunReportIsHonest
<1>1. TypeOK /\ RunInv /\ RegionsDisjoint /\ StackDiscipline /\ [Next]_vars =>
        [call.running /\ ~call'.running =>
           LET spent == cpu'.instruction_count - call.start
               error == result'.error
           IN  /\ result'.instructions = cpu'.instruction_count
               /\ spent <= call.budget
               /\ result'.pc = cpu.pc
               /\ error = "None" <=> cpu'.halted
               /\ error = "None" => result'.exit_code = cpu'.exit_code
               /\ error = "BudgetExhausted" <=>
                    (~cpu'.halted /\ spent = call.budget /\ cpu' = cpu)
               /\ error \notin {"None", "BudgetExhausted"} => Explains(error)]_vars
  BY NextHonest
<1>2. QED
  BY <1>1, TypeCorrect, RunInvariant, RegionsStayDisjoint, StackIsKept, PTL
     DEF Spec, RunReportIsHonest

=============================================================================
