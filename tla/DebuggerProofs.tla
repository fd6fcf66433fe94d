---------------------------- MODULE DebuggerProofs ----------------------------
(***************************************************************************)
(* The debugger for every program, every set of breakpoints and            *)
(* watchpoints and every sequence of commands: the machine it drives is    *)
(* still the machine of module VirtualMachine, and its commands stop where *)
(* they promise to.                                                        *)
(*                                                                         *)
(* What next and finish promise rests on the stack pointers saved by the   *)
(* calls in progress: they decrease from the oldest call to the newest and *)
(* all lie above SP, so comparing SP with the value it had when the command *)
(* was entered tells which calls have returned.                            *)
(***************************************************************************)
EXTENDS Debugger, VirtualMachineProofs, FiniteSetTheorems

Frame  == [return: Word, sp: Word]
Frames == Seq(Frame) \cup {Lost}
Kinds  == {"none", "run", "next", "finish"}

CommandRecord == [kind: Kinds, budget: Nat, executed: Nat, resume: Word,
                  depth: Word, frames: Frames]

SessionType ==
  /\ TypeOK
  /\ command \in CommandRecord
  /\ started \in BOOLEAN
  /\ frames \in Frames

\* A command executes only a loaded program, and nobody else runs the machine;
\* what is left of the budget is what is left of the instructions.
ControlInv ==
  /\ ~call.running
  /\ loaded => loads # 0
  /\ started => loaded
  /\ ~Idle => /\ loaded
              /\ cpu.instruction_count + command.budget <=
                   MaxInstructions + command.executed
  /\ loads = 0 => frames = <<>>

\* What the user was shown last is where the machine is.
ShownInv ==
  /\ event.reason = "Breakpoint" => started
  /\ started => event.pc = cpu.pc \/ event.reason = "Fault"

\* Each call in progress saved an SP above the current one and below those of
\* the calls before it.
FramesNest ==
  frames # Lost =>
    /\ \A k \in DOMAIN frames : cpu.sp < frames[k].sp
    /\ \A j, k \in DOMAIN frames : j < k => frames[k].sp < frames[j].sp

\* The calls in progress when the command was entered still are.
Grown ==
  /\ Len(frames) >= Len(command.frames)
  /\ \A k \in DOMAIN command.frames : frames[k] = command.frames[k]

FinishInv ==
  Conventional /\ command.kind = "finish" =>
    /\ Grown
    /\ \A k \in DOMAIN command.frames : command.depth < command.frames[k].sp

\* next is at its CALL before the first pass and inside that call after it.
NextInv ==
  Conventional /\ command.kind = "next" =>
    /\ Grown
    /\ command.executed = 0 =>
         /\ AtCall
         /\ frames = command.frames
         /\ command.resume = Add(cpu.pc, WordSize) /\ command.depth = cpu.sp
    /\ command.executed > 0 =>
         /\ Len(frames) > Len(command.frames)
         /\ frames[Len(command.frames) + 1] =
              [return |-> command.resume, sp |-> command.depth]

SessionInv == SessionType /\ ControlInv /\ ShownInv /\ NoChangeOverlooked
              /\ FramesNest /\ FinishInv /\ NextInv

-----------------------------------------------------------------------------
(***************************************************************************)
(* The machine under the debugger.                                         *)
(***************************************************************************)

\* A step that succeeds has executed an instruction.
LEMMA SuccessExecutes ==
  ASSUME TypeOK, ~cpu.halted, Step, fault'.error = "None"
  PROVE  /\ StepExecutes /\ Effect
         /\ Decode(Fetched) \in Instruction /\ Execute(Decode(Fetched))
<1>1. StepExecutes /\ Effect
  BY StepEffect DEF StepStays
<1>2. cpu.pc \in Word /\ WellFormed(regions) /\ "Exec" \in Permission
  BY DEF TypeOK, CPUState, Permission
<1>3. FetchError = "None" /\ Decode(Fetched) # Undecodable
      /\ Execute(Decode(Fetched))
  BY <1>1 DEF StepExecutes
<1>4. Fetched \in Word
  BY <1>2, <1>3, AccessErrorFacts, WordAtType DEF FetchError, Fetched
<1>5. QED
  BY <1>1, <1>3, <1>4, IsaAssumption

\* Only RET and POP raise SP, and CALL lowers it.
LEMMA SpByOpcode ==
  ASSUME TypeOK, NEW i \in Instruction, Execute(i), fault'.error = "None"
  PROVE  /\ i.opcode \notin {"RET", "POP"} => cpu'.sp <= cpu.sp
         /\ i.opcode = "CALL" => cpu'.sp < cpu.sp
<1>1. cpu.sp \in Nat
  BY WordTypes DEF TypeOK, CPUState, Word
<1>2. i.dst \in Register /\ i.src \in Register /\ i.imm \in Word
  BY DEF Instruction
<1>3. ASSUME NEW e, Trap(e) PROVE cpu'.sp = cpu.sp
  BY <1>3, AdvancedFacts DEF Trap
<1>4. ASSUME NEW r, NEW value, Done(SetReg(r, value)) PROVE cpu'.sp = cpu.sp
  BY <1>4, AdvancedFacts DEF Done, SetReg, CPUState
<1>5. ASSUME NEW value, NEW after \in CPUState, Pushes(value, after)
      PROVE  cpu'.sp = cpu.sp - WordSize \/ PushError # "None"
  <2>1. SUFFICES ASSUME PushError = "None" PROVE cpu'.sp = cpu.sp - WordSize
    OBVIOUS
  <2>2. Sub(cpu.sp, WordSize) = cpu.sp - WordSize
    BY <2>1, PushFacts
  <2>3. cpu' = [after EXCEPT !.sp = Sub(cpu.sp, WordSize)]
    BY <1>5, <2>1 DEF Pushes, Done
  <2>4. QED
    BY <2>2, <2>3 DEF CPUState
<1>6. ASSUME NEW value, NEW after, Pushes(value, after) PROVE PushError = "None"
  BY <1>6, fault'.error = "None" DEF Pushes, Trap, Returns
<1>7. CASE Nop(i) \/ Halt(i)
  <2>1. cpu'.sp = cpu.sp
    BY <1>7, AdvancedFacts DEF Nop, Halt, Done, CPUState
  <2>2. QED
    BY <1>1, <1>7, <2>1 DEF Nop, Halt
<1>8. CASE Syscall(i)
  <2>1. CASE Exit(i)
    BY <2>1, AdvancedFacts, <1>1, <1>8 DEF Exit, Done, CPUState, Syscall
  <2>2. CASE doWrite(i) \/ UnknownSyscall(i) \/ doAllocate(i)
    <3>1. cpu'.sp = cpu.sp
      BY <2>2, <1>3, <1>4 DEF doWrite, UnknownSyscall, doAllocate
    <3>2. QED
      BY <1>1, <1>8, <3>1 DEF Syscall
  <2>3. CASE doRead(i)
    <3>1. cpu'.sp = cpu.sp
      BY <2>3, <1>3, <1>4, AdvancedFacts DEF doRead
    <3>2. QED
      BY <1>1, <1>8, <3>1 DEF Syscall
  <2>4. QED
    BY <1>8, <2>1, <2>2, <2>3 DEF Syscall
<1>9. CASE Move(i) \/ Load(i)
  <2>1. cpu'.sp = cpu.sp
    BY <1>9, <1>3, <1>4 DEF Move, Load
  <2>2. QED
    BY <1>1, <1>9, <2>1 DEF Move, Load
<1>10. CASE Store(i)
  <2>1. cpu'.sp = cpu.sp
    BY <1>10, <1>3, AdvancedFacts DEF Store, Done
  <2>2. QED
    BY <1>1, <1>10, <2>1 DEF Store
<1>11. CASE Push(i)
  <2>1. cpu'.sp = cpu.sp - WordSize
    BY <1>11, <1>5, <1>6, AdvancedFacts DEF Push
  <2>2. QED
    BY <1>1, <1>11, <2>1, WordTypes DEF Push
<1>12. CASE Call(i)
  <2> DEFINE after == [Advanced EXCEPT !.pc = branchTarget(i.imm)]
  <2>1. after \in CPUState
    BY <1>2, AdvancedFacts, OperandFacts DEF CPUState
  <2>2. Pushes(Advanced.pc, after)
    BY <1>12 DEF Call
  <2> HIDE DEF after
  <2>3. cpu'.sp = cpu.sp - WordSize
    BY <1>5, <1>6, <2>1, <2>2
  <2>4. QED
    BY <1>1, <1>12, <2>3, WordTypes DEF Call
<1>13. CASE Pop(i) \/ Ret(i)
  BY <1>13 DEF Pop, Ret
<1>14. CASE Branch(i)
  <2>1. cpu'.sp = cpu.sp
    BY <1>14, AdvancedFacts DEF Branch, Done, CPUState
  <2>2. QED
    BY <1>1, <1>14, <2>1 DEF Branch, Branches
<1>15. CASE Alu(i)
  <2>1. cpu'.sp = cpu.sp
    BY <1>15, <1>3, AdvancedFacts DEF Alu, Done, CPUState
  <2>2. QED
    BY <1>1, <1>15, <2>1 DEF Alu, BinaryAlu, UnaryAlu
<1>16. QED
  BY <1>7, <1>8, <1>9, <1>10, <1>11, <1>12, <1>13, <1>14, <1>15 DEF Execute

-----------------------------------------------------------------------------
(***************************************************************************)
(* singleStep().                                                           *)
(***************************************************************************)

\* What a pass leaves of the machine and of the session: proper types, the same
\* program loaded, and at most one more instruction counted.
Passed ==
  /\ TypeOK'
  /\ started' \in BOOLEAN /\ (started => started')
  /\ UNCHANGED <<loaded, loads, call>>
  /\ cpu'.instruction_count <= cpu.instruction_count + 1

\* singleStep() does no more to the machine than that.
LEMMA SingleStepMachine ==
  ASSUME SessionType, loaded, SingleStep
  PROVE  Passed
<1>1. cpu.instruction_count \in Nat /\ TypeOK /\ started \in BOOLEAN
  BY DEF SessionType, TypeOK, CPUState
<1>2. CASE cpu.halted /\ UNCHANGED <<machine, watchpoints, started, frames>>
  BY <1>1, <1>2 DEF Passed, machine, TypeOK
<1>3. CASE Step /\ started' = TRUE /\ UNCHANGED <<call, result>>
  <2>1. TypeOK' /\ UNCHANGED <<loaded, loads>>
    BY <1>1, <1>3, StepType, TypeOKRecords DEF Typed
  <2>2. cpu'.instruction_count <= cpu.instruction_count + 1
    BY <1>1, <1>3, StepEffect DEF StepStays, Stays, Effect
  <2>3. QED
    BY <1>1, <1>3, <2>1, <2>2 DEF Passed
<1>4. QED
  BY <1>2, <1>3 DEF SingleStep

\* For the machine a pass is a call of step(), or nothing.
LEMMA SingleStepCalls ==
  ASSUME SingleStep, ~call.running, cpu.instruction_count < MaxInstructions
  PROVE  [Next]_vars
  BY DEF SingleStep, machine, vars, Next, ClientCalls, StepCall

\* The event singleStep() returns says where the machine is, or names a fault.
LEMMA EventFacts ==
  ASSUME SingleStep
  PROVE  /\ SingleStepEvent.reason # "Breakpoint"
         /\ SingleStepEvent.pc = cpu'.pc \/ SingleStepEvent.reason = "Fault"
  BY DEF SingleStep, SingleStepEvent, Stop, machine

\* A pass goes on only after a step that succeeded and triggered nothing.
LEMMA CompletesFacts ==
  ASSUME SingleStep, Completes
  PROVE  /\ ~cpu.halted /\ Step /\ fault'.error = "None"
         /\ ~Triggers(regions')
         /\ started' = TRUE /\ watchpoints' = watchpoints
         /\ frames' = FramesAfter
<1>1. ~cpu.halted /\ fault'.error = "None" /\ ~Triggers(regions')
  BY DEF Completes, SingleStepEvent, Stop
<1>2. QED
  BY <1>1 DEF SingleStep, checkWatchpoints

\* How a pass changes the calls in progress.
Called ==
  frames' = Append(frames, [return |-> Add(cpu.pc, WordSize), sp |-> cpu.sp])
Returned ==
  /\ frames # <<>>
  /\ frames' = SubSeq(frames, 1, Len(frames) - 1)
  /\ cpu'.pc = frames[Len(frames)].return
  /\ cpu'.sp = frames[Len(frames)].sp

\* A program that keeps the calling convention calls, returns from its newest
\* call, or leaves its calls alone and SP below them; completing a CALL calls.
LEMMA FramesMove ==
  ASSUME SessionType, loaded, SingleStep, frames' # Lost
  PROVE  /\ frames # Lost
         /\ \/ Called /\ cpu'.sp < cpu.sp
            \/ Returned
            \/ /\ frames' = frames
               /\ \/ cpu'.sp <= cpu.sp
                  \/ frames # <<>> => cpu'.sp < frames[Len(frames)].sp
         /\ AtCall /\ Completes => Called /\ cpu'.sp < cpu.sp
<1>1. cpu.sp \in Nat /\ TypeOK
  BY WordTypes DEF SessionType, TypeOK, CPUState, Word
<1>2. CASE cpu.halted /\ UNCHANGED <<machine, watchpoints, started, frames>>
  <2>1. ~Completes
    BY <1>2 DEF Completes, SingleStepEvent, Stop
  <2>2. UNCHANGED <<cpu, frames>>
    BY <1>2 DEF machine
  <2>3. QED
    BY <1>1, <2>1, <2>2
<1>3. CASE ~cpu.halted /\ Step /\ frames' = FramesAfter
  <2>1. frames # Lost
    BY <1>3 DEF FramesAfter
  <2>2. CASE fault'.error # "None"
    <3>1. frames' = frames
      BY <1>3, <2>2 DEF FramesAfter
    <3>2. ~Completes
      BY <1>3, <2>2 DEF Completes, SingleStepEvent, Stop
    <3>3. cpu'.sp = cpu.sp
      BY <1>1, <1>3, <2>2, StepEffect, AdvancedFacts
         DEF StepStays, Stays, Effect, Precise
    <3>4. QED
      BY <1>1, <2>1, <3>1, <3>2, <3>3
  <2>3. CASE fault'.error = "None"
    <3> DEFINE i == Decode(Fetched)
               top == frames[Len(frames)]
    <3>1. i \in Instruction /\ Execute(i)
      BY <1>1, <1>3, <2>3, SuccessExecutes
    <3>2. /\ i.opcode \notin {"RET", "POP"} => cpu'.sp <= cpu.sp
          /\ i.opcode = "CALL" => cpu'.sp < cpu.sp
      BY <1>1, <2>3, <3>1, SpByOpcode
    <3>3. frames' = CASE i.opcode = "CALL" ->
                           Append(frames, [return |-> Add(cpu.pc, WordSize),
                                           sp     |-> cpu.sp])
                      [] i.opcode = "RET" ->
                           IF frames # <<>> /\ cpu'.pc = top.return /\ cpu'.sp = top.sp
                           THEN SubSeq(frames, 1, Len(frames) - 1) ELSE Lost
                      [] i.opcode = "POP" ->
                           IF frames # <<>> /\ cpu'.sp >= top.sp
                           THEN Lost ELSE frames
                      [] OTHER -> frames
      BY <1>3, <2>1, <2>3 DEF FramesAfter
    <3>4. AtCall => i.opcode = "CALL"
      BY DEF AtCall
    <3> HIDE DEF i
    <3>5. CASE i.opcode = "CALL"
      BY <2>1, <3>2, <3>3, <3>5 DEF Called
    <3>6. CASE i.opcode = "RET"
      BY <2>1, <3>3, <3>4, <3>6, frames' # Lost DEF Returned
    <3>7. CASE i.opcode = "POP"
      <4>1. frames' = frames /\ ~(frames # <<>> /\ cpu'.sp >= top.sp)
        BY <3>3, <3>7, frames' # Lost
      <4>2. frames # <<>> => top.sp \in Nat
        <5>1. frames \in Seq(Frame)
          BY <2>1 DEF SessionType, Frames
        <5>2. frames # <<>> => Len(frames) \in 1 .. Len(frames)
          BY <5>1
        <5>3. frames # <<>> => top \in Frame
          BY <5>1, <5>2
        <5>4. QED
          BY <5>3, WordTypes DEF Frame, Word
      <4>3. cpu'.sp \in Nat
        BY SingleStepMachine, WordTypes DEF Passed, TypeOK, CPUState, Word
      <4>4. frames # <<>> => cpu'.sp < top.sp
        BY <4>1, <4>2, <4>3
      <4>5. QED
        BY <2>1, <3>4, <3>7, <4>1, <4>4
    <3>8. CASE i.opcode \notin {"CALL", "RET", "POP"}
      BY <2>1, <3>2, <3>3, <3>4, <3>8
    <3>9. QED
      BY <3>5, <3>6, <3>7, <3>8
  <2>4. QED
    BY <2>2, <2>3
<1>4. QED
  BY <1>2, <1>3 DEF SingleStep

\* The calls in progress keep their type.
LEMMA FramesType ==
  ASSUME SessionType, loaded, SingleStep
  PROVE  frames' \in Frames
<1>1. CASE frames' = Lost
  BY <1>1 DEF Frames
<1>2. CASE frames' # Lost
  <2>1. frames \in Seq(Frame) /\ cpu.sp \in Word /\ Add(cpu.pc, WordSize) \in Word
    <3>1. frames \in Seq(Frame)
      BY <1>2, FramesMove DEF SessionType, Frames
    <3>2. cpu.sp \in Word /\ cpu.pc \in Word
      BY DEF SessionType, TypeOK, CPUState
    <3>3. QED
      BY <3>1, <3>2, WordArithmetic, LayoutTypes
  <2>2. CASE Called
    <3> DEFINE new == [return |-> Add(cpu.pc, WordSize), sp |-> cpu.sp]
    <3>1. new \in Frame
      BY <2>1 DEF Frame
    <3> HIDE DEF new
    <3>2. Append(frames, new) \in Seq(Frame)
      BY <2>1, <3>1
    <3>3. QED
      BY <2>2, <3>2 DEF Called, new, Frames
  <2>3. CASE Returned
    <3>1. SubSeq(frames, 1, Len(frames) - 1) \in Seq(Frame)
      <4>1. Len(frames) \in Nat /\ Len(frames) - 1 <= Len(frames)
        BY <2>1
      <4>2. \A k \in 1 .. Len(frames) - 1 : frames[k] \in Frame
        BY <2>1, <4>1
      <4>3. QED
        BY <2>1, <4>1, <4>2, SubSeqProperties
    <3>2. QED
      BY <2>3, <3>1 DEF Returned, Frames
  <2>4. CASE frames' = frames
    BY <2>1, <2>4 DEF Frames
  <2>5. QED
    BY <1>2, <2>2, <2>3, <2>4, FramesMove
<1>3. QED
  BY <1>1, <1>2

\* A frame of a sequence of calls has a return address and a saved SP.
LEMMA FrameFields ==
  ASSUME NEW s \in Seq(Frame)
  PROVE  /\ Len(s) \in Nat /\ DOMAIN s = 1 .. Len(s)
         /\ \A k \in DOMAIN s : s[k].sp \in Nat
<1>1. \A k \in DOMAIN s : s[k] \in Frame
  OBVIOUS
<1>2. QED
  BY <1>1, WordTypes DEF Frame, Word

\* A call adds one frame after those in progress.
LEMMA CalledElements ==
  ASSUME frames \in Seq(Frame), Called
  PROVE  /\ Len(frames') = Len(frames) + 1
         /\ DOMAIN frames' = 1 .. Len(frames) + 1
         /\ \A k \in 1 .. Len(frames) : frames'[k] = frames[k]
         /\ frames'[Len(frames) + 1] =
              [return |-> Add(cpu.pc, WordSize), sp |-> cpu.sp]
<1> DEFINE new == [return |-> Add(cpu.pc, WordSize), sp |-> cpu.sp]
<1>1. frames' = Append(frames, new)
  BY DEF Called
<1> HIDE DEF new
<1>2. QED
  <2>1. /\ Len(frames') = Len(frames) + 1
        /\ DOMAIN frames' = 1 .. Len(frames) + 1
        /\ \A k \in 1 .. Len(frames) : frames'[k] = frames[k]
        /\ frames'[Len(frames) + 1] = new
    BY <1>1
  <2>2. QED
    BY <2>1 DEF new

\* A return takes the newest frame away and leaves the others.
LEMMA ReturnedElements ==
  ASSUME frames \in Seq(Frame), Returned
  PROVE  /\ Len(frames) > 0 /\ Len(frames') = Len(frames) - 1
         /\ DOMAIN frames' = 1 .. Len(frames) - 1
         /\ \A k \in 1 .. Len(frames) - 1 : frames'[k] = frames[k]
<1>1. Len(frames) \in Nat /\ Len(frames) > 0
  BY EmptySeq DEF Returned
<1>2. frames' = SubSeq(frames, 1, Len(frames) - 1)
  BY DEF Returned
<1>3. PICK n : n = Len(frames) - 1
  OBVIOUS
<1>4. n \in Nat /\ 1 \in Int /\ n \in Int /\ \A k \in 1 .. n : frames[k] \in Frame
  BY <1>1, <1>3
<1>5. /\ SubSeq(frames, 1, n) \in Seq(Frame) /\ Len(SubSeq(frames, 1, n)) = n
      /\ \A k \in 1 .. n : SubSeq(frames, 1, n)[k] = frames[k]
  <2>1. /\ SubSeq(frames, 1, n) \in Seq(Frame)
        /\ Len(SubSeq(frames, 1, n)) = IF 1 <= n THEN n - 1 + 1 ELSE 0
        /\ \A k \in 1 .. n - 1 + 1 : SubSeq(frames, 1, n)[k] = frames[1 + k - 1]
    BY <1>4, SubSeqProperties
  <2>2. QED
    BY <1>4, <2>1
<1>6. DOMAIN SubSeq(frames, 1, n) = 1 .. n
  BY <1>5
<1>7. QED
  BY <1>1, <1>2, <1>3, <1>5, <1>6

\* The saved SPs stay in order and above SP through every instruction: a push
\* lowers SP, and a pop that would reach a saved SP leaves the convention.
LEMMA FramesStayNested ==
  ASSUME SessionType, FramesNest, loaded, SingleStep
  PROVE  FramesNest'
<1> SUFFICES ASSUME frames' # Lost
             PROVE  /\ \A k \in DOMAIN frames' : cpu'.sp < frames'[k].sp
                    /\ \A j, k \in DOMAIN frames' :
                         j < k => frames'[k].sp < frames'[j].sp
  BY DEF FramesNest
<1>1. frames # Lost /\ frames \in Seq(Frame)
  BY FramesMove DEF SessionType, Frames
<1>2. cpu.sp \in Nat /\ cpu'.sp \in Nat
  <2>1. TypeOK /\ TypeOK'
    BY SingleStepMachine DEF Passed, SessionType
  <2>2. QED
    BY <2>1, WordTypes DEF TypeOK, CPUState, Word
<1>3. /\ \A k \in DOMAIN frames : cpu.sp < frames[k].sp
      /\ \A j, k \in DOMAIN frames : j < k => frames[k].sp < frames[j].sp
  BY <1>1 DEF FramesNest
<1>4. /\ Len(frames) \in Nat /\ DOMAIN frames = 1 .. Len(frames)
      /\ \A k \in DOMAIN frames : frames[k].sp \in Nat
  BY <1>1, FrameFields
<1>5. CASE Called /\ cpu'.sp < cpu.sp
  <2>1. /\ DOMAIN frames' = 1 .. Len(frames) + 1
        /\ \A k \in 1 .. Len(frames) : frames'[k] = frames[k]
        /\ frames'[Len(frames) + 1].sp = cpu.sp
    BY <1>1, <1>5, CalledElements
  <2>2. \A k \in DOMAIN frames' : k \in DOMAIN frames \/ k = Len(frames) + 1
    BY <1>4, <2>1
  <2>3. \A k \in DOMAIN frames' : cpu'.sp < frames'[k].sp
    BY <1>2, <1>3, <1>4, <1>5, <2>1, <2>2
  <2>4. \A j, k \in DOMAIN frames' : j < k => frames'[k].sp < frames'[j].sp
    BY <1>2, <1>3, <1>4, <2>1, <2>2
  <2>5. QED
    BY <2>3, <2>4
<1>6. CASE Returned
  <2>1. /\ DOMAIN frames' = 1 .. Len(frames) - 1 /\ Len(frames) > 0
        /\ \A k \in 1 .. Len(frames) - 1 : frames'[k] = frames[k]
        /\ cpu'.sp = frames[Len(frames)].sp
    BY <1>1, <1>6, ReturnedElements DEF Returned
  <2>2. \A k \in DOMAIN frames' : k \in DOMAIN frames /\ k < Len(frames)
                                  /\ frames'[k] = frames[k]
    BY <1>4, <2>1
  <2>3. QED
    BY <1>3, <1>4, <2>1, <2>2
<1>7. CASE /\ frames' = frames
           /\ \/ cpu'.sp <= cpu.sp
              \/ frames # <<>> => cpu'.sp < frames[Len(frames)].sp
  <2>1. \A k \in DOMAIN frames : cpu'.sp < frames[k].sp
    <3>1. CASE cpu'.sp <= cpu.sp
      BY <1>2, <1>3, <1>4, <3>1
    <3>2. CASE frames # <<>> => cpu'.sp < frames[Len(frames)].sp
      <4>1. SUFFICES ASSUME NEW k \in DOMAIN frames
                     PROVE  cpu'.sp < frames[k].sp
        OBVIOUS
      <4>2. frames # <<>> /\ Len(frames) \in DOMAIN frames
        BY <1>1, <1>4, <4>1, EmptySeq
      <4>3. k = Len(frames) \/ k < Len(frames)
        BY <1>4, <4>1
      <4>4. QED
        BY <1>2, <1>3, <1>4, <3>2, <4>1, <4>2, <4>3
    <3>3. QED
      BY <1>7, <3>1, <3>2
  <2>2. QED
    BY <1>3, <1>7, <2>1
<1>8. QED
  BY <1>5, <1>6, <1>7, FramesMove

-----------------------------------------------------------------------------
(***************************************************************************)
(* The steps of a session, by what they do to the machine and the command. *)
(***************************************************************************)

\* Setting breakpoints and watchpoints, and commands that find nothing loaded.
Rests ==
  /\ UNCHANGED <<machine, command, started, frames>>
  /\ event' = event \/ (~loaded /\ event' = NoStop)
  /\ Idle \/ UNCHANGED watchpoints

\* step, and next where the machine is not at a CALL.
Steps == Idle /\ loaded /\ StepsOnce

\* A loop is entered.
Entered ==
  \E budget \in Budgets :
    \/ RunCommand(budget)
    \/ FinishCommand(budget)
    \/ AtCall /\ Enter("next", budget, Add(cpu.pc, WordSize), cpu.sp)

\* A loop ends without a step.
Stopped ==
  /\ ~Idle /\ UNCHANGED <<machine, watchpoints, frames>>
  /\ Ends
  /\ event'.pc = cpu.pc
  /\ \/ started' = TRUE
     \/ started' = started /\ event'.reason # "Breakpoint"

\* A loop makes a pass.
Pass ==
  /\ ~Idle /\ command.executed < command.budget
  /\ SingleStep
  /\ Ends \/ (GoesOn /\ Completes)
  /\ \/ event' = SingleStepEvent
     \/ Completes /\ event' = Stop("Breakpoint", cpu'.pc, "None")

\* Each turn of a command's loop is a pass or ends the command.
LEMMA LoopShapes ==
  ASSUME CommandLoop
  PROVE  Stopped \/ Pass
<1>1. CASE RunBreaks
  BY <1>1 DEF RunBreaks, Passing, Idle, Stopped, Stop
<1>2. CASE Exhausted
  BY <1>2 DEF Exhausted, Stopped, Stop, points
<1>3. CASE RunSteps
  BY <1>3 DEF RunSteps, RunAfterStep, Passing, Idle, Pass
<1>4. CASE NextSteps
  <2>1. ~Idle /\ command.executed < command.budget /\ SingleStep
    BY <1>4 DEF NextSteps, Passing, Idle
  <2>2. CASE ~Completes \/ CallReturned
    BY <1>4, <2>1, <2>2 DEF NextSteps, Pass
  <2>3. CASE Completes /\ ~CallReturned
    BY <1>4, <2>1, <2>3 DEF NextSteps, Pass
  <2>4. QED
    BY <2>2, <2>3
<1>5. CASE FinishSteps
  BY <1>5 DEF FinishSteps, Passing, Idle, Pass
<1>6. QED
  BY <1>1, <1>2, <1>3, <1>4, <1>5 DEF CommandLoop

\* Nothing else happens in a session.
LEMMA StepShapes ==
  ASSUME [DebugNext]_dbgVars
  PROVE  Rests \/ LoadProgram \/ Steps \/ Entered \/ Stopped \/ Pass
<1>1. CASE UNCHANGED dbgVars
  BY <1>1 DEF dbgVars, points, Rests
<1>2. CASE NotRunning
  BY <1>2 DEF NotRunning, Rests
<1>3. CASE StepCommand
  BY <1>3 DEF StepCommand, Steps
<1>4. CASE \E address \in BreakAddresses : AddBreakpoint(address)
  BY <1>4 DEF AddBreakpoint, PointsOnly, Rests
<1>5. CASE \E address \in WatchAddresses : AddWatchpoint(address)
  BY <1>5 DEF AddWatchpoint, PointsOnly, Rests
<1>6. CASE \E id \in 1 .. MaxIds : \/ Delete(id)
                                   \/ SetBreakpointEnabled(id, TRUE)
                                   \/ SetBreakpointEnabled(id, FALSE)
  BY <1>6 DEF Delete, SetBreakpointEnabled, PointsOnly, Rests
<1>7. CASE \E budget \in Budgets :
             RunCommand(budget) \/ FinishCommand(budget) \/ NextCommand(budget)
  BY <1>7 DEF NextCommand, Entered, Steps
<1>8. QED
  BY <1>1, <1>2, <1>3, <1>4, <1>5, <1>6, <1>7, LoopShapes
     DEF DebugNext, UserCommand

\* The debugger without a command.
LEMMA NoCommandType == NoCommand \in CommandRecord /\ <<>> \in Frames
<1>1. <<>> \in Seq(Frame)
  OBVIOUS
<1>2. <<>> \in Frames
  BY <1>1 DEF Frames
<1>3. 0 \in Word
  BY WordTypes DEF Word
<1>4. ASSUME NEW none \in Frames
      PROVE  [kind |-> "none", budget |-> 0, executed |-> 0, resume |-> 0,
              depth |-> 0, frames |-> none] \in CommandRecord
  BY <1>3 DEF CommandRecord, Kinds
<1>5. QED
  BY <1>2, <1>4, Zenon DEF NoCommand

\* The types of a command that is entered, goes on or ends.
LEMMA CommandTypes ==
  ASSUME SessionType
  PROVE  /\ NoCommand \in CommandRecord
         /\ GoesOn => command' \in CommandRecord
         /\ Entered => command' \in CommandRecord
<1>1. command \in CommandRecord /\ frames \in Frames /\ TypeOK
  BY DEF SessionType
<1>2. 0 \in Word /\ cpu.sp \in Word /\ Add(cpu.pc, WordSize) \in Word
  <2>1. cpu.sp \in Word /\ cpu.pc \in Word
    BY <1>1 DEF TypeOK, CPUState
  <2>2. 0 \in Word
    BY WordTypes DEF Word
  <2>3. QED
    BY <2>1, <2>2, WordArithmetic, LayoutTypes
<1>3. GoesOn => command' \in CommandRecord
  BY <1>1 DEF GoesOn, CommandRecord
<1>4. ASSUME NEW kind \in Kinds, NEW budget \in Budgets, NEW resume \in Word,
             NEW depth \in Word, Enter(kind, budget, resume, depth)
      PROVE  command' \in CommandRecord
  BY <1>1, <1>4, MachineAssumption DEF Enter, CommandRecord
<1>5. Entered => command' \in CommandRecord
  BY <1>2, <1>4 DEF Entered, RunCommand, FinishCommand, Kinds
<1>6. QED
  BY <1>3, <1>5, NoCommandType

\* Every step of a session keeps the types.
LEMMA TypesStay ==
  ASSUME SessionType, ControlInv, [DebugNext]_dbgVars
  PROVE  SessionType'
<1>1. /\ TypeOK /\ command \in CommandRecord /\ started \in BOOLEAN
      /\ frames \in Frames
  BY DEF SessionType
<1>2. ASSUME UNCHANGED machine PROVE TypeOK'
  BY <1>1, <1>2 DEF machine, TypeOK
<1>3. CASE Rests
  BY <1>1, <1>2, <1>3 DEF Rests, SessionType
<1>4. CASE LoadProgram
  BY <1>1, <1>4, LoadType DEF LoadProgram, SessionType
<1>5. CASE Steps
  BY <1>1, <1>5, SingleStepMachine, FramesType
     DEF Steps, StepsOnce, Passed, SessionType
<1>6. CASE Entered
  <2>1. UNCHANGED <<machine, started, frames>>
    BY <1>6 DEF Entered, RunCommand, FinishCommand, Enter
  <2>2. QED
    BY <1>1, <1>2, <1>6, <2>1, CommandTypes DEF SessionType
<1>7. CASE Stopped
  BY <1>1, <1>2, <1>7, CommandTypes DEF Stopped, Ends, SessionType
<1>8. CASE Pass
  BY <1>1, <1>8, SingleStepMachine, FramesType, CommandTypes
     DEF Pass, Ends, Passed, SessionType, ControlInv
<1>9. QED
  BY <1>3, <1>4, <1>5, <1>6, <1>7, <1>8, StepShapes

\* Only loaded programs are executed, and no loop outruns what its budget left
\* of the instructions.
LEMMA ControlStays ==
  ASSUME SessionType, ControlInv, [DebugNext]_dbgVars
  PROVE  ControlInv'
<1>1. /\ command \in CommandRecord /\ cpu.instruction_count \in Nat
      /\ loads \in Nat /\ MaxInstructions \in Nat /\ TypeOK
  BY MachineAssumption DEF SessionType, TypeOK, CPUState
<1>2. /\ ~call.running /\ (loaded => loads # 0) /\ (started => loaded)
      /\ (loads = 0 => frames = <<>>)
      /\ ~Idle => /\ loaded
                  /\ cpu.instruction_count + command.budget <=
                       MaxInstructions + command.executed
  BY DEF ControlInv
<1>3. CASE Rests
  BY <1>2, <1>3 DEF Rests, machine, ControlInv, Idle
<1>4. CASE LoadProgram
  <2>1. loads' = loads + 1 /\ UNCHANGED <<call, started, command>>
        /\ Idle /\ loads = 0
    BY <1>4 DEF LoadProgram, LoadCall, LoadRejected, LoadUnmappable, LoadCompletes
  <2>2. QED
    BY <1>1, <1>2, <2>1 DEF ControlInv, Idle
<1>5. CASE Steps
  <2>1. UNCHANGED <<call, loaded, loads, command>> /\ Idle /\ loaded
    BY <1>5, SingleStepMachine DEF Steps, StepsOnce, Passed
  <2>2. QED
    BY <1>2, <2>1 DEF ControlInv, Idle
<1>6. CASE Entered
  <2>1. PICK budget, kind, resume, depth :
          budget \in Budgets /\ Enter(kind, budget, resume, depth)
    BY <1>6 DEF Entered, RunCommand, FinishCommand
  <2>2. /\ loaded /\ cpu.instruction_count + budget <= MaxInstructions
        /\ command'.budget = budget /\ command'.executed = 0
        /\ UNCHANGED <<cpu, call, loaded, loads, started, frames>>
    BY <2>1 DEF Enter, machine
  <2>3. budget \in Nat
    BY <2>1, MachineAssumption
  <2>4. cpu'.instruction_count + command'.budget <=
          MaxInstructions + command'.executed
    BY <1>1, <2>2, <2>3
  <2>5. QED
    BY <1>2, <2>2, <2>4 DEF ControlInv
<1>7. CASE Stopped
  <2>1. UNCHANGED <<call, loaded, loads, frames>> /\ Idle' /\ loaded
    BY <1>2, <1>7 DEF Stopped, Ends, NoCommand, Idle, machine
  <2>2. QED
    BY <1>2, <2>1 DEF ControlInv
<1>8. CASE Pass
  <2>1. loaded /\ SingleStep
    BY <1>2, <1>8 DEF Pass
  <2>2. UNCHANGED <<call, loaded, loads>>
        /\ cpu'.instruction_count <= cpu.instruction_count + 1 /\ TypeOK'
    BY <2>1, SingleStepMachine DEF Passed
  <2>3. cpu'.instruction_count \in Nat
    BY <2>2 DEF TypeOK, CPUState
  <2>4. Idle' \/ (cpu'.instruction_count + command'.budget <=
                    MaxInstructions + command'.executed)
    <3>1. CASE Ends
      BY <3>1 DEF Ends, NoCommand, Idle
    <3>2. CASE GoesOn
      <4>1. command'.budget = command.budget /\ command.budget \in Nat
            /\ command'.executed = command.executed + 1 /\ command.executed \in Nat
        BY <1>1, <3>2 DEF GoesOn, CommandRecord
      <4>2. cpu.instruction_count + command.budget <=
              MaxInstructions + command.executed
        BY <1>2, <1>8 DEF Pass
      <4>3. QED
        BY <1>1, <2>2, <2>3, <4>1, <4>2
    <3>3. QED
      BY <1>8, <3>1, <3>2 DEF Pass
  <2>5. QED
    BY <1>2, <2>1, <2>2, <2>4 DEF ControlInv
<1>9. QED
  BY <1>3, <1>4, <1>5, <1>6, <1>7, <1>8, StepShapes

\* What was shown last stays true of the machine.
LEMMA ShownStays ==
  ASSUME SessionType, ControlInv, ShownInv, [DebugNext]_dbgVars
  PROVE  ShownInv'
<1>1. /\ event.reason = "Breakpoint" => started
      /\ started => event.pc = cpu.pc \/ event.reason = "Fault"
  BY DEF ShownInv
<1>2. (loaded => loads # 0) /\ (started => loaded) /\ (~Idle => loaded)
  BY DEF ControlInv
<1>3. CASE Rests
  <2>1. UNCHANGED <<cpu, started>>
    BY <1>3 DEF Rests, machine
  <2>2. QED
    BY <1>1, <1>2, <1>3, <2>1 DEF Rests, ShownInv, NoStop, Stop
<1>4. CASE LoadProgram
  BY <1>1, <1>2, <1>4 DEF LoadProgram, ShownInv
<1>5. CASE Steps
  <2>1. SingleStep /\ event' = SingleStepEvent
    BY <1>5 DEF Steps, StepsOnce
  <2>2. QED
    BY <2>1, EventFacts DEF ShownInv
<1>6. CASE Entered
  <2>1. UNCHANGED <<cpu, started, event>>
    BY <1>6 DEF Entered, RunCommand, FinishCommand, Enter, machine
  <2>2. QED
    BY <1>1, <2>1 DEF ShownInv
<1>7. CASE Stopped
  <2>1. UNCHANGED cpu
    BY <1>7 DEF Stopped, machine
  <2>2. QED
    BY <1>7, <2>1 DEF Stopped, ShownInv
<1>8. CASE Pass
  <2>1. CASE event' = SingleStepEvent
    BY <1>8, <2>1, EventFacts DEF Pass, ShownInv
  <2>2. CASE Completes /\ event' = Stop("Breakpoint", cpu'.pc, "None")
    <3>1. started' = TRUE
      BY <1>8, <2>2, CompletesFacts DEF Pass
    <3>2. QED
      BY <2>2, <3>1 DEF ShownInv, Stop
  <2>3. QED
    BY <1>8, <2>1, <2>2 DEF Pass
<1>9. QED
  BY <1>3, <1>4, <1>5, <1>6, <1>7, <1>8, StepShapes

\* A loop goes on only past a step that left every watched word as it was.
LEMMA NothingOverlooked ==
  ASSUME SessionType, NoChangeOverlooked, [DebugNext]_dbgVars
  PROVE  NoChangeOverlooked'
<1>1. CASE Rests
  <2>1. UNCHANGED <<regions, command>> /\ (Idle \/ UNCHANGED watchpoints)
    BY <1>1 DEF Rests, machine
  <2>2. QED
    BY <2>1 DEF NoChangeOverlooked, Idle, Changed, Readable
<1>2. CASE LoadProgram \/ Steps
  BY <1>2 DEF LoadProgram, Steps, StepsOnce, NoChangeOverlooked, Idle
<1>3. CASE Entered
  <2>1. command'.executed = 0
    BY <1>3 DEF Entered, RunCommand, FinishCommand, Enter
  <2>2. QED
    BY <2>1 DEF NoChangeOverlooked
<1>4. CASE Ends
  BY <1>4 DEF Ends, NoCommand, NoChangeOverlooked, Idle
<1>5. CASE Pass /\ GoesOn /\ Completes
  <2>1. ~Triggers(regions') /\ fault'.error = "None" /\ watchpoints' = watchpoints
    BY <1>5, CompletesFacts DEF Pass
  <2>2. Changed(regions') = {}
    BY <2>1 DEF Triggers
  <2>3. Changed(regions)' = {}
    BY <2>1, <2>2 DEF Changed
  <2>4. QED
    BY <2>3 DEF NoChangeOverlooked
<1>6. QED
  BY <1>1, <1>2, <1>3, <1>4, <1>5, StepShapes DEF Stopped, Pass

\* Every step of a session keeps the calls nested; loading finds none.
LEMMA NestingStays ==
  ASSUME SessionType, ControlInv, FramesNest, [DebugNext]_dbgVars
  PROVE  FramesNest'
<1>1. CASE UNCHANGED <<cpu, frames>>
  BY <1>1 DEF FramesNest
<1>2. CASE LoadProgram
  <2>1. frames' = <<>>
    BY <1>2 DEF LoadProgram, ControlInv
  <2>2. QED
    BY <2>1 DEF FramesNest
<1>3. CASE loaded /\ SingleStep
  BY <1>3, FramesStayNested
<1>4. Rests \/ Entered \/ Stopped => UNCHANGED <<cpu, frames>>
  BY DEF Rests, Entered, RunCommand, FinishCommand, Enter, Stopped, machine
<1>5. Steps \/ Pass => loaded /\ SingleStep
  BY DEF Steps, StepsOnce, Pass, ControlInv
<1>6. QED
  BY <1>1, <1>2, <1>3, <1>4, <1>5, StepShapes

-----------------------------------------------------------------------------
(***************************************************************************)
(* next and finish.                                                        *)
(***************************************************************************)

\* While a command is in its loop nothing happens but its passes.
LEMMA LoopOnly ==
  ASSUME [DebugNext]_dbgVars, ~Idle
  PROVE  CommandLoop \/ UNCHANGED dbgVars
  BY DEF DebugNext, UserCommand, LoadProgram, NotRunning, StepCommand,
         AddBreakpoint, AddWatchpoint, Delete, SetBreakpointEnabled, PointsOnly,
         RunCommand, FinishCommand, NextCommand, Enter

\* A command in progress comes from a pass of the same command, or was entered.
LEMMA CommandGoesOn ==
  ASSUME SessionType, [DebugNext]_dbgVars, ~Idle'
  PROVE  \/ UNCHANGED <<command, frames, cpu, regions>>
         \/ Entered
         \/ ~Idle /\ CommandLoop /\ Pass /\ GoesOn
<1>1. CASE ~Idle
  <2>1. CASE UNCHANGED dbgVars
    BY <2>1 DEF dbgVars, machine
  <2>2. CASE CommandLoop
    <3>1. ~Ends
      BY DEF Ends, NoCommand, Idle
    <3>2. QED
      BY <1>1, <2>2, <3>1, LoopShapes DEF Stopped, Pass
  <2>3. QED
    BY <1>1, <2>1, <2>2, LoopOnly
<1>2. CASE Idle
  <2>1. ~(Rests \/ LoadProgram \/ Steps)
    BY <1>2 DEF Rests, LoadProgram, Steps, StepsOnce, Idle
  <2>2. QED
    BY <1>2, <2>1, StepShapes DEF Stopped, Pass
<1>3. QED
  BY <1>1, <1>2

\* The calls in progress at the command's entry stay, unless the last returns.
LEMMA GrowthStays ==
  ASSUME SessionType, loaded, SingleStep, frames' # Lost, command.frames # Lost,
         Grown, command'.frames = command.frames
  PROVE  Grown' \/ (Returned /\ Len(frames) = Len(command.frames))
<1>1. frames \in Seq(Frame) /\ command.frames \in Seq(Frame)
  <2>1. frames # Lost
    BY FramesMove
  <2>2. QED
    BY <2>1 DEF SessionType, CommandRecord, Frames
<1>2. /\ Len(frames) \in Nat /\ DOMAIN frames = 1 .. Len(frames)
      /\ Len(command.frames) \in Nat
      /\ DOMAIN command.frames = 1 .. Len(command.frames)
  BY <1>1
<1>3. /\ Len(frames) >= Len(command.frames)
      /\ \A k \in DOMAIN command.frames : frames[k] = command.frames[k]
  BY DEF Grown
<1>4. CASE Called
  <2>1. Len(frames') >= Len(command.frames)
        /\ \A k \in DOMAIN command.frames : frames'[k] = command.frames[k]
    BY <1>1, <1>2, <1>3, <1>4, CalledElements
  <2>2. QED
    BY <2>1 DEF Grown
<1>5. CASE Returned /\ Len(frames) # Len(command.frames)
  <2>1. Len(frames') >= Len(command.frames)
        /\ \A k \in DOMAIN command.frames : frames'[k] = command.frames[k]
    BY <1>1, <1>2, <1>3, <1>5, ReturnedElements
  <2>2. QED
    BY <2>1 DEF Grown
<1>6. CASE frames' = frames
  BY <1>3, <1>6 DEF Grown
<1>7. QED
  BY <1>4, <1>5, <1>6, FramesMove

\* finish goes on only inside the function it was entered in.
LEMMA FinishStays ==
  ASSUME SessionType, ControlInv, FramesNest, FinishInv, [DebugNext]_dbgVars
  PROVE  FinishInv'
<1> SUFFICES ASSUME frames' # Lost, command'.frames # Lost,
                    command'.kind = "finish"
             PROVE  /\ Grown'
                    /\ \A k \in DOMAIN command'.frames :
                         command'.depth < command'.frames[k].sp
  BY DEF FinishInv, Conventional
<1>1. ~Idle'
  BY DEF Idle
<1>2. CASE UNCHANGED <<command, frames, cpu, regions>>
  BY <1>2 DEF FinishInv, Conventional, Grown
<1>3. CASE Entered
  <2>1. PICK budget \in Budgets : FinishCommand(budget)
    BY <1>3 DEF Entered, RunCommand, Enter
  <2>2. /\ frames' = frames /\ command'.frames = frames
        /\ command'.depth = cpu.sp
    BY <2>1 DEF FinishCommand, Enter
  <2>3. frames \in Seq(Frame)
    BY <2>2 DEF SessionType, Frames
  <2>4. Len(frames) \in Nat
    BY <2>3
  <2>5. QED
    BY <2>2, <2>4 DEF FramesNest, Grown
<1>4. CASE ~Idle /\ CommandLoop /\ Pass /\ GoesOn
  <2>1. /\ command'.kind = command.kind /\ command'.frames = command.frames
        /\ command'.depth = command.depth
        /\ command.executed # command.executed + 1
        /\ command'.executed = command.executed + 1
    BY <1>4 DEF GoesOn, SessionType, CommandRecord
  <2>2. loaded /\ SingleStep
    BY <1>4 DEF Pass, ControlInv
  <2>3. FinishSteps /\ ~FrameReturned
    <3>1. ~Ends
      BY <1>1 DEF Ends, NoCommand, Idle
    <3>2. FinishSteps
      BY <1>4, <2>1, <3>1
         DEF CommandLoop, RunBreaks, RunSteps, NextSteps, Exhausted, Passing
    <3>3. QED
      BY <3>1, <3>2 DEF FinishSteps
  <2>4. frames # Lost
    BY <2>2, FramesMove
  <2>5. /\ Grown
        /\ \A k \in DOMAIN command.frames : command.depth < command.frames[k].sp
    BY <2>1, <2>4 DEF FinishInv, Conventional
  <2>6. ~(Returned /\ Len(frames) = Len(command.frames))
    <3>1. SUFFICES ASSUME Returned, Len(frames) = Len(command.frames)
                   PROVE  FALSE
      OBVIOUS
    <3>2. frames \in Seq(Frame) /\ command.frames \in Seq(Frame)
      BY <2>1, <2>4 DEF SessionType, CommandRecord, Frames
    <3>3. Len(frames) > 0 /\ Len(frames) \in Nat
      BY <3>1, <3>2, ReturnedElements
    <3>4. Len(frames) \in DOMAIN command.frames
      BY <3>1, <3>2, <3>3
    <3>5. cpu'.sp = command.frames[Len(frames)].sp
      BY <2>5, <3>1, <3>4 DEF Returned, Grown
    <3>6. cpu'.sp > command.depth
      BY <2>5, <3>4, <3>5
    <3>7. QED
      BY <2>3, <3>6 DEF FrameReturned
  <2>7. Grown'
    BY <2>1, <2>2, <2>5, <2>6, GrowthStays
  <2>8. QED
    BY <2>1, <2>5, <2>7
<1>5. QED
  BY <1>1, <1>2, <1>3, <1>4, CommandGoesOn

\* The call that next steps over is in progress.
InCall(calls) ==
  /\ Len(calls) > Len(command.frames)
  /\ \A k \in DOMAIN command.frames : calls[k] = command.frames[k]
  /\ calls[Len(command.frames) + 1] =
       [return |-> command.resume, sp |-> command.depth]

\* A pass of next that completes is still inside that call, with SP below the
\* value it had at the CALL, or has just returned from it.
LEMMA NextPass ==
  ASSUME SessionType, loaded, FramesNest, NextInv, command.kind = "next",
         SingleStep, Completes, frames' # Lost, command.frames # Lost
  PROVE  \/ InCall(frames') /\ cpu'.sp < command.depth
         \/ /\ frames' = command.frames
            /\ cpu'.pc = command.resume /\ cpu'.sp = command.depth
<1>1. frames # Lost
  BY FramesMove
<1>2. PICK cf : cf = command.frames
  OBVIOUS
<1>3. /\ frames \in Seq(Frame) /\ cf \in Seq(Frame) /\ frames' \in Seq(Frame)
      /\ command.executed \in Nat
  BY <1>1, <1>2, FramesType DEF SessionType, CommandRecord, Frames
<1>4. /\ Len(frames) \in Nat /\ DOMAIN frames = 1 .. Len(frames)
      /\ Len(cf) \in Nat /\ DOMAIN cf = 1 .. Len(cf)
      /\ Len(frames') \in Nat /\ DOMAIN frames' = 1 .. Len(frames')
  BY <1>3
<1>5. ASSUME InCall(frames') PROVE cpu'.sp < command.depth
  <2>1. /\ Len(cf) + 1 \in DOMAIN frames'
        /\ frames'[Len(cf) + 1].sp = command.depth
    BY <1>2, <1>4, <1>5 DEF InCall
  <2>2. FramesNest'
    BY FramesStayNested
  <2>3. QED
    BY <2>1, <2>2 DEF FramesNest
<1>6. CASE command.executed = 0
  <2>1. /\ AtCall /\ frames = cf
        /\ command.resume = Add(cpu.pc, WordSize) /\ command.depth = cpu.sp
    BY <1>1, <1>2, <1>6 DEF NextInv, Conventional
  <2>2. Called
    BY <2>1, FramesMove
  <2>3. InCall(frames')
    <3>1. /\ Len(frames') = Len(cf) + 1
          /\ \A k \in 1 .. Len(cf) : frames'[k] = cf[k]
          /\ frames'[Len(cf) + 1] =
               [return |-> command.resume, sp |-> command.depth]
      BY <1>3, <2>1, <2>2, CalledElements
    <3>2. Len(frames') > Len(cf)
      BY <1>4, <3>1
    <3>3. QED
      BY <1>2, <1>4, <3>1, <3>2, Zenon DEF InCall
  <2>4. QED
    BY <1>5, <2>3
<1>7. CASE command.executed > 0
  <2>1. InCall(frames)
    BY <1>1, <1>7 DEF NextInv, Conventional, Grown, InCall
  <2>2. /\ Len(frames) > Len(cf)
        /\ \A k \in DOMAIN cf : frames[k] = cf[k]
        /\ frames[Len(cf) + 1] = [return |-> command.resume, sp |-> command.depth]
    BY <1>2, <2>1 DEF InCall
  <2>3. CASE Called
    <3>1. InCall(frames')
      <4>1. /\ Len(frames') = Len(frames) + 1
            /\ \A k \in 1 .. Len(frames) : frames'[k] = frames[k]
        BY <1>3, <2>3, CalledElements
      <4>2. Len(frames') > Len(cf) /\ Len(cf) + 1 \in 1 .. Len(frames)
            /\ \A k \in 1 .. Len(cf) : k \in 1 .. Len(frames)
        BY <1>4, <2>2, <4>1
      <4>3. QED
        BY <1>2, <1>4, <2>2, <4>1, <4>2, Zenon DEF InCall
    <3>2. QED
      BY <1>5, <3>1
  <2>4. CASE frames' = frames
    <3>1. InCall(frames')
      BY <2>1, <2>4
    <3>2. QED
      BY <1>5, <3>1
  <2>5. CASE Returned
    <3>1. /\ Len(frames') = Len(frames) - 1
          /\ \A k \in 1 .. Len(frames) - 1 : frames'[k] = frames[k]
          /\ cpu'.pc = frames[Len(frames)].return
          /\ cpu'.sp = frames[Len(frames)].sp
      BY <1>3, <2>5, ReturnedElements DEF Returned
    <3>2. CASE Len(frames) = Len(cf) + 1
      <4>1. Len(frames') = Len(cf) /\ \A k \in 1 .. Len(cf) : frames'[k] = cf[k]
        BY <1>4, <2>2, <3>1, <3>2
      <4>2. frames' = cf
        BY <1>3, <4>1, SeqEqual
      <4>3. QED
        BY <1>2, <2>2, <3>1, <3>2, <4>2
    <3>3. CASE Len(frames) > Len(cf) + 1
      <4>1. InCall(frames')
        <5>1. Len(frames') > Len(cf) /\ Len(cf) + 1 \in 1 .. Len(frames) - 1
              /\ \A k \in 1 .. Len(cf) : k \in 1 .. Len(frames) - 1
          BY <1>4, <2>2, <3>1, <3>3
        <5>2. QED
          BY <1>2, <1>4, <2>2, <3>1, <5>1, Zenon DEF InCall
      <4>2. QED
        BY <1>5, <4>1
    <3>4. Len(frames) = Len(cf) + 1 \/ Len(frames) > Len(cf) + 1
      <4>1. Len(frames) > Len(cf)
        BY <2>2
      <4>2. Len(frames) \in Nat /\ Len(cf) \in Nat
        BY <1>4
      <4>3. QED
        BY <4>1, <4>2
    <3>5. QED
      BY <3>2, <3>3, <3>4
  <2>6. QED
    BY <2>3, <2>4, <2>5, FramesMove
<1>8. QED
  BY <1>3, <1>6, <1>7

\* next goes on only inside the call it steps over.
LEMMA NextStays ==
  ASSUME SessionType, ControlInv, FramesNest, NextInv, [DebugNext]_dbgVars
  PROVE  NextInv'
<1> SUFFICES ASSUME frames' # Lost, command'.frames # Lost, command'.kind = "next"
             PROVE  NextInv'
  BY DEF NextInv, Conventional
<1>1. ~Idle'
  BY DEF Idle
<1>2. CASE UNCHANGED <<command, frames, cpu, regions>>
  BY <1>2 DEF NextInv, Conventional, Grown, AtCall, Fetched
<1>3. CASE Entered
  <2>1. PICK budget \in Budgets :
          AtCall /\ Enter("next", budget, Add(cpu.pc, WordSize), cpu.sp)
    BY <1>3 DEF Entered, RunCommand, FinishCommand, Enter
  <2>2. /\ UNCHANGED <<regions, cpu, frames>> /\ command'.frames = frames
        /\ command'.depth = cpu.sp /\ command'.executed = 0
        /\ command'.resume = Add(cpu.pc, WordSize)
    BY <2>1 DEF Enter, machine
  <2>3. AtCall'
    BY <2>1, <2>2 DEF AtCall, Fetched
  <2>4. Grown'
    <3>1. Len(frames) \in Nat
      BY <2>2 DEF SessionType, Frames
    <3>2. QED
      BY <2>2, <3>1 DEF Grown
  <2>5. QED
    BY <2>2, <2>3, <2>4 DEF NextInv
<1>4. CASE ~Idle /\ CommandLoop /\ Pass /\ GoesOn
  <2>1. /\ command'.kind = command.kind /\ command'.frames = command.frames
        /\ command'.depth = command.depth /\ command'.resume = command.resume
        /\ command'.executed = command.executed + 1
        /\ command.executed \in Nat
    BY <1>4 DEF GoesOn, SessionType, CommandRecord
  <2>2. loaded /\ SingleStep
    BY <1>4 DEF Pass, ControlInv
  <2>3. NextSteps /\ Completes /\ ~CallReturned
    <3>1. ~Ends
      BY <1>1 DEF Ends, NoCommand, Idle
    <3>2. NextSteps
      BY <1>4, <2>1, <3>1
         DEF CommandLoop, RunBreaks, RunSteps, FinishSteps, Exhausted, Passing
    <3>3. QED
      BY <3>1, <3>2 DEF NextSteps
  <2>4. InCall(frames')
    <3>1. command.depth \in Nat
      BY WordTypes DEF SessionType, CommandRecord, Word
    <3>2. ~(cpu'.pc = command.resume /\ cpu'.sp = command.depth)
      BY <2>3, <3>1 DEF CallReturned
    <3>3. QED
      BY <2>1, <2>2, <2>3, <3>2, NextPass
  <2>5. QED
    <3>1. Len(frames') \in Nat /\ Len(command.frames) \in Nat
      BY <2>1, <2>2, FramesType DEF SessionType, CommandRecord, Frames
    <3>2. Grown'
      BY <2>1, <2>4, <3>1 DEF InCall, Grown
    <3>3. QED
      BY <2>1, <2>4, <3>2 DEF InCall, NextInv
<1>5. QED
  BY <1>1, <1>2, <1>3, <1>4, CommandGoesOn

-----------------------------------------------------------------------------
(***************************************************************************)
(* The theorems.                                                           *)
(***************************************************************************)

\* A session starts without a program, a command or a stop.
LEMMA SessionInit == DebugInit => SessionInv
<1> SUFFICES ASSUME DebugInit PROVE SessionInv
  OBVIOUS
<1>1. Init /\ command = NoCommand /\ frames = <<>> /\ started = FALSE
      /\ event = NoStop
  BY DEF DebugInit
<1>2. TypeOK
  BY <1>1, InitType
<1>5. SessionType
  BY <1>1, <1>2, NoCommandType DEF SessionType
<1>6. command.kind = "none" /\ Idle
  BY <1>1 DEF NoCommand, Idle
<1>7. ~call.running /\ loaded = FALSE
  BY <1>1 DEF Init, NoCall
<1>8. ControlInv
  BY <1>1, <1>6, <1>7 DEF ControlInv
<1>9. ShownInv
  BY <1>1 DEF ShownInv, NoStop, Stop
<1>10. FramesNest
  BY <1>1 DEF FramesNest
<1>11. NoChangeOverlooked /\ FinishInv /\ NextInv
  BY <1>6 DEF NoChangeOverlooked, FinishInv, NextInv
<1>12. QED
  BY <1>5, <1>8, <1>9, <1>10, <1>11 DEF SessionInv

\* The invariant is inductive.
LEMMA SessionStep == SessionInv /\ [DebugNext]_dbgVars => SessionInv'
  BY TypesStay, ControlStays, ShownStays, NothingOverlooked, NestingStays,
     FinishStays, NextStays
  DEF SessionInv

\* It holds throughout every session.
LEMMA SessionInvariant == DebugSpec => []SessionInv
  BY SessionInit, SessionStep, PTL DEF DebugSpec

\* Seen from the machine a step of a session is a call of load() or step(), made
\* when the machine allows it, or nothing.
LEMMA SessionMachineStep ==
  ASSUME SessionInv, [DebugNext]_dbgVars
  PROVE  [Next]_vars
<1>1. SessionType /\ ControlInv
  BY DEF SessionInv
<1>2. Rests \/ Entered \/ Stopped => UNCHANGED vars
  BY DEF Rests, Entered, RunCommand, FinishCommand, Enter, Stopped, machine, vars
<1>3. LoadProgram => Next
  BY DEF LoadProgram, Next, ClientCalls
<1>4. Steps => [Next]_vars
  BY <1>1, SingleStepCalls DEF Steps, StepsOnce, ControlInv
<1>5. ASSUME Pass PROVE [Next]_vars
  <2>1. /\ SingleStep /\ ~call.running /\ command.executed < command.budget
        /\ cpu.instruction_count + command.budget <=
             MaxInstructions + command.executed
    BY <1>1, <1>5 DEF Pass, ControlInv
  <2>2. /\ cpu.instruction_count \in Nat /\ command.budget \in Nat
        /\ command.executed \in Nat /\ MaxInstructions \in Nat
    BY <1>1, MachineAssumption
       DEF SessionType, TypeOK, CPUState, CommandRecord
  <2>3. cpu.instruction_count < MaxInstructions
    BY <2>1, <2>2
  <2>4. QED
    BY <2>1, <2>3, SingleStepCalls
<1>6. QED
  BY <1>2, <1>3, <1>4, <1>5, StepShapes

\* The debugger implements the virtual machine: every session, hidden what is
\* the debugger's own, is a behaviour of module VirtualMachine, so the machine
\* keeps under the debugger everything that is proved of it alone.
THEOREM DebuggerDrivesTheMachine == DebugSpec => Spec
<1>1. DebugInit => Init
  BY DEF DebugInit
<1>2. SessionInv /\ [DebugNext]_dbgVars => [Next]_vars
  BY SessionMachineStep
<1>3. QED
  BY <1>1, <1>2, SessionInvariant, PTL DEF DebugSpec, Spec

\* So stepping a program with the debugger keeps the stack inside its bounds,
\* executes only code of the image and reports precise faults.
THEOREM DebuggedMachineIsSafe ==
  DebugSpec => []StackDiscipline /\ []ExecutesImageCode /\ FaultsArePrecise
  BY DebuggerDrivesTheMachine, StackIsKept, OnlyImageCodeExecutes,
     FaultsAreAlwaysPrecise, PTL

\* While run, next or finish goes on, every watched word is what the debugger
\* last saw: checkWatchpoints() after each step misses no change, however many
\* watchpoints there are and in whatever order they trigger.
THEOREM NoChangeIsOverlooked == DebugSpec => []NoChangeOverlooked
<1>1. SessionInv => NoChangeOverlooked
  BY DEF SessionInv
<1>2. QED
  BY <1>1, SessionInvariant, PTL

\* In a program that keeps the calling convention next goes on only while the
\* call it steps over is in progress and finish only while the function it was
\* entered in is, whatever that function calls, pushes and pops.
THEOREM SteppingAlwaysStaysInFrame == DebugSpec => []SteppingStaysInFrame
<1>1. SessionInv => SteppingStaysInFrame
  BY DEF SessionInv, SteppingStaysInFrame, FinishInv, NextInv, Grown
<1>2. QED
  BY <1>1, SessionInvariant, PTL

\* The step with which next reports completion: the test on PC and SP in
\* stepOver() lets only the return from its own call through.
LEMMA NextStopsStep ==
  ASSUME SessionInv, [DebugNext]_dbgVars, StoppingBy("next", "StepComplete"),
         Conventional, frames' # Lost
  PROVE  frames' = command.frames
<1>1. /\ SessionType /\ ControlInv /\ FramesNest /\ NextInv
      /\ command.kind = "next" /\ command'.kind = "none"
      /\ event'.reason = "StepComplete" /\ ~Idle /\ command.frames # Lost
  BY DEF SessionInv, StoppingBy, Stopping, Idle, Conventional
<1>2. CommandLoop
  BY <1>1, LoopOnly DEF dbgVars
<1>3. ~Exhausted
  BY <1>1 DEF Exhausted, Stop
<1>4. NextSteps
  BY <1>1, <1>2, <1>3 DEF CommandLoop, RunBreaks, RunSteps, FinishSteps, Passing
<1>5. Completes /\ CallReturned /\ SingleStep
  <2>1. ~GoesOn
    BY <1>1 DEF GoesOn, SessionType, CommandRecord
  <2>2. CASE ~Completes
    <3>1. event' = SingleStepEvent
      BY <1>4, <2>2 DEF NextSteps
    <3>2. QED
      BY <1>1, <2>2, <3>1 DEF Completes
  <2>3. CASE Completes /\ ~CallReturned
    BY <1>1, <1>4, <2>1, <2>3 DEF NextSteps, Stop
  <2>4. QED
    BY <1>4, <2>2, <2>3 DEF NextSteps
<1>6. ~(cpu'.sp < command.depth)
  <2>1. command.depth \in Nat /\ TypeOK'
    BY <1>1, TypesStay, WordTypes DEF SessionType, CommandRecord, Word
  <2>2. cpu'.sp \in Nat
    BY <2>1, WordTypes DEF TypeOK, CPUState, Word
  <2>3. QED
    BY <1>5, <2>1, <2>2 DEF CallReturned
<1>7. QED
  BY <1>1, <1>5, <1>6, NextPass DEF ControlInv

\* next over a CALL reports completion exactly where that call returned to: the
\* calls in progress are those before it, however often the callee has passed
\* the same return address in deeper calls of itself.
THEOREM NextAlwaysStopsAtReturn == DebugSpec => NextStopsAtReturn
<1>1. SessionInv /\ [DebugNext]_dbgVars =>
        [StoppingBy("next", "StepComplete") /\ Conventional /\ frames' # Lost =>
           frames' = command.frames]_dbgVars
  BY NextStopsStep
<1>2. QED
  BY <1>1, SessionInvariant, PTL DEF DebugSpec, NextStopsAtReturn

\* The step with which run stops at a breakpoint after a stop at a breakpoint.
LEMMA ContinueStep ==
  ASSUME SessionInv, [DebugNext]_dbgVars, StoppingBy("run", "Breakpoint"),
         event.reason = "Breakpoint"
  PROVE  command.executed > 0
<1>1. /\ started /\ command.kind = "run" /\ command'.kind = "none"
      /\ event'.reason = "Breakpoint" /\ ~Idle
  BY DEF SessionInv, ShownInv, StoppingBy, Stopping, Idle
<1>2. CommandLoop
  BY <1>1, LoopOnly DEF dbgVars
<1>3. ~RunSteps
  BY <1>1, EventFacts DEF RunSteps
<1>4. RunBreaks
  <2>1. ~NextSteps /\ ~FinishSteps
    BY <1>1 DEF NextSteps, FinishSteps, Passing
  <2>2. ~Exhausted
    <3>1. Exhausted => event'.reason = "Fault"
      BY DEF Exhausted, Stop
    <3>2. QED
      BY <1>1, <3>1
  <2>3. QED
    BY <1>2, <1>3, <2>1, <2>2 DEF CommandLoop
<1>5. QED
  BY <1>1, <1>4 DEF RunBreaks, LooksForBreakpoint

\* Continuing from a breakpoint executes at least one instruction before run can
\* stop at a breakpoint again, also when the first stop was at the entry point
\* before anything had been executed.
THEOREM ContinueAlwaysMakesProgress == DebugSpec => ContinueMakesProgress
<1>1. SessionInv /\ [DebugNext]_dbgVars =>
        [StoppingBy("run", "Breakpoint") /\ event.reason = "Breakpoint" =>
           command.executed > 0]_dbgVars
  BY ContinueStep
<1>2. QED
  BY <1>1, SessionInvariant, PTL DEF DebugSpec, ContinueMakesProgress

\* The pass with which run executes an instruction under a breakpoint.
LEMMA ShownStep ==
  ASSUME SessionInv, [DebugNext]_dbgVars, Executes("run"),
         breakpointAt(cpu.pc) # NoBreakpoint
  PROVE  /\ command.executed = 0
         /\ event.pc = cpu.pc \/ event.reason = "Fault"
<1>1. /\ command.kind = "run" /\ ~Idle /\ command.executed \in Nat
      /\ cpu.instruction_count \in Nat
      /\ cpu'.instruction_count > cpu.instruction_count
  BY DEF SessionInv, SessionType, CommandRecord, TypeOK, CPUState, Executes, Idle
<1>2. cpu' # cpu
  BY <1>1
<1>3. CommandLoop
  BY <1>1, <1>2, LoopOnly DEF dbgVars, machine
<1>4. RunSteps
  <2>1. ~NextSteps /\ ~FinishSteps
    BY <1>1 DEF NextSteps, FinishSteps, Passing
  <2>2. ~RunBreaks /\ ~Exhausted
    BY <1>2 DEF RunBreaks, Exhausted, machine
  <2>3. QED
    BY <1>3, <2>1, <2>2 DEF CommandLoop
<1>5. ~LooksForBreakpoint
  BY <1>4 DEF RunSteps
<1>6. command.executed = 0 /\ started
  BY <1>1, <1>5 DEF LooksForBreakpoint
<1>7. QED
  BY <1>6 DEF SessionInv, ShownInv

\* run executes the instruction under an enabled breakpoint only as its first,
\* and only when the user has just been shown the machine there, or a fault.
THEOREM BreakpointsAreAlwaysShown == DebugSpec => BreakpointsAreShown
<1>1. SessionInv /\ [DebugNext]_dbgVars =>
        [Executes("run") /\ breakpointAt(cpu.pc) # NoBreakpoint =>
           /\ command.executed = 0
           /\ event.pc = cpu.pc \/ event.reason = "Fault"]_dbgVars
  BY ShownStep
<1>2. QED
  BY <1>1, SessionInvariant, PTL DEF DebugSpec, BreakpointsAreShown

-----------------------------------------------------------------------------
(***************************************************************************)
(* The backtrace.  What makes a saved return address recognisable is kept  *)
(* for every call in progress: it follows a CALL, in code that no store    *)
(* can change.                                                             *)
(***************************************************************************)
FollowsCall(mapped, candidate) ==
  LET site == candidate - WordSize IN
  /\ candidate % WordSize = 0 /\ candidate >= WordSize
  /\ checkAccess(mapped, site, WordSize, "Exec") = "Ok"
  /\ Decode(WordAt(mapped, site)) # Undecodable
  /\ Decode(WordAt(mapped, site)).opcode = "CALL"

\* Each call in progress was made by a CALL from a whole slot of the stack.
CallsInv ==
  frames # Lost =>
    \A k \in DOMAIN frames :
      /\ frames[k].sp <= StackTop /\ (StackTop - frames[k].sp) % WordSize = 0
      /\ FollowsCall(regions, frames[k].return)

\* What the machine contributes.
MachineInv == ImageInv /\ RegionsDisjoint /\ StackDiscipline

\* validate() refuses segments that are writable and executable, and the stack
\* and the heap are not executable.
LEMMA ExecNotWritable ==
  ASSUME TypeOK, ImageInv, NEW k \in DOMAIN regions, "Exec" \in regions[k].permissions
  PROVE  "Write" \notin regions[k].permissions
<1> DEFINE total == Len(image.segments)
<1>1. WellFormed(regions)
  BY DEF TypeOK
<1>2. Len(regions) \in Nat /\ DOMAIN regions = 1 .. Len(regions)
  BY <1>1 DEF WellFormed
<1>3. regions # <<>>
  BY <1>2
<1>4. /\ image \in Executable /\ validate(image)
      /\ Len(regions) <= total + 2
      /\ SameMapping(regions[k], Layout(image)[k])
  BY <1>2, <1>3 DEF ImageInv
<1>5. image.segments \in Seq(Segment) /\ total \in Nat
  BY <1>4 DEF Executable
<1>6. "Exec" \in Layout(image)[k].permissions
      /\ regions[k].permissions = Layout(image)[k].permissions
  BY <1>4 DEF SameMapping
<1>7. k \in 1 .. total
  <2>1. "Exec" \notin StackMapping.permissions /\ "Exec" \notin HeapMapping.permissions
    BY DEF StackMapping, HeapMapping, Mapping
  <2>2. k # total + 1 /\ k # total + 2
    BY <1>4, <1>5, <1>6, <2>1, LayoutSegments
  <2>3. QED
    BY <1>2, <1>4, <1>5, <2>2
<1> DEFINE segment == image.segments[k]
<1>8. Layout(image)[k] = SegmentMapping(segment)
  BY <1>4, <1>5, <1>7, LayoutSegments
<1>9. SegmentWellFormed(segment)
  <2>1. k \in DOMAIN image.segments
    BY <1>5, <1>7
  <2>2. QED
    BY <1>4, <2>1 DEF validate
<1> HIDE DEF segment
<1>10. SegmentMapping(segment).permissions = permissionsOf(segment.flags)
  BY DEF SegmentMapping, Mapping
<1>11. "Exec" \in segment.flags
  BY <1>6, <1>8, <1>10 DEF permissionsOf
<1>12. QED
  BY <1>6, <1>8, <1>9, <1>10, <1>11 DEF SegmentWellFormed, permissionsOf

\* A step of the machine leaves the code where it is and as it is.
LEMMA CodeStays ==
  ASSUME TypeOK, ImageInv, RegionsDisjoint, Evolves(regions, regions'),
         NEW address \in Word, checkAccess(regions, address, WordSize, "Exec") = "Ok"
  PROVE  /\ checkAccess(regions', address, WordSize, "Exec") = "Ok"
         /\ WordAt(regions', address) = WordAt(regions, address)
<1> DEFINE i == regionAt(regions, address)
           j == regionAt(regions', address)
           n == Len(regions)
<1>1. /\ WellFormed(regions) /\ WordSize \in Nat /\ WordSize > 0 /\ "Exec" \in Permission
      /\ address \in Nat
  BY WordTypes DEF TypeOK, Permission, Word
<1>2. /\ i \in DOMAIN regions /\ regions[i].base <= address
      /\ address - regions[i].base + WordSize <= regions[i].size
      /\ "Exec" \in regions[i].permissions
  BY <1>1, CheckedAccess
<1>3. "Write" \notin regions[i].permissions
  BY <1>2, ExecNotWritable
<1>4. /\ n \in Nat /\ DOMAIN regions = 1 .. n /\ DOMAIN regions' = 1 .. n
  BY <1>1 DEF WellFormed, Evolves
<1>5. /\ regions[i].base \in Nat /\ regions[i].size \in Nat
  BY <1>1, <1>2, RegionTypes
<1> HIDE DEF i, n
<1>6. \A k \in 1 .. n : /\ regions'[k].base = regions[k].base
                        /\ regions'[k].size = regions[k].size
                        /\ regions'[k].permissions = regions[k].permissions
  BY DEF Evolves, n
<1>7. regions'[i].data = regions[i].data
  BY <1>2, <1>3, <1>4 DEF Evolves, n
<1>8. Contains(regions'[i], address)
  BY <1>1, <1>2, <1>4, <1>5, <1>6 DEF Contains
<1>9. j # NoRegion /\ j \in 1 .. n /\ Contains(regions'[j], address)
  BY <1>2, <1>4, <1>8, RegionAtFacts
<1> HIDE DEF j
<1>10. j = i
  <2>1. SUFFICES ASSUME j # i PROVE FALSE
    OBVIOUS
  <2>2. \/ regions[i].base + regions[i].size <= regions[j].base
        \/ regions[j].base + regions[j].size <= regions[i].base
    BY <1>2, <1>4, <1>9, <2>1 DEF RegionsDisjoint
  <2>3. regions[j].base \in Nat /\ regions[j].size \in Nat
    BY <1>1, <1>4, <1>9, RegionTypes
  <2>4. regions[j].base <= address /\ address - regions[j].base < regions[j].size
    BY <1>6, <1>9 DEF Contains
  <2>5. QED
    BY <1>1, <1>2, <1>5, <2>2, <2>3, <2>4
<1>11. checkAccess(regions', address, WordSize, "Exec") = "Ok"
  <2>1. ~(WordSize > regions'[j].size - (address - regions'[j].base))
        /\ "Exec" \in regions'[j].permissions
    BY <1>1, <1>2, <1>4, <1>5, <1>6, <1>10
  <2>2. QED
    BY <1>9, <2>1 DEF checkAccess, j
<1>12. BytesAt(regions', address, WordSize) = BytesAt(regions, address, WordSize)
  BY <1>2, <1>4, <1>6, <1>7, <1>10 DEF BytesAt, i, j
<1>13. QED
  BY <1>11, <1>12 DEF WordAt

\* So what follows a CALL does so after the step.
LEMMA FollowsStays ==
  ASSUME TypeOK, ImageInv, RegionsDisjoint, NEW candidate \in Word,
         Evolves(regions, regions') \/ UNCHANGED regions, FollowsCall(regions, candidate)
  PROVE  FollowsCall(regions', candidate)
<1> DEFINE site == candidate - WordSize
<1>1. site \in Word
  BY WordTypes DEF FollowsCall, Word
<1>2. checkAccess(regions, site, WordSize, "Exec") = "Ok"
  BY DEF FollowsCall
<1>3. CASE UNCHANGED regions
  BY <1>3 DEF FollowsCall
<1>4. CASE Evolves(regions, regions')
  <2>1. /\ checkAccess(regions', site, WordSize, "Exec") = "Ok"
        /\ WordAt(regions', site) = WordAt(regions, site)
    BY <1>1, <1>2, <1>4, CodeStays
  <2>2. QED
    BY <2>1 DEF FollowsCall
<1>5. QED
  BY <1>3, <1>4

\* Only a CALL that succeeded adds a frame.
LEMMA CalledByCall ==
  ASSUME SessionType, loaded, SingleStep, frames' # Lost, Called
  PROVE  /\ Aligned(cpu.pc) /\ FetchError = "None"
         /\ Decode(Fetched) # Undecodable /\ Decode(Fetched).opcode = "CALL"
<1>1. frames # Lost /\ frames \in Seq(Frame) /\ TypeOK
  BY FramesMove DEF SessionType, Frames
<1>2. Len(frames) \in Nat /\ Len(frames') = Len(frames) + 1
  BY <1>1, CalledElements
<1>3. frames' # frames
  BY <1>2
<1>4. ~Returned
  BY <1>1, <1>2, ReturnedElements
<1>5. ~cpu.halted /\ Step /\ frames' = FramesAfter
  BY <1>3 DEF SingleStep
<1>6. fault'.error = "None"
  BY <1>1, <1>3, <1>5 DEF FramesAfter
<1>7. StepExecutes
  BY <1>1, <1>5, <1>6, SuccessExecutes
<1>8. Decode(Fetched).opcode = "CALL"
  <2> DEFINE opcode == Decode(Fetched).opcode
             top == frames[Len(frames)]
             back == frames # <<>> /\ cpu'.pc = top.return /\ cpu'.sp = top.sp
  <2>1. /\ opcode = "RET" => frames' = IF back THEN SubSeq(frames, 1, Len(frames) - 1)
                                       ELSE Lost
        /\ opcode = "POP" => frames' \in {Lost, frames}
        /\ opcode \notin {"CALL", "RET", "POP"} => frames' = frames
    BY <1>1, <1>5, <1>6 DEF FramesAfter
  <2>2. opcode # "RET"
    BY <1>4, <2>1, frames' # Lost DEF Returned
  <2>3. QED
    BY <1>3, <2>1, <2>2, frames' # Lost
<1>9. QED
  BY <1>7, <1>8 DEF StepExecutes

\* The return address that such a CALL saves follows it.
LEMMA SavedFollowsCall ==
  ASSUME TypeOK, Aligned(cpu.pc), FetchError = "None",
         Decode(Fetched) # Undecodable, Decode(Fetched).opcode = "CALL"
  PROVE  FollowsCall(regions, Add(cpu.pc, WordSize))
<1> DEFINE i == regionAt(regions, cpu.pc)
<1>1. cpu.pc \in Word /\ WellFormed(regions) /\ "Exec" \in Permission
      /\ WordSize \in Nat /\ cpu.pc \in Nat
  BY WordTypes DEF TypeOK, CPUState, Permission, Word
<1>2. checkAccess(regions, cpu.pc, WordSize, "Exec") = "Ok"
  BY <1>1, AccessErrorFacts DEF FetchError
<1>3. /\ i \in DOMAIN regions
      /\ cpu.pc - regions[i].base + WordSize <= regions[i].size
  BY <1>1, <1>2, CheckedAccess
<1> HIDE DEF i
<1>4. /\ regions[i].base \in Nat /\ regions[i].size \in Nat
      /\ regions[i].base + regions[i].size < WordModulus
  BY <1>1, <1>3, RegionTypes
<1>5. Add(cpu.pc, WordSize) = cpu.pc + WordSize
  BY <1>1, <1>3, <1>4, WordTypes DEF Add
<1>6. (cpu.pc + WordSize) - WordSize = cpu.pc /\ cpu.pc + WordSize >= WordSize
  BY <1>1
<1>7. (cpu.pc + WordSize) % WordSize = 0
  <2>1. cpu.pc \in Int /\ WordSize \in Int /\ cpu.pc % WordSize = 0
    BY <1>1 DEF Aligned
  <2>2. QED
    BY <2>1, WordSizeAligned, AlignedSums, Zenon
<1> DEFINE candidate == cpu.pc + WordSize
<1>8. candidate - WordSize = cpu.pc
  BY <1>6, Zenon
<1> HIDE DEF candidate
<1>9. FollowsCall(regions, candidate)
  <2>1. candidate % WordSize = 0 /\ candidate >= WordSize
    BY <1>6, <1>7 DEF candidate
  <2>2. QED
    BY <1>2, <1>8, <2>1 DEF FollowsCall, Fetched
<1>10. QED
  BY <1>5, <1>9 DEF candidate

\* Every instruction keeps what CallsInv says of the calls in progress.
LEMMA CallsStep ==
  ASSUME SessionType, MachineInv, CallsInv, loaded, SingleStep
  PROVE  CallsInv'
<1> SUFFICES ASSUME frames' # Lost
             PROVE  \A k \in DOMAIN frames' :
                      /\ frames'[k].sp <= StackTop
                      /\ (StackTop - frames'[k].sp) % WordSize = 0
                      /\ FollowsCall(regions', frames'[k].return)
  BY DEF CallsInv, FollowsCall
<1>1. /\ TypeOK /\ ImageInv /\ RegionsDisjoint /\ StackDiscipline
      /\ frames # Lost /\ frames \in Seq(Frame)
  BY FramesMove DEF SessionType, Frames, MachineInv
<1>2. Evolves(regions, regions') \/ UNCHANGED regions
  BY <1>1, StepEffect DEF SingleStep, machine, StepStays, Stays, Effect, memory
<1>3. Len(frames) \in Nat /\ DOMAIN frames = 1 .. Len(frames)
  BY <1>1
<1>4. ASSUME NEW k \in DOMAIN frames
      PROVE  /\ frames[k].sp <= StackTop
             /\ (StackTop - frames[k].sp) % WordSize = 0
             /\ FollowsCall(regions', frames[k].return)
  <2>1. frames[k].return \in Word
    <3>1. frames[k] \in Frame
      BY <1>1
    <3>2. QED
      BY <3>1 DEF Frame
  <2>2. /\ frames[k].sp <= StackTop
        /\ (StackTop - frames[k].sp) % WordSize = 0
        /\ FollowsCall(regions, frames[k].return)
    BY <1>1 DEF CallsInv
  <2>3. QED
    BY <1>1, <1>2, <2>1, <2>2, FollowsStays
<1>5. CASE Called
  <2> DEFINE return == Add(cpu.pc, WordSize)
  <2>1. /\ DOMAIN frames' = 1 .. Len(frames) + 1
        /\ \A k \in 1 .. Len(frames) : frames'[k] = frames[k]
        /\ frames'[Len(frames) + 1].sp = cpu.sp
        /\ frames'[Len(frames) + 1].return = return
    BY <1>1, <1>5, CalledElements
  <2>2. return \in Word
    <3>1. cpu.pc \in Word /\ WordSize \in Word
      BY <1>1, LayoutTypes, WordTypes DEF TypeOK, CPUState, Word
    <3>2. QED
      BY <3>1, WordArithmetic
  <2>3. FollowsCall(regions, return)
    BY <1>1, <1>5, CalledByCall, SavedFollowsCall
  <2> HIDE DEF return
  <2>4. FollowsCall(regions', return)
    BY <1>1, <1>2, <2>2, <2>3, FollowsStays
  <2>5. cpu.sp <= StackTop /\ (StackTop - cpu.sp) % WordSize = 0
    BY <1>1 DEF StackDiscipline
  <2>6. \A k \in DOMAIN frames' : k \in DOMAIN frames \/ k = Len(frames) + 1
    BY <1>3, <2>1
  <2>7. QED
    BY <1>3, <1>4, <2>1, <2>4, <2>5, <2>6
<1>6. CASE Returned
  <2>1. /\ DOMAIN frames' = 1 .. Len(frames) - 1
        /\ \A k \in 1 .. Len(frames) - 1 : frames'[k] = frames[k]
    BY <1>1, <1>6, ReturnedElements
  <2>2. \A k \in DOMAIN frames' : k \in DOMAIN frames /\ frames'[k] = frames[k]
    BY <1>3, <2>1
  <2>3. QED
    BY <1>4, <2>2
<1>7. CASE frames' = frames
  BY <1>4, <1>7
<1>8. QED
  BY <1>5, <1>6, <1>7, FramesMove

\* Every step of a session does; loading finds no call in progress.
LEMMA CallsStay ==
  ASSUME SessionInv, MachineInv, CallsInv, [DebugNext]_dbgVars
  PROVE  CallsInv'
<1>1. SessionType /\ ControlInv
  BY DEF SessionInv
<1>2. CASE UNCHANGED <<regions, frames>>
  BY <1>2 DEF CallsInv
<1>3. CASE LoadProgram
  <2>1. frames' = <<>>
    BY <1>1, <1>3 DEF LoadProgram, ControlInv
  <2>2. QED
    BY <2>1 DEF CallsInv
<1>4. CASE loaded /\ SingleStep
  BY <1>1, <1>4, CallsStep
<1>5. Rests \/ Entered \/ Stopped => UNCHANGED <<regions, frames>>
  BY DEF Rests, Entered, RunCommand, FinishCommand, Enter, Stopped, machine
<1>6. Steps \/ Pass => loaded /\ SingleStep
  BY <1>1 DEF Steps, StepsOnce, Pass, ControlInv
<1>7. QED
  BY <1>2, <1>3, <1>4, <1>5, <1>6, StepShapes

\* The machine's part and the debugger's hold throughout every session.
LEMMA CallsInvariant == DebugSpec => [](SessionInv /\ MachineInv /\ CallsInv)
<1>1. DebugInit => CallsInv
  BY DEF DebugInit, CallsInv
<1>2. DebugSpec => []MachineInv
  BY DebuggerDrivesTheMachine, ImageInvariant, RegionsStayDisjoint, StackIsKept, PTL
     DEF MachineInv
<1>3. SessionInv /\ MachineInv /\ CallsInv /\ [DebugNext]_dbgVars => CallsInv'
  BY CallsStay
<1>4. QED
  BY <1>1, <1>2, <1>3, SessionInvariant, PTL DEF DebugSpec

\* The slot a call saved its return address in is one that formatBacktrace()
\* looks at.
LEMMA SavedSlot ==
  ASSUME SessionInv, MachineInv, CallsInv, loaded, frames # Lost, NEW k \in DOMAIN frames
  PROVE  frames[k].sp - WordSize \in Slots
<1> DEFINE sp == frames[k].sp
           slot == sp - WordSize
           top == StackTop - sp
           used == StackTop - cpu.sp
<1>1. /\ cpu.sp \in Nat /\ StackTop \in Nat /\ WordSize \in Nat /\ WordSize > 0
      /\ used % WordSize = 0
  BY LayoutTypes, WordTypes
     DEF SessionInv, SessionType, TypeOK, CPUState, MachineInv, StackDiscipline, Word
<1>2. sp \in Nat /\ cpu.sp < sp /\ sp <= StackTop /\ top % WordSize = 0
  <2>1. frames \in Seq(Frame)
    BY DEF SessionInv, SessionType, Frames
  <2>2. QED
    BY <2>1, FrameFields DEF SessionInv, FramesNest, CallsInv
<1>3. top \in Int /\ used \in Int /\ top < used
  BY <1>1, <1>2
<1> HIDE DEF sp, top, used
<1>4. top + WordSize <= used /\ (used - top) % WordSize = 0
  <2>1. top + WordSize <= used
    BY <1>1, <1>2, <1>3, AlignedGap, Zenon
  <2>2. (used - top) % WordSize = 0
    BY <1>1, <1>2, <1>3, AlignedSums, Zenon
  <2>3. QED
    BY <2>1, <2>2
<1>5. used - top = sp - cpu.sp
  <2>1. \A t, s, c \in Int : (t - c) - (t - s) = s - c
    OBVIOUS
  <2>2. StackTop \in Int /\ sp \in Int /\ cpu.sp \in Int
    BY <1>1, <1>2
  <2>3. QED
    BY <2>1, <2>2, Zenon DEF top, used
<1>6. cpu.sp <= slot /\ slot < StackTop /\ slot \in Int
  <2>1. sp - cpu.sp >= WordSize
    BY <1>1, <1>3, <1>4, <1>5
  <2>2. QED
    BY <1>1, <1>2, <2>1
<1>7. (slot - cpu.sp) % WordSize = 0
  <2>1. (used - top - WordSize) % WordSize = 0
    <3>1. used - top \in Int /\ WordSize \in Int
      BY <1>1, <1>3
    <3>2. QED
      BY <1>4, <3>1, WordSizeAligned, AlignedSums, Zenon
  <2>2. slot - cpu.sp = used - top - WordSize
    BY <1>1, <1>2, <1>5
  <2>3. QED
    BY <2>1, <2>2
<1>8. QED
  BY <1>1, <1>6, <1>7 DEF Slots, sp

\* A candidate that is left out has max_frames - 1 that are not before it: those
\* below the first one left out.
LEMMA LeftOutWhenFull ==
  ASSUME cpu.sp \in Nat, StackTop \in Nat, MaxFrames \in Nat,
         1 + Cardinality(Backtrace) < MaxFrames
  PROVE  Candidates \subseteq Backtrace
<1> DEFINE Out == Candidates \ Backtrace
           Before(address) == {newer \in Candidates : newer < address}
<1>1. Candidates \subseteq cpu.sp .. StackTop - 1
  BY DEF Candidates, Slots
<1>2. IsFiniteSet(Candidates) /\ Candidates \subseteq Nat
  <2>1. cpu.sp \in Int /\ StackTop - 1 \in Int
    OBVIOUS
  <2>2. IsFiniteSet(cpu.sp .. StackTop - 1)
    BY <2>1, FS_Interval
  <2>3. IsFiniteSet(Candidates)
    BY <1>1, <2>2, FS_Subset, Zenon
  <2>4. QED
    BY <1>1, <2>3
<1>3. Backtrace \subseteq Candidates
  BY DEF Backtrace
<1>4. SUFFICES ASSUME Out # {} PROVE FALSE
  OBVIOUS
<1>5. PICK first \in Out : \A other \in Out : first <= other
  <2>1. Out \subseteq Nat
    BY <1>2
  <2> HIDE DEF Out
  <2>2. QED
    BY <1>4, <2>1, LeastNumber
<1>6. Before(first) \subseteq Backtrace
  <2>1. ASSUME NEW newer \in Before(first), newer \notin Backtrace PROVE FALSE
    <3>1. newer \in Out /\ newer < first /\ newer \in Nat /\ first \in Nat
      BY <1>2, <1>5, <2>1
    <3>2. first <= newer
      BY <1>5, <3>1
    <3>3. QED
      BY <3>1, <3>2
  <2>2. QED
    BY <2>1
<1>7. IsFiniteSet(Backtrace)
  BY <1>2, <1>3, FS_Subset
<1>8. /\ Cardinality(Before(first)) <= Cardinality(Backtrace)
      /\ Cardinality(Before(first)) \in Nat /\ Cardinality(Backtrace) \in Nat
  BY <1>6, <1>7, FS_Subset, FS_CardinalityType
<1>9. ~(1 + Cardinality(Before(first)) < MaxFrames)
  BY <1>5 DEF Backtrace
<1>10. QED
  BY <1>8, <1>9

\* The backtrace of a program that keeps the calling convention misses no call:
\* whatever the program has pushed, popped and called, each call in progress whose
\* return address is still on the stack is shown, unless max_frames cuts it off.
THEOREM BacktraceAlwaysShowsCalls == DebugSpec => []BacktraceShowsCalls
<1>1. SessionInv /\ MachineInv /\ CallsInv => BacktraceShowsCalls
  <2> SUFFICES ASSUME SessionInv, MachineInv, CallsInv, frames # Lost, loaded,
                      1 + Cardinality(Backtrace) < MaxFrames,
                      NEW k \in DOMAIN frames,
                      WordAt(regions, frames[k].sp - WordSize) = frames[k].return
               PROVE  frames[k].sp - WordSize \in Backtrace
    BY DEF BacktraceShowsCalls
  <2> DEFINE slot == frames[k].sp - WordSize
  <2>1. slot \in Slots
    BY SavedSlot
  <2>2. FollowsCall(regions, WordAt(regions, slot))
    BY DEF CallsInv
  <2> HIDE DEF slot
  <2>3. LooksLikeReturn(slot)
    BY <2>2 DEF FollowsCall, LooksLikeReturn
  <2>4. cpu.sp \in Nat /\ StackTop \in Nat /\ MaxFrames \in Nat
    BY LayoutTypes, WordTypes, DebuggerAssumption
       DEF SessionInv, SessionType, TypeOK, CPUState, Word
  <2>5. Candidates \subseteq Backtrace
    BY <2>4, LeftOutWhenFull
  <2>6. QED
    BY <2>1, <2>3, <2>5 DEF Candidates, slot
<1>2. QED
  BY <1>1, CallsInvariant, PTL

=============================================================================
