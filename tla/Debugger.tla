------------------------------- MODULE Debugger -------------------------------
(***************************************************************************)
(* The debugger (src/src/debugger/debugger.cpp) driving the virtual        *)
(* machine.  It has breakpoints, watchpoints and four commands that        *)
(* execute: step, run, next (stepOver) and finish.  step is one action;    *)
(* the others are loops in the code and here: a command is entered, makes  *)
(* passes and stops.  Each pass calls singleStep(), which steps the        *)
(* machine by the actions of module VirtualMachine.                        *)
(***************************************************************************)
EXTENDS VirtualMachine, FiniteSets

CONSTANTS
  BreakAddresses,  \* where the user sets breakpoints
  WatchAddresses,  \* what the user watches
  MaxIds,          \* bound: breakpoints and watchpoints created
  MaxFrames,       \* max_frames of formatBacktrace()
  Lost             \* history: the program left the calling convention

ASSUME DebuggerAssumption ==
  /\ BreakAddresses \subseteq Word /\ WatchAddresses \subseteq Word
  /\ MaxIds \in Nat /\ MaxFrames \in Nat

VARIABLES
  breakpoints,  \* breakpoints_: [id, address, enabled, hits]
  watchpoints,  \* watchpoints_: [id, address, previous]
  nextId,       \* next_id_
  started,      \* started_
  command,      \* the command in its loop, if any
  event,        \* the StopEvent computed last
  frames        \* history: the calls that have not returned, or Lost

machine == <<regions, heapNext, cpu, loaded, host, call, fault, result, trace,
             image, loads>>
points  == <<breakpoints, watchpoints, nextId>>
dbgVars == <<machine, points, started, command, event, frames>>

NoCommand == [kind |-> "none", budget |-> 0, executed |-> 0, resume |-> 0,
              depth |-> 0, frames |-> <<>>]
Stop(reason, pc, error) == [reason |-> reason, pc |-> pc, error |-> error]
NoStop == Stop("NotRunning", 0, "None")

DebugInit ==
  /\ Init
  /\ breakpoints = <<>> /\ watchpoints = <<>> /\ nextId = 1
  /\ started = FALSE
  /\ command = NoCommand
  /\ event = NoStop
  /\ frames = <<>>

Idle == command.kind = "none"

\* The command line tool loads the program before it starts the debugger.
LoadProgram ==
  /\ Idle /\ loads = 0
  /\ LoadCall
  /\ UNCHANGED <<points, started, command, event, frames>>

-----------------------------------------------------------------------------
(***************************************************************************)
(* Breakpoints and watchpoints share one sequence of ids.                  *)
(***************************************************************************)
PointsOnly == Idle /\ UNCHANGED <<machine, started, command, event, frames>>

AddBreakpoint(address) ==
  /\ PointsOnly /\ nextId <= MaxIds
  /\ breakpoints' = Append(breakpoints, [id |-> nextId, address |-> address,
                                         enabled |-> TRUE, hits |-> 0])
  /\ nextId' = nextId + 1
  /\ UNCHANGED watchpoints

Without(list, id) == SelectSeq(list, LAMBDA point : point.id # id)
HasId(list, id) == \E k \in DOMAIN list : list[k].id = id

\* The delete command: removeBreakpoint(id) || removeWatchpoint(id).
Delete(id) ==
  /\ PointsOnly
  /\ breakpoints' = Without(breakpoints, id)
  /\ watchpoints' = IF HasId(breakpoints, id) THEN watchpoints
                    ELSE Without(watchpoints, id)
  /\ UNCHANGED nextId

SetBreakpointEnabled(id, enabled) ==
  /\ PointsOnly
  /\ \E k \in DOMAIN breakpoints :
       /\ breakpoints[k].id = id
       /\ breakpoints' = [breakpoints EXCEPT ![k].enabled = enabled]
  /\ UNCHANGED <<watchpoints, nextId>>

Readable(mapped, address) ==
  checkAccess(mapped, address, WordSize, "Read") = "Ok"

\* An address that cannot be read is refused, which changes nothing.
AddWatchpoint(address) ==
  /\ PointsOnly /\ nextId <= MaxIds
  /\ Readable(regions, address)
  /\ watchpoints' = Append(watchpoints, [id |-> nextId, address |-> address,
                                         previous |-> WordAt(regions, address)])
  /\ nextId' = nextId + 1
  /\ UNCHANGED breakpoints

NoBreakpoint == 0    \* nullptr

\* The first enabled breakpoint at the address.
breakpointAt(address) ==
  LET hit == {k \in DOMAIN breakpoints :
                breakpoints[k].enabled /\ breakpoints[k].address = address}
  IN  IF hit = {} THEN NoBreakpoint
      ELSE CHOOSE k \in hit : \A other \in hit : k <= other

-----------------------------------------------------------------------------
(***************************************************************************)
(* singleStep(): step the machine unless it has halted, then look at the   *)
(* watchpoints in order and report the first that changed, and only that.  *)
(***************************************************************************)
Changed(mapped) ==
  {k \in DOMAIN watchpoints :
     /\ Readable(mapped, watchpoints[k].address)
     /\ WordAt(mapped, watchpoints[k].address) # watchpoints[k].previous}

TriggersFirstOnly(mapped) == fault'.error = "None" /\ 1 \in Changed(mapped)
Triggers(mapped) == fault'.error = "None" /\ Changed(mapped) # {}

checkWatchpoints(mapped) ==
  IF Triggers(mapped)
    THEN LET first == CHOOSE k \in Changed(mapped) :
                        \A other \in Changed(mapped) : k <= other
         IN  [watchpoints EXCEPT
                ![first].previous = WordAt(mapped, watchpoints[first].address)]
    ELSE watchpoints

\* History: what the instruction just executed does to the calls in progress.
\* A program that returns elsewhere than to its caller, or pops its own return
\* address, leaves the calling convention.
FramesAfter ==
  LET opcode == Decode(Fetched).opcode
      top    == frames[Len(frames)]
      back   == frames # <<>> /\ cpu'.pc = top.return /\ cpu'.sp = top.sp
  IN  IF frames = Lost \/ fault'.error # "None" THEN frames
      ELSE CASE opcode = "CALL" -> Append(frames, [return |-> Add(cpu.pc, WordSize),
                                                   sp     |-> cpu.sp])
             [] opcode = "RET"  -> IF back THEN SubSeq(frames, 1, Len(frames) - 1)
                                   ELSE Lost
             [] opcode = "POP"  -> IF frames # <<>> /\ cpu'.sp >= top.sp
                                   THEN Lost ELSE frames
             [] OTHER -> frames

SingleStep ==
  /\ \/ /\ cpu.halted
        /\ UNCHANGED <<machine, watchpoints, started, frames>>
     \/ /\ ~cpu.halted
        /\ Step
        /\ started' = TRUE
        /\ watchpoints' = checkWatchpoints(regions')
        /\ frames' = FramesAfter
        /\ UNCHANGED <<call, result>>
  /\ UNCHANGED <<breakpoints, nextId>>

\* The event singleStep() returns.
SingleStepEvent ==
  IF cpu.halted THEN Stop("Halted", cpu.pc, "None")
  ELSE IF fault'.error # "None" THEN Stop("Fault", fault'.pc, fault'.error)
  ELSE IF Triggers(regions') THEN Stop("Watchpoint", cpu'.pc, "None")
  ELSE IF cpu'.halted THEN Stop("Halted", cpu'.pc, "None")
  ELSE Stop("StepComplete", cpu'.pc, "None")

Completes == SingleStepEvent.reason = "StepComplete"

-----------------------------------------------------------------------------
(***************************************************************************)
(* The commands.                                                           *)
(***************************************************************************)
NotRunning ==
  /\ Idle /\ ~loaded
  /\ event' = NoStop
  /\ UNCHANGED <<machine, points, started, command, frames>>

StepsOnce ==
  /\ cpu.instruction_count < MaxInstructions
  /\ SingleStep
  /\ event' = SingleStepEvent
  /\ UNCHANGED command

StepCommand == Idle /\ loaded /\ StepsOnce

Enter(kind, budget, resume, depth) ==
  /\ Idle /\ loaded
  /\ cpu.instruction_count + budget <= MaxInstructions
  /\ command' = [kind |-> kind, budget |-> budget, executed |-> 0,
                 resume |-> resume, depth |-> depth, frames |-> frames]
  /\ UNCHANGED <<machine, points, started, event, frames>>

RunCommand(budget) == Enter("run", budget, 0, 0)

FinishCommand(budget) == Enter("finish", budget, 0, cpu.sp)

AtCall ==
  /\ checkAccess(regions, cpu.pc, WordSize, "Exec") = "Ok"
  /\ Decode(Fetched) # Undecodable
  /\ Decode(Fetched).opcode = "CALL"

NextCommand(budget) ==
  \/ Idle /\ loaded /\ ~AtCall /\ StepsOnce
  \/ AtCall /\ Enter("next", budget, Add(cpu.pc, WordSize), cpu.sp)

-----------------------------------------------------------------------------
(***************************************************************************)
(* The passes of the loops.                                                *)
(***************************************************************************)
Passing(kind) == command.kind = kind /\ command.executed < command.budget

GoesOn == command' = [command EXCEPT !.executed = @ + 1]
Ends   == command' = NoCommand

LooksSkippingEntry == command.executed > 0

\* The breakpoint the machine is parked on is not looked at again.
LooksForBreakpoint == command.executed > 0 \/ ~started

RunBreaksUnstarted ==
  /\ Passing("run")
  /\ LooksForBreakpoint
  /\ breakpointAt(cpu.pc) # NoBreakpoint
  /\ breakpoints' = [breakpoints EXCEPT ![breakpointAt(cpu.pc)].hits = @ + 1]
  /\ event' = Stop("Breakpoint", cpu.pc, "None")
  /\ Ends
  /\ UNCHANGED <<machine, watchpoints, nextId, started, frames>>

RunBreaks ==
  /\ Passing("run")
  /\ LooksForBreakpoint
  /\ breakpointAt(cpu.pc) # NoBreakpoint
  /\ started' = TRUE
  /\ breakpoints' = [breakpoints EXCEPT ![breakpointAt(cpu.pc)].hits = @ + 1]
  /\ event' = Stop("Breakpoint", cpu.pc, "None")
  /\ Ends
  /\ UNCHANGED <<machine, watchpoints, nextId, frames>>

RunRetriesStep ==
  IF SingleStepEvent.reason # "Halted" THEN UNCHANGED command ELSE Ends

\* What run does after a singleStep().
RunAfterStep == IF Completes THEN GoesOn ELSE Ends

RunSteps ==
  /\ Passing("run")
  /\ ~(LooksForBreakpoint /\ breakpointAt(cpu.pc) # NoBreakpoint)
  /\ SingleStep
  /\ event' = SingleStepEvent
  /\ RunAfterStep

CallReturnedByAddress == cpu'.pc = command.resume
CallReturned == cpu'.pc = command.resume /\ cpu'.sp >= command.depth

\* A breakpoint met by next is reported and not counted.
NextSteps ==
  /\ Passing("next")
  /\ SingleStep
  /\ IF ~Completes \/ CallReturned
       THEN event' = SingleStepEvent /\ Ends
     ELSE IF breakpointAt(cpu'.pc) # NoBreakpoint
       THEN event' = Stop("Breakpoint", cpu'.pc, "None") /\ Ends
     ELSE event' = SingleStepEvent /\ GoesOn

FrameReturnedTwice == cpu'.sp > Add(command.depth, WordSize)
FrameReturned == cpu'.sp > command.depth

\* finish does not look at breakpoints.
FinishSteps ==
  /\ Passing("finish")
  /\ SingleStep
  /\ event' = SingleStepEvent
  /\ IF ~Completes \/ FrameReturned THEN Ends ELSE GoesOn

Exhausted ==
  /\ ~Idle /\ command.executed >= command.budget
  /\ event' = Stop("Fault", cpu.pc, "BudgetExhausted")
  /\ Ends
  /\ UNCHANGED <<machine, points, started, frames>>

CommandLoop == RunBreaks \/ RunSteps \/ NextSteps \/ FinishSteps \/ Exhausted

UserCommand ==
  \/ LoadProgram \/ NotRunning \/ StepCommand
  \/ \E address \in BreakAddresses : AddBreakpoint(address)
  \/ \E address \in WatchAddresses : AddWatchpoint(address)
  \/ \E id \in 1 .. MaxIds : \/ Delete(id)
                             \/ SetBreakpointEnabled(id, TRUE)
                             \/ SetBreakpointEnabled(id, FALSE)
  \/ \E budget \in Budgets :
       RunCommand(budget) \/ FinishCommand(budget) \/ NextCommand(budget)

DebugNext == UserCommand \/ CommandLoop

DebugSpec == DebugInit /\ [][DebugNext]_dbgVars

\* The loops run in the calling thread: once entered they keep going.
FairDebugSpec == DebugSpec /\ WF_dbgVars(CommandLoop)

-----------------------------------------------------------------------------
(***************************************************************************)
(* formatBacktrace(): the slots of the stack that look like saved return   *)
(* addresses, from SP up, at most max_frames - 1 of them.                  *)
(***************************************************************************)
LooksLikeReturn(address) ==
  LET candidate == WordAt(regions, address)
      site      == candidate - WordSize
  IN  /\ candidate % WordSize = 0 /\ candidate >= WordSize
      /\ checkAccess(regions, site, WordSize, "Exec") = "Ok"
      /\ Decode(WordAt(regions, site)) # Undecodable
      /\ Decode(WordAt(regions, site)).opcode = "CALL"

SlotsAboveTop ==
  {address \in cpu.sp + WordSize .. StackTop - 1 : (address - cpu.sp) % WordSize = 0}

Slots ==
  {address \in cpu.sp .. StackTop - 1 : (address - cpu.sp) % WordSize = 0}

Candidates == {address \in Slots : LooksLikeReturn(address)}

\* frame counts from 1 and stays below max_frames.
Backtrace ==
  {address \in Candidates :
     1 + Cardinality({newer \in Candidates : newer < address}) < MaxFrames}

-----------------------------------------------------------------------------
\* No change is overlooked: while a command goes on from one instruction to the
\* next, every watched word is what the debugger last saw there.
NoChangeOverlooked ==
  ~Idle /\ command.executed > 0 => Changed(regions) = {}

Conventional == frames # Lost /\ command.frames # Lost

\* A program that keeps the calling convention is never run past the return:
\* next goes on only while the call it steps over is in progress, and finish
\* only while the current function is.
SteppingStaysInFrame ==
  Conventional =>
    /\ command.kind = "finish" => Len(frames) >= Len(command.frames)
    /\ command.kind = "next" /\ command.executed > 0 =>
         Len(frames) > Len(command.frames)

\* formatBacktrace() shows every call in progress whose saved return address is
\* still on the stack, up to its limit.
BacktraceShowsCalls ==
  frames # Lost /\ loaded /\ 1 + Cardinality(Backtrace) < MaxFrames =>
    \A k \in DOMAIN frames :
      LET slot == frames[k].sp - WordSize IN
      WordAt(regions, slot) = frames[k].return => slot \in Backtrace

-----------------------------------------------------------------------------
Stopping(kind) == command.kind = kind /\ command'.kind = "none"
StoppingBy(kind, reason) == Stopping(kind) /\ event'.reason = reason

\* next over a CALL reports completion only when that call has returned, however
\* often the callee has called itself through the same instruction.
NextStopsAtReturn ==
  [][StoppingBy("next", "StepComplete") /\ Conventional /\ frames' # Lost =>
       frames' = command.frames]_dbgVars

\* docs/debugger.md, section 3: continuing from a breakpoint makes progress.  Two
\* stops at a breakpoint have an instruction between them.
ContinueMakesProgress ==
  [][StoppingBy("run", "Breakpoint") /\ event.reason = "Breakpoint" =>
       command.executed > 0]_dbgVars

Executes(kind) ==
  command.kind = kind /\ cpu'.instruction_count > cpu.instruction_count

\* run executes the instruction at an enabled breakpoint only if the debugger
\* has just shown the user the machine stopped there, or a fault.
BreakpointsAreShown ==
  [][Executes("run") /\ breakpointAt(cpu.pc) # NoBreakpoint =>
       /\ command.executed = 0
       /\ event.pc = cpu.pc \/ event.reason = "Fault"]_dbgVars

\* Every command that executes gives control back: the budget bounds each loop.
CommandsReturn == ~Idle ~> Idle

=============================================================================
