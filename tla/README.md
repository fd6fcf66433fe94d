# A verification project for MiniToolchain

MiniToolchain assembles, links, runs and debugs programs for a small 64-bit
machine.  This directory holds TLA+ models of its parts, the TLC configurations
that check them on small instances, and proofs that TLAPS checks for every value
of the parameters.  Paths are relative to the repository: `src/vm/vm.cpp` here is
`src/src/vm/vm.cpp` in `PROJECT.json`.

## 1. The system

All of it is sequential C++; the only concurrency is between the playground's
server and its clients.  What is hard is *order* (a client may call the API in any
sequence, a program may execute anything, one pass of the optimizer makes work for
another), *partial failure* (an operation that stops half-way and what it leaves
behind), *unreliable peers* (requests in fragments, clients that leave), and *edges
of u64 arithmetic*.

| Part | State | Operations | Talks to | What makes it correct |
|---|---|---|---|---|
| virtual memory (`vm/memory.cpp`) | regions with permissions and bytes, allocation pointer | addRegion, reset, checked reads, writes and fetches, allocate | owned by the CPU; handed to system calls | regions disjoint and inside the address space; no access past a region or its permissions; blocks disjoint |
| virtual CPU (`vm/vm.cpp`) | registers, PC, SP, FLAGS, halted, count, loaded | load, step, run(budget) | memory, system calls, `isa` | SP stays in the stack; only code of the image executes; faults are precise; run ends and tells the truth |
| system calls (`vm/syscall.cpp`) | captured input, output, error output | exit, write, read, allocate | registers and memory of the CPU | bounded transfers, errors trap |
| ISA semantics (`isa/semantics.cpp`) | none | evaluateBinary, evaluateUnary, branchTaken | CPU and optimizer | agrees with arithmetic; branches compare signed |
| ISA encoding (`isa/encoding.cpp`) | none | encode, decode | assembler, linker, CPU, debugger | decode inverts encode |
| executable image (`executable/executable.cpp`) | segments, entry, debug info | validate, findSegment | linker, loader | whatever validates can be mapped |
| debugger (`debugger/debugger.cpp`) | breakpoints, watchpoints, next id, started | step, run, next, finish, break, watch, delete, enable, backtrace | drives the CPU | stops where the user asked, never loses a change, always returns |
| linker (`linker/linker.cpp`, `object/relocation.cpp`) | merged regions, placements, definitions | merge, resolve, relocate, build | objects in, image out | contributions disjoint; every reference patched to the right definition |
| optimizer (`optimizer/optimizer.cpp`) | the items of a section, marks, statistics | six passes a round, to a fixed point | IR, `isa` semantics | the program computes the same; liveness of FLAGS is exact; every removal is counted once |
| sema and lowering (`assembler/sema.cpp`, `ir/`) | labels seen, diagnostics, sections of the IR | analyze, lower | tree in, IR out | whatever sema accepts the later stages can handle |
| assembler (`assembler/assembler.cpp`) | sections, symbol table, relocations | layout, bindings, emit | IR in, object out | both passes agree on the layout; relocations name what the source names |
| object and executable files | none | read, write | files | what is written is read back; malformed files are refused |
| lexer, parser, diagnostics | cursor, messages | | text in, tree out | |
| playground (`playground/`) | one client connection, the request so far, captured output | serve, readRequest, handleRequest, runSource, sendResponse | clients, compiler and CPU | a client gets the answer to its own request, within the limits, in text a browser reads; every connection ends |
| CLI, disassembler | none | | | |

`PROJECT.json` lists the hazards, each at the line where it bites.

## 2. Modules

```
VirtualMemory <- Executable <- VirtualMachine <- Debugger
      ^                             ^                ^
HeapAllocator ~> BlockAllocator     |                |
      ^              (refinement)   |                |
MCHeapAllocator           MCVirtualMachine <--- MCDebugger
                                    |
Semantics <- AluMachine <- MCAlu

Executable <- ObjectFile <- Linker <- MCLinker
                  ^
InstructionSet <- FrontEnd <- Optimizer <- Assembler <- Toolchain <- MCToolchain

WebText <- Session <- HttpServer <- MCHttpServer

proofs: VirtualMemoryProofs <- VirtualMachineProofs <- DebuggerProofs
        VirtualMemoryProofs <- HeapAllocatorProofs, ToolchainProofs
        AluMachine <- AluMachineProofs
        Linker <- LinkerProofs
        HttpServer <- HttpServerProofs
```

**VirtualMemory** has memory.cpp's operations as operators on a list of regions.
A region's bytes are a sequence; a word is `WordSize` bytes through the
parameters `LoadWord` and `StoreWord`.  Every addition and subtraction the code
makes on u64 is `Add` or `Sub`, modulo `WordModulus`.

**Executable** is `validate()` and `findSegment()`.  Which message a refused image
gets, and hence the order of the tests, is left out.

**VirtualMachine** is the machine a client sees.  One action is one API call:
`LoadCall` (refused, stopped half-way, or complete), `StepCall`, `RunNotLoaded`,
`RunCall`; `run()` is a loop in the model as in the code, with `RunIterate` for a
pass and `RunExhausted`, `RunHalted` or a faulting pass to leave it.  `Step` is
`step()`: one disjunct per early return, and `StepExecutes` with one action per
opcode or family and per system call.  `fault` is what the last `step()` returned,
`result` what the last `run()` did, `trace` the argument of the trace sink.
`image` and `loads` are history.  `Decode`, the ALU and the byte order are
parameters, so the theorems hold for any encoding.

**Semantics** and **AluMachine** are isa/semantics.cpp, and the ALU applied in any
sequence to two registers and FLAGS; the bitwise operators are parameters that
`MCAlu` takes from the library.  **BlockAllocator** is what `allocate()`
promises; **HeapAllocator** is the code's bump allocator, shown to implement it.

**Debugger** adds the debugger's own state to a machine and steps it with `Step`.
`step` is one action; `run`, `next` and `finish` are entered by a command, make
passes (`RunBreaks`, `RunSteps`, `NextSteps`, `FinishSteps`) and end.  `frames` is
history: the calls in progress, or `Lost` once the program has returned elsewhere
than to its caller or has popped its own return address.

**ObjectFile** has the relocatable object, what the reader of object files accepts
of it (`Readable`), and `applyRelocation()` on the bytes of a region: the error it
returns, or the bytes it writes.  How a word decodes is the parameter
`ImmediateUse`.

**Linker** is `Linker::link()`.  Each of the loops of the stages handles one item
per step (`MergeSection`, `ResolveSymbol`, `CheckReference`, `Relocate`,
`AddLine`), `NextObject` and `NextStage` move on, and the first error ends the
link.  Indices count from 1.  The image it builds is one of module `Executable`,
and is tested by the same `validate()` as the loader uses.  The sort of the debug
lines is not stable, so `Build` chooses any of the sorted orders.  Names of sections,
sizes and kinds of symbols and the order of the symbol table are left out.

**InstructionSet** is the opcode table with `encode()` and `decode()`: the fields of
a word, which of them a format uses, and the errors of an instruction that does not
fit.  **FrontEnd** is the semantic analysis, a set of errors for a list of statements,
and the lowering to the items of the IR.  The tree is the input: the lexer and the
parser are not modelled.  Here and in the next two modules a loop of the code is a
recursive function of its counter: `LoweringData(...)[k]` is the lowerer after k
operands, `Emitting(...)[k]` the object after k items.

**Optimizer** has `items`, the marks `remove` and the statistics as state.  A round
is one step per pass (`RemoveUnreachable`, `PushPop`, `JumpToNext`, `FoldConstants`,
`RemoveIdentities`, `RemoveDeadStores`) and `Compact`, which drops what is marked and
starts another round if something changed.  `splitBlocks`, `successors` and
`computeFlagLiveness` are ControlFlow; a block is the range of its items.  The sweeps
of the liveness loop are as many as it needs (`Sweeps`).  A label after the last
item gives a block number past the vector `live_in`; what is read there is a choice
over both values (`garbage`).

**Assembler** has the two passes as operators from the IR to the object of module
`ObjectFile`; **Toolchain** is `assembleSource()`, one step per stage and per pass
of the optimizer.  `Run` executes a section of the IR the way the VM would, to compare
the program before and after; this is the reference, not the code.

**WebText** has `appendJsonString()` and `urlDecode()` on bytes, and beside them what
UTF-8 and `JSON.parse` are by definition.  **Session** is `runSource()`: the stages,
each of which may end the job, the provider that caps the output, and the run one
instruction at a time.  A program is what its text leads to, `[assembles, links,
loads, code]`: module `Toolchain`, `Linker` and `VirtualMachine` are about the rest.
**HttpServer** is `serve()`: `Setup`, `Accept`, the reading loop (`Refuse`, `Receive`,
`Disconnected`), `Dispatch`, the job, `SendHead`, `SendBody`, `Close`; and the clients,
who connect, send what they like of their request in pieces of any size, and leave.
`ImpatientSpec` adds clients that leave before they are answered, and what the
kernel makes of a `send()` to them.

## 3. What the runs check

| Run | Question |
|---|---|
| `vm_programs` | 10^4 swept programs of four words and 16 written ones, stepped and run in any order: only the image's code executes (`ExecutesImageCode`), stack instructions fail by name (`StackErrorsAreNamed`), faults are precise (`FaultsArePrecise`), and what `run()` reports is what happened: the error is the one that the memory, the registers and the instruction before the last step account for, at that instruction's address (`RunReportIsHonest`) |
| `vm_reload` | up to three loads of good, refused and unmappable images, with steps and runs between: validated segments map (`ValidatedSegmentsMap`), regions stay disjoint (`RegionsDisjoint`), SP stays in the stack (`StackDiscipline`), and `run()` always returns (`RunReturnsEventually`) |
| `heap_fitting` | requests up to the heap's end address: the allocator implements `BlockAllocator` |
| `heap_any_size` | violated: a request near 2^64 makes `end - rounded` wrap and is answered with an address |
| `alu` | all pairs of 4-bit operands, any sequence: flags, branches, division and shifts against integers |
| `dbg_session` | any sequence of commands on four programs: watchpoints, `next` through recursion, `finish`, `continue`, the backtrace; every command returns |
| `link` | links of up to three of thirteen objects in every order: contributions keep apart (`ContributionsDisjoint`) and survive (`SectionsSurvive`), the right definition wins (`RightDefinition`), every patched field denotes it (`FieldsArePatched`), lines keep their file (`LinesNameTheirSource`), validation only ever refuses the entry (`RefusedForItsEntry`) |
| `link_weak` | violated: docs/linker.md:121 says a reference with no definition is an error; after an object with a weak reference to the name it links to address 0 |
| `toolchain` | 5,676 builds: what can be seen of a program is the same after the optimizer (`SameBehaviour`), FLAGS are called dead exactly when they are (`LivenessIsExact`), each removal is counted once (`StatsBalance`), rounds that end before the bound end for want of work (`StopsEarlyAtFixedPoint`), only a memory displacement gets past sema (`SemaSuffices`), and labels, relocations and debug lines of the object are right (`LabelsDenoteTheirBytes`, `RelocationsFollowReferences`, `DebugEntriesDecode`) |
| `opt_displacement` | violated: ir.hpp:20 says a branch carries no displacement, so that removing an instruction cannot invalidate it; `JMP 8` is accepted and then lands elsewhere |
| `playground` | two clients, requests of all kinds and lengths in any fragments: the answer is to the client's own whole request (`AnswersAreTheirOwn`), the browser can parse it (`BrowserAccepts`), the buffer is bounded and only an over-long request is refused, however it is cut (`LengthLimitHolds`), and every connection is closed in the end, unless the server waits for good for the one client it is serving (`OnlyThePeerHoldsTheServer`) |
| `playground_up` | violated: http_server.hpp:36 says the server runs until it is interrupted; a client that leaves before its answer ends it by SIGPIPE |

Each property of a passing run has a mutant in `PROJECT.json`: a plausible bug in
the code, under which TLC finds the property violated.

Some remarks on the machine and the debugger came out of modelling them.  docs/vm.md:17
says PC is always aligned; RET loads any word, and the next step traps on it.
docs/debugger.md:83 says breakpoints count their hits; only `run` counts them, `next`
stops without.  docs/debugger.md:141 says finish honours breakpoints; it never looks.
`finish` compares stack depths only, so given after the function has saved a register
it stops at the POP that restores it (`SteppingStaysInFrame` therefore says only that it never
overruns the return).  `checkWatchpoints` reports one change per instruction, so
the second of two words changed at once is reported an instruction later.  After a
fault PC is already on the next instruction and `run` skips a breakpoint there
(hence the exception in `BreakpointsAreShown`).

Two remarks on the linker.  The comment at linker.cpp:359 says the first of several
local symbols of a name is kept; all of them are.  And `mergeSections` aligns the
offset in the region, so a section whose alignment exceeds that of the region's
base is not aligned at its address; `ContributionsDisjoint` speaks of offsets.

On the toolchain.  Each round of the optimizer removes the innermost of nested pairs of
PUSH and POP, so that nine pairs need nine rounds, and there are eight.  docs/optimizer.md:57
calls the bound "a safety net rather than a real limit" and :207 says that "optimizing
the output again changes nothing": neither is true of that program, which TLC builds in
`toolchain` (with `round < kMaxIterations` taken out of `StopsEarlyAtFixedPoint` it is
the counterexample).  The property says of all programs that only the bound can leave
work behind, never a pass that forgets to say that it changed something.
FLAGS are taken to be dead at the end of a section, so a program must not fall from
one file into another with a test in between.  Removing a pair of PUSH and POP
removes a stack overflow with it, which `SameBehaviour` allows.  sema does not test
the range of a memory displacement; `encode()` refuses it later.  A `.space` in `.bss`
takes up memory in the second pass although no byte of it is written.

On the playground.  Only fd 1 is capped: what a program writes to fd 2 is kept until
the run ends (docs/playground.md:100 says a program looping on write cannot exhaust
memory).  A request up to one byte over the limit is let through, and one up to a
chunk over it may be, depending on how it is cut.  Bytes after Content-Length that
arrive with the rest become part of the source, though the comment says "exactly
Content-Length bytes".  A request refused by `readRequest` gets no response at all.
A client that connects and says nothing, or does not take its answer, blocks the server
for as long as it likes, there being no timeout (http_server.cpp:367);
`OnlyThePeerHoldsTheServer` says that nothing else can: not a client that leaves
half-way, not a program that never ends, not a request that is refused.  docs/playground.md says that the tests do not
cover the socket loop: this run does.

### Bounds

Words have two 4-bit bytes, so the address space has 256 addresses and u64 wrap
happens at 256; instruction words are small numbers that `MCDecode` maps to
instructions.  The stack has two words (four in the debugger's runs), the heap
three, `.data` one and a half: a push can overflow, an access can cross a region's
end, an allocation can exhaust the heap within a few instructions.  `MaxTransfer`
is 2 and the waiting input 3 bytes, so reads are short, full and refused.
`MaxInstructions` (8, 4, 13) bounds the instructions after one load and `MaxLoads`
the loads; both are guards of the client's actions and never of an instruction.
Budgets 0, 1 and 3 make exhaustion coincide with halts and faults.  For the ALU
four bits are enough to have two shift-count bits, both extremes and all carries.
In a debugging session two points (`MaxIds`) let a breakpoint and a watchpoint, or
two overlapping watchpoints, meet; budget 8 is just long enough for `next` to step
over a call that calls itself again through the same instruction.  In the linker's
runs a word has two 6-bit bytes, the immediate 8 bits and half a word 6; the
regions hold 12 bytes and touch, so that fields overflow, a region fills up, and a
byte too many would be in the next one.  Three objects are enough for two weak and
a strong definition of a name, in every order, and for a section that is moved
behind padding.  Links end, so these runs do not check for deadlock.

In the toolchain's runs a byte has two bits and a word 16: six for the opcode, two for
each of the two registers, six for the immediate, so that immediates and displacements
reach their limits.  Opcodes are numbered without the gaps of the real table.  The
programs are all of three instructions out of 15 after a MOVI, a FLAGS setter followed
by all combinations of what may lie between and what may follow, loops, blocks in an
order in which liveness travels backwards, labels and data at the edges, and two to nine
nested pairs of PUSH and POP; the files are all pairs and triples of eleven pieces, and
27 faulty ones.  `Fuel` (20) ends the
comparison of programs that loop for ever; `StackDepth` and `MemoryWords` bound the
machine they run on.  The server's limits are 7 bytes for a request, 3 for a `recv()`,
4 for a source, 5 of output and 8 instructions: requests lie on both sides of each
limit, and characters of two to four bytes are cut by the output's.  Each client
connects once, so the model ends when all have been served.

### Fairness

`FairSpec` and `FairDebugSpec` assume weak fairness of the passes of a loop that
has been entered: the loops run in the caller's thread and nothing else can take
it.  Nothing is assumed of the client or the user.  For the playground, weak fairness of the server, which is one thread, except
where it waits for its peer (`AwaitsPeer`): in `recv()` with nothing to receive, or in
`send()` of a body.  The code sets no timeout, so such a wait may last for ever, and
the property allows for it.  Nothing is assumed of the clients: none need connect, send
the rest of its request, take its answer or leave.

## 4. What is proved

TLAPS proves, with no bound on images, programs, inputs, budgets or word sizes
beyond the named assumptions of each module (at the end of this section):

### The machine and its memory

* `TypeCorrect`: `Spec => []TypeOK`, including that regions stay well-formed.  Each
  opcode family has an *effect lemma* (what an instruction may do to memory, SP and
  the count), combined in `StepEffect`; the layout lemmas show that what `load()`
  maps is well-formed.  All other proofs use the effect lemmas.
* `StackIsKept`: inductive with `TypeOK`; only pushes and pops move SP.
* `BudgetIsKept` (while it loops, `run()` has charged exactly what was executed), from
  the inductive invariant `RunInv` (the accounting, and that a program is loaded inside
  the loop).
* `RunReportsAreHonest`, from `RunInv`, `StackIsKept` and `RegionsStayDisjoint`.  The
  property does not repeat the code's way to an error: it says of all regions what
  `checkAccess` finds out from the first that contains the address, and names an
  overflow or an underflow by SP being at the end of the stack, where the code compares
  (`AccessErrorExplained`, `StackFaults`).  That is the same only because no two regions
  share an address and because SP is always on a slot of the stack.  `ExecuteFaults`
  has a case for each family of instructions, `StepFaults` for each way a fetch fails.
* `FaultsAreAlwaysPrecise`, an action property from `TypeOK`.
* `ValidatedSegmentsAlwaysMap` and `OnlyImageCodeExecutes`, from the inductive
  `ImageInv`: the mapped regions are, in order, the image's segments, the stack and
  the heap, and a region that can be executed still holds what the image put there.
* `RegionsStayDisjoint`, from the acceptance test of `addRegion`.
* `StackErrorsAreAlwaysNamed`, from `StackIsKept`, `ImageInv` and disjointness: a
  slot inside the stack belongs to the region "stack" and to no other.
* `AllocatorKeepsPromise`, `BlocksStayBelowPointer`, `AnswersStayUsable` for the
  allocator, under `FittingRequests` (no request exceeds the heap's end address,
  the condition `heap_any_size` shows to be needed).  `BlocksBelowPointer` is the
  inductive part of it.

### The debugger

* `DebuggerDrivesTheMachine`: `DebugSpec => Spec`, step by step: whatever the
  commands, what the debugger does to the machine is a behaviour of module
  `VirtualMachine`.  So all that is proved of the machine holds under the debugger
  (`DebuggedMachineIsSafe` states the stack, the code and the faults).
* `NoChangeIsOverlooked`, `SteppingAlwaysStaysInFrame`, `NextAlwaysStopsAtReturn`,
  `ContinueAlwaysMakesProgress`, `BreakpointsAreAlwaysShown` and
  `BacktraceAlwaysShowsCalls`: the safety properties of `dbg_session`, for every program,
  budget and number of points.

They rest on one inductive invariant, `SessionInv`.  `ControlInv` says that a command
runs only on a loaded machine and that what is left of its budget bounds what it
executed; `ShownInv` that what the user was last shown is where the machine is, until
the command in progress executes something.  The heart is `FramesNest`: the stack
pointers saved by the calls in progress decrease, and all lie above SP.  The code
never looks at frames.  `next` and `finish` compare SP with a remembered depth, and
only nesting turns that comparison into a statement about which call has returned:
`NextInv` and `FinishInv` say that the frames at the time of the command are still
below the current ones, so SP gets back above the remembered depth with the return
of that call and no other.

The backtrace needs more, since the code knows nothing of calls: it walks the stack and
shows each word that an executed CALL could have pushed.  `CallsInv` says that the return
address of each call in progress still follows a CALL in executable memory, and that it
was pushed to a whole slot.  It is inductive only together with what is proved of the
machine: executable regions are those of the image and not writable (`ImageInv`), they
do not overlap the stack (`RegionsDisjoint`), and SP moves by whole slots
(`StackDiscipline`).  That no call in progress is missing from what `SelectSeq` keeps is
then a statement about membership and needs no induction over the stack.

### The ALU

`BranchesDecideSigned`, `FlagsTellOverflow`, `DivisionExact` and `ShiftsAreRepeated` are
the four properties of `alu` for words of any length and any sequence of instructions.
The inductive `AluInv` (`AluInductive`) says that both operands are words, that `dst` and
FLAGS are what write-back left of the last instruction, and that after a comparison only
NOT lies between.  The rest is arithmetic: a difference of words fits or wraps once
(`OF` tells which), the quotient test of MUL finds every product that wraps, truncated
division by a word that is not -1 fits, and a shift by m + n is one by m after one by n.
The last is where `SemanticsAssumption` enters: all the proofs know of `2^n` is that it is
a positive number and that exponents add up, and of the bitwise operators that their
results are words.

### From source to object

The theorems of ToolchainProofs hold for every list of statements that the parser can
yield (`ToolchainAssumption`; `FrontEndAssumption` fixes bytes and words).

* `StatsAlwaysBalance`: however many rounds the passes make, each instruction that is
  gone or marked is counted by one counter.  The inductive `FrontInv` says so
  (`Balanced`) and that `remove` holds only instructions; it comes down to no pass
  marking what is marked already, and to `Compact` dropping what was counted.
* `SemaAlwaysSuffices`: after the analysis, lowering finds the operands it takes, the two
  passes of the assembler agree, no label is defined twice, and every instruction can be
  encoded, the rewritten ones too.  Displacements of LOAD and STORE are the exception.
* `LabelsAlwaysDenoteTheirBytes`, `RelocationsAlwaysFollowReferences` and
  `DebugEntriesAlwaysDecode`: what the object says about the bytes is true of the bytes.

`PipelineInv` adds to `FrontInv` what the object is between two stages.  `SectionsFit`
says of the IR that its items can be encoded but for their line's displacement, that
labels are unique and that every label of the source is there; each pass of the
optimizer keeps it because it drops or replaces instructions only (`Replaces`), and at -O0
the IR is `Verbatim` what the source says.  `LaidOut` says that the sizes and the values
of the labels are the positions `Pos` that the items have; `BoundObject` that bindings
change neither; `Emitted` that the bytes written up to item k of section s number
`Pos`, that each instruction passed is in them, encoded, and that each relocation
and line is for such an item.  `Pos` is defined by what pass 2 writes, so that the
agreement of the passes is proved item by item: the one interesting case is alignment,
which pass 1 computes of an offset and pass 2 of a length.  That decoding inverts
encoding is proved from the arithmetic of the fields, sign extension included.

The loops are folds over lists of any length, so this needs induction.  The provers
cannot use the library's induction theorems, whose parameter is an operator; they can
use the same principle for a set (`Induction`: a set of numbers that has a, and with each
number below b the next, has all up to b), which follows from every set of naturals
having a least element (`LeastNumber`).  Each loop has a lemma that its recursive
function satisfies its equations (`LoweringDataSteps` and the like) and one by induction
for what it computes.

### The linker

* `ContributionsStayDisjoint`, from `LayoutInv`: every placement fits its region and
  any two in a region are apart in one order or the other.  That `alignUp` and the
  test `Outgrows` never wrap is proved on the way, from the bound on a region's size.
* `DefinitionsAreRight`, from `ResolutionInv`.  `RightDefinition` speaks of all
  definitions, the loop knows those it has passed; the invariant says of each name
  whether the strong one, the first weak one or none of its definitions is in the
  table, relative to the symbols gone through so far.
* `SectionsAlwaysSurvive`, `FieldsAlwaysPatched`, `LinesAlwaysNameTheirSource` and
  `OnlyTheEntryIsRefused`, from the `ImageInv` of LinkerProofs, which adds: every reference
  checked has its name in the table (`ReferencesInv`); a region's bytes are those of
  the sections placed so far but for the fields relocations may change (`BytesInv`);
  each field patched so far denotes its definition (`FieldsInv`); each line gone
  through is in the list under its file (`LinesInv`); nothing failed but for its
  reason (`RefusedInv`).

Two arguments carry most of it.  A relocation changes the bytes of its field only, and
fields of different sections are apart because contributions are, so no relocation
undoes an earlier one: that is why `FieldsInv` is inductive.  And what `applyRelocation()`
writes is what the reader of that field reads: for each type, the value that passed the
range test is recovered from the truncated field by sign extension, modulo the word
(`NewFieldBytes` and the lemmas before it).

### The playground

* `RequestLimitAlwaysHolds` for the server, for every set of clients,
  requests and limits, from `HttpServerAssumption`.  The inductive `ServerInv` adds whom
  the server serves, that there is an answer when it sends one, that a client which
  has gone had not sent everything, and that a server about to close without an answer
  has an excuse: the client has gone, or the announced request is too long.  The last
  is the point of the proof: a refusal is decided by the bytes that happen to have
  arrived, and yet implies a fact about the request alone.

* `AnswersAlwaysFitTheirRequests`: a client's answer is to its own whole request.  The
  status is the one its request line and size deserve; the report on a job is for the
  program this request submitted, compiled with the options of its query, names the
  stage that program does not get through, counts no more instructions than the budget
  and has an error or a diagnostic exactly when the job failed.  `AnswerInv` follows
  the request through the server: the bytes held are bytes the client sent, then the
  whole request, then how far `runSource()` has come with it (`JobFits`), then the answer.

* `OutputIsAccepted`: of any bytes, `appendJsonString()` makes UTF-8 that is the inside
  of a JSON string, and what JSON.parse reads there are the characters these bytes are,
  with U+FFFD for each byte that belongs to none.  Both are defined by what UTF-8 and
  JSON are (`Characters`, `JsonParse`), not by the tables of the code.  That the table
  (`Lead`, `MultiByteAt`) accepts exactly the scalar values in their shortest form is
  arithmetic in base 64, one lemma per length.  The rest is an induction over the text
  in which two loops advance together (`Agree`, `BothEndTogether`).  The escapes are
  the hard part, since what is appended must be read back alike whatever follows:
  `IsCharacter` says so of the bytes of a character, `Means` of an escape, and `Shown`
  of a prefix, by what every text that begins with it is read as.

* `BrowserAlwaysAccepts` and `AnswersAreAlwaysTheirOwn`: the answer a client has is
  that to its own request with the output its program wrote, cut at the limit, and the
  browser can parse it.  `OutputInv` adds to `AnswerInv` that machine and provider are
  where the program's own run is after as many instructions (`Follows`): what was kept
  is a prefix of all that was said, cut where it exceeded the limit, however the writes
  cut it (`CapKeepsThePrefix`).  The second theorem has a hypothesis,
  `QueriesMeanWhatTheySay`: what a client chose and typed is what its query says.

### Assumptions

Constants are assumed to be what the code makes them: positive sizes and moduli, regions
in the address space, `Decode` and `ImmediateUse` with results of their type
(`MemoryAssumption`, `MachineAssumption`, `IsaAssumption`, `ObjectAssumption`,
`LinkerAssumption`, `DebuggerAssumption`, `HttpServerAssumption`, and those named
above).  Five deserve a word.
`IsaAssumption`: the ALU fails on DIV and MOD by zero and on nothing else, which holds of
module `Semantics`.  `HttpServerAssumption`: the default budget is one that a job may have (session.hpp:38-41),
queries are bytes, and each step of a program that runs leads to another or ends it.
`FieldAssumption`: words are little-endian and their moduli divide each other, being
powers of two; an opcode's use of its immediate does not depend on the immediate, but
for an instruction without one, which `decode()` rejects unless the field is 0.
`ExternAssumption`: no symbol
is both extern and defined, which `applyBindings()` of the assembler ensures; the
reader of object files does not test it, so an object of another origin is not
covered.  And objects have passed the reader (`Readable`).  TLC evaluates all of them
on the instances of the runs.

### Only model-checked

* Liveness (`RunReturnsEventually`, `CommandsReturn`,
  `OnlyThePeerHoldsTheServer`): out of the prover's reach.
* `SameBehaviour` and `LivenessIsExact`: inductions over the executions of two programs
  and over paths, with an optimizer in between that makes several changes a round.
* `StopsEarlyAtFixedPoint`: that a fold which counts nothing leaves the section as it is
  is an induction over the section.  Without the bound it does not hold (section 3).
* That `urlDecode()` gives back what was typed: the requests of `playground` are
  examples of it, which TLC evaluates; no encoder is modelled to state it for all.

## 5. What is not modelled, and the plan

Proofs that are worth the next effort, in this order:

1. *Composition*: what `OnlyTheEntryIsRefused` and `ValidatedSegmentsAlwaysMap` give
   together, that the machine maps every segment the linker built, and that what
   `RelocationsAlwaysFollowReferences` says of an object is what `LinkerAssumption` asks.
2. *Optimizer*: `SameBehaviour` pass by pass, with a simulation between the program
   before and after each; the marks separate the passes well.

Not modelled: the lexer, the parser, diagnostics, the disassembler and the CLI (text
in, text out, no state worth the name); the layout of object and executable files and
CRC-32, where the round trip is the only property and the unit tests make it; the web
page.  Left out inside modelled parts: the wording of errors, warnings, symbol and
line lookups, host I/O errors of the stdio mode of the system calls, command-line
parsing of the debugger, the Windows branches and partial sends of the server, the
registers and the disassembly in a report.  A linked image always loads, so the load
error of `runSource()` is in the model but no program of the run reaches it.
