------------------------------- MODULE Session -------------------------------
(***************************************************************************)
(* playground::runSource() (src/src/playground/session.cpp): a source text *)
(* is assembled, linked, loaded and run, and whatever happens comes back   *)
(* as one report.                                                          *)
(*                                                                         *)
(* A program is what its text leads to: [assembles, links, loads, code],   *)
(* code being the steps it takes.  A step is [op |-> "work"]; a system     *)
(* call [op |-> "write", fd, bytes], [op |-> "read", count] or             *)
(* [op |-> "echo", fd], which writes what was read last; [op |-> "loop"],  *)
(* a jump to the first step; [op |-> "trap"] or [op |-> "halt"].           *)
(***************************************************************************)
EXTENDS WebText

CONSTANTS
  kMaxSourceBytes,       \* the longest source
  kMaxOutputBytes,       \* the most output that is kept
  kMaxPlaygroundBudget,  \* the most instructions a job may ask for
  NoProgram              \* no job

ASSUME SessionAssumption ==
  /\ kMaxSourceBytes \in Nat /\ kMaxOutputBytes \in Nat
  /\ kMaxPlaygroundBudget \in Nat \ {0}

VARIABLES
  job,        \* [phase, program, budget]; the phase is the stage at work, or
              \* done, or idle
  machine,    \* [at, instructions, memory]: the VM, as far as it matters here
  provider,   \* CappedSyscallProvider: [input, output, error_output, truncated]
  report      \* RunReport

session == <<job, machine, provider, report>>

\* The steps of a program that runs lead to one another, up to its end.
IsProgram(program) ==
  program.assembles /\ program.links /\ program.loads =>
    LET code == program.code IN
    /\ 1 \in DOMAIN code
    /\ \A at \in DOMAIN code :
         /\ code[at].op = "write" => code[at].bytes \in Seq(Byte)
         /\ code[at].op = "read" => code[at].count \in Nat
         /\ code[at].op \notin {"loop", "trap", "halt"} => at + 1 \in DOMAIN code

NoJob     == [phase |-> "idle", program |-> NoProgram, budget |-> 0]
Booted    == [at |-> 1, instructions |-> 0, memory |-> <<>>]
NewProvider(input) ==
  [input |-> input, output |-> <<>>, error_output |-> <<>>, truncated |-> FALSE]
NewReport == [ok |-> FALSE, stage |-> "Finished", diagnostics |-> {}, error |-> "",
              output |-> <<>>, output_truncated |-> FALSE, instructions |-> 0]

SessionInit ==
  /\ job = NoJob /\ machine = Booted /\ provider = NewProvider(<<>>)
  /\ report = NewReport

-----------------------------------------------------------------------------
\* A message that the diagnostics already show is not repeated.
setError(made, message) ==
  IF message \in made.diagnostics THEN made ELSE [made EXCEPT !.error = message]

Failed(made, stage, message) == setError([made EXCEPT !.stage = stage], message)

Ends(made) == job' = [job EXCEPT !.phase = "done"] /\ report' = made

\* std::clamp
Clamped(budget) ==
  IF budget < 1 THEN 1
  ELSE IF budget > kMaxPlaygroundBudget THEN kMaxPlaygroundBudget ELSE budget

\* The call: program is what the size bytes of its source spell.
runSource(program, size, input, budget) ==
  /\ job' = [phase |-> IF size > kMaxSourceBytes THEN "done" ELSE "Assemble",
             program |-> program, budget |-> Clamped(budget)]
  /\ report' = IF size > kMaxSourceBytes
                 THEN [NewReport EXCEPT !.stage = "Assemble", !.error = "too long"]
                 ELSE NewReport
  /\ machine' = Booted /\ provider' = NewProvider(input)

\* assembleSource() tells what is wrong in the diagnostics, and only returns
\* that something is.
Assemble ==
  /\ job.phase = "Assemble"
  /\ IF job.program.assembles
       THEN job' = [job EXCEPT !.phase = "Link"] /\ UNCHANGED report
       ELSE Ends(Failed([report EXCEPT !.diagnostics = {"at this line"}], "Assemble",
                        "semantic analysis failed"))
  /\ UNCHANGED <<machine, provider>>

\* The linker reports and returns the same message.
Link ==
  /\ job.phase = "Link"
  /\ IF job.program.links
       THEN job' = [job EXCEPT !.phase = "Load"] /\ UNCHANGED report
       ELSE Ends(Failed([report EXCEPT !.diagnostics = @ \cup {"link error"}], "Link",
                        "link error"))
  /\ UNCHANGED <<machine, provider>>

Load ==
  /\ job.phase = "Load"
  /\ IF job.program.loads
       THEN job' = [job EXCEPT !.phase = "Execute"] /\ UNCHANGED report
       ELSE Ends(Failed(report, "Load", "load error"))
  /\ UNCHANGED <<machine, provider>>

-----------------------------------------------------------------------------
(***************************************************************************)
(* The run, one instruction at a time.                                     *)
(***************************************************************************)
Step == job.program.code[machine.at]

\* After DefaultSyscallProvider did its work: no more output than is kept.
Capped(p) ==
  IF Len(p.output) > kMaxOutputBytes
    THEN [p EXCEPT !.output = SubSeq(@, 1, kMaxOutputBytes), !.truncated = TRUE] ELSE p

Writes(fd, bytes) ==
  provider' = Capped(IF fd = 1 THEN [provider EXCEPT !.output = @ \o bytes]
                               ELSE [provider EXCEPT !.error_output = @ \o bytes])

Counted(m) == [m EXCEPT !.instructions = @ + 1]
Onwards(m) == [Counted(m) EXCEPT !.at = @ + 1]

Running ==
  /\ job.phase = "Execute" /\ machine.instructions < job.budget
  /\ UNCHANGED <<job, report>>

Work ==
  /\ Running /\ Step.op = "work"
  /\ machine' = Onwards(machine) /\ UNCHANGED provider

Loop ==
  /\ Running /\ Step.op = "loop"
  /\ machine' = [Counted(machine) EXCEPT !.at = 1] /\ UNCHANGED provider

Write ==
  /\ Running /\ Step.op \in {"write", "echo"}
  /\ Writes(Step.fd, IF Step.op = "write" THEN Step.bytes ELSE machine.memory)
  /\ machine' = Onwards(machine)

Taken(input, count) == SubSeq(input, 1, IF count < Len(input) THEN count ELSE Len(input))

Read ==
  LET bytes == Taken(provider.input, Step.count) IN
  /\ Running /\ Step.op = "read"
  /\ provider' = Capped([provider EXCEPT !.input = SubSeq(@, Len(bytes) + 1, Len(@))])
  /\ machine' = [Onwards(machine) EXCEPT !.memory = bytes]

\* What every report about a run holds, whichever way the run ended.
Recorded(instructions) ==
  [report EXCEPT !.output = provider.output, !.output_truncated = provider.truncated,
                 !.instructions = instructions]

Trap ==
  /\ job.phase = "Execute" /\ machine.instructions < job.budget /\ Step.op = "trap"
  /\ Ends(Failed(Recorded(machine.instructions + 1), "Execute", "trap"))
  /\ machine' = Counted(machine) /\ UNCHANGED provider

BudgetExhausted ==
  /\ job.phase = "Execute" /\ machine.instructions = job.budget
  /\ Ends(Failed(Recorded(machine.instructions), "Execute", "budget exhausted"))
  /\ UNCHANGED <<machine, provider>>

Halt ==
  /\ job.phase = "Execute" /\ machine.instructions < job.budget /\ Step.op = "halt"
  /\ Ends([Recorded(machine.instructions + 1) EXCEPT !.ok = TRUE, !.stage = "Finished"])
  /\ machine' = Counted(machine) /\ UNCHANGED provider

SessionStep ==
  \/ Assemble \/ Link \/ Load
  \/ Work \/ Loop \/ Write \/ Read \/ Trap \/ BudgetExhausted \/ Halt

-----------------------------------------------------------------------------
(***************************************************************************)
(* What a job should come to, from its program and input alone.            *)
(***************************************************************************)
Said(step, got) ==
  IF step.op \in {"write", "echo"} /\ step.fd = 1
    THEN (IF step.op = "write" THEN step.bytes ELSE got) ELSE <<>>

Executes(program, run) ==
  LET step == program.code[run.at]
      got  == IF step.op = "read" THEN Taken(run.input, step.count) ELSE <<>>
  IN  IF run.end # "running" THEN run
      ELSE [at    |-> IF step.op = "loop" THEN 1 ELSE run.at + 1,
            steps |-> run.steps + 1,
            input |-> SubSeq(run.input, Len(got) + 1, Len(run.input)),
            got   |-> IF step.op = "read" THEN got ELSE run.got,
            said  |-> run.said \o Said(step, run.got),
            end   |-> IF step.op \in {"halt", "trap"} THEN step.op ELSE "running"]

Started(input) ==
  [at |-> 1, steps |-> 0, input |-> input, got |-> <<>>, said |-> <<>>, end |-> "running"]

Executing(program, input, budget) ==
  LET run[k \in 0 .. budget] ==
        IF k = 0 THEN Started(input) ELSE Executes(program, run[k - 1])
  IN  run

Executed(program, input, budget) == Executing(program, input, budget)[budget]

Verdict(program, input, budget) ==
  LET run == Executed(program, input, budget) IN
  IF ~program.assembles THEN [ok |-> FALSE, stage |-> "Assemble"]
  ELSE IF ~program.links THEN [ok |-> FALSE, stage |-> "Link"]
  ELSE IF ~program.loads THEN [ok |-> FALSE, stage |-> "Load"]
  ELSE [ok |-> run.end = "halt",
        stage |-> IF run.end = "halt" THEN "Finished" ELSE "Execute",
        instructions |-> run.steps, said |-> run.said]

=============================================================================
