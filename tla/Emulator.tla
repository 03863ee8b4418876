------------------------------ MODULE Emulator ------------------------------
(***************************************************************************)
(* EmulatorService as its host drives it: load, the register file, the     *)
(* input queue, single steps, and run() with its runaway guard, which the  *)
(* host may call again after an exception.  A run() call is three kinds of *)
(* action, RunCall, RunStep (one iteration of its loop) and one of         *)
(* RunReturn and RunExceeded; an exception raised by a step ends the call. *)
(***************************************************************************)
EXTENDS Machine

CONSTANTS
  Feeds,      \* the sequences of characters the host feeds
  Seeds,      \* the pairs <<register, value>> the host writes
  Budgets,    \* the values of max_steps
  MaxCalls    \* bound: host calls in a behaviour

ASSUME EmulatorAssumption ==
  /\ Feeds \subseteq Seq(Int)
  /\ Seeds \subseteq Registers \X Int
  /\ Budgets \subseteq Nat
  /\ MaxCalls \in Nat

VARIABLES
  running,   \* a run() call is in progress
  budget,    \* its max_steps
  steps,     \* its local variable steps
  calls      \* how many calls the host has made

runVars == <<running, budget, steps>>
vars == <<machineVars, runVars, calls>>

Init ==
  /\ MachineInit
  /\ prog = NoProgram
  /\ input = << >>
  /\ running = FALSE /\ budget = 0 /\ steps = 0
  /\ calls = 0

\* The host calls: one at a time, and no more than MaxCalls.
HostCall == ~running /\ calls < MaxCalls /\ calls' = calls + 1

\* load() leaves registers, stacks, memory and devices as they are
Load(p) ==
  /\ HostCall
  /\ prog' = p /\ pc' = 0 /\ halted' = FALSE
  /\ raised' = "none"
  /\ UNCHANGED <<mem, sp, regs, deviceVars, runVars>>

Seed(r, v) ==
  /\ HostCall
  /\ SetReg(r, v)
  /\ raised' = "none"
  /\ UNCHANGED <<mem, sp, prog, pc, halted, deviceVars, runVars>>

Feed(chars) ==
  /\ HostCall
  /\ input' = input \o chars
  /\ raised' = "none"
  /\ UNCHANGED <<mem, sp, cpuVars, output, runVars>>

\* step() does not look at halted
StepCall ==
  /\ HostCall
  /\ Step
  /\ UNCHANGED runVars

\* mutant: a new run starts the program over
RunCallFromStart(n) ==
  /\ HostCall
  /\ running' = TRUE /\ budget' = n /\ steps' = 0
  /\ pc' = 0 /\ raised' = "none"
  /\ UNCHANGED <<mem, sp, prog, halted, regs, deviceVars>>

RunCall(n) ==
  /\ HostCall
  /\ running' = TRUE /\ budget' = n /\ steps' = 0
  /\ raised' = "none"
  /\ UNCHANGED <<mem, sp, cpuVars, deviceVars>>

EndRun == running' = FALSE /\ budget' = 0 /\ steps' = 0

\* mutant: the counter is not advanced
RunStepUncounted ==
  /\ running /\ ~halted /\ steps < budget
  /\ Step
  /\ IF raised' = "none" THEN UNCHANGED runVars ELSE EndRun
  /\ UNCHANGED calls

RunStep ==
  /\ running /\ ~halted /\ steps < budget
  /\ Step
  /\ IF raised' = "none"
     THEN steps' = steps + 1 /\ UNCHANGED <<running, budget>>
     ELSE EndRun
  /\ UNCHANGED calls

RunReturn ==
  /\ running /\ halted
  /\ EndRun
  /\ raised' = "none"
  /\ UNCHANGED <<mem, sp, cpuVars, deviceVars, calls>>

\* mutant: one step too few
RunExceededEarly ==
  /\ running /\ ~halted /\ steps + 1 >= budget
  /\ EndRun
  /\ raised' = "EmulatorError"
  /\ UNCHANGED <<mem, sp, cpuVars, deviceVars, calls>>

RunExceeded ==
  /\ running /\ ~halted /\ steps >= budget
  /\ EndRun
  /\ raised' = "EmulatorError"
  /\ UNCHANGED <<mem, sp, cpuVars, deviceVars, calls>>

RunProgress == RunStep \/ RunReturn \/ RunExceeded

Next ==
  \/ \E p \in DOMAIN Code : Load(p)
  \/ \E s \in Seeds : Seed(s[1], s[2])
  \/ \E f \in Feeds : Feed(f)
  \/ \E n \in Budgets : RunCall(n)
  \/ StepCall
  \/ RunProgress

Spec == Init /\ [][Next]_vars

\* Inside run() the interpreter's own loop makes progress: nothing blocks it.
FairSpec == Spec /\ WF_vars(RunProgress)

-----------------------------------------------------------------------------
(* Properties *)

\* The state of the machine and of the run() call in progress has its type,
\* both stack pointers are in bounds and a run never exceeds its budget.
TypeOK ==
  /\ MachineTypeOK
  /\ running \in BOOLEAN
  /\ budget \in Nat
  /\ steps \in 0 .. budget
  /\ calls \in 0 .. MaxCalls

StoresTo(c) ==
  /\ Fetchable /\ ~Malformed(Fetched) /\ Fetched.op = "STORE"
  /\ CellAt(regs[Fetched.a]) = c

\* A value on either stack keeps its cell's content until it is popped, unless
\* the program itself stores to that very cell: no push or pop of the other
\* stack, no fault and no host call reaches it (emulator.py handlers over the
\* memory the two DownwardStackAdapters share).
LiveValuesStay ==
  [][\A s \in Stacks : \A c \in Live(s) \cap Live(s)' :
       mem'[c] # mem[c] => StoresTo(c)]_vars

\* A handler that raises has done nothing: between the call and the exception
\* only pc moves, so the host sees the registers, memory, stacks and devices
\* as they were before the refused instruction (step, emulator.py 105-109).
RefusalsLeaveNoTrace ==
  [][raised' \notin {raised, "none"} =>
       UNCHANGED <<mem, sp, regs, deviceVars, prog, halted>> /\ pc' \in {pc, pc + 1}]_vars

\* run() (emulator.py 111-118) ends in one of three ways: normally, and then
\* the machine is halted; with the guard's EmulatorError, after exactly
\* max_steps steps and on a machine still running; or with the exception of
\* the step it was making.
RunEnds ==
  [][running /\ ~running' =>
       \/ raised' = "none" /\ halted'
       \/ raised' = "EmulatorError" /\ steps = budget /\ ~halted'
       \/ raised' # "none" /\ steps < budget /\ Step]_vars

\* The runaway guard is transparent: a program stopped by it and run again
\* goes through the states of one uninterrupted execution, because inside
\* run(), at its start and at its end, only step() changes the machine, and a
\* machine that has halted stays as it is.
ResumeIsSeamless ==
  [][running \/ running' =>
       \/ ~halted /\ Step
       \/ UNCHANGED <<mem, sp, cpuVars, deviceVars>>]_vars

\* errors.py declares one base class for every error the package raises; the
\* exceptions a step or a run() may end with are all of that class.
OnlyMachineErrors ==
  raised \in {"none", "EmulatorError", "StackError", "InputExhaustedError"}

\* Every run() call returns to the host.
RunsReturn == running ~> ~running

=============================================================================
