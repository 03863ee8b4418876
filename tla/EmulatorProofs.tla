--------------------------- MODULE EmulatorProofs ---------------------------
(***************************************************************************)
(* Theorems about Emulator, for every program, memory layout, host input   *)
(* and budget.                                                             *)
(***************************************************************************)
EXTENDS Emulator, TLAPS

(***************************************************************************)
(* What a fetch may return                                                 *)
(***************************************************************************)

\* An instruction taken from either end of a program (step's tuple indexing)
\* is one of its instructions.
LEMMA FetchedIsInstruction ==
  ASSUME prog \in DOMAIN Code, pc \in Int, Fetchable
  PROVE  Fetched \in Instruction
<1> DEFINE code == Code[prog]
<1>1. code \in Seq(Instruction)
  BY MachineAssumption
<1>2. Len(code) \in Nat /\ \A n \in 1 .. Len(code) : code[n] \in Instruction
  BY <1>1
<1> HIDE DEF code
<1>3. -Len(code) <= pc /\ pc < Len(code)
  BY DEF Fetchable, code
<1>4. Fetched = code[IF pc < 0 THEN pc + Len(code) + 1 ELSE pc + 1]
  BY DEF Fetched, code
<1>5. (IF pc < 0 THEN pc + Len(code) + 1 ELSE pc + 1) \in 1 .. Len(code)
  BY <1>2, <1>3
<1> QED  BY <1>2, <1>4, <1>5

\* ADD, SUB, AND and OR of two integers are integers (the handlers of
\* emulator.py 152-170).
LEMMA AluIsInt ==
  ASSUME NEW op \in AluOps, NEW x \in Int, NEW y \in Int
  PROVE  Alu(op, x, y) \in Int
<1>1. BitAnd(x, y) \in Int
  BY DEF BitAnd
<1> QED  BY <1>1 DEF Alu, AluOps

\* The numbers of layout.py: both stack regions are blocks of memory cells.
LEMMA RegionCells ==
  ASSUME NEW s \in Stacks
  PROVE  /\ Base(s) \in Int /\ Floor(s) \in Int /\ MEMORY_SIZE \in Nat
         /\ 0 <= Floor(s) /\ Floor(s) <= Base(s) /\ Base(s) <= MEMORY_SIZE
BY LayoutAssumption
   DEF Stacks, Base, Floor, Size, MEMORY_SIZE, RETURN_STACK_BASE, DATA_STACK_BASE

\* The data stack and the return stack have no cell in common.
LEMMA RegionsApart ==
  ASSUME NEW s \in Stacks, NEW t \in Stacks, s # t
  PROVE  Base(s) <= Floor(t) \/ Base(t) <= Floor(s)
BY LayoutAssumption
   DEF Stacks, Base, Floor, Size, RETURN_STACK_BASE, DATA_STACK_BASE

(***************************************************************************)
(* Type correctness                                                        *)
(***************************************************************************)

\* A push that has passed its check (adapters/stack.py 31-34) keeps memory and
\* pointers typed.
LEMMA PushKeepsTypes ==
  ASSUME MachineTypeOK, NEW s \in Stacks, NEW v \in Int, ~Overflows(s), StackPush(s, v)
  PROVE  mem' \in [Cells -> Int] /\ sp' \in [Stacks -> Int] /\ PointersInBounds'
<1>1. sp[s] \in Int /\ sp[s] > Floor(s) /\ sp[s] <= Base(s)
  BY RegionCells DEF MachineTypeOK, PointersInBounds, Overflows
<1>2. sp[s] - 1 \in Cells /\ sp[s] - 1 \in Floor(s) .. Base(s)
  BY <1>1, RegionCells DEF Cells
<1>3. /\ sp' = [sp EXCEPT ![s] = sp[s] - 1]
      /\ mem' = [mem EXCEPT ![sp[s] - 1] = v]
  BY DEF StackPush, CELL_SIZE
<1>4. mem' \in [Cells -> Int] /\ sp' \in [Stacks -> Int]
  BY <1>1, <1>2, <1>3 DEF MachineTypeOK
<1> QED  BY <1>2, <1>3, <1>4 DEF MachineTypeOK, PointersInBounds

\* So does a pop that has passed its check (adapters/stack.py 39-42), and the
\* value it returns is an integer.
LEMMA PopKeepsTypes ==
  ASSUME MachineTypeOK, NEW s \in Stacks, ~Underflows(s), StackPop(s)
  PROVE  /\ mem' \in [Cells -> Int] /\ sp' \in [Stacks -> Int] /\ PointersInBounds'
         /\ Top(s) \in Int
<1>1. sp[s] \in Int /\ sp[s] >= Floor(s) /\ sp[s] < Base(s)
  BY RegionCells DEF MachineTypeOK, PointersInBounds, Underflows
<1>2. sp[s] \in Cells
  BY <1>1, RegionCells DEF Cells
<1>3. Top(s) \in Int
  BY <1>2 DEF Top, MachineTypeOK
<1>4. sp' \in [Stacks -> Int] /\ PointersInBounds'
  BY <1>1, RegionCells DEF MachineTypeOK, PointersInBounds, StackPop, CELL_SIZE
<1> QED  BY <1>3, <1>4 DEF StackPop, MachineTypeOK

\* One handler of emulator.py keeps the machine's state typed.
LEMMA ExecTypeOK ==
  ASSUME MachineTypeOK, NEW i \in Instruction, ~Malformed(i), Exec(i)
  PROVE  MachineTypeOK'
<1> USE DEF MachineTypeOK, Proceed, deviceVars
<1>a. i.op \in Ops /\ i.imm \in Int
  BY DEF Instruction
<1>b. i.op # "HALT" => i.a \in Registers /\ regs[i.a] \in Int
  BY DEF Instruction, Malformed
<1>c. i.op \in {"LOAD", "STORE"} => i.b \in Registers /\ regs[i.b] \in Int
  BY DEF Malformed, Instruction
<1>d. i.op \in AluOps => Operand(i) \in Int
  BY <1>a DEF Malformed, Operand, Instruction
<1>e. ASSUME NEW e \in {"IndexError", "EmulatorError", "StackError", "InputExhaustedError"},
             Fault(e)
      PROVE  MachineTypeOK'
  BY <1>e DEF Fault, PointersInBounds
<1>f. ASSUME NEW v \in Int, SetReg(i.a, v)
      PROVE  regs' \in [Registers -> Int]
  BY <1>f DEF SetReg
<1>1. CASE ExecLoad(i)
  <2>1. CASE ~Addressable(regs[i.b])
    BY <1>1, <1>e, <2>1 DEF ExecLoad
  <2>2. CASE Addressable(regs[i.b])
    <3>1. CellAt(regs[i.b]) \in Cells
      BY <1>1, <1>c, <2>2, RegionCells DEF ExecLoad, Addressable, CellAt, Cells, Stacks
    <3>2. regs' \in [Registers -> Int]
      BY <1>1, <1>f, <2>2, <3>1 DEF ExecLoad
    <3> QED  BY <1>1, <2>2, <3>2 DEF ExecLoad, PointersInBounds
  <2> QED  BY <2>1, <2>2
<1>2. CASE ExecStore(i)
  <2>1. CASE ~Addressable(regs[i.a])
    BY <1>2, <1>e, <2>1 DEF ExecStore
  <2>2. CASE Addressable(regs[i.a])
    BY <1>2, <1>c, <2>2 DEF ExecStore, CellWrite, PointersInBounds
  <2> QED  BY <2>1, <2>2
<1>3. CASE ExecAlu(i)
  <2>1. Alu(i.op, regs[i.a], Operand(i)) \in Int
    BY <1>3, <1>b, <1>d, AluIsInt DEF ExecAlu, AluOps
  <2>2. regs' \in [Registers -> Int]
    BY <1>3, <1>f, <2>1 DEF ExecAlu
  <2> QED  BY <1>3, <2>2 DEF ExecAlu, PointersInBounds
<1>4. CASE ExecInvert(i)
  <2>1. -regs[i.a] - 1 \in Int
    BY <1>4, <1>b DEF ExecInvert
  <2>2. regs' \in [Registers -> Int]
    BY <1>4, <1>f, <2>1 DEF ExecInvert
  <2> QED  BY <1>4, <2>2 DEF ExecInvert, PointersInBounds
<1>5. CASE ExecJmp(i)
  BY <1>5, <1>b DEF ExecJmp, Goto, PointersInBounds
<1>6. CASE ExecBranch(i)
  BY <1>6, <1>a DEF ExecBranch, Goto, PointersInBounds
<1>7. CASE ExecPush(i)
  <2> DEFINE s == StackOf(i.op)
  <2>1. s \in Stacks /\ regs[i.a] \in Int
    BY <1>7, <1>b DEF StackOf, Stacks, ExecPush
  <2> HIDE DEF s
  <2>2. CASE Overflows(s)
    BY <1>7, <1>e, <2>2 DEF ExecPush, s
  <2>3. CASE ~Overflows(s)
    <3>1. /\ StackPush(s, regs[i.a]) /\ pc' = pc + 1 /\ raised' = "none"
          /\ UNCHANGED <<prog, halted, regs, input, output>>
      BY <1>7, <2>3 DEF ExecPush, s
    <3>2. mem' \in [Cells -> Int] /\ sp' \in [Stacks -> Int] /\ PointersInBounds'
      BY <2>1, <2>3, <3>1, PushKeepsTypes
    <3> QED  BY <3>1, <3>2
  <2> QED  BY <2>2, <2>3
<1>8. CASE ExecPop(i)
  <2> DEFINE s == StackOf(i.op)
  <2>1. s \in Stacks
    BY DEF StackOf, Stacks
  <2> HIDE DEF s
  <2>2. CASE Underflows(s)
    BY <1>8, <1>e, <2>2 DEF ExecPop, s
  <2>3. CASE ~Underflows(s)
    <3>1. /\ StackPop(s) /\ SetReg(i.a, Top(s))
          /\ pc' = pc + 1 /\ raised' = "none"
          /\ UNCHANGED <<prog, halted, input, output>>
      BY <1>8, <2>3 DEF ExecPop, s
    <3>2. /\ mem' \in [Cells -> Int] /\ sp' \in [Stacks -> Int] /\ PointersInBounds'
          /\ Top(s) \in Int
      BY <2>1, <2>3, <3>1, PopKeepsTypes
    <3>3. regs' \in [Registers -> Int]
      BY <1>f, <3>1, <3>2
    <3> QED  BY <3>1, <3>2, <3>3
  <2> QED  BY <2>2, <2>3
<1>9. CASE ExecIn(i)
  <2>1. CASE input = << >>
    BY <1>9, <1>e, <2>1 DEF ExecIn
  <2>2. CASE input # << >>
    <3>1. Head(input) \in Int /\ Tail(input) \in Seq(Int)
      BY <2>2
    <3>2. regs' \in [Registers -> Int]
      BY <1>9, <1>f, <2>2, <3>1 DEF ExecIn
    <3>3. /\ input' = Tail(input) /\ pc' = pc + 1 /\ raised' = "none"
          /\ UNCHANGED <<mem, sp, prog, halted, output>>
      BY <1>9, <2>2 DEF ExecIn
    <3> QED  BY <3>1, <3>2, <3>3 DEF PointersInBounds
  <2> QED  BY <2>1, <2>2
<1>10. CASE ExecOut(i)
  <2>1. Append(output, regs[i.a]) \in Seq(Int)
    BY <1>10, <1>b DEF ExecOut
  <2> QED  BY <1>10, <2>1 DEF ExecOut, PointersInBounds
<1>11. CASE ExecHalt(i)
  BY <1>11 DEF ExecHalt, PointersInBounds
<1> QED
  BY <1>1, <1>2, <1>3, <1>4, <1>5, <1>6, <1>7, <1>8, <1>9, <1>10, <1>11 DEF Exec

\* step() keeps the machine's state typed, also when it raises.
LEMMA StepTypeOK == MachineTypeOK /\ Step => MachineTypeOK'
<1> SUFFICES ASSUME MachineTypeOK, Step
             PROVE  MachineTypeOK'
  OBVIOUS
<1>1. CASE FetchFault
  BY <1>1 DEF FetchFault, MachineTypeOK, PointersInBounds, cpuVars, deviceVars
<1>2. CASE Fetchable /\ ExecMalformed(Fetched)
  BY <1>2 DEF ExecMalformed, Fault, MachineTypeOK, PointersInBounds, deviceVars
<1>3. CASE Fetchable /\ ~Malformed(Fetched) /\ Exec(Fetched)
  <2>1. Fetched \in Instruction
    BY <1>3, FetchedIsInstruction DEF MachineTypeOK
  <2> QED  BY <1>3, <2>1, ExecTypeOK
<1> QED  BY <1>1, <1>2, <1>3 DEF Step

\* The emulator's state, its stack pointers and its step counter are typed in
\* every reachable state, whatever program the host loads and however it
\* seeds, feeds, steps and runs it.
THEOREM EmulatorTypeOK == Spec => []TypeOK
<1>1. Init => TypeOK
  <2> SUFFICES ASSUME Init
               PROVE  TypeOK
    OBVIOUS
  <2>1. \A s \in Stacks : Base(s) \in Floor(s) .. Base(s) /\ Base(s) \in Int
    BY RegionCells
  <2>2. PointersInBounds /\ sp \in [Stacks -> Int]
    BY <2>1 DEF Init, MachineInit, MemoryInit, PointersInBounds
  <2>3. prog \in DOMAIN Code /\ input \in Seq(Int) /\ output \in Seq(Int)
    BY MachineAssumption DEF Init, MachineInit
  <2>4. mem \in [Cells -> Int] /\ pc \in Int /\ regs \in [Registers -> Int]
    BY DEF Init, MachineInit, MemoryInit
  <2>5. halted \in BOOLEAN /\ raised = "none"
    BY DEF Init, MachineInit
  <2>6. MachineTypeOK
    BY <2>2, <2>3, <2>4, <2>5 DEF MachineTypeOK
  <2>7. running \in BOOLEAN /\ budget = 0 /\ steps = 0 /\ calls = 0
    BY DEF Init
  <2> QED
    BY <2>6, <2>7, EmulatorAssumption DEF TypeOK
<1>2. TypeOK /\ [Next]_vars => TypeOK'
  <2> SUFFICES ASSUME TypeOK, [Next]_vars
               PROVE  TypeOK'
    OBVIOUS
  <2> USE DEF TypeOK
  <2>a. HostCall => calls' \in 0 .. MaxCalls
    BY EmulatorAssumption DEF HostCall
  <2>b. ASSUME HostCall, UNCHANGED runVars, MachineTypeOK'
        PROVE  TypeOK'
    BY <2>a, <2>b DEF runVars
  <2>1. ASSUME NEW p \in DOMAIN Code, Load(p)
        PROVE  TypeOK'
    <3>1. /\ prog' = p /\ pc' = 0 /\ raised' = "none" /\ halted' = FALSE
          /\ UNCHANGED <<mem, sp, regs, input, output>>
      BY <2>1 DEF Load, deviceVars
    <3>2. prog' \in DOMAIN Code
      BY <3>1, Zenon
    <3>3. halted' \in BOOLEAN
      BY <3>1, Zenon
    <3>4. PointersInBounds'
      BY <3>1 DEF MachineTypeOK, PointersInBounds
    <3>5. MachineTypeOK'
      BY <3>1, <3>2, <3>3, <3>4 DEF MachineTypeOK
    <3> QED  BY <2>1, <2>b, <3>5 DEF Load
  <2>2. ASSUME NEW s \in Seeds, Seed(s[1], s[2])
        PROVE  TypeOK'
    <3>1. s[2] \in Int
      BY EmulatorAssumption
    <3>2. regs' \in [Registers -> Int]
      BY <2>2, <3>1 DEF Seed, SetReg, MachineTypeOK
    <3>3. MachineTypeOK'
      BY <2>2, <3>2 DEF Seed, MachineTypeOK, PointersInBounds, deviceVars
    <3> QED  BY <2>2, <2>b, <3>3 DEF Seed
  <2>3. ASSUME NEW f \in Feeds, Feed(f)
        PROVE  TypeOK'
    <3>1. input \o f \in Seq(Int)
      BY EmulatorAssumption DEF MachineTypeOK
    <3>2. MachineTypeOK'
      BY <2>3, <3>1 DEF Feed, MachineTypeOK, PointersInBounds, cpuVars
    <3> QED  BY <2>3, <2>b, <3>2 DEF Feed
  <2>4. ASSUME NEW n \in Budgets, RunCall(n)
        PROVE  TypeOK'
    <3>1. MachineTypeOK'
      BY <2>4 DEF RunCall, MachineTypeOK, PointersInBounds, cpuVars, deviceVars
    <3>2. budget' \in Nat /\ steps' \in 0 .. budget'
      BY <2>4, EmulatorAssumption DEF RunCall
    <3> QED  BY <2>4, <2>a, <3>1, <3>2 DEF RunCall
  <2>5. CASE StepCall
    BY <2>5, <2>b, StepTypeOK DEF StepCall
  <2>6. CASE RunStep
    <3>1. MachineTypeOK'
      BY <2>6, StepTypeOK DEF RunStep
    <3>2. \/ steps < budget /\ steps' = steps + 1 /\ budget' = budget
          \/ steps' = 0 /\ budget' = 0
      BY <2>6, Zenon DEF RunStep, EndRun
    <3>3. budget' \in Nat /\ steps' \in 0 .. budget'
      BY <3>2
    <3>4. running' \in BOOLEAN /\ calls' = calls
      BY <2>6 DEF RunStep, EndRun
    <3> QED  BY <3>1, <3>3, <3>4
  <2>7. CASE RunReturn \/ RunExceeded
    <3>1. MachineTypeOK'
      BY <2>7 DEF RunReturn, RunExceeded, MachineTypeOK, PointersInBounds, cpuVars, deviceVars
    <3>2. budget' = 0 /\ steps' = 0
      BY <2>7 DEF RunReturn, RunExceeded, EndRun
    <3>3. budget' \in Nat /\ steps' \in 0 .. budget'
      BY <3>2
    <3>4. running' \in BOOLEAN /\ calls' = calls
      BY <2>7 DEF RunReturn, RunExceeded, EndRun
    <3> QED  BY <3>1, <3>3, <3>4
  <2>8. CASE UNCHANGED vars
    BY <2>8
    DEF vars, machineVars, cpuVars, deviceVars, runVars, MachineTypeOK, PointersInBounds
  <2> QED
    BY <2>1, <2>2, <2>3, <2>4, <2>5, <2>6, <2>7, <2>8 DEF Next, RunProgress
<1> QED  BY <1>1, <1>2, PTL DEF Spec

(***************************************************************************)
(* What a step and a run may not do                                        *)
(***************************************************************************)

\* A step that raises leaves everything but pc alone (emulator.py: every
\* handler checks before it writes).
LEMMA RefusedStep ==
  ASSUME MachineTypeOK, Step, raised' # "none"
  PROVE  UNCHANGED <<mem, sp, regs, deviceVars, prog, halted>> /\ pc' \in {pc, pc + 1}
<1> DEFINE NoTrace == UNCHANGED <<mem, sp, regs, deviceVars, prog, halted>> /\ pc' \in {pc, pc + 1}
<1>1. CASE FetchFault
  BY <1>1 DEF FetchFault, cpuVars
<1>2. CASE Fetchable /\ ExecMalformed(Fetched)
  BY <1>2 DEF ExecMalformed, Fault
<1>3. ASSUME NEW i \in Instruction, Exec(i)
      PROVE  NoTrace
  <2>1. ~(ExecAlu(i) \/ ExecInvert(i) \/ ExecJmp(i) \/ ExecBranch(i) \/ ExecOut(i) \/ ExecHalt(i))
    BY DEF ExecAlu, ExecInvert, ExecJmp, ExecBranch, ExecOut, ExecHalt, Goto, Proceed
  <2>2. CASE ExecLoad(i) \/ ExecStore(i)
    BY <2>2 DEF ExecLoad, ExecStore, Proceed, Fault
  <2>3. CASE ExecPush(i) \/ ExecPop(i)
    BY <2>3 DEF ExecPush, ExecPop, Proceed, Fault
  <2>4. CASE ExecIn(i)
    BY <2>4 DEF ExecIn, Proceed, Fault
  <2> QED  BY <1>3, <2>1, <2>2, <2>3, <2>4 DEF Exec
<1>4. CASE Fetchable /\ ~Malformed(Fetched) /\ Exec(Fetched)
  <2>1. Fetched \in Instruction
    BY <1>4, FetchedIsInstruction DEF MachineTypeOK
  <2> QED  BY <1>3, <1>4, <2>1
<1> QED  BY <1>1, <1>2, <1>4 DEF Step

\* Every refused call and every refused step of a run leaves no trace.
THEOREM EmulatorRefusals == Spec => RefusalsLeaveNoTrace
<1> DEFINE NoTrace == UNCHANGED <<mem, sp, regs, deviceVars, prog, halted>> /\ pc' \in {pc, pc + 1}
           Refused == raised' \notin {raised, "none"}
<1>1. TypeOK /\ [Next]_vars => (Refused => NoTrace)
  <2> SUFFICES ASSUME TypeOK, [Next]_vars, Refused
               PROVE  NoTrace
    OBVIOUS
  <2>1. CASE StepCall \/ RunStep
    BY <2>1, RefusedStep DEF StepCall, RunStep, TypeOK
  <2>2. CASE RunReturn \/ RunExceeded
    BY <2>2 DEF RunReturn, RunExceeded, cpuVars
  <2>3. CASE \/ \E p \in DOMAIN Code : Load(p)
             \/ \E s \in Seeds : Seed(s[1], s[2])
             \/ \E f \in Feeds : Feed(f)
             \/ \E n \in Budgets : RunCall(n)
             \/ UNCHANGED vars
    BY <2>3 DEF Load, Seed, Feed, RunCall, vars, machineVars
  <2> QED  BY <2>1, <2>2, <2>3 DEF Next, RunProgress
<1>2. [][Refused => NoTrace]_vars <=> RefusalsLeaveNoTrace
  BY DEF RefusalsLeaveNoTrace
<1> QED  BY <1>1, <1>2, EmulatorTypeOK, PTL DEF Spec

\* A run() call ends normally on a halted machine, with the guard's exception
\* after exactly max_steps steps, or with the exception of its last step.
THEOREM EmulatorRunEnds == Spec => RunEnds
<1> DEFINE Ending == \/ raised' = "none" /\ halted'
                     \/ raised' = "EmulatorError" /\ steps = budget /\ ~halted'
                     \/ raised' # "none" /\ steps < budget /\ Step
<1>1. TypeOK /\ [Next]_vars => (running /\ ~running' => Ending)
  <2> SUFFICES ASSUME TypeOK, [Next]_vars, running, ~running'
               PROVE  Ending
    OBVIOUS
  <2>1. CASE RunStep
    BY <2>1 DEF RunStep, TypeOK, runVars
  <2>2. CASE RunReturn
    BY <2>2 DEF RunReturn, cpuVars, TypeOK, MachineTypeOK
  <2>3. CASE RunExceeded
    <3>1. steps = budget
      BY <2>3 DEF RunExceeded, TypeOK
    <3> QED  BY <2>3, <3>1 DEF RunExceeded, cpuVars
  <2>4. CASE UNCHANGED vars
    BY <2>4 DEF vars, runVars
  <2> QED
    BY <2>1, <2>2, <2>3, <2>4 DEF Next, RunProgress, Load, Seed, Feed, RunCall, StepCall, HostCall
<1>2. [][running /\ ~running' => Ending]_vars <=> RunEnds
  BY DEF RunEnds
<1> QED  BY <1>1, <1>2, EmulatorTypeOK, PTL DEF Spec

\* Stopping a program with the runaway guard and running it again shows
\* nothing that one longer run would not: run() itself never touches the
\* machine.
THEOREM EmulatorResume == Spec => ResumeIsSeamless
<1> DEFINE Seamless == \/ ~halted /\ Step
                       \/ UNCHANGED <<mem, sp, cpuVars, deviceVars>>
<1>1. [Next]_vars => (running \/ running' => Seamless)
  <2> SUFFICES ASSUME [Next]_vars, running \/ running'
               PROVE  Seamless
    OBVIOUS
  <2>1. CASE RunStep
    BY <2>1 DEF RunStep
  <2>2. CASE RunReturn \/ RunExceeded
    BY <2>2 DEF RunReturn, RunExceeded
  <2>3. ASSUME NEW n \in Budgets, RunCall(n)
        PROVE  Seamless
    BY <2>3 DEF RunCall
  <2>4. CASE UNCHANGED vars
    BY <2>4 DEF vars, machineVars
  <2>5. CASE \/ \E p \in DOMAIN Code : Load(p)
             \/ \E s \in Seeds : Seed(s[1], s[2])
             \/ \E f \in Feeds : Feed(f)
             \/ StepCall
    BY <2>5 DEF Load, Seed, Feed, StepCall, HostCall, runVars
  <2> QED
    BY <2>1, <2>2, <2>3, <2>4, <2>5 DEF Next, RunProgress
<1>2. [][running \/ running' => Seamless]_vars <=> ResumeIsSeamless
  BY DEF ResumeIsSeamless
<1> QED  BY <1>1, <1>2, PTL DEF Spec

(***************************************************************************)
(* The stacks inside the shared memory                                     *)
(***************************************************************************)

\* A push (adapters/stack.py 31-34) writes below every live cell of its own
\* stack and outside the other stack's region.
LEMMA PushSparesLiveCells ==
  ASSUME MachineTypeOK, NEW s \in Stacks, NEW t \in Stacks, NEW v,
         ~Overflows(t), StackPush(t, v), NEW c \in Live(s)
  PROVE  mem'[c] = mem[c]
<1>1. /\ sp[s] \in Int /\ Floor(s) <= sp[s] /\ sp[s] <= Base(s)
      /\ sp[t] \in Int /\ Floor(t) < sp[t] /\ sp[t] <= Base(t)
  BY RegionCells DEF MachineTypeOK, PointersInBounds, Overflows
<1>2. c \in Int /\ c \in Cells /\ sp[s] <= c /\ c < Base(s)
  BY DEF Live, Cells
<1>3. sp[t] - 1 # c
  <2>1. CASE s = t
    BY <1>1, <1>2, <2>1
  <2>2. CASE s # t
    BY <1>1, <1>2, <2>2, RegionsApart, RegionCells
  <2> QED  BY <2>1, <2>2
<1>4. mem' = [mem EXCEPT ![sp[t] - 1] = v]
  BY DEF StackPush, CELL_SIZE
<1> QED  BY <1>2, <1>3, <1>4 DEF MachineTypeOK

\* The three ways a step treats the memory.
LEMMA StepWrites ==
  ASSUME MachineTypeOK, Step
  PROVE  \/ mem' = mem
         \/ \A c \in Cells : mem'[c] # mem[c] => StoresTo(c)
         \/ \E t \in Stacks, r \in Registers : ~Overflows(t) /\ StackPush(t, regs[r])
<1>1. CASE FetchFault \/ ExecMalformed(Fetched)
  BY <1>1 DEF FetchFault, ExecMalformed, Fault
<1>2. CASE Fetchable /\ ~Malformed(Fetched) /\ Exec(Fetched)
  <2> DEFINE i == Fetched
  <2>1. i \in Instruction /\ ~Malformed(i)
    BY <1>2, FetchedIsInstruction DEF MachineTypeOK
  <2>2. CASE ExecStore(i)
    <3>1. CASE mem' = mem
      BY <3>1
    <3>2. CASE mem' # mem
      <4>1. mem' = [mem EXCEPT ![CellAt(regs[i.a])] = regs[i.b]] /\ i.op = "STORE"
        BY <2>2, <3>2 DEF ExecStore, Fault, CellWrite
      <4>2. \A c \in Cells : mem'[c] # mem[c] => CellAt(regs[i.a]) = c
        BY <4>1 DEF MachineTypeOK
      <4> QED  BY <1>2, <4>1, <4>2 DEF StoresTo
    <3> QED  BY <3>1, <3>2
  <2>3. CASE ExecPush(i)
    <3>1. CASE Overflows(StackOf(i.op))
      BY <2>3, <3>1 DEF ExecPush, Fault
    <3>2. CASE ~Overflows(StackOf(i.op))
      <4>1. StackOf(i.op) \in Stacks
        BY DEF StackOf, Stacks
      <4>2. i.a \in Registers
        BY <2>1, <2>3 DEF Malformed, Instruction, ExecPush
      <4>3. StackPush(StackOf(i.op), regs[i.a])
        BY <2>3, <3>2 DEF ExecPush
      <4> QED  BY <3>2, <4>1, <4>2, <4>3
    <3> QED  BY <3>1, <3>2
  <2>4. CASE ExecPop(i)
    BY <2>4 DEF ExecPop, Fault, StackPop
  <2>5. CASE ExecLoad(i) \/ ExecIn(i)
    BY <2>5 DEF ExecLoad, ExecIn, Fault
  <2>6. CASE \/ ExecAlu(i) \/ ExecInvert(i) \/ ExecJmp(i) \/ ExecBranch(i)
             \/ ExecOut(i) \/ ExecHalt(i)
    BY <2>6 DEF ExecAlu, ExecInvert, ExecJmp, ExecBranch, Goto, ExecOut, ExecHalt
  <2> QED  BY <1>2, <2>2, <2>3, <2>4, <2>5, <2>6 DEF Exec
<1> QED  BY <1>1, <1>2 DEF Step

\* No push or pop, fault or host call changes a value that is on a stack; only
\* a program's own STORE to that cell can.
THEOREM EmulatorLiveValues == Spec => LiveValuesStay
<1> DEFINE Stay == \A s \in Stacks : \A c \in Live(s) \cap Live(s)' :
                     mem'[c] # mem[c] => StoresTo(c)
<1>1. TypeOK /\ [Next]_vars => Stay
  <2> SUFFICES ASSUME TypeOK, [Next]_vars,
                      NEW s \in Stacks, NEW c \in Live(s), mem'[c] # mem[c]
               PROVE  StoresTo(c)
    OBVIOUS
  <2>1. c \in Cells
    BY DEF Live
  <2>2. CASE StepCall \/ RunStep
    <3>1. MachineTypeOK /\ Step
      BY <2>2 DEF StepCall, RunStep, TypeOK
    <3>2. CASE \E t \in Stacks, r \in Registers : ~Overflows(t) /\ StackPush(t, regs[r])
      BY <3>1, <3>2, PushSparesLiveCells
    <3> QED  BY <2>1, <3>1, <3>2, StepWrites
  <2>3. CASE RunReturn \/ RunExceeded
    BY <2>3 DEF RunReturn, RunExceeded
  <2>4. CASE \/ \E p \in DOMAIN Code : Load(p)
             \/ \E x \in Seeds : Seed(x[1], x[2])
             \/ \E f \in Feeds : Feed(f)
             \/ \E n \in Budgets : RunCall(n)
             \/ UNCHANGED vars
    BY <2>4 DEF Load, Seed, Feed, RunCall, vars, machineVars
  <2> QED  BY <2>2, <2>3, <2>4 DEF Next, RunProgress
<1>2. [][Stay]_vars <=> LiveValuesStay
  BY DEF LiveValuesStay
<1> QED  BY <1>1, <1>2, EmulatorTypeOK, PTL DEF Spec

=============================================================================
