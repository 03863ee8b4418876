------------------------------ MODULE Machine -------------------------------
(***************************************************************************)
(* The processor of EmulatorService: its registers, program counter and    *)
(* devices on top of the shared memory and stacks, and step(), one action  *)
(* per handler.                                                            *)
(* A step that raises leaves the exception in raised.                      *)
(***************************************************************************)
EXTENDS Memory, Isa, PythonIntegers, Sequences

CONSTANTS
  Registers,   \* the register names a program may use
  Code,        \* the programs load() is called with, by name
  NoProgram    \* the name of the empty program a new machine holds

Instruction ==
  [op : Ops, a : Registers \cup {NOREG}, b : Registers \cup {NOREG, IMM}, imm : Int]

ASSUME MachineAssumption ==
  /\ NOREG \notin Registers /\ IMM \notin Registers
  /\ \A p \in DOMAIN Code : Code[p] \in Seq(Instruction)
  /\ NoProgram \in DOMAIN Code /\ Code[NoProgram] = << >>

VARIABLES
  prog,     \* the name of the loaded program
  pc,
  halted,
  regs,     \* 0 until written: the register file's default
  input,    \* the queue IN reads, next character first
  output,   \* what OUT has written
  raised    \* the exception the latest call ended with, or "none"

cpuVars     == <<prog, pc, halted, regs>>
deviceVars  == <<input, output>>
machineVars == <<mem, sp, cpuVars, deviceVars, raised>>

MachineInit ==
  /\ MemoryInit
  /\ pc = 0 /\ halted = FALSE
  /\ regs = [r \in Registers |-> 0]
  /\ output = << >>
  /\ raised = "none"

-----------------------------------------------------------------------------
(* Fetch *)

\* tuple indexing, negative indices included
Fetchable == -Len(Code[prog]) <= pc /\ pc < Len(Code[prog])
Fetched   == Code[prog][IF pc < 0 THEN pc + Len(Code[prog]) + 1 ELSE pc + 1]

FetchFault ==
  /\ ~Fetchable
  /\ raised' = "IndexError"
  /\ UNCHANGED <<mem, sp, cpuVars, deviceVars>>

-----------------------------------------------------------------------------
(* Operands *)

Operand(i) == IF i.b = IMM THEN i.imm ELSE regs[i.b]

Alu(op, x, y) ==
  CASE op = "ADD" -> x + y
    [] op = "SUB" -> x - y
    [] op = "AND" -> BitAnd(x, y)
    [] op = "OR"  -> x + y - BitAnd(x, y)

-----------------------------------------------------------------------------
(* Handlers: pc has been advanced when one runs, so a fault leaves it so *)

Fault(e) ==
  /\ raised' = e
  /\ pc' = pc + 1
  /\ UNCHANGED <<mem, sp, prog, halted, regs, deviceVars>>

Proceed == pc' = pc + 1 /\ raised' = "none" /\ UNCHANGED <<prog, halted>>

SetReg(r, v) == regs' = [regs EXCEPT ![r] = v]

\* mutant: POP_D pops before it looks at its operand
ExecMalformedPops(i) ==
  /\ Malformed(i)
  /\ IF i.op = "POP_D" /\ ~Underflows("D")
     THEN /\ StackPop("D") /\ raised' = "EmulatorError" /\ pc' = pc + 1
          /\ UNCHANGED <<prog, halted, regs, deviceVars>>
     ELSE Fault("EmulatorError")

ExecMalformed(i) ==
  /\ Malformed(i)
  /\ Fault("EmulatorError")

ExecLoad(i) ==
  /\ i.op = "LOAD"
  /\ IF Addressable(regs[i.b])
     THEN SetReg(i.a, mem[CellAt(regs[i.b])]) /\ Proceed /\ UNCHANGED <<mem, sp, deviceVars>>
     ELSE Fault("IndexError")

ExecStore(i) ==
  /\ i.op = "STORE"
  /\ IF Addressable(regs[i.a])
     THEN CellWrite(regs[i.a], regs[i.b]) /\ Proceed /\ UNCHANGED <<regs, deviceVars>>
     ELSE Fault("IndexError")

ExecAlu(i) ==
  /\ i.op \in AluOps
  /\ SetReg(i.a, Alu(i.op, regs[i.a], Operand(i)))
  /\ Proceed
  /\ UNCHANGED <<mem, sp, deviceVars>>

ExecInvert(i) ==
  /\ i.op = "INVERT"
  /\ SetReg(i.a, -regs[i.a] - 1)
  /\ Proceed
  /\ UNCHANGED <<mem, sp, deviceVars>>

Goto(target) ==
  /\ pc' = target
  /\ raised' = "none"
  /\ UNCHANGED <<mem, sp, prog, halted, regs, deviceVars>>

ExecJmp(i) ==
  /\ i.op = "JMP"
  /\ Goto(regs[i.a])

ExecBranch(i) ==
  /\ i.op \in BranchOps
  /\ LET taken == IF i.op = "JZ" THEN regs[i.a] = 0 ELSE regs[i.a] < 0
     IN  Goto(IF taken THEN pc + 1 + i.imm ELSE pc + 1)

StackOf(op) == IF op \in {"PUSH_D", "POP_D"} THEN "D" ELSE "R"

ExecPush(i) ==
  /\ i.op \in {"PUSH_D", "PUSH_R"}
  /\ LET s == StackOf(i.op) IN
     IF Overflows(s)
     THEN Fault("StackError")
     ELSE StackPush(s, regs[i.a]) /\ Proceed /\ UNCHANGED <<regs, deviceVars>>

ExecPop(i) ==
  /\ i.op \in {"POP_D", "POP_R"}
  /\ LET s == StackOf(i.op) IN
     IF Underflows(s)
     THEN Fault("StackError")
     ELSE StackPop(s) /\ SetReg(i.a, Top(s)) /\ Proceed /\ UNCHANGED deviceVars

ExecIn(i) ==
  /\ i.op = "IN"
  /\ IF input = << >>
     THEN Fault("InputExhaustedError")
     ELSE /\ SetReg(i.a, Head(input))
          /\ input' = Tail(input)
          /\ Proceed
          /\ UNCHANGED <<mem, sp, output>>

ExecOut(i) ==
  /\ i.op = "OUT"
  /\ output' = Append(output, regs[i.a])
  /\ Proceed
  /\ UNCHANGED <<mem, sp, regs, input>>

ExecHalt(i) ==
  /\ i.op = "HALT"
  /\ halted' = TRUE
  /\ pc' = pc + 1
  /\ raised' = "none"
  /\ UNCHANGED <<mem, sp, prog, regs, deviceVars>>

Exec(i) ==
  \/ ExecLoad(i) \/ ExecStore(i)
  \/ ExecAlu(i)  \/ ExecInvert(i)
  \/ ExecJmp(i)  \/ ExecBranch(i)
  \/ ExecPush(i) \/ ExecPop(i)
  \/ ExecIn(i)   \/ ExecOut(i)
  \/ ExecHalt(i)

\* EmulatorService.step
Step ==
  \/ FetchFault
  \/ /\ Fetchable
     /\ \/ ExecMalformed(Fetched)
        \/ ~Malformed(Fetched) /\ Exec(Fetched)

-----------------------------------------------------------------------------
\* The machine's state has its type and both stack pointers are in bounds.
MachineTypeOK ==
  /\ mem \in [Cells -> Int]
  /\ sp \in [Stacks -> Int]
  /\ PointersInBounds
  /\ prog \in DOMAIN Code
  /\ pc \in Int
  /\ halted \in BOOLEAN
  /\ regs \in [Registers -> Int]
  /\ input \in Seq(Int)
  /\ output \in Seq(Int)
  /\ raised \in {"none", "IndexError", "EmulatorError", "StackError",
                 "InputExhaustedError"}

=============================================================================
