------------------------------- MODULE Memory -------------------------------
(***************************************************************************)
(* The cell memory and the two stacks that live in it: the state of        *)
(* adapters/memory.py and adapters/stack.py, and the calls of MemoryPort   *)
(* and StackPort as operators on that state.                               *)
(*                                                                         *)
(* mem is a Python list, so an address below zero counts from its end and  *)
(* only an address outside -MEMORY_SIZE .. MEMORY_SIZE-1 raises.           *)
(***************************************************************************)
EXTENDS Layout

VARIABLES
  mem,   \* ListMemoryAdapter._cells
  sp     \* DownwardStackAdapter._pointer, one per stack

Cells == 0 .. MEMORY_SIZE - 1

Addressable(a) == -MEMORY_SIZE <= a /\ a < MEMORY_SIZE

CellAt(a) == IF a < 0 THEN a + MEMORY_SIZE ELSE a

Stacks == {"D", "R"}   \* the data stack and the return stack

Base(s)  == IF s = "D" THEN DATA_STACK_BASE ELSE RETURN_STACK_BASE
Size(s)  == IF s = "D" THEN DATA_STACK_SIZE ELSE RETURN_STACK_SIZE
Floor(s) == Base(s) - Size(s)

OverflowsLate(s) == sp[s] < Floor(s)   \* mutant: the check lets one push too many through

Overflows(s)  == sp[s] <= Floor(s)
Underflows(s) == sp[s] >= Base(s)
Top(s)        == mem[sp[s]]

\* mutant: the value is stored before the pointer moves
StackPushBeforeMove(s, v) ==
  /\ sp'  = [sp EXCEPT ![s] = @ - CELL_SIZE]
  /\ mem' = [mem EXCEPT ![IF sp[s] = MEMORY_SIZE THEN 0 ELSE sp[s]] = v]

\* push once the overflow check has passed
StackPush(s, v) ==
  /\ sp'  = [sp EXCEPT ![s] = @ - CELL_SIZE]
  /\ mem' = [mem EXCEPT ![sp[s] - CELL_SIZE] = v]

\* pop once the underflow check has passed; the cell keeps its value
StackPop(s) ==
  /\ sp' = [sp EXCEPT ![s] = @ + CELL_SIZE]
  /\ UNCHANGED mem

\* MemoryPort.write to an addressable cell
CellWrite(a, v) ==
  /\ mem' = [mem EXCEPT ![CellAt(a)] = v]
  /\ UNCHANGED sp

MemoryInit ==
  /\ mem = [c \in Cells |-> 0]
  /\ sp  = [s \in Stacks |-> Base(s)]

\* The cells of stack s that hold a value pushed and not yet popped.
Live(s) == {c \in Cells : sp[s] <= c /\ c < Base(s)}

\* Each stack pointer stays between its floor and its base.
PointersInBounds == \A s \in Stacks : sp[s] \in Floor(s) .. Base(s)

\* The values of stack s, oldest first, read out of the shared memory.
Contents(s) == [i \in 1 .. Base(s) - sp[s] |-> mem[Base(s) - i]]

=============================================================================
