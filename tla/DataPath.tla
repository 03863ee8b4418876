------------------------------ MODULE DataPath ------------------------------
(***************************************************************************)
(* The shared data path of MachineContainer: every service of a machine    *)
(* (the emulator, the Forth interpreter, the dictionary, the host) calls   *)
(* the same memory and the same two stacks.  One action is one call of     *)
(* MemoryPort or StackPort, by any of them, in any order.                  *)
(***************************************************************************)
EXTENDS Memory, Sequences

CONSTANTS
  Value,        \* the integers the clients store
  ClientAddrs   \* the addresses MemoryPort is called with

\* The other users of the memory keep to the block below the stacks.
ASSUME ClientAssumption ==
  /\ 0 \in Value
  /\ \A a \in ClientAddrs :
       a \in Int /\ (Addressable(a) => CellAt(a) < DICTIONARY_SIZE)

VARIABLES
  port,       \* history: the stack the latest call was made on, or "memory"
  returned,   \* the value the latest value-returning call gave back
  raised      \* the exception the latest call ended with, or "none"

vars == <<mem, sp, port, returned, raised>>

Init ==
  /\ MemoryInit
  /\ port = "memory"
  /\ returned = 0
  /\ raised = "none"

Raise(e) ==
  /\ raised' = e
  /\ UNCHANGED <<mem, sp, returned>>

Push(s, v) ==
  IF Overflows(s)
  THEN Raise("StackError")
  ELSE StackPush(s, v) /\ raised' = "none" /\ UNCHANGED returned

Pop(s) ==
  IF Underflows(s)
  THEN Raise("StackError")
  ELSE StackPop(s) /\ returned' = Top(s) /\ raised' = "none"

Peek(s) ==
  IF Underflows(s)
  THEN Raise("StackError")
  ELSE returned' = Top(s) /\ raised' = "none" /\ UNCHANGED <<mem, sp>>

Read(a) ==
  IF Addressable(a)
  THEN returned' = mem[CellAt(a)] /\ raised' = "none" /\ UNCHANGED <<mem, sp>>
  ELSE Raise("IndexError")

Write(a, v) ==
  IF Addressable(a)
  THEN CellWrite(a, v) /\ raised' = "none" /\ UNCHANGED returned
  ELSE Raise("IndexError")

Next ==
  \/ \E s \in Stacks :
       /\ port' = s
       /\ \/ \E v \in Value : Push(s, v)
          \/ Pop(s)
          \/ Peek(s)
  \/ \E a \in ClientAddrs :
       /\ port' = "memory"
       /\ \/ Read(a)
          \/ \E v \in Value : Write(a, v)

Spec == Init /\ [][Next]_vars

-----------------------------------------------------------------------------
\* Every cell holds a value, every stack pointer is inside its region, and a
\* call ends normally or with one of the two exceptions the adapters raise.
TypeOK ==
  /\ mem \in [Cells -> Value]
  /\ sp \in [Stacks -> Int]
  /\ PointersInBounds
  /\ port \in Stacks \cup {"memory"}
  /\ returned \in Value
  /\ raised \in {"none", "StackError", "IndexError"}

Lifo == INSTANCE LifoStacks WITH
          Capacity <- Size, stk <- [s \in Stacks |-> Contents(s)]

\* The adapters implement two independent bounded LIFO stacks: no sequence of
\* calls on one stack, on the memory below, or past a limit is ever visible in
\* the other stack (adapters/stack.py push, pop and peek).
ImplementsLifo == Lifo!Spec

=============================================================================
