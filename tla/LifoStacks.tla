----------------------------- MODULE LifoStacks -----------------------------
(***************************************************************************)
(* What StackPort promises its callers: two bounded last-in-first-out      *)
(* stacks that know nothing of each other, of the memory they are kept in  *)
(* or of the other users of that memory.                                   *)
(***************************************************************************)
EXTENDS Integers, Sequences

CONSTANTS
  Stacks,        \* the names of the stacks
  Capacity(_),   \* how many values each one holds
  Value          \* what a cell may hold

VARIABLES
  port,       \* the stack the latest call was made on, or "memory"
  stk,        \* the contents of each stack, oldest value first
  returned,   \* the value the latest value-returning call gave back
  raised      \* the exception the latest call ended with, or "none"

lifoVars == <<port, stk, returned, raised>>

Init ==
  /\ port = "memory"
  /\ stk = [s \in Stacks |-> << >>]
  /\ returned = 0
  /\ raised = "none"

Refused ==
  /\ raised' = "StackError"
  /\ UNCHANGED <<stk, returned>>

Push(s, v) ==
  IF Len(stk[s]) < Capacity(s)
  THEN /\ stk' = [stk EXCEPT ![s] = Append(@, v)]
       /\ raised' = "none"
       /\ UNCHANGED returned
  ELSE Refused

Pop(s) ==
  IF Len(stk[s]) > 0
  THEN /\ stk' = [stk EXCEPT ![s] = SubSeq(@, 1, Len(@) - 1)]
       /\ returned' = stk[s][Len(stk[s])]
       /\ raised' = "none"
  ELSE Refused

Peek(s) ==
  IF Len(stk[s]) > 0
  THEN /\ returned' = stk[s][Len(stk[s])]
       /\ raised' = "none"
       /\ UNCHANGED stk
  ELSE Refused

\* Traffic of the other users of the memory: the stacks do not notice it.
OtherTraffic ==
  /\ returned' \in Value
  /\ raised' \in {"none", "IndexError"}
  /\ UNCHANGED stk

Next ==
  \/ \E s \in Stacks :
       /\ port' = s
       /\ \/ \E v \in Value : Push(s, v)
          \/ Pop(s)
          \/ Peek(s)
  \/ port' = "memory" /\ OtherTraffic

Spec == Init /\ [][Next]_lifoVars

=============================================================================
