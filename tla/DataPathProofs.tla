--------------------------- MODULE DataPathProofs ---------------------------
(***************************************************************************)
(* For every memory size and every client that stays in the dictionary     *)
(* block: DataPath is type correct and implements the two bounded LIFO     *)
(* stacks of LifoStacks.                                                   *)
(***************************************************************************)
EXTENDS DataPath, CommonProofs

-----------------------------------------------------------------------------
(* Type correctness *)

\* StackPort.push (adapters/stack.py 29-34) keeps the types and the bounds,
\* whether it raises StackError or stores the value.
LEMMA PushTypeOK ==
  ASSUME TypeOK, NEW s \in Stacks, NEW v \in Value, Push(s, v), port' = s
  PROVE  TypeOK'
<1>1. CASE Overflows(s)
  BY <1>1 DEF TypeOK, Push, Raise, PointersInBounds
<1>2. CASE ~Overflows(s)
  <2>1. sp[s] \in Int /\ sp[s] > Floor(s) /\ sp[s] <= Base(s)
    BY <1>2, StackRegion DEF TypeOK, PointersInBounds, Overflows
  <2>2. sp[s] - 1 \in Cells /\ sp[s] - 1 \in Floor(s) .. Base(s)
    BY <2>1, StackRegion, Regions DEF Cells
  <2>3. /\ sp' = [sp EXCEPT ![s] = sp[s] - 1]
        /\ mem' = [mem EXCEPT ![sp[s] - 1] = v]
        /\ raised' = "none" /\ returned' = returned
    BY <1>2 DEF Push, StackPush, CELL_SIZE
  <2>4. mem' \in [Cells -> Value] /\ sp' \in [Stacks -> Int]
    BY <2>1, <2>2, <2>3 DEF TypeOK
  <2>5. \A t \in Stacks : sp'[t] \in Floor(t) .. Base(t)
    BY <2>2, <2>3 DEF TypeOK, PointersInBounds
  <2> QED
    BY <2>3, <2>4, <2>5 DEF TypeOK, PointersInBounds
<1> QED
  BY <1>1, <1>2

\* So does StackPort.pop (adapters/stack.py 36-42), whose result is a value.
LEMMA PopTypeOK ==
  ASSUME TypeOK, NEW s \in Stacks, Pop(s), port' = s
  PROVE  TypeOK'
<1>1. CASE Underflows(s)
  BY <1>1 DEF TypeOK, Pop, Raise, PointersInBounds
<1>2. CASE ~Underflows(s)
  <2>1. sp[s] \in Int /\ sp[s] >= Floor(s) /\ sp[s] < Base(s)
    BY <1>2, StackRegion DEF TypeOK, PointersInBounds, Underflows
  <2>2. sp[s] \in Cells /\ sp[s] + 1 \in Floor(s) .. Base(s)
    BY <2>1, StackRegion, Regions DEF Cells
  <2>3. /\ sp' = [sp EXCEPT ![s] = sp[s] + 1]
        /\ mem' = mem
        /\ raised' = "none" /\ returned' = mem[sp[s]]
    BY <1>2 DEF Pop, StackPop, Top, CELL_SIZE
  <2>4. mem' \in [Cells -> Value] /\ sp' \in [Stacks -> Int] /\ returned' \in Value
    BY <2>1, <2>2, <2>3 DEF TypeOK
  <2>5. \A t \in Stacks : sp'[t] \in Floor(t) .. Base(t)
    BY <2>2, <2>3 DEF TypeOK, PointersInBounds
  <2> QED
    BY <2>3, <2>4, <2>5 DEF TypeOK, PointersInBounds
<1> QED
  BY <1>1, <1>2

\* So does StackPort.peek (adapters/stack.py 44-48).
LEMMA PeekTypeOK ==
  ASSUME TypeOK, NEW s \in Stacks, Peek(s), port' = s
  PROVE  TypeOK'
<1>1. CASE Underflows(s)
  BY <1>1 DEF TypeOK, Peek, Raise, PointersInBounds
<1>2. CASE ~Underflows(s)
  <2>1. sp[s] \in Cells
    BY <1>2, StackRegion, Regions DEF TypeOK, PointersInBounds, Underflows, Cells
  <2> QED
    BY <1>2, <2>1 DEF Peek, Top, TypeOK, PointersInBounds
<1> QED
  BY <1>1, <1>2

\* So do MemoryPort.read and write (adapters/memory.py 19-25), from either end
\* of the list and outside it.
LEMMA MemoryTypeOK ==
  ASSUME TypeOK, NEW a \in ClientAddrs, port' = "memory",
         Read(a) \/ \E v \in Value : Write(a, v)
  PROVE  TypeOK'
<1>1. CASE ~Addressable(a)
  BY <1>1 DEF TypeOK, Read, Write, Raise, PointersInBounds
<1>2. CASE Addressable(a) /\ Read(a)
  BY <1>2, ClientAssumption, AddressableCell DEF TypeOK, Read, PointersInBounds
<1>3. CASE Addressable(a) /\ \E v \in Value : Write(a, v)
  BY <1>3, ClientAssumption, AddressableCell
     DEF TypeOK, Write, CellWrite, PointersInBounds
<1> QED
  BY <1>1, <1>2, <1>3

\* The stack pointers never leave their regions and every cell keeps a value,
\* whatever the calls of StackPort and MemoryPort (adapters/stack.py).
THEOREM DataPathTypeOK == Spec => []TypeOK
<1>1. Init => TypeOK
  BY StackRegion, ClientAssumption
     DEF Init, MemoryInit, TypeOK, PointersInBounds, Stacks
<1>2. TypeOK /\ [Next]_vars => TypeOK'
  <2> SUFFICES ASSUME TypeOK, [Next]_vars PROVE TypeOK'
    OBVIOUS
  <2>1. ASSUME NEW s \in Stacks, NEW v \in Value, Push(s, v), port' = s
        PROVE  TypeOK'
    BY <2>1, PushTypeOK
  <2>2. ASSUME NEW s \in Stacks, Pop(s), port' = s PROVE TypeOK'
    BY <2>2, PopTypeOK
  <2>3. ASSUME NEW s \in Stacks, Peek(s), port' = s PROVE TypeOK'
    BY <2>3, PeekTypeOK
  <2>4. ASSUME NEW a \in ClientAddrs, port' = "memory",
               Read(a) \/ \E v \in Value : Write(a, v)
        PROVE  TypeOK'
    BY <2>4, MemoryTypeOK
  <2>5. CASE UNCHANGED vars
    BY <2>5 DEF vars, TypeOK, PointersInBounds
  <2> QED
    BY <2>1, <2>2, <2>3, <2>4, <2>5 DEF Next
<1> QED
  BY <1>1, <1>2, PTL DEF Spec

-----------------------------------------------------------------------------
(* Refinement of LifoStacks *)

\* The stacks hold values of the clients.
LEMMA HoldValues == TypeOK => StacksHold(Value)
BY DEF TypeOK, StacksHold

\* A live stack's newest value is the cell under its pointer.
LEMMA ContentsTop ==
  ASSUME TypeOK, NEW s \in Stacks, ~Underflows(s)
  PROVE  /\ Len(Contents(s)) > 0
         /\ Contents(s)[Len(Contents(s))] = Top(s)
<1>1. sp[s] \in Int /\ Floor(s) <= sp[s] /\ sp[s] < Base(s)
  BY StackRegion DEF TypeOK, PointersInBounds, Underflows
<1> DEFINE n == Base(s) - sp[s]
<1>2. n \in 1 .. n /\ Len(Contents(s)) = n /\ Base(s) - n = sp[s]
  BY <1>1, StackRegion, ContentsSeq, HoldValues
<1> QED
  BY <1>2, ContentsSeq, HoldValues DEF Top

\* The clients of MemoryPort stay below both stacks.
LEMMA ClientFrame ==
  ASSUME TypeOK, NEW a \in ClientAddrs,
         Read(a) \/ \E v \in Value : Write(a, v), NEW t \in Stacks
  PROVE  Contents(t)' = Contents(t)
<1>1. CASE mem' = mem /\ sp' = sp
  BY <1>1 DEF Contents
<1>2. CASE Addressable(a) /\ \E v \in Value : Write(a, v)
  <2>1. CellAt(a) \in Cells /\ CellAt(a) < DICTIONARY_SIZE
    BY <1>2, ClientAssumption, AddressableCell
  <2>2. \A c \in Cells : c # CellAt(a) => mem'[c] = mem[c]
    BY <1>2 DEF TypeOK, Write, CellWrite
  <2>3. sp' = sp
    BY <1>2 DEF Write, CellWrite
  <2>4. sp[t] \in Int /\ DICTIONARY_SIZE <= sp[t]
    BY StackRegion, Regions DEF TypeOK, PointersInBounds
  <2>5. \A c \in Cells : sp[t] <= c /\ c < Base(t) => c # CellAt(a)
    BY <2>1, <2>4, Regions DEF Cells
  <2> QED
    BY <2>2, <2>3, <2>5, ContentsFrame, HoldValues
<1> QED
  BY <1>1, <1>2 DEF Read, Write, Raise

\* The two limits, seen from the abstract stack.
LEMMA ContentsLimits ==
  ASSUME TypeOK, NEW s \in Stacks
  PROVE  /\ Overflows(s)  <=> ~(Len(Contents(s)) < Size(s))
         /\ Underflows(s) <=> ~(Len(Contents(s)) > 0)
  BY ContentsSeq, HoldValues, StackRegion
     DEF Overflows, Underflows, TypeOK, PointersInBounds

-----------------------------------------------------------------------------
(* The theorem *)

\* The adapters implement LifoStacks (adapters/stack.py push, pop, peek and
\* adapters/memory.py read, write over one shared list): whatever the sizes,
\* no call on a stack or on the memory below is ever visible in the other.
THEOREM DataPathImplementsLifo == Spec => ImplementsLifo
<1> DEFINE stk == [s \in Stacks |-> Contents(s)]
<1>1. Init => Lifo!Init
  BY StackRegion DEF Init, MemoryInit, Lifo!Init, Contents, Stacks
<1>2. TypeOK /\ TypeOK' /\ [Next]_vars => [Lifo!Next]_(Lifo!lifoVars)
  <2> SUFFICES ASSUME TypeOK, TypeOK', [Next]_vars
               PROVE  [Lifo!Next]_(Lifo!lifoVars)
    OBVIOUS
  <2>2. ASSUME NEW s \in Stacks, port' = s, NEW v \in Value, Push(s, v)
        PROVE  Lifo!Push(s, v)
    <3>1. CASE Overflows(s)
      <4>1. Lifo!Refused
        BY <2>2, <3>1 DEF Push, Raise, Contents, Lifo!Refused
      <4> QED
        BY <3>1, <4>1, ContentsLimits DEF Lifo!Push
    <3>2. CASE ~Overflows(s)
      <4>1. StackPush(s, v) /\ raised' = "none" /\ returned' = returned
        BY <2>2, <3>2 DEF Push
      <4>2. Contents(s)' = Append(Contents(s), v) /\ Len(Contents(s)) < Size(s)
        <5>1. StacksHold(Value) /\ StacksHold(Value)'
          BY DEF TypeOK, StacksHold
        <5> QED
          BY <3>2, <4>1, <5>1, ContentsPush
      <4>3. \A t \in Stacks \ {s} : Contents(t)' = Contents(t)
        BY <3>2, <4>1, PushFrame, HoldValues
      <4>4. stk' = [stk EXCEPT ![s] = Append(@, v)]
        BY <4>2, <4>3
      <4> QED
        BY <4>1, <4>2, <4>4 DEF Lifo!Push
    <3> QED
      BY <3>1, <3>2
  <2>3. ASSUME NEW s \in Stacks, port' = s, Pop(s)
        PROVE  Lifo!Pop(s)
    <3>1. CASE Underflows(s)
      <4>1. Lifo!Refused
        BY <2>3, <3>1 DEF Pop, Raise, Contents, Lifo!Refused
      <4> QED
        BY <3>1, <4>1, ContentsLimits DEF Lifo!Pop
    <3>2. CASE ~Underflows(s)
      <4>1. StackPop(s) /\ raised' = "none" /\ returned' = Top(s)
        BY <2>3, <3>2 DEF Pop
      <4>2. Contents(s)' = SubSeq(Contents(s), 1, Len(Contents(s)) - 1)
        BY <3>2, <4>1, ContentsPop, HoldValues
      <4>3. \A t \in Stacks \ {s} : Contents(t)' = Contents(t)
        BY <4>1 DEF StackPop, Contents, TypeOK
      <4>4. stk' = [stk EXCEPT ![s] = SubSeq(@, 1, Len(@) - 1)]
        BY <4>2, <4>3
      <4> QED
        BY <4>1, <4>4, <3>2, ContentsTop DEF Lifo!Pop
    <3> QED
      BY <3>1, <3>2
  <2>4. ASSUME NEW s \in Stacks, port' = s, Peek(s)
        PROVE  Lifo!Peek(s)
    <3>1. CASE Underflows(s)
      <4>1. Lifo!Refused
        BY <2>4, <3>1 DEF Peek, Raise, Contents, Lifo!Refused
      <4> QED
        BY <3>1, <4>1, ContentsLimits DEF Lifo!Peek
    <3>2. CASE ~Underflows(s)
      <4>1. raised' = "none" /\ returned' = Top(s) /\ UNCHANGED stk
        BY <2>4, <3>2 DEF Peek, Contents
      <4> QED
        BY <4>1, <3>2, ContentsTop DEF Lifo!Peek
    <3> QED
      BY <3>1, <3>2
  <2>5. ASSUME NEW a \in ClientAddrs, port' = "memory",
               Read(a) \/ \E v \in Value : Write(a, v)
        PROVE  Lifo!OtherTraffic
    <3>1. UNCHANGED stk
      <4>1. \A t \in Stacks : Contents(t)' = Contents(t)
        BY <2>5, ClientFrame
      <4> QED
        BY <4>1
    <3>2. returned' \in Value
      BY DEF TypeOK
    <3>3. raised' \in {"none", "IndexError"}
      BY <2>5 DEF Read, Write, Raise
    <3> QED
      BY <3>1, <3>2, <3>3 DEF Lifo!OtherTraffic
  <2>6. CASE UNCHANGED vars
    BY <2>6 DEF vars, Lifo!lifoVars, Contents
  <2> QED
    BY <2>2, <2>3, <2>4, <2>5, <2>6 DEF Next, Lifo!Next
<1> QED
  BY <1>1, <1>2, DataPathTypeOK, PTL DEF Spec, ImplementsLifo, Lifo!Spec

=============================================================================
