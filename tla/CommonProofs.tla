---------------------------- MODULE CommonProofs ----------------------------
(***************************************************************************)
(* What the proofs about several components need: the memory map, what a   *)
(* stack holds, induction over the natural numbers, for sets, and what is  *)
(* put together step by step.                                              *)
(***************************************************************************)
EXTENDS Memory, SequencesExt, FiniteSetsExt, FiniteSetTheorems, SequenceTheorems, TLAPS

(***************************************************************************)
(* The memory map                                                          *)
(***************************************************************************)

\* The memory map of layout.py: the three regions are disjoint and adjacent.
LEMMA Regions ==
  /\ MEMORY_SIZE \in Nat
  /\ Floor("D") = DICTIONARY_SIZE /\ Base("D") = DATA_STACK_BASE
  /\ Floor("R") = DATA_STACK_BASE /\ Base("R") = MEMORY_SIZE
  /\ DICTIONARY_SIZE \in Nat /\ DATA_STACK_BASE \in Nat
  /\ DICTIONARY_SIZE <= DATA_STACK_BASE
  /\ DATA_STACK_BASE <= MEMORY_SIZE
  BY LayoutAssumption
     DEF MEMORY_SIZE, RETURN_STACK_BASE, DATA_STACK_BASE, Floor, Base, Size

\* The same facts for either stack at once.
LEMMA StackRegion ==
  ASSUME NEW s \in Stacks
  PROVE  /\ Floor(s) \in Nat /\ Base(s) \in Nat /\ Size(s) \in Nat
         /\ Size(s) = Base(s) - Floor(s)
         /\ DICTIONARY_SIZE <= Floor(s)
         /\ Floor(s) <= Base(s)
         /\ Base(s) <= MEMORY_SIZE
  BY LayoutAssumption
     DEF MEMORY_SIZE, RETURN_STACK_BASE, DATA_STACK_BASE, Floor, Base, Size,
         Stacks

\* An address the Python list accepts is the address of a cell (adapters/memory.py).
LEMMA AddressableCell ==
  ASSUME NEW a \in Int, Addressable(a)
  PROVE  CellAt(a) \in Cells
  BY Regions DEF Addressable, CellAt, Cells

(***************************************************************************)
(* What a stack holds                                                      *)
(***************************************************************************)

\* The cells have values of V and the pointers stay in their regions.
StacksHold(V) == mem \in [Cells -> V] /\ sp \in [Stacks -> Int] /\ PointersInBounds

\* What Contents reads off any memory m at any pointer p is a sequence.
LEMMA ReadOut ==
  ASSUME NEW V, NEW s \in Stacks, NEW m \in [Cells -> V],
         NEW p \in Floor(s) .. Base(s)
  PROVE  LET c == [i \in 1 .. Base(s) - p |-> m[Base(s) - i]]
         IN  /\ c \in Seq(V)
             /\ Len(c) = Base(s) - p
             /\ Base(s) - p \in 0 .. Size(s)
             /\ \A i \in 1 .. Base(s) - p :
                  Base(s) - i \in Cells /\ c[i] = m[Base(s) - i]
<1> DEFINE c == [i \in 1 .. Base(s) - p |-> m[Base(s) - i]]
<1>1. Base(s) - p \in Nat /\ Base(s) - p \in 0 .. Size(s)
  BY StackRegion
<1>2. \A i \in 1 .. Base(s) - p : Base(s) - i \in Cells
  BY StackRegion, Regions DEF Cells
<1>3. c \in [1 .. Base(s) - p -> V]
  BY <1>2
<1>4. c \in Seq(V)
  BY <1>1, <1>3, SeqDef
<1>5. Len(c) = Base(s) - p
  BY <1>1, <1>3, <1>4, LenProperties
<1> QED
  BY <1>1, <1>2, <1>4, <1>5

\* The same for the stack as it is now.
LEMMA ContentsSeq ==
  ASSUME NEW V, StacksHold(V), NEW s \in Stacks
  PROVE  /\ Contents(s) \in Seq(V)
         /\ Len(Contents(s)) = Base(s) - sp[s]
         /\ Base(s) - sp[s] \in 0 .. Size(s)
         /\ \A i \in 1 .. Base(s) - sp[s] :
              Base(s) - i \in Cells /\ Contents(s)[i] = mem[Base(s) - i]
  BY ReadOut DEF StacksHold, PointersInBounds, Contents

\* Stores outside a stack's live cells do not change its contents.
LEMMA ContentsFrame ==
  ASSUME NEW V, StacksHold(V), NEW t \in Stacks, sp'[t] = sp[t],
         \A c \in Cells : sp[t] <= c /\ c < Base(t) => mem'[c] = mem[c]
  PROVE  Contents(t)' = Contents(t)
<1>1. sp[t] \in Int /\ Base(t) \in Int
  BY StackRegion DEF StacksHold
<1>2. \A i \in 1 .. Base(t) - sp[t] :
        /\ Base(t) - i \in Cells
        /\ sp[t] <= Base(t) - i /\ Base(t) - i < Base(t)
  BY <1>1, ContentsSeq
<1>3. \A i \in 1 .. Base(t) - sp[t] : mem'[Base(t) - i] = mem[Base(t) - i]
  BY <1>2
<1> QED
  BY <1>3 DEF Contents

\* The abstract stack a value has been pushed on.
LEMMA ContentsPush ==
  ASSUME NEW V, StacksHold(V), StacksHold(V)', NEW s \in Stacks, NEW v \in V,
         ~Overflows(s), StackPush(s, v)
  PROVE  /\ Contents(s)' = Append(Contents(s), v)
         /\ Len(Contents(s)) < Size(s)
<1>1. sp[s] \in Int /\ Floor(s) < sp[s] /\ sp[s] <= Base(s)
  BY StackRegion DEF StacksHold, PointersInBounds, Overflows
<1>2. sp'[s] = sp[s] - 1 /\ sp[s] - 1 \in Cells
  BY <1>1, StackRegion, Regions DEF StacksHold, StackPush, CELL_SIZE, Cells
<1>3. \A c \in Cells : mem'[c] = IF c = sp[s] - 1 THEN v ELSE mem[c]
  BY <1>2 DEF StacksHold, StackPush, CELL_SIZE
<1> DEFINE n == Base(s) - sp[s]
<1>4. n \in Nat /\ n < Size(s) /\ Base(s) - sp'[s] = n + 1
  BY <1>1, <1>2, StackRegion
<1>5. Len(Contents(s)) = n /\ Contents(s) \in Seq(V)
  BY ContentsSeq
<1>6. Contents(s)' = [i \in 1 .. n + 1 |-> mem'[Base(s) - i]]
  BY <1>4 DEF Contents
<1>7. \A i \in 1 .. n + 1 :
        mem'[Base(s) - i] = IF i = n + 1 THEN v ELSE Contents(s)[i]
  <2> SUFFICES ASSUME NEW i \in 1 .. n + 1
               PROVE  mem'[Base(s) - i] = IF i = n + 1 THEN v ELSE Contents(s)[i]
    OBVIOUS
  <2>1. CASE i = n + 1
    <3>1. Base(s) - i = sp[s] - 1
      BY <2>1, <1>1, StackRegion
    <3> QED
      BY <2>1, <3>1, <1>2, <1>3
  <2>2. CASE i # n + 1
    <3>1. i \in 1 .. n
      BY <2>2, <1>4
    <3>2. Base(s) - i \in Cells /\ Contents(s)[i] = mem[Base(s) - i]
      BY <3>1, ContentsSeq
    <3>3. Base(s) - i # sp[s] - 1
      BY <3>1, <1>1, StackRegion
    <3> QED
      BY <2>2, <3>2, <3>3, <1>3
  <2> QED
    BY <2>1, <2>2
<1>8. Contents(s)' \in Seq(V) /\ Len(Contents(s)') = n + 1
  <2>1. mem' \in [Cells -> V] /\ sp'[s] \in Floor(s) .. Base(s)
    BY DEF StacksHold, PointersInBounds
  <2>2. Contents(s)' = [i \in 1 .. Base(s) - sp'[s] |-> mem'[Base(s) - i]]
    BY DEF Contents
  <2> HIDE DEF n
  <2> QED
    BY <1>4, <2>1, <2>2, ReadOut
<1>9. /\ Append(Contents(s), v) \in Seq(V)
      /\ Len(Append(Contents(s), v)) = n + 1
      /\ \A i \in 1 .. n : Append(Contents(s), v)[i] = Contents(s)[i]
      /\ Append(Contents(s), v)[n + 1] = v
  BY <1>5, AppendProperties
<1>10. \A i \in 1 .. n + 1 : Contents(s)'[i] = Append(Contents(s), v)[i]
  BY <1>4, <1>6, <1>7, <1>9
<1>11. Contents(s)' = Append(Contents(s), v)
  BY <1>8, <1>9, <1>10, SeqEqual
<1> QED
  BY <1>4, <1>5, <1>11

\* The abstract stack a value has been popped from.
LEMMA ContentsPop ==
  ASSUME NEW V, StacksHold(V), NEW s \in Stacks, ~Underflows(s), StackPop(s)
  PROVE  Contents(s)' = SubSeq(Contents(s), 1, Len(Contents(s)) - 1)
<1>1. sp[s] \in Int /\ Floor(s) <= sp[s] /\ sp[s] < Base(s)
  BY StackRegion DEF StacksHold, PointersInBounds, Underflows
<1>2. sp'[s] = sp[s] + 1 /\ mem' = mem
  BY <1>1 DEF StacksHold, StackPop, CELL_SIZE
<1> DEFINE n == Base(s) - sp[s]
<1>3. n \in Nat /\ n > 0 /\ Base(s) - sp'[s] = n - 1
  BY <1>1, <1>2, StackRegion
<1>4. Len(Contents(s)) = n /\ Contents(s) \in Seq(V)
  BY ContentsSeq
<1>5. Contents(s)' = [i \in 1 .. n - 1 |-> mem[Base(s) - i]]
  BY <1>2, <1>3 DEF Contents
<1>6. \A i \in 1 .. n - 1 : mem[Base(s) - i] = Contents(s)[i]
  BY <1>3, ContentsSeq
<1>7. SubSeq(Contents(s), 1, n - 1) = [i \in 1 .. n - 1 |-> Contents(s)[i]]
  <2> HIDE DEF n
  <2> QED
    BY <1>3, <1>4
<1> QED
  BY <1>4, <1>5, <1>6, <1>7

\* A push writes a cell of its own region, so the other stack keeps its values.
LEMMA PushFrame ==
  ASSUME NEW V, StacksHold(V), NEW s \in Stacks, NEW v \in V,
         ~Overflows(s), StackPush(s, v), NEW t \in Stacks \ {s}
  PROVE  Contents(t)' = Contents(t)
<1>1. sp[s] \in Int /\ Floor(s) < sp[s] /\ sp[s] <= Base(s)
  BY StackRegion DEF StacksHold, PointersInBounds, Overflows
<1>2. sp[t] \in Int /\ Floor(t) <= sp[t] /\ sp'[t] = sp[t]
  BY StackRegion DEF StacksHold, PointersInBounds, StackPush
<1>3. Base(s) <= Floor(t) \/ Base(t) <= Floor(s)
  BY Regions DEF Stacks
<1>4. \A c \in Cells : sp[t] <= c /\ c < Base(t) => c # sp[s] - 1
  BY <1>1, <1>2, <1>3, StackRegion, Regions DEF Cells
<1>5. \A c \in Cells : c # sp[s] - 1 => mem'[c] = mem[c]
  BY DEF StacksHold, StackPush, CELL_SIZE
<1> QED
  BY <1>2, <1>4, <1>5, ContentsFrame

(***************************************************************************)
(* The natural numbers                                                     *)
(***************************************************************************)

\* A set of natural numbers that is not empty has a least element: the least
\* of the intervals up to its elements is one of finitely many subsets.
LEMMA LeastNatural ==
  ASSUME NEW S, S \subseteq Nat, S # {}
  PROVE  \E m \in S : \A k \in S : m <= k
<1> DEFINE family == {0 .. n : n \in S}
<1>1. family \subseteq FiniteSubsetsOf(Nat)
  <2>1. \A n \in S : IsFiniteSet(0 .. n) /\ 0 .. n \subseteq Nat
    BY FS_Interval
  <2> QED  BY <2>1 DEF FiniteSubsetsOf
<1>2. family # {}
  OBVIOUS
<1>3. \E x \in family : \A y \in family : <<y, x>> \notin StrictSubsetOrdering(Nat)
  BY <1>1, <1>2, WFMin, FS_StrictSubsetOrderingWellFounded, Zenon
<1>4. PICK m \in S : \A k \in S : <<0 .. k, 0 .. m>> \notin StrictSubsetOrdering(Nat)
  BY <1>3
<1>5. ASSUME NEW k \in S, k < m
      PROVE  <<0 .. k, 0 .. m>> \in StrictSubsetOrdering(Nat)
  <2>1. 0 .. k \subseteq 0 .. m /\ m \in 0 .. m /\ m \notin 0 .. k /\ 0 .. m \subseteq Nat
    BY <1>5
  <2> QED  BY <2>1 DEF StrictSubsetOrdering
<1>6. \A k \in S : ~(k < m)
  BY <1>4, <1>5
<1> QED  BY <1>6

\* A set with 0 and with every successor of an element has every number.
LEMMA NaturalInduction ==
  ASSUME NEW S, S \subseteq Nat, 0 \in S, \A n \in S : n + 1 \in S
  PROVE  S = Nat
<1> SUFFICES ASSUME Nat \ S # {} PROVE FALSE
  OBVIOUS
<1>1. PICK m \in Nat \ S : \A k \in Nat \ S : m <= k
  BY LeastNatural
<1> QED  BY <1>1, m # 0, m - 1 \in S

\* The least of some natural numbers.
LEMMA LeastOf ==
  ASSUME NEW S, S \subseteq Nat, S # {}
  PROVE  Min(S) \in S /\ \A k \in S : Min(S) <= k
<1>1. PICK m \in S : \A k \in S : m <= k
  BY LeastNatural
<1> QED  BY <1>1 DEF Min

\* The greatest of some integers.
LEMMA GreatestIs ==
  ASSUME NEW S, S \subseteq Int, NEW m \in S, \A k \in S : k <= m
  PROVE  Max(S) = m
<1>1. \A k \in S : (\A j \in S : k >= j) => k = m
  OBVIOUS
<1>2. \A j \in S : m >= j
  OBVIOUS
<1> QED  BY <1>1, <1>2 DEF Max

(***************************************************************************)
(* Step by step                                                            *)
(***************************************************************************)

\* f has first value a on 1 .. n, and each value from the one before by a step.
Follows(f, n, a, step) == \A i \in 1 .. n : f[i] = IF i = 1 THEN a ELSE step[i][f[i - 1]]

\* A function on an interval may be given that way: the recursive functions that
\* say where words lie exist.
LEMMA StepwiseFunction ==
  ASSUME NEW S, NEW n \in Nat, NEW a \in S, NEW step \in [1 .. n -> [S -> S]]
  PROVE  \E f \in [1 .. n -> S] : Follows(f, n, a, step)
<1> DEFINE Is(f, k) == \A i \in 1 .. k : f[i] = IF i = 1 THEN a ELSE step[i][f[i - 1]]
           Good == {k \in Nat : k <= n => \E f \in [1 .. k -> S] : Is(f, k)}
<1>1. 0 \in Good
  <2>1. [i \in 1 .. 0 |-> a] \in [1 .. 0 -> S]
    OBVIOUS
  <2>2. \A i \in 1 .. 0 : FALSE
    OBVIOUS
  <2>3. \E f \in [1 .. 0 -> S] : Is(f, 0)
    BY <2>1, <2>2
  <2> QED  BY <2>3
<1>2. ASSUME NEW k \in Good
      PROVE  k + 1 \in Good
  <2> SUFFICES ASSUME k + 1 <= n
               PROVE  \E f \in [1 .. k + 1 -> S] : Is(f, k + 1)
    OBVIOUS
  <2>1. k \in Nat /\ k <= n
    OBVIOUS
  <2>2. PICK f \in [1 .. k -> S] : Is(f, k)
    BY <2>1
  <2>3. PICK v \in S : v = IF k = 0 THEN a ELSE step[k + 1][f[k]]
    <3>1. k # 0 => f[k] \in S /\ step[k + 1] \in [S -> S]
      BY <2>1
    <3> QED  BY <3>1
  <2> DEFINE g == [i \in 1 .. k + 1 |-> IF i = k + 1 THEN v ELSE f[i]]
  <2>4. g \in [1 .. k + 1 -> S]
    BY <2>1
  <2>5. ASSUME NEW i \in 1 .. k + 1
        PROVE  g[i] = IF i = 1 THEN a ELSE step[i][g[i - 1]]
    <3>1. CASE i = k + 1
      <4>1. g[i] = v
        BY <3>1
      <4>2. k # 0 => g[i - 1] = f[k]
        BY <2>1, <3>1
      <4> HIDE DEF g
      <4> QED  BY <2>1, <2>3, <3>1, <4>1, <4>2
    <3>2. CASE i # k + 1
      <4>1. i \in 1 .. k
        BY <2>1, <3>2
      <4>2. g[i] = f[i] /\ (i # 1 => g[i - 1] = f[i - 1])
        BY <2>1, <4>1
      <4>3. f[i] = IF i = 1 THEN a ELSE step[i][f[i - 1]]
        BY <2>2, <4>1
      <4> HIDE DEF g
      <4> QED  BY <4>2, <4>3
    <3> QED  BY <3>1, <3>2
  <2> HIDE DEF g
  <2>6. Is(g, k + 1)
    BY <2>5
  <2> HIDE DEF Is
  <2> QED  BY <2>4, <2>6
<1>3. Good = Nat
  <2>1. Good \subseteq Nat
    OBVIOUS
  <2> HIDE DEF Good
  <2> QED  BY <1>1, <1>2, <2>1, NaturalInduction
<1>4. n \in Good
  <2> HIDE DEF Good
  <2> QED  BY <1>3
<1>5. \E f \in [1 .. n -> S] : Is(f, n)
  <2> HIDE DEF Is
  <2> QED  BY <1>4
<1> QED  BY <1>5 DEF Follows

\* f puts parts together, one by one
PutsTogether(f, parts, n) ==
  \A i \in 1 .. n : f[i] = IF i = 1 THEN parts[i] ELSE f[i - 1] \o parts[i]

\* What FlattenSeq puts together, part by part.
LEMMA FlattenUnfolds ==
  ASSUME NEW S, NEW n \in Nat, n # 0, NEW parts \in [1 .. n -> Seq(S)]
  PROVE  \E flat \in [1 .. n -> Seq(S)] :
           FlattenSeq(parts) = flat[n] /\ PutsTogether(flat, parts, n)
<1> DEFINE Eqn(f) == f = [i \in 1 .. Len(parts) |-> IF i = 1 THEN parts[i] ELSE f[i - 1] \o parts[i]]
           flat == CHOOSE f : Eqn(f)
           step == [i \in 1 .. n |-> [x \in Seq(S) |-> x \o parts[i]]]
<1>1. parts \in Seq(Seq(S)) /\ Len(parts) = n
  OBVIOUS
<1>2. FlattenSeq(parts) = flat[Len(parts)]
  BY <1>1 DEF FlattenSeq
<1>3. step \in [1 .. n -> [Seq(S) -> Seq(S)]]
  <2>1. \A i \in 1 .. n : parts[i] \in Seq(S)
    OBVIOUS
  <2> QED  BY <2>1, ConcatProperties
<1>4. parts[1] \in Seq(S)
  OBVIOUS
<1>5. PICK f \in [1 .. n -> Seq(S)] : Follows(f, n, parts[1], step)
  <2> HIDE DEF step
  <2> QED  BY <1>3, <1>4, StepwiseFunction, Zenon
<1>6. \A i \in 1 .. n : f[i] = IF i = 1 THEN parts[i] ELSE f[i - 1] \o parts[i]
  <2> SUFFICES ASSUME NEW i \in 1 .. n, i # 1
               PROVE  step[i][f[i - 1]] = f[i - 1] \o parts[i]
    BY <1>5 DEF Follows
  <2>1. i - 1 \in 1 .. n
    OBVIOUS
  <2>2. f[i - 1] \in Seq(S)
    BY <2>1
  <2> QED  BY <2>2
<1>7. f = [i \in 1 .. n |-> f[i]]
  OBVIOUS
<1>8. Eqn(f)
  BY <1>1, <1>6, <1>7
<1>9. Eqn(flat)
  <2> HIDE DEF Eqn
  <2> QED  BY <1>8
<1>10. DOMAIN flat = 1 .. n /\ \A i \in 1 .. n : flat[i] = IF i = 1 THEN parts[i] ELSE flat[i - 1] \o parts[i]
  <2> HIDE DEF flat
  <2> QED  BY <1>1, <1>9
<1> HIDE DEF flat, step, Eqn
<1> DEFINE Good == {k \in Nat : k + 1 <= n => flat[k + 1] = f[k + 1]}
<1>11. 0 \in Good
  BY <1>6, <1>10
<1>12. ASSUME NEW k \in Good PROVE k + 1 \in Good
  <2>1. SUFFICES ASSUME k + 1 + 1 <= n PROVE flat[k + 1 + 1] = f[k + 1 + 1]
    OBVIOUS
  <2>2. PICK q \in 1 .. n : q = k + 1 + 1 /\ q # 1 /\ q - 1 = k + 1
    BY <2>1
  <2>3. flat[q - 1] = f[q - 1]
    BY <2>1, <2>2
  <2> QED  BY <1>6, <1>10, <2>2, <2>3
<1>13. Good = Nat
  <2>1. Good \subseteq Nat
    OBVIOUS
  <2> HIDE DEF Good
  <2> QED  BY <1>11, <1>12, <2>1, NaturalInduction
<1>14. flat[n] = f[n]
  <2>1. n - 1 \in Nat /\ n - 1 + 1 = n
    OBVIOUS
  <2>2. n - 1 \in Good
    <3> HIDE DEF Good
    <3> QED  BY <1>13, <2>1
  <2> QED  BY <2>1, <2>2
<1> QED  BY <1>1, <1>2, <1>6, <1>14 DEF PutsTogether

\* FlattenSeq of no part.
LEMMA FlattenNone == FlattenSeq(<< >>) = << >>
BY DEF FlattenSeq

\* Every element of s is one of the first k parts, which end at e[1], e[2], ...
Parts(s, parts, e, k) ==
  /\ Len(s) = e[k] - e[0]
  /\ \A x \in 1 .. Len(s) : \E i \in 1 .. k : \E j \in 1 .. Len(parts[i]) :
       x = e[i - 1] - e[0] + j /\ s[x] = parts[i][j]

\* A part more.
LEMMA PartBehind ==
  ASSUME NEW m \in Nat, NEW parts, NEW e, NEW s \in Seq(Int), Parts(s, parts, e, m),
         parts[m + 1] \in Seq(Int), e[m + 1] = e[m] + Len(parts[m + 1]), e[m] \in Int, e[0] \in Int
  PROVE  s \o parts[m + 1] \in Seq(Int) /\ Parts(s \o parts[m + 1], parts, e, m + 1)
<1>1. PICK t : t = parts[m + 1] /\ t \in Seq(Int)
  OBVIOUS
<1>2. PICK a \in Int, b \in Int, ls \in Nat, lt \in Nat :
        /\ a = e[0] /\ b = e[m] /\ ls = Len(s) /\ lt = Len(t)
        /\ ls = b - a /\ e[m + 1] = b + lt
  <2>1. Len(s) \in Nat /\ Len(t) \in Nat
    BY <1>1
  <2>2. Len(s) = e[m] - e[0] /\ e[m + 1] = e[m] + Len(t)
    BY <1>1 DEF Parts
  <2> QED  BY <2>1, <2>2
<1>a. a \in Int /\ b \in Int /\ ls \in Nat /\ lt \in Nat /\ ls = b - a
  BY <1>2
<1>b. /\ s \o t \in Seq(Int) /\ Len(s \o t) = Len(s) + Len(t)
      /\ \A x \in 1 .. Len(s) + Len(t) :
           (s \o t)[x] = IF x <= Len(s) THEN s[x] ELSE t[x - Len(s)]
  BY <1>1, ConcatProperties
<1>c. ls = Len(s) /\ lt = Len(t) /\ a = e[0] /\ b = e[m] /\ e[m + 1] = b + lt
  BY <1>2
<1>3. s \o t \in Seq(Int) /\ Len(s \o t) = ls + lt
  BY <1>b, <1>c, Zenon
<1>4. ASSUME NEW x \in 1 .. ls + lt
      PROVE  (s \o t)[x] = IF x <= ls THEN s[x] ELSE t[x - ls]
  BY <1>b, <1>c, Zenon
<1>5. Len(s \o t) = e[m + 1] - e[0]
  <2>1. ls + lt = (b + lt) - a
    BY <1>a
  <2>2. e[m + 1] - e[0] = (b + lt) - a
    BY <1>c, Zenon
  <2> QED  BY <1>3, <2>1, <2>2, Zenon
<1>6. ASSUME NEW x \in 1 .. ls + lt
      PROVE  \E i \in 1 .. m + 1 : \E j \in 1 .. Len(parts[i]) :
               x = e[i - 1] - e[0] + j /\ (s \o t)[x] = parts[i][j]
  <2>1. CASE x <= ls
    <3>1. x \in 1 .. Len(s)
      BY <1>2, <2>1
    <3>2. PICK i \in 1 .. m : \E j \in 1 .. Len(parts[i]) :
            x = e[i - 1] - e[0] + j /\ s[x] = parts[i][j]
      BY <3>1 DEF Parts
    <3>3. i \in 1 .. m + 1
      OBVIOUS
    <3>4. (s \o t)[x] = s[x]
      BY <1>4, <2>1
    <3> QED  BY <3>2, <3>3, <3>4, Zenon
  <2>2. CASE ~(x <= ls)
    <3>1. PICK j \in 1 .. lt : x = ls + j /\ x - ls = j
      <4>1. x - ls \in 1 .. lt /\ x = ls + (x - ls)
        BY <1>a, <2>2
      <4> QED  BY <4>1
    <3>2. (s \o t)[x] = t[x - ls]
      BY <1>4, <2>2
    <3>3. j \in 1 .. Len(parts[m + 1]) /\ (s \o t)[x] = parts[m + 1][j]
      BY <1>1, <1>2, <3>1, <3>2, Zenon
    <3>4. m + 1 \in 1 .. m + 1 /\ m + 1 - 1 = m
      OBVIOUS
    <3>5. x = b - a + j
      BY <1>a, <3>1
    <3>6. x = e[m + 1 - 1] - e[0] + j
      BY <1>c, <3>4, <3>5, Zenon
    <3>7. \E i \in 1 .. m + 1 : \E k \in 1 .. Len(parts[i]) :
            x = e[i - 1] - e[0] + k /\ (s \o t)[x] = parts[i][k]
      <4> HIDE <1>1
      <4> QED  BY <3>3, <3>4, <3>6
    <3> QED  BY <3>7
  <2> QED  BY <2>1, <2>2
<1>7. Parts(s \o t, parts, e, m + 1)
  BY <1>3, <1>5, <1>6 DEF Parts
<1> QED  BY <1>1, <1>3, <1>7, Zenon

\* What FlattenSeq makes of parts that are put one behind the other.
LEMMA FlattenParts ==
  ASSUME NEW n \in Nat, NEW parts \in [1 .. n -> Seq(Int)], NEW e \in [0 .. n -> Int],
         \A i \in 1 .. n : e[i] = e[i - 1] + Len(parts[i])
  PROVE  FlattenSeq(parts) \in Seq(Int) /\ Parts(FlattenSeq(parts), parts, e, n)
<1>1. parts \in Seq(Seq(Int)) /\ Len(parts) = n
  OBVIOUS
<1>2. CASE n = 0
  <2>1. FlattenSeq(parts) = parts /\ parts = << >>
    BY <1>1, <1>2 DEF FlattenSeq
  <2>2. e[0] \in Int /\ e[0] - e[0] = 0
    BY <1>2
  <2>3. Len(<< >>) = 0 /\ \A x \in 1 .. 0 : FALSE
    OBVIOUS
  <2> QED  BY <1>2, <2>1, <2>2, <2>3 DEF Parts
<1>3. CASE n # 0
  <2>1. PICK flat \in [1 .. n -> Seq(Int)] :
          FlattenSeq(parts) = flat[n] /\ PutsTogether(flat, parts, n)
    BY <1>3, FlattenUnfolds, Zenon
  <2>3. parts[1] \in Seq(Int)
    BY <1>3
  <2>7. \A i \in 1 .. n : flat[i] = IF i = 1 THEN parts[i] ELSE flat[i - 1] \o parts[i]
    BY <2>1, Zenon DEF PutsTogether
  <2> DEFINE Good == {k \in Nat : k + 1 <= n => /\ flat[k + 1] \in Seq(Int)
                                                /\ Parts(flat[k + 1], parts, e, k + 1)}
  <2>8. 0 \in Good
    <3>1. flat[1] = parts[1] /\ 1 \in 1 .. n /\ 0 \in 0 .. n
      BY <1>3, <2>7
    <3>2. PICK a \in Int, l \in Nat : a = e[0] /\ l = Len(parts[1]) /\ e[1] = a + l
      BY <2>3, <3>1
    <3>3. Len(flat[1]) = e[1] - e[0]
      BY <3>1, <3>2
    <3>4. ASSUME NEW x \in 1 .. Len(flat[1])
          PROVE  \E i \in 1 .. 1 : \E j \in 1 .. Len(parts[i]) :
                   x = e[i - 1] - e[0] + j /\ flat[1][x] = parts[i][j]
      <4>1. x = e[1 - 1] - e[0] + x
        BY <3>2
      <4>2. x \in 1 .. Len(parts[1]) /\ flat[1][x] = parts[1][x] /\ 1 \in 1 .. 1
        BY <3>1
      <4> QED  BY <4>1, <4>2
    <3>5. Parts(flat[1], parts, e, 1)
      BY <3>3, <3>4 DEF Parts
    <3> QED  BY <2>3, <3>1, <3>5
  <2>9. ASSUME NEW k \in Good
        PROVE  k + 1 \in Good
    <3>1. SUFFICES ASSUME k + 1 + 1 <= n
                   PROVE  /\ flat[k + 1 + 1] \in Seq(Int)
                          /\ Parts(flat[k + 1 + 1], parts, e, k + 1 + 1)
      OBVIOUS
    <3>2. PICK m \in 1 .. n : m = k + 1 /\ m + 1 \in 1 .. n /\ m + 1 # 1 /\ m + 1 - 1 = m
      BY <3>1
    <3>3. PICK s : s = flat[m] /\ s \in Seq(Int) /\ Parts(s, parts, e, m)
      <4>1. k + 1 <= n
        BY <3>2
      <4>2. flat[k + 1] \in Seq(Int) /\ Parts(flat[k + 1], parts, e, k + 1)
        BY <4>1
      <4> QED  BY <3>2, <4>2, Zenon
    <3>4. parts[m + 1] \in Seq(Int) /\ e[m + 1] = e[m] + Len(parts[m + 1])
          /\ e[m] \in Int /\ e[0] \in Int
      <4>1. PICK q \in 1 .. n : q = m + 1 /\ q - 1 = m
        BY <3>2
      <4>2. e[q] = e[q - 1] + Len(parts[q])
        OBVIOUS
      <4>3. m \in 0 .. n /\ 0 \in 0 .. n
        BY <3>2
      <4> QED  BY <3>2, <4>1, <4>2, <4>3
    <3>5. flat[m + 1] = s \o parts[m + 1]
      <4>1. PICK q \in 1 .. n : q = m + 1 /\ q - 1 = m /\ q # 1
        BY <3>2
      <4>2. flat[q] = flat[q - 1] \o parts[q]
        BY <2>7, <4>1
      <4> QED  BY <3>3, <4>1, <4>2, Zenon
    <3>6. s \o parts[m + 1] \in Seq(Int) /\ Parts(s \o parts[m + 1], parts, e, m + 1)
      <4>1. m \in Nat
        BY <3>2
      <4> QED  BY <3>3, <3>4, <4>1, PartBehind, Zenon
    <3> QED  BY <3>2, <3>5, <3>6, Zenon
  <2>10. Good = Nat
    <3>1. Good \subseteq Nat
      OBVIOUS
    <3> HIDE DEF Good
    <3> QED  BY <2>8, <2>9, <3>1, NaturalInduction
  <2>11. n - 1 \in Good /\ n - 1 + 1 = n
    <3>1. n - 1 \in Nat
      BY <1>3
    <3> HIDE DEF Good
    <3> QED  BY <2>10, <3>1
  <2>12. flat[n] \in Seq(Int) /\ Parts(flat[n], parts, e, n)
    BY <2>11
  <2> QED  BY <1>1, <2>1, <2>12
<1> QED  BY <1>2, <1>3

=============================================================================
