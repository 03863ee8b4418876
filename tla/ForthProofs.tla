----------------------------- MODULE ForthProofs -----------------------------
(***************************************************************************)
(* Theorems about Forth, for every memory map, every set of definitions    *)
(* and every depth of Python's stack: wherever a word stops, the stacks    *)
(* are the stacks still; a call runs what its word leads to; and a word    *)
(* does what the kernel's routine for it does.                             *)
(***************************************************************************)
EXTENDS Forth, CommonProofs

(***************************************************************************)
(* Values                                                                  *)
(***************************************************************************)

\* The division of Python's integers gives integers.
LEMMA Quotients ==
  ASSUME NEW a \in Int, NEW b \in Int, b # 0
  PROVE  FloorDiv(a, b) \in Int /\ FloorMod(a, b) \in Int
<1>1. FloorDiv(a, b) \in Int
  <2>1. CASE b > 0
    BY <2>1 DEF FloorDiv
  <2>2. CASE ~(b > 0)
    <3>1. -a \in Int /\ -b \in Int /\ -b > 0
      BY <2>2
    <3> QED  BY <2>2, <3>1 DEF FloorDiv
  <2> QED  BY <2>1, <2>2
<1>2. \A q \in Int : b * q \in Int
  OBVIOUS
<1>3. b * FloorDiv(a, b) \in Int
  BY <1>1, <1>2
<1> QED  BY <1>1, <1>3 DEF FloorMod

\* So does the bitwise and.
LEMMA Conjunction == \A a, b : BitAnd(a, b) \in Int
BY DEF BitAnd

\* What the words with two operands compute.
LEMMA BinaryValues ==
  ASSUME NEW w \in BinaryOps, NEW a \in Int, NEW b \in Int, w \in {"/", "MOD"} => b # 0
  PROVE  Binary(w, a, b) \in Int
<1>1. a * b \in Int /\ a + b \in Int /\ a - b \in Int
  OBVIOUS
<1>2. BitAnd(a, b) \in Int /\ a + b - BitAnd(a, b) \in Int
  BY Conjunction
<1>3. \A x : Truth(x) \in Int
  BY DEF Truth
<1>4. w = "/" => FloorDiv(a, b) \in Int
  BY Quotients
<1>5. w = "MOD" => FloorMod(a, b) \in Int
  BY Quotients
<1>6. Truth(a = b) \in Int /\ Truth(a # b) \in Int /\ Truth(a < b) \in Int /\ Truth(a > b) \in Int
  BY <1>3
<1>7. CASE w \in {"+", "-", "*", "/"}
  BY <1>1, <1>4, <1>7 DEF Binary
<1>8. CASE w \in {"MOD", "AND", "OR"}
  BY <1>2, <1>5, <1>8 DEF Binary
<1>9. CASE w \in {"=", "<>", "<", ">"}
  BY <1>6, <1>9 DEF Binary
<1> QED  BY <1>7, <1>8, <1>9 DEF BinaryOps

\* What the words with one operand compute; @ reads an addressable cell.
LEMMA UnaryValues ==
  ASSUME mem \in [Cells -> Int], NEW w \in UnaryOps, NEW a \in Int, w = "@" => Addressable(a)
  PROVE  Unary(w, a) \in Int
<1>1. -a \in Int /\ a + 1 \in Int /\ a - 1 \in Int /\ -a - 1 \in Int
  OBVIOUS
<1>2. Truth(a = 0) \in Int /\ Truth(a < 0) \in Int
  BY DEF Truth
<1>3. w = "@" => mem[CellAt(a)] \in Int
  BY AddressableCell
<1>4. CASE w \in {"NEGATE", "ABS", "1+", "1-"}
  BY <1>1, <1>4 DEF Unary
<1>5. CASE w \in {"@", "0=", "0<", "INVERT"}
  BY <1>1, <1>2, <1>3, <1>5 DEF Unary
<1> QED  BY <1>4, <1>5 DEF UnaryOps

\* A value that the source of a word holds is a number.
LEMMA SeenValues ==
  ASSUME StacksHold(Int), NEW w, NEW i \in Nat, 1 <= i, i <= Held(Source(w))
  PROVE  Seen(w, i) \in Int
<1>1. Source(w) \in Stacks
  BY DEF Source, Stacks
<1>2. PICK s \in Stacks : s = Source(w)
  BY <1>1
<1>3. PICK p \in Int : p = sp[s] /\ Floor(s) <= p /\ p <= Base(s)
  BY StackRegion DEF StacksHold, PointersInBounds
<1>4. i <= Base(s) - p
  BY <1>2, <1>3 DEF Held
<1>5. p + i - 1 \in Cells
  BY <1>3, <1>4, StackRegion, Regions DEF Cells
<1> QED  BY <1>2, <1>3, <1>5 DEF Seen, StacksHold

\* how many values a word needs on its source
Needs(w) == Pops(w) + (IF Peeks(w) THEN 1 ELSE 0)

\* What each group of words needs.
LEMMA Operands ==
  ASSUME NEW w \in DataWords
  PROVE  /\ Pops(w) \in 0 .. 3 /\ Needs(w) \in 1 .. 3 /\ Pops(w) <= Needs(w)
         /\ w \in BinaryOps \cup {"SWAP", "OVER", "NIP", "TUCK", "!"} => Needs(w) = 2
         /\ w \in {"ROT", "-ROT"} => Needs(w) = 3
<1>1. w \in BinaryOps => Pops(w) = 2 /\ ~Peeks(w)
  BY DEF Pops, Peeks, BinaryOps
<1>2. w \in UnaryOps => Pops(w) = 1 /\ ~Peeks(w)
  BY DEF Pops, Peeks, BinaryOps, UnaryOps
<1>3. w \in {"SWAP", "NIP", "TUCK", "!"} => Pops(w) = 2 /\ ~Peeks(w)
  BY DEF Pops, Peeks, BinaryOps
<1>4. w \in {"DROP", ">R", "R>"} => Pops(w) = 1 /\ ~Peeks(w)
  BY DEF Pops, Peeks, BinaryOps
<1>5. w \in {"ROT", "-ROT"} => Pops(w) = 3 /\ ~Peeks(w)
  BY DEF Pops, Peeks, BinaryOps
<1>6. w \in {"DUP", "R@"} => Pops(w) = 0 /\ Peeks(w)
  BY DEF Pops, Peeks, BinaryOps
<1>7. w = "OVER" => Pops(w) = 1 /\ Peeks(w)
  BY DEF Pops, Peeks, BinaryOps
<1>8. w \in BinaryOps \cup UnaryOps \cup {"SWAP", "NIP", "TUCK", "!"} \cup {"DROP", ">R", "R>"}
            \cup {"ROT", "-ROT"} \cup {"DUP", "R@"} \cup {"OVER"}
  BY DEF DataWords, Shuffles
<1>9. w \in {"OVER", "ROT", "-ROT"} => w \notin BinaryOps /\ w \notin UnaryOps
  BY DEF BinaryOps, UnaryOps
<1> QED  BY <1>1, <1>2, <1>3, <1>4, <1>5, <1>6, <1>7, <1>8, <1>9 DEF Needs

\* What a word that has its operands, and faults at none, pushes: numbers.
LEMMA GivenValues ==
  ASSUME StacksHold(Int), NEW w \in DataWords, Needs(w) <= Held(Source(w)), Faults(w) = "none"
  PROVE  /\ Gives(w) \in Seq(Int)
         /\ w = "!" => /\ Seen(w, 1) \in Int /\ Addressable(Seen(w, 1))
                       /\ Seen(w, 2) \in Int
<1>0. Held(Source(w)) \in Int
  BY StackRegion DEF Held, Source, Stacks, StacksHold
<1>1. Seen(w, 1) \in Int
  BY <1>0, Operands, SeenValues
<1>2. Needs(w) >= 2 => Seen(w, 2) \in Int
  BY <1>0, Operands, SeenValues
<1>3. Needs(w) >= 3 => Seen(w, 3) \in Int
  BY <1>0, Operands, SeenValues
<1>4. w \in {"/", "MOD"} => Seen(w, 1) # 0
  BY DEF Faults
<1>5. w \in {"@", "!"} => Addressable(Seen(w, 1))
  BY DEF Faults
<1>6. PICK x, y, z : x = Seen(w, 1) /\ y = Seen(w, 2) /\ z = Seen(w, 3)
  OBVIOUS
<1>7. CASE w \in BinaryOps
  <2>1. Binary(w, y, x) \in Int
    BY <1>1, <1>2, <1>4, <1>6, <1>7, Operands, BinaryValues
  <2>2. Gives(w) = <<Binary(w, y, x)>>
    BY <1>6, <1>7 DEF Gives, BinaryOps, UnaryOps
  <2>3. w # "!"
    BY <1>7 DEF BinaryOps
  <2> QED  BY <2>1, <2>2, <2>3
<1>8. CASE w \in UnaryOps
  <2>1. Unary(w, x) \in Int
    BY <1>1, <1>5, <1>6, <1>8, UnaryValues DEF StacksHold
  <2>2. Gives(w) = <<Unary(w, x)>>
    BY <1>6, <1>8 DEF Gives, BinaryOps, UnaryOps
  <2>3. w # "!"
    BY <1>8 DEF UnaryOps
  <2> QED  BY <2>1, <2>2, <2>3
<1>9. CASE w \in {"DUP", "DROP", ">R", "R>", "R@"}
  <2>1. Gives(w) \in {<<x>>, << >>}
    BY <1>6, <1>9 DEF Gives, BinaryOps, UnaryOps
  <2>2. x \in Int
    BY <1>1, <1>6
  <2>3. {<<x>>, << >>} \subseteq Seq(Int)
    BY <2>2
  <2> QED  BY <1>9, <2>1, <2>3, Zenon
<1>10. CASE w \in {"SWAP", "OVER", "NIP", "TUCK", "!"}
  <2>1. Gives(w) \in {<<x, y>>, <<x>>, <<x, y, x>>, << >>}
    BY <1>6, <1>10 DEF Gives, BinaryOps, UnaryOps
  <2>2. x \in Int /\ y \in Int
    BY <1>1, <1>2, <1>6, <1>10, Operands
  <2>3. {<<x, y>>, <<x>>, <<x, y, x>>, << >>} \subseteq Seq(Int)
    BY <2>2
  <2> QED  BY <1>5, <1>6, <2>1, <2>2, <2>3
<1>11. CASE w \in {"ROT", "-ROT"}
  <2>1. Gives(w) \in {<<y, x, z>>, <<x, z, y>>}
    BY <1>6, <1>11 DEF Gives, BinaryOps, UnaryOps
  <2>2. x \in Int /\ y \in Int /\ z \in Int
    BY <1>1, <1>2, <1>3, <1>6, <1>11, Operands
  <2>3. {<<y, x, z>>, <<x, z, y>>} \subseteq Seq(Int)
    BY <2>2
  <2> QED  BY <1>11, <2>1, <2>3, Zenon
<1> QED  BY <1>7, <1>8, <1>9, <1>10, <1>11 DEF DataWords, Shuffles

(***************************************************************************)
(* The stacks                                                              *)
(***************************************************************************)

\* The lesser of two numbers.
LEMMA LeastOfTwo ==
  ASSUME NEW a \in Int, NEW b \in Int, NEW m, m = Min({a, b})
  PROVE  m \in {a, b} /\ m <= a /\ m <= b
<1>1. \E x \in {a, b} : \A y \in {a, b} : x <= y
  BY a <= b \/ b <= a
<1> QED  BY <1>1 DEF Min

\* the pointers p are where stack pointers may be
InRegions(p) == p \in [Stacks -> Int] /\ \A s \in Stacks : p[s] \in Floor(s) .. Base(s)

\* A word pops no more than there is.
LEMMA PoppedStays ==
  ASSUME StacksHold(Int), NEW w, NEW k \in 0 .. Held(Source(w))
  PROVE  InRegions(Popped(w, k))
<1>1. Source(w) \in Stacks
  BY DEF Source, Stacks
<1>2. PICK s \in Stacks : s = Source(w)
  BY <1>1
<1>3. PICK p \in Int : p = sp[s] /\ Floor(s) <= p /\ p <= Base(s)
  BY StackRegion DEF StacksHold, PointersInBounds
<1>4. k <= Base(s) - p
  BY <1>2, <1>3, StackRegion DEF Held
<1>5. Popped(w, k) = [sp EXCEPT ![s] = p + k]
  BY <1>2, <1>3 DEF Popped
<1>6. Popped(w, k)[s] = p + k /\ \A t \in Stacks \ {s} : Popped(w, k)[t] = sp[t]
  BY <1>5 DEF StacksHold
<1>7. p + k \in Floor(s) .. Base(s)
  BY <1>3, <1>4, StackRegion
<1>8. Popped(w, k) \in [Stacks -> Int]
  BY <1>3, <1>5 DEF StacksHold
<1> QED  BY <1>6, <1>7, <1>8 DEF InRegions, StacksHold, PointersInBounds

\* And it pushes no more than there is room for.
LEMMA RoomFits ==
  ASSUME StacksHold(Int), NEW w \in DataWords, Pops(w) <= Held(Source(w)), Gives(w) \in Seq(Int)
  PROVE  /\ Room(w) \in 0 .. Len(Gives(w))
         /\ \A n \in 0 .. Room(w) :
              InRegions([Popped(w, Pops(w)) EXCEPT ![Target(w)] = @ - n])
<1>1. PICK p : p = Popped(w, Pops(w))
  OBVIOUS
<1>2. Pops(w) \in 0 .. Held(Source(w))
  <2>1. Held(Source(w)) \in Int
    BY StackRegion DEF Held, Source, Stacks, StacksHold
  <2> QED  BY <2>1, Operands
<1>3. InRegions(p)
  BY <1>1, <1>2, PoppedStays
<1>4. PICK t \in Stacks : t = Target(w)
  BY DEF Target, Stacks
<1>5. PICK q \in Int : q = p[t] /\ Floor(t) <= q /\ q <= Base(t)
  BY <1>3, StackRegion DEF InRegions
<1>6. PICK l \in Nat : l = Len(Gives(w))
  BY LenProperties
<1>7. Floor(t) \in Nat /\ Base(t) \in Nat
  BY StackRegion
<1>8. PICK d \in Nat : d = q - Floor(t)
  BY <1>5, <1>7
<1>9. Room(w) \in 0 .. l /\ Room(w) <= d
  <2>1. Room(w) = Min({l, d})
    BY <1>1, <1>4, <1>5, <1>6, <1>8 DEF Room
  <2>2. PICK m : m = Min({l, d})
    OBVIOUS
  <2>3. l \in Int /\ d \in Int
    OBVIOUS
  <2>4. m \in {l, d} /\ m <= l /\ m <= d
    BY <2>2, <2>3, LeastOfTwo, Zenon
  <2> QED  BY <2>1, <2>2, <2>4
<1>10. ASSUME NEW n \in 0 .. Room(w)
       PROVE  InRegions([p EXCEPT ![t] = @ - n])
  <2>1. [p EXCEPT ![t] = @ - n] = [p EXCEPT ![t] = q - n]
    BY <1>5
  <2>2. q - n \in Int /\ q - n \in Floor(t) .. Base(t)
    BY <1>5, <1>7, <1>8, <1>9
  <2>3. PICK r : r = q - n
    OBVIOUS
  <2> QED  BY <1>3, <2>1, <2>2, <2>3 DEF InRegions
<1> QED  BY <1>1, <1>4, <1>6, <1>9, <1>10

\* The cells a word pushes to hold numbers like the others.
LEMMA PushedStays ==
  ASSUME StacksHold(Int), NEW w, NEW values \in Seq(Int)
  PROVE  Pushed(w, values) \in [Cells -> Int]
<1>1. PICK top : top = Popped(w, Pops(w))[Target(w)]
  OBVIOUS
<1>2. \A i \in DOMAIN values : values[i] \in Int
  OBVIOUS
<1>3. \A c \in Cells : mem[c] \in Int
  BY DEF StacksHold
<1>4. \A c \in Cells : (IF top - c \in DOMAIN values THEN values[top - c] ELSE mem[c]) \in Int
  BY <1>2, <1>3
<1>5. Pushed(w, values) = [c \in Cells |-> IF top - c \in DOMAIN values THEN values[top - c] ELSE mem[c]]
  BY <1>1 DEF Pushed
<1> QED  BY <1>4, <1>5

(***************************************************************************)
(* The words                                                               *)
(***************************************************************************)

\* how a call, or a word of it, can have ended
Outcomes == {"none", "StackError", "IndexError", "ZeroDivisionError", "TypeError",
             "UnknownWordError", "RecursionError"}

\* the state the words work on
Sound == StacksHold(Int) /\ ip \in Int /\ halted \in BOOLEAN /\ raised \in Outcomes

\* What a word that finds too few values pops, and one that is cut short while
\* it pops: some of what there is.
LEMMA PopsSome ==
  ASSUME StacksHold(Int), NEW w, NEW k \in 0 .. Held(Source(w)), sp' = Popped(w, k), UNCHANGED mem
  PROVE  StacksHold(Int)'
BY PoppedStays DEF StacksHold, InRegions, PointersInBounds

\* What a word that has its operands leaves once it has pushed n of its results;
\* of the last the cell may still be as it was.
LEMMA PushesSome ==
  ASSUME StacksHold(Int), NEW w \in DataWords, Needs(w) <= Held(Source(w)), Faults(w) = "none",
         NEW n \in 0 .. Room(w), NEW k \in Nat, k <= n,
         sp' = [Popped(w, Pops(w)) EXCEPT ![Target(w)] = @ - n],
         mem' = Pushed(w, SubSeq(Gives(w), 1, k))
  PROVE  StacksHold(Int)'
<1>1. Held(Source(w)) \in Int
  BY StackRegion DEF Held, Source, Stacks, StacksHold
<1>2. Pops(w) <= Held(Source(w))
  BY <1>1, Operands
<1>3. Gives(w) \in Seq(Int)
  BY GivenValues
<1>4. InRegions(sp')
  BY <1>2, <1>3, RoomFits
<1>5. k <= Len(Gives(w))
  <2>1. Room(w) \in 0 .. Len(Gives(w)) /\ Len(Gives(w)) \in Nat
    BY <1>2, <1>3, RoomFits, LenProperties
  <2> QED  BY <2>1
<1>6. SubSeq(Gives(w), 1, k) \in Seq(Int)
  <2>1. PICK g \in Seq(Int) : g = Gives(w)
    BY <1>3
  <2>2. \A i \in 1 .. k : g[i] \in Int
    BY <1>5, <2>1
  <2> QED  BY <1>5, <2>1, <2>2
<1>7. mem' \in [Cells -> Int]
  BY <1>6, PushedStays
<1> QED  BY <1>4, <1>7 DEF StacksHold, InRegions, PointersInBounds

\* What a data word raises is one of the errors of the service.
LEMMA FaultNames == ASSUME NEW w PROVE Faults(w) \in Outcomes
BY DEF Faults, Outcomes

\* A word that computes, pops and pushes: wherever it stops, the pointers are
\* in their regions.
LEMMA DataWordStays ==
  ASSUME Sound, NEW w \in DataWords, DataWord(w)
  PROVE  Sound'
<1>0. StacksHold(Int) /\ ip' = ip /\ halted' = halted
  BY DEF Sound, DataWord
<1>1. PICK h \in Nat : h = Held(Source(w))
  <2>1. \E s \in Stacks : s = Source(w)
    BY DEF Source, Stacks
  <2> QED  BY <1>0, <2>1, StackRegion DEF Held, StacksHold, PointersInBounds
<1>2. PICK n \in Nat : n = Needs(w) /\ Pops(w) \in 0 .. n
  BY Operands
<1>3. CASE h < n
  <2>1. sp' = Popped(w, h) /\ raised' = "StackError" /\ mem' = mem
    BY <1>1, <1>2, <1>3 DEF DataWord, TooFew, Needs
  <2>2. StacksHold(Int)'
    BY <1>0, <1>1, <2>1, PopsSome
  <2> QED  BY <1>0, <2>1, <2>2 DEF Sound, Outcomes
<1>4. CASE ~(h < n) /\ Faults(w) # "none"
  <2>1. sp' = Popped(w, Pops(w)) /\ raised' = Faults(w) /\ mem' = mem
    BY <1>1, <1>2, <1>4 DEF DataWord, Needs
  <2>2. StacksHold(Int)'
    BY <1>0, <1>1, <1>2, <1>4, <2>1, PopsSome
  <2> QED  BY <1>0, <2>1, <2>2, FaultNames DEF Sound
<1>5. CASE ~(h < n) /\ Faults(w) = "none" /\ w = "!"
  <2>1. /\ sp' = Popped(w, Pops(w)) /\ raised' = "none"
        /\ mem' = [mem EXCEPT ![CellAt(Seen(w, 1))] = Seen(w, 2)]
    BY <1>1, <1>2, <1>5 DEF DataWord, Needs
  <2>2. InRegions(sp')
    BY <1>0, <1>1, <1>2, <1>5, <2>1, PoppedStays
  <2>3. Seen(w, 2) \in Int
    BY <1>0, <1>1, <1>2, <1>5, GivenValues
  <2>4. mem' \in [Cells -> Int]
    BY <1>0, <2>1, <2>3 DEF StacksHold
  <2> QED  BY <1>0, <2>1, <2>2, <2>4 DEF Sound, StacksHold, InRegions, PointersInBounds, Outcomes
<1>6. CASE ~(h < n) /\ Faults(w) = "none" /\ w # "!"
  <2>1. /\ sp' = [Popped(w, Pops(w)) EXCEPT ![Target(w)] = @ - Room(w)]
        /\ mem' = Pushed(w, SubSeq(Gives(w), 1, Room(w)))
        /\ raised' \in {"StackError", "none"}
    BY <1>1, <1>2, <1>6 DEF DataWord, Needs
  <2>2. Needs(w) <= Held(Source(w)) /\ Pops(w) <= Held(Source(w))
    BY <1>1, <1>2, <1>6
  <2>3. Room(w) \in Nat
    BY <1>0, <1>6, <2>2, GivenValues, RoomFits, LenProperties
  <2>4. StacksHold(Int)'
    <3>1. Room(w) \in 0 .. Room(w) /\ Room(w) <= Room(w)
      BY <2>3
    <3> QED  BY <1>0, <1>6, <2>1, <2>2, <2>3, <3>1, PushesSome
  <2> QED  BY <1>0, <2>1, <2>4 DEF Sound, Outcomes
<1> QED  BY <1>3, <1>4, <1>5, <1>6

\* The same where Python's own stack cuts the word short.
LEMMA DataWordCutStays ==
  ASSUME StacksHold(Int), NEW w \in DataWords, DataWordCut(w)
  PROVE  StacksHold(Int)'
<1>1. PICK h \in Nat : h = Held(Source(w))
  <2>1. \E s \in Stacks : s = Source(w)
    BY DEF Source, Stacks
  <2> QED  BY <2>1, StackRegion DEF Held, StacksHold, PointersInBounds
<1>2. PICK n \in Nat : n = Needs(w) /\ Pops(w) \in 0 .. n
  BY Operands
<1>3. PICK p \in Nat : p = Pops(w)
  BY <1>2
<1>4. CASE (\E k \in 0 .. Min({p, h}) : sp' = Popped(w, k)) /\ UNCHANGED mem
  <2>1. PICK k \in 0 .. Min({p, h}) : sp' = Popped(w, k)
    BY <1>4
  <2>2. PICK m : m = Min({p, h})
    OBVIOUS
  <2>3. p \in Int /\ h \in Int
    OBVIOUS
  <2>4. m \in {p, h} /\ m <= p /\ m <= h
    BY <2>2, <2>3, LeastOfTwo, Zenon
  <2>5. k \in 0 .. h
    BY <2>1, <2>2, <2>4
  <2> QED  BY <1>1, <1>4, <2>1, <2>5, PopsSome
<1>5. CASE /\ h >= n /\ Faults(w) = "none"
           /\ \E r \in 1 .. Room(w) :
                /\ sp' = [Popped(w, Pops(w)) EXCEPT ![Target(w)] = @ - r]
                /\ \E written \in {r - 1, r} : mem' = Pushed(w, SubSeq(Gives(w), 1, written))
  <2>1. PICK r \in 1 .. Room(w) :
          /\ sp' = [Popped(w, Pops(w)) EXCEPT ![Target(w)] = @ - r]
          /\ \E written \in {r - 1, r} : mem' = Pushed(w, SubSeq(Gives(w), 1, written))
    BY <1>5
  <2>2. PICK written \in {r - 1, r} : mem' = Pushed(w, SubSeq(Gives(w), 1, written))
    BY <2>1
  <2>3. r \in 0 .. Room(w) /\ written \in Nat /\ written <= r
    BY <2>1, <2>2
  <2>4. Needs(w) <= Held(Source(w))
    BY <1>1, <1>2, <1>5
  <2> QED  BY <1>5, <2>1, <2>2, <2>3, <2>4, PushesSome
<1> QED  BY <1>1, <1>2, <1>3, <1>4, <1>5 DEF DataWordCut, Needs

\* A push of the host's, or DOCOL's.
LEMMA PushStays ==
  ASSUME StacksHold(Int), NEW s \in Stacks, NEW v \in Int, ~Overflows(s), StackPush(s, v)
  PROVE  StacksHold(Int)'
<1>1. PICK p \in Int : p = sp[s] /\ Floor(s) < p /\ p <= Base(s)
  BY StackRegion DEF StacksHold, PointersInBounds, Overflows
<1>2. sp' = [sp EXCEPT ![s] = p - 1] /\ mem' = [mem EXCEPT ![p - 1] = v]
  BY <1>1 DEF StackPush, StacksHold, CELL_SIZE
<1>3. p - 1 \in Floor(s) .. Base(s)
  BY <1>1, StackRegion
<1>4. PICK q \in Int : q = p - 1
  OBVIOUS
<1> QED  BY <1>2, <1>3, <1>4 DEF StacksHold, PointersInBounds

\* EXIT takes a number from the return stack and leaves its stack in bounds.
LEMMA ExitStays ==
  ASSUME StacksHold(Int), ~Underflows("R"), sp' = [sp EXCEPT !["R"] = @ + CELL_SIZE], UNCHANGED mem
  PROVE  StacksHold(Int)' /\ Top("R") \in Int
<1>1. PICK s \in Stacks : s = "R"
  BY DEF Stacks
<1>2. PICK p \in Int : p = sp[s] /\ Floor(s) <= p /\ p < Base(s)
  BY <1>1, StackRegion DEF StacksHold, PointersInBounds, Underflows
<1>3. sp' = [sp EXCEPT ![s] = p + 1]
  BY <1>1, <1>2 DEF StacksHold, CELL_SIZE
<1>4. p \in Cells /\ p + 1 \in Floor(s) .. Base(s)
  BY <1>2, StackRegion, Regions DEF Cells
<1>5. PICK q \in Int : q = p + 1
  OBVIOUS
<1>6. Top("R") = mem[p]
  BY <1>1, <1>2 DEF Top
<1>7. mem[p] \in Int
  BY <1>4 DEF StacksHold
<1>8. StacksHold(Int)'
  BY <1>3, <1>4, <1>5 DEF StacksHold, PointersInBounds
<1> QED  BY <1>6, <1>7, <1>8

\* Any word, run or cut short.
LEMMA WordStays ==
  ASSUME Sound, NEW w, WordBody(w) \/ WordCut(w)
  PROVE  Sound'
<1>1. CASE w \in DataWords /\ DataWord(w)
  BY <1>1, DataWordStays
<1>2. CASE Exit
  <2>1. CASE Underflows("R")
    BY <1>2, <2>1 DEF Exit, Sound, StacksHold, PointersInBounds, Outcomes
  <2>2. CASE ~Underflows("R")
    BY <1>2, <2>2, ExitStays DEF Exit, Sound, Outcomes
  <2> QED  BY <2>1, <2>2
<1>3. CASE Bye
  BY <1>3 DEF Bye, Sound, StacksHold, PointersInBounds, Outcomes
<1>4. CASE Ends("TypeError") \/ Ends("none")
  BY <1>4 DEF Ends, Sound, StacksHold, PointersInBounds, Outcomes
<1>5. CASE raised' = "RecursionError" /\ w \in DataWords /\ DataWordCut(w)
  BY <1>5, DataWordCutStays DEF DataWordCut, Sound, Outcomes
<1>6. CASE /\ raised' = "RecursionError" /\ ~Underflows("R")
           /\ sp' = [sp EXCEPT !["R"] = @ + CELL_SIZE] /\ UNCHANGED <<mem, ip, halted>>
  BY <1>6, ExitStays DEF Sound, Outcomes
<1>7. CASE raised' = "RecursionError" /\ UNCHANGED <<mem, sp, ip, halted>>
  BY <1>7 DEF Sound, StacksHold, PointersInBounds, Outcomes
<1> QED  BY <1>1, <1>2, <1>3, <1>4, <1>5, <1>6, <1>7 DEF WordBody, WordCut

(***************************************************************************)
(* The lists being run                                                     *)
(***************************************************************************)

\* The lists being run are a sequence, nested no deeper than Python allows.
Nested == frames \in Seq(Range(frames)) /\ Len(frames) <= MaxDepth + 1

\* A sequence is one over the values it has.
LEMMA OverItsRange ==
  ASSUME NEW S, NEW f \in Seq(S)
  PROVE  f \in Seq(Range(f))
<1>1. PICK n \in Nat : n = Len(f) /\ DOMAIN f = 1 .. n
  BY LenProperties
<1>2. f \in [1 .. n -> S]
  BY <1>1, LenProperties
<1>3. f \in [1 .. n -> Range(f)]
  BY <1>1, <1>2 DEF Range
<1> QED  BY <1>1, <1>3, SeqDef

\* On to the next word of the innermost list.
LEMMA Advances ==
  ASSUME NEW S, NEW f \in Seq(S), NEW k \in 1 .. Len(f)
  PROVE  LET g == [f EXCEPT ![k].at = @ + 1]
         IN  g \in Seq(Range(g)) /\ Len(g) = Len(f)
<1>1. PICK v : v = [f[k] EXCEPT !.at = @ + 1]
  OBVIOUS
<1>2. PICK g : g = [f EXCEPT ![k] = v]
  OBVIOUS
<1>3. f \in Seq(S \cup {v}) /\ v \in S \cup {v}
  BY SeqDef
<1>4. g \in Seq(S \cup {v}) /\ Len(g) = Len(f)
  BY <1>2, <1>3, ExceptSeq
<1>5. g \in Seq(Range(g))
  BY <1>4, OverItsRange
<1>6. [f EXCEPT ![k].at = @ + 1] = g
  BY <1>1, <1>2
<1> QED  BY <1>4, <1>5, <1>6

\* A word has been run, or was not found: the list goes on or the call ends.
LEMMA ProceedStays ==
  ASSUME Nested, InCall, Proceed
  PROVE  Nested'
<1>1. PICK S : S = Range(frames) /\ frames \in Seq(S)
  BY DEF Nested
<1>2. PICK n \in Nat : n = Len(frames) /\ n <= MaxDepth + 1
  BY <1>1, LenProperties DEF Nested
<1>3. n \in 1 .. Len(frames)
  BY <1>1, <1>2, EmptySeq DEF InCall
<1>4. CASE raised' = "none"
  <2>1. frames' = [frames EXCEPT ![n].at = @ + 1]
    BY <1>2, <1>4 DEF Proceed
  <2>2. frames' \in Seq(Range(frames')) /\ Len(frames') = n
    BY <1>1, <1>2, <1>3, <2>1, Advances
  <2> QED  BY <1>2, <2>2 DEF Nested
<1>5. CASE raised' # "none"
  <2>1. frames' = << >>
    BY <1>5 DEF Proceed
  <2> QED  BY <2>1, ForthAssumption DEF Nested
<1> QED  BY <1>4, <1>5

\* A list within the list: one deeper.
LEMMA EnterStays ==
  ASSUME Nested, NEW v, ~Deepest, frames' = Append(frames, v)
  PROVE  Nested'
<1>1. PICK S : S = Range(frames) /\ frames \in Seq(S)
  BY DEF Nested
<1>2. PICK n \in Nat : n = Len(frames) /\ n <= MaxDepth
  BY <1>1, LenProperties, ForthAssumption DEF Deepest
<1>3. frames \in Seq(S \cup {v}) /\ v \in S \cup {v}
  BY <1>1, SeqDef
<1>4. frames' \in Seq(S \cup {v}) /\ Len(frames') = n + 1
  BY <1>2, <1>3, AppendProperties
<1>5. frames' \in Seq(Range(frames'))
  BY <1>4, OverItsRange
<1> QED  BY <1>2, <1>4, <1>5, ForthAssumption DEF Nested

\* A list at its end: one less, and the one around it goes on.
LEMMA LeaveStays ==
  ASSUME Nested, Leave
  PROVE  Nested'
<1>1. PICK S : S = Range(frames) /\ frames \in Seq(S)
  BY DEF Nested
<1>2. PICK n \in Nat : n = Len(frames) /\ n <= MaxDepth + 1
  BY <1>1, LenProperties DEF Nested
<1>3. n > 0
  BY <1>1, <1>2, EmptySeq DEF InCall, Leave
<1>4. CASE n = 1
  <2>1. frames' = << >>
    BY <1>2, <1>4 DEF Leave
  <2> QED  BY <2>1, ForthAssumption DEF Nested
<1>5. CASE n > 1
  <2>1. PICK g : g = Front(frames)
    OBVIOUS
  <2>2. PICK k \in Nat : k = n - 1 /\ k > 0
    BY <1>5
  <2>3. g \in Seq(S) /\ Len(g) = k
    <3>1. g = SubSeq(frames, 1, k)
      BY <1>2, <2>1, <2>2 DEF Front
    <3>2. \A i \in 1 .. k : frames[i] \in S
      BY <1>1, <1>2, <2>2
    <3> QED  BY <2>2, <3>1, <3>2, SubSeqProperties
  <2>4. frames' = [g EXCEPT ![k].at = @ + 1]
    BY <1>2, <1>5, <2>1, <2>2 DEF Leave
  <2>5. k \in 1 .. Len(g)
    BY <2>2, <2>3
  <2>6. frames' \in Seq(Range(frames')) /\ Len(frames') = k
    BY <2>3, <2>4, <2>5, Advances
  <2> QED  BY <1>2, <2>2, <2>6, ForthAssumption DEF Nested
<1> QED  BY <1>3, <1>4, <1>5

(***************************************************************************)
(* The service                                                             *)
(***************************************************************************)

\* TypeOK, and that the lists being run are a sequence.
FInv == Sound /\ Nested

\* The host's definitions and calls touch neither stack nor memory; what it
\* pushes, it pushes within the bounds.
LEMMA HostStays ==
  ASSUME FInv, HostCall
  PROVE  FInv'
<1>1. ASSUME NEW w \in CallNames, Call(w) PROVE FInv'
  <2>1. Sound'
    BY <1>1 DEF Call, FInv, Sound, StacksHold, PointersInBounds, Outcomes
  <2>2. PICK v : frames' = <<v>>
    BY <1>1 DEF Call
  <2>3. frames' \in Seq({v}) /\ Len(frames') = 1
    BY <2>2
  <2>4. Nested'
    BY <2>3, OverItsRange, ForthAssumption DEF Nested
  <2> QED  BY <2>1, <2>4 DEF FInv
<1>2. ASSUME UNCHANGED <<mem, sp, ip, halted, frames>>, raised' = "none" PROVE FInv'
  BY <1>2 DEF FInv, Sound, StacksHold, PointersInBounds, Nested, Outcomes
<1>3. ASSUME NEW v \in Literals, Literal(v) PROVE FInv'
  <2>1. "D" \in Stacks /\ v \in Int
    BY ForthAssumption DEF Stacks
  <2>2. CASE Overflows("D")
    BY <1>3, <2>2 DEF Literal, FInv, Sound, StacksHold, PointersInBounds, Nested, Outcomes
  <2>3. CASE ~Overflows("D")
    <3>1. StacksHold(Int)'
      BY <1>3, <2>1, <2>3, PushStays DEF Literal, FInv, Sound
    <3> QED  BY <1>3, <2>3, <3>1 DEF Literal, FInv, Sound, Nested, Outcomes
  <2> QED  BY <2>2, <2>3
<1>4. ASSUME NEW v \in Literals, Docol(v) PROVE FInv'
  <2>1. "R" \in Stacks /\ v \in Int /\ ip \in Int
    BY ForthAssumption DEF Stacks, FInv, Sound
  <2>2. CASE Overflows("R")
    BY <1>4, <2>2 DEF Docol, FInv, Sound, StacksHold, PointersInBounds, Nested, Outcomes
  <2>3. CASE ~Overflows("R")
    <3>1. StacksHold(Int)'
      BY <1>4, <2>1, <2>3, PushStays DEF Docol, FInv, Sound
    <3> QED  BY <1>4, <2>1, <2>3, <3>1 DEF Docol, FInv, Sound, Nested, Outcomes
  <2> QED  BY <2>2, <2>3
<1>5. ASSUME NEW d \in Definitions, Define(d[1], d[2]) PROVE FInv'
  BY <1>2, <1>5 DEF Define
<1>6. ASSUME BuildStandardColonDefs PROVE FInv'
  BY <1>2, <1>6 DEF BuildStandardColonDefs
<1> QED  BY <1>1, <1>3, <1>4, <1>5, <1>6 DEF HostCall

\* Each step of a call.
LEMMA StepStays ==
  ASSUME FInv, Step
  PROVE  FInv'
<1>1. Sound /\ Nested
  BY DEF FInv
<1>2. CASE RunPrimitive
  <2>1. InCall /\ Proceed /\ (WordBody(Current) \/ WordCut(Current))
    BY <1>2 DEF RunPrimitive
  <2> QED  BY <1>1, <2>1, WordStays, ProceedStays DEF FInv
<1>3. CASE Unknown
  <2>1. InCall /\ Proceed /\ Ends("UnknownWordError")
    BY <1>3 DEF Unknown
  <2>2. Sound'
    BY <1>1, <2>1 DEF Ends, Sound, StacksHold, PointersInBounds, Outcomes
  <2> QED  BY <1>1, <2>1, <2>2, ProceedStays DEF FInv
<1>4. CASE Enter
  <2>1. Sound'
    BY <1>1, <1>4 DEF Enter, Sound, StacksHold, PointersInBounds, Outcomes
  <2>2. CASE Deepest
    <3>1. frames' = << >>
      BY <1>4, <2>2 DEF Enter
    <3> QED  BY <2>1, <3>1, ForthAssumption DEF FInv, Nested
  <2>3. CASE ~Deepest
    <3>1. PICK v : frames' = Append(frames, v)
      BY <1>4, <2>3 DEF Enter
    <3> QED  BY <1>1, <2>1, <2>3, <3>1, EnterStays DEF FInv
  <2> QED  BY <2>2, <2>3
<1>5. CASE Leave
  <2>1. Sound'
    BY <1>1, <1>5 DEF Leave, Sound, StacksHold, PointersInBounds
  <2> QED  BY <1>1, <1>5, <2>1, LeaveStays DEF FInv
<1> QED  BY <1>2, <1>3, <1>4, <1>5 DEF Step

\* What earlier calls can have left.
LEMMA StartsSound ==
  ASSUME Init
  PROVE  FInv
<1>1. PICK start \in Starts :
        /\ sp = [s \in Stacks |-> Base(s) - Len(IF s = "D" THEN start.ds ELSE start.rs)]
        /\ mem = [c \in Cells |->
                    IF DATA_STACK_BASE - c \in DOMAIN start.ds THEN start.ds[DATA_STACK_BASE - c]
                    ELSE IF RETURN_STACK_BASE - c \in DOMAIN start.rs
                    THEN start.rs[RETURN_STACK_BASE - c] ELSE 0]
  BY Zenon DEF Init
<1>9. ip = 0 /\ halted = FALSE /\ raised = "none" /\ frames = << >>
  BY Zenon DEF Init
<1>2. PICK ds \in Seq(Int) : ds = start.ds /\ Len(ds) <= DATA_STACK_SIZE
  BY ForthAssumption
<1>3. PICK rs \in Seq(Int) : rs = start.rs /\ Len(rs) <= RETURN_STACK_SIZE
  BY ForthAssumption
<1>4. mem \in [Cells -> Int]
  <2>1. \A i : i \in DOMAIN ds => ds[i] \in Int
    OBVIOUS
  <2>2. \A i : i \in DOMAIN rs => rs[i] \in Int
    OBVIOUS
  <2> QED  BY <1>1, <1>2, <1>3, <2>1, <2>2
<1>5. ASSUME NEW s \in Stacks PROVE sp[s] \in Int /\ sp[s] \in Floor(s) .. Base(s)
  <2>1. PICK n \in Nat : n = Len(IF s = "D" THEN ds ELSE rs) /\ n <= Size(s)
    BY <1>2, <1>3, LenProperties DEF Stacks, Size
  <2>2. sp[s] = Base(s) - n
    BY <1>1, <1>2, <1>3, <2>1
  <2> QED  BY <2>1, <2>2, StackRegion
<1>6. sp \in [Stacks -> Int]
  BY <1>1, <1>5
<1>7. ip \in Int /\ halted \in BOOLEAN /\ raised \in Outcomes
  <2>1. halted \in BOOLEAN
    BY <1>9, Zenon
  <2>2. ip \in Int /\ raised \in Outcomes
    BY <1>9 DEF Outcomes
  <2> QED  BY <2>1, <2>2
<1>8. Nested
  BY <1>9, ForthAssumption DEF Nested
<1> QED  BY <1>4, <1>5, <1>6, <1>7, <1>8 DEF FInv, Sound, StacksHold, PointersInBounds

\* Both stacks stay in their regions whatever words are defined and called, also
\* when an exception ends a call or Python's own stack cuts a word short; lists
\* are run at most MaxDepth deep (forth.py, _execute_colon and the primitives).
THEOREM ForthTypeOK == Spec => []TypeOK
<1>1. Init => FInv
  BY StartsSound
<1>2. FInv /\ [Next]_vars => FInv'
  <2>1. ASSUME FInv, UNCHANGED vars PROVE FInv'
    BY <2>1 DEF vars, FInv, Sound, StacksHold, PointersInBounds, Nested
  <2> QED  BY <2>1, StepStays, HostStays DEF Next
<1>3. FInv => TypeOK
  BY DEF FInv, Sound, StacksHold, Nested, TypeOK, Outcomes
<1> QED  BY <1>1, <1>2, <1>3, PTL DEF Spec

(***************************************************************************)
(* What is put together                                                    *)
(***************************************************************************)

\* Parts may be put together in any order of the joints.
Joins(a, b, c) == (a \o b) \o c = a \o (b \o c)

\* They may.
LEMMA JoinsAll == \A S : \A a \in Seq(S), b \in Seq(S), c \in Seq(S) : Joins(a, b, c)
BY ConcatAssociative DEF Joins

\* the m parts are one more than the n others, which come behind it
Shifted(parts, m, others, n) == m = n + 1 /\ \A i \in 1 .. n : others[i] = parts[i + 1]

\* the first part is in front of what comes of the others
Prepended(parts, others) == FlattenSeq(parts) = parts[1] \o FlattenSeq(others)

\* FlattenSeq of a part more in front.
LEMMA FlattenFront ==
  ASSUME NEW S, NEW n \in Nat, NEW m \in Nat, NEW parts \in [1 .. m -> Seq(S)],
         NEW others \in [1 .. n -> Seq(S)], Shifted(parts, m, others, n)
  PROVE  Prepended(parts, others)
<1>0. m = n + 1 /\ \A i \in 1 .. n : others[i] = parts[i + 1]
  BY DEF Shifted
<1> USE <1>0 DEF Prepended
<1>1. PICK all \in [1 .. m -> Seq(S)] :
        FlattenSeq(parts) = all[m] /\ PutsTogether(all, parts, m)
  <2>1. m # 0
    OBVIOUS
  <2> QED  BY <2>1, FlattenUnfolds, Zenon
<1>2. parts[1] \in Seq(S) /\ all[1] = parts[1]
  BY <1>1 DEF PutsTogether
<1>3. CASE n = 0
  <2>1. others = << >> /\ m = 1
    BY <1>3
  <2>2. FlattenSeq(others) = << >>
    BY <2>1, FlattenNone, Zenon
  <2>3. << >> \in Seq(S)
    OBVIOUS
  <2>4. parts[1] \o << >> = parts[1]
    BY <1>2, ConcatEmptySeq, Zenon
  <2> QED  BY <1>1, <1>2, <2>1, <2>2, <2>3, <2>4, Zenon
<1>4. CASE n # 0
  <2>1. PICK rest \in [1 .. n -> Seq(S)] :
          FlattenSeq(others) = rest[n] /\ PutsTogether(rest, others, n)
    BY <1>4, FlattenUnfolds, Zenon
  <2> DEFINE Good == {k \in Nat : k + 1 <= n => all[k + 2] = parts[1] \o rest[k + 1]}
  <2>2. ASSUME NEW q \in 1 .. n, q # 1
        PROVE  /\ q + 1 \in 1 .. m /\ q - 1 \in 1 .. n
               /\ rest[q] = rest[q - 1] \o parts[q + 1]
               /\ all[q + 1] = all[q] \o parts[q + 1]
               /\ rest[q - 1] \in Seq(S) /\ parts[q + 1] \in Seq(S)
    <3>1. q + 1 \in 1 .. m /\ q + 1 # 1 /\ q + 1 - 1 = q /\ q - 1 \in 1 .. n
      BY <2>2
    <3>2. others[q] = parts[q + 1]
      OBVIOUS
    <3>3. rest[q] = rest[q - 1] \o others[q]
      BY <2>1, <2>2, Zenon DEF PutsTogether
    <3>4. PICK r \in 1 .. m : r = q + 1 /\ r # 1 /\ r - 1 = q
      BY <3>1
    <3>5. all[r] = all[r - 1] \o parts[r]
      BY <1>1, <3>4, Zenon DEF PutsTogether
    <3>6. rest[q - 1] \in Seq(S) /\ parts[r] \in Seq(S)
      BY <3>1
    <3> QED  BY <3>1, <3>2, <3>3, <3>4, <3>5, <3>6, Zenon
  <2>3. 0 \in Good
    <3>1. 2 \in 1 .. m /\ 1 \in 1 .. n /\ 2 - 1 = 1 /\ 2 # 1 /\ 1 + 1 = 2
      BY <1>4
    <3>2. all[2] = all[1] \o parts[2]
      BY <1>1, <3>1, Zenon DEF PutsTogether
    <3>3. rest[1] = others[1] /\ others[1] = parts[2]
      BY <2>1, <3>1, Zenon DEF PutsTogether
    <3>4. all[2] = parts[1] \o rest[1]
      BY <1>2, <3>2, <3>3, Zenon
    <3>5. 0 + 1 = 1 /\ 0 + 2 = 2
      OBVIOUS
    <3> QED  BY <3>4, <3>5
  <2>4. ASSUME NEW k \in Good PROVE k + 1 \in Good
    <3>0. k \in Nat
      OBVIOUS
    <3>1. ASSUME k + 1 + 1 <= n PROVE all[k + 1 + 2] = parts[1] \o rest[k + 1 + 1]
      <4>1. PICK q \in 1 .. n : q = k + 1 + 1 /\ q # 1 /\ q - 1 = k + 1 /\ q + 1 = k + 1 + 2 /\ q = k + 2
        BY <3>0, <3>1
      <4>2. all[k + 2] = parts[1] \o rest[k + 1]
        <5>1. k + 1 <= n
          BY <3>0, <3>1
        <5> QED  BY <5>1
      <4>3. all[q] = parts[1] \o rest[q - 1]
        BY <4>1, <4>2, Zenon
      <4>4. (parts[1] \o rest[q - 1]) \o parts[q + 1] = parts[1] \o (rest[q - 1] \o parts[q + 1])
        <5>1. rest[q - 1] \in Seq(S) /\ parts[q + 1] \in Seq(S)
          BY <2>2, <4>1
        <5>2. parts[1] \in Seq(S)
          BY <1>2
        <5>3. Joins(parts[1], rest[q - 1], parts[q + 1])
          BY <5>1, <5>2, JoinsAll, Zenon
        <5> QED  BY <5>3, Zenon DEF Joins
      <4>5. all[q + 1] = parts[1] \o rest[q]
        BY <2>2, <4>1, <4>3, <4>4, Zenon
      <4> QED  BY <4>1, <4>5, Zenon
    <3>2. k + 1 \in Nat
      BY <3>0
    <3> QED  BY <3>1, <3>2, Zenon
  <2>5. Good = Nat
    <3>1. Good \subseteq Nat
      OBVIOUS
    <3> HIDE DEF Good
    <3> QED  BY <2>3, <2>4, <3>1, NaturalInduction
  <2>6. n - 1 \in Good /\ n - 1 + 1 = n /\ n - 1 + 2 = m /\ n <= n
    <3>1. n - 1 \in Nat
      BY <1>4
    <3> HIDE DEF Good
    <3> QED  BY <2>5, <3>1
  <2>7. all[m] = parts[1] \o rest[n]
    BY <2>6, Zenon
  <2>8. rest[n] \in Seq(S)
    BY <1>4
  <2> QED  BY <1>1, <2>1, <2>7, <2>8, Zenon
<1> QED  BY <1>3, <1>4

\* FlattenSeq of sequences over S is one.
LEMMA FlattenSequences ==
  ASSUME NEW S, NEW n \in Nat, NEW parts \in [1 .. n -> Seq(S)]
  PROVE  FlattenSeq(parts) \in Seq(S)
<1>1. CASE n = 0
  <2>1. parts = << >> /\ << >> \in Seq(S)
    BY <1>1
  <2> QED  BY <2>1, FlattenNone, Zenon
<1>2. CASE n # 0
  <2>1. PICK flat \in [1 .. n -> Seq(S)] : FlattenSeq(parts) = flat[n]
    BY <1>2, FlattenUnfolds, Zenon
  <2>2. flat[n] \in Seq(S)
    BY <1>2
  <2> QED  BY <2>1, <2>2, Zenon
<1> QED  BY <1>1, <1>2

\* where e has its first that is not in P, or ends
Stop(P, e) == Min({Len(e) + 1} \cup {i \in DOMAIN e : e[i] \notin P})

\* r is of what e has in front of that
RunsInFront(P, e, r) ==
  /\ IsPrefix(r, SubSeq(e, 1, Stop(P, e) - 1))
  /\ Stop(P, e) \in 1 .. Len(e) + 1 /\ Len(r) \in 0 .. Stop(P, e) - 1

\* it is all of it, and t comes behind
AtFront(P, e, r, t) == Len(r) = Stop(P, e) - 1 /\ e[Stop(P, e)] = t[1]

\* What has run is in front of the first word that cannot.
LEMMA InFront ==
  ASSUME NEW S, NEW P, P \subseteq S, NEW r \in Seq(P), NEW t \in Seq(S), NEW e, e = r \o t
  PROVE  /\ RunsInFront(P, e, r)
         /\ t # << >> /\ t[1] \notin P => AtFront(P, e, r, t)
<1>1. PICK k \in Nat, l \in Nat : k = Len(r) /\ l = Len(t)
  BY LenProperties
<1>2. r \in Seq(S)
  OBVIOUS
<1>3. /\ e \in Seq(S) /\ Len(e) = k + l
      /\ \A i \in 1 .. k : e[i] = r[i]
      /\ \A i \in 1 .. l : e[k + i] = t[i]
  BY <1>1, <1>2
<1>4. DOMAIN e = 1 .. k + l
  BY <1>3, LenProperties
<1> DEFINE Places == {Len(e) + 1} \cup {i \in DOMAIN e : e[i] \notin P}
<1>5. Places \subseteq Nat /\ Places # {} /\ k + l + 1 \in Places
  BY <1>3, <1>4
<1>6. PICK s : s = Stop(P, e) /\ s \in Places /\ \A i \in Places : s <= i
  <2>1. Stop(P, e) = Min(Places)
    BY Zenon DEF Stop
  <2> HIDE DEF Places
  <2> QED  BY <1>5, <2>1, LeastOf
<1>7. \A i \in 1 .. k : e[i] \in P
  BY <1>1, <1>3
<1>8. s \in Nat /\ s >= k + 1 /\ s <= k + l + 1
  <2>1. s <= k + l + 1 /\ s \in Nat
    <3> HIDE DEF Places
    <3> QED  BY <1>5, <1>6
  <2>2. s = Len(e) + 1 \/ (s \in DOMAIN e /\ e[s] \notin P)
    BY <1>6
  <2>3. s \notin 1 .. k \/ e[s] \in P
    BY <1>7
  <2> HIDE DEF Places
  <2>4. s = k + l + 1 \/ s \notin 1 .. k
    BY <1>3, <2>2, <2>3
  <2>5. s # 0
    BY <1>3, <1>4, <2>2
  <2> QED  BY <2>1, <2>4, <2>5
<1>9. IsPrefix(r, SubSeq(e, 1, s - 1))
  <2>1. s - 1 \in 0 .. Len(e)
    BY <1>3, <1>8
  <2>2. SubSeq(e, 1, s - 1) \in Seq(S) /\ Len(SubSeq(e, 1, s - 1)) = s - 1
        /\ \A i \in 1 .. s - 1 : SubSeq(e, 1, s - 1)[i] = e[i]
    BY <1>3, <1>8, <2>1
  <2>3. PICK u \in Seq(S) : u = SubSeq(e, 1, s - 1) /\ Len(u) = s - 1 /\ \A i \in 1 .. s - 1 : u[i] = e[i]
    BY <2>2
  <2>4. \A i \in 1 .. k : u[i] = r[i]
    BY <1>3, <1>8, <2>3
  <2>5. SubSeq(r, 1, k) = SubSeq(u, 1, k)
    BY <1>1, <1>2, <1>8, <2>3, <2>4
  <2>6. Len(r) <= Len(u) /\ SubSeq(r, 1, Len(r)) = SubSeq(u, 1, Len(r))
    BY <1>1, <1>8, <2>3, <2>5
  <2> QED  BY <2>3, <2>6 DEF IsPrefix
<1>10. RunsInFront(P, e, r)
  <2>1. s \in 1 .. Len(e) + 1 /\ Len(r) \in 0 .. s - 1
    BY <1>1, <1>3, <1>8
  <2> QED  BY <1>6, <1>9, <2>1, Zenon DEF RunsInFront
<1>11. ASSUME t # << >>, t[1] \notin P PROVE AtFront(P, e, r, t)
  <2>1. l >= 1
    BY <1>1, <1>11
  <2>2. k + 1 \in DOMAIN e /\ e[k + 1] = t[1]
    BY <1>3, <1>4, <2>1
  <2>3. k + 1 \in Places
    BY <1>11, <2>2
  <2>4. s = k + 1
    <3> HIDE DEF Places
    <3> QED  BY <1>6, <1>8, <2>3
  <2>5. Len(r) = s - 1
    BY <1>1, <2>4
  <2> QED  BY <1>6, <2>2, <2>4, <2>5, Zenon DEF AtFront
<1> QED  BY <1>10, <1>11, Zenon
\* If what comes next cannot run, all of that has run.
LEMMA UpToFront ==
  ASSUME NEW S, NEW P, P \subseteq S, NEW r \in Seq(P), NEW t \in Seq(S), NEW e, e = r \o t,
         t # << >>, t[1] \notin P
  PROVE  AtFront(P, e, r, t)
BY InFront

(***************************************************************************)
(* What the words lead to                                                  *)
(***************************************************************************)

\* The names that have a meaning in a call, and those its lists have.
WordsOf(col) == (Primitives \cup DOMAIN col) \cup UNION {Range(col[n]) : n \in DOMAIN col}
AllWords == WordsOf(colon)

\* Those, and the mark for a list that is nested too deep.
Texts == AllWords \cup {"..."}

\* The colon words have lists of words.
Coded == \A n \in DOMAIN colon : IsWordList(colon[n])

\* g gives the words that each name leads to, as Expansion spells them out.
Tells(g) ==
  \A n \in AllWords, d \in 0 .. MaxDepth :
    /\ g[<<d, n>>] \in Seq(Texts)
    /\ n \notin DOMAIN colon => g[<<d, n>>] = <<n>>
    /\ n \in DOMAIN colon /\ d = 0 => g[<<d, n>>] = <<"...">>
    /\ n \in DOMAIN colon /\ d # 0 =>
         g[<<d, n>>] = FlattenSeq([i \in DOMAIN colon[n] |-> g[<<d - 1, colon[n][i]>>]])

\* The words of a list are words; none is the mark.
LEMMA ListsHaveWords ==
  ASSUME Coded
  PROVE  /\ \A n \in DOMAIN colon : /\ colon[n] \in Seq(AllWords) /\ Len(colon[n]) \in Nat
                                    /\ DOMAIN colon[n] = 1 .. Len(colon[n])
         /\ \A w \in AllWords : w \in Names \/ w # "..."
<1>1. ASSUME NEW n \in DOMAIN colon
      PROVE  /\ colon[n] \in Seq(AllWords) /\ Len(colon[n]) \in Nat
             /\ DOMAIN colon[n] = 1 .. Len(colon[n])
  <2>1. PICK c : c = colon[n] /\ c \in Seq(Range(c))
    BY DEF Coded, IsWordList
  <2>2. Len(c) \in Nat /\ DOMAIN c = 1 .. Len(c)
    BY <2>1, LenProperties
  <2>3. Range(c) \subseteq AllWords
    BY <2>1 DEF AllWords, WordsOf
  <2>4. c \in Seq(AllWords)
    BY <2>1, <2>3
  <2> QED  BY <2>1, <2>2, <2>4
<1>2. \A w \in AllWords : w \in Names \/ w # "..."
  BY DEF AllWords, WordsOf, Names, Coded, IsWordList
<1> QED  BY <1>1, <1>2

\* The function that Expansion takes the words of a call from.
From(col) ==
  LET all == WordsOf(col)
      from[p \in (0 .. MaxDepth) \X all] ==
        IF p[2] \notin DOMAIN col THEN <<p[2]>>
        ELSE IF p[1] = 0 THEN <<"...">>
        ELSE FlattenSeq([i \in DOMAIN col[p[2]] |-> from[<<p[1] - 1, col[p[2]][i]>>]])
  IN  from

\* Expansion is what it gives for the word that was called, all depths left.
LEMMA ExpansionIs == Expansion = From(colon)[<<MaxDepth, called>>]
BY Zenon DEF Expansion, From, WordsOf, Names

\* It exists.
LEMMA Expands == Coded => Tells(From(colon))
<1> SUFFICES ASSUME Coded PROVE Tells(From(colon))
  OBVIOUS
<1> DEFINE pairs == (0 .. MaxDepth) \X AllWords
           body(g, p) == IF p[2] \notin DOMAIN colon THEN <<p[2]>>
                         ELSE IF p[1] = 0 THEN <<"...">>
                         ELSE FlattenSeq([i \in DOMAIN colon[p[2]] |-> g[<<p[1] - 1, colon[p[2]][i]>>]])
           Eqn(g) == g = [p \in pairs |-> body(g, p)]
           from == CHOOSE g : Eqn(g)
           T == [AllWords -> Seq(Texts)]
           base == [n \in AllWords |-> IF n \notin DOMAIN colon THEN <<n>> ELSE <<"...">>]
           above(x, n) == FlattenSeq([i \in DOMAIN colon[n] |-> x[colon[n][i]]])
           step == [k \in 1 .. MaxDepth + 1 |-> [x \in T |->
                      [n \in AllWords |-> IF n \notin DOMAIN colon THEN <<n>> ELSE above(x, n)]]]
<1>1. From(colon) = from
  BY Zenon DEF From, AllWords
<1>2. MaxDepth \in Nat
  BY ForthAssumption
<1>3. "..." \in Texts /\ \A n \in AllWords : n \in Texts
  BY DEF Texts
<1>4. base \in T
  BY <1>3
<1>5. ASSUME NEW x \in T, NEW n \in DOMAIN colon
      PROVE  above(x, n) \in Seq(Texts)
  <2>1. PICK c \in Seq(AllWords), l \in Nat : c = colon[n] /\ l = Len(c) /\ DOMAIN c = 1 .. l
    BY ListsHaveWords
  <2>2. [i \in DOMAIN c |-> x[c[i]]] \in [1 .. l -> Seq(Texts)]
    BY <2>1
  <2>3. PICK parts \in [1 .. l -> Seq(Texts)] : parts = [i \in DOMAIN colon[n] |-> x[colon[n][i]]]
    BY <2>1, <2>2
  <2>4. FlattenSeq(parts) \in Seq(Texts)
    BY <2>1, <2>3, FlattenSequences, Zenon
  <2> QED  BY <2>3, <2>4, Zenon
<1>6. step \in [1 .. MaxDepth + 1 -> [T -> T]]
  <2>1. ASSUME NEW x \in T
        PROVE  [n \in AllWords |-> IF n \notin DOMAIN colon THEN <<n>> ELSE above(x, n)] \in T
    <3> HIDE DEF above
    <3>1. \A n \in AllWords : (IF n \notin DOMAIN colon THEN <<n>> ELSE above(x, n)) \in Seq(Texts)
      BY <1>3, <1>5
    <3> QED  BY <3>1
  <2> HIDE DEF above, T
  <2> QED  BY <2>1
<1>7. PICK h \in [1 .. MaxDepth + 1 -> T] : Follows(h, MaxDepth + 1, base, step)
  <2>1. MaxDepth + 1 \in Nat
    BY <1>2
  <2> HIDE DEF T, base, step
  <2> QED  BY <1>4, <1>6, <2>1, StepwiseFunction, Zenon
<1> DEFINE g == [p \in pairs |-> h[p[1] + 1][p[2]]]
<1>8. ASSUME NEW d \in 0 .. MaxDepth, NEW n \in AllWords
      PROVE  g[<<d, n>>] = body(g, <<d, n>>)
  <2>1. g[<<d, n>>] = h[d + 1][n]
    OBVIOUS
  <2>2. CASE d = 0
    <3>1. h[1] = base
      <4>1. 1 \in 1 .. MaxDepth + 1
        BY <1>2
      <4> HIDE DEF base, step, T
      <4> QED  BY <1>7, <4>1, Zenon DEF Follows
    <3>2. h[d + 1][n] = base[n]
      BY <2>2, <3>1
    <3> HIDE DEF g
    <3> QED  BY <2>1, <2>2, <3>2
  <2>3. CASE d # 0
    <3>1. PICK x \in T : x = h[d] /\ h[d + 1] = step[d + 1][x]
      <4>1. d \in 1 .. MaxDepth + 1 /\ d + 1 \in 1 .. MaxDepth + 1 /\ d + 1 # 1 /\ d + 1 - 1 = d
        BY <1>2, <2>3
      <4>2. h[d] \in T
        BY <4>1
      <4> HIDE DEF T, step, base
      <4> QED  BY <1>7, <4>1, <4>2 DEF Follows
    <3>2. h[d + 1][n] = IF n \notin DOMAIN colon THEN <<n>> ELSE above(x, n)
      <4>1. d + 1 \in 1 .. MaxDepth + 1
        BY <1>2
      <4>2. step[d + 1] = [y \in T |->
               [m \in AllWords |-> IF m \notin DOMAIN colon THEN <<m>> ELSE above(y, m)]]
        BY <4>1, Zenon
      <4> HIDE DEF above, T, step
      <4> QED  BY <3>1, <4>2
    <3>3. CASE n \notin DOMAIN colon
      <4> HIDE DEF g, above
      <4> QED  BY <2>1, <3>2, <3>3
    <3>4. CASE n \in DOMAIN colon
      <4>1. PICK c \in Seq(AllWords), l \in Nat : c = colon[n] /\ l = Len(c) /\ DOMAIN c = 1 .. l
        BY <3>4, ListsHaveWords
      <4>2. ASSUME NEW i \in DOMAIN c PROVE x[c[i]] = g[<<d - 1, c[i]>>]
        <5>1. c[i] \in AllWords /\ d - 1 \in 0 .. MaxDepth /\ d - 1 + 1 = d
          BY <1>2, <4>1, <2>3
        <5>2. g[<<d - 1, c[i]>>] = h[d][c[i]]
          BY <5>1
        <5> QED  BY <3>1, <5>2
      <4>3. [i \in DOMAIN c |-> x[c[i]]] = [i \in DOMAIN c |-> g[<<d - 1, c[i]>>]]
        <5> HIDE DEF g
        <5> QED  BY <4>2
      <4>4. above(x, n) = FlattenSeq([i \in DOMAIN c |-> g[<<d - 1, c[i]>>]])
        BY <4>1, <4>3, Zenon
      <4>5. body(g, <<d, n>>) = FlattenSeq([i \in DOMAIN c |-> g[<<d - 1, c[i]>>]])
        <5> HIDE DEF g
        <5> QED  BY <2>3, <3>4, <4>1
      <4> HIDE DEF g, above, body
      <4> QED  BY <2>1, <3>2, <3>4, <4>4, <4>5
    <3> QED  BY <3>3, <3>4
  <2> QED  BY <2>2, <2>3
<1>9. Eqn(g)
  <2>1. \A p \in pairs : g[p] = body(g, p)
    <3> SUFFICES ASSUME NEW p \in pairs PROVE g[p] = body(g, p)
      OBVIOUS
    <3>1. PICK d \in 0 .. MaxDepth, n \in AllWords : p = <<d, n>>
      OBVIOUS
    <3> HIDE DEF g, body
    <3> QED  BY <1>8, <3>1
  <2>2. g = [p \in pairs |-> g[p]]
    OBVIOUS
  <2> HIDE DEF g, body, pairs
  <2> QED  BY <2>1, <2>2
<1>10. Eqn(from)
  <2> HIDE DEF Eqn, g
  <2> QED  BY <1>9
<1>11. ASSUME NEW d \in 0 .. MaxDepth, NEW n \in AllWords
       PROVE  from[<<d, n>>] = body(from, <<d, n>>)
  <2>1. <<d, n>> \in pairs
    OBVIOUS
  <2> HIDE DEF from, body, pairs
  <2> QED  BY <1>10, <2>1
<1>12. ASSUME NEW d \in 0 .. MaxDepth, NEW n \in AllWords
       PROVE  /\ n \notin DOMAIN colon => from[<<d, n>>] = <<n>>
              /\ n \in DOMAIN colon /\ d = 0 => from[<<d, n>>] = <<"...">>
              /\ n \in DOMAIN colon /\ d # 0 =>
                   from[<<d, n>>] = FlattenSeq([i \in DOMAIN colon[n] |-> from[<<d - 1, colon[n][i]>>]])
  <2> HIDE DEF from
  <2> QED  BY <1>11
<1> HIDE DEF from, Eqn, body, g, step, base, above, T, pairs
<1> DEFINE Good == {d \in Nat : d <= MaxDepth => \A n \in AllWords : from[<<d, n>>] \in Seq(Texts)}
<1>13. 0 \in Good
  <2>1. ASSUME NEW n \in AllWords PROVE from[<<0, n>>] \in Seq(Texts)
    <3>1. 0 \in 0 .. MaxDepth /\ n \in Texts
      BY <1>2, <1>3
    <3>2. from[<<0, n>>] = <<n>> \/ from[<<0, n>>] = <<"...">>
      BY <1>12, <3>1, Zenon
    <3>3. <<n>> \in Seq(Texts) /\ <<"...">> \in Seq(Texts)
      BY <1>3
    <3> QED  BY <3>2, <3>3, Zenon
  <2> QED  BY <2>1
<1>14. ASSUME NEW d \in Good PROVE d + 1 \in Good
  <2>1. ASSUME d + 1 <= MaxDepth, NEW n \in AllWords PROVE from[<<d + 1, n>>] \in Seq(Texts)
    <3>1. d \in Nat /\ d + 1 \in 0 .. MaxDepth /\ d + 1 # 0 /\ d + 1 - 1 = d /\ d <= MaxDepth
      BY <1>2, <2>1
    <3>2. CASE n \notin DOMAIN colon
      <4>1. from[<<d + 1, n>>] = <<n>>
        BY <1>12, <3>1, <3>2, Zenon
      <4>2. <<n>> \in Seq(Texts)
        BY <1>3
      <4> QED  BY <4>1, <4>2, Zenon
    <3>3. CASE n \in DOMAIN colon
      <4>1. PICK c \in Seq(AllWords), l \in Nat : c = colon[n] /\ l = Len(c) /\ DOMAIN c = 1 .. l
        BY <3>3, ListsHaveWords
      <4>2. from[<<d + 1, n>>] = FlattenSeq([i \in DOMAIN c |-> from[<<d, c[i]>>]])
        <5>1. PICK e \in 0 .. MaxDepth : e = d + 1 /\ e # 0 /\ e - 1 = d
          BY <3>1
        <5>2. from[<<e, n>>] = FlattenSeq([i \in DOMAIN colon[n] |-> from[<<e - 1, colon[n][i]>>]])
          BY <1>12, <3>3, <5>1, Zenon
        <5> QED  BY <4>1, <5>1, <5>2, Zenon
      <4>3. \A m \in AllWords : from[<<d, m>>] \in Seq(Texts)
        BY <3>1
      <4>4. PICK parts \in [1 .. l -> Seq(Texts)] : parts = [i \in DOMAIN c |-> from[<<d, c[i]>>]]
        <5>1. \A i \in DOMAIN c : c[i] \in AllWords
          BY <4>1
        <5>2. \A i \in DOMAIN c : from[<<d, c[i]>>] \in Seq(Texts)
          BY <4>3, <5>1, Zenon
        <5>3. [i \in DOMAIN c |-> from[<<d, c[i]>>]] \in [DOMAIN c -> Seq(Texts)]
          BY <5>2, Zenon
        <5> QED  BY <4>1, <5>3, Zenon
      <4>5. FlattenSeq(parts) \in Seq(Texts)
        BY <4>1, <4>4, FlattenSequences, Zenon
      <4> QED  BY <4>2, <4>4, <4>5, Zenon
    <3> QED  BY <3>2, <3>3
  <2>2. d + 1 \in Nat
    OBVIOUS
  <2> QED  BY <2>1, <2>2
<1>15. Good = Nat
  <2>1. Good \subseteq Nat
    OBVIOUS
  <2> HIDE DEF Good
  <2> QED  BY <1>13, <1>14, <2>1, NaturalInduction
<1>16. \A d \in 0 .. MaxDepth, n \in AllWords : from[<<d, n>>] \in Seq(Texts)
  <2> SUFFICES ASSUME NEW d \in 0 .. MaxDepth, NEW n \in AllWords PROVE from[<<d, n>>] \in Seq(Texts)
    OBVIOUS
  <2>1. d \in Nat /\ d <= MaxDepth
    BY <1>2
  <2>2. d \in Good
    <3> HIDE DEF Good
    <3> QED  BY <1>15, <2>1
  <2> QED  BY <2>1, <2>2
<1>17. Tells(from)
  <2> HIDE DEF Good
  <2> QED  BY <1>12, <1>16, Zenon DEF Tells
<1> QED  BY <1>1, <1>17, Zenon

(***************************************************************************)
(* What the lists of a call have still to run                              *)
(***************************************************************************)

\* What the words of c from the a-th on lead to, nested d deep.
Rest(g, d, c, a) == FlattenSeq([i \in 1 .. Len(c) - a + 1 |-> g[<<d, c[a + i - 1]>>]])

\* the next word of c leads to the first part of it
Unrolls(S, W, g, d, c, a) ==
  /\ c[a] \in W /\ Rest(g, d, c, a + 1) \in Seq(S)
  /\ Rest(g, d, c, a) = g[<<d, c[a]>>] \o Rest(g, d, c, a + 1)

\* It is nothing at the end of c, and else what the next word leads to and the rest.
LEMMA RestOfList ==
  ASSUME NEW S, NEW W, NEW c \in Seq(W), NEW g, NEW d, \A w \in W : g[<<d, w>>] \in Seq(S),
         NEW a \in 1 .. Len(c) + 1
  PROVE  /\ Rest(g, d, c, a) \in Seq(S)
         /\ a > Len(c) => Rest(g, d, c, a) = << >>
         /\ a <= Len(c) => Unrolls(S, W, g, d, c, a)
<1>1. PICK l \in Nat : l = Len(c) /\ a \in 1 .. l + 1
  BY LenProperties
<1>2. \A i \in 1 .. l : c[i] \in W
  BY <1>1
<1> DEFINE parts(b) == [i \in 1 .. l - b + 1 |-> g[<<d, c[b + i - 1]>>]]
<1>3. \A b : Rest(g, d, c, b) = FlattenSeq(parts(b))
  BY <1>1, Zenon DEF Rest
<1>4. ASSUME NEW b \in 1 .. l + 1
      PROVE  parts(b) \in [1 .. l - b + 1 -> Seq(S)] /\ l - b + 1 \in Nat
  <2>1. ASSUME NEW i \in 1 .. l - b + 1 PROVE g[<<d, c[b + i - 1]>>] \in Seq(S)
    <3>1. b + i - 1 \in 1 .. l
      BY <1>1, <1>4
    <3>2. c[b + i - 1] \in W
      BY <1>2, <3>1
    <3> QED  BY <3>2, Zenon
  <2>2. l - b + 1 \in Nat
    BY <1>1, <1>4
  <2> QED  BY <2>1, <2>2
<1>5. ASSUME NEW b \in 1 .. l + 1
      PROVE  Rest(g, d, c, b) \in Seq(S)
  <2> HIDE DEF parts
  <2> QED  BY <1>3, <1>4, <1>5, FlattenSequences, Zenon
<1>6. Rest(g, d, c, a) \in Seq(S)
  BY <1>1, <1>5
<1>7. ASSUME a > l PROVE Rest(g, d, c, a) = << >>
  <2>1. a = l + 1 /\ l - a + 1 = 0
    BY <1>1, <1>7
  <2>2. parts(a) = << >>
    BY <2>1
  <2> HIDE DEF parts
  <2> QED  BY <1>3, <2>2, FlattenNone, Zenon
<1>8. ASSUME a <= l
      PROVE  /\ c[a] \in W /\ Rest(g, d, c, a + 1) \in Seq(S)
             /\ Rest(g, d, c, a) = g[<<d, c[a]>>] \o Rest(g, d, c, a + 1)
  <2>1. PICK b \in 1 .. l + 1, n \in Nat, m \in Nat :
          b = a + 1 /\ n = l - b + 1 /\ m = l - a + 1 /\ m = n + 1
    <3>1. a + 1 \in 1 .. l + 1 /\ l - (a + 1) + 1 \in Nat /\ l - a + 1 \in Nat
          /\ l - a + 1 = l - (a + 1) + 1 + 1
      BY <1>1, <1>8
    <3> QED  BY <3>1
  <2>2. parts(a) \in [1 .. m -> Seq(S)] /\ parts(b) \in [1 .. n -> Seq(S)]
    <3> HIDE DEF parts
    <3> QED  BY <1>1, <1>4, <2>1
  <2>3. ASSUME NEW i \in 1 .. n PROVE parts(b)[i] = parts(a)[i + 1]
    <3>1. i \in 1 .. l - b + 1 /\ i + 1 \in 1 .. l - a + 1 /\ b + i - 1 = a + (i + 1) - 1
      BY <1>1, <2>1
    <3> QED  BY <3>1
  <2>4. parts(a)[1] = g[<<d, c[a]>>]
    <3>1. 1 \in 1 .. l - a + 1 /\ a + 1 - 1 = a
      BY <1>1, <1>8
    <3> QED  BY <3>1
  <2>5. FlattenSeq(parts(a)) = parts(a)[1] \o FlattenSeq(parts(b))
    <3> HIDE DEF parts
    <3>1. PICK p \in [1 .. m -> Seq(S)], o \in [1 .. n -> Seq(S)] : p = parts(a) /\ o = parts(b)
      BY <2>2
    <3>2. \A i \in 1 .. n : o[i] = p[i + 1]
      BY <2>3, <3>1, Zenon
    <3>3. FlattenSeq(p) = p[1] \o FlattenSeq(o)
      <4>1. Shifted(p, m, o, n)
        BY <2>1, <3>2, Zenon DEF Shifted
      <4>2. Prepended(p, o)
        BY <2>1, <3>1, <4>1, FlattenFront, Zenon
      <4> QED  BY <4>2, Zenon DEF Prepended
    <3> QED  BY <3>1, <3>3, Zenon
  <2>6. c[a] \in W
    BY <1>1, <1>2, <1>8
  <2> HIDE DEF parts
  <2> QED  BY <1>3, <1>5, <2>1, <2>4, <2>5, <2>6, Zenon
<1>9. a <= l => Unrolls(S, W, g, d, c, a)
  BY <1>8, Zenon DEF Unrolls
<1> HIDE DEF parts
<1> QED  BY <1>1, <1>6, <1>7, <1>9

\* What comes of a whole list.
LEMMA RestOfAll ==
  ASSUME NEW W, NEW c \in Seq(W), NEW g, NEW d
  PROVE  Rest(g, d, c, 1) = FlattenSeq([i \in DOMAIN c |-> g[<<d, c[i]>>]])
<1>1. PICK l \in Nat : l = Len(c) /\ DOMAIN c = 1 .. l
  BY LenProperties
<1>2. l - 1 + 1 = l
  OBVIOUS
<1>3. [i \in 1 .. l |-> g[<<d, c[1 + i - 1]>>]] = [i \in 1 .. l |-> g[<<d, c[i]>>]]
  OBVIOUS
<1> QED  BY <1>1, <1>2, <1>3, Zenon DEF Rest

\* An element of a sequence.
LEMMA SequenceElement == ASSUME NEW R, NEW f \in Seq(R), NEW n \in 1 .. Len(f) PROVE f[n] \in R
OBVIOUS

\* A sequence is a function.
LEMMA SequenceAsFunction ==
  ASSUME NEW R, NEW f \in Seq(R), NEW n \in Nat, Len(f) = n
  PROVE  f \in [1 .. n -> R]
BY LenProperties

\* An element of a sequence is replaced.
LEMMA ElementReplaced ==
  ASSUME NEW R, NEW f \in Seq(R), NEW n \in 1 .. Len(f), NEW v \in R
  PROVE  LET h == [f EXCEPT ![n] = v] IN h \in Seq(R) /\ Len(h) = Len(f)
BY ExceptSeq

\* a list of W that is being run
ListsOf(W) == [code : Seq(W), at : Nat]

\* where the list at level k goes on once the lists inside it are done
Ahead(f, k) == IF k < Len(f) THEN f[k].at + 1 ELSE f[k].at

\* The lists being run are lists of W, each at a word of its own or at its end.
WellRun(W, f) ==
  /\ f \in Seq(ListsOf(W))
  /\ \A k \in 1 .. Len(f) : Ahead(f, k) \in 1 .. Len(f[k].code) + 1

\* left[k] is what the lists up to level k have still to run, once the lists
\* inside the k-th are done.
Pending(S, g, f, left) ==
  /\ left \in [0 .. Len(f) -> Seq(S)]
  /\ left[0] = << >>
  /\ \A k \in 1 .. Len(f) :
       left[k] = Rest(g, MaxDepth + 1 - k, f[k].code, Ahead(f, k)) \o left[k - 1]

\* g gives sequences for the words of W at every depth.
Typed(S, W, g) == \A d \in 0 .. MaxDepth, w \in W : g[<<d, w>>] \in Seq(S)

\* Where the innermost list is: at one of its words, or at its end.
LEMMA PlaceInList ==
  ASSUME NEW W, NEW f, WellRun(W, f), NEW n \in Nat, n # 0, n = Len(f),
         NEW a, a = f[n].at, NEW c, c = f[n].code
  PROVE  c \in Seq(W) /\ a \in Nat /\ a \in 1 .. Len(c) + 1
<1>1. f[n] \in ListsOf(W)
  <2>1. f \in Seq(ListsOf(W))
    BY DEF WellRun
  <2>2. n \in 1 .. Len(f)
    OBVIOUS
  <2> QED  BY <2>1, <2>2, SequenceElement, Zenon
<1>2. Ahead(f, n) = a /\ Ahead(f, n) \in 1 .. Len(f[n].code) + 1
  BY DEF WellRun, Ahead
<1> QED  BY <1>1, <1>2, LenProperties DEF ListsOf

\* f is at place a of its innermost list c, which is at level n
Level(S, W, g, f, left, n, a, c) ==
  /\ Typed(S, W, g) /\ WellRun(W, f) /\ Pending(S, g, f, left)
  /\ n \in 1 .. MaxDepth + 1 /\ n = Len(f) /\ a = f[n].at /\ c = f[n].code

\* h is at level k, with l left
Resumes(S, W, g, h, k, l) ==
  WellRun(W, h) /\ Len(h) = k /\ \E more : Pending(S, g, h, more) /\ more[k] = l

\* what is left behind the word at hand
Behind(g, d, c, a, left, n) == Rest(g, d, c, a + 1) \o left[n - 1]

\* of what is left at level n the word at hand leads to the first part
ComesNext(S, g, d, c, a, left, n) ==
  /\ g[<<d, c[a]>>] \in Seq(S) /\ left[n - 1] \in Seq(S)
  /\ Behind(g, d, c, a, left, n) \in Seq(S)
  /\ left[n] = g[<<d, c[a]>>] \o Behind(g, d, c, a, left, n)

\* The word at hand: what it leads to comes next, and then what is left behind it.
LEMMA WordAtHand ==
  ASSUME NEW S, NEW W, NEW g, NEW f, NEW left, NEW n, NEW a, NEW c, Level(S, W, g, f, left, n, a, c),
         NEW d, d = MaxDepth + 1 - n, a <= Len(c)
  PROVE  c[a] \in W /\ ComesNext(S, g, d, c, a, left, n)
<1>0. /\ Typed(S, W, g) /\ WellRun(W, f) /\ Pending(S, g, f, left)
      /\ n \in 1 .. MaxDepth + 1 /\ n = Len(f) /\ a = f[n].at /\ c = f[n].code
  BY DEF Level
<1> USE <1>0
<1>1. d \in 0 .. MaxDepth
  BY ForthAssumption
<1>2. c \in Seq(W) /\ a \in Nat /\ a \in 1 .. Len(c) + 1 /\ Len(c) \in Nat
  BY PlaceInList, LenProperties
<1>3. \A w \in W : g[<<d, w>>] \in Seq(S)
  BY <1>1, Zenon DEF Typed
<1>4. /\ c[a] \in W /\ Rest(g, d, c, a + 1) \in Seq(S)
      /\ Rest(g, d, c, a) = g[<<d, c[a]>>] \o Rest(g, d, c, a + 1)
  <2>1. Unrolls(S, W, g, d, c, a)
    BY <1>2, <1>3, RestOfList
  <2> QED  BY <2>1, Zenon DEF Unrolls
<1>5. left[n - 1] \in Seq(S)
  <2>1. left \in [0 .. n -> Seq(S)] /\ n - 1 \in 0 .. n
    BY ForthAssumption DEF Pending
  <2> QED  BY <2>1
<1>6. left[n] = Rest(g, d, c, a) \o left[n - 1]
  <2>1. n \in 1 .. Len(f) /\ ~(n < Len(f))
    OBVIOUS
  <2>2. left[n] = Rest(g, MaxDepth + 1 - n, f[n].code, Ahead(f, n)) \o left[n - 1]
    BY <2>1, Zenon DEF Pending
  <2>3. Ahead(f, n) = a
    BY <2>1, Zenon DEF Ahead
  <2> QED  BY <2>2, <2>3, Zenon
<1>7. g[<<d, c[a]>>] \in Seq(S)
  BY <1>3, <1>4, Zenon
<1>8. Joins(g[<<d, c[a]>>], Rest(g, d, c, a + 1), left[n - 1])
  BY <1>4, <1>5, <1>7, JoinsAll, Zenon
<1>9. left[n] = g[<<d, c[a]>>] \o (Rest(g, d, c, a + 1) \o left[n - 1])
  BY <1>4, <1>6, <1>8, Zenon DEF Joins
<1>10. Rest(g, d, c, a + 1) \o left[n - 1] \in Seq(S)
  BY <1>4, <1>5, ConcatProperties
<1> QED  BY <1>4, <1>5, <1>7, <1>9, <1>10, Zenon DEF ComesNext, Behind

\* On to the next word of the innermost list: f as Proceed leaves it.
LEMMA OnwardPending ==
  ASSUME NEW S, NEW W, NEW g, NEW f, NEW left, NEW n, NEW a, NEW c, Level(S, W, g, f, left, n, a, c),
         NEW d, d = MaxDepth + 1 - n, a <= Len(c),
         NEW h, h = [f EXCEPT ![n].at = @ + 1]
  PROVE  Resumes(S, W, g, h, n, Behind(g, d, c, a, left, n))
<1>0. /\ Typed(S, W, g) /\ WellRun(W, f) /\ Pending(S, g, f, left)
      /\ n \in 1 .. MaxDepth + 1 /\ n = Len(f) /\ a = f[n].at /\ c = f[n].code
  BY DEF Level
<1> USE <1>0
<1>1. d = MaxDepth + 1 - n
  OBVIOUS
<1>2. PICK r \in Seq(S) : r = Rest(g, d, c, a + 1) \o left[n - 1]
  <2>1. ComesNext(S, g, d, c, a, left, n)
    BY WordAtHand, Zenon
  <2> QED  BY <2>1, Zenon DEF ComesNext, Behind
<1>3. a \in 1 .. Len(c) /\ Len(c) \in Nat /\ c \in Seq(W)
  <2>1. a \in 1 .. Len(c) + 1 /\ a \in Nat /\ c \in Seq(W)
    BY PlaceInList
  <2> QED  BY <2>1, LenProperties
<1>4. f \in [1 .. n -> ListsOf(W)]
  <2>1. f \in Seq(ListsOf(W)) /\ n \in Nat
    BY DEF WellRun
  <2> QED  BY <2>1, SequenceAsFunction, Zenon
<1>5. f[n] \in ListsOf(W)
  BY <1>4
<1>6. PICK v \in ListsOf(W) : v = [f[n] EXCEPT !.at = @ + 1] /\ v.code = c /\ v.at = a + 1
  BY <1>5 DEF ListsOf
<1>7. h = [f EXCEPT ![n] = v]
  BY <1>6
<1>8. h \in [1 .. n -> ListsOf(W)]
  BY <1>4, <1>6, <1>7
<1>9. h \in Seq(ListsOf(W)) /\ Len(h) = n
  <2>1. f \in Seq(ListsOf(W)) /\ v \in ListsOf(W) /\ n \in 1 .. Len(f)
    BY <1>6 DEF WellRun
  <2>2. [f EXCEPT ![n] = v] \in Seq(ListsOf(W)) /\ Len([f EXCEPT ![n] = v]) = Len(f)
    BY <2>1, ElementReplaced
  <2> QED  BY <1>7, <2>2, Zenon
<1>10. h[n] = v /\ \A k \in 1 .. n : k # n => h[k] = f[k]
  BY <1>4, <1>7
<1>11. Ahead(h, n) = a + 1 /\ h[n].code = c
  BY <1>6, <1>9, <1>10 DEF Ahead
<1>12. ASSUME NEW k \in 1 .. n, k # n PROVE Ahead(h, k) = Ahead(f, k) /\ h[k].code = f[k].code
  BY <1>9, <1>10, <1>12 DEF Ahead
<1>13. WellRun(W, h)
  <2>1. ASSUME NEW k \in 1 .. n PROVE Ahead(h, k) \in 1 .. Len(h[k].code) + 1
    <3>1. CASE k = n
      BY <1>3, <1>11, <3>1
    <3>2. CASE k # n
      BY <1>12, <3>2 DEF WellRun
    <3> QED  BY <3>1, <3>2
  <2> QED  BY <1>9, <2>1 DEF WellRun
<1> DEFINE more == [left EXCEPT ![n] = r]
<1>14. more \in [0 .. n -> Seq(S)] /\ more[n] = r /\ \A k \in 0 .. n : k # n => more[k] = left[k]
  BY DEF Pending
<1> HIDE DEF more
<1>15. more[0] = << >>
  <2>1. 0 \in 0 .. n /\ 0 # n
    OBVIOUS
  <2> QED  BY <1>14, <2>1, Zenon DEF Pending
<1>16. ASSUME NEW k \in 1 .. n
       PROVE  more[k] = Rest(g, MaxDepth + 1 - k, h[k].code, Ahead(h, k)) \o more[k - 1]
  <2>1. k - 1 \in 0 .. n /\ k - 1 # n /\ k \in 0 .. n
    OBVIOUS
  <2>2. more[k - 1] = left[k - 1]
    BY <1>14, <2>1, Zenon
  <2>3. CASE k = n
    BY <1>1, <1>2, <1>11, <1>14, <2>2, <2>3, Zenon
  <2>4. CASE k # n
    <3>1. left[k] = Rest(g, MaxDepth + 1 - k, f[k].code, Ahead(f, k)) \o left[k - 1]
      BY DEF Pending
    <3> QED  BY <1>12, <1>14, <2>1, <2>2, <2>4, <3>1, Zenon
  <2> QED  BY <2>3, <2>4
<1>17. Pending(S, g, h, more)
  BY <1>9, <1>14, <1>15, <1>16 DEF Pending
<1> QED  BY <1>1, <1>2, <1>9, <1>13, <1>14, <1>17, Zenon DEF Resumes, Behind

\* A list that is begun.
LEMMA ListBegun == ASSUME NEW W, NEW e \in Seq(W) PROVE [code |-> e, at |-> 1] \in ListsOf(W)
BY DEF ListsOf

\* A list that is run goes on to its next word.
LEMMA ListOnward ==
  ASSUME NEW W, NEW l \in ListsOf(W), NEW v, v = [l EXCEPT !.at = @ + 1]
  PROVE  v \in ListsOf(W) /\ v.code = l.code /\ v.at = l.at + 1
BY DEF ListsOf

\* The sequence in front of the last element.
LEMMA FrontElements ==
  ASSUME NEW R, NEW f \in Seq(R), NEW m \in Nat, Len(f) = m + 1
  PROVE  Front(f) \in Seq(R) /\ Len(Front(f)) = m /\ \A k \in 1 .. m : Front(f)[k] = f[k]
<1>1. Front(f) = SubSeq(f, 1, m)
  BY DEF Front
<1>2. \A k \in 1 .. m : f[k] \in R
  OBVIOUS
<1> QED  BY <1>1, <1>2, SubSeqProperties

\* at level n the word w leads to what its list e leads to, one level further in
SpeltOut(g, n, w, e) == g[<<MaxDepth + 1 - n, w>>] = Rest(g, MaxDepth - n, e, 1)

\* Into the list of the word at hand: f as Enter leaves it.
LEMMA InwardPending ==
  ASSUME NEW S, NEW W, NEW g, NEW f, NEW left, NEW n, NEW a, NEW c, Level(S, W, g, f, left, n, a, c),
         a <= Len(c), ~(n > MaxDepth), NEW e \in Seq(W), SpeltOut(g, n, c[a], e),
         NEW h, h = Append(f, [code |-> e, at |-> 1]), NEW m, m = n + 1
  PROVE  Resumes(S, W, g, h, m, left[n])
<1>0. /\ Typed(S, W, g) /\ WellRun(W, f) /\ Pending(S, g, f, left)
      /\ n \in 1 .. MaxDepth + 1 /\ n = Len(f) /\ a = f[n].at /\ c = f[n].code
  BY DEF Level
<1> USE <1>0
<1>1. n \in 1 .. MaxDepth + 1 /\ MaxDepth \in Nat /\ n \in 1 .. MaxDepth
  BY ForthAssumption
<1>2. PICK r \in Seq(S) :
        /\ r = Rest(g, MaxDepth + 1 - n, c, a + 1) \o left[n - 1]
        /\ left[n] = Rest(g, MaxDepth - n, e, 1) \o r
        /\ Rest(g, MaxDepth - n, e, 1) \in Seq(S)
  <2>1. PICK d : d = MaxDepth + 1 - n
    OBVIOUS
  <2>2. ComesNext(S, g, d, c, a, left, n)
    BY <1>1, <2>1, WordAtHand, Zenon
  <2> QED  BY <2>1, <2>2, Zenon DEF SpeltOut, ComesNext, Behind
<1>3. a \in 1 .. Len(c) /\ Len(c) \in Nat /\ c \in Seq(W)
  <2>1. a \in 1 .. Len(c) + 1 /\ a \in Nat /\ c \in Seq(W)
    BY PlaceInList
  <2> QED  BY <2>1, LenProperties
<1>4. PICK v \in ListsOf(W) : v = [code |-> e, at |-> 1] /\ v.code = e /\ v.at = 1
  <2>1. PICK v : v = [code |-> e, at |-> 1]
    OBVIOUS
  <2>2. v \in ListsOf(W)
    BY <2>1, ListBegun, Zenon
  <2> QED  BY <2>1, <2>2
<1>5. h \in Seq(ListsOf(W)) /\ Len(h) = n + 1 /\ h[n + 1] = v /\ \A k \in 1 .. n : h[k] = f[k]
  <2>1. f \in Seq(ListsOf(W))
    BY DEF WellRun
  <2>2. h = Append(f, v)
    BY <1>4
  <2> QED  BY <1>4, <2>1, <2>2, AppendProperties
<1>6. Ahead(h, n + 1) = 1 /\ h[n + 1].code = e
  BY <1>4, <1>5 DEF Ahead
<1>7. Ahead(h, n) = a + 1 /\ h[n].code = c
  BY <1>5 DEF Ahead
<1>8. ASSUME NEW k \in 1 .. n, k # n PROVE Ahead(h, k) = Ahead(f, k) /\ h[k].code = f[k].code
  BY <1>5, <1>8 DEF Ahead
<1>9. WellRun(W, h)
  <2>1. ASSUME NEW k \in 1 .. n + 1 PROVE Ahead(h, k) \in 1 .. Len(h[k].code) + 1
    <3>1. CASE k = n + 1
      <4>1. Len(e) \in Nat
        BY LenProperties
      <4> QED  BY <1>6, <3>1, <4>1
    <3>2. CASE k = n
      BY <1>3, <1>7, <3>2
    <3>3. CASE k # n /\ k # n + 1
      BY <1>8, <3>3 DEF WellRun
    <3> QED  BY <3>1, <3>2, <3>3
  <2> QED  BY <1>5, <2>1 DEF WellRun
<1> DEFINE more == [k \in 0 .. n + 1 |-> IF k = n THEN r ELSE IF k = n + 1 THEN left[n] ELSE left[k]]
<1>10. /\ more \in [0 .. n + 1 -> Seq(S)] /\ more[n] = r /\ more[n + 1] = left[n]
       /\ \A k \in 0 .. n : k # n => more[k] = left[k]
  <2>1. \A k \in 0 .. n : left[k] \in Seq(S)
    BY DEF Pending
  <2>2. n \in 0 .. n + 1 /\ n + 1 \in 0 .. n + 1 /\ n + 1 # n
    OBVIOUS
  <2> QED  BY <2>1, <2>2
<1> HIDE DEF more
<1>11. more[0] = << >>
  <2>1. 0 \in 0 .. n /\ 0 # n
    OBVIOUS
  <2> QED  BY <1>10, <2>1, Zenon DEF Pending
<1>12. ASSUME NEW k \in 1 .. n + 1
       PROVE  more[k] = Rest(g, MaxDepth + 1 - k, h[k].code, Ahead(h, k)) \o more[k - 1]
  <2>1. CASE k = n + 1
    <3>1. MaxDepth + 1 - k = MaxDepth - n /\ k - 1 = n
      BY <1>1, <2>1
    <3> QED  BY <1>2, <1>6, <1>10, <2>1, <3>1, Zenon
  <2>2. CASE k = n
    <3>1. n - 1 \in 0 .. n /\ n - 1 # n
      OBVIOUS
    <3>2. more[n - 1] = left[n - 1]
      BY <1>10, <3>1, Zenon
    <3> QED  BY <1>2, <1>7, <1>10, <2>2, <3>2, Zenon
  <2>3. CASE k # n /\ k # n + 1
    <3>1. k \in 1 .. n /\ k \in 0 .. n /\ k - 1 \in 0 .. n /\ k - 1 # n
      BY <2>3
    <3>2. left[k] = Rest(g, MaxDepth + 1 - k, f[k].code, Ahead(f, k)) \o left[k - 1]
      BY <3>1 DEF Pending
    <3>3. more[k] = left[k] /\ more[k - 1] = left[k - 1]
      BY <1>10, <2>3, <3>1, Zenon
    <3>4. Ahead(h, k) = Ahead(f, k) /\ h[k].code = f[k].code
      BY <1>8, <2>3, <3>1, Zenon
    <3> QED  BY <3>2, <3>3, <3>4, Zenon
  <2> QED  BY <2>1, <2>2, <2>3
<1>13. Pending(S, g, h, more)
  BY <1>5, <1>10, <1>11, <1>12 DEF Pending
<1> QED  BY <1>5, <1>9, <1>10, <1>13, Zenon DEF Resumes

\* At its end the innermost list leads to nothing more.
LEMMA NothingAtEnd ==
  ASSUME NEW S, NEW W, NEW g, NEW f, NEW left, NEW n, NEW a, NEW c, Level(S, W, g, f, left, n, a, c),
         a > Len(c), NEW m, m = n - 1
  PROVE  left[n] = left[m] /\ left[n] \in Seq(S)
<1>0. /\ Typed(S, W, g) /\ WellRun(W, f) /\ Pending(S, g, f, left)
      /\ n \in 1 .. MaxDepth + 1 /\ n = Len(f) /\ a = f[n].at /\ c = f[n].code
  BY DEF Level
<1> USE <1>0
<1>1. PICK d \in 0 .. MaxDepth : d = MaxDepth + 1 - n
  <2>1. MaxDepth + 1 - n \in 0 .. MaxDepth
    BY ForthAssumption
  <2> QED  BY <2>1
<1>2. c \in Seq(W) /\ a \in 1 .. Len(c) + 1
  BY PlaceInList
<1>3. \A w \in W : g[<<d, w>>] \in Seq(S)
  BY Zenon DEF Typed
<1>4. Rest(g, d, c, a) = << >>
  BY <1>2, <1>3, RestOfList
<1>5. left[n] = Rest(g, d, c, a) \o left[n - 1]
  <2>1. n \in 1 .. Len(f) /\ ~(n < Len(f))
    OBVIOUS
  <2>2. left[n] = Rest(g, MaxDepth + 1 - n, f[n].code, Ahead(f, n)) \o left[n - 1]
    BY <2>1, Zenon DEF Pending
  <2>3. Ahead(f, n) = a
    BY <2>1, Zenon DEF Ahead
  <2> QED  BY <1>1, <2>2, <2>3, Zenon
<1>6. PICK l \in Seq(S) : l = left[n - 1]
  BY ForthAssumption DEF Pending
<1>7. << >> \o l = l
  BY ConcatEmptySeq
<1>8. left[n] \in Seq(S)
  BY DEF Pending
<1> QED  BY <1>4, <1>5, <1>6, <1>7, <1>8, Zenon

\* Out of a list at its end: f as Leave leaves it.
LEMMA OutwardPending ==
  ASSUME NEW S, NEW W, NEW g, NEW f, NEW left, NEW n, NEW a, NEW c, Level(S, W, g, f, left, n, a, c),
         a > Len(c), n # 1, NEW m, m = n - 1, NEW h, h = [Front(f) EXCEPT ![m].at = @ + 1]
  PROVE  Resumes(S, W, g, h, m, left[n])
<1>0. /\ Typed(S, W, g) /\ WellRun(W, f) /\ Pending(S, g, f, left)
      /\ n \in 1 .. MaxDepth + 1 /\ n = Len(f) /\ a = f[n].at /\ c = f[n].code
  BY DEF Level
<1> USE <1>0
<1>1. n \in 1 .. MaxDepth + 1 /\ m \in 1 .. n /\ m < n
  BY ForthAssumption
<1>2. left[n] = left[m]
  BY <1>1, NothingAtEnd
<1>3. PICK b : b = Front(f) /\ b \in Seq(ListsOf(W)) /\ Len(b) = m /\ \A k \in 1 .. m : b[k] = f[k]
  <2>1. f \in Seq(ListsOf(W))
    BY DEF WellRun
  <2>2. m \in Nat /\ Len(f) = m + 1
    BY <1>1
  <2>3. Front(f) \in Seq(ListsOf(W)) /\ Len(Front(f)) = m /\ \A k \in 1 .. m : Front(f)[k] = f[k]
    BY <2>1, <2>2, FrontElements
  <2> QED  BY <2>3
<1>4. b[m] \in ListsOf(W) /\ b[m] = f[m]
  BY <1>1, <1>3
<1>5. PICK v \in ListsOf(W) : v = [b[m] EXCEPT !.at = @ + 1] /\ v.code = f[m].code /\ v.at = f[m].at + 1
  <2>1. PICK v : v = [b[m] EXCEPT !.at = @ + 1]
    OBVIOUS
  <2>2. v \in ListsOf(W) /\ v.code = b[m].code /\ v.at = b[m].at + 1
    BY <1>4, <2>1, ListOnward, SMT
  <2> QED  BY <1>4, <2>1, <2>2, Zenon
<1>6. h = [b EXCEPT ![m] = v]
  BY <1>3, <1>5
<1>7. /\ h \in Seq(ListsOf(W)) /\ Len(h) = m
      /\ h[m] = v /\ \A k \in 1 .. m : k # m => h[k] = f[k]
  <2>1. m \in 1 .. Len(b) /\ b \in Seq(ListsOf(W)) /\ v \in ListsOf(W)
    BY <1>1, <1>3
  <2>0. [b EXCEPT ![m] = v] \in Seq(ListsOf(W)) /\ Len([b EXCEPT ![m] = v]) = Len(b)
    BY <2>1, ElementReplaced
  <2>2. PICK x : x = [b EXCEPT ![m] = v] /\ x \in Seq(ListsOf(W)) /\ Len(x) = Len(b)
    BY <2>0, Zenon
  <2>3. b \in [1 .. m -> ListsOf(W)]
    BY <1>1, <1>3
  <2>4. x[m] = v /\ \A k \in 1 .. m : k # m => x[k] = b[k]
    BY <1>1, <2>2, <2>3
  <2> QED  BY <1>3, <1>6, <2>2, <2>4, Zenon
<1>8. Ahead(h, m) = f[m].at + 1 /\ Ahead(f, m) = f[m].at + 1
  <2>1. ~(m < Len(h)) /\ m < Len(f)
    BY <1>1, <1>7
  <2> QED  BY <1>5, <1>7, <2>1, Zenon DEF Ahead
<1>9. ASSUME NEW k \in 1 .. m PROVE Ahead(h, k) = Ahead(f, k) /\ h[k].code = f[k].code
  <2>1. CASE k = m
    BY <1>5, <1>7, <1>8, <2>1
  <2>2. CASE k # m
    <3>1. k < Len(h) /\ k < Len(f)
      BY <1>1, <1>7, <2>2
    <3> QED  BY <1>7, <2>2, <3>1 DEF Ahead
  <2> QED  BY <2>1, <2>2
<1>10. WellRun(W, h)
  <2>1. ASSUME NEW k \in 1 .. m PROVE Ahead(h, k) \in 1 .. Len(h[k].code) + 1
    <3>1. k \in 1 .. Len(f)
      BY <1>1
    <3>2. Ahead(f, k) \in 1 .. Len(f[k].code) + 1
      BY <3>1, Zenon DEF WellRun
    <3> QED  BY <1>9, <3>2, Zenon
  <2> QED  BY <1>7, <2>1 DEF WellRun
<1> DEFINE more == [k \in 0 .. m |-> left[k]]
<1>11. more \in [0 .. m -> Seq(S)] /\ \A k \in 0 .. m : more[k] = left[k]
  <2>1. \A k \in 0 .. m : left[k] \in Seq(S)
    BY <1>1 DEF Pending
  <2> QED  BY <2>1
<1> HIDE DEF more
<1>12. ASSUME NEW k \in 1 .. m
       PROVE  more[k] = Rest(g, MaxDepth + 1 - k, h[k].code, Ahead(h, k)) \o more[k - 1]
  <2>1. k \in 1 .. Len(f) /\ k \in 0 .. m /\ k - 1 \in 0 .. m
    BY <1>1
  <2>2. left[k] = Rest(g, MaxDepth + 1 - k, f[k].code, Ahead(f, k)) \o left[k - 1]
    BY <2>1, Zenon DEF Pending
  <2> QED  BY <1>9, <1>11, <2>1, <2>2, Zenon
<1>13. more[0] = << >> /\ more[m] = left[n]
  <2>1. 0 \in 0 .. m /\ m \in 0 .. m
    BY <1>1
  <2> QED  BY <1>2, <1>11, <2>1, Zenon DEF Pending
<1>14. Pending(S, g, h, more)
  BY <1>7, <1>11, <1>12, <1>13 DEF Pending
<1> QED  BY <1>7, <1>10, <1>13, <1>14, Zenon DEF Resumes

(***************************************************************************)
(* A call on its course                                                    *)
(***************************************************************************)

\* What a call has run, and what its lists have still to run, is what its word
\* leads to: W are the words there are, S those with the mark, g tells what they
\* lead to, f are the lists and r what has run.
OnCourse(W, S, g, word, f, outcome, r) ==
  /\ outcome = "none" /\ word \in W /\ r \in Seq(Primitives)
  /\ WellRun(W, f) /\ Len(f) \in 1 .. MaxDepth + 1
  /\ \E left : Pending(S, g, f, left) /\ g[<<MaxDepth, word>>] = r \o left[Len(f)]

\* The inductive invariant: a call is on its course.
XInv ==
  /\ Coded
  /\ InCall => OnCourse(AllWords, Texts, From(colon), called, frames, raised, ran)

\* What Expansion gives for a word, at every depth, is a sequence.
LEMMA TellsTyped ==
  ASSUME NEW g, Tells(g)
  PROVE  Typed(Texts, AllWords, g)
BY Zenon DEF Tells, Typed

\* Primitives are words and no list of words starts with the mark.
LEMMA PrimitiveTexts == Seq(Primitives) \subseteq Seq(Texts) /\ Primitives \subseteq AllWords
<1>1. Primitives \subseteq AllWords /\ Primitives \subseteq Texts
  BY DEF AllWords, WordsOf, Texts
<1>2. PICK P, T : P = Primitives /\ T = Texts /\ P \subseteq T
  BY <1>1
<1>3. Seq(P) \subseteq Seq(T)
  BY <1>2
<1> QED  BY <1>1, <1>2, <1>3, Zenon

\* The list at hand in a call that is on its course: where the call is in it.
LEMMA AtHand ==
  ASSUME NEW g, Tells(g), NEW word, NEW r, OnCourse(AllWords, Texts, g, word, frames, "none", r)
  PROVE  \E n, left, a, c :
           /\ Level(Texts, AllWords, g, frames, left, n, a, c)
           /\ g[<<MaxDepth, word>>] = r \o left[n] /\ word \in AllWords /\ r \in Seq(Primitives)
           /\ Current = c[a] /\ (AtEnd <=> a > Len(c)) /\ n \in Nat /\ a \in Nat /\ Len(c) \in Nat
<1>1. PICK n : n = Len(frames) /\ n \in 1 .. MaxDepth + 1
  BY DEF OnCourse
<1>2. PICK left : Pending(Texts, g, frames, left) /\ g[<<MaxDepth, word>>] = r \o left[n]
  BY <1>1, Zenon DEF OnCourse
<1>3. PICK a, c : a = frames[n].at /\ c = frames[n].code
  OBVIOUS
<1>4. WellRun(AllWords, frames) /\ word \in AllWords /\ r \in Seq(Primitives)
  BY Zenon DEF OnCourse
<1>5. Typed(Texts, AllWords, g)
  BY TellsTyped
<1>6. Current = c[a] /\ (AtEnd <=> a > Len(c))
  BY <1>1, <1>3, Zenon DEF Current, Running, Last, AtEnd
<1>7. n \in Nat /\ a \in Nat /\ c \in Seq(AllWords)
  BY <1>1, <1>3, <1>4, ForthAssumption, PlaceInList
<1>8. Len(c) \in Nat
  BY <1>7, LenProperties
<1>9. Level(Texts, AllWords, g, frames, left, n, a, c)
  BY <1>1, <1>2, <1>3, <1>4, <1>5, Zenon DEF Level
<1> QED  BY <1>2, <1>4, <1>6, <1>7, <1>8, <1>9, Zenon

\* A primitive leads to itself.
LEMMA PrimitiveAtHand ==
  ASSUME NEW g, Tells(g), NEW w \in Primitives \ DOMAIN colon, NEW d \in 0 .. MaxDepth
  PROVE  g[<<d, w>>] = <<w>>
BY PrimitiveTexts, Zenon DEF Tells

\* A primitive of the list at hand has been run: the call goes on behind it.
LEMMA RunOnCourse ==
  ASSUME NEW g, Tells(g), ~AtEnd, Current \in Primitives \ DOMAIN colon,
         NEW word, NEW r, OnCourse(AllWords, Texts, g, word, frames, "none", r),
         NEW h, h = [frames EXCEPT ![Len(frames)].at = @ + 1]
  PROVE  OnCourse(AllWords, Texts, g, word, h, "none", Append(r, Current))
<1>1. PICK n, left, a, c :
        /\ Level(Texts, AllWords, g, frames, left, n, a, c)
        /\ g[<<MaxDepth, word>>] = r \o left[n] /\ word \in AllWords /\ r \in Seq(Primitives)
        /\ Current = c[a] /\ (AtEnd <=> a > Len(c)) /\ n \in Nat /\ a \in Nat /\ Len(c) \in Nat
  BY AtHand, Zenon
<1>2. n = Len(frames) /\ n \in 1 .. MaxDepth + 1
  BY <1>1 DEF Level
<1>3. PICK d \in 0 .. MaxDepth : d = MaxDepth + 1 - n
  <2>1. MaxDepth + 1 - n \in 0 .. MaxDepth
    BY <1>2, ForthAssumption
  <2> QED  BY <2>1
<1>4. a <= Len(c)
  BY <1>1
<1>5. PICK w : w = c[a] /\ w \in Primitives \ DOMAIN colon
  BY <1>1
<1>6. ComesNext(Texts, g, d, c, a, left, n)
  BY <1>1, <1>3, <1>4, WordAtHand, Zenon
<1>7. g[<<d, w>>] = <<w>>
  BY <1>3, <1>5, PrimitiveAtHand, Zenon
<1>8. PICK m : m = Behind(g, d, c, a, left, n) /\ m \in Seq(Texts) /\ left[n] = <<w>> \o m
  BY <1>5, <1>6, <1>7, Zenon DEF ComesNext
<1>9. Resumes(Texts, AllWords, g, h, n, m)
  <2>1. h = [frames EXCEPT ![n].at = @ + 1]
    BY <1>2, Zenon
  <2> QED  BY <1>1, <1>3, <1>4, <1>8, <2>1, OnwardPending, Zenon
<1>10. r \in Seq(Texts) /\ <<w>> \in Seq(Texts) /\ Append(r, w) \in Seq(Primitives)
  <2>1. <<w>> \in Seq(Primitives) /\ Append(r, w) \in Seq(Primitives)
    BY <1>1, <1>5
  <2> QED  BY <1>1, <2>1, PrimitiveTexts, Zenon
<1>11. Joins(r, <<w>>, m)
  BY <1>8, <1>10, JoinsAll, Zenon
<1>12. Append(r, w) = r \o <<w>>
  BY <1>1, <1>5, AppendIsConcat
<1>13. g[<<MaxDepth, word>>] = Append(r, w) \o m
  BY <1>1, <1>8, <1>11, <1>12, Zenon DEF Joins
<1> QED  BY <1>1, <1>2, <1>5, <1>9, <1>10, <1>13, Zenon DEF OnCourse, Resumes

\* A list has been entered: its words come where its name was.
LEMMA ListAtHand ==
  ASSUME Coded, NEW g, Tells(g), NEW w \in DOMAIN colon, NEW n \in 1 .. MaxDepth
  PROVE  colon[w] \in Seq(AllWords) /\ SpeltOut(g, n, w, colon[w])
<1>0. PICK d : d = MaxDepth + 1 - n
  OBVIOUS
<1>1. d \in 0 .. MaxDepth /\ d = MaxDepth + 1 - n /\ d # 0 /\ d - 1 = MaxDepth - n
  BY <1>0, ForthAssumption
<1>2. w \in AllWords
  BY DEF AllWords, WordsOf
<1>3. PICK e \in Seq(AllWords) : e = colon[w]
  BY ListsHaveWords
<1>4. g[<<d, w>>] = FlattenSeq([i \in DOMAIN e |-> g[<<d - 1, e[i]>>]])
  BY <1>1, <1>2, <1>3, Zenon DEF Tells
<1>5. Rest(g, d - 1, e, 1) = FlattenSeq([i \in DOMAIN e |-> g[<<d - 1, e[i]>>]])
  BY <1>3, RestOfAll, Zenon
<1> QED  BY <1>1, <1>3, <1>4, <1>5, Zenon DEF SpeltOut

\* A colon word has been looked up: the call goes on in its list.
LEMMA EnterOnCourse ==
  ASSUME Coded, NEW g, Tells(g), ~AtEnd, Current \in DOMAIN colon, ~Deepest,
         NEW word, NEW r, OnCourse(AllWords, Texts, g, word, frames, "none", r),
         NEW h, h = Append(frames, [code |-> colon[Current], at |-> 1])
  PROVE  OnCourse(AllWords, Texts, g, word, h, "none", r)
<1>1. PICK n, left, a, c :
        /\ Level(Texts, AllWords, g, frames, left, n, a, c)
        /\ g[<<MaxDepth, word>>] = r \o left[n] /\ word \in AllWords /\ r \in Seq(Primitives)
        /\ Current = c[a] /\ (AtEnd <=> a > Len(c)) /\ n \in Nat /\ a \in Nat /\ Len(c) \in Nat
  BY AtHand, Zenon
<1>2. n = Len(frames) /\ n \in 1 .. MaxDepth + 1
  BY <1>1 DEF Level
<1>3. ~(n > MaxDepth)
  BY <1>2, Zenon DEF Deepest
<1>4. n \in 1 .. MaxDepth
  BY <1>2, <1>3, ForthAssumption
<1>5. a <= Len(c)
  BY <1>1
<1>6. PICK e : e = colon[c[a]] /\ e \in Seq(AllWords) /\ SpeltOut(g, n, c[a], e)
  BY <1>1, <1>4, ListAtHand, Zenon
<1>7. h = Append(frames, [code |-> e, at |-> 1])
  BY <1>1, <1>6, Zenon
<1>8. PICK m : m = n + 1
  OBVIOUS
<1>9. Resumes(Texts, AllWords, g, h, m, left[n])
  BY <1>1, <1>3, <1>5, <1>6, <1>7, <1>8, InwardPending, Zenon
<1>10. m \in 1 .. MaxDepth + 1
  BY <1>4, <1>8, ForthAssumption
<1> QED  BY <1>1, <1>9, <1>10, Zenon DEF OnCourse, Resumes

\* A list at its end has been left.
LEMMA LeaveOnCourse ==
  ASSUME NEW g, Tells(g), AtEnd, Len(frames) # 1,
         NEW word, NEW r, OnCourse(AllWords, Texts, g, word, frames, "none", r),
         NEW h, h = [Front(frames) EXCEPT ![Len(frames) - 1].at = @ + 1]
  PROVE  OnCourse(AllWords, Texts, g, word, h, "none", r)
<1>1. PICK n, left, a, c :
        /\ Level(Texts, AllWords, g, frames, left, n, a, c)
        /\ g[<<MaxDepth, word>>] = r \o left[n] /\ word \in AllWords /\ r \in Seq(Primitives)
        /\ Current = c[a] /\ (AtEnd <=> a > Len(c)) /\ n \in Nat /\ a \in Nat /\ Len(c) \in Nat
  BY AtHand, Zenon
<1>2. n = Len(frames) /\ n \in 1 .. MaxDepth + 1 /\ n # 1
  BY <1>1 DEF Level
<1>3. PICK m : m = n - 1
  OBVIOUS
<1>4. h = [Front(frames) EXCEPT ![m].at = @ + 1]
  BY <1>2, <1>3, Zenon
<1>5. Resumes(Texts, AllWords, g, h, m, left[n])
  BY <1>1, <1>2, <1>3, <1>4, OutwardPending, Zenon
<1>6. m \in 1 .. MaxDepth + 1
  BY <1>2, <1>3, ForthAssumption
<1> QED  BY <1>1, <1>5, <1>6, Zenon DEF OnCourse, Resumes

\* A call that is made: nothing has run.
LEMMA CallOnCourse ==
  ASSUME Coded, NEW g, Tells(g), NEW word \in Names
  PROVE  OnCourse(AllWords, Texts, g, word, << [code |-> <<word>>, at |-> 1] >>, "none", << >>)
<1>1. PICK f, c : f = << [code |-> c, at |-> 1] >> /\ c = <<word>>
  OBVIOUS
<1>2. word \in AllWords
  BY DEF AllWords, WordsOf, Names
<1>3. c \in Seq(AllWords) /\ Len(c) = 1 /\ c[1] = word
  BY <1>1, <1>2
<1>4. f \in Seq(ListsOf(AllWords)) /\ Len(f) = 1 /\ f[1].code = c /\ f[1].at = 1
  <2>1. PICK v : v = [code |-> c, at |-> 1] /\ v \in ListsOf(AllWords)
    BY <1>3, ListBegun, Zenon
  <2>2. f = <<v>>
    BY <1>1, <2>1, Zenon
  <2>3. f \in Seq(ListsOf(AllWords)) /\ Len(f) = 1 /\ f[1] = v
    BY <2>1, <2>2
  <2>4. v.code = c /\ v.at = 1
    BY <2>1
  <2> QED  BY <2>3, <2>4, Zenon
<1>5. WellRun(AllWords, f)
  BY <1>3, <1>4 DEF WellRun, Ahead
<1>6. MaxDepth \in Nat /\ MaxDepth \in 0 .. MaxDepth /\ 1 \in 1 .. MaxDepth + 1
  BY ForthAssumption
<1>7. \A w \in AllWords : g[<<MaxDepth, w>>] \in Seq(Texts)
  BY <1>6, Zenon DEF Tells
<1>8. PICK x \in Seq(Texts) : x = g[<<MaxDepth, word>>]
  BY <1>2, <1>7
<1>9. Rest(g, MaxDepth, c, 1) = x
  <2>1. Unrolls(Texts, AllWords, g, MaxDepth, c, 1)
    <3>1. 1 \in 1 .. Len(c) + 1 /\ 1 <= Len(c)
      BY <1>3
    <3> QED  BY <1>3, <1>7, <3>1, RestOfList, Zenon
  <2>2. Rest(g, MaxDepth, c, 2) = << >>
    <3>1. 2 \in 1 .. Len(c) + 1 /\ 2 > Len(c)
      BY <1>3
    <3> QED  BY <1>3, <1>7, <3>1, RestOfList
  <2>3. Rest(g, MaxDepth, c, 1) = g[<<MaxDepth, c[1]>>] \o Rest(g, MaxDepth, c, 1 + 1)
    BY <2>1, Zenon DEF Unrolls
  <2>4. x \o << >> = x /\ 1 + 1 = 2
    BY ConcatEmptySeq
  <2> QED  BY <1>3, <1>8, <2>2, <2>3, <2>4, Zenon
<1> DEFINE left == [k \in 0 .. 1 |-> IF k = 0 THEN << >> ELSE x]
<1>10. left \in [0 .. 1 -> Seq(Texts)] /\ left[0] = << >> /\ left[1] = x
  BY <1>8
<1> HIDE DEF left
<1>11. Pending(Texts, g, f, left)
  <2>1. x \o << >> = x
    BY ConcatEmptySeq
  <2>2. Ahead(f, 1) = 1
    BY <1>4 DEF Ahead
  <2>3. ASSUME NEW k \in 1 .. 1
        PROVE  left[k] = Rest(g, MaxDepth + 1 - k, f[k].code, Ahead(f, k)) \o left[k - 1]
    <3>1. k = 1 /\ k - 1 = 0 /\ MaxDepth + 1 - k = MaxDepth
      BY <1>6
    <3> QED  BY <1>4, <1>9, <1>10, <2>1, <2>2, <3>1, Zenon
  <2> QED  BY <1>4, <1>10, <2>3 DEF Pending
<1>12. << >> \in Seq(Primitives) /\ << >> \o x = x
  BY ConcatEmptySeq
<1> QED  BY <1>1, <1>2, <1>4, <1>5, <1>6, <1>8, <1>10, <1>11, <1>12, Zenon DEF OnCourse

\* The lists the service starts with, and those it builds.
LEMMA StandardLists == \A n \in DOMAIN StandardDefs : IsWordList(StandardDefs[n])
<1>1. ASSUME NEW a, NEW b, a # "...", b # "..."
      PROVE  IsWordList(<<a>>) /\ IsWordList(<<a, b>>)
  <2>1. <<a>> \in Seq({a, b}) /\ <<a, b>> \in Seq({a, b})
    OBVIOUS
  <2>2. Range(<<a>>) = {a} /\ Range(<<a, b>>) = {a, b}
    BY DEF Range
  <2> QED  BY <1>1, <2>1, <2>2, OverItsRange DEF IsWordList
<1>2. IsWordList(<<"0BRANCH">>) /\ IsWordList(<<"0BRANCH", "BRANCH">>)
  BY <1>1, Zenon
<1>3. IsWordList(<<"BEGIN", "UNTIL">>) /\ IsWordList(<<"WHILE", "REPEAT">>)
  BY <1>1, Zenon
<1>4. IsWordList(<<"DO", "LOOP">>) /\ IsWordList(<<"DO", "+LOOP">>)
  BY <1>1, Zenon
<1>6. IsWordList(<<"EXIT">>)
  <2>1. IsWordList(<<"EXIT">>) /\ IsWordList(<<"EXIT", "EXIT">>)
    BY <1>1, Zenon
  <2> QED  BY <2>1
<1>5. ASSUME NEW n \in DOMAIN StandardDefs
      PROVE  StandardDefs[n] \in {<<"0BRANCH">>, <<"0BRANCH", "BRANCH">>, <<"BEGIN", "UNTIL">>,
               <<"WHILE", "REPEAT">>, <<"DO", "LOOP">>, <<"DO", "+LOOP">>, <<"EXIT">>}
  BY DEF StandardDefs
<1> QED  BY <1>2, <1>3, <1>4, <1>5, <1>6, Zenon

\* The state the invariant is about stays as it is.
LEMMA NothingRuns ==
  ASSUME XInv, UNCHANGED <<colon, frames, raised, called, ran>>
  PROVE  XInv'
<1>1. AllWords' = AllWords /\ Texts' = Texts
  BY Zenon DEF AllWords, Texts
<1>2. Coded'
  BY DEF XInv, Coded
<1>3. ASSUME InCall' PROVE OnCourse(AllWords, Texts, From(colon), called, frames, raised, ran)'
  <2>1. InCall
    BY <1>3, Zenon DEF InCall
  <2>2. OnCourse(AllWords, Texts, From(colon), called, frames, raised, ran)
    BY <2>1, Zenon DEF XInv
  <2>3. OnCourse(AllWords', Texts', From(colon'), called', frames', raised', ran')
    BY <1>1, <2>2, Zenon
  <2> QED  BY <2>3
<1> QED  BY <1>2, <1>3, Zenon DEF XInv

\* No call is being run.
LEMMA NoCallRuns ==
  ASSUME Coded', ~InCall'
  PROVE  XInv'
BY Zenon DEF XInv

\* The host calls only when no call is being run.
LEMMA HostOnCourse ==
  ASSUME XInv, HostCall
  PROVE  XInv'
<1>1. ASSUME NEW w \in CallNames, Call(w) PROVE XInv'
  <2>1. /\ colon' = colon /\ w \in Names /\ called' = w /\ ran' = << >> /\ raised' = "none"
        /\ frames' = << [code |-> <<w>>, at |-> 1] >>
    BY <1>1 DEF Call
  <2>2. Coded /\ Coded'
    BY <2>1 DEF XInv, Coded
  <2>3. AllWords' = AllWords /\ Texts' = Texts
    BY <2>1, Zenon DEF AllWords, Texts
  <2>4. Tells(From(colon))
    BY <2>2, Expands
  <2>5. OnCourse(AllWords, Texts, From(colon), w, << [code |-> <<w>>, at |-> 1] >>, "none", << >>)
    BY <2>1, <2>2, <2>4, CallOnCourse, Zenon
  <2>6. OnCourse(AllWords', Texts', From(colon'), called', frames', raised', ran')
    BY <2>1, <2>3, <2>5, Zenon
  <2> QED  BY <2>2, <2>6, Zenon DEF XInv
<1>2. ASSUME Idle, frames' = frames PROVE ~InCall'
  BY <1>2 DEF Idle, InCall
<1>3. ASSUME NEW d \in Definitions, Define(d[1], d[2]) PROVE XInv'
  <2>1. Coded'
    <3>1. IsWordList(d[2])
      BY ForthAssumption
    <3>2. \A n \in DOMAIN colon : IsWordList(colon[n])
      BY DEF XInv, Coded
    <3>3. colon' = [n \in DOMAIN colon \cup {d[1]} |-> IF n = d[1] THEN d[2] ELSE colon[n]]
      BY <1>3 DEF Define
    <3>4. \A n \in DOMAIN colon' : IsWordList(colon'[n])
      BY <3>1, <3>2, <3>3
    <3> QED  BY <3>4 DEF Coded
  <2> QED  BY <1>2, <1>3, <2>1, NoCallRuns DEF Define
<1>4. ASSUME BuildStandardColonDefs PROVE XInv'
  <2>1. Coded'
    <3>1. \A n \in DOMAIN colon : IsWordList(colon[n])
      BY DEF XInv, Coded
    <3>2. colon' = [n \in DOMAIN colon \cup DOMAIN StandardDefs |->
                      IF n \in DOMAIN StandardDefs THEN StandardDefs[n] ELSE colon[n]]
      BY <1>4 DEF BuildStandardColonDefs
    <3>3. \A n \in DOMAIN colon' : IsWordList(colon'[n])
      BY <3>1, <3>2, StandardLists
    <3> QED  BY <3>3 DEF Coded
  <2> QED  BY <1>2, <1>4, <2>1, NoCallRuns DEF BuildStandardColonDefs
<1>5. ASSUME Idle, UNCHANGED <<colon, frames>> PROVE XInv'
  <2>1. Coded'
    BY <1>5 DEF XInv, Coded
  <2> QED  BY <1>2, <1>5, <2>1, NoCallRuns
<1>6. ASSUME NEW v \in Literals, Literal(v) \/ Docol(v) PROVE XInv'
  BY <1>5, <1>6 DEF Literal, Docol
<1> QED  BY <1>1, <1>3, <1>4, <1>6 DEF HostCall

\* Each step of a call.
LEMMA StepOnCourse ==
  ASSUME XInv, Step
  PROVE  XInv'
<1>1. Coded /\ Tells(From(colon))
  BY Expands DEF XInv
<1>2. UNCHANGED <<colon, called>>
  BY DEF Step, RunPrimitive, Unknown, Enter, Leave
<1>3. Coded' /\ AllWords' = AllWords /\ Texts' = Texts
  <2>1. AllWords' = AllWords /\ Texts' = Texts
    BY <1>2, Zenon DEF AllWords, Texts
  <2> QED  BY <1>1, <1>2, <2>1 DEF Coded
<1>4. InCall /\ raised = "none" /\ OnCourse(AllWords, Texts, From(colon), called, frames, "none", ran)
  <2>1. InCall
    BY DEF Step, RunPrimitive, Unknown, Enter, Leave
  <2>2. OnCourse(AllWords, Texts, From(colon), called, frames, raised, ran)
    BY <2>1, Zenon DEF XInv
  <2>3. raised = "none"
    BY <2>2, Zenon DEF OnCourse
  <2> QED  BY <2>1, <2>2, <2>3, Zenon
<1>5. ASSUME OnCourse(AllWords, Texts, From(colon), called, frames', "none", ran'), raised' = "none"
      PROVE  XInv'
  <2>1. OnCourse(AllWords', Texts', From(colon'), called', frames', raised', ran')
    BY <1>2, <1>3, <1>5, Zenon
  <2> QED  BY <1>3, <2>1, Zenon DEF XInv
<1>6. ASSUME frames' = << >> PROVE XInv'
  BY <1>3, <1>6, NoCallRuns DEF InCall
<1>7. CASE RunPrimitive
  <2>1. ~AtEnd /\ Current \in Primitives \ DOMAIN colon /\ ran' = Append(ran, Current) /\ Proceed
    BY <1>7 DEF RunPrimitive
  <2>2. CASE raised' = "none"
    <3>1. frames' = [frames EXCEPT ![Len(frames)].at = @ + 1]
      BY <2>1, <2>2, Zenon DEF Proceed
    <3>2. OnCourse(AllWords, Texts, From(colon), called, frames', "none", Append(ran, Current))
      BY <1>1, <1>4, <2>1, <3>1, RunOnCourse, Zenon
    <3> QED  BY <1>5, <2>1, <2>2, <3>2, Zenon
  <2>3. CASE raised' # "none"
    BY <1>6, <2>1, <2>3, Zenon DEF Proceed
  <2> QED  BY <2>2, <2>3
<1>8. CASE Unknown
  <2>1. Proceed /\ raised' # "none"
    BY <1>8 DEF Unknown, Ends
  <2> QED  BY <1>6, <2>1, Zenon DEF Proceed
<1>9. CASE Enter
  <2>1. CASE Deepest
    BY <1>6, <1>9, <2>1, Zenon DEF Enter
  <2>2. CASE ~Deepest
    <3>1. /\ ~AtEnd /\ Current \in DOMAIN colon /\ raised' = raised /\ ran' = ran
          /\ frames' = Append(frames, [code |-> colon[Current], at |-> 1])
      BY <1>9, <2>2 DEF Enter
    <3>2. OnCourse(AllWords, Texts, From(colon), called, frames', "none", ran)
      BY <1>1, <1>4, <2>2, <3>1, EnterOnCourse, Zenon
    <3> QED  BY <1>4, <1>5, <3>1, <3>2, Zenon
  <2> QED  BY <2>1, <2>2
<1>10. CASE Leave
  <2>1. AtEnd /\ raised' = raised /\ ran' = ran
    BY <1>10 DEF Leave
  <2>2. CASE Len(frames) = 1
    BY <1>6, <1>10, <2>2, Zenon DEF Leave
  <2>3. CASE Len(frames) # 1
    <3>1. frames' = [Front(frames) EXCEPT ![Len(frames) - 1].at = @ + 1]
      BY <1>10, <2>3, Zenon DEF Leave
    <3>2. OnCourse(AllWords, Texts, From(colon), called, frames', "none", ran)
      BY <1>1, <1>4, <2>1, <2>3, <3>1, LeaveOnCourse, Zenon
    <3> QED  BY <1>4, <1>5, <2>1, <3>2, Zenon
  <2> QED  BY <2>2, <2>3
<1> QED  BY <1>7, <1>8, <1>9, <1>10 DEF Step

\* A service that has just been made, with what earlier calls have left.
LEMMA StartOnCourse ==
  ASSUME Init
  PROVE  XInv
<1>1. PICK start \in Starts : colon = start.colon
  BY Zenon DEF Init
<1>2. frames = << >>
  BY Zenon DEF Init
<1>3. Coded
  BY <1>1, ForthAssumption DEF Coded
<1> QED  BY <1>2, <1>3 DEF XInv, InCall

(***************************************************************************)
(* How a call ends                                                         *)
(***************************************************************************)

\* w comes next in e, behind r
ComesBehind(S, e, r, w) == \E m \in Seq(S) : e = r \o (<<w>> \o m)

\* A word that is no colon word leads to itself: it is what comes next.
LEMMA WordComes ==
  ASSUME NEW g, Tells(g), ~AtEnd, Current \notin DOMAIN colon,
         NEW word, NEW r, OnCourse(AllWords, Texts, g, word, frames, "none", r)
  PROVE  /\ Current \in AllWords /\ r \in Seq(Primitives)
         /\ ComesBehind(Texts, g[<<MaxDepth, word>>], r, Current)
<1>1. PICK n, left, a, c :
        /\ Level(Texts, AllWords, g, frames, left, n, a, c)
        /\ g[<<MaxDepth, word>>] = r \o left[n] /\ word \in AllWords /\ r \in Seq(Primitives)
        /\ Current = c[a] /\ (AtEnd <=> a > Len(c)) /\ n \in Nat /\ a \in Nat /\ Len(c) \in Nat
  BY AtHand, Zenon
<1>2. n \in 1 .. MaxDepth + 1
  BY <1>1 DEF Level
<1>3. PICK d \in 0 .. MaxDepth : d = MaxDepth + 1 - n
  <2>1. MaxDepth + 1 - n \in 0 .. MaxDepth
    BY <1>2, ForthAssumption
  <2> QED  BY <2>1
<1>4. a <= Len(c)
  BY <1>1
<1>5. c[a] \in AllWords /\ ComesNext(Texts, g, d, c, a, left, n)
  BY <1>1, <1>3, <1>4, WordAtHand, Zenon
<1>6. g[<<d, c[a]>>] = <<c[a]>>
  BY <1>1, <1>3, <1>5, Zenon DEF Tells
<1>7. PICK m : m \in Seq(Texts) /\ left[n] = <<c[a]>> \o m
  BY <1>5, <1>6, Zenon DEF ComesNext
<1> QED  BY <1>1, <1>5, <1>7, Zenon DEF ComesBehind

\* At the end of its only list a call has run all of it.
LEMMA AllHasRun ==
  ASSUME NEW g, Tells(g), AtEnd,
         NEW word, NEW r, OnCourse(AllWords, Texts, g, word, frames, "none", r)
  PROVE  Len(frames) = 1 => g[<<MaxDepth, word>>] = r
<1>1. PICK n, left, a, c :
        /\ Level(Texts, AllWords, g, frames, left, n, a, c)
        /\ g[<<MaxDepth, word>>] = r \o left[n] /\ word \in AllWords /\ r \in Seq(Primitives)
        /\ Current = c[a] /\ (AtEnd <=> a > Len(c)) /\ n \in Nat /\ a \in Nat /\ Len(c) \in Nat
  BY AtHand, Zenon
<1> SUFFICES ASSUME Len(frames) = 1 PROVE g[<<MaxDepth, word>>] = r
  OBVIOUS
<1>2. n = 1 /\ Pending(Texts, g, frames, left)
  BY <1>1 DEF Level
<1>3. left[0] = << >>
  BY <1>2, Zenon DEF Pending
<1>4. left[n] = left[0]
  <2>1. PICK m : m = n - 1 /\ m = 0
    BY <1>2
  <2>2. a > Len(c)
    BY <1>1
  <2>3. left[n] = left[m]
    BY <1>1, <2>1, <2>2, NothingAtEnd
  <2> QED  BY <2>1, <2>3, Zenon
<1>5. r \o << >> = r
  BY <1>1, ConcatEmptySeq
<1> QED  BY <1>1, <1>3, <1>4, <1>5, Zenon

\* What RunsItsExpansion says of the end of a call.
Finishes(e, r, outcome, deep) ==
  /\ IsPrefix(r, SubSeq(e, 1, Stop(Primitives, e) - 1))
  /\ outcome = "none" => r = e
  /\ outcome = "UnknownWordError" =>
       Len(r) = Stop(Primitives, e) - 1 /\ e[Stop(Primitives, e)] # "..."
  /\ outcome = "RecursionError" => "..." \in Range(e) \/ deep

\* A primitive raises no UnknownWordError, and by itself no RecursionError.
LEMMA BodyOutcomes ==
  ASSUME NEW w, WordBody(w)
  PROVE  raised' # "UnknownWordError" /\ raised' # "RecursionError"
<1>1. Faults(w) # "UnknownWordError" /\ Faults(w) # "RecursionError"
  BY DEF Faults
<1>2. CASE w \in DataWords /\ DataWord(w)
  <2>1. raised' \in {"StackError", "none", Faults(w)}
    BY <1>2, Zenon DEF DataWord
  <2> QED  BY <1>1, <2>1
<1>3. CASE Exit \/ Bye \/ Ends("TypeError") \/ Ends("none")
  BY <1>3 DEF Exit, Bye, Ends
<1> QED  BY <1>2, <1>3, Zenon DEF WordBody

\* The end of a call, by what ends it.
LEMMA StepFinishes ==
  ASSUME XInv, Step, ~InCall'
  PROVE  Finishes(Expansion, ran', raised', Deepest)
<1> DEFINE e == From(colon)[<<MaxDepth, called>>]
<1>1. Coded /\ Tells(From(colon)) /\ Expansion = e
  BY Expands, ExpansionIs DEF XInv
<1>2. OnCourse(AllWords, Texts, From(colon), called, frames, "none", ran) /\ raised = "none"
  <2>1. InCall
    BY DEF Step, RunPrimitive, Unknown, Enter, Leave
  <2>2. OnCourse(AllWords, Texts, From(colon), called, frames, raised, ran)
    BY <2>1, Zenon DEF XInv
  <2>3. raised = "none"
    BY <2>2, Zenon DEF OnCourse
  <2> QED  BY <2>2, <2>3, Zenon
<1>3. ran \in Seq(Primitives) /\ e \in Seq(Texts)
  <2>1. MaxDepth \in 0 .. MaxDepth
    BY ForthAssumption
  <2> QED  BY <1>1, <1>2, <2>1, Zenon DEF OnCourse, Tells
<1>4. Primitives \subseteq Texts /\ Seq(Primitives) \subseteq Seq(Texts)
  BY PrimitiveTexts DEF Texts
<1> HIDE DEF e
<1>5. frames' = << >>
  BY DEF InCall
<1>6. ASSUME NEW h, NEW x, OnCourse(AllWords, Texts, From(colon), called, h, "none", x) PROVE h # << >>
  BY <1>6 DEF OnCourse
<1>7. CASE RunPrimitive
  <2>1. PICK w : /\ w = Current /\ ~AtEnd /\ w \in Primitives \ DOMAIN colon
                 /\ ran' = Append(ran, w) /\ Proceed
    BY <1>7 DEF RunPrimitive
  <2>2. PICK m \in Seq(Texts) : e = ran \o (<<w>> \o m)
    <3>1. ComesBehind(Texts, e, ran, w)
      BY <1>1, <1>2, <2>1, WordComes, Zenon DEF e
    <3> QED  BY <3>1, Zenon DEF ComesBehind
  <2>3. RunsInFront(Primitives, e, ran')
    <3>1. <<w>> \in Seq(Primitives) /\ ran' \in Seq(Primitives) /\ ran' = ran \o <<w>>
      BY <1>3, <2>1
    <3>2. Joins(ran, <<w>>, m)
      BY <1>3, <1>4, <2>2, <3>1, JoinsAll, Zenon
    <3>3. e = ran' \o m
      BY <2>2, <3>1, <3>2, Zenon DEF Joins
    <3> QED  BY <1>4, <2>2, <3>1, <3>3, InFront, Zenon
  <2>4. raised' # "none"
    <3>1. OnCourse(AllWords, Texts, From(colon), called, [frames EXCEPT ![Len(frames)].at = @ + 1],
                   "none", Append(ran, Current))
      BY <1>1, <1>2, <2>1, RunOnCourse, Zenon
    <3>2. [frames EXCEPT ![Len(frames)].at = @ + 1] # << >>
      BY <1>6, <3>1, Zenon
    <3> QED  BY <1>5, <2>1, <3>2, Zenon DEF Proceed
  <2>5. raised' # "UnknownWordError" /\ (raised' = "RecursionError" => Deepest)
    <3>1. WordBody(w) \/ (Deepest /\ WordCut(w))
      <4>1. WordBody(Current) \/ (Deepest /\ WordCut(Current))
        BY <1>7, Zenon DEF RunPrimitive
      <4> QED  BY <2>1, <4>1, Zenon
    <3>2. CASE WordBody(w)
      BY <3>2, BodyOutcomes, Zenon
    <3>3. CASE Deepest /\ WordCut(w)
      BY <3>3 DEF WordCut
    <3> QED  BY <3>1, <3>2, <3>3
  <2> QED  BY <1>1, <2>3, <2>4, <2>5, Zenon DEF Finishes, RunsInFront
<1>8. CASE Unknown
  <2>1. PICK w : /\ w = Current /\ ~AtEnd /\ w \notin Names /\ ran' = ran
                 /\ raised' = "UnknownWordError"
    BY <1>8 DEF Unknown, Ends
  <2>2. w \notin Primitives /\ w \notin DOMAIN colon
    BY <2>1 DEF Names
  <2>3. w \in AllWords /\ ComesBehind(Texts, e, ran, w)
    BY <1>1, <1>2, <2>1, <2>2, WordComes, Zenon DEF e
  <2>4. w # "..."
    BY <1>1, <2>1, <2>3, ListsHaveWords, Zenon
  <2>5. PICK m \in Seq(Texts), t \in Seq(Texts) :
          e = ran \o t /\ t = <<w>> \o m /\ t # << >> /\ t[1] = w
    <3>1. PICK m \in Seq(Texts) : e = ran \o (<<w>> \o m)
      BY <2>3, Zenon DEF ComesBehind
    <3>2. w \in Texts
      BY <2>3 DEF Texts
    <3>3. <<w>> \o m \in Seq(Texts) /\ <<w>> \o m # << >> /\ (<<w>> \o m)[1] = w
      BY <3>2
    <3> QED  BY <3>1, <3>3, Zenon
  <2>6. /\ RunsInFront(Primitives, e, ran) /\ Len(ran) = Stop(Primitives, e) - 1
        /\ e[Stop(Primitives, e)] = w
    <3>1. t[1] \notin Primitives
      BY <2>2, <2>5, Zenon
    <3>2. RunsInFront(Primitives, e, ran)
      BY <1>3, <1>4, <2>5, InFront, Zenon
    <3>3. AtFront(Primitives, e, ran, t)
      BY <1>3, <1>4, <2>5, <3>1, UpToFront, Zenon
    <3> QED  BY <2>5, <3>2, <3>3, Zenon DEF AtFront
  <2>7. raised' # "none" /\ raised' # "RecursionError"
    BY <2>1
  <2> QED  BY <1>1, <2>1, <2>4, <2>6, <2>7, Zenon DEF Finishes, RunsInFront
<1>9. RunsInFront(Primitives, e, ran)
  <2>1. PICK n : n = Len(frames)
    OBVIOUS
  <2>2. PICK left : Pending(Texts, From(colon), frames, left) /\ e = ran \o left[n]
    BY <1>2, <2>1, Zenon DEF OnCourse, e
  <2>3. left[n] \in Seq(Texts)
    <3>1. n \in 0 .. n
      BY <1>2, <2>1, ForthAssumption DEF OnCourse
    <3> QED  BY <2>1, <2>2, <3>1 DEF Pending
  <2> QED  BY <1>3, <1>4, <2>2, <2>3, InFront, Zenon
<1>10. CASE Enter
  <2>1. ~AtEnd /\ Current \in DOMAIN colon /\ ran' = ran
    BY <1>10 DEF Enter
  <2>2. Deepest
    <3>1. SUFFICES ASSUME ~Deepest PROVE FALSE
      OBVIOUS
    <3>2. OnCourse(AllWords, Texts, From(colon), called,
                   Append(frames, [code |-> colon[Current], at |-> 1]), "none", ran)
      BY <1>1, <1>2, <2>1, <3>1, EnterOnCourse, Zenon
    <3>3. frames' = Append(frames, [code |-> colon[Current], at |-> 1])
      BY <1>10, <3>1, Zenon DEF Enter
    <3> QED  BY <1>5, <1>6, <3>2, <3>3, Zenon
  <2>3. raised' = "RecursionError"
    BY <1>10, <2>2, Zenon DEF Enter
  <2>4. raised' # "none" /\ raised' # "UnknownWordError"
    BY <2>3
  <2> QED  BY <1>1, <1>9, <2>1, <2>2, <2>4, Zenon DEF Finishes, RunsInFront
<1>11. CASE Leave
  <2>1. AtEnd /\ ran' = ran /\ raised' = raised
    BY <1>11 DEF Leave
  <2>2. Len(frames) = 1
    <3>1. SUFFICES ASSUME Len(frames) # 1 PROVE FALSE
      OBVIOUS
    <3>2. OnCourse(AllWords, Texts, From(colon), called,
                   [Front(frames) EXCEPT ![Len(frames) - 1].at = @ + 1], "none", ran)
      BY <1>1, <1>2, <2>1, <3>1, LeaveOnCourse, Zenon
    <3>3. frames' = [Front(frames) EXCEPT ![Len(frames) - 1].at = @ + 1]
      BY <1>11, <3>1, Zenon DEF Leave
    <3> QED  BY <1>5, <1>6, <3>2, <3>3, Zenon
  <2>3. e = ran
    BY <1>1, <1>2, <2>1, <2>2, AllHasRun, Zenon DEF e
  <2>4. raised' # "UnknownWordError" /\ raised' # "RecursionError"
    BY <1>2, <2>1
  <2> QED  BY <1>1, <1>9, <2>1, <2>3, <2>4, Zenon DEF Finishes, RunsInFront
<1> QED  BY <1>7, <1>8, <1>10, <1>11, Zenon DEF Step

\* What RunsItsExpansion says of a step.
EndsAsSpelt == InCall /\ ~InCall' => Finishes(Expansion, ran', raised', Deepest)

\* It holds of every step: only a step of the call ends it.
LEMMA NextEndsAsSpelt ==
  ASSUME XInv, [Next]_vars
  PROVE  EndsAsSpelt
<1>1. ASSUME HostCall, InCall PROVE FALSE
  BY <1>1 DEF HostCall, Call, Define, Literal, Docol, BuildStandardColonDefs, Idle
<1>2. ASSUME UNCHANGED vars PROVE InCall' <=> InCall
  BY <1>2 DEF vars, InCall
<1> QED  BY <1>1, <1>2, StepFinishes DEF Next, EndsAsSpelt

\* That is the action of RunsItsExpansion.
LEMMA SpeltOutOfSteps == EndsAsSpelt <=>
  (InCall /\ ~InCall' =>
       LET e    == Expansion
           stop == Min({Len(e) + 1} \cup {i \in DOMAIN e : e[i] \notin Primitives})
       IN /\ IsPrefix(ran', SubSeq(e, 1, stop - 1))
          /\ raised' = "none" => ran' = e
          /\ raised' = "UnknownWordError" => Len(ran') = stop - 1 /\ e[stop] # "..."
          /\ raised' = "RecursionError" => "..." \in Range(e) \/ Deepest)
BY Zenon DEF EndsAsSpelt, Finishes, Stop

\* A call runs the words of its definition depth first, each name meaning its
\* newest definition, up to the first that raises, is unknown or is nested too
\* deep: for all definitions and depths of Python's stack (forth.py,
\* _execute_colon and add_colon_def).
THEOREM ForthRunsItsExpansion == Spec => RunsItsExpansion
<1>1. Init => XInv
  BY StartOnCourse
<1>2. XInv /\ [Next]_vars => XInv'
  <2>1. ASSUME XInv, UNCHANGED vars PROVE XInv'
    <3>1. UNCHANGED <<colon, frames, raised, called, ran>>
      BY <2>1 DEF vars
    <3> QED  BY <2>1, <3>1, NothingRuns
  <2> QED  BY <2>1, StepOnCourse, HostOnCourse DEF Next
<1>3. XInv /\ [Next]_vars =>
        [InCall /\ ~InCall' =>
         LET e    == Expansion
             stop == Min({Len(e) + 1} \cup {i \in DOMAIN e : e[i] \notin Primitives})
         IN /\ IsPrefix(ran', SubSeq(e, 1, stop - 1))
            /\ raised' = "none" => ran' = e
            /\ raised' = "UnknownWordError" => Len(ran') = stop - 1 /\ e[stop] # "..."
            /\ raised' = "RecursionError" => "..." \in Range(e) \/ Deepest]_vars
  BY NextEndsAsSpelt, SpeltOutOfSteps, Zenon
<1> QED  BY <1>1, <1>2, <1>3, PTL DEF Spec, RunsItsExpansion

(***************************************************************************)
(* A stack in memory                                                       *)
(***************************************************************************)

\* the values between the base of stack s and p, oldest first, in memory m
View(s, m, p) == [i \in 1 .. Base(s) - p |-> m[Base(s) - i]]

\* It is a sequence.
LEMMA ViewSeq ==
  ASSUME NEW s \in Stacks, NEW m \in [Cells -> Int], NEW p \in Floor(s) .. Base(s)
  PROVE  /\ View(s, m, p) \in Seq(Int) /\ Len(View(s, m, p)) = Base(s) - p
         /\ Base(s) - p \in Nat
         /\ \A i \in 1 .. Base(s) - p : Base(s) - i \in Cells /\ View(s, m, p)[i] = m[Base(s) - i]
<1>1. LET c == View(s, m, p)
      IN  /\ c \in Seq(Int)
          /\ Len(c) = Base(s) - p
          /\ Base(s) - p \in 0 .. Size(s)
          /\ \A i \in 1 .. Base(s) - p : Base(s) - i \in Cells /\ c[i] = m[Base(s) - i]
  BY ReadOut, Zenon DEF View
<1>2. Base(s) - p \in Nat
  BY StackRegion
<1> QED  BY <1>1, <1>2, Zenon

\* Contents is the view from the stack pointer.
LEMMA ContentsView == \A s : Contents(s) = View(s, mem, sp[s])
BY DEF Contents, View

\* Nearer to the base there are fewer, the same ones.
LEMMA ViewPopped ==
  ASSUME NEW s \in Stacks, NEW m \in [Cells -> Int],
         NEW p \in Floor(s) .. Base(s), NEW q \in Floor(s) .. Base(s), p <= q
  PROVE  View(s, m, q) = SubSeq(View(s, m, p), 1, Base(s) - q)
<1>1. PICK b \in Nat, f \in Nat : b = Base(s) /\ f = Floor(s)
  BY StackRegion
<1>2. PICK u \in Seq(Int) : /\ u = View(s, m, p) /\ Len(u) = b - p
                            /\ \A i \in 1 .. b - p : u[i] = m[b - i]
  BY <1>1, ViewSeq
<1>3. PICK k \in Nat : k = b - q /\ k <= b - p
  BY <1>1
<1>4. SubSeq(u, 1, k) = [i \in 1 .. k |-> u[i]]
  BY <1>2, <1>3
<1>5. ASSUME NEW i \in 1 .. k PROVE u[i] = m[b - i]
  <2>1. i \in 1 .. b - p
    BY <1>1, <1>3, <1>5
  <2> QED  BY <1>2, <2>1, Zenon
<1>6. View(s, m, q) = [i \in 1 .. k |-> m[b - i]]
  BY <1>1, <1>3, Zenon DEF View
<1>7. [i \in 1 .. k |-> m[b - i]] = [i \in 1 .. k |-> u[i]]
  BY <1>5
<1> QED  BY <1>1, <1>2, <1>3, <1>4, <1>6, <1>7, Zenon

\* Memory that is as it was from p to the base has the same view.
LEMMA ViewKept ==
  ASSUME NEW s \in Stacks, NEW m, NEW n, NEW p \in Floor(s) .. Base(s),
         \A c \in Cells : p <= c /\ c < Base(s) => n[c] = m[c]
  PROVE  View(s, n, p) = View(s, m, p)
<1>1. \A i \in 1 .. Base(s) - p : Base(s) - i \in Cells /\ p <= Base(s) - i /\ Base(s) - i < Base(s)
  BY StackRegion, Regions DEF Cells
<1>2. \A i \in 1 .. Base(s) - p : n[Base(s) - i] = m[Base(s) - i]
  BY <1>1
<1> QED  BY <1>2 DEF View

\* n is m with the values from below p on
Holds(n, m, p, values) ==
  \A c \in Cells : n[c] = IF p - c \in 1 .. Len(values) THEN values[p - c] ELSE m[c]

\* Values put below p are the newest of the view from the last of them.
LEMMA ViewPushed ==
  ASSUME NEW s \in Stacks, NEW m \in [Cells -> Int], NEW n \in [Cells -> Int],
         NEW p \in Floor(s) .. Base(s), NEW values \in Seq(Int), Floor(s) <= p - Len(values),
         Holds(n, m, p, values)
  PROVE  View(s, n, p - Len(values)) = View(s, m, p) \o values
<1>1. PICK b \in Nat, f \in Nat : b = Base(s) /\ f = Floor(s)
  BY StackRegion
<1>2. PICK l \in Nat : l = Len(values)
  BY LenProperties
<1>3. PICK k \in Nat : k = b - p
  BY <1>1
<1>4. PICK u \in Seq(Int) : /\ u = View(s, m, p) /\ Len(u) = k
                            /\ \A i \in 1 .. k : u[i] = m[b - i]
  BY <1>1, <1>3, ViewSeq
<1>5. PICK q \in Floor(s) .. Base(s) : q = p - l /\ b - q = k + l
  <2>1. p - l \in Floor(s) .. Base(s) /\ b - (p - l) = k + l
    BY <1>1, <1>2, <1>3
  <2> QED  BY <2>1
<1>6. PICK v \in Seq(Int) : /\ v = View(s, n, q) /\ Len(v) = k + l
                            /\ \A i \in 1 .. k + l : b - i \in Cells /\ v[i] = n[b - i]
  <2>1. /\ View(s, n, q) \in Seq(Int) /\ Len(View(s, n, q)) = Base(s) - q
        /\ \A i \in 1 .. Base(s) - q : Base(s) - i \in Cells /\ View(s, n, q)[i] = n[Base(s) - i]
    BY ViewSeq, Zenon
  <2> QED  BY <1>1, <1>5, <2>1, Zenon
<1>7. ASSUME NEW i \in 1 .. k + l
      PROVE  v[i] = IF i <= k THEN u[i] ELSE values[i - k]
  <2>1. v[i] = IF p - (b - i) \in 1 .. l THEN values[p - (b - i)] ELSE m[b - i]
    BY <1>2, <1>6, <1>7 DEF Holds
  <2>2. p - (b - i) = i - k
    BY <1>1, <1>3
  <2>3. i - k \in 1 .. l <=> ~(i <= k)
    BY <1>7
  <2>4. i <= k => u[i] = m[b - i]
    BY <1>4, <1>7
  <2> QED  BY <2>1, <2>2, <2>3, <2>4
<1>8. u \o values \in Seq(Int) /\ Len(u \o values) = k + l
      /\ \A i \in 1 .. k + l : (u \o values)[i] = IF i <= k THEN u[i] ELSE values[i - k]
  <2>1. Len(u) = k /\ Len(values) = l
    BY <1>2, <1>4
  <2> HIDE <1>4
  <2> QED  BY <2>1, ConcatProperties
<1>9. PICK w \in Seq(Int) : w = u \o values /\ Len(w) = k + l
        /\ \A i \in 1 .. k + l : w[i] = IF i <= k THEN u[i] ELSE values[i - k]
  BY <1>8
<1>10. v = w
  <2>1. \A i \in 1 .. Len(v) : v[i] = w[i]
    BY <1>6, <1>7, <1>9
  <2> QED  BY <1>6, <1>9, <2>1, SeqEqual
<1> QED  BY <1>2, <1>4, <1>5, <1>6, <1>9, <1>10, Zenon

(***************************************************************************)
(* What is left of a stack, and put on it                                  *)
(***************************************************************************)

\* the stack s below its k newest values
Below(s, k) == SubSeq(Contents(s), 1, Len(Contents(s)) - k)

\* How many values a stack holds.
LEMMA HeldValues ==
  ASSUME StacksHold(Int), NEW s \in Stacks
  PROVE  /\ Contents(s) \in Seq(Int) /\ Len(Contents(s)) = Held(s) /\ Held(s) \in Nat /\ Held(s) <= Size(s)
         /\ \A i \in 1 .. Held(s) : Contents(s)[i] = mem[Base(s) - i]
<1>1. /\ Contents(s) \in Seq(Int) /\ Len(Contents(s)) = Held(s) /\ Held(s) \in 0 .. Size(s)
      /\ \A i \in 1 .. Held(s) : Contents(s)[i] = mem[Base(s) - i]
  BY ContentsSeq, Zenon DEF Held
<1> QED  BY <1>1, StackRegion

\* What a word leaves on its source once it has popped k values.
LEMMA PopsView ==
  ASSUME StacksHold(Int), NEW w, NEW s, s = Source(w), NEW k \in 0 .. Held(s), NEW p, p = Popped(w, k)
  PROVE  /\ s \in Stacks /\ InRegions(p) /\ p[s] = sp[s] + k /\ \A u \in Stacks \ {s} : p[u] = sp[u]
         /\ View(s, mem, p[s]) = Below(s, k)
         /\ \A u \in Stacks \ {s} : View(u, mem, p[u]) = Contents(u)
<1>1. s \in Stacks
  BY DEF Source, Stacks
<1>2. InRegions(p)
  BY PoppedStays
<1>3. p[s] = sp[s] + k /\ \A u \in Stacks \ {s} : p[u] = sp[u]
  BY <1>1 DEF Popped, StacksHold
<1>4. View(s, mem, p[s]) = Below(s, k)
  <2>1. PICK a \in Floor(s) .. Base(s), b \in Floor(s) .. Base(s) : a = sp[s] /\ b = p[s]
    BY <1>1, <1>2 DEF InRegions, StacksHold, PointersInBounds
  <2>2. a <= b /\ Base(s) - b = Base(s) - a - k
    BY <1>1, <1>3, <2>1, StackRegion
  <2>3. View(s, mem, b) = SubSeq(View(s, mem, a), 1, Base(s) - b)
    BY <1>1, <2>2, ViewPopped DEF StacksHold
  <2>4. Len(Contents(s)) - k = Base(s) - b
    BY <1>1, <2>1, <2>2, HeldValues DEF Held
  <2> QED  BY <2>1, <2>3, <2>4, ContentsView, Zenon DEF Below
<1>5. \A u \in Stacks \ {s} : View(u, mem, p[u]) = Contents(u)
  BY <1>3, ContentsView, Zenon
<1> QED  BY <1>1, <1>2, <1>3, <1>4, <1>5

\* the dictionary is as it was
DictionaryKept == \A a \in 0 .. DICTIONARY_SIZE - 1 : mem'[a] = mem[a]

\* What a word leaves that has popped its operands and pushed values.
LEMMA PushesView ==
  ASSUME StacksHold(Int), NEW w \in DataWords, NEW p, InRegions(p), p = Popped(w, Pops(w)),
         NEW t, t = Target(w), NEW values \in Seq(Int), Floor(t) <= p[t] - Len(values),
         mem' = Pushed(w, values), sp' = [p EXCEPT ![t] = @ - Len(values)]
  PROVE  /\ Contents(t)' = View(t, mem, p[t]) \o values
         /\ \A u \in Stacks \ {t} : Contents(u)' = View(u, mem, p[u])
         /\ DictionaryKept
<1>1. t \in Stacks
  BY DEF Target, Stacks
<1>2. PICK q \in Floor(t) .. Base(t) : q = p[t] /\ q \in Int
  BY <1>1, StackRegion DEF InRegions
<1>3. PICK l \in Nat : l = Len(values) /\ DOMAIN values = 1 .. l
  BY LenProperties
<1>4. sp' = [p EXCEPT ![t] = q - l] /\ sp'[t] = q - l /\ \A u \in Stacks \ {t} : sp'[u] = p[u]
  <2>1. sp' = [p EXCEPT ![t] = q - l]
    BY <1>2, <1>3
  <2> QED  BY <1>1, <2>1 DEF InRegions
<1>5. mem' = [c \in Cells |-> IF q - c \in 1 .. l THEN values[q - c] ELSE mem[c]]
  <2>1. mem' = [c \in Cells |-> IF q - c \in DOMAIN values THEN values[q - c] ELSE mem[c]]
    BY <1>2, Zenon DEF Pushed
  <2> QED  BY <1>3, <2>1
<1>6. mem \in [Cells -> Int] /\ mem' \in [Cells -> Int]
  BY PushedStays DEF StacksHold
<1>7. Holds(mem', mem, q, values)
  BY <1>3, <1>5 DEF Holds
<1>8. Contents(t)' = View(t, mem, q) \o values
  <2>1. View(t, mem', q - Len(values)) = View(t, mem, q) \o values
    <3>1. Floor(t) <= q - Len(values)
      BY <1>2, Zenon
    <3> QED  BY <1>1, <1>6, <1>7, <3>1, ViewPushed, Zenon
  <2>2. Contents(t)' = View(t, mem', q - Len(values))
    <3>1. sp'[t] = q - Len(values)
      BY <1>3, <1>4
    <3> QED  BY <3>1 DEF Contents, View
  <2> QED  BY <2>1, <2>2, Zenon
<1>9. PICK f \in Nat, b \in Nat : f = Floor(t) /\ b = Base(t)
  BY <1>1, StackRegion
<1>10. \A c \in Cells : c < f \/ c >= b => mem'[c] = mem[c]
  <2>1. \A c \in Cells : c \in Int
    BY Regions DEF Cells
  <2>2. q <= b /\ f <= q - l
    BY <1>2, <1>3, <1>9
  <2> QED  BY <1>2, <1>3, <1>5, <1>9, <2>1, <2>2
<1>11. ASSUME NEW u \in Stacks \ {t} PROVE Contents(u)' = View(u, mem, p[u])
  <2>1. PICK v \in Floor(u) .. Base(u) : v = p[u]
    BY <1>11 DEF InRegions
  <2>2. b <= Floor(u) \/ Base(u) <= f
    BY <1>1, <1>9, <1>11, Regions DEF Stacks
  <2>3. \A c \in Cells : v <= c /\ c < Base(u) => mem'[c] = mem[c]
    BY <1>9, <1>10, <2>1, <2>2, StackRegion, Regions DEF Cells
  <2>4. View(u, mem', v) = View(u, mem, v)
    BY <1>11, <2>3, ViewKept
  <2>5. Contents(u)' = View(u, mem', sp'[u])
    BY DEF Contents, View
  <2> QED  BY <1>4, <1>11, <2>1, <2>4, <2>5
<1>12. DictionaryKept
  <2>1. ASSUME NEW a \in 0 .. DICTIONARY_SIZE - 1 PROVE a \in Cells /\ a < f
    BY <1>1, <1>9, StackRegion, Regions DEF Cells
  <2> QED  BY <1>10, <2>1 DEF DictionaryKept
<1> QED  BY <1>2, <1>8, <1>11, <1>12

(***************************************************************************)
(* What fits on a stack                                                    *)
(***************************************************************************)

\* The first k of a sequence.
LEMMA FirstOf ==
  ASSUME NEW s \in Seq(Int), NEW k \in 0 .. Len(s)
  PROVE  /\ SubSeq(s, 1, k) \in Seq(Int) /\ Len(SubSeq(s, 1, k)) = k
         /\ \A i \in 1 .. k : SubSeq(s, 1, k)[i] = s[i]
OBVIOUS

\* What is behind the size-th value is cut off: all of it is of the second part.
LEMMA CutOff ==
  ASSUME NEW base \in Seq(Int), NEW g \in Seq(Int), NEW size \in Nat,
         Len(base) <= size, size <= Len(base) + Len(g)
  PROVE  SubSeq(base \o g, 1, size) = base \o SubSeq(g, 1, size - Len(base))
<1>1. PICK k \in Nat, l \in Nat : k = Len(base) /\ l = Len(g)
  BY LenProperties
<1>2. PICK e \in Seq(Int) : /\ e = base \o g /\ Len(e) = k + l
                            /\ \A i \in 1 .. k + l : e[i] = IF i <= k THEN base[i] ELSE g[i - k]
  <2>1. base \o g \in Seq(Int) /\ Len(base \o g) = k + l
        /\ \A i \in 1 .. k + l : (base \o g)[i] = IF i <= k THEN base[i] ELSE g[i - k]
    BY <1>1, ConcatProperties, Zenon
  <2> QED  BY <2>1, Zenon
<1>3. PICK d \in Nat : d = size - k /\ d <= l
  <2>1. size - k \in Nat /\ size - k <= l
    BY <1>1
  <2> QED  BY <2>1
<1>4. PICK h \in Seq(Int) : h = SubSeq(g, 1, d) /\ Len(h) = d /\ \A i \in 1 .. d : h[i] = g[i]
  <2>1. d \in 0 .. Len(g)
    BY <1>1, <1>3
  <2> QED  BY <2>1, FirstOf, Zenon
<1>5. PICK u \in Seq(Int) : u = SubSeq(e, 1, size) /\ Len(u) = size /\ \A i \in 1 .. size : u[i] = e[i]
  <2>1. size \in 0 .. Len(e)
    BY <1>1, <1>2
  <2> QED  BY <2>1, FirstOf, Zenon
<1>6. PICK v \in Seq(Int) : /\ v = base \o h /\ Len(v) = k + d
                            /\ \A i \in 1 .. k + d : v[i] = IF i <= k THEN base[i] ELSE h[i - k]
  <2>1. base \o h \in Seq(Int) /\ Len(base \o h) = k + d
        /\ \A i \in 1 .. k + d : (base \o h)[i] = IF i <= k THEN base[i] ELSE h[i - k]
    <3>1. Len(base) = k /\ Len(h) = d
      BY <1>1, <1>4, Zenon
    <3> HIDE <1>4
    <3> QED  BY <3>1, ConcatProperties
  <2> QED  BY <2>1, Zenon
<1>7. Len(u) = Len(v) /\ \A i \in 1 .. Len(u) : u[i] = v[i]
  <2>1. size = k + d
    BY <1>1, <1>3
  <2>2. ASSUME NEW i \in 1 .. size PROVE u[i] = v[i]
    <3>1. i \in 1 .. k + l /\ i \in 1 .. k + d /\ (~(i <= k) => i - k \in 1 .. d)
      BY <1>1, <2>1
    <3> QED  BY <1>2, <1>4, <1>5, <1>6, <3>1
  <2> QED  BY <1>5, <1>6, <2>1, <2>2
<1>8. u = v
  BY <1>5, <1>6, <1>7, SeqEqual
<1> QED  BY <1>1, <1>2, <1>3, <1>4, <1>5, <1>6, <1>8, Zenon

\* c is a stack of that size onto which g has been pushed, or what of it fits
Fits(base, g, size, c, outcome) ==
  IF Len(base) + Len(g) <= size THEN c = base \o g /\ outcome = "none"
  ELSE c = SubSeq(base \o g, 1, size) /\ outcome = "StackError"

\* It is said of what the two are together.
LEMMA FitsTogether ==
  ASSUME NEW base \in Seq(Int), NEW g \in Seq(Int), NEW under \in Seq(Int), NEW results \in Seq(Int),
         base \o g = under \o results, NEW size, NEW c, NEW outcome, Fits(base, g, size, c, outcome)
  PROVE  Fits(under, results, size, c, outcome)
<1>1. Len(base) + Len(g) = Len(under) + Len(results)
  <2>1. Len(base \o g) = Len(base) + Len(g) /\ Len(under \o results) = Len(under) + Len(results)
    BY ConcatProperties
  <2> QED  BY <2>1
<1> QED  BY <1>1, Zenon DEF Fits

\* A word that has its operands and faults at none leaves what fits.
LEMMA Completes ==
  ASSUME StacksHold(Int), NEW w \in DataWords, w # "!", DataWord(w),
         Needs(w) <= Held(Source(w)), Faults(w) = "none",
         NEW t, t = Target(w), NEW p, p = Popped(w, Pops(w))
  PROVE  /\ Fits(View(t, mem, p[t]), Gives(w), Size(t), Contents(t)', raised')
         /\ \A u \in Stacks \ {t} : Contents(u)' = View(u, mem, p[u])
         /\ DictionaryKept
<1>1. PICK g \in Seq(Int) : g = Gives(w)
  BY GivenValues
<1>2. Pops(w) \in 0 .. Held(Source(w)) /\ Pops(w) <= Held(Source(w))
  <2>1. Held(Source(w)) \in Int
    BY StackRegion DEF Held, Source, Stacks, StacksHold
  <2> QED  BY <2>1, Operands
<1>3. t \in Stacks /\ InRegions(p)
  BY <1>2, PoppedStays DEF Target, Stacks
<1>4. PICK r : r = Room(w)
  OBVIOUS
<1>5. /\ sp' = [p EXCEPT ![t] = @ - r] /\ mem' = Pushed(w, SubSeq(g, 1, r))
      /\ raised' = IF r < Len(g) THEN "StackError" ELSE "none"
  <2>1. ~(Held(Source(w)) < Pops(w) + (IF Peeks(w) THEN 1 ELSE 0))
    <3>1. Held(Source(w)) \in Int
      BY StackRegion DEF Held, Source, Stacks, StacksHold
    <3> QED  BY <3>1, Operands DEF Needs
  <2> QED  BY <1>1, <1>4, <2>1, Zenon DEF DataWord
<1>6. PICK q \in Int : q = p[t] /\ Floor(t) <= q /\ q <= Base(t)
  BY <1>3, StackRegion DEF InRegions
<1>7. PICK l \in Nat : l = Len(g)
  BY LenProperties
<1>8. PICK d \in Nat : d = q - Floor(t)
  BY <1>3, <1>6, StackRegion
<1>9. r \in {l, d} /\ r <= l /\ r <= d /\ r \in Nat
  <2>1. r = Min({l, d})
    BY <1>1, <1>4, <1>6, <1>7, <1>8, Zenon DEF Room
  <2>2. l \in Int /\ d \in Int
    OBVIOUS
  <2>3. r \in {l, d} /\ r <= l /\ r <= d
    BY <2>1, <2>2, LeastOfTwo, Zenon
  <2> QED  BY <2>3
<1>10. PICK h \in Seq(Int) : h = SubSeq(g, 1, r) /\ Len(h) = r
  <2>1. r \in 0 .. Len(g)
    BY <1>7, <1>9
  <2> QED  BY <2>1, FirstOf, Zenon
<1>11. /\ Contents(t)' = View(t, mem, p[t]) \o h
       /\ \A u \in Stacks \ {t} : Contents(u)' = View(u, mem, p[u])
       /\ DictionaryKept
  <2>1. Floor(t) <= p[t] - Len(h)
    BY <1>3, <1>6, <1>8, <1>9, <1>10, StackRegion
  <2>2. sp' = [p EXCEPT ![t] = @ - Len(h)] /\ mem' = Pushed(w, h)
    BY <1>5, <1>10, Zenon
  <2> QED  BY <1>3, <2>1, <2>2, PushesView
<1>12. PICK base \in Seq(Int) : base = View(t, mem, p[t]) /\ Len(base) = Base(t) - q
  <2>1. mem \in [Cells -> Int]
    BY DEF StacksHold
  <2>2. View(t, mem, q) \in Seq(Int) /\ Len(View(t, mem, q)) = Base(t) - q
    <3>1. q \in Floor(t) .. Base(t)
      BY <1>3, <1>6, StackRegion
    <3> QED  BY <1>3, <2>1, <3>1, ViewSeq
  <2> QED  BY <1>6, <2>2, Zenon
<1>13. Len(base) \in Nat /\ d = Size(t) - Len(base) /\ Size(t) \in Nat
  BY <1>3, <1>6, <1>8, <1>12, StackRegion, LenProperties
<1>14. Fits(base, g, Size(t), Contents(t)', raised')
  <2>1. CASE Len(base) + l <= Size(t)
    <3>1. r = l /\ ~(r < l)
      BY <1>9, <1>13, <2>1
    <3>2. h = g
      BY <1>7, <1>10, <3>1
    <3> QED  BY <1>5, <1>7, <1>11, <1>12, <2>1, <3>1, <3>2, Zenon DEF Fits
  <2>2. CASE ~(Len(base) + l <= Size(t))
    <3>1. r = d /\ r < l /\ Len(base) <= Size(t) /\ Size(t) <= Len(base) + l
      BY <1>9, <1>13, <2>2
    <3>2. SubSeq(base \o g, 1, Size(t)) = base \o SubSeq(g, 1, Size(t) - Len(base))
      BY <1>7, <1>13, <3>1, CutOff
    <3> QED  BY <1>5, <1>7, <1>10, <1>11, <1>12, <1>13, <2>2, <3>1, <3>2, Zenon DEF Fits
  <2> QED  BY <2>1, <2>2
<1> QED  BY <1>1, <1>11, <1>12, <1>14, Zenon

(***************************************************************************)
(* The kernel's routine for a word: its operands and its results           *)
(***************************************************************************)

\* the words that compute with the data stack only, and are in the kernel
PureWords == DataWords \ ({"AND", "OR", "/", "MOD", "@", "!", ">R", "R>", "R@"})

\* The operands of a step of the kernel are the values a word of the service sees.
LEMMA OperandsSeen ==
  ASSUME StacksHold(Int), NEW w, Source(w) = "D", NEW n \in Nat, n <= Held("D"), NEW i \in 1 .. n
  PROVE  Kernel!Arg(n, i) = Seen(w, n - i + 1) /\ Kernel!Arg(n, i) \in Int
<1>1. PICK h \in Nat : /\ h = Held("D") /\ Len(Contents("D")) = h /\ Contents("D") \in Seq(Int)
                       /\ \A k \in 1 .. h : Contents("D")[k] = mem[Base("D") - k]
  BY HeldValues DEF Stacks
<1>2. PICK b \in Nat, p \in Int : b = Base("D") /\ p = sp["D"] /\ h = b - p
  BY <1>1, StackRegion DEF Held, Stacks, StacksHold
<1>3. PICK k \in 1 .. h : k = h - n + i
  BY <1>1
<1>4. Kernel!Arg(n, i) = Contents("D")[k]
  BY <1>1, <1>3 DEF Kernel!Arg
<1>5. Seen(w, n - i + 1) = mem[b - k]
  <2>1. p + (n - i + 1) - 1 = b - k
    BY <1>2, <1>3
  <2> QED  BY <1>2, <2>1 DEF Seen
<1>6. Contents("D")[k] \in Int
  BY <1>1, <1>3
<1> QED  BY <1>1, <1>2, <1>3, <1>4, <1>5, <1>6

\* A part of one element.
LEMMA OneOf == ASSUME NEW s \in Seq(Int), NEW d \in 1 .. Len(s) PROVE SubSeq(s, d, d) = <<s[d]>>
<1>1. s[d] \in Int /\ <<s[d]>> \in Seq(Int)
  OBVIOUS
<1>2. SubSeq(s, d, d) \in Seq(Int) /\ Len(SubSeq(s, d, d)) = 1 /\ SubSeq(s, d, d)[1] = s[d]
  OBVIOUS
<1>3. PICK u \in Seq(Int) : u = SubSeq(s, d, d) /\ Len(u) = 1 /\ u[1] = s[d]
  BY <1>2, Zenon
<1>4. Len(<<s[d]>>) = 1 /\ <<s[d]>>[1] = s[d]
  BY <1>1
<1>5. \A i \in 1 .. Len(u) : u[i] = <<s[d]>>[i]
  BY <1>3, <1>4
<1>6. u = <<s[d]>>
  BY <1>1, <1>3, <1>4, <1>5, SeqEqual
<1> QED  BY <1>3, <1>6

\* What lies below fewer operands lies below more of them, and the next ones.
LEMMA BelowOne ==
  ASSUME StacksHold(Int), NEW k \in Nat, k < Held("D"), NEW w, Source(w) = "D"
  PROVE  Below("D", k) = Below("D", k + 1) \o <<Seen(w, k + 1)>> /\ Below("D", k) \in Seq(Int)
         /\ Below("D", k + 1) \in Seq(Int)
<1>1. PICK h \in Nat, s \in Seq(Int) : /\ h = Held("D") /\ s = Contents("D") /\ Len(s) = h
                       /\ \A i \in 1 .. h : s[i] = mem[Base("D") - i]
  BY HeldValues DEF Stacks
<1>2. PICK b \in Nat, p \in Int : b = Base("D") /\ p = sp["D"] /\ h = b - p
  BY <1>1, StackRegion DEF Held, Stacks, StacksHold
<1>3. PICK d \in 1 .. h : d = h - k
  BY <1>1
<1>4. Seen(w, k + 1) = s[d] /\ s[d] \in Int
  <2>1. p + (k + 1) - 1 = b - d
    <3>1. h = b - p /\ d = h - k
      BY <1>2, <1>3, Zenon
    <3> QED  BY <3>1
  <2>2. Seen(w, k + 1) = mem[p + (k + 1) - 1]
    BY <1>2, Zenon DEF Seen
  <2>3. s[d] = mem[b - d] /\ s[d] \in Int
    <3>1. s[d] = mem[b - d]
      BY <1>1, <1>2, <1>3, Zenon
    <3>2. d \in 1 .. Len(s)
      BY <1>1, <1>3
    <3> QED  BY <3>1, <3>2
  <2> QED  BY <2>1, <2>2, <2>3, Zenon
<1>5. SubSeq(s, 1, d) = SubSeq(s, 1, d - 1) \o <<s[d]>>
  <2>1. PICK c : c = d - 1 /\ c + 1 = d
    BY <1>3
  <2>2. Len(s) = h
    BY <1>1
  <2>3. SubSeq(s, 1, c) \o SubSeq(s, c + 1, d) = SubSeq(s, 1, d)
    <3>1. 1 \in 1 .. Len(s) + 1 /\ c \in 1 - 1 .. Len(s) /\ d \in c .. Len(s)
      BY <1>3, <2>1, <2>2
    <3> QED  BY <3>1, ConcatAdjacentSubSeq, Zenon
  <2>4. SubSeq(s, d, d) = <<s[d]>>
    <3>1. d \in 1 .. Len(s)
      BY <1>3, <2>2
    <3> QED  BY <3>1, OneOf, Zenon
  <2> QED  BY <2>1, <2>3, <2>4, Zenon
<1>6. SubSeq(s, 1, d) \in Seq(Int) /\ SubSeq(s, 1, d - 1) \in Seq(Int)
  BY <1>1, <1>3
<1>7. Below("D", k) = SubSeq(s, 1, d) /\ Below("D", k + 1) = SubSeq(s, 1, d - 1)
  BY <1>1, <1>3 DEF Below
<1> QED  BY <1>4, <1>5, <1>6, <1>7

\* A word and its routine take as many operands.
LEMMA SameOperands ==
  ASSUME NEW w \in PureWords, NEW l, <<w, l>> \in Labels
  PROVE  /\ l \in DOMAIN Kernel!Operands /\ Kernel!Operands[l] = Needs(w)
         /\ Source(w) = "D" /\ Target(w) = "D" /\ Faults(w) = "none" /\ w \in DataWords /\ w # "!"
<1>1. /\ Source(w) = "D" /\ Target(w) = "D" /\ Faults(w) = "none" /\ w \in DataWords /\ w # "!"
  BY DEF PureWords, Source, Target, Faults
<1>2. CASE w \in {"+", "-", "*", "=", "<>", "<", ">"}
  <2>1. l \in {"PLUS", "MINUS", "MUL", "EQUALS", "NOTEQUALS", "LESSTHAN", "GREATERTHAN"}
    BY <1>2 DEF Labels
  <2>2. Needs(w) = 2
    BY <1>2, Operands DEF DataWords, BinaryOps
  <2> QED  BY <1>1, <2>1, <2>2 DEF Kernel!Operands
<1>3. CASE w \in {"SWAP", "OVER", "NIP", "TUCK"}
  <2>1. l = w
    BY <1>3 DEF Labels
  <2>2. Needs(w) = 2
    BY <1>1, <1>3, Operands
  <2> QED  BY <1>1, <1>3, <2>1, <2>2 DEF Kernel!Operands
<1>4. CASE w \in {"ROT", "-ROT"}
  <2>1. l \in {"ROT", "NROT"}
    BY <1>4 DEF Labels
  <2>2. Needs(w) = 3
    BY <1>1, <1>4, Operands
  <2> QED  BY <1>1, <2>1, <2>2 DEF Kernel!Operands
<1>5. CASE w \in {"NEGATE", "ABS", "1+", "1-", "0=", "0<", "INVERT", "DUP", "DROP"}
  <2>1. l \in {"NEGATE", "ABS", "ONEPLUS", "ONEMINUS", "ZEROEQ", "ZEROLT", "BITINVERT", "DUP", "DROP"}
    BY <1>5 DEF Labels
  <2>2. Needs(w) = 1
    BY <1>5 DEF Needs, Pops, Peeks, BinaryOps
  <2> QED  BY <1>1, <2>1, <2>2 DEF Kernel!Operands
<1>6. \/ w \in {"+", "-", "*", "=", "<>", "<", ">"} \/ w \in {"SWAP", "OVER", "NIP", "TUCK"}
      \/ w \in {"ROT", "-ROT"}
      \/ w \in {"NEGATE", "ABS", "1+", "1-", "0=", "0<", "INVERT", "DUP", "DROP"}
  BY DEF PureWords, DataWords, BinaryOps, UnaryOps, Shuffles
<1> QED  BY <1>2, <1>3, <1>4, <1>5, <1>6

\* What a word leaves, going by its routine: the routine's results, and 1 for a
\* flag that it leaves as -1.
Left(w, l) == IF w \in Comparisons THEN << -Kernel!Results(l)[1] >> ELSE Kernel!Results(l)

\* The routine of a word with two operands computes its value, or its flag: the
\* older operand is the first of both.
LEMMA SameBinary ==
  ASSUME NEW w \in {"+", "-", "*", "=", "<>", "<", ">"}, NEW l, <<w, l>> \in Labels,
         NEW x \in Int, NEW y \in Int, Kernel!Arg(2, 1) = y, Kernel!Arg(2, 2) = x
  PROVE  Left(w, l) = <<Binary(w, y, x)>>
<1>1. CASE w = "+"
  <2>1. l = "PLUS" /\ Binary(w, y, x) = y + x
    BY <1>1 DEF Labels, Binary
  <2>2. Kernel!Results("PLUS") = <<y + x>>
    BY DEF Kernel!Results, Kernel!Operands
  <2>3. w \notin Comparisons /\ Left(w, l) = Kernel!Results(l)
    BY <1>1 DEF Comparisons, Left
  <2> QED  BY <2>1, <2>2, <2>3
<1>2. CASE w = "-"
  <2>1. l = "MINUS" /\ Binary(w, y, x) = y - x
    BY <1>2 DEF Labels, Binary
  <2>2. Kernel!Results("MINUS") = <<y - x>>
    BY DEF Kernel!Results, Kernel!Operands
  <2>3. w \notin Comparisons /\ Left(w, l) = Kernel!Results(l)
    BY <1>2 DEF Comparisons, Left
  <2> QED  BY <2>1, <2>2, <2>3
<1>3. CASE w = "*"
  <2>1. l = "MUL" /\ Binary(w, y, x) = y * x
    BY <1>3 DEF Labels, Binary
  <2>2. Kernel!Results("MUL") = <<y * x>>
    BY DEF Kernel!Results, Kernel!Operands
  <2>3. w \notin Comparisons /\ Left(w, l) = Kernel!Results(l)
    BY <1>3 DEF Comparisons, Left
  <2> QED  BY <2>1, <2>2, <2>3
<1>4. CASE w = "="
  <2>1. l = "EQUALS" /\ Binary(w, y, x) = Truth(y = x)
    BY <1>4 DEF Labels, Binary, Truth
  <2>2. Kernel!Results("EQUALS") = << IF y = x THEN -1 ELSE 0 >>
    BY DEF Kernel!Results, Kernel!Operands, Kernel!Flag
  <2>3. w \in Comparisons /\ Left(w, l) = << -Kernel!Results(l)[1] >>
    BY <1>4 DEF Comparisons, Left
  <2> QED  BY <2>1, <2>2, <2>3 DEF Truth
<1>5. CASE w = "<>"
  <2>1. l = "NOTEQUALS" /\ Binary(w, y, x) = Truth(y # x)
    BY <1>5 DEF Labels, Binary, Truth
  <2>2. Kernel!Results("NOTEQUALS") = << IF y # x THEN -1 ELSE 0 >>
    BY DEF Kernel!Results, Kernel!Operands, Kernel!Flag
  <2>3. w \in Comparisons /\ Left(w, l) = << -Kernel!Results(l)[1] >>
    BY <1>5 DEF Comparisons, Left
  <2> QED  BY <2>1, <2>2, <2>3 DEF Truth
<1>6. CASE w = "<"
  <2>1. l = "LESSTHAN" /\ Binary(w, y, x) = Truth(y < x)
    BY <1>6 DEF Labels, Binary, Truth
  <2>2. Kernel!Results("LESSTHAN") = << IF y < x THEN -1 ELSE 0 >>
    BY DEF Kernel!Results, Kernel!Operands, Kernel!Flag
  <2>3. w \in Comparisons /\ Left(w, l) = << -Kernel!Results(l)[1] >>
    BY <1>6 DEF Comparisons, Left
  <2> QED  BY <2>1, <2>2, <2>3 DEF Truth
<1>7. CASE w = ">"
  <2>1. l = "GREATERTHAN" /\ Binary(w, y, x) = Truth(y > x)
    BY <1>7 DEF Labels, Binary, Truth
  <2>2. Kernel!Results("GREATERTHAN") = << IF y > x THEN -1 ELSE 0 >>
    BY DEF Kernel!Results, Kernel!Operands, Kernel!Flag
  <2>3. w \in Comparisons /\ Left(w, l) = << -Kernel!Results(l)[1] >>
    BY <1>7 DEF Comparisons, Left
  <2> QED  BY <2>1, <2>2, <2>3 DEF Truth
<1> QED  BY <1>1, <1>2, <1>3, <1>4, <1>5, <1>6, <1>7

\* The routine of a word with one operand computes its value, or its flag.
LEMMA SameUnary ==
  ASSUME NEW w \in {"NEGATE", "ABS", "1+", "1-", "0=", "0<", "INVERT"}, NEW l, <<w, l>> \in Labels,
         NEW x \in Int, Kernel!Arg(1, 1) = x
  PROVE  Left(w, l) = <<Unary(w, x)>>
<1>1. CASE w = "NEGATE"
  <2>1. l = "NEGATE" /\ Unary(w, x) = -x
    BY <1>1 DEF Labels, Unary
  <2>2. Kernel!Results("NEGATE") = <<-x>>
    BY DEF Kernel!Results, Kernel!Operands
  <2>3. w \notin Comparisons /\ Left(w, l) = Kernel!Results(l)
    BY <1>1 DEF Comparisons, Left
  <2> QED  BY <2>1, <2>2, <2>3
<1>2. CASE w = "ABS"
  <2>1. l = "ABS" /\ Unary(w, x) = IF x < 0 THEN -x ELSE x
    BY <1>2 DEF Labels, Unary
  <2>2. Kernel!Results("ABS") = <<IF x < 0 THEN -x ELSE x>>
    BY DEF Kernel!Results, Kernel!Operands
  <2>3. w \notin Comparisons /\ Left(w, l) = Kernel!Results(l)
    BY <1>2 DEF Comparisons, Left
  <2> QED  BY <2>1, <2>2, <2>3
<1>3. CASE w = "1+"
  <2>1. l = "ONEPLUS" /\ Unary(w, x) = x + 1
    BY <1>3 DEF Labels, Unary
  <2>2. Kernel!Results("ONEPLUS") = <<x + 1>>
    BY DEF Kernel!Results, Kernel!Operands
  <2>3. w \notin Comparisons /\ Left(w, l) = Kernel!Results(l)
    BY <1>3 DEF Comparisons, Left
  <2> QED  BY <2>1, <2>2, <2>3
<1>4. CASE w = "1-"
  <2>1. l = "ONEMINUS" /\ Unary(w, x) = x - 1
    BY <1>4 DEF Labels, Unary
  <2>2. Kernel!Results("ONEMINUS") = <<x - 1>>
    BY DEF Kernel!Results, Kernel!Operands
  <2>3. w \notin Comparisons /\ Left(w, l) = Kernel!Results(l)
    BY <1>4 DEF Comparisons, Left
  <2> QED  BY <2>1, <2>2, <2>3
<1>5. CASE w = "0="
  <2>1. l = "ZEROEQ" /\ Unary(w, x) = Truth(x = 0)
    BY <1>5 DEF Labels, Unary, Truth
  <2>2. Kernel!Results("ZEROEQ") = << IF x = 0 THEN -1 ELSE 0 >>
    BY DEF Kernel!Results, Kernel!Operands, Kernel!Flag
  <2>3. w \in Comparisons /\ Left(w, l) = << -Kernel!Results(l)[1] >>
    BY <1>5 DEF Comparisons, Left
  <2> QED  BY <2>1, <2>2, <2>3 DEF Truth
<1>6. CASE w = "0<"
  <2>1. l = "ZEROLT" /\ Unary(w, x) = Truth(x < 0)
    BY <1>6 DEF Labels, Unary, Truth
  <2>2. Kernel!Results("ZEROLT") = << IF x < 0 THEN -1 ELSE 0 >>
    BY DEF Kernel!Results, Kernel!Operands, Kernel!Flag
  <2>3. w \in Comparisons /\ Left(w, l) = << -Kernel!Results(l)[1] >>
    BY <1>6 DEF Comparisons, Left
  <2> QED  BY <2>1, <2>2, <2>3 DEF Truth
<1>7. CASE w = "INVERT"
  <2>1. l = "BITINVERT" /\ Unary(w, x) = -x - 1
    BY <1>7 DEF Labels, Unary
  <2>2. Kernel!Results("BITINVERT") = <<-x - 1>>
    BY DEF Kernel!Results, Kernel!Operands
  <2>3. w \notin Comparisons /\ Left(w, l) = Kernel!Results(l)
    BY <1>7 DEF Comparisons, Left
  <2> QED  BY <2>1, <2>2, <2>3
<1> QED  BY <1>1, <1>2, <1>3, <1>4, <1>5, <1>6, <1>7

\* The routine of a word that rearranges two or three values, or drops one,
\* leaves what the word pushes.
LEMMA SameShuffle ==
  ASSUME NEW w \in {"DROP", "SWAP", "NIP", "TUCK", "ROT", "-ROT"}, NEW l, <<w, l>> \in Labels,
         NEW x, NEW y, NEW z, x = Seen(w, 1), y = Seen(w, 2), z = Seen(w, 3),
         w \in {"SWAP", "NIP", "TUCK"} => Kernel!Arg(2, 1) = y /\ Kernel!Arg(2, 2) = x,
         w \in {"ROT", "-ROT"} => /\ Kernel!Arg(3, 1) = z /\ Kernel!Arg(3, 2) = y
                                 /\ Kernel!Arg(3, 3) = x
  PROVE  Kernel!Results(l) = Gives(w)
<1>1. CASE w = "DROP"
  <2>1. l = "DROP"
    BY <1>1 DEF Labels
  <2>2. Gives(w) = << >>
    BY <1>1 DEF Gives, BinaryOps, UnaryOps
  <2>3. Kernel!Results("DROP") = << >>
    BY <1>1 DEF Kernel!Results, Kernel!Operands
  <2> QED  BY <2>1, <2>2, <2>3
<1>2. CASE w = "SWAP"
  <2>1. l = "SWAP"
    BY <1>2 DEF Labels
  <2>2. Gives(w) = <<x, y>>
    BY <1>2 DEF Gives, BinaryOps, UnaryOps
  <2>3. Kernel!Results("SWAP") = <<x, y>>
    BY <1>2 DEF Kernel!Results, Kernel!Operands
  <2> QED  BY <2>1, <2>2, <2>3
<1>3. CASE w = "NIP"
  <2>1. l = "NIP"
    BY <1>3 DEF Labels
  <2>2. Gives(w) = <<x>>
    BY <1>3 DEF Gives, BinaryOps, UnaryOps
  <2>3. Kernel!Results("NIP") = <<x>>
    BY <1>3 DEF Kernel!Results, Kernel!Operands
  <2> QED  BY <2>1, <2>2, <2>3
<1>4. CASE w = "TUCK"
  <2>1. l = "TUCK"
    BY <1>4 DEF Labels
  <2>2. Gives(w) = <<x, y, x>>
    BY <1>4 DEF Gives, BinaryOps, UnaryOps
  <2>3. Kernel!Results("TUCK") = <<x, y, x>>
    BY <1>4 DEF Kernel!Results, Kernel!Operands
  <2> QED  BY <2>1, <2>2, <2>3
<1>5. CASE w = "ROT"
  <2>1. l = "ROT"
    BY <1>5 DEF Labels
  <2>2. Gives(w) = <<y, x, z>>
    BY <1>5 DEF Gives, BinaryOps, UnaryOps
  <2>3. Kernel!Results("ROT") = <<y, x, z>>
    BY <1>5 DEF Kernel!Results, Kernel!Operands
  <2> QED  BY <2>1, <2>2, <2>3
<1>6. CASE w = "-ROT"
  <2>1. l = "NROT"
    BY <1>6 DEF Labels
  <2>2. Gives(w) = <<x, z, y>>
    BY <1>6 DEF Gives, BinaryOps, UnaryOps
  <2>3. Kernel!Results("NROT") = <<x, z, y>>
    BY <1>6 DEF Kernel!Results, Kernel!Operands
  <2> QED  BY <2>1, <2>2, <2>3
<1> QED  BY <1>1, <1>2, <1>3, <1>4, <1>5, <1>6

\* Three sequences of integers are put together in either order.
LEMMA PutInEitherOrder ==
  ASSUME NEW a \in Seq(Int), NEW b \in Seq(Int), NEW c \in Seq(Int)
  PROVE  (a \o b) \o c = a \o (b \o c)
BY ConcatAssociative

\* What DUP leaves: one value behind the same.
LEMMA Doubled == ASSUME NEW x \in Int PROVE <<x>> \o <<x>> = <<x, x>>
<1>1. <<x>> \in Seq(Int) /\ <<x, x>> \in Seq(Int) /\ Len(<<x>>) = 1
  OBVIOUS
<1>2. PICK u \in Seq(Int) : u = <<x>> \o <<x>> /\ Len(u) = 2 /\ u[1] = x /\ u[2] = x
  <2>1. /\ <<x>> \o <<x>> \in Seq(Int) /\ Len(<<x>> \o <<x>>) = Len(<<x>>) + Len(<<x>>)
        /\ \A i \in 1 .. Len(<<x>>) + Len(<<x>>) :
             (<<x>> \o <<x>>)[i] = IF i <= Len(<<x>>) THEN <<x>>[i] ELSE <<x>>[i - Len(<<x>>)]
    BY <1>1, ConcatProperties, Zenon
  <2>2. Len(<<x>> \o <<x>>) = 2 /\ (<<x>> \o <<x>>)[1] = x /\ (<<x>> \o <<x>>)[2] = x
    BY <1>1, <2>1
  <2> QED  BY <2>1, <2>2, Zenon
<1>3. \A i \in 1 .. Len(u) : u[i] = <<x, x>>[i]
  BY <1>2
<1>4. u = <<x, x>>
  <2>1. Len(u) = Len(<<x, x>>)
    BY <1>2
  <2> QED  BY <1>1, <1>3, <2>1, SeqEqual
<1> QED  BY <1>2, <1>4

\* What OVER leaves: one value in front of two.
LEMMA InFrontOfTwo ==
  ASSUME NEW x \in Int, NEW y \in Int, NEW z \in Int
  PROVE  <<x>> \o <<y, z>> = <<x, y, z>>
<1>1. <<x>> \in Seq(Int) /\ <<y, z>> \in Seq(Int) /\ <<x, y, z>> \in Seq(Int)
      /\ Len(<<x>>) = 1 /\ Len(<<y, z>>) = 2
  OBVIOUS
<1>2. PICK u \in Seq(Int) : u = <<x>> \o <<y, z>> /\ Len(u) = 3 /\ u[1] = x /\ u[2] = y /\ u[3] = z
  <2>1. /\ <<x>> \o <<y, z>> \in Seq(Int) /\ Len(<<x>> \o <<y, z>>) = Len(<<x>>) + Len(<<y, z>>)
        /\ \A i \in 1 .. Len(<<x>>) + Len(<<y, z>>) :
             (<<x>> \o <<y, z>>)[i] = IF i <= Len(<<x>>) THEN <<x>>[i] ELSE <<y, z>>[i - Len(<<x>>)]
    BY <1>1, ConcatProperties, Zenon
  <2>2. /\ Len(<<x>> \o <<y, z>>) = 3 /\ (<<x>> \o <<y, z>>)[1] = x
        /\ (<<x>> \o <<y, z>>)[2] = y /\ (<<x>> \o <<y, z>>)[3] = z
    BY <1>1, <2>1
  <2> QED  BY <2>1, <2>2, Zenon
<1>3. \A i \in 1 .. Len(u) : u[i] = <<x, y, z>>[i]
  BY <1>2
<1>4. u = <<x, y, z>>
  <2>1. Len(u) = Len(<<x, y, z>>)
    BY <1>2
  <2> QED  BY <1>1, <1>3, <2>1, SeqEqual
<1> QED  BY <1>2, <1>4

\* A word and its routine leave the same.
LEMMA SameResults ==
  ASSUME StacksHold(Int), NEW w \in PureWords, NEW l, <<w, l>> \in Labels,
         Needs(w) <= Held("D")
  PROVE  /\ Below("D", Needs(w)) \in Seq(Int) /\ Left(w, l) \in Seq(Int)
         /\ Below("D", Pops(w)) \o Gives(w) = Below("D", Needs(w)) \o Left(w, l)
<1>1. Source(w) = "D" /\ Faults(w) = "none" /\ w \in DataWords
  BY SameOperands
<1>2. PICK n \in 1 .. 3 : n = Needs(w)
  BY <1>1, Operands
<1>3. PICK x, y, z : x = Seen(w, 1) /\ y = Seen(w, 2) /\ z = Seen(w, 3)
  OBVIOUS
<1>4. n = 1 => Kernel!Arg(1, 1) = x /\ x \in Int
  BY <1>1, <1>2, <1>3, OperandsSeen
<1>5. n = 2 => /\ Kernel!Arg(2, 1) = y /\ Kernel!Arg(2, 2) = x /\ x \in Int /\ y \in Int
  BY <1>1, <1>2, <1>3, OperandsSeen
<1>6. n = 3 => /\ Kernel!Arg(3, 1) = z /\ Kernel!Arg(3, 2) = y /\ Kernel!Arg(3, 3) = x
               /\ x \in Int /\ y \in Int /\ z \in Int
  BY <1>1, <1>2, <1>3, OperandsSeen
<1>7. Gives(w) \in Seq(Int)
  BY <1>1, GivenValues
<1>8. Below("D", n) \in Seq(Int)
  <2>1. n - 1 \in Nat /\ n - 1 < Held("D") /\ (n - 1) + 1 = n
    BY <1>2, HeldValues DEF Stacks
  <2> QED  BY <1>1, <2>1, BelowOne
<1>9. ASSUME Pops(w) = Needs(w), Left(w, l) = Gives(w)
      PROVE  /\ Left(w, l) \in Seq(Int)
             /\ Below("D", Pops(w)) \o Gives(w) = Below("D", Needs(w)) \o Left(w, l)
  BY <1>7, <1>9
<1>10. CASE w \in {"+", "-", "*", "=", "<>", "<", ">"}
  <2>1. Needs(w) = 2 /\ Pops(w) = 2
    BY <1>10 DEF Needs, Pops, Peeks, BinaryOps
  <2>2. Gives(w) = <<Binary(w, y, x)>>
    BY <1>3, <1>10 DEF Gives, BinaryOps, UnaryOps
  <2>3. Left(w, l) = <<Binary(w, y, x)>>
    BY <1>2, <1>5, <1>10, <2>1, SameBinary
  <2> QED  BY <1>2, <1>8, <1>9, <2>1, <2>2, <2>3
<1>11. CASE w \in {"NEGATE", "ABS", "1+", "1-", "0=", "0<", "INVERT"}
  <2>1. Needs(w) = 1 /\ Pops(w) = 1
    BY <1>11 DEF Needs, Pops, Peeks, BinaryOps
  <2>2. Gives(w) = <<Unary(w, x)>>
    BY <1>3, <1>11 DEF Gives, BinaryOps, UnaryOps
  <2>3. Left(w, l) = <<Unary(w, x)>>
    BY <1>2, <1>4, <1>11, <2>1, SameUnary
  <2> QED  BY <1>2, <1>8, <1>9, <2>1, <2>2, <2>3
<1>12. CASE w \in {"DROP", "SWAP", "NIP", "TUCK", "ROT", "-ROT"}
  <2>1. Pops(w) = Needs(w) /\ (w \in {"SWAP", "NIP", "TUCK"} => Needs(w) = 2)
                           /\ (w \in {"ROT", "-ROT"} => Needs(w) = 3)
    BY <1>12 DEF Needs, Pops, Peeks, BinaryOps
  <2>2. Kernel!Results(l) = Gives(w)
    BY <1>2, <1>3, <1>5, <1>6, <1>12, <2>1, SameShuffle
  <2>3. Left(w, l) = Kernel!Results(l)
    BY <1>12 DEF Left, Comparisons
  <2> QED  BY <1>2, <1>8, <1>9, <2>1, <2>2, <2>3
<1>13. CASE w = "DUP"
  <2>1. Needs(w) = 1 /\ Pops(w) = 0 /\ Gives(w) = <<x>> /\ l = "DUP"
    BY <1>3, <1>13 DEF Needs, Pops, Peeks, BinaryOps, UnaryOps, Gives, Labels
  <2>2. x \in Int /\ Left(w, l) = <<x, x>>
    BY <1>13, <1>2, <1>4, <2>1 DEF Left, Comparisons, Kernel!Results, Kernel!Operands
  <2>3. Below("D", 0) = Below("D", 1) \o <<x>>
    <3>1. 0 < Held("D") /\ 0 + 1 = 1
      BY <2>1, HeldValues DEF Stacks
    <3> QED  BY <1>1, <1>3, <3>1, BelowOne
  <2>4. <<x>> \o <<x>> = <<x, x>> /\ <<x>> \in Seq(Int) /\ <<x, x>> \in Seq(Int)
    <3>1. <<x>> \in Seq(Int) /\ <<x, x>> \in Seq(Int)
      BY <2>2
    <3> QED  BY <2>2, <3>1, Doubled
  <2>5. (Below("D", 1) \o <<x>>) \o <<x>> = Below("D", 1) \o (<<x>> \o <<x>>)
    BY <1>2, <1>8, <2>1, <2>4, PutInEitherOrder
  <2> QED  BY <1>2, <1>8, <2>1, <2>2, <2>3, <2>4, <2>5
<1>14. CASE w = "OVER"
  <2>1. Needs(w) = 2 /\ Pops(w) = 1 /\ Gives(w) = <<x, y>> /\ l = "OVER"
    BY <1>3, <1>14 DEF Needs, Pops, Peeks, BinaryOps, UnaryOps, Gives, Labels
  <2>2. x \in Int /\ y \in Int /\ Left(w, l) = <<y, x, y>>
    BY <1>14, <1>2, <1>5, <2>1 DEF Left, Comparisons, Kernel!Results, Kernel!Operands
  <2>3. Below("D", 1) = Below("D", 2) \o <<y>>
    <3>1. 1 < Held("D") /\ 1 + 1 = 2
      BY <2>1, HeldValues DEF Stacks
    <3> QED  BY <1>1, <1>3, <3>1, BelowOne
  <2>4. <<y>> \o <<x, y>> = <<y, x, y>> /\ <<y>> \in Seq(Int) /\ <<x, y>> \in Seq(Int)
        /\ <<y, x, y>> \in Seq(Int)
    <3>1. <<y>> \in Seq(Int) /\ <<x, y>> \in Seq(Int) /\ <<y, x, y>> \in Seq(Int)
      BY <2>2
    <3> QED  BY <2>2, <3>1, InFrontOfTwo
  <2>5. (Below("D", 2) \o <<y>>) \o <<x, y>> = Below("D", 2) \o (<<y>> \o <<x, y>>)
    BY <1>2, <1>8, <2>1, <2>4, PutInEitherOrder
  <2> QED  BY <1>2, <1>8, <2>1, <2>2, <2>3, <2>4, <2>5
<1>15. \/ w \in {"+", "-", "*", "=", "<>", "<", ">"}
       \/ w \in {"NEGATE", "ABS", "1+", "1-", "0=", "0<", "INVERT"}
       \/ w \in {"DROP", "SWAP", "NIP", "TUCK", "ROT", "-ROT"} \/ w = "DUP" \/ w = "OVER"
  BY DEF PureWords, DataWords, BinaryOps, UnaryOps, Shuffles
<1>16. /\ Left(w, l) \in Seq(Int)
       /\ Below("D", Pops(w)) \o Gives(w) = Below("D", Needs(w)) \o Left(w, l)
  BY <1>10, <1>11, <1>12, <1>13, <1>14, <1>15, Zenon
<1> QED  BY <1>2, <1>8, <1>16

(***************************************************************************)
(* A word against its routine                                              *)
(***************************************************************************)

\* the dictionary, cell by cell
Low == [a \in 0 .. DICTIONARY_SIZE - 1 |-> mem[a]]

\* What ends a step of the kernel's machine is here an exception, and what lets
\* it go on is none.
LEMMA EndsOrGoes ==
  ASSUME DictionaryKept, Contents("R")' = Contents("R")
  PROVE  /\ raised' = "none" => Kernel!Goes /\ UNCHANGED <<Contents("R"), Low>>
         /\ \A e : raised' = e /\ e # "none" => Kernel!Ends(e)
<1>1. Low' = Low
  BY DEF DictionaryKept, Low
<1>2. raised' = "none" => Kernel!Goes
  BY DEF Kernel!Goes
<1>3. \A e : raised' = e /\ e # "none" => Kernel!Ends(e)
  BY <1>1 DEF Kernel!Ends, Low
<1> QED  BY <1>1, <1>2, <1>3

\* A word that has popped what it needs and leaves of its results what fits
\* does what a computing step of the kernel does; so does one that has popped
\* what there was because that is not enough.
LEMMA Computes ==
  ASSUME StacksHold(Int), NEW n \in Nat, NEW results \in Seq(Int),
         DictionaryKept, Contents("R")' = Contents("R"),
         \/ Held("D") < n /\ Contents("D")' = << >> /\ raised' = "StackError"
         \/ /\ n <= Held("D")
            /\ Fits(Below("D", n), results, Size("D"), Contents("D")', raised')
  PROVE  Kernel!Compute(n, results)
<1>1. PICK h \in Nat, s \in Seq(Int) : h = Held("D") /\ s = Contents("D") /\ Len(s) = h
  BY HeldValues DEF Stacks
<1>2. CASE Held("D") < n /\ Contents("D")' = << >> /\ raised' = "StackError"
  <2>1. Kernel!Ends("StackError")
    BY <1>2, EndsOrGoes
  <2> QED  BY <1>1, <1>2, <2>1, Zenon DEF Kernel!Compute
<1>3. CASE n <= Held("D") /\ Fits(Below("D", n), results, Size("D"), Contents("D")', raised')
  <2>1. Below("D", n) = SubSeq(s, 1, h - n) /\ SubSeq(s, 1, h - n) \in Seq(Int)
        /\ Len(SubSeq(s, 1, h - n)) = h - n
    BY <1>1, <1>3 DEF Below
  <2>2. Kernel!Under(n) = SubSeq(s, 1, h - n)
    BY <1>1, Zenon DEF Kernel!Under, Kernel!Oldest
  <2>3. PICK u \in Seq(Int) : u = SubSeq(s, 1, h - n) /\ Len(u) = h - n
    BY <2>1, Zenon
  <2>4. Size("D") = DATA_STACK_SIZE /\ DATA_STACK_SIZE \in Nat /\ Len(results) \in Nat
    BY StackRegion, LenProperties DEF Stacks, Size
  <2>5. CASE h - n + Len(results) <= DATA_STACK_SIZE
    <3>1. Contents("D")' = u \o results /\ raised' = "none"
      BY <1>3, <2>1, <2>3, <2>4, <2>5, Zenon DEF Fits
    <3>2. Kernel!Goes /\ UNCHANGED <<Contents("R"), Low>>
      BY <3>1, EndsOrGoes
    <3> QED  BY <1>1, <1>3, <2>2, <2>3, <2>5, <3>1, <3>2, Zenon DEF Kernel!Compute, Low
  <2>6. CASE ~(h - n + Len(results) <= DATA_STACK_SIZE)
    <3>1. Contents("D")' = SubSeq(u \o results, 1, DATA_STACK_SIZE) /\ raised' = "StackError"
      BY <1>3, <2>1, <2>3, <2>4, <2>6, Zenon DEF Fits
    <3>2. Kernel!Ends("StackError")
      BY <3>1, EndsOrGoes
    <3>3. h - n + Len(results) > DATA_STACK_SIZE /\ h >= n
      BY <1>1, <1>3, <2>4, <2>6
    <3> QED  BY <1>1, <2>2, <2>3, <3>1, <3>2, <3>3, Zenon DEF Kernel!Compute, Kernel!Oldest
  <2> QED  BY <2>5, <2>6
<1> QED  BY <1>2, <1>3

\* What a word leaves whose source holds too few values.
LEMMA Exhausts ==
  ASSUME StacksHold(Int), NEW w \in DataWords, DataWord(w), Held(Source(w)) < Needs(w)
  PROVE  /\ Contents(Source(w))' = << >> /\ raised' = "StackError" /\ DictionaryKept
         /\ \A u \in Stacks \ {Source(w)} : Contents(u)' = Contents(u)
<1>1. PICK s, h, p : /\ s = Source(w) /\ h = Held(s) /\ p = Popped(w, h) /\ s \in Stacks
                    /\ h \in Nat /\ Len(Contents(s)) = h
  <2>1. Source(w) \in Stacks
    BY DEF Source, Stacks
  <2>2. Held(Source(w)) \in Nat /\ Len(Contents(Source(w))) = Held(Source(w))
    BY <2>1, HeldValues
  <2> QED  BY <2>1, <2>2, Zenon
<1>2. sp' = p /\ raised' = "StackError" /\ mem' = mem
  <2>1. h < Pops(w) + (IF Peeks(w) THEN 1 ELSE 0)
    BY <1>1, Zenon DEF Needs
  <2> QED  BY <1>1, <2>1, Zenon DEF DataWord, TooFew
<1>3. View(s, mem, p[s]) = Below(s, h) /\ \A u \in Stacks \ {s} : View(u, mem, p[u]) = Contents(u)
  <2>1. h \in 0 .. Held(s)
    BY <1>1
  <2> QED  BY <1>1, <2>1, PopsView
<1>4. Below(s, h) = << >>
  <2>1. Contents(s) \in Seq(Int)
    BY <1>1, HeldValues
  <2>2. h - h = 0
    BY <1>1
  <2>3. SubSeq(Contents(s), 1, 0) = << >>
    BY <2>1
  <2> QED  BY <1>1, <2>2, <2>3 DEF Below
<1>5. \A u : Contents(u)' = View(u, mem, p[u])
  BY <1>2 DEF Contents, View
<1> QED  BY <1>1, <1>2, <1>3, <1>4, <1>5 DEF DictionaryKept

\* What Pure and FlagsNegated say, in one.
Leaves(w, l) ==
  LET n == Kernel!Operands[l]
  IN  Kernel!Compute(n, IF Len(Contents("D")) < n THEN << >> ELSE Left(w, l))

\* A computing word does what its routine does, but for the flag.
LEMMA PureAgrees ==
  ASSUME StacksHold(Int), NEW w \in PureWords, NEW l, <<w, l>> \in Labels, DataWord(w)
  PROVE  l \in DOMAIN Kernel!Operands /\ Leaves(w, l)
<1>1. /\ l \in DOMAIN Kernel!Operands /\ Kernel!Operands[l] = Needs(w)
      /\ Source(w) = "D" /\ Target(w) = "D" /\ Faults(w) = "none" /\ w \in DataWords /\ w # "!"
  BY SameOperands
<1>2. PICK n \in Nat : n = Needs(w)
  BY <1>1, Operands
<1>3. PICK h \in Nat : h = Held("D") /\ Len(Contents("D")) = h
  BY HeldValues DEF Stacks
<1>4. CASE h < n
  <2>1. /\ Contents("D")' = << >> /\ raised' = "StackError" /\ DictionaryKept
        /\ Contents("R")' = Contents("R")
    BY <1>1, <1>2, <1>3, <1>4, Exhausts DEF Stacks
  <2>2. << >> \in Seq(Int)
    OBVIOUS
  <2>3. Kernel!Compute(n, << >>)
    BY <1>2, <1>3, <1>4, <2>1, <2>2, Computes
  <2> QED  BY <1>1, <1>2, <1>3, <1>4, <2>3, Zenon DEF Leaves
<1>5. CASE ~(h < n)
  <2>1. n <= h /\ Needs(w) <= Held("D")
    BY <1>2, <1>3, <1>5
  <2>2. PICK p : p = Popped(w, Pops(w))
    OBVIOUS
  <2>3. /\ Fits(View("D", mem, p["D"]), Gives(w), Size("D"), Contents("D")', raised')
        /\ Contents("R")' = View("R", mem, p["R"]) /\ DictionaryKept
    BY <1>1, <2>1, <2>2, Completes DEF Stacks
  <2>4. View("D", mem, p["D"]) = Below("D", Pops(w)) /\ View("R", mem, p["R"]) = Contents("R")
    <3>1. Pops(w) \in 0 .. Held("D")
      BY <1>1, <1>2, <1>3, <2>1, Operands
    <3> QED  BY <1>1, <2>2, <3>1, PopsView DEF Stacks
  <2>5. /\ Below("D", n) \in Seq(Int) /\ Left(w, l) \in Seq(Int)
        /\ Below("D", Pops(w)) \o Gives(w) = Below("D", n) \o Left(w, l)
    BY <1>2, <2>1, SameResults
  <2>6. Below("D", Pops(w)) \in Seq(Int) /\ Gives(w) \in Seq(Int)
    <3>1. Gives(w) \in Seq(Int)
      BY <1>1, <2>1, GivenValues
    <3>2. Pops(w) \in 0 .. h
      BY <1>1, <1>2, <1>3, <2>1, Operands
    <3>3. Contents("D") \in Seq(Int)
      BY HeldValues DEF Stacks
    <3> QED  BY <1>3, <3>1, <3>2, <3>3 DEF Below
  <2>7. Fits(Below("D", n), Left(w, l), Size("D"), Contents("D")', raised')
    <3>1. Fits(Below("D", Pops(w)), Gives(w), Size("D"), Contents("D")', raised')
      BY <2>3, <2>4, Zenon
    <3>2. \A size, c, outcome : Fits(Below("D", Pops(w)), Gives(w), size, c, outcome)
                                 => Fits(Below("D", n), Left(w, l), size, c, outcome)
      BY <2>5, <2>6, FitsTogether, Zenon
    <3> QED  BY <3>1, <3>2, Zenon
  <2>8. Kernel!Compute(n, Left(w, l))
    BY <1>2, <1>3, <2>1, <2>3, <2>4, <2>5, <2>7, Computes
  <2> QED  BY <1>1, <1>2, <1>3, <1>5, <2>8, Zenon DEF Leaves
<1> QED  BY <1>4, <1>5

\* c is base with x pushed, or base if that has size values already
PushedOrFull(base, x, size, c, outcome) ==
  IF Len(base) < size THEN c = Append(base, x) /\ outcome = "none"
  ELSE c = base /\ outcome = "StackError"

\* Pushing one value on a stack appends it, or the stack is full and as it was.
LEMMA FitsOne ==
  ASSUME NEW base \in Seq(Int), NEW x \in Int, NEW size \in Nat, NEW c, NEW outcome,
         Len(base) <= size, Fits(base, <<x>>, size, c, outcome)
  PROVE  PushedOrFull(base, x, size, c, outcome)
<1>1. <<x>> \in Seq(Int) /\ Len(<<x>>) = 1 /\ Len(base) \in Nat
  BY LenProperties
<1>2. CASE Len(base) < size
  <2>1. Len(base) + Len(<<x>>) <= size
    BY <1>1, <1>2
  <2>2. base \o <<x>> = Append(base, x)
    BY AppendIsConcat
  <2> QED  BY <1>2, <2>1, <2>2, Zenon DEF Fits, PushedOrFull
<1>3. CASE ~(Len(base) < size)
  <2>1. ~(Len(base) + Len(<<x>>) <= size) /\ size <= Len(base) + Len(<<x>>) /\ size - Len(base) = 0
    BY <1>1, <1>3
  <2>2. SubSeq(base \o <<x>>, 1, size) = base \o SubSeq(<<x>>, 1, 0)
    BY <1>1, <2>1, CutOff
  <2>3. SubSeq(<<x>>, 1, 0) = << >>
    BY <1>1
  <2>4. base \o << >> = base
    BY ConcatSimplifications
  <2> QED  BY <1>3, <2>1, <2>2, <2>3, <2>4, Zenon DEF Fits, PushedOrFull
<1> QED  BY <1>2, <1>3

\* The newest value of a stack is the first a word sees of it.
LEMMA NewestSeen ==
  ASSUME StacksHold(Int), NEW w, NEW s \in Stacks, s = Source(w), Held(s) >= 1
  PROVE  /\ Contents(s) # << >> /\ Seen(w, 1) \in Int /\ Last(Contents(s)) = Seen(w, 1)
         /\ Front(Contents(s)) = Below(s, 1)
<1>1. PICK h \in Nat, v \in Seq(Int) : /\ h = Held(s) /\ v = Contents(s) /\ Len(v) = h
                                       /\ \A k \in 1 .. h : v[k] = mem[Base(s) - k]
  BY HeldValues
<1>2. PICK b \in Nat, p \in Int : b = Base(s) /\ p = sp[s] /\ h = b - p
  BY <1>1, StackRegion DEF Held, StacksHold
<1>3. h \in 1 .. h /\ p + 1 - 1 = b - h
  BY <1>1, <1>2
<1>4. Seen(w, 1) = mem[b - h]
  BY <1>2, <1>3, Zenon DEF Seen
<1>5. v[h] = mem[b - h] /\ v[h] \in Int /\ v # << >>
  BY <1>1, <1>2, <1>3
<1> QED  BY <1>1, <1>4, <1>5 DEF Last, Front, Below

\* A stack that holds less than one value is empty.
LEMMA EmptyStack ==
  ASSUME StacksHold(Int), NEW s \in Stacks, ~(Held(s) >= 1)
  PROVE  Contents(s) = << >> /\ Held(s) < 1
<1>1. Contents(s) \in Seq(Int) /\ Len(Contents(s)) = Held(s) /\ Held(s) \in Nat
  BY HeldValues
<1>2. Held(s) = 0
  BY <1>1
<1> QED  BY <1>1, <1>2

\* >R does what its routine does.
LEMMA ToRAgrees ==
  ASSUME StacksHold(Int), DataWord(">R")
  PROVE  Kernel!ToR("TOR")
<1> DEFINE w == ">R"
<1>1. /\ w \in DataWords /\ w # "!" /\ Source(w) = "D" /\ Target(w) = "R" /\ Faults(w) = "none"
      /\ Pops(w) = 1 /\ Needs(w) = 1
  BY DEF DataWords, Source, Target, Faults, Pops, Needs, Peeks, BinaryOps
<1>2. CASE ~(Held("D") >= 1)
  <2>1. Contents("D") = << >> /\ Held("D") < 1
    BY <1>2, EmptyStack DEF Stacks
  <2>2. /\ Contents("D")' = << >> /\ raised' = "StackError" /\ DictionaryKept
        /\ Contents("R")' = Contents("R")
    BY <1>1, <2>1, Exhausts DEF Stacks
  <2>3. Kernel!Ends("StackError")
    BY <2>2, EndsOrGoes
  <2> QED  BY <2>1, <2>2, <2>3 DEF Kernel!ToR, Kernel!Last, Last
<1>3. CASE Held("D") >= 1
  <2>1. PICK x \in Int : /\ x = Seen(w, 1) /\ Last(Contents("D")) = x /\ Contents("D") # << >>
    BY <1>1, <1>3, NewestSeen DEF Stacks
  <2>2. PICK p : p = Popped(w, Pops(w))
    OBVIOUS
  <2>3. Gives(w) = <<x>>
    BY <2>1 DEF Gives, BinaryOps, UnaryOps
  <2>4. Needs(w) <= Held("D") /\ Pops(w) \in 0 .. Held("D")
    BY <1>1, <1>3, HeldValues DEF Stacks
  <2>5. /\ Fits(View("R", mem, p["R"]), Gives(w), Size("R"), Contents("R")', raised')
        /\ Contents("D")' = View("D", mem, p["D"]) /\ DictionaryKept
    <3>1. Needs(w) <= Held(Source(w)) /\ "D" \in Stacks \ {"R"}
      BY <1>1, <2>4 DEF Stacks
    <3> QED  BY <1>1, <2>2, <3>1, Completes
  <2>6. View("D", mem, p["D"]) = Below("D", 1) /\ View("R", mem, p["R"]) = Contents("R")
    BY <1>1, <2>2, <2>4, PopsView DEF Stacks
  <2>7. Contents("R") \in Seq(Int) /\ Len(Contents("R")) <= Size("R") /\ Size("R") \in Nat
        /\ Size("R") = RETURN_STACK_SIZE
    BY HeldValues, StackRegion DEF Stacks, Size
  <2>8. IF Len(Contents("R")) < Size("R") THEN Contents("R")' = Append(Contents("R"), x) /\ raised' = "none"
        ELSE Contents("R")' = Contents("R") /\ raised' = "StackError"
    <3>1. Fits(Contents("R"), <<x>>, Size("R"), Contents("R")', raised')
      BY <2>3, <2>5, <2>6, Zenon
    <3>2. \A c, outcome : Fits(Contents("R"), <<x>>, Size("R"), c, outcome)
            => PushedOrFull(Contents("R"), x, Size("R"), c, outcome)
      BY <2>7, FitsOne, Zenon
    <3> QED  BY <3>1, <3>2, Zenon DEF PushedOrFull
  <2>9. Kernel!Under(1) = Below("D", 1)
    BY Zenon DEF Kernel!Under, Kernel!Oldest, Below
  <2>10. CASE Len(Contents("R")) < Size("R")
    <3>1. Kernel!Goes
      BY <2>8, <2>10 DEF Kernel!Goes
    <3>2. ~(Len(Contents("R")) >= RETURN_STACK_SIZE)
      BY <2>7, <2>10
    <3>3. UNCHANGED [a \in 0 .. DICTIONARY_SIZE - 1 |-> mem[a]]
      BY <2>5 DEF DictionaryKept
    <3>4. Contents("D")' = Kernel!Under(1) /\ Contents("R")' = Append(Contents("R"), Last(Contents("D")))
      BY <2>1, <2>5, <2>6, <2>8, <2>9, <2>10, Zenon
    <3> QED  BY <2>1, <3>1, <3>2, <3>3, <3>4 DEF Kernel!ToR, Kernel!Last, Last
  <2>11. CASE ~(Len(Contents("R")) < Size("R"))
    <3>1. Kernel!Ends("StackError")
      BY <2>5, <2>8, <2>11, EndsOrGoes
    <3>2. Len(Contents("R")) >= RETURN_STACK_SIZE
      BY <2>7, <2>11
    <3> QED  BY <2>1, <2>5, <2>6, <2>8, <2>9, <2>11, <3>1, <3>2 DEF Kernel!ToR, Kernel!Last, Last
  <2> QED  BY <2>10, <2>11
<1> QED  BY <1>2, <1>3

\* R> and R@ do what their routines do.
LEMMA FromRAgrees ==
  ASSUME StacksHold(Int), NEW w \in {"R>", "R@"}, NEW l, <<w, l>> \in Labels, DataWord(w)
  PROVE  Kernel!FromR(l)
<1>1. /\ w \in DataWords /\ w # "!" /\ Source(w) = "R" /\ Target(w) = "D" /\ Faults(w) = "none"
      /\ Needs(w) = 1 /\ Pops(w) \in {0, 1}
      /\ (w = "R>" => Pops(w) = 1 /\ l = "FROMR") /\ (w = "R@" => Pops(w) = 0 /\ l = "RFETCH")
      /\ l \in {"FROMR", "RFETCH"}
  BY DEF DataWords, Source, Target, Faults, Pops, Needs, Peeks, BinaryOps, Labels
<1>2. CASE ~(Held("R") >= 1)
  <2>1. Contents("R") = << >> /\ Held("R") < 1
    BY <1>2, EmptyStack DEF Stacks
  <2>2. /\ Contents("R")' = << >> /\ raised' = "StackError" /\ DictionaryKept
        /\ Contents("D")' = Contents("D")
    BY <1>1, <2>1, Exhausts DEF Stacks
  <2>3. Kernel!Ends("StackError")
    BY <2>1, <2>2, EndsOrGoes
  <2> QED  BY <1>1, <2>1, <2>2, <2>3, Zenon DEF Kernel!FromR
<1>3. CASE Held("R") >= 1
  <2>1. PICK x \in Int : /\ x = Seen(w, 1) /\ Last(Contents("R")) = x /\ Contents("R") # << >>
                         /\ Front(Contents("R")) = Below("R", 1)
    BY <1>1, <1>3, NewestSeen DEF Stacks
  <2>2. PICK p : p = Popped(w, Pops(w))
    OBVIOUS
  <2>3. Gives(w) = <<x>>
    BY <2>1 DEF Gives, BinaryOps, UnaryOps
  <2>4. Needs(w) <= Held("R") /\ Pops(w) \in 0 .. Held("R")
    BY <1>1, <1>3, HeldValues DEF Stacks
  <2>5. /\ Fits(View("D", mem, p["D"]), Gives(w), Size("D"), Contents("D")', raised')
        /\ Contents("R")' = View("R", mem, p["R"]) /\ DictionaryKept
    <3>1. Needs(w) <= Held(Source(w)) /\ "R" \in Stacks \ {"D"}
      BY <1>1, <2>4 DEF Stacks
    <3> QED  BY <1>1, <2>2, <3>1, Completes
  <2>6. View("R", mem, p["R"]) = Below("R", Pops(w)) /\ View("D", mem, p["D"]) = Contents("D")
    BY <1>1, <2>2, <2>4, PopsView DEF Stacks
  <2>7. Contents("D") \in Seq(Int) /\ Len(Contents("D")) <= Size("D") /\ Size("D") \in Nat
        /\ Size("D") = DATA_STACK_SIZE
    BY HeldValues, StackRegion DEF Stacks, Size
  <2>8. IF Len(Contents("D")) < Size("D") THEN Contents("D")' = Append(Contents("D"), x) /\ raised' = "none"
        ELSE Contents("D")' = Contents("D") /\ raised' = "StackError"
    <3>1. Fits(Contents("D"), <<x>>, Size("D"), Contents("D")', raised')
      BY <2>3, <2>5, <2>6, Zenon
    <3>2. \A c, outcome : Fits(Contents("D"), <<x>>, Size("D"), c, outcome)
            => PushedOrFull(Contents("D"), x, Size("D"), c, outcome)
      BY <2>7, FitsOne, Zenon
    <3> QED  BY <3>1, <3>2, Zenon DEF PushedOrFull
  <2>9. Contents("R")' = IF l = "FROMR" THEN Front(Contents("R")) ELSE Contents("R")
    <3>1. Below("R", 0) = Contents("R")
      BY HeldValues DEF Stacks, Below
    <3> QED  BY <1>1, <2>1, <2>5, <2>6, <3>1
  <2>10. Low' = Low
    BY <2>5 DEF DictionaryKept, Low
  <2>11. raised' = "none" => Kernel!Goes
    BY DEF Kernel!Goes
  <2>12. raised' = "StackError" => (IF raised = "none" THEN "running" ELSE raised)' = "StackError"
    OBVIOUS
  <2> QED  BY <1>1, <2>1, <2>7, <2>8, <2>9, <2>10, <2>11, <2>12, Zenon
           DEF Kernel!FromR, Low, Kernel!Last, Last, Kernel!Front, Front
<1> QED  BY <1>2, <1>3

\* @ does what its routine does, at an address in the dictionary or out of memory.
LEMMA FetchAgrees ==
  ASSUME StacksHold(Int), DataWord("@"),
         Held("D") >= 1 /\ Addressable(Seen("@", 1)) => CellAt(Seen("@", 1)) < DICTIONARY_SIZE
  PROVE  Kernel!Fetch("FETCH")
<1> DEFINE w == "@"
<1>1. /\ w \in DataWords /\ w # "!" /\ Source(w) = "D" /\ Target(w) = "D"
      /\ Pops(w) = 1 /\ Needs(w) = 1
  BY DEF DataWords, UnaryOps, Source, Target, Pops, Needs, Peeks, BinaryOps
<1>2. CASE ~(Held("D") >= 1)
  <2>1. Contents("D") = << >> /\ Held("D") < 1
    BY <1>2, EmptyStack DEF Stacks
  <2>2. /\ Contents("D")' = << >> /\ raised' = "StackError" /\ DictionaryKept
        /\ Contents("R")' = Contents("R")
    BY <1>1, <2>1, Exhausts DEF Stacks
  <2>3. Kernel!Compute(1, << >>)
    <3>1. << >> \in Seq(Int)
      OBVIOUS
    <3> QED  BY <2>1, <2>2, <3>1, Computes
  <2> QED  BY <2>1, <2>3 DEF Kernel!Fetch
<1>3. CASE Held("D") >= 1
  <2>1. PICK x \in Int : /\ x = Seen(w, 1) /\ Kernel!Last(Contents("D")) = x /\ Contents("D") # << >>
    BY <1>1, <1>3, NewestSeen DEF Stacks, Last, Kernel!Last
  <2>2. PICK p : p = Popped(w, 1)
    OBVIOUS
  <2>3. View("D", mem, p["D"]) = Below("D", 1) /\ View("R", mem, p["R"]) = Contents("R")
    <3>1. 1 \in 0 .. Held("D")
      BY <1>3, HeldValues DEF Stacks
    <3> QED  BY <1>1, <2>2, <3>1, PopsView DEF Stacks
  <2>4. Kernel!Addressed(x) <=> Addressable(x)
    BY DEF Kernel!Addressed, Kernel!MEMORY_SIZE, MEMORY_SIZE, Addressable,
           Kernel!RETURN_STACK_BASE, RETURN_STACK_BASE, Kernel!DATA_STACK_BASE, DATA_STACK_BASE
  <2>5. CASE ~Addressable(x)
    <3>1. Faults(w) = "IndexError"
      BY <2>1, <2>5 DEF Faults
    <3>2. sp' = p /\ raised' = "IndexError" /\ mem' = mem
      <4>1. ~(Held(Source(w)) < Pops(w) + (IF Peeks(w) THEN 1 ELSE 0))
        BY <1>1, <1>3, HeldValues DEF Stacks, Needs
      <4> QED  BY <1>1, <2>2, <3>1, <4>1 DEF DataWord
    <3>3. Contents("D")' = Below("D", 1) /\ Contents("R")' = Contents("R") /\ DictionaryKept
      <4>1. \A u : Contents(u)' = View(u, mem, p[u])
        BY <3>2 DEF Contents, View
      <4> QED  BY <2>3, <3>2, <4>1 DEF DictionaryKept
    <3>4. Kernel!Ends("IndexError")
      BY <3>2, <3>3, EndsOrGoes
    <3>5. Kernel!Under(1) = Below("D", 1)
      BY Zenon DEF Kernel!Under, Kernel!Oldest, Below
    <3> QED  BY <2>1, <2>4, <2>5, <3>3, <3>4, <3>5 DEF Kernel!Fetch
  <2>6. CASE Addressable(x)
    <3>1. Faults(w) = "none"
      BY <2>1, <2>6 DEF Faults
    <3>2. PICK a \in Int : /\ a = CellAt(x) /\ a \in 0 .. DICTIONARY_SIZE - 1 /\ a = Kernel!At(x)
                           /\ mem[a] \in Int
      <4>1. CellAt(x) \in 0 .. DICTIONARY_SIZE - 1 /\ CellAt(x) \in Cells
        BY <1>3, <2>1, <2>6, AddressableCell, Regions DEF Cells
      <4>2. Kernel!At(x) = CellAt(x)
        BY DEF Kernel!At, CellAt, Kernel!MEMORY_SIZE, MEMORY_SIZE,
               Kernel!RETURN_STACK_BASE, RETURN_STACK_BASE, Kernel!DATA_STACK_BASE, DATA_STACK_BASE
      <4>3. mem[CellAt(x)] \in Int
        BY <4>1 DEF StacksHold
      <4> QED  BY <4>1, <4>2, <4>3
    <3>3. Gives(w) = <<mem[a]>>
      BY <2>1, <3>2 DEF Gives, Unary, BinaryOps, UnaryOps
    <3>4. /\ Fits(View("D", mem, p["D"]), Gives(w), Size("D"), Contents("D")', raised')
          /\ Contents("R")' = View("R", mem, p["R"]) /\ DictionaryKept
      <4>1. Needs(w) <= Held(Source(w)) /\ "R" \in Stacks \ {"D"}
        BY <1>1, <1>3, HeldValues DEF Stacks
      <4> QED  BY <1>1, <2>2, <3>1, <4>1, Completes
    <3>5. Kernel!Compute(1, <<mem[a]>>)
      <4>1. <<mem[a]>> \in Seq(Int) /\ 1 <= Held("D")
        BY <1>3, <3>2, HeldValues DEF Stacks
      <4>2. Fits(Below("D", 1), <<mem[a]>>, Size("D"), Contents("D")', raised')
        BY <2>3, <3>3, <3>4, Zenon
      <4> QED  BY <2>3, <3>4, <4>1, <4>2, Computes
    <3>6. [c \in 0 .. DICTIONARY_SIZE - 1 |-> mem[c]][Kernel!At(Kernel!Last(Contents("D")))] = mem[a]
      BY <2>1, <3>2
    <3>7. Kernel!InDictionary(Kernel!Last(Contents("D")))
      <4>1. a < DICTIONARY_SIZE
        BY <3>2, Regions
      <4>2. Kernel!Addressed(x) /\ Kernel!At(x) < DICTIONARY_SIZE
        BY <2>4, <2>6, <3>2, <4>1, Zenon
      <4> QED  BY <2>1, <4>2, Zenon DEF Kernel!InDictionary
    <3> QED  BY <2>1, <2>4, <2>6, <3>5, <3>6, <3>7, Zenon DEF Kernel!Fetch
  <2> QED  BY <2>5, <2>6
<1> QED  BY <1>2, <1>3

\* ! does what its routine does, at an address in the dictionary or out of memory.
LEMMA StoreAgrees ==
  ASSUME StacksHold(Int), DataWord("!"),
         Held("D") >= 1 /\ Addressable(Seen("!", 1)) => CellAt(Seen("!", 1)) < DICTIONARY_SIZE
  PROVE  Kernel!Store("STOREW")
<1> DEFINE w == "!"
<1>1. /\ w \in DataWords /\ Source(w) = "D" /\ Pops(w) = 2 /\ Needs(w) = 2
  BY DEF DataWords, Source, Pops, Needs, Peeks, BinaryOps
<1>2. PICK h \in Nat : h = Held("D") /\ Len(Contents("D")) = h
  BY HeldValues DEF Stacks
<1>3. CASE h < 2
  <2>1. /\ Contents("D")' = << >> /\ raised' = "StackError" /\ DictionaryKept
        /\ Contents("R")' = Contents("R")
    BY <1>1, <1>2, <1>3, Exhausts DEF Stacks
  <2>2. Kernel!Ends("StackError")
    BY <2>1, EndsOrGoes
  <2> QED  BY <1>2, <1>3, <2>1, <2>2 DEF Kernel!Store
<1>4. CASE ~(h < 2)
  <2>1. PICK x \in Int : x = Seen(w, 1) /\ Kernel!Last(Contents("D")) = x
    <3>1. Held("D") >= 1
      BY <1>2, <1>4
    <3> QED  BY <1>1, <3>1, NewestSeen DEF Stacks, Last, Kernel!Last
  <2>2. PICK y \in Int : y = Seen(w, 2) /\ Kernel!Arg(2, 1) = y
    <3>1. 2 <= Held("D") /\ 2 - 1 + 1 = 2
      BY <1>2, <1>4
    <3> QED  BY <1>1, <3>1, OperandsSeen
  <2>3. PICK p : p = Popped(w, 2)
    OBVIOUS
  <2>4. /\ View("D", mem, p["D"]) = Below("D", 2) /\ View("R", mem, p["R"]) = Contents("R") /\ InRegions(p)
    <3>1. 2 \in 0 .. Held("D")
      BY <1>2, <1>4
    <3> QED  BY <1>1, <2>3, <3>1, PopsView DEF Stacks
  <2>5. Kernel!Addressed(x) <=> Addressable(x)
    BY DEF Kernel!Addressed, Kernel!MEMORY_SIZE, MEMORY_SIZE, Addressable,
           Kernel!RETURN_STACK_BASE, RETURN_STACK_BASE, Kernel!DATA_STACK_BASE, DATA_STACK_BASE
  <2>6. Kernel!Under(2) = Below("D", 2)
    BY Zenon DEF Kernel!Under, Kernel!Oldest, Below
  <2>7. ~(Held(Source(w)) < Pops(w) + (IF Peeks(w) THEN 1 ELSE 0))
    BY <1>1, <1>2, <1>4 DEF Needs
  <2>8. CASE ~Addressable(x)
    <3>1. Faults(w) = "IndexError"
      BY <2>1, <2>8 DEF Faults
    <3>2. sp' = p /\ raised' = "IndexError" /\ mem' = mem
      BY <1>1, <2>3, <2>7, <3>1 DEF DataWord
    <3>3. Contents("D")' = Below("D", 2) /\ Contents("R")' = Contents("R") /\ DictionaryKept
      <4>1. \A u : Contents(u)' = View(u, mem, p[u])
        BY <3>2 DEF Contents, View
      <4> QED  BY <2>4, <3>2, <4>1 DEF DictionaryKept
    <3>4. Kernel!Ends("IndexError")
      BY <3>2, <3>3, EndsOrGoes
    <3> QED  BY <1>2, <1>4, <2>1, <2>5, <2>6, <2>8, <3>3, <3>4 DEF Kernel!Store
  <2>9. CASE Addressable(x)
    <3>1. Faults(w) = "none"
      BY <2>1, <2>9 DEF Faults
    <3>2. PICK a \in Int : /\ a = CellAt(x) /\ a \in 0 .. DICTIONARY_SIZE - 1 /\ a = Kernel!At(x)
      <4>1. CellAt(x) \in 0 .. DICTIONARY_SIZE - 1
        BY <1>2, <1>4, <2>1, <2>9, AddressableCell, Regions DEF Cells
      <4>2. Kernel!At(x) = CellAt(x)
        BY DEF Kernel!At, CellAt, Kernel!MEMORY_SIZE, MEMORY_SIZE,
               Kernel!RETURN_STACK_BASE, RETURN_STACK_BASE, Kernel!DATA_STACK_BASE, DATA_STACK_BASE
      <4> QED  BY <4>1, <4>2
    <3>3. sp' = p /\ raised' = "none" /\ mem' = [mem EXCEPT ![a] = y]
      BY <1>1, <2>1, <2>2, <2>3, <2>7, <3>1, <3>2 DEF DataWord
    <3>4. \A c \in Cells : c # a => mem'[c] = mem[c]
      BY <3>3 DEF StacksHold
    <3>5. ASSUME NEW u \in Stacks PROVE Contents(u)' = View(u, mem, p[u])
      <4>1. PICK v \in Floor(u) .. Base(u) : v = p[u]
        BY <2>4 DEF InRegions
      <4>2. \A c \in Cells : v <= c /\ c < Base(u) => mem'[c] = mem[c]
        BY <3>2, <3>4, <4>1, StackRegion, Regions DEF Cells
      <4>3. View(u, mem', v) = View(u, mem, v)
        BY <4>2, ViewKept
      <4>4. Contents(u)' = View(u, mem', v)
        BY <3>3, <4>1 DEF Contents, View
      <4> QED  BY <4>1, <4>3, <4>4
    <3>6. Contents("D")' = Below("D", 2) /\ Contents("R")' = Contents("R")
      BY <2>4, <3>5 DEF Stacks
    <3>7. [c \in 0 .. DICTIONARY_SIZE - 1 |-> mem'[c]]
            = [[c \in 0 .. DICTIONARY_SIZE - 1 |-> mem[c]] EXCEPT ![a] = y]
      <4>1. \A c \in 0 .. DICTIONARY_SIZE - 1 : mem'[c] = IF c = a THEN y ELSE mem[c]
        <5>1. \A c \in 0 .. DICTIONARY_SIZE - 1 : c \in Cells
          BY Regions DEF Cells
        <5> QED  BY <3>2, <3>3, <5>1 DEF StacksHold
      <4> QED  BY <4>1
    <3>8. Kernel!Goes
      BY <3>3 DEF Kernel!Goes
    <3>9. Kernel!InDictionary(Kernel!Last(Contents("D")))
      <4>1. a < DICTIONARY_SIZE
        BY <3>2, Regions
      <4>2. Kernel!Addressed(x) /\ Kernel!At(x) < DICTIONARY_SIZE
        BY <2>5, <2>9, <3>2, <4>1, Zenon
      <4> QED  BY <2>1, <4>2, Zenon DEF Kernel!InDictionary
    <3>10. Kernel!At(Kernel!Last(Contents("D"))) = a
      BY <2>1, <3>2
    <3>11. ~(Len(Contents("D")) < 2)
      BY <1>2, <1>4
    <3>12. Kernel!Addressed(Kernel!Last(Contents("D")))
      BY <2>1, <2>5, <2>9
    <3> QED  BY <2>2, <2>6, <3>6, <3>7, <3>8, <3>9, <3>10, <3>11, <3>12 DEF Kernel!Store
  <2> QED  BY <2>8, <2>9
<1> QED  BY <1>3, <1>4

\* What the property says of a word and its routine.
Agrees(w, l) ==
  \/ w \notin Comparisons /\ Kernel!Complete(l)
  \/ w \in Comparisons /\ FlagsNegated(l)
  \/ Kernel!Endless(l) /\ Kernel!Pure(l)

\* A data word that completes, or raises an exception of its own, does what its
\* routine does, but for the flag and the negative multiplier.
LEMMA WordAgrees ==
  ASSUME StacksHold(Int), NEW w \in DataWords \ BitWords, NEW l, <<w, l>> \in Labels, DataWord(w),
         w \in {"@", "!"} /\ ~Underflows("D") /\ Addressable(Top("D")) => CellAt(Top("D")) < DICTIONARY_SIZE
  PROVE  Agrees(w, l)
<1>1. w \notin {"/", "MOD"}
  BY DEF Labels
<1>2. CASE w \in PureWords
  <2>1. l \in DOMAIN Kernel!Operands /\ Leaves(w, l)
    BY <1>2, PureAgrees
  <2>2. CASE w \in Comparisons
    BY <2>1, <2>2, Zenon DEF Leaves, Left, FlagsNegated, Agrees
  <2>3. CASE w \notin Comparisons
    <3>1. Kernel!Pure(l)
      BY <2>1, <2>3, Zenon DEF Leaves, Left, Kernel!Pure
    <3> QED  BY <2>3, <3>1, Zenon DEF Kernel!Complete, Kernel!DataStep, Agrees
  <2> QED  BY <2>2, <2>3
<1>3. CASE w = ">R"
  <2>1. l = "TOR"
    BY <1>3 DEF Labels
  <2>2. w \notin Comparisons /\ l # "MUL"
    BY <1>3, <2>1 DEF Comparisons
  <2> QED  BY <1>3, <2>1, ToRAgrees, <2>2, Zenon DEF Agrees, Kernel!Complete, Kernel!Endless, Kernel!DataStep
<1>4. CASE w \in {"R>", "R@"}
  <2>1. w \notin Comparisons /\ l # "MUL"
    BY <1>4 DEF Comparisons, Labels
  <2> QED  BY <1>4, <2>1, FromRAgrees, Zenon
           DEF Agrees, Kernel!Complete, Kernel!Endless, Kernel!DataStep
<1>5. ASSUME w \in {"@", "!"}, Held("D") >= 1, Addressable(Seen(w, 1))
      PROVE  CellAt(Seen(w, 1)) < DICTIONARY_SIZE
  <2>1. PICK b \in Nat, p \in Int : b = Base("D") /\ p = sp["D"]
    BY StackRegion DEF Stacks, StacksHold
  <2>2. ~(p >= b) /\ p + 1 - 1 = p
    BY <1>5, <2>1 DEF Held
  <2>3. Seen(w, 1) = mem[p + 1 - 1]
    BY <1>5, <2>1 DEF Seen, Source
  <2>4. ~Underflows("D") /\ Seen(w, 1) = Top("D")
    BY <2>1, <2>2, <2>3, Zenon DEF Underflows, Top
  <2> QED  BY <1>5, <2>4, Zenon
<1>6. CASE w = "@"
  <2>1. l = "FETCH"
    BY <1>6 DEF Labels
  <2>2. w \notin Comparisons /\ l # "MUL"
    BY <1>6, <2>1 DEF Comparisons
  <2> QED  BY <1>5, <1>6, <2>1, FetchAgrees, <2>2, Zenon DEF Agrees, Kernel!Complete, Kernel!Endless, Kernel!DataStep
<1>7. CASE w = "!"
  <2>1. l = "STOREW"
    BY <1>7 DEF Labels
  <2>2. w \notin Comparisons /\ l # "MUL"
    BY <1>7, <2>1 DEF Comparisons
  <2> QED  BY <1>5, <1>7, <2>1, StoreAgrees, <2>2, Zenon DEF Agrees, Kernel!Complete, Kernel!Endless, Kernel!DataStep
<1>8. \/ w \in PureWords \/ w = ">R" \/ w \in {"R>", "R@"} \/ w = "@" \/ w = "!"
  BY <1>1 DEF PureWords, BitWords
<1> QED  BY <1>2, <1>3, <1>4, <1>6, <1>7, <1>8

\* Of the steps in a call only that of a primitive adds to what has run, and a
\* data word that Python's stack cuts short ends with RecursionError.
LEMMA OnlyDataWords ==
  ASSUME InCall, [Next]_vars, ran' # ran, raised' # "RecursionError", Current \in DataWords
  PROVE  DataWord(Current)
<1>1. RunPrimitive
  <2>1. ~HostCall
    BY DEF HostCall, Call, Define, Literal, Docol, BuildStandardColonDefs, Idle
  <2> QED  BY <2>1 DEF Next, Step, Unknown, Enter, Leave, vars
<1>2. WordBody(Current)
  BY <1>1 DEF RunPrimitive, WordCut
<1>3. Current \notin Control \cup Structure
  BY DEF DataWords, BinaryOps, UnaryOps, Shuffles, Control, Structure
<1> QED  BY <1>2, <1>3 DEF WordBody, Control

\* On stacks of any size with any integers, whatever has gone before, a data word
\* other than AND and OR does to both stacks and the dictionary what the machine
\* of the kernel's runs (TRUE_FLAG -1) does for its routine, exceptions included,
\* save that a comparison leaves 1 where the routine leaves -1 and that * leaves
\* the product where the routine never comes back (forth.py 69-108, 198-425,
\* routines.py).
THEOREM ForthAgreesWithKernel == Spec => AgreesWithKernel
<1>1. Init => FInv
  BY StartsSound
<1>2. FInv /\ [Next]_vars => FInv'
  <2>1. ASSUME FInv, UNCHANGED vars PROVE FInv'
    BY <2>1 DEF vars, FInv, Sound, StacksHold, PointersInBounds, Nested
  <2> QED  BY <2>1, StepStays, HostStays DEF Next
<1>3. FInv /\ [Next]_vars => [AgreesOn(DataWords \ BitWords)]_vars
  <2>1. ASSUME FInv, [Next]_vars, InCall, ran' # ran, raised' # "RecursionError",
               Current \in DOMAIN LabelOf \cap (DataWords \ BitWords),
               Current \in {"@", "!"} /\ ~Underflows("D") /\ Addressable(Top("D"))
                 => CellAt(Top("D")) < DICTIONARY_SIZE
        PROVE  Agrees(Current, LabelOf[Current])
    <3>1. PICK w, l : w = Current /\ l = LabelOf[Current]
      OBVIOUS
    <3>2. w \in DataWords \ BitWords /\ <<w, l>> \in Labels
      BY <2>1, <3>1, LabelAssumption
    <3>3. DataWord(w)
      BY <2>1, <3>1, OnlyDataWords
    <3>4. StacksHold(Int)
      BY <2>1 DEF FInv, Sound
    <3>5. w \in {"@", "!"} /\ ~Underflows("D") /\ Addressable(Top("D"))
            => CellAt(Top("D")) < DICTIONARY_SIZE
      BY <2>1, <3>1, Zenon
    <3>6. Agrees(w, l)
      BY <3>2, <3>3, <3>4, <3>5, WordAgrees
    <3>7. Kernel!DataStep(l) => Kernel!DataStep(LabelOf[Current])
      BY <3>1, Zenon DEF Kernel!DataStep, Kernel!Pure, Kernel!Compute, Kernel!ToR, Kernel!FromR,
                         Kernel!Fetch, Kernel!Store
    <3>8. Kernel!Pure(l) => Kernel!Pure(LabelOf[Current])
      BY <3>1, Zenon DEF Kernel!Pure, Kernel!Compute
    <3>9. FlagsNegated(l) => FlagsNegated(LabelOf[Current])
      BY <3>1, Zenon DEF FlagsNegated, Kernel!Compute
    <3>10. Kernel!Endless(l) <=> Kernel!Endless(LabelOf[Current])
      BY <3>1, Zenon DEF Kernel!Endless
    <3>11. w \in Comparisons <=> Current \in Comparisons
      BY <3>1, Zenon
    <3> QED  BY <3>6, <3>7, <3>8, <3>9, <3>10, <3>11, Zenon DEF Agrees, Kernel!Complete
  <2> QED  BY <2>1, Zenon DEF AgreesOn, Agrees
<1> QED  BY <1>1, <1>2, <1>3, PTL DEF Spec, AgreesWithKernel

=============================================================================
