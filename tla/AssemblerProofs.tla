-------------------------- MODULE AssemblerProofs ---------------------------
(***************************************************************************)
(* Theorems about Assembler, for every source.                             *)
(***************************************************************************)
EXTENDS Assembler, CommonProofs

(***************************************************************************)
(* One line of text                                                        *)
(***************************************************************************)

\* Labels and code are beginnings of the line (parser._parse_line).
LEMMA LexemeCounts ==
  ASSUME NEW raw \in Seq(Lexeme)
  PROVE  /\ CodeLength(raw) \in Nat /\ LabelCount(raw) \in Nat
         /\ LabelCount(raw) <= CodeLength(raw) /\ CodeLength(raw) <= Len(raw)
<1> DEFINE kept  == {i \in DOMAIN raw : \A j \in 1 .. i : raw[j][1] # "comment"}
           named == {i \in 1 .. CodeLength(raw) : \A j \in 1 .. i : raw[j][1] = "label"}
<1>1. IsFiniteSet(1 .. Len(raw)) /\ Cardinality(1 .. Len(raw)) = Len(raw) /\ Len(raw) \in Nat
  <2>1. Len(raw) \in Nat /\ 1 \in Int /\ Len(raw) \in Int /\ Len(raw) - 1 + 1 = Len(raw)
    OBVIOUS
  <2> QED  BY <2>1, FS_Interval
<1>2. kept \subseteq 1 .. Len(raw)
  OBVIOUS
<1>3. CodeLength(raw) \in Nat /\ CodeLength(raw) <= Len(raw)
  BY <1>1, <1>2, FS_Subset, FS_CardinalityType DEF CodeLength
<1>4. /\ IsFiniteSet(1 .. CodeLength(raw))
      /\ Cardinality(1 .. CodeLength(raw)) = CodeLength(raw)
  BY <1>3, FS_Interval
<1>5. named \subseteq 1 .. CodeLength(raw)
  OBVIOUS
<1>6. LabelCount(raw) \in Nat /\ LabelCount(raw) <= CodeLength(raw)
  BY <1>4, <1>5, FS_Subset, FS_CardinalityType DEF LabelCount
<1> QED  BY <1>3, <1>6

\* A line has finitely many operands (parser._parse_line).
LEMMA OperandCount ==
  ASSUME NEW raw \in Seq(Lexeme)
  PROVE  /\ Cardinality(Beginnings(raw)) \in Nat
         /\ Beginnings(raw) \subseteq LabelCount(raw) + 2 .. CodeLength(raw)
<1>1. Beginnings(raw) \subseteq LabelCount(raw) + 2 .. CodeLength(raw)
  BY DEF Beginnings, OperandWords
<1>2. IsFiniteSet(LabelCount(raw) + 2 .. CodeLength(raw))
  BY LexemeCounts, FS_Interval
<1> QED  BY <1>1, <1>2, FS_Subset, FS_CardinalityType

\* What the parser makes of a line is a LineDto (parser._parse_line).
LEMMA ParsedLine ==
  ASSUME NEW raw \in Seq(Lexeme)
  PROVE  ParseLine(raw) \in LineType
<1> DEFINE n        == LabelCount(raw)
           begins   == Beginnings(raw)
           begin(j) == CHOOSE i \in begins : Cardinality({h \in begins : h < i}) = j - 1
           token(i) == IF i \in Alone(raw) THEN raw[i][2] ELSE Unreadable
           names    == [i \in 1 .. n |-> raw[i][2]]
           first    == IF n = CodeLength(raw) THEN NOLINE ELSE raw[n + 1][2]
           operands == [j \in 1 .. Cardinality(begins) |-> token(begin(j))]
<1>1. \A i \in 1 .. Len(raw) : raw[i][2] \in STRING
  BY DEF Lexeme
<1>2. /\ n \in Nat /\ CodeLength(raw) \in Nat /\ Len(raw) \in Nat
      /\ n <= CodeLength(raw) /\ CodeLength(raw) <= Len(raw)
  BY LexemeCounts
<1>3. names \in Seq(STRING)
  BY <1>1, <1>2
<1>4. first \in STRING \cup {NOLINE}
  <2>1. CASE n = CodeLength(raw)
    BY <2>1
  <2>2. CASE n # CodeLength(raw)
    BY <1>1, <1>2, <2>2
  <2> QED  BY <2>1, <2>2
<1>5. operands \in Seq(STRING)
  <2>1. Cardinality(begins) \in Nat /\ begins \subseteq n + 2 .. CodeLength(raw)
    BY OperandCount
  <2>2. ASSUME NEW i
        PROVE  token(i) \in STRING
    <3>1. CASE i \in Alone(raw)
      BY <1>1, <1>2, <2>1, <3>1 DEF Alone
    <3>2. CASE i \notin Alone(raw)
      BY <3>2, ParserAssumption
    <3> QED  BY <3>1, <3>2
  <2> HIDE DEF token, begin
  <2>3. \A j \in 1 .. Cardinality(begins) : token(begin(j)) \in STRING
    BY <2>2
  <2> HIDE DEF begins
  <2> QED  BY <2>1, <2>3
<1>6. ParseLine(raw) = Line(names, first, operands)
  BY Zenon DEF ParseLine
<1> HIDE DEF names, first, operands
<1> QED  BY <1>3, <1>4, <1>5, <1>6 DEF Line, LineType

(***************************************************************************)
(* One line                                                                *)
(***************************************************************************)

\* Sequences of one or two sound instructions, as one line emits them.
Sound(s) == s \in Seq(AsmInstruction) /\ \A k \in DOMAIN s : ~Malformed(s[k])

\* A token accepted as a register is neither None nor an integer
\* (emitter._resolve_register).
LEMMA RegisterToken ==
  ASSUME NEW t, IsRegister(t)
  PROVE  t # NOREG /\ t # IMM
BY AssemblyAssumption DEF IsRegister

\* A token accepted as a constant has an integer value
\* (emitter._resolve_constant and _resolve_offset).
LEMMA ConstantToken ==
  ASSUME NEW t, NEW table, \A l \in DOMAIN table : table[l] \in Nat,
         NEW adr \in Nat, IsConstant(t, table)
  PROVE  ConstantOf(t, table) \in Int /\ OffsetOf(t, table, adr) \in Int
<1>1. CASE t \in DOMAIN IntOf
  BY <1>1, AssemblyAssumption DEF ConstantOf, OffsetOf
<1>2. CASE t \notin DOMAIN IntOf
  <2>1. table[t] \in Nat
    BY <1>2 DEF IsConstant
  <2>2. ConstantOf(t, table) = table[t] /\ OffsetOf(t, table, adr) = table[t] - (adr + 1)
    BY <1>2 DEF ConstantOf, OffsetOf
  <2>3. table[t] \in Int /\ table[t] - (adr + 1) \in Int
    BY <2>1
  <2> QED  BY <2>2, <2>3, Zenon
<1> QED  BY <1>1, <1>2

\* The operands an instruction may have for the emulator's handler to accept
\* it (InstructionDto).
Shape(op, x, y, n) ==
  /\ op \in Ops /\ n \in Int
  /\ x \in STRING \cup {NOREG} /\ y \in STRING \cup {NOREG, IMM}
  /\ op # "HALT" => x # NOREG
  /\ op \in {"LOAD", "STORE"} => y \notin {NOREG, IMM}
  /\ op \in AluOps => y # NOREG
  /\ op \in BranchOps => y = IMM

\* Instructions of that shape are the ones _require_register, _require_offset
\* and _operand_value let through.
LEMMA InstrShape ==
  ASSUME NEW op, NEW x, NEW y, NEW n, Shape(op, x, y, n)
  PROVE  Instr(op, x, y, n) \in AsmInstruction /\ ~Malformed(Instr(op, x, y, n))
BY DEF Shape, Instr, AsmInstruction, Malformed

\* A line the emitter accepts yields as many instructions as the resolver
\* counts for it, and each is one the emulator accepts (emitter._emit_line,
\* resolver._size).
LEMMA EmittedLine ==
  ASSUME NEW line \in LineType, NEW table, \A l \in DOMAIN table : table[l] \in Nat,
         NEW adr \in Nat, Emittable(line, table)
  PROVE  /\ Sound(Emitted(line, table, adr))
         /\ Len(Emitted(line, table, adr)) = SizeOf(line)
<1> DEFINE m  == line.mnemonic
           ks == OperandKinds[m]
           a  == line.operands[1]
           b  == line.operands[2]
           E  == Emitted(line, table, adr)
<1>t. m \in STRING \cup {NOLINE} /\ line.operands \in Seq(STRING)
  BY DEF LineType
<1>1. CASE m = NOLINE
  <2>1. E = << >> /\ SizeOf(line) = 0
    BY <1>1 DEF Emitted, SizeOf, NOLINE, Ops, AluOps, BranchOps
  <2> QED  BY <2>1 DEF Sound
<1>2. CASE m # NOLINE
  <2>1. /\ m \in DOMAIN OperandKinds /\ Len(line.operands) = Len(ks)
        /\ \A i \in DOMAIN ks : Accepts(ks[i], line.operands[i], table)
    BY <1>2 DEF Emittable
  <2>2. m \in Ops \cup {"SET", "MOV"}
    BY <2>1 DEF OperandKinds
  <2>3. ASSUME ks = <<"register">> \/ (\E k : ks = <<"register", k>>)
        PROVE  a \in STRING /\ a # NOREG /\ a # IMM
    <3>1. 1 \in DOMAIN ks /\ ks[1] = "register" /\ Len(ks) \in {1, 2}
      BY <2>3
    <3>2. a \in STRING
      BY <1>t, <2>1, <3>1
    <3>3. IsRegister(a)
      BY <2>1, <3>1 DEF Accepts
    <3> QED  BY <3>2, <3>3, RegisterToken
  <2>4. ASSUME NEW k, ks = <<"register", k>>
        PROVE  b \in STRING /\ Accepts(k, b, table)
    <3>1. 2 \in DOMAIN ks /\ ks[2] = k /\ Len(ks) = 2
      BY <2>4
    <3> QED  BY <1>t, <2>1, <3>1
  <2>5. ASSUME NEW i \in AsmInstruction, ~Malformed(i), E = <<i>>, SizeOf(line) = 1
        PROVE  Sound(E) /\ Len(E) = SizeOf(line)
    BY <2>5 DEF Sound
  <2>6. ASSUME NEW i \in AsmInstruction, NEW j \in AsmInstruction, ~Malformed(i), ~Malformed(j),
               E = <<i, j>>, SizeOf(line) = 2
        PROVE  Sound(E) /\ Len(E) = SizeOf(line)
    BY <2>6 DEF Sound
  <2>7. CASE m = "SET"
    <3>1. ks = <<"register", "constant">> /\ SizeOf(line) = 2
      BY <2>7 DEF OperandKinds, SizeOf, Ops, AluOps, BranchOps
    <3>2. b \in STRING /\ IsConstant(b, table)
      BY <2>4, <3>1 DEF Accepts
    <3>3. ConstantOf(b, table) \in Int
      BY <3>2, ConstantToken
    <3>4. E = << Instr("SUB", a, a, 0), Instr("ADD", a, IMM, ConstantOf(b, table)) >>
      BY <2>7 DEF Emitted, Replaced, NOLINE, Ops, AluOps, BranchOps
    <3>5. a \in STRING /\ a # NOREG /\ a # IMM
      BY <2>3, <3>1
    <3>6. Shape("SUB", a, a, 0)
      BY <3>5 DEF Shape, Ops, AluOps, BranchOps
    <3>7. ASSUME NEW n \in Int
          PROVE  Shape("ADD", a, IMM, n)
      BY <3>5 DEF Shape, Ops, AluOps, BranchOps, NOREG, IMM
    <3> QED  BY <2>6, <3>1, <3>3, <3>4, <3>6, <3>7, InstrShape, Zenon
  <2>8. CASE m = "MOV"
    <3>1. ks = <<"register", "register">> /\ SizeOf(line) = 2
      BY <2>8 DEF OperandKinds, SizeOf, Ops, AluOps, BranchOps
    <3>2. b \in STRING /\ IsRegister(b)
      BY <2>4, <3>1 DEF Accepts
    <3>3. E = << Instr("SUB", a, a, 0), Instr("ADD", a, b, 0) >>
      BY <2>8 DEF Emitted, Replaced, NOLINE, Ops, AluOps, BranchOps
    <3>4. a \in STRING /\ a # NOREG /\ a # IMM /\ b # NOREG
      BY <2>3, <3>1, <3>2, RegisterToken
    <3>5. Shape("SUB", a, a, 0) /\ Shape("ADD", a, b, 0)
      BY <3>2, <3>4 DEF Shape, Ops, AluOps, BranchOps
    <3> QED  BY <2>6, <3>1, <3>3, <3>5, InstrShape, Zenon
  <2>9. CASE m = "HALT"
    <3>1. ks = << >> /\ SizeOf(line) = 1
      BY <2>9 DEF OperandKinds, SizeOf, Ops, AluOps, BranchOps, NOLINE
    <3>a. Len(ks) = 0 /\ m \in Ops /\ m \notin {NOLINE, "SET", "MOV"}
      BY <2>9, <3>1 DEF NOLINE, Ops, AluOps, BranchOps
    <3>2. E = << Instr(m, NOREG, NOREG, 0) >>
      BY <3>a DEF Emitted
    <3>3. Shape(m, NOREG, NOREG, 0)
      BY <2>9 DEF Shape, Ops, AluOps, BranchOps, NOREG
    <3> QED  BY <2>5, <3>1, <3>2, <3>3, InstrShape, Zenon
  <2>10. CASE m \in Ops \ ({"HALT", "LOAD", "STORE"} \cup AluOps \cup BranchOps)
    <3>1. ks = <<"register">> /\ SizeOf(line) = 1
      BY <2>10 DEF OperandKinds, SizeOf, Ops, AluOps, BranchOps, NOLINE
    <3>a. Len(ks) = 1 /\ m \in Ops /\ m \notin {NOLINE, "SET", "MOV"}
      BY <2>10, <3>1 DEF NOLINE, Ops, AluOps, BranchOps
    <3>2. E = << Instr(m, a, NOREG, 0) >>
      BY <3>a DEF Emitted
    <3>3. a \in STRING /\ a # NOREG
      BY <2>3, <3>1
    <3>4. Shape(m, a, NOREG, 0)
      BY <2>10, <3>3 DEF Shape, NOREG
    <3> QED  BY <2>5, <3>1, <3>2, <3>4, InstrShape, Zenon
  <2>11. CASE m \in {"LOAD", "STORE"} \cup AluOps \cup BranchOps
    <3> DEFINE k == ks[2]
               s == Second(k, b, table, adr)
    <3>1. ks = <<"register", k>> /\ SizeOf(line) = 1 /\
          k = CASE m \in {"LOAD", "STORE"} -> "register"
                [] m \in AluOps -> "register_or_immediate"
                [] OTHER -> "offset"
      BY <2>11 DEF OperandKinds, SizeOf, Ops, AluOps, BranchOps, NOLINE
    <3>a. Len(ks) = 2 /\ m \in Ops /\ m \notin {NOLINE, "SET", "MOV"}
      BY <2>11, <3>1 DEF NOLINE, Ops, AluOps, BranchOps
    <3>2. E = << Instr(m, a, s[1], s[2]) >>
      BY <3>a DEF Emitted
    <3>3. a \in STRING /\ a # NOREG /\ b \in STRING /\ Accepts(k, b, table)
      BY <2>3, <2>4, <3>1
    <3>4. s[1] \in STRING \cup {IMM} /\ s[1] # NOREG /\ s[2] \in Int /\ (k = "register" => s[1] # IMM)
          /\ (k = "offset" => s[1] = IMM)
      <4> HIDE DEF s
      <4>1. CASE k = "register"
        <5>1. IsRegister(b) /\ s = <<b, 0>>
          BY <3>3, <4>1 DEF Accepts, Second, s
        <5>2. b # NOREG /\ b # IMM
          BY <3>3, <5>1, RegisterToken, Zenon
        <5> QED  BY <3>3, <4>1, <5>1, <5>2
      <4>2. CASE k = "offset"
        <5>1. IsConstant(b, table) /\ s = <<IMM, OffsetOf(b, table, adr)>>
          BY <3>3, <4>2 DEF Accepts, Second, s
        <5>2. OffsetOf(b, table, adr) \in Int
          BY <3>3, <5>1, ConstantToken
        <5> QED  BY <4>2, <5>1, <5>2 DEF IMM, NOREG
      <4>3. CASE k = "register_or_immediate" /\ IsConstant(b, table)
        <5>1. s = <<IMM, ConstantOf(b, table)>>
          BY <4>3 DEF Second, s
        <5>2. ConstantOf(b, table) \in Int
          BY <3>3, <4>3, ConstantToken
        <5> QED  BY <4>3, <5>1, <5>2 DEF IMM, NOREG
      <4>4. CASE k = "register_or_immediate" /\ ~IsConstant(b, table)
        <5>1. IsRegister(b) /\ s = <<b, 0>>
          BY <3>3, <4>4 DEF Accepts, Second, s
        <5>2. b # NOREG /\ b # IMM
          BY <3>3, <5>1, RegisterToken, Zenon
        <5> QED  BY <3>3, <4>4, <5>1, <5>2
      <4> QED  BY <3>1, <4>1, <4>2, <4>3, <4>4
    <3>5. Shape(m, a, s[1], s[2])
      BY <2>11, <3>1, <3>3, <3>4 DEF Shape, Ops, AluOps, BranchOps, NOREG, IMM
    <3> QED  BY <2>5, <3>1, <3>2, <3>5, InstrShape, Zenon
  <2> QED  BY <2>2, <2>7, <2>8, <2>9, <2>10, <2>11
<1> QED  BY <1>1, <1>2

(***************************************************************************)
(* The invariant of the two passes                                         *)
(***************************************************************************)

\* The first pass: a line's address is what the lines before it take.
PlacedInOrder ==
  /\ placed = << >> => address = 0
  /\ placed # << >> => placed[1] = 0
  /\ \A i \in 1 .. Len(placed) :
       (IF i < Len(placed) THEN placed[i + 1] ELSE address) = placed[i] + SizeOf(lines[i])

\* How far each pass is.
PassProgress ==
  /\ phase = "parse" => at = 1 /\ placed = << >>
  /\ phase = "resolve" => Len(placed) = at - 1
  /\ phase \in {"emit", "done"} => Len(placed) = Len(lines)
  /\ phase \in {"parse", "resolve"} => program = << >>

IInv == TypeOK /\ PlacedInOrder /\ PassProgress /\ TwoPassesAgree /\ EmitsNoMalformed

\* A line takes no, one or two instructions (resolver._size).
LEMMA SizeOfNat == ASSUME NEW line PROVE SizeOf(line) \in Nat
BY DEF SizeOf

\* The invariant holds when the call starts.
LEMMA AssemblerInit == Init => IInv
<1> SUFFICES ASSUME Init
             PROVE  IInv
  OBVIOUS
<1>1. text \in Seq(Seq(Lexeme)) /\ lines \in Seq(LineType) /\ Len(lines) = 0
  BY AssemblerAssumption DEF Init
<1> QED
  BY <1>1 DEF Init, IInv, TypeOK, PlacedInOrder, PassProgress, TwoPassesAgree, EmitsNoMalformed

\* The first pass keeps it: the address runs ahead by the size of the line.
LEMMA ResolveKeepsIInv == IInv /\ ResolveLine => IInv'
<1> SUFFICES ASSUME IInv, ResolveLine
             PROVE  IInv'
  OBVIOUS
<1> USE DEF IInv
<1>1. CASE Duplicated(lines[at].labels)
  BY <1>1
  DEF ResolveLine, Refuse, TypeOK, PlacedInOrder, PassProgress, TwoPassesAgree, EmitsNoMalformed
<1>2. CASE ~Duplicated(lines[at].labels)
  <2>1. /\ placed' = Append(placed, address)
        /\ address' = address + SizeOf(lines[at])
        /\ labels' = [l \in DOMAIN labels \cup ToSet(lines[at].labels) |->
                        IF l \in DOMAIN labels THEN labels[l] ELSE address]
        /\ at' = at + 1 /\ lines' = lines /\ text' = text /\ phase' = phase /\ program' = program
        /\ phase = "resolve" /\ at <= Len(lines)
    BY <1>2 DEF ResolveLine
  <2>2. /\ address \in Nat /\ SizeOf(lines[at]) \in Nat /\ at \in Nat \ {0}
        /\ placed \in Seq(Nat) /\ Len(placed) = at - 1 /\ program = << >> /\ Len(lines) \in Nat
    BY <2>1, SizeOfNat DEF TypeOK, PassProgress
  <2>3. placed' \in Seq(Nat) /\ Len(placed') = at /\ placed'[at] = address
        /\ \A i \in 1 .. at - 1 : placed'[i] = placed[i]
    BY <2>1, <2>2
  <2>4. \A l \in DOMAIN labels' : labels'[l] \in Nat
    BY <2>1, <2>2 DEF TypeOK
  <2>5. TypeOK'
    BY <2>1, <2>2, <2>3, <2>4 DEF TypeOK
  <2>6. PlacedInOrder'
    <3>1. ASSUME NEW i \in 1 .. at
          PROVE  (IF i < at THEN placed'[i + 1] ELSE address') = placed'[i] + SizeOf(lines[i])
      <4>1. CASE i = at
        BY <2>1, <2>3, <4>1
      <4>2. CASE i = at - 1
        BY <2>2, <2>3, <4>2 DEF PlacedInOrder
      <4>3. CASE i < at - 1
        BY <2>2, <2>3, <4>3 DEF PlacedInOrder
      <4> QED  BY <2>2, <4>1, <4>2, <4>3
    <3>2. placed'[1] = 0
      <4>1. CASE at = 1
        BY <2>2, <2>3, <4>1 DEF PlacedInOrder
      <4>2. CASE at > 1
        BY <2>2, <2>3, <4>2 DEF PlacedInOrder
      <4> QED  BY <2>2, <4>1, <4>2
    <3>3. placed' # << >>
      BY <2>2, <2>3
    <3> QED  BY <2>1, <2>3, <3>1, <3>2, <3>3 DEF PlacedInOrder
  <2>7. PassProgress' /\ TwoPassesAgree' /\ EmitsNoMalformed'
    BY <2>1, <2>2, <2>3 DEF PassProgress, TwoPassesAgree, EmitsNoMalformed
  <2> QED  BY <2>5, <2>6, <2>7
<1> QED  BY <1>1, <1>2

\* An element of two sequences put together is an element of one of them.
LEMMA ConcatElement ==
  ASSUME NEW S, NEW s \in Seq(S), NEW t \in Seq(S), NEW k \in DOMAIN (s \o t)
  PROVE  \/ k \in DOMAIN s /\ (s \o t)[k] = s[k]
         \/ k - Len(s) \in DOMAIN t /\ (s \o t)[k] = t[k - Len(s)]
<1>1. k \in 1 .. Len(s) + Len(t) /\ Len(s) \in Nat /\ Len(t) \in Nat
  OBVIOUS
<1>2. DOMAIN s = 1 .. Len(s) /\ DOMAIN t = 1 .. Len(t)
  OBVIOUS
<1>3. CASE k <= Len(s)
  BY <1>1, <1>2, <1>3
<1>4. CASE k > Len(s)
  BY <1>1, <1>2, <1>4
<1> QED  BY <1>1, <1>3, <1>4

\* The second pass keeps it: what a line emits fills the room it was given.
LEMMA EmitKeepsIInv == IInv /\ EmitLine => IInv'
<1> SUFFICES ASSUME IInv, EmitLine
             PROVE  IInv'
  OBVIOUS
<1> USE DEF IInv
<1> DEFINE code == Emitted(lines[at], labels, placed[at])
<1>1. CASE ~Emittable(lines[at], labels)
  BY <1>1
  DEF EmitLine, Refuse, TypeOK, PlacedInOrder, PassProgress, TwoPassesAgree, EmitsNoMalformed
<1>2. CASE Emittable(lines[at], labels)
  <2>1. /\ program' = program \o code /\ at' = at + 1 /\ phase = "emit" /\ at <= Len(lines)
        /\ UNCHANGED <<text, lines, phase, address, labels, placed>>
    BY <1>2 DEF EmitLine
  <2>2. /\ at \in 1 .. Len(lines) /\ Len(lines) \in Nat /\ lines[at] \in LineType
        /\ placed \in Seq(Nat) /\ Len(placed) = Len(lines) /\ placed[at] \in Nat
        /\ \A l \in DOMAIN labels : labels[l] \in Nat
        /\ program \in Seq(AsmInstruction) /\ Len(program) = placed[at]
    BY <2>1 DEF TypeOK, PassProgress, TwoPassesAgree
  <2>3. Sound(code) /\ Len(code) = SizeOf(lines[at])
    BY <1>2, <2>2, EmittedLine
  <2> HIDE DEF code
  <2>4. program' \in Seq(AsmInstruction) /\ Len(program') = placed[at] + SizeOf(lines[at])
    BY <2>1, <2>2, <2>3 DEF Sound
  <2>5. EmitsNoMalformed'
    <3>1. ASSUME NEW k \in DOMAIN program'
          PROVE  ~Malformed(program'[k])
      <4>1. \/ k \in DOMAIN program /\ program'[k] = program[k]
            \/ k - Len(program) \in DOMAIN code /\ program'[k] = code[k - Len(program)]
        <5>1. program \in Seq(AsmInstruction) /\ code \in Seq(AsmInstruction)
          BY <2>2, <2>3 DEF Sound
        <5>2. program' = program \o code
          BY <2>1
        <5> HIDE DEF IInv
        <5> QED  BY <5>1, <5>2, ConcatElement, Zenon
      <4> QED  BY <2>3, <4>1 DEF Sound, EmitsNoMalformed
    <3> QED  BY <3>1 DEF EmitsNoMalformed
  <2>6. TypeOK' /\ PlacedInOrder' /\ PassProgress'
    BY <2>1, <2>2, <2>4 DEF TypeOK, PlacedInOrder, PassProgress
  <2>7. (IF at < Len(lines) THEN placed[at + 1] ELSE address) = placed[at] + SizeOf(lines[at])
    BY <2>2 DEF PlacedInOrder
  <2>8. TwoPassesAgree'
    BY <2>1, <2>2, <2>4, <2>7 DEF TwoPassesAgree
  <2> QED  BY <2>5, <2>6, <2>8
<1> QED  BY <1>1, <1>2

\* Every step of the assembler keeps the invariant.
LEMMA AssemblerNext == IInv /\ [Next]_vars => IInv'
<1> SUFFICES ASSUME IInv, [Next]_vars
             PROVE  IInv'
  OBVIOUS
<1>1. CASE Parse
  <2>1. phase = "parse" /\ at = 1 /\ placed = << >> /\ program = << >>
    BY <1>1 DEF IInv, PassProgress, Parse
  <2>2. CASE \E i \in DOMAIN text : BadLine(text[i])
    BY <1>1, <2>1, <2>2
    DEF Parse, Refuse, IInv, TypeOK, PlacedInOrder, PassProgress, TwoPassesAgree, EmitsNoMalformed
  <2>3. CASE ~\E i \in DOMAIN text : BadLine(text[i])
    <3>1. /\ lines' = ParsedUnit(text) /\ phase' = "resolve"
          /\ UNCHANGED <<text, at, address, labels, placed, program>>
      BY <1>1, <2>3 DEF Parse
    <3>2. lines' \in Seq(LineType) /\ Len(lines') \in Nat
      <4>1. text \in Seq(Seq(Lexeme))
        BY DEF IInv, TypeOK
      <4>2. Len(text) \in Nat /\ \A i \in 1 .. Len(text) : text[i] \in Seq(Lexeme)
        BY <4>1
      <4>3. \A i \in 1 .. Len(text) : ParseLine(text[i]) \in LineType
        BY <4>2, ParsedLine
      <4>4. lines' = [i \in 1 .. Len(text) |-> ParseLine(text[i])]
        BY <3>1, <4>1 DEF ParsedUnit
      <4> QED  BY <4>2, <4>3, <4>4
    <3>3. TypeOK'
      BY <2>1, <3>1, <3>2 DEF IInv, TypeOK
    <3>4. PlacedInOrder' /\ TwoPassesAgree' /\ EmitsNoMalformed' /\ PassProgress'
      BY <2>1, <3>1
      DEF IInv, PlacedInOrder, TwoPassesAgree, EmitsNoMalformed, PassProgress
    <3> QED  BY <3>3, <3>4 DEF IInv
  <2> QED  BY <2>2, <2>3
<1>2. CASE Resolved
  <2>1. /\ phase' = "emit" /\ at' = 1 /\ phase = "resolve" /\ at > Len(lines)
        /\ UNCHANGED <<text, lines, address, labels, placed, program>>
    BY <1>2 DEF Resolved
  <2>2. at = Len(lines) + 1 /\ Len(lines) \in Nat /\ Len(placed) = Len(lines) /\ program = << >>
        /\ placed \in Seq(Nat)
    BY <2>1 DEF IInv, TypeOK, PassProgress
  <2>3. Len(lines) = 0 => placed = << >>
    BY <2>2
  <2>4. TwoPassesAgree'
    BY <2>1, <2>2, <2>3 DEF IInv, PlacedInOrder, TwoPassesAgree
  <2>5. TypeOK' /\ PlacedInOrder' /\ PassProgress' /\ EmitsNoMalformed'
    BY <2>1, <2>2 DEF IInv, TypeOK, PlacedInOrder, PassProgress, EmitsNoMalformed
  <2> QED  BY <2>4, <2>5 DEF IInv
<1>3. CASE EmittedAll
  BY <1>3
  DEF EmittedAll, IInv, TypeOK, PlacedInOrder, PassProgress, TwoPassesAgree, EmitsNoMalformed
<1>4. CASE UNCHANGED vars
  BY <1>4
  DEF vars, IInv, TypeOK, PlacedInOrder, PassProgress, TwoPassesAgree, EmitsNoMalformed
<1> QED
  BY <1>1, <1>2, <1>3, <1>4, ResolveKeepsIInv, EmitKeepsIInv DEF Next

\* For every source: the two passes of the assembler count the same
\* instructions, so an address of the label table is the index of the
\* instruction that the line contributes.
THEOREM AssemblerPassesAgree == Spec => []TwoPassesAgree
<1>1. IInv => TwoPassesAgree
  BY DEF IInv
<1> QED  BY <1>1, AssemblerInit, AssemblerNext, PTL DEF Spec

\* For every source: no handler of the emulator refuses the operands of an
\* instruction that the assembler has emitted.
THEOREM AssemblerEmitsSound == Spec => []EmitsNoMalformed
<1>1. IInv => EmitsNoMalformed
  BY DEF IInv
<1> QED  BY <1>1, AssemblerInit, AssemblerNext, PTL DEF Spec

\* For every source, the state of the two passes keeps its type.
THEOREM AssemblerTypeOK == Spec => []TypeOK
<1>1. IInv => TypeOK
  BY DEF IInv
<1> QED  BY <1>1, AssemblerInit, AssemblerNext, PTL DEF Spec

(***************************************************************************)
(* What a call returns.  The passes go line by line; Assembly states the   *)
(* program and the label table of a unit in one piece.                     *)
(***************************************************************************)

(***************************************************************************)
(* Addresses                                                               *)
(***************************************************************************)

\* What the lines before line i take: Assembly's before.
Before(ls, i) ==
  Cardinality({j \in 1 .. i - 1 : SizeOf(ls[j]) >= 1})
  + Cardinality({j \in 1 .. i - 1 : SizeOf(ls[j]) = 2})

\* Of the lines up to i those with a property are those before i, and i or not.
LEMMA OneMoreLine ==
  ASSUME NEW P, NEW i \in Nat \ {0}
  PROVE  LET upto(n) == {j \in 1 .. n - 1 : j \in P}
         IN  /\ Cardinality(upto(i)) \in Nat
             /\ Cardinality(upto(i + 1)) = Cardinality(upto(i)) + (IF i \in P THEN 1 ELSE 0)
<1> DEFINE upto(n) == {j \in 1 .. n - 1 : j \in P}
<1>1. IsFiniteSet(1 .. i - 1)
  BY FS_Interval
<1>2. IsFiniteSet(upto(i)) /\ Cardinality(upto(i)) \in Nat /\ i \notin upto(i)
  BY <1>1, FS_Subset, FS_CardinalityType
<1>3. upto(i + 1) = IF i \in P THEN upto(i) \cup {i} ELSE upto(i)
  OBVIOUS
<1>4. Cardinality(upto(i) \cup {i}) = Cardinality(upto(i)) + 1
  <2>1. upto(i) \cup {i} # upto(i)
    BY <1>2
  <2> HIDE DEF upto
  <2> QED  BY <1>2, <2>1, FS_AddElement
<1>5. i \notin P => Cardinality(upto(i + 1)) = Cardinality(upto(i))
  BY <1>3, Zenon
<1>6. i \in P => Cardinality(upto(i + 1)) = Cardinality(upto(i)) + 1
  BY <1>3, <1>4, Zenon
<1> QED  BY <1>2, <1>5, <1>6

\* A line's address is that of the line before it plus what that line takes
\* (resolver.resolve).
LEMMA BeforeNext ==
  ASSUME NEW ls, NEW i \in Nat \ {0}
  PROVE  /\ Before(ls, 1) = 0
         /\ Before(ls, i) \in Nat
         /\ Before(ls, i + 1) = Before(ls, i) + SizeOf(ls[i])
<1> DEFINE some(n) == {j \in 1 .. n - 1 : SizeOf(ls[j]) >= 1}
           two(n)  == {j \in 1 .. n - 1 : SizeOf(ls[j]) = 2}
           Some    == {j \in Nat : SizeOf(ls[j]) >= 1}
           Two     == {j \in Nat : SizeOf(ls[j]) = 2}
<1>1. \A n \in Nat \ {0} : /\ some(n) = {j \in 1 .. n - 1 : j \in Some}
                           /\ two(n) = {j \in 1 .. n - 1 : j \in Two}
  OBVIOUS
<1>2. some(1) = {} /\ two(1) = {}
  OBVIOUS
<1>3. /\ Cardinality(some(i)) \in Nat
      /\ Cardinality(some(i + 1)) = Cardinality(some(i)) + (IF i \in Some THEN 1 ELSE 0)
  <2> HIDE DEF Some
  <2>1. some(i) = {j \in 1 .. i - 1 : j \in Some}
    BY <1>1
  <2>2. some(i + 1) = {j \in 1 .. (i + 1) - 1 : j \in Some}
    BY <1>1
  <2> HIDE DEF some
  <2> QED  BY <2>1, <2>2, OneMoreLine
<1>4. /\ Cardinality(two(i)) \in Nat
      /\ Cardinality(two(i + 1)) = Cardinality(two(i)) + (IF i \in Two THEN 1 ELSE 0)
  <2> HIDE DEF Two
  <2>1. two(i) = {j \in 1 .. i - 1 : j \in Two}
    BY <1>1
  <2>2. two(i + 1) = {j \in 1 .. (i + 1) - 1 : j \in Two}
    BY <1>1
  <2> HIDE DEF two
  <2> QED  BY <2>1, <2>2, OneMoreLine
<1>5. /\ i \in Some <=> SizeOf(ls[i]) >= 1
      /\ i \in Two <=> SizeOf(ls[i]) = 2
      /\ SizeOf(ls[i]) \in {0, 1, 2}
  BY DEF SizeOf
<1>6. \A n : Before(ls, n) = Cardinality(some(n)) + Cardinality(two(n))
  BY Zenon DEF Before
<1> HIDE DEF some, two, Some, Two
<1> QED  BY <1>2, <1>3, <1>4, <1>5, <1>6, FS_EmptySet

\* Assembly's Addresses are these.
LEMMA AddressesBefore ==
  ASSUME NEW ls \in Seq(LineType)
  PROVE  /\ \A i \in 1 .. Len(ls) + 1 : Addresses(ls)[i] = Before(ls, i)
         /\ Addresses(ls) # << >> /\ Last(Addresses(ls)) = Before(ls, Len(ls) + 1)
<1> DEFINE firsts == [i \in DOMAIN ls |-> Before(ls, i)]
<1>1. Len(ls) \in Nat /\ DOMAIN ls = 1 .. Len(ls)
  OBVIOUS
<1>2. Addresses(ls) = Append(firsts, Before(ls, Len(ls) + 1))
  BY Zenon DEF Addresses, Before
<1>3. \A i \in 1 .. Len(ls) + 1 : Before(ls, i) \in Nat
  BY <1>1, BeforeNext
<1>4. firsts \in Seq(Nat) /\ Len(firsts) = Len(ls)
  BY <1>1, <1>3
<1>5. \A i \in 1 .. Len(ls) : firsts[i] = Before(ls, i)
  BY <1>1
<1> HIDE DEF firsts
<1>6. Before(ls, Len(ls) + 1) \in Nat
  BY <1>1, <1>3
<1> QED  BY <1>1, <1>2, <1>4, <1>5, <1>6 DEF Last

(***************************************************************************)
(* The invariant                                                           *)
(***************************************************************************)

\* The first pass places each line at its address.
AtAddresses ==
  /\ \A i \in 1 .. Len(placed) : placed[i] = Before(lines, i)
  /\ address = Before(lines, Len(placed) + 1)

\* No label is defined twice in the first n lines.
Distinct(n) ==
  \A i, j \in 1 .. n : \A k \in DOMAIN lines[i].labels, l \in DOMAIN lines[j].labels :
    lines[i].labels[k] = lines[j].labels[l] => i = j /\ k = l

\* The table has the labels of the lines placed so far, each at its line.
LabelsPlaced ==
  /\ phase = "parse" => labels = << >>
  /\ labels = [l \in UNION {ToSet(lines[i].labels) : i \in 1 .. Len(placed)} |-> labels[l]]
  /\ \A i \in 1 .. Len(placed) : \A l \in ToSet(lines[i].labels) : labels[l] = placed[i]
  /\ Distinct(Len(placed))

\* The lines the second pass has gone over.
Passed == {i \in DOMAIN lines : phase = "done" \/ (phase = "emit" /\ i < at)}

\* Each of them was accepted, and its instructions stand at its address.
ProgramPlaced ==
  \A i \in Passed :
    /\ Emittable(lines[i], labels)
    /\ placed[i] + SizeOf(lines[i]) <= Len(program)
    /\ \A k \in 1 .. SizeOf(lines[i]) :
         program[placed[i] + k] = Emitted(lines[i], labels, placed[i])[k]

\* No instruction belongs to none of them.
ProgramCovered ==
  phase \in {"emit", "done"} =>
    \A n \in 1 .. Len(program) : \E i \in Passed :
      placed[i] < n /\ n <= placed[i] + SizeOf(lines[i])

\* What there is to refuse when a call has failed.
RefusedFor ==
  phase = "error" =>
    \/ \E i \in DOMAIN text : BadLine(text[i])
    \/ \E i, j \in DOMAIN lines :
         \E k \in DOMAIN lines[i].labels, l \in DOMAIN lines[j].labels :
           <<i, k>> # <<j, l>> /\ lines[i].labels[k] = lines[j].labels[l]
    \/ \E i \in DOMAIN lines : ~Emittable(lines[i], LabelTable(lines))

RInv ==
  IInv /\ AtAddresses /\ LabelsPlaced /\ ProgramPlaced /\ ProgramCovered /\ RefusedFor

\* The invariant holds when the call starts.
LEMMA ResultInit == Init => RInv
<1> SUFFICES ASSUME Init
             PROVE  RInv
  OBVIOUS
<1>1. IInv
  BY AssemblerInit
<1>2. lines = << >> /\ placed = << >> /\ address = 0 /\ labels = << >> /\ program = << >>
      /\ phase = "parse" /\ Len(placed) = 0
  BY DEF Init
<1>3. AtAddresses
  BY <1>2, BeforeNext DEF AtAddresses
<1>4. LabelsPlaced
  BY <1>2 DEF LabelsPlaced, Distinct
<1>5. ProgramPlaced /\ ProgramCovered /\ RefusedFor
  BY <1>2 DEF ProgramPlaced, ProgramCovered, RefusedFor, Passed
<1> QED  BY <1>1, <1>3, <1>4, <1>5 DEF RInv

\* Once the first pass is through, the table is the unit's.
LEMMA TableComplete ==
  ASSUME RInv, Len(placed) = Len(lines)
  PROVE  labels = LabelTable(lines)
<1> DEFINE defined == UNION {ToSet(lines[i].labels) : i \in DOMAIN lines}
           line(l) == CHOOSE i \in DOMAIN lines : l \in ToSet(lines[i].labels)
<1>1. lines \in Seq(LineType) /\ Len(lines) \in Nat /\ DOMAIN lines = 1 .. Len(lines)
  BY DEF RInv, IInv, TypeOK
<1>2. LabelTable(lines) = [l \in defined |-> Addresses(lines)[line(l)]]
  BY Zenon DEF LabelTable
<1>3. labels = [l \in defined |-> labels[l]]
  BY <1>1 DEF RInv, LabelsPlaced
<1>4. ASSUME NEW l \in defined
      PROVE  labels[l] = Addresses(lines)[line(l)]
  <2>1. line(l) \in DOMAIN lines /\ l \in ToSet(lines[line(l)].labels)
    BY <1>4
  <2> HIDE DEF line
  <2>2. labels[l] = placed[line(l)]
    BY <1>1, <2>1 DEF RInv, LabelsPlaced
  <2>3. placed[line(l)] = Before(lines, line(l))
    BY <1>1, <2>1 DEF RInv, AtAddresses
  <2>4. Addresses(lines)[line(l)] = Before(lines, line(l))
    BY <1>1, <2>1, AddressesBefore
  <2> QED  BY <2>2, <2>3, <2>4
<1> HIDE DEF defined, line
<1> QED  BY <1>2, <1>3, <1>4, Zenon

\* The second pass, and a refusal, leave the results of the first.
LEMMA FirstPassKept ==
  ASSUME AtAddresses, LabelsPlaced, UNCHANGED <<lines, address, labels, placed>>,
         phase' = "parse" => phase = "parse"
  PROVE  AtAddresses' /\ LabelsPlaced'
<1>1. AtAddresses'
  BY DEF AtAddresses
<1>2. Distinct(Len(placed))'
  BY DEF LabelsPlaced, Distinct
<1>3. (phase = "parse" => labels = << >>)'
  BY DEF LabelsPlaced
<1>4. (labels = [l \in UNION {ToSet(lines[i].labels) : i \in 1 .. Len(placed)} |-> labels[l]])'
  <2>1. labels = [l \in UNION {ToSet(lines[i].labels) : i \in 1 .. Len(placed)} |-> labels[l]]
    BY DEF LabelsPlaced
  <2> QED  BY <2>1, Zenon
<1>5. (\A i \in 1 .. Len(placed) : \A l \in ToSet(lines[i].labels) : labels[l] = placed[i])'
  <2>1. \A i \in 1 .. Len(placed) : \A l \in ToSet(lines[i].labels) : labels[l] = placed[i]
    BY DEF LabelsPlaced
  <2> QED  BY <2>1, Zenon
<1> QED  BY <1>1, <1>2, <1>3, <1>4, <1>5 DEF LabelsPlaced

\* A call that is refused is refused for a reason.
LEMMA RefusalKeepsRInv ==
  ASSUME RInv, IInv', Refuse,
         \/ \E i \in DOMAIN text : BadLine(text[i])
         \/ Len(placed) = at - 1 /\ at <= Len(lines) /\ Duplicated(lines[at].labels)
         \/ Len(placed) = Len(lines) /\ at <= Len(lines) /\ ~Emittable(lines[at], labels)
  PROVE  RInv'
<1>1. phase' = "error" /\ UNCHANGED <<text, lines, at, address, labels, placed, program>>
  BY DEF Refuse
<1>2. lines \in Seq(LineType) /\ Len(lines) \in Nat /\ DOMAIN lines = 1 .. Len(lines)
      /\ at \in 1 .. Len(lines) + 1 /\ Len(placed) \in Nat
  BY DEF RInv, IInv, TypeOK
<1>3. AtAddresses' /\ LabelsPlaced'
  BY <1>1, FirstPassKept DEF RInv
<1>4. ProgramPlaced' /\ ProgramCovered'
  BY <1>1 DEF ProgramPlaced, ProgramCovered, Passed
<1>5. RefusedFor'
  <2>1. CASE \E i \in DOMAIN text : BadLine(text[i])
    BY <1>1, <2>1 DEF RefusedFor
  <2>2. CASE Len(placed) = at - 1 /\ at <= Len(lines) /\ Duplicated(lines[at].labels)
    <3>1. at \in DOMAIN lines
      BY <1>2, <2>2
    <3>2. CASE \E k \in DOMAIN lines[at].labels : lines[at].labels[k] \in DOMAIN labels
      <4>1. PICK k \in DOMAIN lines[at].labels : lines[at].labels[k] \in DOMAIN labels
        BY <3>2
      <4>2. PICK i \in 1 .. at - 1 : lines[at].labels[k] \in ToSet(lines[i].labels)
        BY <2>2, <4>1 DEF RInv, LabelsPlaced
      <4>3. PICK l \in DOMAIN lines[i].labels : lines[i].labels[l] = lines[at].labels[k]
        BY <4>2 DEF ToSet
      <4>4. i \in DOMAIN lines /\ <<i, l>> # <<at, k>>
        BY <1>2, <4>2
      <4> QED  BY <1>1, <3>1, <4>1, <4>3, <4>4 DEF RefusedFor
    <3>3. CASE \E j, k \in DOMAIN lines[at].labels :
                 j # k /\ lines[at].labels[j] = lines[at].labels[k]
      <4>1. PICK j \in DOMAIN lines[at].labels, k \in DOMAIN lines[at].labels :
              j # k /\ lines[at].labels[j] = lines[at].labels[k]
        BY <3>3
      <4>2. <<at, j>> # <<at, k>>
        BY <4>1
      <4> QED  BY <1>1, <3>1, <4>1, <4>2 DEF RefusedFor
    <3> QED  BY <2>2, <3>2, <3>3 DEF Duplicated
  <2>3. CASE Len(placed) = Len(lines) /\ at <= Len(lines) /\ ~Emittable(lines[at], labels)
    <3>1. at \in DOMAIN lines /\ ~Emittable(lines[at], LabelTable(lines))
      BY <1>2, <2>3, TableComplete
    <3> QED  BY <1>1, <3>1 DEF RefusedFor
  <2> QED  BY <2>1, <2>2, <2>3
<1> QED  BY <1>3, <1>4, <1>5 DEF RInv

\* One step of the first pass: the line's labels are new, and get its address.
LEMMA ResolveKeepsRInv == RInv /\ ResolveLine => RInv'
<1> SUFFICES ASSUME RInv, ResolveLine
             PROVE  RInv'
  OBVIOUS
<1>i. IInv /\ IInv' /\ AtAddresses /\ LabelsPlaced
  BY ResolveKeepsIInv DEF RInv
<1>1. phase = "resolve" /\ at \in 1 .. Len(lines) /\ Len(lines) \in Nat /\ lines \in Seq(LineType)
      /\ Len(placed) = at - 1 /\ placed \in Seq(Nat) /\ program = << >> /\ address \in Nat
  BY <1>i DEF IInv, TypeOK, PassProgress, ResolveLine
<1>2. CASE Duplicated(lines[at].labels)
  <2>1. Refuse
    BY <1>2 DEF ResolveLine
  <2> QED  BY <1>i, <1>1, <1>2, <2>1, RefusalKeepsRInv
<1>3. CASE ~Duplicated(lines[at].labels)
  <2> DEFINE new == ToSet(lines[at].labels)
             old == UNION {ToSet(lines[i].labels) : i \in 1 .. at - 1}
  <2>1. /\ labels' = [l \in DOMAIN labels \cup new |-> IF l \in DOMAIN labels THEN labels[l] ELSE address]
        /\ placed' = Append(placed, address)
        /\ address' = address + SizeOf(lines[at])
        /\ at' = at + 1 /\ UNCHANGED <<text, lines, phase, program>>
    BY <1>3 DEF ResolveLine
  <2>2. Len(placed') = at /\ placed'[at] = address /\ \A i \in 1 .. at - 1 : placed'[i] = placed[i]
    BY <1>1, <2>1
  <2>3. AtAddresses'
    <3>1. address = Before(lines, at) /\ \A i \in 1 .. at - 1 : placed[i] = Before(lines, i)
      BY <1>i, <1>1 DEF AtAddresses
    <3>2. address' = Before(lines, at + 1)
      <4>1. at \in Nat \ {0}
        BY <1>1
      <4>2. Before(lines, at + 1) = Before(lines, at) + SizeOf(lines[at])
        BY <4>1, BeforeNext
      <4> QED  BY <2>1, <3>1, <4>2
    <3>3. \A i \in 1 .. at : placed'[i] = Before(lines, i)
      BY <1>1, <2>2, <3>1
    <3>4. lines' = lines
      BY <2>1
    <3> QED  BY <2>2, <3>2, <3>3, <3>4 DEF AtAddresses, Before
  <2>4. DOMAIN labels = old
    BY <1>i, <1>1 DEF LabelsPlaced
  <2>5. DOMAIN labels' = old \cup new
    BY <2>1, <2>4
  <2>6. old \cup new = UNION {ToSet(lines[i].labels) : i \in 1 .. at}
    <3>1. 1 .. at = (1 .. at - 1) \cup {at}
      BY <1>1
    <3> QED  BY <3>1, Zenon
  <2>7. labels' = [l \in old \cup new |-> labels'[l]]
    BY <2>1, <2>4
  <2>8. new \cap old = {}
    BY <1>3, <2>4 DEF Duplicated, ToSet
  <2>9. \A i \in 1 .. at : \A l \in ToSet(lines[i].labels) : labels'[l] = placed'[i]
    <3> SUFFICES ASSUME NEW i \in 1 .. at, NEW l \in ToSet(lines[i].labels)
                 PROVE  labels'[l] = placed'[i]
      OBVIOUS
    <3>1. CASE i = at
      BY <2>1, <2>2, <2>4, <2>8, <3>1
    <3>2. CASE i # at
      <4>1. i \in 1 .. at - 1 /\ l \in old
        BY <1>1, <3>2
      <4>2. labels[l] = placed[i]
        BY <1>i, <1>1, <4>1 DEF LabelsPlaced
      <4>3. labels'[l] = labels[l]
        BY <2>1, <2>4, <4>1
      <4> QED  BY <2>2, <4>1, <4>2, <4>3
    <3> QED  BY <3>1, <3>2
  <2>10. Distinct(at)
    <3> SUFFICES ASSUME NEW i \in 1 .. at, NEW j \in 1 .. at,
                        NEW k \in DOMAIN lines[i].labels, NEW l \in DOMAIN lines[j].labels,
                        lines[i].labels[k] = lines[j].labels[l]
                 PROVE  i = j /\ k = l
      BY DEF Distinct
    <3>0. \A m \in 1 .. at : \A h \in DOMAIN lines[m].labels :
            /\ m = at => lines[m].labels[h] \in new
            /\ m # at => m \in 1 .. at - 1 /\ lines[m].labels[h] \in old
      BY <1>1 DEF ToSet
    <3>1. CASE i = at /\ j = at
      BY <1>3, <3>1 DEF Duplicated
    <3>2. CASE i = at /\ j # at
      BY <2>8, <3>0, <3>2
    <3>3. CASE i # at /\ j = at
      BY <2>8, <3>0, <3>3
    <3>4. CASE i # at /\ j # at
      BY <1>i, <1>1, <3>0, <3>4 DEF LabelsPlaced, Distinct
    <3> QED  BY <3>1, <3>2, <3>3, <3>4
  <2>11. LabelsPlaced'
    <3>1. lines' = lines /\ phase' # "parse"
      BY <1>1, <2>1
    <3>2. (labels = [l \in UNION {ToSet(lines[i].labels) : i \in 1 .. Len(placed)} |-> labels[l]])'
      <4>1. UNION {ToSet(lines'[i].labels) : i \in 1 .. Len(placed')} = old \cup new
        BY <2>2, <2>6, <3>1, Zenon
      <4> HIDE DEF old, new
      <4> QED  BY <2>7, <4>1, Zenon
    <3>3. (\A i \in 1 .. Len(placed) : \A l \in ToSet(lines[i].labels) : labels[l] = placed[i])'
      BY <2>2, <2>9, <3>1, Zenon
    <3>4. Distinct(Len(placed))'
      BY <2>2, <2>10, <3>1 DEF Distinct
    <3> QED  BY <3>1, <3>2, <3>3, <3>4 DEF LabelsPlaced
  <2>12. Passed' = {} /\ phase' = "resolve"
    BY <1>1, <2>1 DEF Passed
  <2>13. ProgramPlaced' /\ ProgramCovered' /\ RefusedFor'
    BY <2>12 DEF ProgramPlaced, ProgramCovered, RefusedFor
  <2> QED  BY <1>i, <2>3, <2>11, <2>13 DEF RInv
<1> QED  BY <1>2, <1>3

\* Where the elements of two sequences stand once they are put together.
LEMMA ConcatPlaces ==
  ASSUME NEW S, NEW s \in Seq(S), NEW t \in Seq(S)
  PROVE  /\ \A k \in 1 .. Len(s) : (s \o t)[k] = s[k]
         /\ \A k \in 1 .. Len(t) : (s \o t)[Len(s) + k] = t[k]
<1>1. \A k \in 1 .. Len(t) : (s \o t)[Len(s) + k] = t[k]
  <2> TAKE k \in 1 .. Len(t)
  <2>1. Len(s) \in Nat /\ Len(t) \in Nat
    OBVIOUS
  <2>2. Len(s) + k \in 1 .. Len(s) + Len(t) /\ Len(s) + k > Len(s) /\ Len(s) + k - Len(s) = k
    BY <2>1
  <2> QED  BY <2>1, <2>2
<1> QED  BY <1>1

\* One step of the second pass: the line's instructions go to its address, and
\* those of the lines before it stay where they are.
LEMMA EmitKeepsRInv == RInv /\ EmitLine => RInv'
<1> SUFFICES ASSUME RInv, EmitLine
             PROVE  RInv'
  OBVIOUS
<1> DEFINE code == Emitted(lines[at], labels, placed[at])
<1>i. IInv /\ IInv' /\ AtAddresses /\ LabelsPlaced /\ ProgramPlaced /\ ProgramCovered
  BY EmitKeepsIInv DEF RInv
<1>1. /\ phase = "emit" /\ at \in 1 .. Len(lines) /\ Len(lines) \in Nat /\ lines \in Seq(LineType)
      /\ Len(placed) = Len(lines) /\ placed \in Seq(Nat) /\ program \in Seq(AsmInstruction)
      /\ Len(program) = placed[at] /\ \A l \in DOMAIN labels : labels[l] \in Nat
  BY <1>i DEF IInv, TypeOK, PassProgress, TwoPassesAgree, EmitLine
<1>2. CASE ~Emittable(lines[at], labels)
  <2>1. Refuse
    BY <1>2 DEF EmitLine
  <2> QED  BY <1>i, <1>1, <1>2, <2>1, RefusalKeepsRInv
<1>3. CASE Emittable(lines[at], labels)
  <2>1. /\ program' = program \o code /\ at' = at + 1
        /\ UNCHANGED <<text, lines, phase, address, labels, placed>>
    BY <1>3 DEF EmitLine
  <2>2. lines[at] \in LineType /\ placed[at] \in Nat /\ \A i \in DOMAIN lines : placed[i] \in Nat
    BY <1>1
  <2>3. code \in Seq(AsmInstruction) /\ Len(code) = SizeOf(lines[at])
    BY <1>1, <1>3, <2>2, EmittedLine DEF Sound
  <2>4. Passed = 1 .. at - 1 /\ Passed' = 1 .. at /\ DOMAIN lines = 1 .. Len(lines)
    BY <1>1, <2>1 DEF Passed
  <2> HIDE DEF code
  <2>5. /\ Len(program') = placed[at] + SizeOf(lines[at])
        /\ \A k \in 1 .. Len(program) : program'[k] = program[k]
        /\ \A k \in 1 .. SizeOf(lines[at]) : program'[placed[at] + k] = code[k]
    <3>1. program \in Seq(AsmInstruction) /\ code \in Seq(AsmInstruction)
      BY <1>1, <2>3
    <3>2. Len(program \o code) = Len(program) + Len(code)
      <4>1. \A S : \A s, t \in Seq(S) : Len(s \o t) = Len(s) + Len(t)
        OBVIOUS
      <4> QED  BY <3>1, <4>1, Zenon
    <3>3. /\ \A k \in 1 .. Len(program) : (program \o code)[k] = program[k]
          /\ \A k \in 1 .. Len(code) : (program \o code)[Len(program) + k] = code[k]
      <4>1. \A k \in 1 .. Len(program) : (program \o code)[k] = program[k]
        BY <3>1, ConcatPlaces, Zenon
      <4>2. \A k \in 1 .. Len(code) : (program \o code)[Len(program) + k] = code[k]
        BY <3>1, ConcatPlaces, SMTT(20)
      <4> QED  BY <4>1, <4>2
    <3>4. Len(program) = placed[at] /\ Len(code) = SizeOf(lines[at]) /\ program' = program \o code
      BY <1>1, <2>1, <2>3
    <3> QED  BY <3>2, <3>3, <3>4, Zenon
  <2>6. AtAddresses' /\ LabelsPlaced'
    BY <1>i, <1>1, <2>1, FirstPassKept
  <2>7. ProgramPlaced'
    <3> SUFFICES ASSUME NEW i \in 1 .. at
                 PROVE  /\ Emittable(lines[i], labels)
                        /\ placed[i] + SizeOf(lines[i]) <= Len(program')
                        /\ \A k \in 1 .. SizeOf(lines[i]) :
                             program'[placed[i] + k] = Emitted(lines[i], labels, placed[i])[k]
      BY <2>1, <2>4, Zenon DEF ProgramPlaced
    <3>1. CASE i = at
      BY <1>3, <2>5, <3>1, SizeOfNat DEF code
    <3>2. CASE i # at
      <4>1. i \in Passed /\ i \in DOMAIN lines
        BY <1>1, <2>4, <3>2
      <4>2. /\ Emittable(lines[i], labels)
            /\ placed[i] + SizeOf(lines[i]) <= Len(program)
            /\ \A k \in 1 .. SizeOf(lines[i]) :
                 program[placed[i] + k] = Emitted(lines[i], labels, placed[i])[k]
        BY <1>i, <4>1, Zenon DEF ProgramPlaced
      <4>3. placed[i] \in Nat /\ SizeOf(lines[i]) \in Nat /\ SizeOf(lines[at]) \in Nat
        BY <2>2, <4>1, SizeOfNat
      <4>4. \A k \in 1 .. SizeOf(lines[i]) : placed[i] + k \in 1 .. Len(program)
        <5> DEFINE p == placed[i]
                   n == SizeOf(lines[i])
                   l == Len(program)
        <5>1. p \in Nat /\ n \in Nat /\ l \in Nat /\ p + n <= l
          BY <1>1, <2>2, <4>2, <4>3
        <5> HIDE DEF p, n, l
        <5>2. \A k \in 1 .. n : p + k \in 1 .. l
          BY <5>1
        <5> QED  BY <5>2 DEF p, n, l
      <4>5. placed[i] + SizeOf(lines[i]) <= Len(program')
        BY <1>1, <2>2, <2>5, <4>2, <4>3
      <4> QED  BY <2>5, <4>2, <4>4, <4>5
    <3> QED  BY <3>1, <3>2
  <2>8. ProgramCovered'
    <3> SUFFICES ASSUME NEW n \in 1 .. Len(program')
                 PROVE  \E i \in 1 .. at : placed[i] < n /\ n <= placed[i] + SizeOf(lines[i])
      BY <2>1, <2>4, Zenon DEF ProgramCovered
    <3>1. n \in Nat /\ n >= 1 /\ n <= placed[at] + SizeOf(lines[at]) /\ SizeOf(lines[at]) \in Nat
      BY <2>2, <2>5, SizeOfNat
    <3>2. CASE n <= placed[at]
      <4>1. n \in 1 .. Len(program)
        BY <1>1, <3>1, <3>2
      <4>2. PICK i \in Passed : placed[i] < n /\ n <= placed[i] + SizeOf(lines[i])
        BY <1>i, <1>1, <4>1 DEF ProgramCovered
      <4> QED  BY <1>1, <2>4, <4>2
    <3>3. CASE n > placed[at]
      BY <1>1, <3>1, <3>3
    <3> QED  BY <2>2, <3>1, <3>2, <3>3
  <2>9. RefusedFor'
    BY <1>1, <2>1 DEF RefusedFor
  <2> QED  BY <1>i, <2>6, <2>7, <2>8, <2>9 DEF RInv
<1> QED  BY <1>2, <1>3

\* Every step of the assembler keeps it.
LEMMA ResultNext == RInv /\ [Next]_vars => RInv'
<1> SUFFICES ASSUME RInv, [Next]_vars
             PROVE  RInv'
  OBVIOUS
<1>i. IInv /\ IInv' /\ AtAddresses /\ LabelsPlaced /\ ProgramPlaced /\ ProgramCovered /\ RefusedFor
  BY AssemblerNext DEF RInv
<1>1. CASE Parse
  <2>1. phase = "parse" /\ placed = << >> /\ program = << >> /\ labels = << >>
    BY <1>1, <1>i DEF IInv, PassProgress, LabelsPlaced, Parse
  <2>2. CASE \E i \in DOMAIN text : BadLine(text[i])
    <3>1. Refuse
      BY <1>1, <2>2 DEF Parse
    <3> QED  BY <1>i, <2>2, <3>1, RefusalKeepsRInv
  <2>3. CASE ~\E i \in DOMAIN text : BadLine(text[i])
    <3>1. phase' = "resolve" /\ UNCHANGED <<text, at, address, labels, placed, program>>
      BY <1>1, <2>3 DEF Parse
    <3>2. Len(placed) = 0 /\ Before(lines', 1) = 0 /\ Before(lines, 1) = 0
      BY <2>1, BeforeNext
    <3>3. address = 0
      BY <1>i, <2>1 DEF IInv, PlacedInOrder
    <3>4. AtAddresses'
      BY <2>1, <3>1, <3>2, <3>3 DEF AtAddresses
    <3>5. LabelsPlaced'
      BY <2>1, <3>1, <3>2 DEF LabelsPlaced, Distinct
    <3>6. ProgramPlaced' /\ ProgramCovered' /\ RefusedFor'
      BY <3>1 DEF ProgramPlaced, ProgramCovered, RefusedFor, Passed
    <3> QED  BY <1>i, <3>4, <3>5, <3>6 DEF RInv
  <2> QED  BY <2>2, <2>3
<1>2. CASE Resolved
  <2>1. /\ phase' = "emit" /\ at' = 1 /\ phase = "resolve"
        /\ UNCHANGED <<text, lines, address, labels, placed, program>>
    BY <1>2 DEF Resolved
  <2>2. Passed' = {} /\ Len(program') = 0
    <3>1. program = << >> /\ lines \in Seq(LineType)
      BY <1>i, <2>1 DEF IInv, TypeOK, PassProgress
    <3> QED  BY <2>1, <3>1 DEF Passed
  <2>3. AtAddresses' /\ LabelsPlaced'
    BY <1>i, <2>1, FirstPassKept
  <2>4. ProgramPlaced' /\ ProgramCovered' /\ RefusedFor'
    BY <2>1, <2>2 DEF ProgramPlaced, ProgramCovered, RefusedFor
  <2> QED  BY <1>i, <2>3, <2>4 DEF RInv
<1>3. CASE EmittedAll
  <2>1. /\ phase' = "done" /\ phase = "emit" /\ at > Len(lines)
        /\ UNCHANGED <<text, lines, at, address, labels, placed, program>>
    BY <1>3 DEF EmittedAll
  <2>2. Passed' = Passed
    <3>1. at \in Nat /\ Len(lines) \in Nat /\ DOMAIN lines = 1 .. Len(lines)
      BY <1>i DEF IInv, TypeOK
    <3> QED  BY <2>1, <3>1 DEF Passed
  <2>3. AtAddresses' /\ LabelsPlaced'
    BY <1>i, <2>1, FirstPassKept
  <2>4. ProgramPlaced' /\ ProgramCovered' /\ RefusedFor'
    BY <1>i, <2>1, <2>2 DEF ProgramPlaced, ProgramCovered, RefusedFor
  <2> QED  BY <1>i, <2>3, <2>4 DEF RInv
<1>4. CASE UNCHANGED vars
  <2>1. UNCHANGED <<text, lines, phase, at, address, labels, placed, program>>
    BY <1>4 DEF vars
  <2>2. AtAddresses' /\ LabelsPlaced'
    BY <1>i, <2>1, FirstPassKept
  <2>3. Passed' = Passed
    BY <2>1 DEF Passed
  <2>4. ProgramPlaced' /\ ProgramCovered' /\ RefusedFor'
    BY <1>i, <2>1, <2>3 DEF ProgramPlaced, ProgramCovered, RefusedFor
  <2> QED  BY <1>i, <2>2, <2>4 DEF RInv
<1> QED
  BY <1>1, <1>2, <1>3, <1>4, ResolveKeepsRInv, EmitKeepsRInv DEF Next

(***************************************************************************)
(* The results                                                             *)
(***************************************************************************)

\* What holds of a call that ends well.
LEMMA Finished ==
  ASSUME RInv, phase = "done"
  PROVE  /\ lines \in Seq(LineType) /\ Len(lines) \in Nat /\ DOMAIN lines = 1 .. Len(lines)
         /\ program \in Seq(AsmInstruction) /\ Len(program) = Before(lines, Len(lines) + 1)
         /\ labels = LabelTable(lines)
         /\ \A i \in DOMAIN lines :
              /\ placed[i] \in Nat /\ placed[i] = Before(lines, i)
              /\ Emittable(lines[i], labels)
              /\ \A k \in 1 .. SizeOf(lines[i]) :
                   program[placed[i] + k] = Emitted(lines[i], labels, placed[i])[k]
         /\ \A n \in 1 .. Len(program) : \E i \in DOMAIN lines :
              placed[i] < n /\ n <= placed[i] + SizeOf(lines[i])
<1>1. /\ lines \in Seq(LineType) /\ Len(lines) \in Nat /\ DOMAIN lines = 1 .. Len(lines)
      /\ program \in Seq(AsmInstruction) /\ placed \in Seq(Nat) /\ Len(placed) = Len(lines)
      /\ Len(program) = address
  BY DEF RInv, IInv, TypeOK, PassProgress, TwoPassesAgree
<1>2. address = Before(lines, Len(lines) + 1) /\ \A i \in DOMAIN lines : placed[i] = Before(lines, i)
  BY <1>1 DEF RInv, AtAddresses
<1>3. \A i \in DOMAIN lines : placed[i] \in Nat
  BY <1>1
<1>4. labels = LabelTable(lines)
  BY <1>1, TableComplete
<1>5. Passed = DOMAIN lines
  BY DEF Passed
<1>6. \A i \in DOMAIN lines :
        /\ Emittable(lines[i], labels)
        /\ \A k \in 1 .. SizeOf(lines[i]) :
             program[placed[i] + k] = Emitted(lines[i], labels, placed[i])[k]
  BY <1>5, Zenon DEF RInv, ProgramPlaced
<1>7. \A n \in 1 .. Len(program) : \E i \in DOMAIN lines :
        placed[i] < n /\ n <= placed[i] + SizeOf(lines[i])
  BY <1>5 DEF RInv, ProgramCovered
<1> QED  BY <1>1, <1>2, <1>3, <1>4, <1>6, <1>7, Zenon

\* The program of a call that ends well is the unit's.
LEMMA ProgramComplete ==
  ASSUME RInv, phase = "done"
  PROVE  program = Program(lines)
<1> DEFINE addr  == Addresses(lines)
           at_(k) == CHOOSE i \in DOMAIN lines : addr[i] <= k /\ k < addr[i + 1]
           code(k) == Emitted(lines[at_(k - 1)], LabelTable(lines), addr[at_(k - 1)])
                        [k - addr[at_(k - 1)]]
<1>1. Program(lines) = [k \in 1 .. Last(addr) |-> code(k)]
  BY Zenon DEF Program
<1>2. /\ lines \in Seq(LineType) /\ Len(lines) \in Nat /\ DOMAIN lines = 1 .. Len(lines)
      /\ program \in Seq(AsmInstruction) /\ Len(program) = Before(lines, Len(lines) + 1)
      /\ labels = LabelTable(lines)
  BY Finished
<1>3. Last(addr) = Len(program) /\ \A i \in 1 .. Len(lines) + 1 : addr[i] = Before(lines, i)
  BY <1>2, AddressesBefore
<1>4. \A i \in DOMAIN lines :
        /\ addr[i] = placed[i] /\ placed[i] \in Nat /\ SizeOf(lines[i]) \in Nat
        /\ addr[i + 1] = placed[i] + SizeOf(lines[i])
  <2> TAKE i \in DOMAIN lines
  <2>1. i \in Nat \ {0} /\ i \in 1 .. Len(lines) + 1 /\ i + 1 \in 1 .. Len(lines) + 1
    BY <1>2
  <2>2. placed[i] \in Nat /\ placed[i] = Before(lines, i)
    BY Finished
  <2>3. Before(lines, i + 1) = Before(lines, i) + SizeOf(lines[i])
    BY <2>1, BeforeNext
  <2> QED  BY <1>3, <2>1, <2>2, <2>3, SizeOfNat
<1> HIDE DEF addr
<1>5. ASSUME NEW k \in 1 .. Len(program)
      PROVE  program[k] = code(k)
  <2> DEFINE i == at_(k - 1)
  <2>1. PICK h \in DOMAIN lines : placed[h] < k /\ k <= placed[h] + SizeOf(lines[h])
    BY Finished
  <2>2. addr[h] <= k - 1 /\ k - 1 < addr[h + 1]
    <3>1. addr[h] \in Nat /\ addr[h] < k /\ k <= addr[h + 1] /\ addr[h + 1] \in Nat /\ k \in Nat
      BY <1>2, <1>4, <2>1
    <3> QED  BY <3>1
  <2>3. i \in DOMAIN lines /\ addr[i] <= k - 1 /\ k - 1 < addr[i + 1]
    BY <2>1, <2>2
  <2> HIDE DEF at_
  <2>4. placed[i] \in Nat /\ addr[i] = placed[i] /\ addr[i + 1] = placed[i] + SizeOf(lines[i])
        /\ SizeOf(lines[i]) \in Nat
    BY <1>4, <2>3
  <2> DEFINE n == k - placed[i]
  <2>5. n \in 1 .. SizeOf(lines[i]) /\ placed[i] + n = k
    BY <2>3, <2>4
  <2>6. program[placed[i] + n] = Emitted(lines[i], labels, placed[i])[n]
    BY <2>3, <2>5, Finished, Zenon
  <2> QED  BY <1>2, <2>4, <2>5, <2>6
<1>6. program = [k \in 1 .. Len(program) |-> program[k]]
  BY <1>2
<1> HIDE DEF code
<1> QED  BY <1>1, <1>3, <1>5, <1>6

\* For every source: a call of the assembler that ends well returns the program
\* and the label table of the unit in one piece, and one that fails was given a
\* reason (TextAssembler.assemble).
THEOREM AssemblerResult == Spec => []ResultIsProgram
<1>1. RInv => ResultIsProgram
  BY ProgramComplete, TableComplete, Finished DEF RInv, RefusedFor, ResultIsProgram
<1> QED  BY <1>1, ResultInit, ResultNext, PTL DEF Spec

\* The invariant in one word, for the properties of the finished call.
LEMMA AssemblerRInv == Spec => []RInv
BY ResultInit, ResultNext, PTL DEF Spec

\* What a branch to a label leaves in the program.
LEMMA BranchEmitted ==
  ASSUME NEW line, NEW table, NEW adr,
         line.mnemonic \in BranchOps, line.operands[2] \notin DOMAIN IntOf, Emittable(line, table)
  PROVE  /\ SizeOf(line) = 1
         /\ Emitted(line, table, adr)[1].imm = table[line.operands[2]] - (adr + 1)
<1> DEFINE m == line.mnemonic
           b == line.operands[2]
<1>1. m \in Ops /\ m \notin {NOLINE, "SET", "MOV"} /\ OperandKinds[m] = <<"register", "offset">>
  BY DEF OperandKinds, Ops, AluOps, BranchOps, NOLINE
<1>2. SizeOf(line) = 1
  BY <1>1 DEF SizeOf
<1>3. Second("offset", b, table, adr) = <<IMM, OffsetOf(b, table, adr)>>
  BY DEF Second
<1>4. Emitted(line, table, adr) = << Instr(m, line.operands[1], IMM, OffsetOf(b, table, adr)) >>
  BY <1>1, <1>3 DEF Emitted
<1>5. OffsetOf(b, table, adr) = table[b] - (adr + 1)
  BY DEF OffsetOf
<1> QED  BY <1>2, <1>4, <1>5 DEF Instr

\* For every source: a branch to a label leads, from wherever it was placed, to
\* the first instruction at or after the label's line (emitter._resolve_offset
\* against resolver.resolve).
THEOREM AssemblerBranchesLand == Spec => []BranchesLand
<1>1. RInv => BranchesLand
  <2> SUFFICES ASSUME RInv, phase = "done", NEW i \in DOMAIN lines, NEW j \in DOMAIN lines,
                      lines[i].mnemonic \in BranchOps, lines[i].operands[2] \notin DOMAIN IntOf,
                      lines[i].operands[2] \in ToSet(lines[j].labels)
               PROVE  placed[i] + 1 + program[placed[i] + 1].imm = placed[j]
    BY DEF BranchesLand
  <2> DEFINE b == lines[i].operands[2]
  <2>1. placed[i] \in Nat /\ placed[j] \in Nat /\ Emittable(lines[i], labels)
    BY Finished
  <2>2. SizeOf(lines[i]) = 1
        /\ Emitted(lines[i], labels, placed[i])[1].imm = labels[b] - (placed[i] + 1)
    BY <2>1, BranchEmitted
  <2>3. program[placed[i] + 1] = Emitted(lines[i], labels, placed[i])[1]
    <3>1. 1 \in 1 .. SizeOf(lines[i])
      BY <2>2
    <3> QED  BY <3>1, Finished, Zenon
  <2>4. labels[b] = placed[j]
    <3>1. j \in 1 .. Len(placed)
      BY DEF RInv, IInv, TypeOK, PassProgress
    <3> QED  BY <3>1 DEF RInv, LabelsPlaced
  <2>5. program[placed[i] + 1].imm = placed[j] - (placed[i] + 1)
    BY <2>2, <2>3, <2>4
  <2> QED  BY <2>1, <2>5
<1> QED  BY <1>1, AssemblerRInv, PTL

\* Two instructions, executed one after the other, leave v in a and nothing else.
Leave(two, regs, a, v) ==
  Executed(Executed(regs, two[1]), two[2]) = [regs EXCEPT ![a] = v]

\* The two instructions of SET, executed one after the other, leave the constant.
LEMMA SetReplaces ==
  ASSUME NEW S, NEW a \in S, NEW regs \in [S -> Int], NEW imm \in Int, a # IMM
  PROVE  Leave(Replaced(a, IMM, imm), regs, a, imm)
<1> DEFINE cleared == [regs EXCEPT ![a] = 0]
<1>1. Executed(regs, Instr("SUB", a, a, 0)) = [regs EXCEPT ![a] = regs[a] - regs[a]]
  BY DEF Executed, Instr
<1>2. Executed(cleared, Instr("ADD", a, IMM, imm)) = [cleared EXCEPT ![a] = cleared[a] + imm]
  BY DEF Executed, Instr
<1>3. regs[a] - regs[a] = 0 /\ cleared[a] + imm = imm
  OBVIOUS
<1>4. [cleared EXCEPT ![a] = imm] = [regs EXCEPT ![a] = imm]
  OBVIOUS
<1> QED  BY <1>1, <1>2, <1>3, <1>4 DEF Replaced, Leave

\* Those of MOV leave the value of the other register.
LEMMA MovReplaces ==
  ASSUME NEW S, NEW a \in S, NEW b \in S, NEW regs \in [S -> Int], a # IMM, b # IMM, a # b
  PROVE  Leave(Replaced(a, b, 0), regs, a, regs[b])
<1> DEFINE cleared == [regs EXCEPT ![a] = 0]
<1>1. Executed(regs, Instr("SUB", a, a, 0)) = [regs EXCEPT ![a] = regs[a] - regs[a]]
  BY DEF Executed, Instr
<1>2. Executed(cleared, Instr("ADD", a, b, 0)) = [cleared EXCEPT ![a] = cleared[a] + cleared[b]]
  BY DEF Executed, Instr
<1>3. regs[a] - regs[a] = 0 /\ cleared[a] + cleared[b] = regs[b]
  OBVIOUS
<1>4. [cleared EXCEPT ![a] = regs[b]] = [regs EXCEPT ![a] = regs[b]]
  OBVIOUS
<1> QED  BY <1>1, <1>2, <1>3, <1>4 DEF Replaced, Leave

\* Once a call has ended well, its SETs and MOVs replace the value of their first
\* operand on registers of any names that hold integers (emitter._emit_line).
LEMMA FinishedPseudoOps ==
  ASSUME RInv, NEW names, NEW values \in SUBSET Int
  PROVE  PseudoOpsReplaceOn(names, values)
<1> SUFFICES ASSUME phase = "done", NEW i \in DOMAIN lines,
                    \/ lines[i].mnemonic = "SET"
                    \/ lines[i].mnemonic = "MOV" /\ lines[i].operands[1] # lines[i].operands[2]
             PROVE  Replaces(i, names, values)
  BY DEF PseudoOpsReplaceOn
<1> DEFINE a == lines[i].operands[1]
           b == lines[i].operands[2]
           x == IF lines[i].mnemonic = "SET" THEN IMM ELSE b
           imm == IF lines[i].mnemonic = "SET" THEN ConstantOf(b, labels) ELSE 0
<1>1. Emittable(lines[i], labels) /\ SizeOf(lines[i]) = 2
  BY Finished DEF SizeOf, NOLINE
<1>2. Emitted(lines[i], labels, placed[i]) = Replaced(a, x, imm)
  <2>1. CASE lines[i].mnemonic = "SET"
    BY <2>1 DEF Emitted, NOLINE, Ops, AluOps, BranchOps
  <2>2. CASE lines[i].mnemonic = "MOV"
    BY <2>2 DEF Emitted, NOLINE, Ops, AluOps, BranchOps
  <2> QED  BY <2>1, <2>2
<1>3. program[placed[i] + 1] = Replaced(a, x, imm)[1] /\ program[placed[i] + 2] = Replaced(a, x, imm)[2]
  <2>1. 1 \in 1 .. SizeOf(lines[i]) /\ 2 \in 1 .. SizeOf(lines[i])
    BY <1>1
  <2>2. \A k \in 1 .. SizeOf(lines[i]) :
          program[placed[i] + k] = Emitted(lines[i], labels, placed[i])[k]
    BY Finished, Zenon
  <2> QED  BY <1>2, <2>1, <2>2, Zenon
<1>4. /\ Accepts("register", a, labels)
      /\ lines[i].mnemonic = "SET" => Accepts("constant", b, labels)
      /\ lines[i].mnemonic = "MOV" => Accepts("register", b, labels)
  <2> DEFINE m == lines[i].mnemonic
             k == IF m = "SET" THEN "constant" ELSE "register"
  <2>1. m \in {"SET", "MOV"} /\ m # NOLINE
    BY DEF NOLINE
  <2>2. OperandKinds[m] = <<"register", k>>
    BY <2>1 DEF OperandKinds, Ops, AluOps, BranchOps
  <2>3. \A n \in 1 .. 2 : Accepts(<<"register", k>>[n], lines[i].operands[n], labels)
    BY <1>1, <2>1, <2>2 DEF Emittable
  <2>4. Accepts("register", a, labels) /\ Accepts(k, b, labels)
    BY <2>3
  <2> QED  BY <2>4
<1>5. a # IMM /\ (lines[i].mnemonic = "MOV" => b # IMM)
  BY <1>4, RegisterToken DEF Accepts
<1>6. imm \in Int
  <2>1. \A l \in DOMAIN labels : labels[l] \in Nat
    BY DEF RInv, IInv, TypeOK
  <2>2. IsConstant(b, labels) => ConstantOf(b, labels) \in Int
    BY <2>1, ConstantToken
  <2> QED  BY <1>4, <2>2 DEF Accepts
<1> SUFFICES ASSUME NEW regs \in [names \cup {a, b} -> values]
             PROVE  Executed(Executed(regs, program[placed[i] + 1]), program[placed[i] + 2]) =
                      [regs EXCEPT ![a] = IF lines[i].mnemonic = "SET"
                                          THEN ConstantOf(b, labels) ELSE regs[b]]
  BY Zenon DEF Replaces
<1> HIDE DEF a, b
<1> DEFINE S == names \cup {a, b}
<1>7. regs \in [S -> Int] /\ a \in S /\ b \in S
  OBVIOUS
<1> HIDE DEF S
<1>8. Executed(Executed(regs, program[placed[i] + 1]), program[placed[i] + 2]) =
        Executed(Executed(regs, Replaced(a, x, imm)[1]), Replaced(a, x, imm)[2])
  BY <1>3, Zenon
<1>9. CASE lines[i].mnemonic = "SET"
  <2>1. x = IMM /\ imm = ConstantOf(b, labels) /\ a # IMM
    BY <1>5, <1>9
  <2> HIDE DEF x, imm
  <2>2. Leave(Replaced(a, IMM, imm), regs, a, imm)
    BY <1>6, <1>7, <2>1, SetReplaces, Zenon
  <2>3. (IF lines[i].mnemonic = "SET" THEN ConstantOf(b, labels) ELSE regs[b]) = imm
    BY <1>9, <2>1
  <2> QED  BY <1>8, <2>1, <2>2, <2>3, Zenon DEF Leave
<1>10. CASE lines[i].mnemonic # "SET"
  <2>1. x = b /\ imm = 0 /\ a # IMM /\ b # IMM /\ a # b
    BY <1>5, <1>10 DEF a, b
  <2> HIDE DEF x, imm
  <2>2. Leave(Replaced(a, b, 0), regs, a, regs[b])
    BY <1>7, <2>1, MovReplaces, Zenon
  <2>3. (IF lines[i].mnemonic = "SET" THEN ConstantOf(b, labels) ELSE regs[b]) = regs[b]
    BY <1>10
  <2> QED  BY <1>8, <2>1, <2>2, <2>3, Zenon DEF Leave
<1> QED  BY <1>9, <1>10

\* For every source: SET and MOV, executed by the emulator, replace the value of
\* their first operand and change no other register (specs.py 41-42,
\* emitter._emit_line), whatever integers are in the registers; any string may
\* be the name of one, as in the emulator.  The runs check the same on their
\* register files.
THEOREM AssemblerPseudoOps == Spec => [](PseudoOpsReplaceOn(STRING, Int) /\ PseudoOpsReplace)
<1>1. RInv => PseudoOpsReplaceOn(STRING, Int)
  BY FinishedPseudoOps
<1>2. RInv => PseudoOpsReplace
  BY FinishedPseudoOps, AssemblerAssumption DEF PseudoOpsReplace
<1> QED  BY <1>1, <1>2, AssemblerRInv, PTL

(***************************************************************************)
(* The places of a line                                                    *)
(***************************************************************************)

\* A set of places with every place before one of its own is a beginning.
LEMMA Beginning ==
  ASSUME NEW n \in Nat, NEW S \in SUBSET (1 .. n), \A x \in S : 1 .. x \subseteq S
  PROVE  Cardinality(S) \in Nat /\ S = 1 .. Cardinality(S)
<1>1. IsFiniteSet(1 .. n)
  BY FS_Interval
<1>2. IsFiniteSet(S) /\ Cardinality(S) \in Nat
  BY <1>1, FS_Subset, FS_CardinalityType
<1> DEFINE k == Cardinality(S)
<1>3. IsFiniteSet(1 .. k) /\ Cardinality(1 .. k) = k
  <2>1. k \in Int /\ 1 \in Int /\ (IF 1 > k THEN 0 ELSE k - 1 + 1) = k
    BY <1>2
  <2> HIDE DEF k
  <2> QED  BY <2>1, FS_Interval
<1>4. S \subseteq 1 .. k
  <2> SUFFICES ASSUME NEW x \in S
               PROVE  x \in 1 .. k
    OBVIOUS
  <2>1. x \in Int /\ 1 <= x /\ 1 .. x \in SUBSET S
    OBVIOUS
  <2>2. Cardinality(1 .. x) = x
    <3>1. (IF 1 > x THEN 0 ELSE x - 1 + 1) = x /\ 1 \in Int
      BY <2>1
    <3> QED  BY <2>1, <3>1, FS_Interval
  <2>3. Cardinality(1 .. x) <= k
    BY <1>2, <2>1, FS_Subset
  <2> HIDE DEF k
  <2> QED  BY <1>2, <2>1, <2>2, <2>3
<1>5. S = 1 .. k
  <2>1. S \in SUBSET (1 .. k)
    BY <1>4
  <2> QED  BY <1>3, <2>1, FS_Subset
<1> QED  BY <1>2, <1>5

\* The places of the code and of the labels in front of it (parser._parse_line).
LEMMA CodePlaces ==
  ASSUME NEW raw \in Seq(Lexeme)
  PROVE  /\ {i \in DOMAIN raw : \A j \in 1 .. i : raw[j][1] # "comment"} = 1 .. CodeLength(raw)
         /\ {i \in 1 .. CodeLength(raw) : \A j \in 1 .. i : raw[j][1] = "label"} = 1 .. LabelCount(raw)
<1> DEFINE kept  == {i \in DOMAIN raw : \A j \in 1 .. i : raw[j][1] # "comment"}
           named == {i \in 1 .. CodeLength(raw) : \A j \in 1 .. i : raw[j][1] = "label"}
<1>1. Len(raw) \in Nat /\ CodeLength(raw) \in Nat
  BY LexemeCounts
<1>2. kept \in SUBSET (1 .. Len(raw)) /\ \A x \in kept : 1 .. x \subseteq kept
  BY <1>1
<1>3. named \in SUBSET (1 .. CodeLength(raw)) /\ \A x \in named : 1 .. x \subseteq named
  BY <1>1
<1>4. kept = 1 .. CodeLength(raw)
  BY <1>1, <1>2, Beginning DEF CodeLength
<1>5. named = 1 .. LabelCount(raw)
  BY <1>1, <1>3, Beginning DEF LabelCount
<1> QED  BY <1>4, <1>5

\* How many places of S are before x.
Rank(S, x) == Cardinality({h \in S : h < x})

\* Different places have different ranks.
LEMMA RankOrders ==
  ASSUME NEW n \in Nat, NEW S \in SUBSET (1 .. n), NEW x \in S
  PROVE  /\ Rank(S, x) \in Nat /\ Rank(S, x) < Cardinality(S) /\ Cardinality(S) \in Nat
         /\ Cardinality({h \in S : h <= x}) = Rank(S, x) + 1
         /\ \A y \in S : Rank(S, y) = Rank(S, x) => y = x
<1>0. \A y \in S : y \in Int
  OBVIOUS
<1>1. ASSUME NEW T \in SUBSET S
      PROVE  IsFiniteSet(T) /\ Cardinality(T) \in Nat /\ Cardinality(T) <= Cardinality(S)
  <2>1. IsFiniteSet(1 .. n)
    BY FS_Interval
  <2>2. IsFiniteSet(S)
    BY <2>1, FS_Subset
  <2> QED  BY <2>2, FS_Subset, FS_CardinalityType
<1> DEFINE before(y) == {h \in S : h < y}
           upto(y)   == {h \in S : h <= y}
<1>2. ASSUME NEW y \in S
      PROVE  /\ Cardinality(upto(y)) = Cardinality(before(y)) + 1
             /\ Cardinality(before(y)) \in Nat
  <2>0. \A h \in S : h <= y <=> h < y \/ h = y
    BY <1>0
  <2>1. upto(y) = before(y) \cup {y} /\ y \notin before(y)
    <3>1. ~(y < y)
      BY <1>0
    <3> QED  BY <2>0, <3>1
  <2>2. before(y) \in SUBSET S
    OBVIOUS
  <2> HIDE DEF before, upto
  <2>3. IsFiniteSet(before(y)) /\ Cardinality(before(y)) \in Nat
    BY <1>1, <2>2
  <2> QED  BY <2>1, <2>3, FS_AddElement
<1>3. ASSUME NEW y \in S, NEW z \in S, y < z
      PROVE  Cardinality(before(y)) < Cardinality(before(z))
  <2>0. \A h \in S : h <= y => h < z
    BY <1>0, <1>3
  <2>1. upto(y) \in SUBSET before(z) /\ before(z) \in SUBSET S
    BY <2>0
  <2> HIDE DEF before, upto
  <2>2. Cardinality(upto(y)) <= Cardinality(before(z))
    BY <1>1, <2>1, FS_Subset
  <2> QED  BY <1>2, <2>2
<1>4. Cardinality(before(x)) < Cardinality(S) /\ Cardinality(S) \in Nat
  <2>1. upto(x) \in SUBSET S
    OBVIOUS
  <2> HIDE DEF before, upto
  <2>2. Cardinality(upto(x)) <= Cardinality(S) /\ Cardinality(S) \in Nat
    BY <1>1, <2>1
  <2> QED  BY <1>2, <2>2
<1>5. ASSUME NEW y \in S, Cardinality(before(y)) = Cardinality(before(x))
      PROVE  y = x
  <2>1. x \in Int /\ y \in Int
    BY <1>0
  <2> HIDE DEF before
  <2>2. Cardinality(before(x)) \in Nat /\ Cardinality(before(y)) \in Nat
    BY <1>2
  <2>3. x < y => Cardinality(before(x)) < Cardinality(before(y))
    BY <1>3
  <2>4. y < x => Cardinality(before(y)) < Cardinality(before(x))
    BY <1>3
  <2>5. ~(x < y) /\ ~(y < x)
    BY <1>5, <2>2, <2>3, <2>4
  <2> QED  BY <2>1, <2>5
<1> QED  BY <1>2, <1>4, <1>5 DEF Rank

\* A function's value at the place of rank k, chosen by its rank.
LEMMA ChosenByRank ==
  ASSUME NEW n \in Nat, NEW S \in SUBSET (1 .. n), NEW x \in S
  PROVE  (CHOOSE i \in S : Cardinality({h \in S : h < i}) = (Rank(S, x) + 1) - 1) = x
<1>1. (Rank(S, x) + 1) - 1 = Rank(S, x)
  <2>1. Rank(S, x) \in Nat
    BY RankOrders
  <2> QED  BY <2>1
<1>2. \A y \in S : Rank(S, y) = Rank(S, x) => y = x
  BY RankOrders
<1>3. (CHOOSE i \in S : Rank(S, i) = Rank(S, x)) = x
  BY <1>2
<1> QED  BY <1>1, <1>3 DEF Rank

(***************************************************************************)
(* Every word counts                                                       *)
(***************************************************************************)

\* In a line without an operand of several words every word behind the mnemonic
\* is an operand: one that began none would have an operand's word before it,
\* and so on to the mnemonic.
LEMMA AllAlone ==
  ASSUME NEW raw \in Seq(Lexeme), Beginnings(raw) \subseteq Alone(raw)
  PROVE  OperandWords(raw) = Beginnings(raw)
<1> DEFINE late == OperandWords(raw) \ Beginnings(raw)
<1>1. LabelCount(raw) \in Nat /\ CodeLength(raw) \in Nat
  BY LexemeCounts
<1>2. late \subseteq Nat
  BY <1>1 DEF OperandWords
<1>3. ASSUME NEW i \in late
      PROVE  i - 1 \in late /\ i \in Nat
  <2>1. i \in OperandWords(raw) /\ i - 1 \in OperandWords(raw) /\ i \in Nat
    BY <1>2 DEF Beginnings
  <2>2. i - 1 \notin Alone(raw)
    BY <2>1 DEF Alone
  <2> QED  BY <2>1, <2>2
<1>4. late = {}
  <2> HIDE DEF late
  <2> SUFFICES ASSUME late # {} PROVE FALSE
    OBVIOUS
  <2>1. PICK i \in late : \A k \in late : i <= k
    BY <1>2, LeastNatural
  <2>2. i - 1 \in late /\ i \in Nat
    BY <1>3
  <2> QED  BY <2>1, <2>2
<1> QED  BY <1>4 DEF Beginnings

\* What is made of the operand that begins at i.
Token(raw, i) == IF i \in Alone(raw) THEN raw[i][2] ELSE Unreadable

\* The parts of a parsed line (parser._parse_line): each operand is the token at
\* the beginning of its rank.
LEMMA ParsedParts ==
  ASSUME NEW raw \in Seq(Lexeme)
  PROVE  /\ ParseLine(raw).labels = [i \in 1 .. LabelCount(raw) |-> raw[i][2]]
         /\ ParseLine(raw).mnemonic = IF LabelCount(raw) = CodeLength(raw)
                                      THEN NOLINE ELSE raw[LabelCount(raw) + 1][2]
         /\ Len(ParseLine(raw).operands) = Cardinality(Beginnings(raw))
         /\ \A i \in Beginnings(raw) :
              /\ Rank(Beginnings(raw), i) + 1 \in DOMAIN ParseLine(raw).operands
              /\ ParseLine(raw).operands[Rank(Beginnings(raw), i) + 1] = Token(raw, i)
<1> DEFINE n        == LabelCount(raw)
           begins   == Beginnings(raw)
           begin(j) == CHOOSE i \in begins : Cardinality({h \in begins : h < i}) = j - 1
           token(i) == IF i \in Alone(raw) THEN raw[i][2] ELSE Unreadable
           names    == [i \in 1 .. n |-> raw[i][2]]
           first    == IF n = CodeLength(raw) THEN NOLINE ELSE raw[n + 1][2]
           operands == [j \in 1 .. Cardinality(begins) |-> token(begin(j))]
<1>1. ParseLine(raw) = Line(names, first, operands)
  BY Zenon DEF ParseLine
<1>2. /\ CodeLength(raw) \in Nat /\ Cardinality(begins) \in Nat
      /\ begins \in SUBSET (1 .. CodeLength(raw))
  <2>1. n \in Nat /\ CodeLength(raw) \in Nat
    BY LexemeCounts
  <2>2. Cardinality(begins) \in Nat /\ begins \subseteq n + 2 .. CodeLength(raw)
    BY OperandCount
  <2> HIDE DEF begins, n
  <2> QED  BY <2>1, <2>2
<1>3. Len(operands) = Cardinality(begins) /\ DOMAIN operands = 1 .. Cardinality(begins)
  <2> HIDE DEF begins, token, begin
  <2> QED  BY <1>2
<1>4. ASSUME NEW i \in begins
      PROVE  /\ Rank(begins, i) + 1 \in DOMAIN operands
             /\ operands[Rank(begins, i) + 1] = Token(raw, i)
  <2>1. begin(Rank(begins, i) + 1) = i
    BY <1>2, ChosenByRank, Zenon
  <2>2. Rank(begins, i) \in Nat /\ Rank(begins, i) < Cardinality(begins)
    BY <1>2, RankOrders
  <2> HIDE DEF begins, begin
  <2>3. Rank(begins, i) + 1 \in 1 .. Cardinality(begins)
    BY <1>2, <2>2
  <2>4. token(i) = Token(raw, i)
    BY DEF Token
  <2> HIDE DEF token
  <2> QED  BY <2>1, <2>3, <2>4
<1> HIDE DEF names, first, operands
<1>5. /\ ParseLine(raw).labels = names /\ ParseLine(raw).mnemonic = first
      /\ ParseLine(raw).operands = operands
  BY <1>1 DEF Line
<1> QED  BY <1>3, <1>4, <1>5, Zenon DEF names, first

\* If every token was readable, every operand is a word alone.
LEMMA ReadableAlone ==
  ASSUME NEW raw \in Seq(Lexeme),
         \A k \in DOMAIN ParseLine(raw).operands : ParseLine(raw).operands[k] # Unreadable
  PROVE  Beginnings(raw) \subseteq Alone(raw)
BY ParsedParts, Zenon DEF Token

\* The words of a line that is not bad and has no unreadable operand: the
\* labels, the word behind them, if there is one, and the operands' words.
LEMMA PlacesOfWords ==
  ASSUME NEW raw \in Seq(Lexeme), ~BadLine(raw)
  PROVE  WordPlaces(raw) = (1 .. LabelCount(raw))
           \cup (IF LabelCount(raw) = CodeLength(raw) THEN {} ELSE {LabelCount(raw) + 1})
           \cup OperandWords(raw)
<1> DEFINE n == LabelCount(raw)
           c == CodeLength(raw)
<1>1. n \in Nat /\ c \in Nat /\ n <= c /\ c <= Len(raw) /\ Len(raw) \in Nat
  BY LexemeCounts
<1>2. WordPlaces(raw) = {i \in 1 .. c : raw[i][1] # "comma"}
  <2>1. 1 .. c = {i \in DOMAIN raw : \A j \in 1 .. i : raw[j][1] # "comment"}
    BY CodePlaces, Zenon
  <2> HIDE DEF c
  <2>2. \A i : i \in 1 .. c <=> i \in DOMAIN raw /\ \A j \in 1 .. i : raw[j][1] # "comment"
    BY <2>1, Zenon
  <2> QED  BY <2>2, Zenon DEF WordPlaces
<1>3. \A i \in 1 .. n : raw[i][1] = "label"
  BY CodePlaces, <1>1
<1>4. n # c => raw[n + 1][1] = "word"
  BY <1>1 DEF BadLine
<1> HIDE DEF n, c
<1>5. OperandWords(raw) = {i \in n + 2 .. c : raw[i][1] # "comma"}
  BY DEF OperandWords, n, c
<1>6. ASSUME NEW i
      PROVE  i \in WordPlaces(raw) <=>
               \/ i \in 1 .. n
               \/ n # c /\ i = n + 1
               \/ i \in OperandWords(raw)
  <2>1. i \in 1 .. c <=> i \in 1 .. n \/ (n # c /\ i = n + 1) \/ i \in n + 2 .. c
    BY <1>1
  <2> QED  BY <1>2, <1>3, <1>4, <1>5, <2>1
<1> QED  BY <1>6 DEF n, c

\* A line with n labels and, if m is 1, a mnemonic.
HasParts(line, n, m) ==
  /\ n = Len(line.labels)
  /\ \/ m = 0 /\ line.mnemonic = NOLINE
     \/ m = 1 /\ line.mnemonic # NOLINE

\* The parts of a line one behind the other.
LEMMA PiecesAre ==
  ASSUME NEW line \in LineType, NEW n \in Nat, NEW m \in {0, 1}, HasParts(line, n, m)
  PROVE  /\ Len(Pieces(line)) = n + m + Len(line.operands)
         /\ \A j \in 1 .. n : Pieces(line)[j] = line.labels[j]
         /\ m = 1 => Pieces(line)[n + 1] = line.mnemonic
         /\ \A k \in DOMAIN line.operands : Pieces(line)[n + m + k] = line.operands[k]
<1> DEFINE S   == STRING \cup {NOLINE}
           mid == IF line.mnemonic = NOLINE THEN << >> ELSE <<line.mnemonic>>
           two == line.labels \o mid
<1>1. /\ line.labels \in Seq(S) /\ line.operands \in Seq(S) /\ line.mnemonic \in S
  <2>1. \A q \in Seq(STRING) : q \in Seq(S)
    OBVIOUS
  <2> QED  BY <2>1 DEF LineType
<1>2. mid \in Seq(S) /\ Len(mid) = m /\ (m = 1 => mid[1] = line.mnemonic)
  <2>1. CASE line.mnemonic = NOLINE
    <3>1. m = 0 /\ mid = << >>
      BY <2>1 DEF HasParts
    <3> QED  BY <3>1
  <2>2. CASE line.mnemonic # NOLINE
    <3>1. m = 1 /\ mid = <<line.mnemonic>>
      BY <2>2 DEF HasParts
    <3> HIDE DEF S, mid
    <3> QED  BY <1>1, <3>1
  <2> QED  BY <2>1, <2>2
<1> HIDE DEF mid, S
<1>n. n = Len(line.labels) /\ n + m \in Nat
  BY DEF HasParts
<1>3. /\ two \in Seq(S) /\ Len(two) = n + m
      /\ \A j \in 1 .. n : two[j] = line.labels[j]
      /\ m = 1 => two[n + 1] = mid[1]
  <2>1. /\ two \in Seq(S) /\ Len(two) = n + m
        /\ \A j \in 1 .. n + m : two[j] = IF j <= n THEN line.labels[j] ELSE mid[j - n]
    BY <1>1, <1>2, <1>n, ConcatProperties, Zenon
  <2> HIDE DEF two
  <2>2. \A j \in 1 .. n : j \in 1 .. n + m /\ j <= n
    OBVIOUS
  <2>3. m = 1 => n + 1 \in 1 .. n + m /\ ~(n + 1 <= n) /\ (n + 1) - n = 1
    OBVIOUS
  <2> QED  BY <2>1, <2>2, <2>3
<1>4. Pieces(line) = two \o line.operands
  BY Zenon DEF Pieces, mid
<1> HIDE DEF two
<1>5. /\ Len(Pieces(line)) = (n + m) + Len(line.operands)
      /\ \A j \in 1 .. (n + m) + Len(line.operands) :
           Pieces(line)[j] = IF j <= n + m THEN two[j] ELSE line.operands[j - (n + m)]
  <2>1. line.operands \in Seq(S)
    BY <1>1
  <2>2. /\ Len(two \o line.operands) = Len(two) + Len(line.operands)
        /\ \A j \in 1 .. Len(two) + Len(line.operands) :
             (two \o line.operands)[j] =
               IF j <= Len(two) THEN two[j] ELSE line.operands[j - Len(two)]
    BY <1>3, <2>1, ConcatProperties, Zenon
  <2>3. Len(two) = n + m
    BY <1>3
  <2> QED  BY <1>4, <2>2, <2>3, Zenon
<1>6. /\ Len(line.operands) \in Nat /\ DOMAIN line.operands = 1 .. Len(line.operands)
  BY <1>1
<1>7. ASSUME NEW j \in 1 .. n + m
      PROVE  Pieces(line)[j] = two[j]
  <2>1. j \in 1 .. (n + m) + Len(line.operands) /\ j <= n + m
    BY <1>6
  <2> QED  BY <1>5, <2>1
<1>8. ASSUME NEW k \in DOMAIN line.operands
      PROVE  Pieces(line)[n + m + k] = line.operands[k]
  <2> DEFINE j == n + m + k
  <2>1. k \in 1 .. Len(line.operands)
    BY <1>6
  <2>2. j \in 1 .. (n + m) + Len(line.operands) /\ ~(j <= n + m) /\ j - (n + m) = k
    BY <1>6, <2>1
  <2> HIDE DEF j
  <2>3. Pieces(line)[j] = line.operands[k]
    BY <1>5, <2>2
  <2> QED  BY <2>3 DEF j
<1>9. \A j \in 1 .. n : j \in 1 .. n + m
  OBVIOUS
<1>10. m = 1 => n + 1 \in 1 .. n + m
  OBVIOUS
<1> QED  BY <1>2, <1>3, <1>5, <1>7, <1>8, <1>9, <1>10

\* What the parser makes of a line whose operands are readable has every word of
\* it at its place (parser._parse_line).
LEMMA LineWords ==
  ASSUME NEW raw \in Seq(Lexeme), ~BadLine(raw),
         Beginnings(raw) \subseteq Alone(raw)
  PROVE  /\ Len(Pieces(ParseLine(raw))) = Cardinality(WordPlaces(raw))
         /\ \A j \in WordPlaces(raw) :
              Pieces(ParseLine(raw))[Cardinality({h \in WordPlaces(raw) : h <= j})] = raw[j][2]
<1> DEFINE line == ParseLine(raw)
           n == LabelCount(raw)
           c == CodeLength(raw)
           m == IF n = c THEN 0 ELSE 1
           O == OperandWords(raw)
           P == WordPlaces(raw)
<1>1. n \in Nat /\ c \in Nat /\ n <= c /\ c <= Len(raw) /\ m \in {0, 1} /\ n + m \in Nat
  BY LexemeCounts
<1>2. O \in SUBSET (n + 2 .. c) /\ O \in SUBSET (1 .. c)
  BY <1>1 DEF OperandWords
<1>3. P = (1 .. n + m) \cup O
  <2>1. (1 .. n) \cup (IF n = c THEN {} ELSE {n + 1}) = 1 .. n + m
    BY <1>1
  <2>2. P = ((1 .. n) \cup (IF n = c THEN {} ELSE {n + 1})) \cup O
    BY PlacesOfWords, Zenon
  <2> QED  BY <2>1, <2>2, Zenon
<1>4. \A h \in O : h \in Int /\ h > n + m
  BY <1>1, <1>2
<1>5. O = Beginnings(raw)
  BY AllAlone
<1>6. line \in LineType
  BY ParsedLine
<1>7. n = Len(line.labels) /\ \A j \in 1 .. n : line.labels[j] = raw[j][2]
  <2>1. line.labels = [j \in 1 .. n |-> raw[j][2]]
    BY ParsedParts, Zenon
  <2> HIDE DEF line, n
  <2> QED  BY <1>1, <2>1
<1>8. /\ \/ m = 0 /\ line.mnemonic = NOLINE
         \/ m = 1 /\ line.mnemonic # NOLINE
      /\ m = 1 => line.mnemonic = raw[n + 1][2]
  <2>1. (n = c => line.mnemonic = NOLINE) /\ (n # c => line.mnemonic = raw[n + 1][2])
    BY ParsedParts
  <2>2. n # c => raw[n + 1][2] # NOLINE
    <3>1. n # c => n + 1 \in 1 .. Len(raw)
      BY <1>1
    <3> QED  BY <3>1 DEF Lexeme
  <2>3. CASE n = c
    <3>1. m = 0 /\ m # 1
      BY <2>3
    <3> QED  BY <2>1, <2>3, <3>1, Zenon
  <2>4. CASE n # c
    <3>1. m = 1
      BY <2>4
    <3> QED  BY <2>1, <2>2, <2>4, <3>1, Zenon
  <2> QED  BY <2>3, <2>4
<1>9. /\ Len(line.operands) = Cardinality(O)
      /\ \A j \in O : /\ Rank(O, j) + 1 \in DOMAIN line.operands
                      /\ line.operands[Rank(O, j) + 1] = raw[j][2]
  BY <1>5, ParsedParts, Zenon DEF Token
<1> HIDE DEF line, n, c, m, O, P
<1>10. /\ Len(Pieces(line)) = n + m + Len(line.operands)
       /\ \A j \in 1 .. n : Pieces(line)[j] = line.labels[j]
       /\ m = 1 => Pieces(line)[n + 1] = line.mnemonic
       /\ \A k \in DOMAIN line.operands : Pieces(line)[n + m + k] = line.operands[k]
  <2>1. HasParts(line, n, m)
    BY <1>7, <1>8 DEF HasParts
  <2> QED  BY <1>1, <1>6, <2>1, PiecesAre, Zenon
<1>11. ASSUME NEW k \in Nat, k <= n + m, NEW T \in SUBSET O
       PROVE  /\ IsFiniteSet(T) /\ Cardinality(T) \in Nat
              /\ Cardinality((1 .. k) \cup T) = k + Cardinality(T)
  <2>1. IsFiniteSet(1 .. c) /\ IsFiniteSet(1 .. k) /\ Cardinality(1 .. k) = k
    BY <1>1, FS_Interval
  <2>2. T \in SUBSET (1 .. c)
    BY <1>2
  <2>3. IsFiniteSet(T) /\ Cardinality(T) \in Nat
    BY <2>1, <2>2, FS_Subset, FS_CardinalityType
  <2>4. (1 .. k) \cap T = {}
    BY <1>1, <1>4, <1>11
  <2>5. Cardinality((1 .. k) \cup T) = Cardinality(1 .. k) + Cardinality(T) - Cardinality({})
    BY <2>1, <2>3, <2>4, FS_Union
  <2> QED  BY <2>1, <2>3, <2>5, FS_EmptySet
<1>a. /\ n + m \in Nat /\ n + m <= n + m
      /\ \A T \in SUBSET O : Cardinality((1 .. n + m) \cup T) = n + m + Cardinality(T)
  <2>1. n + m \in Nat /\ n + m <= n + m
    BY <1>1
  <2> QED  BY <1>11, <2>1, Zenon
<1>12. Len(Pieces(line)) = Cardinality(P)
  BY <1>3, <1>9, <1>10, <1>a
<1>13. ASSUME NEW j \in 1 .. n + m
       PROVE  Pieces(line)[Cardinality({h \in P : h <= j})] = raw[j][2]
  <2>1. {h \in P : h <= j} = (1 .. j) \cup {}
    BY <1>1, <1>3, <1>4
  <2>2. j \in Nat /\ j <= n + m /\ {} \in SUBSET O
    BY <1>1
  <2>3. Cardinality({h \in P : h <= j}) = j
    BY <1>11, <2>1, <2>2, FS_EmptySet
  <2>4. CASE j <= n
    <3>1. j \in 1 .. n
      BY <2>2, <2>4
    <3> QED  BY <1>7, <1>10, <2>3, <3>1
  <2>5. CASE ~(j <= n)
    <3>1. m = 1 /\ j = n + 1
      BY <1>1, <2>2, <2>5
    <3> QED  BY <1>8, <1>10, <2>3, <3>1
  <2> QED  BY <2>4, <2>5
<1>14. ASSUME NEW j \in O
       PROVE  Pieces(line)[Cardinality({h \in P : h <= j})] = raw[j][2]
  <2> DEFINE T == {h \in O : h <= j}
             k == Rank(O, j) + 1
  <2>1. {h \in P : h <= j} = (1 .. n + m) \cup T
    BY <1>1, <1>3, <1>4
  <2>2. Cardinality(T) = k
    BY <1>1, <1>2, RankOrders
  <2>3. T \in SUBSET O
    OBVIOUS
  <2> HIDE DEF T
  <2>4. Cardinality({h \in P : h <= j}) = n + m + k
    BY <1>a, <2>1, <2>2, <2>3, Zenon
  <2>5. Pieces(line)[n + m + k] = line.operands[k]
    BY <1>9, <1>10
  <2> QED  BY <1>9, <2>4, <2>5
<1>15. \A j \in P : Pieces(line)[Cardinality({h \in P : h <= j})] = raw[j][2]
  BY <1>3, <1>13, <1>14, Zenon
<1> QED  BY <1>12, <1>15, Zenon DEF line, P

\* Every kind of operand is one of four (specs.py).
LEMMA KindsAre ==
  ASSUME NEW m \in DOMAIN OperandKinds, NEW k \in DOMAIN OperandKinds[m]
  PROVE  OperandKinds[m][k] \in {"register", "register_or_immediate", "offset", "constant"}
<1>1. m \in Ops \cup {"SET", "MOV"}
  BY DEF OperandKinds
<1>2. \/ OperandKinds[m] = << >> \/ OperandKinds[m] = <<"register">>
      \/ \E x \in {"register", "register_or_immediate", "offset", "constant"} :
           OperandKinds[m] = <<"register", x>>
  BY <1>1 DEF OperandKinds
<1> QED  BY <1>2

\* A token that is no label and neither integer nor identifier is no operand.
LEMMA AcceptedReadable ==
  ASSUME NEW kind \in {"register", "register_or_immediate", "offset", "constant"},
         NEW t, NEW table, Accepts(kind, t, table), Unreadable \notin DOMAIN table
  PROVE  t # Unreadable
BY AssemblyAssumption, ParserAssumption DEF Accepts, IsConstant, IsRegister

\* After the parser, the lines are the parsed unit and no line of it was bad
\* (TextAssembler.assemble).
UnitParsed ==
  phase \in {"resolve", "emit", "done"} =>
    lines = ParsedUnit(text) /\ \A i \in DOMAIN text : ~BadLine(text[i])

\* It holds throughout the call.
LEMMA AssemblerUnitParsed == Spec => []UnitParsed
<1>1. Init => UnitParsed
  BY DEF Init, UnitParsed
<1>2. UnitParsed /\ [Next]_vars => UnitParsed'
  <2> SUFFICES ASSUME UnitParsed, [Next]_vars
               PROVE  UnitParsed'
    OBVIOUS
  <2>1. CASE Parse
    BY <2>1 DEF Parse, Refuse, UnitParsed
  <2>2. CASE ResolveLine
    BY <2>2 DEF ResolveLine, Refuse, UnitParsed
  <2>3. CASE Resolved
    BY <2>3 DEF Resolved, UnitParsed
  <2>4. CASE EmitLine
    BY <2>4 DEF EmitLine, Refuse, UnitParsed
  <2>5. CASE EmittedAll
    BY <2>5 DEF EmittedAll, UnitParsed
  <2>6. CASE UNCHANGED vars
    BY <2>6 DEF vars, UnitParsed
  <2> QED  BY <2>1, <2>2, <2>3, <2>4, <2>5, <2>6 DEF Next
<1> QED  BY <1>1, <1>2, PTL DEF Spec

\* No label is unreadable (parser._LABEL_PREFIX).
LEMMA LabelsReadable ==
  ASSUME NEW raw \in Seq(Lexeme)
  PROVE  Unreadable \notin ToSet(ParseLine(raw).labels)
<1>1. LabelCount(raw) \in Nat /\ LabelCount(raw) <= Len(raw) /\ Len(raw) \in Nat
  BY LexemeCounts
<1>2. ParseLine(raw).labels = [i \in 1 .. LabelCount(raw) |-> raw[i][2]]
  BY ParsedParts
<1>3. \A i \in 1 .. LabelCount(raw) : raw[i][2] # Unreadable
  BY <1>1 DEF Lexeme
<1> QED  BY <1>2, <1>3 DEF ToSet

\* For every source: in a unit that assembles every word before a line's comment
\* has become a label, the mnemonic or an operand of the line, in this order
\* (LineParser.parse and InstructionEmitter.emit together).
THEOREM AssemblerEveryWord == Spec => []EveryWordCounts
<1>1. RInv /\ UnitParsed => EveryWordCounts
  <2> SUFFICES ASSUME RInv, UnitParsed, phase = "done", NEW i \in DOMAIN text
               PROVE  /\ Len(Pieces(lines[i])) = Cardinality(WordPlaces(text[i]))
                      /\ \A j \in WordPlaces(text[i]) :
                           Pieces(lines[i])[Cardinality({h \in WordPlaces(text[i]) : h <= j})]
                             = text[i][j][2]
    BY Zenon DEF EveryWordCounts
  <2>1. text \in Seq(Seq(Lexeme))
    BY DEF RInv, IInv, TypeOK
  <2>2. lines = [k \in DOMAIN text |-> ParseLine(text[k])] /\ ~BadLine(text[i])
    BY DEF UnitParsed, ParsedUnit
  <2>3. \A k \in DOMAIN text : text[k] \in Seq(Lexeme) /\ lines[k] = ParseLine(text[k])
    BY <2>1, <2>2
  <2>4. DOMAIN lines = DOMAIN text
    BY <2>2
  <2>5. Unreadable \notin DOMAIN labels
    <3>1. DOMAIN labels = UNION {ToSet(lines[k].labels) : k \in DOMAIN lines}
      BY Finished DEF LabelTable
    <3>2. \A k \in DOMAIN lines : Unreadable \notin ToSet(lines[k].labels)
      BY <2>3, <2>4, LabelsReadable
    <3> QED  BY <3>1, <3>2
  <2> DEFINE line == lines[i]
  <2>6. Emittable(line, labels) /\ line = ParseLine(text[i]) /\ text[i] \in Seq(Lexeme)
    BY <2>3, <2>4, Finished
  <2>7. CASE line.mnemonic = NOLINE
    <3>1. LabelCount(text[i]) = CodeLength(text[i])
      <4> SUFFICES ASSUME LabelCount(text[i]) # CodeLength(text[i]) PROVE FALSE
        OBVIOUS
      <4>1. text[i][LabelCount(text[i]) + 1][2] = NOLINE
        BY <2>6, <2>7, ParsedParts
      <4>2. LabelCount(text[i]) + 1 \in 1 .. Len(text[i])
        BY <2>6, LexemeCounts
      <4> QED  BY <2>6, <4>1, <4>2 DEF Lexeme
    <3>2. Beginnings(text[i]) = {}
      <4>1. Beginnings(text[i]) \subseteq LabelCount(text[i]) + 2 .. CodeLength(text[i])
        BY <2>6, OperandCount
      <4>2. LabelCount(text[i]) \in Nat
        BY <2>6, LexemeCounts
      <4> QED  BY <3>1, <4>1, <4>2
    <3> QED  BY <2>2, <2>6, <3>2, LineWords, Zenon
  <2>8. CASE line.mnemonic # NOLINE
    <3> DEFINE kinds == OperandKinds[line.mnemonic]
    <3>1. /\ line.mnemonic \in DOMAIN OperandKinds
          /\ Len(line.operands) = Len(kinds)
          /\ \A k \in DOMAIN kinds : Accepts(kinds[k], line.operands[k], labels)
      BY <2>6, <2>8 DEF Emittable
    <3>2. DOMAIN line.operands = DOMAIN kinds
      <4>1. line.operands \in Seq(STRING)
        BY <2>6, ParsedLine DEF LineType
      <4>2. kinds = << >> \/ kinds = <<"register">> \/ \E x : kinds = <<"register", x>>
        BY <3>1 DEF OperandKinds
      <4>3. DOMAIN kinds = 1 .. Len(kinds)
        BY <4>2
      <4> QED  BY <3>1, <4>1, <4>3
    <3>3. \A k \in DOMAIN line.operands : line.operands[k] # Unreadable
      <4> SUFFICES ASSUME NEW k \in DOMAIN line.operands
                   PROVE  line.operands[k] # Unreadable
        OBVIOUS
      <4>1. kinds[k] \in {"register", "register_or_immediate", "offset", "constant"}
        BY <3>1, <3>2, KindsAre
      <4>2. Accepts(kinds[k], line.operands[k], labels)
        BY <3>1, <3>2
      <4> HIDE DEF line, kinds
      <4> QED  BY <2>5, <4>1, <4>2, AcceptedReadable
    <3>4. Beginnings(text[i]) \subseteq Alone(text[i])
      BY <2>6, <3>3, ReadableAlone
    <3> QED  BY <2>2, <2>6, <3>4, LineWords, Zenon
  <2> QED  BY <2>7, <2>8
<1> QED  BY <1>1, AssemblerRInv, AssemblerUnitParsed, PTL

=============================================================================
