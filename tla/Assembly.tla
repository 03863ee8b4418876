------------------------------ MODULE Assembly ------------------------------
(***************************************************************************)
(* What the assembler does with one parsed line, as operators: the size    *)
(* the resolver counts for it (resolver.py), the operands the emitter      *)
(* accepts (specs.py) and the instructions it emits (emitter.py).          *)
(*                                                                         *)
(* A line is LineDto: the labels defined on it, the mnemonic, or NOLINE on *)
(* a line without an instruction, and the operand tokens.  Tokens are the  *)
(* source's own words; int(token, 0) is the partial function IntOf.        *)
(***************************************************************************)
EXTENDS Isa, SequencesExt

CONSTANTS
  IntOf,      \* the tokens that are integers, and their values
  BadTokens   \* the tokens that are neither integers nor identifiers

ASSUME AssemblyAssumption ==
  /\ \A t \in DOMAIN IntOf : IntOf[t] \in Int
  /\ BadTokens \cap DOMAIN IntOf = {}
  /\ {NOREG, IMM} \subseteq BadTokens

NOLINE == "(none)"

Line(labels, mnemonic, operands) ==
  [labels |-> labels, mnemonic |-> mnemonic, operands |-> operands]

\* mutant: MOV is counted as one instruction
SizeOfSetOnly(line) ==
  CASE line.mnemonic = NOLINE -> 0
    [] line.mnemonic = "SET"  -> 2
    [] OTHER -> 1

\* resolver._size
SizeOf(line) ==
  CASE line.mnemonic = NOLINE         -> 0
    [] line.mnemonic \in {"SET", "MOV"} -> 2
    [] OTHER                          -> 1

\* mutant: the source of LOAD and STORE may be an immediate, as in ADD
OperandKindsLoose ==
  [m \in Ops \cup {"SET", "MOV"} |->
     CASE m = "MOV"                       -> <<"register", "register">>
       [] m \in AluOps \cup {"LOAD", "STORE"} -> <<"register", "register_or_immediate">>
       [] m \in BranchOps                -> <<"register", "offset">>
       [] m = "SET"                      -> <<"register", "constant">>
       [] m = "HALT"                     -> << >>
       [] OTHER                          -> <<"register">>]

\* OPERAND_SPECS, and the two operands of SET and MOV
OperandKinds ==
  [m \in Ops \cup {"SET", "MOV"} |->
     CASE m \in {"LOAD", "STORE", "MOV"} -> <<"register", "register">>
       [] m \in AluOps                   -> <<"register", "register_or_immediate">>
       [] m \in BranchOps                -> <<"register", "offset">>
       [] m = "SET"                      -> <<"register", "constant">>
       [] m = "HALT"                     -> << >>
       [] OTHER                          -> <<"register">>]

IsRegister(t)      == t \notin DOMAIN IntOf /\ t \notin BadTokens
IsConstant(t, labels) == t \in DOMAIN IntOf \/ t \in DOMAIN labels

\* an integer before a label, a label before a register
ConstantOf(t, labels) == IF t \in DOMAIN IntOf THEN IntOf[t] ELSE labels[t]

Accepts(kind, t, labels) ==
  CASE kind = "register"              -> IsRegister(t)
    [] kind = "register_or_immediate" -> IsConstant(t, labels) \/ IsRegister(t)
    [] kind \in {"offset", "constant"} -> IsConstant(t, labels)

\* _emit_line would not raise
Emittable(line, labels) ==
  \/ line.mnemonic = NOLINE
  \/ /\ line.mnemonic \in DOMAIN OperandKinds
     /\ LET kinds == OperandKinds[line.mnemonic] IN
        /\ Len(line.operands) = Len(kinds)
        /\ \A i \in DOMAIN kinds : Accepts(kinds[i], line.operands[i], labels)

Instr(op, a, b, imm) == [op |-> op, a |-> a, b |-> b, imm |-> imm]

\* mutant: the offset is taken from the branch, not from the instruction after it
OffsetFromSelf(t, labels, address) ==
  IF t \in DOMAIN IntOf THEN IntOf[t] ELSE labels[t] - address

\* _resolve_offset
OffsetOf(t, labels, address) ==
  IF t \in DOMAIN IntOf THEN IntOf[t] ELSE labels[t] - (address + 1)

\* what the second operand puts in the instruction's b and imm, by its kind
Second(kind, t, labels, address) ==
  CASE kind = "offset"                                         -> <<IMM, OffsetOf(t, labels, address)>>
    [] kind = "register_or_immediate" /\ IsConstant(t, labels) -> <<IMM, ConstantOf(t, labels)>>
    [] OTHER                                                   -> <<t, 0>>

\* mutant: the clearing comes second
ReplacedBackwards(a, b, imm) == << Instr("ADD", a, b, imm), Instr("SUB", a, a, 0) >>

\* what SET and MOV stand for: a is cleared and then added to
Replaced(a, b, imm) == << Instr("SUB", a, a, 0), Instr("ADD", a, b, imm) >>

\* _emit_line for an emittable line at the address the resolver gave it
Emitted(line, labels, address) ==
  LET m     == line.mnemonic
      kinds == OperandKinds[m]
      a     == line.operands[1]
      b     == line.operands[2]
      snd   == Second(kinds[2], b, labels, address)
  IN CASE m = NOLINE -> << >>
       [] m = "SET"  -> Replaced(a, IMM, ConstantOf(b, labels))
       [] m = "MOV"  -> Replaced(a, b, 0)
       [] m \in Ops /\ Len(kinds) = 0 -> << Instr(m, NOREG, NOREG, 0) >>
       [] m \in Ops /\ Len(kinds) = 1 -> << Instr(m, a, NOREG, 0) >>
       [] m \in Ops /\ Len(kinds) = 2 -> << Instr(m, a, snd[1], snd[2]) >>

-----------------------------------------------------------------------------
(* The result of assembling a whole unit without errors. *)

\* the program index of each line's first instruction, and of the end: what
\* the lines before it take, one or two instructions each
Addresses(lines) ==
  LET before(i) == Cardinality({j \in 1 .. i - 1 : SizeOf(lines[j]) >= 1})
                 + Cardinality({j \in 1 .. i - 1 : SizeOf(lines[j]) = 2})
  IN  Append([i \in DOMAIN lines |-> before(i)], before(Len(lines) + 1))

LabelTable(lines) ==
  LET addr    == Addresses(lines)
      defined == UNION {ToSet(lines[i].labels) : i \in DOMAIN lines}
  IN  [l \in defined |-> addr[CHOOSE i \in DOMAIN lines : l \in ToSet(lines[i].labels)]]

\* Each line's instructions stand where the resolver placed the line.
Program(lines) ==
  LET addr   == Addresses(lines)
      labels == LabelTable(lines)
      at(k)  == CHOOSE i \in DOMAIN lines : addr[i] <= k /\ k < addr[i + 1]
  IN  [k \in 1 .. Last(addr) |->
         LET i == at(k - 1) IN Emitted(lines[i], labels, addr[i])[k - addr[i]]]

=============================================================================
