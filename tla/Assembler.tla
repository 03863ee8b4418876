----------------------------- MODULE Assembler ------------------------------
(***************************************************************************)
(* TextAssembler.assemble: the parser, the resolver, which gives every     *)
(* line its program index and every label the index of its line, and the   *)
(* emitter, which goes over the lines again and resolves the labels.  One  *)
(* action per line and pass; an AssemblerError ends the call.              *)
(***************************************************************************)
EXTENDS Parser

CONSTANTS
  Sources,         \* the units that are assembled, as sequences of lines of text
  RegisterNames,   \* bound: the registers a pseudo-instruction is tried on, besides its own,
  RegisterValues   \* bound: and what they hold

LineType == [labels : Seq(STRING), mnemonic : STRING \cup {NOLINE}, operands : Seq(STRING)]

AsmInstruction ==
  [op : Ops, a : STRING \cup {NOREG}, b : STRING \cup {NOREG, IMM}, imm : Int]

ASSUME AssemblerAssumption ==
  /\ Sources \subseteq Seq(Seq(Lexeme))
  /\ RegisterNames \subseteq STRING
  /\ RegisterValues \subseteq Int

VARIABLES
  text,      \* the unit
  lines,     \* the unit once it is parsed
  phase,     \* "parse", "resolve", "emit", "done", or "error"
  at,        \* the line the pass is on
  address,   \* the resolver's running address
  labels,    \* the label table
  placed,    \* the addresses of the lines placed so far
  program    \* the instructions emitted so far

vars == <<text, lines, phase, at, address, labels, placed, program>>

Init ==
  /\ text \in Sources
  /\ lines = << >>
  /\ phase = "parse"
  /\ at = 1
  /\ address = 0
  /\ labels = << >> /\ placed = << >> /\ program = << >>

\* An AssemblerError: nothing of the call is left for the caller.
Refuse == phase' = "error" /\ UNCHANGED <<text, lines, at, address, labels, placed, program>>

\* LineParser.parse
Parse ==
  /\ phase = "parse"
  /\ IF \E i \in DOMAIN text : BadLine(text[i])
     THEN Refuse
     ELSE /\ lines' = ParsedUnit(text) /\ phase' = "resolve"
          /\ UNCHANGED <<text, at, address, labels, placed, program>>

Duplicated(names) ==
  \/ \E k \in DOMAIN names : names[k] \in DOMAIN labels
  \/ \E j, k \in DOMAIN names : j # k /\ names[j] = names[k]

\* mutant: the line is kept without the address (LineDto's default, -1)
ResolveLineUnplaced ==
  /\ phase = "resolve" /\ at <= Len(lines)
  /\ LET line == lines[at] IN
     IF Duplicated(line.labels)
     THEN Refuse
     ELSE /\ labels'  = [l \in DOMAIN labels \cup ToSet(line.labels) |->
                           IF l \in DOMAIN labels THEN labels[l] ELSE address]
          /\ placed'  = Append(placed, -1)
          /\ address' = address + SizeOf(line)
          /\ at' = at + 1
          /\ UNCHANGED <<text, lines, phase, program>>

\* LabelAddressResolver.resolve, one line
ResolveLine ==
  /\ phase = "resolve" /\ at <= Len(lines)
  /\ LET line == lines[at] IN
     IF Duplicated(line.labels)
     THEN Refuse
     ELSE /\ labels'  = [l \in DOMAIN labels \cup ToSet(line.labels) |->
                           IF l \in DOMAIN labels THEN labels[l] ELSE address]
          /\ placed'  = Append(placed, address)
          /\ address' = address + SizeOf(line)
          /\ at' = at + 1
          /\ UNCHANGED <<text, lines, phase, program>>

Resolved ==
  /\ phase = "resolve" /\ at > Len(lines)
  /\ phase' = "emit" /\ at' = 1
  /\ UNCHANGED <<text, lines, address, labels, placed, program>>

\* mutant: a label is looked up with the address of the following line
EmitLineAhead ==
  /\ phase = "emit" /\ at <= Len(lines)
  /\ IF ~Emittable(lines[at], labels)
     THEN Refuse
     ELSE /\ program' = program \o Emitted(lines[at], labels, placed[at] + 1)
          /\ at' = at + 1
          /\ UNCHANGED <<text, lines, phase, address, labels, placed>>

\* InstructionEmitter.emit, one line
EmitLine ==
  /\ phase = "emit" /\ at <= Len(lines)
  /\ IF ~Emittable(lines[at], labels)
     THEN Refuse
     ELSE /\ program' = program \o Emitted(lines[at], labels, placed[at])
          /\ at' = at + 1
          /\ UNCHANGED <<text, lines, phase, address, labels, placed>>

EmittedAll ==
  /\ phase = "emit" /\ at > Len(lines)
  /\ phase' = "done"
  /\ UNCHANGED <<text, lines, at, address, labels, placed, program>>

Next == Parse \/ ResolveLine \/ Resolved \/ EmitLine \/ EmittedAll

Spec == Init /\ [][Next]_vars

-----------------------------------------------------------------------------
(* Properties *)

\* The state of the two passes has its type.
TypeOK ==
  /\ text \in Seq(Seq(Lexeme))
  /\ lines \in Seq(LineType)
  /\ phase \in {"parse", "resolve", "emit", "done", "error"}
  /\ at \in 1 .. Len(lines) + 1
  /\ address \in Nat
  /\ placed \in Seq(Nat)
  /\ program \in Seq(AsmInstruction)
  /\ \A l \in DOMAIN labels : labels[l] \in Nat

\* The resolver counts what the emitter emits: when the second pass comes to a
\* line, it has emitted exactly as many instructions as the first pass gave
\* that line for its index, and in the end as many as the first pass counted
\* (resolver._size against emitter._emit_line).
TwoPassesAgree ==
  /\ phase = "emit" => Len(program) = IF at <= Len(lines) THEN placed[at] ELSE address
  /\ phase = "done" => Len(program) = address

\* Every instruction the emitter produces has the operands the emulator's
\* handler for it requires (specs.py "mirrors" the emulator's operand table).
EmitsNoMalformed == \A k \in DOMAIN program : ~Malformed(program[k])

\* A branch to a label, from wherever the emitter placed it, leads to the
\* first instruction emitted at or after the line that defines the label.
BranchesLand ==
  phase = "done" =>
    \A i, j \in DOMAIN lines :
      lines[i].mnemonic \in BranchOps /\ lines[i].operands[2] \notin DOMAIN IntOf
      /\ lines[i].operands[2] \in ToSet(lines[j].labels)
      => placed[i] + 1 + program[placed[i] + 1].imm = placed[j]

\* A call that ends well returns the program and the table that Assembly
\* states in one piece, and one that fails was given a unit with a duplicate
\* label, an unreadable mnemonic or a line that no table makes emittable.
ResultIsProgram ==
  /\ phase = "done" => program = Program(lines) /\ labels = LabelTable(lines)
  /\ phase = "error" =>
       \/ \E i \in DOMAIN text : BadLine(text[i])
       \/ \E i, j \in DOMAIN lines :
            \E k \in DOMAIN lines[i].labels, l \in DOMAIN lines[j].labels :
              <<i, k>> # <<j, l>> /\ lines[i].labels[k] = lines[j].labels[l]
       \/ \E i \in DOMAIN lines : ~Emittable(lines[i], LabelTable(lines))

\* The places of a line's words: everything but the commas, up to the comment.
WordPlaces(raw) ==
  {j \in DOMAIN raw : raw[j][1] # "comma" /\ \A h \in 1 .. j : raw[h][1] # "comment"}

\* What became of a line: its labels, its mnemonic and its operands.
Pieces(line) ==
  line.labels \o (IF line.mnemonic = NOLINE THEN << >> ELSE <<line.mnemonic>>) \o line.operands

\* Nothing the programmer wrote is passed over: in a unit that assembles, every
\* word of every line before its comment has become a label, the mnemonic or an
\* operand of the line, in this order; a missing comma or a label behind the
\* mnemonic is refused by one stage or the other (parser.py, emitter.py).
EveryWordCounts ==
  phase = "done" =>
    \A i \in DOMAIN text :
      LET places == WordPlaces(text[i]) IN
      /\ Len(Pieces(lines[i])) = Cardinality(places)
      /\ \A j \in places :
           Pieces(lines[i])[Cardinality({h \in places : h <= j})] = text[i][j][2]

\* the registers behind an ADD or SUB, as the emulator's handlers leave them
Executed(regs, i) ==
  LET x == IF i.b = IMM THEN i.imm ELSE regs[i.b]
  IN  [regs EXCEPT ![i.a] = IF i.op = "ADD" THEN @ + x ELSE @ - x]

\* Line i's two instructions, whatever the registers hold, leave in the first
\* operand the value of the second and change nothing else.
Replaces(i, names, values) ==
  LET a == lines[i].operands[1]
      b == lines[i].operands[2]
  IN  \A regs \in [names \cup {a, b} -> values] :
        Executed(Executed(regs, program[placed[i] + 1]), program[placed[i] + 2]) =
          [regs EXCEPT ![a] = IF lines[i].mnemonic = "SET" THEN ConstantOf(b, labels) ELSE regs[b]]

\* The same of every SET and MOV of the unit; a MOV of a register to itself,
\* which clears it, is left out.
PseudoOpsReplaceOn(names, values) ==
  phase = "done" =>
    \A i \in DOMAIN lines :
      \/ lines[i].mnemonic = "SET"
      \/ lines[i].mnemonic = "MOV" /\ lines[i].operands[1] # lines[i].operands[2]
      => Replaces(i, names, values)

\* Run by the emulator, SET materialises its constant or address and MOV copies
\* one register to another (specs.py 41-42), whatever was in the registers, and
\* the others keep what they hold.
PseudoOpsReplace == PseudoOpsReplaceOn(RegisterNames, RegisterValues)

=============================================================================
