---------------------------- MODULE MCAssembler -----------------------------
(***************************************************************************)
(* TLC instance of Assembler: every unit of up to three lines over a pool  *)
(* with each operand kind, right and wrong, and lines that are badly put   *)
(* together; and the kernel's own source.                                  *)
(***************************************************************************)
EXTENDS Assembler, KernelRoutines

MCUnreadable   == "?"
MCBadTokens    == {"3x", MCUnreadable, NOREG, IMM}
MCBadMnemonics == {"A.B"}

\* a line as it is written
Labels(names) == [i \in DOMAIN names |-> <<"label", names[i]>>]
Words(ws)     == [i \in DOMAIN ws |-> <<"word", ws[i]>>]
Comma         == << <<"comma", ",">> >>
Comment       == << <<"comment", ";">> >>
Text(line) ==
  Labels(line.labels) \o
  (IF line.mnemonic = NOLINE THEN << >> ELSE Words(<<line.mnemonic>>)) \o
  FlattenSeq([i \in DOMAIN line.operands |->
    (IF i = 1 THEN << >> ELSE Comma) \o Words(<<line.operands[i]>>)])

\* "a" is a label and a register name, "X" only a register
Lines == {
  Line(<<"a">>, NOLINE, << >>),
  Line(<<"b", "a">>, "HALT", << >>),
  Line(<<"b">>, "SET", <<"X", "a">>),
  Line(<< >>, "MOV", <<"X", "a">>),
  Line(<< >>, "JZ", <<"X", "a">>),
  Line(<< >>, "JS", <<"X", "-1">>),
  Line(<< >>, "ADD", <<"X", "a">>),
  Line(<< >>, "LOAD", <<"X", "1">>),
  Line(<< >>, "LOAD", <<"X", "a">>),
  Line(<< >>, "POP_D", <<"3x">>),
  Line(<< >>, "POP_D", <<"X">>),
  Line(<< >>, "PUSH_D", << >>),
  Line(<< >>, "SET", <<"X">>),
  Line(<< >>, "CALL", <<"X">>),
  Line(<< >>, "A.B", << >>),
  Line(<<"a", "a">>, NOLINE, << >>) }

\* a comma too few, too many, and in front; a comment behind an instruction
\* and behind a label; labels behind the mnemonic
Oddities == {
  Words(<<"POP_D", "X", "a">>),
  Words(<<"SET", "X">>) \o Comma \o Comma \o Words(<<"1">>) \o Comma,
  Comma \o Words(<<"HALT">>),
  Words(<<"HALT">>) \o Comment \o Words(<<"X">>),
  Labels(<<"a">>) \o Comment \o Labels(<<"b">>),
  Words(<<"HALT">>) \o Labels(<<"b">>),
  Words(<<"POP_D">>) \o Labels(<<"b">>) }

Pool == {Text(line) : line \in Lines} \cup Oddities

Units == UNION {[1 .. n -> Pool] : n \in 0 .. 3}

KernelText == LET source == KERNEL_SOURCE IN [i \in DOMAIN source |-> Text(source[i])]

\* the lines of KernelRoutines are what the parser makes of that text
ASSUME KernelTextParses == ParsedUnit(KernelText) = KERNEL_SOURCE

\* one register more, which only the kernel's source names, and the three signs
MCRegisterNames  == {"Y"}
MCRegisterValues == {-7, 0, 4}

MCSources == Units \cup {KernelText}

=============================================================================
