--------------------------- MODULE KernelRoutines ---------------------------
(***************************************************************************)
(* The threaded-code kernel as routines.py writes it: the core routines,   *)
(* the CODE words and their names, as the lines the parser makes of the    *)
(* source.  WORD, FIND and the layout addresses in them are the f-strings  *)
(* of the source.                                                          *)
(***************************************************************************)
EXTENDS Assembly, Layout

\* A label on a line of its own, then one line per instruction.
Block(label, code) ==
  << Line(<<label>>, NOLINE, << >>) >> \o
  [i \in DOMAIN code |-> Line(<< >>, Head(code[i]), Tail(code[i]))]

\* The tokens that are integers: the literals of the source, and the layout
\* values and header offsets that its f-strings interpolate.
WordBufferToken == "WORD_BUFFER_BASE"
LatestToken     == "LATEST_ADDR"
KernelInts ==
  [t \in {"-1", "0", "1", "2", "3", "10", "45", "48", WordBufferToken, LatestToken} |->
     CASE t = "-1" -> -1 [] t = "0" -> 0 [] t = "1" -> 1 [] t = "2" -> 2 [] t = "3" -> 3
       [] t = "10" -> 10 [] t = "45" -> 45 [] t = "48" -> 48
       [] t = WordBufferToken -> WORD_BUFFER_BASE
       [] t = LatestToken     -> LATEST_ADDR]

NextW == <<"JMP", "NEXTREG">>
Pop(r)  == <<"POP_D", r>>
Push(r) == <<"PUSH_D", r>>
Far(label) == << <<"SET", "R", label>>, <<"JMP", "R">> >>   \* an unconditional jump

-----------------------------------------------------------------------------
(* Core routines *)

START == Block("START", << <<"SET", "NEXTREG", "NEXT">>, NextW >>)

\* mutant: IP is not advanced
NEXTSameCell == Block("NEXT", << <<"LOAD", "W", "IP">>, <<"LOAD", "XT", "W">>, <<"JMP", "XT">> >>)

NEXT == Block("NEXT", << <<"LOAD", "W", "IP">>, <<"ADD", "IP", "1">>,
                         <<"LOAD", "XT", "W">>, <<"JMP", "XT">> >>)

ENTER == Block("ENTER", << <<"PUSH_R", "IP">>, <<"ADD", "W", "1">>, <<"MOV", "IP", "W">>, NextW >>)

CORE_SOURCE == START \o NEXT \o ENTER

LIT  == Block("LIT", << <<"LOAD", "ACC", "IP">>, Push("ACC"), <<"ADD", "IP", "1">>, NextW >>)
EXIT == Block("EXIT", << <<"POP_R", "IP">>, NextW >>)
BYE  == Block("BYE", << <<"HALT">> >>)

-----------------------------------------------------------------------------
(* Stack words: pops into X, Y, Z, then pushes *)

Shuffle(label, pops, pushes) ==
  Block(label, [i \in DOMAIN pops |-> Pop(pops[i])] \o
               [i \in DOMAIN pushes |-> Push(pushes[i])] \o <<NextW>>)

DUP  == Shuffle("DUP",  <<"X">>, <<"X", "X">>)
DROP == Shuffle("DROP", <<"X">>, << >>)
SWAP == Shuffle("SWAP", <<"X", "Y">>, <<"X", "Y">>)
OVER == Shuffle("OVER", <<"X", "Y">>, <<"Y", "X", "Y">>)
ROT  == Shuffle("ROT",  <<"X", "Y", "Z">>, <<"Y", "X", "Z">>)
NROT == Shuffle("NROT", <<"X", "Y", "Z">>, <<"X", "Z", "Y">>)
NIP  == Shuffle("NIP",  <<"X", "Y">>, <<"X">>)
TUCK == Shuffle("TUCK", <<"X", "Y">>, <<"X", "Y", "X">>)

-----------------------------------------------------------------------------
(* Arithmetic, logic and memory words *)

\* X and Y popped, Y pushed back after one instruction
Binary(label, instr) == Block(label, << Pop("X"), Pop("Y"), instr, Push("Y"), NextW >>)
\* X popped, one register pushed back after some instructions
Unary(label, code, result) == Block(label, <<Pop("X")>> \o code \o << Push(result), NextW >>)

PLUS  == Binary("PLUS",  <<"ADD", "Y", "X">>)
MINUS == Binary("MINUS", <<"SUB", "Y", "X">>)

MulLoop == Block("MUL_LOOP", << <<"JZ", "X", "MUL_DONE">>, <<"ADD", "ACC", "Y">>,
                                <<"SUB", "X", "1">> >> \o Far("MUL_LOOP")) \o
           Block("MUL_DONE", << Push("ACC"), NextW >>)

\* mutant: the product is added to what an earlier word left in ACC
MULStale == Block("MUL", << Pop("X"), Pop("Y") >>) \o MulLoop

MUL == Block("MUL", << Pop("X"), Pop("Y"), <<"SUB", "ACC", "ACC">> >>) \o MulLoop

NegateX == << <<"SUB", "Y", "Y">>, <<"SUB", "Y", "X">> >>
NEGATE == Unary("NEGATE", NegateX, "Y")
ABS    == Unary("ABS", << <<"JS", "X", "ABS_NEG">> >>, "X") \o
          Block("ABS_NEG", NegateX \o << Push("Y"), NextW >>)
ONEPLUS  == Unary("ONEPLUS",  << <<"ADD", "X", "1">> >>, "X")
ONEMINUS == Unary("ONEMINUS", << <<"SUB", "X", "1">> >>, "X")

BITAND    == Binary("BITAND", <<"AND", "Y", "X">>)
BITOR     == Binary("BITOR",  <<"OR", "Y", "X">>)
BITINVERT == Unary("BITINVERT", << <<"INVERT", "X">> >>, "X")

Fetch(label) == Unary(label, << <<"LOAD", "Y", "X">> >>, "Y")
Store(label) == Block(label, << Pop("X"), Pop("Y"), <<"STORE", "X", "Y">>, NextW >>)
FETCH  == Fetch("FETCH")
STOREW == Store("STOREW")
CFETCH  == Fetch("CFETCH")
CSTOREW == Store("CSTOREW")

TOR    == Block("TOR",    << Pop("X"), <<"PUSH_R", "X">>, NextW >>)
FROMR  == Block("FROMR",  << <<"POP_R", "X">>, Push("X"), NextW >>)
RFETCH == Block("RFETCH", << <<"POP_R", "X">>, <<"PUSH_R", "X">>, Push("X"), NextW >>)

-----------------------------------------------------------------------------
(* Comparisons: the test branches to a second exit that pushes the other flag *)

Flagged(label, code, test, otherLabel, here, there) ==
  Block(label, code \o << test \o <<otherLabel>>, <<"SET", "Z", here>>, Push("Z"), NextW >>) \o
  Block(otherLabel, << <<"SET", "Z", there>>, Push("Z"), NextW >>)

Difference(a, b) == << Pop("X"), Pop("Y"), <<"SUB", a, b>> >>

EQUALS      == Flagged("EQUALS", Difference("Y", "X"), <<"JZ", "Y">>, "EQ_TRUE", "0", "-1")
NOTEQUALS   == Flagged("NOTEQUALS", Difference("Y", "X"), <<"JZ", "Y">>, "NE_FALSE", "-1", "0")
LESSTHAN    == Flagged("LESSTHAN", Difference("Y", "X"), <<"JS", "Y">>, "LT_TRUE", "0", "-1")
GREATERTHAN == Flagged("GREATERTHAN", Difference("X", "Y"), <<"JS", "X">>, "GT_TRUE", "0", "-1")
ZEROEQ      == Flagged("ZEROEQ", <<Pop("X")>>, <<"JZ", "X">>, "ZE_TRUE", "0", "-1")
ZEROLT      == Flagged("ZEROLT", <<Pop("X")>>, <<"JS", "X">>, "ZL_TRUE", "0", "-1")

-----------------------------------------------------------------------------
(* Devices, tokenizing, searching, number parsing *)

KEY  == Block("KEY",  << <<"IN", "X">>, Push("X"), NextW >>)
EMIT == Block("EMIT", << Pop("X"), <<"OUT", "X">>, NextW >>)

Mov(dst, src)   == <<"MOV", dst, src>>
Clear(r)        == <<"SUB", r, r>>
Add(r, n)       == <<"ADD", r, n>>
Sub(r, n)       == <<"SUB", r, n>>
Jz(r, label)    == <<"JZ", r, label>>
Js(r, label)    == <<"JS", r, label>>
Ld(r, addr)     == <<"LOAD", r, addr>>

\* scratch T := a - b, then a branch on T
Test(a, b, branch, label) == << Mov("T", a), Sub("T", b), <<branch, "T", label>> >>

NUMBER ==
  Block("NUMBER", << Pop("PTR"), Ld("LEN", "PTR"), Add("PTR", "1"), Clear("N"), Clear("NEG"),
                     Jz("LEN", "NUM_FAIL"), Ld("C", "PTR") >> \o
                  Test("C", "45", "JZ", "NUM_NEG") \o Far("NUM_LOOP")) \o
  Block("NUM_NEG", << <<"SET", "NEG", "1">>, Add("PTR", "1"), Sub("LEN", "1"),
                      Jz("LEN", "NUM_FAIL") >>) \o
  Block("NUM_LOOP", << Jz("LEN", "NUM_DONE"), Ld("C", "PTR"), Mov("DIGIT", "C"),
                       Sub("DIGIT", "48"), Js("DIGIT", "NUM_FAIL") >> \o
                    Test("DIGIT", "10", "JS", "NUM_DIGIT_OK") \o Far("NUM_FAIL")) \o
  Block("NUM_DIGIT_OK", << Mov("T", "N"), Add("T", "T"), Mov("U", "T"), Add("T", "T"),
                           Add("T", "T"), Add("T", "U"), Mov("N", "T"), Add("N", "DIGIT"),
                           Add("PTR", "1"), Sub("LEN", "1") >> \o Far("NUM_LOOP")) \o
  Block("NUM_DONE", << Jz("NEG", "NUM_PUSH"), Mov("T", "N"), Clear("N"), Sub("N", "T") >>) \o
  Block("NUM_PUSH", << Push("N"), <<"SET", "FLAG", "1">>, Push("FLAG"), NextW >>) \o
  Block("NUM_FAIL", << Clear("Z"), Push("Z"), Push("Z"), NextW >>)

WordStart == << <<"SET", "PTR", WordBufferToken>>, Add("PTR", "1"), Clear("LEN") >>
WordCollect ==
  Block("WORD_COLLECT", << <<"STORE", "PTR", "C">>, Add("PTR", "1"), Add("LEN", "1"), <<"IN", "C">> >> \o
                        Test("C", "DELIM", "JZ", "WORD_END") \o Far("WORD_COLLECT")) \o
  Block("WORD_END", << <<"SET", "PTR", WordBufferToken>>, <<"STORE", "PTR", "LEN">>,
                       Push("PTR"), NextW >>)

\* mutant: leading delimiters are not skipped
WORDNoSkip == Block("WORD", << Pop("DELIM"), <<"IN", "C">> >> \o WordStart) \o WordCollect

WORD ==
  Block("WORD", << Pop("DELIM") >>) \o
  Block("WORD_SKIP", << <<"IN", "C">> >> \o Test("C", "DELIM", "JZ", "WORD_SKIP") \o WordStart) \o
  WordCollect

FIND ==
  Block("FIND", << Pop("NAMEADDR"), Ld("SLEN", "NAMEADDR"), <<"SET", "T", LatestToken>>,
                   Ld("CUR", "T") >>) \o
  Block("FIND_LOOP", << Jz("CUR", "FIND_NOTFOUND"), Mov("T", "CUR"), Sub("T", "1"),
                        Ld("SMUDGE", "T"), Jz("SMUDGE", "FIND_VISIBLE") >> \o Far("FIND_NEXT")) \o
  Block("FIND_VISIBLE", << Ld("WLEN", "CUR") >> \o Test("WLEN", "SLEN", "JZ", "FIND_CMP") \o
                        Far("FIND_NEXT")) \o
  Block("FIND_CMP", << Mov("WPTR", "CUR"), Add("WPTR", "1"), Mov("SPTR", "NAMEADDR"),
                       Add("SPTR", "1"), Mov("COUNT", "SLEN") >>) \o
  Block("FIND_CHARS", << Jz("COUNT", "FIND_MATCH"), Ld("WC", "WPTR"), Ld("SC", "SPTR") >> \o
                      Test("WC", "SC", "JZ", "FIND_CHAR_OK") \o Far("FIND_NEXT")) \o
  Block("FIND_CHAR_OK", << Add("WPTR", "1"), Add("SPTR", "1"), Sub("COUNT", "1") >> \o
                        Far("FIND_CHARS")) \o
  Block("FIND_MATCH", << Mov("CFA", "CUR"), Add("CFA", "1"), Add("CFA", "WLEN"), Push("CFA"),
                         Mov("T", "CUR"), Sub("T", "2"), Ld("IMM", "T"), Jz("IMM", "FIND_NORMAL"),
                         <<"SET", "FLAG", "1">>, Push("FLAG"), NextW >>) \o
  Block("FIND_NORMAL", << Clear("FLAG"), Sub("FLAG", "1"), Push("FLAG"), NextW >>) \o
  Block("FIND_NEXT", << Mov("T", "CUR"), Sub("T", "3"), Ld("CUR", "T") >> \o Far("FIND_LOOP")) \o
  Block("FIND_NOTFOUND", << Clear("T"), Push("T"), Push("T"), NextW >>)

-----------------------------------------------------------------------------
(* The table of dictionary words *)

\* CodeWordDto and its source; a name is its characters' codes
Primitive(name, codes, label, source) ==
  [name |-> name, codes |-> codes, label |-> label, source |-> source]

PRIMITIVES == <<
  Primitive("LIT",  <<76, 73, 84>>,     "LIT",  LIT),
  Primitive("EXIT", <<69, 88, 73, 84>>, "EXIT", EXIT),
  Primitive("BYE",  <<66, 89, 69>>,     "BYE",  BYE),
  Primitive("DUP",  <<68, 85, 80>>,     "DUP",  DUP),
  Primitive("DROP", <<68, 82, 79, 80>>, "DROP", DROP),
  Primitive("SWAP", <<83, 87, 65, 80>>, "SWAP", SWAP),
  Primitive("OVER", <<79, 86, 69, 82>>, "OVER", OVER),
  Primitive("ROT",  <<82, 79, 84>>,     "ROT",  ROT),
  Primitive("-ROT", <<45, 82, 79, 84>>, "NROT", NROT),
  Primitive("NIP",  <<78, 73, 80>>,     "NIP",  NIP),
  Primitive("TUCK", <<84, 85, 67, 75>>, "TUCK", TUCK),
  Primitive("+",  <<43>>, "PLUS",  PLUS),
  Primitive("-",  <<45>>, "MINUS", MINUS),
  Primitive("*",  <<42>>, "MUL",   MUL),
  Primitive("NEGATE", <<78, 69, 71, 65, 84, 69>>, "NEGATE", NEGATE),
  Primitive("ABS",    <<65, 66, 83>>, "ABS", ABS),
  Primitive("1+", <<49, 43>>, "ONEPLUS",  ONEPLUS),
  Primitive("1-", <<49, 45>>, "ONEMINUS", ONEMINUS),
  Primitive("@",  <<64>>,     "FETCH",   FETCH),
  Primitive("!",  <<33>>,     "STOREW",  STOREW),
  Primitive("C@", <<67, 64>>, "CFETCH",  CFETCH),
  Primitive("C!", <<67, 33>>, "CSTOREW", CSTOREW),
  Primitive(">R", <<62, 82>>, "TOR",     TOR),
  Primitive("R>", <<82, 62>>, "FROMR",   FROMR),
  Primitive("R@", <<82, 64>>, "RFETCH",  RFETCH),
  Primitive("=",  <<61>>,     "EQUALS",      EQUALS),
  Primitive("<>", <<60, 62>>, "NOTEQUALS",   NOTEQUALS),
  Primitive("<",  <<60>>,     "LESSTHAN",    LESSTHAN),
  Primitive(">",  <<62>>,     "GREATERTHAN", GREATERTHAN),
  Primitive("0=", <<48, 61>>, "ZEROEQ",      ZEROEQ),
  Primitive("0<", <<48, 60>>, "ZEROLT",      ZEROLT),
  Primitive("AND", <<65, 78, 68>>, "BITAND", BITAND),
  Primitive("OR",  <<79, 82>>,     "BITOR",  BITOR),
  Primitive("INVERT", <<73, 78, 86, 69, 82, 84>>, "BITINVERT", BITINVERT),
  Primitive("KEY",  <<75, 69, 89>>,     "KEY",  KEY),
  Primitive("EMIT", <<69, 77, 73, 84>>, "EMIT", EMIT),
  Primitive("NUMBER", <<78, 85, 77, 66, 69, 82>>, "NUMBER", NUMBER),
  Primitive("WORD", <<87, 79, 82, 68>>, "WORD", WORD),
  Primitive("FIND", <<70, 73, 78, 68>>, "FIND", FIND) >>

KERNEL_SOURCE == CORE_SOURCE \o FlattenSeq([i \in DOMAIN PRIMITIVES |-> PRIMITIVES[i].source])

=============================================================================
