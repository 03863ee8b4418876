------------------------------- MODULE Parser -------------------------------
(***************************************************************************)
(* LineParser: what parser.py makes of one line of text.  The text of a    *)
(* line is the sequence of its lexemes, with blanks only separating them:  *)
(*                                                                         *)
(*   <<"label", n>>    an identifier and, directly behind it, a colon      *)
(*   <<"comma", ",">>, <<"comment", ";">>                                  *)
(*   <<"word", w>>     any other run of characters without blanks; behind  *)
(*                     the mnemonic a comma ends it too                    *)
(***************************************************************************)
EXTENDS Assembly

CONSTANTS
  BadMnemonics,   \* the words that are no mnemonic: not letters, digits and _
  Unreadable      \* stands for an operand of several words, or with a colon

\* no word, and no label, is one of the model's two stand-ins
Lexeme == {"label", "word", "comma", "comment"} \X (STRING \ {NOLINE, Unreadable})

ASSUME ParserAssumption ==
  /\ BadMnemonics \cap (DOMAIN OperandKinds \cup {NOLINE}) = {}
  /\ Unreadable \in BadTokens \cap STRING

\* how much of the line stands before the comment, and how much of that is
\* labels at its beginning
CodeLength(raw) == Cardinality({i \in DOMAIN raw : \A j \in 1 .. i : raw[j][1] # "comment"})
LabelCount(raw) == Cardinality({i \in 1 .. CodeLength(raw) : \A j \in 1 .. i : raw[j][1] = "label"})

\* _split_mnemonic would raise
BadLine(raw) ==
  /\ LabelCount(raw) < CodeLength(raw)
  /\ LET first == raw[LabelCount(raw) + 1] IN first[1] # "word" \/ first[2] \in BadMnemonics

\* the places of the operands' words, and of those that begin an operand;
\* nothing between two commas is no operand
OperandWords(raw) == {i \in LabelCount(raw) + 2 .. CodeLength(raw) : raw[i][1] # "comma"}
Beginnings(raw)   == {i \in OperandWords(raw) : i - 1 \notin OperandWords(raw)}

\* mutant: of an operand of several words the first one counts
AloneFirst(raw) == {i \in Beginnings(raw) : raw[i][1] = "word"}

\* the words that are an operand by themselves
Alone(raw) == {i \in Beginnings(raw) : raw[i][1] = "word" /\ i + 1 \notin OperandWords(raw)}

\* _parse_line of a line that is not bad
ParseLine(raw) ==
  LET labels   == LabelCount(raw)
      begins   == Beginnings(raw)
      begin(j) == CHOOSE i \in begins : Cardinality({h \in begins : h < i}) = j - 1
      token(i) == IF i \in Alone(raw) THEN raw[i][2] ELSE Unreadable
  IN  Line([i \in 1 .. labels |-> raw[i][2]],
           IF labels = CodeLength(raw) THEN NOLINE ELSE raw[labels + 1][2],
           [j \in 1 .. Cardinality(begins) |-> token(begin(j))])

\* parse
ParsedUnit(text) == [i \in DOMAIN text |-> ParseLine(text[i])]

=============================================================================
