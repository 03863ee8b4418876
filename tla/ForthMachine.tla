---------------------------- MODULE ForthMachine ----------------------------
(***************************************************************************)
(* What the kernel promises a Forth program: one step per word of the      *)
(* thread, on two stacks of values.  A word takes its operands off the     *)
(* data stack and leaves its results, as the stack comments of routines.py *)
(* state them.  A word that cannot complete ends the run with the          *)
(* exception of its last instruction and is not undone: operands it has    *)
(* taken stay taken and results it has left stay.                          *)
(***************************************************************************)
EXTENDS Layout, SequencesExt

CONSTANTS
  Entry,      \* the word a code-field value stands for
  Width,      \* bound: AND and OR are specified on Width-bit operands
  Headers,    \* the installed words, oldest first: [codes, nfa, cfa]
  TRUE_FLAG   \* what a comparison leaves for true

VARIABLES
  ds, rs,     \* the stacks, oldest value first
  ip,         \* the next cell of the thread
  dict,       \* the cells below the stacks
  in, out,    \* the input left and the output made
  status      \* "running", "halted", or the exception the run ended with

forthVars == <<ds, rs, ip, dict, in, out, status>>

Oldest(s, n)  == SubSeq(s, 1, n)
Under(n)      == Oldest(ds, Len(ds) - n)       \* the data stack below n operands
Arg(n, i)     == ds[Len(ds) - n + i]           \* the i-th of n operands, deepest first
Flag(b)       == IF b THEN TRUE_FLAG ELSE 0

\* addresses count from the end of memory when negative
Addressed(a)    == -MEMORY_SIZE <= a /\ a < MEMORY_SIZE
At(a)           == IF a < 0 THEN a + MEMORY_SIZE ELSE a
InDictionary(a) == Addressed(a) /\ At(a) < DICTIONARY_SIZE

\* the counted string at a
Counted(a) == [i \in 1 .. dict[a] |-> dict[a + i]]

-----------------------------------------------------------------------------
(* Searching and number parsing *)

\* FIND: the newest word that is not smudged and has the name
FindResult(a) ==
  LET matches == {i \in DOMAIN Headers :
                    Headers[i].codes = Counted(a) /\ dict[Headers[i].nfa - 1] = 0}
  IN  IF matches = {}
      THEN <<0, 0>>
      ELSE LET h == Headers[Max(matches)]
           IN  << h.cfa, IF dict[h.nfa - 2] = 0 THEN -1 ELSE 1 >>

Minus == 45
Digit(c) == c - 48

Decimal(digits) == FoldLeft(LAMBDA n, c : 10 * n + Digit(c), 0, digits)

\* NUMBER: an optional minus sign and at least one decimal digit
NumberResult(a) ==
  LET s        == Counted(a)
      negative == s # << >> /\ Head(s) = Minus
      digits   == IF negative THEN Tail(s) ELSE s
  IN  IF digits # << >> /\ \A i \in DOMAIN digits : Digit(digits[i]) \in 0 .. 9
      THEN << IF negative THEN -Decimal(digits) ELSE Decimal(digits), 1 >>
      ELSE <<0, 0>>

\* AND and OR, bit by bit in two's complement
Bit(x, i) == (x \div 2^i) % 2
BitByBit(f(_, _), a, b) ==
  CHOOSE r \in -(2^Width) .. 2^Width - 1 :
    \A i \in 0 .. Width : Bit(r, i) = f(Bit(a, i), Bit(b, i))

-----------------------------------------------------------------------------
(* Words that only compute: how many operands, and the results from them *)

Operands ==
  [w \in {"DUP", "DROP", "SWAP", "OVER", "ROT", "NROT", "NIP", "TUCK", "PLUS", "MINUS",
          "MUL", "NEGATE", "ABS", "ONEPLUS", "ONEMINUS", "EQUALS", "NOTEQUALS",
          "LESSTHAN", "GREATERTHAN", "ZEROEQ", "ZEROLT", "BITAND", "BITOR", "BITINVERT",
          "FIND", "NUMBER"} |->
     CASE w \in {"ROT", "NROT"} -> 3
       [] w \in {"SWAP", "OVER", "NIP", "TUCK", "PLUS", "MINUS", "MUL", "EQUALS",
                 "NOTEQUALS", "LESSTHAN", "GREATERTHAN", "BITAND", "BITOR"} -> 2
       [] OTHER -> 1]

Results(w) ==
  LET a == Arg(Operands[w], 1)
      b == Arg(Operands[w], 2)
      c == Arg(Operands[w], 3)
  IN CASE w = "DUP"  -> <<a, a>>
       [] w = "DROP" -> << >>
       [] w = "SWAP" -> <<b, a>>
       [] w = "OVER" -> <<a, b, a>>
       [] w = "ROT"  -> <<b, c, a>>
       [] w = "NROT" -> <<c, a, b>>
       [] w = "NIP"  -> <<b>>
       [] w = "TUCK" -> <<b, a, b>>
       [] w = "PLUS"  -> <<a + b>>
       [] w = "MINUS" -> <<a - b>>
       [] w = "MUL"   -> <<a * b>>
       [] w = "NEGATE"    -> <<-a>>
       [] w = "ABS"       -> <<IF a < 0 THEN -a ELSE a>>
       [] w = "ONEPLUS"   -> <<a + 1>>
       [] w = "ONEMINUS"  -> <<a - 1>>
       [] w = "BITINVERT" -> <<-a - 1>>
       [] w = "BITAND"    -> <<BitByBit(LAMBDA x, y : x * y, a, b)>>
       [] w = "BITOR"     -> <<BitByBit(LAMBDA x, y : IF x + y = 0 THEN 0 ELSE 1, a, b)>>
       [] w = "EQUALS"      -> <<Flag(a = b)>>
       [] w = "NOTEQUALS"   -> <<Flag(a # b)>>
       [] w = "LESSTHAN"    -> <<Flag(a < b)>>
       [] w = "GREATERTHAN" -> <<Flag(a > b)>>
       [] w = "ZEROEQ"      -> <<Flag(a = 0)>>
       [] w = "ZEROLT"      -> <<Flag(a < 0)>>
       [] w = "FIND"        -> FindResult(a)
       [] w = "NUMBER"      -> NumberResult(a)

-----------------------------------------------------------------------------
(* Steps *)

\* the cell the thread points at, and the code-field value it leads to
Cfa  == dict[ip]
Word == Entry[dict[Cfa]]

Ends(e) == status' = e /\ UNCHANGED <<rs, dict, in, out>>
Goes    == status' = "running"

\* A data-stack word with n operands and these results.
Compute(n, results) ==
  \/ /\ Len(ds) < n                       \* what there was has been taken
     /\ ds' = << >>
     /\ Ends("StackError")
  \/ /\ Len(ds) >= n
     /\ Len(ds) - n + Len(results) > DATA_STACK_SIZE
     /\ ds' = Oldest(Under(n) \o results, DATA_STACK_SIZE)
     /\ Ends("StackError")
  \/ /\ Len(ds) >= n
     /\ Len(ds) - n + Len(results) <= DATA_STACK_SIZE
     /\ ds' = Under(n) \o results
     /\ Goes
     /\ UNCHANGED <<rs, dict, in, out>>

Pure(w) ==
  /\ w \in DOMAIN Operands
  /\ LET n == Operands[w] IN
     Compute(n, IF Len(ds) < n THEN << >> ELSE Results(w))

\* >R loses its operand when the return stack is full
ToR(w) ==
  /\ w = "TOR"
  /\ CASE ds = << >> -> Ends("StackError") /\ UNCHANGED ds
       [] ds # << >> /\ Len(rs) >= RETURN_STACK_SIZE -> Ends("StackError") /\ ds' = Under(1)
       [] OTHER -> /\ ds' = Under(1)
                   /\ rs' = Append(rs, Last(ds))
                   /\ Goes
                   /\ UNCHANGED <<dict, in, out>>

\* R> loses the value when the data stack is full; R@ puts it back first
FromR(w) ==
  /\ w \in {"FROMR", "RFETCH"}
  /\ IF rs = << >>
     THEN Ends("StackError") /\ UNCHANGED ds
     ELSE /\ rs' = IF w = "FROMR" THEN Front(rs) ELSE rs
          /\ IF Len(ds) < DATA_STACK_SIZE
             THEN ds' = Append(ds, Last(rs)) /\ Goes
             ELSE status' = "StackError" /\ UNCHANGED ds
          /\ UNCHANGED <<dict, in, out>>

\* @ and C@
Fetch(w) ==
  /\ w \in {"FETCH", "CFETCH"}
  /\ IF ds # << >> /\ ~Addressed(Last(ds))
     THEN ds' = Under(1) /\ Ends("IndexError")
     ELSE /\ ds # << >> => InDictionary(Last(ds))
          /\ Compute(1, IF ds = << >> THEN << >> ELSE <<dict[At(Last(ds))]>>)

\* ! and C!
Store(w) ==
  /\ w \in {"STOREW", "CSTOREW"}
  /\ CASE Len(ds) < 2 -> ds' = << >> /\ Ends("StackError")
       [] Len(ds) >= 2 /\ ~Addressed(Last(ds)) -> ds' = Under(2) /\ Ends("IndexError")
       [] OTHER -> /\ InDictionary(Last(ds))
                   /\ ds' = Under(2)
                   /\ dict' = [dict EXCEPT ![At(Last(ds))] = Arg(2, 1)]
                   /\ Goes
                   /\ UNCHANGED <<rs, in, out>>

\* A word that needs the stacks and the memory only.
DataStep(w) == Pure(w) \/ ToR(w) \/ FromR(w) \/ Fetch(w) \/ Store(w)

\* Repeated addition never reaches a negative multiplier.
Endless(w) == w = "MUL" /\ Len(ds) >= 2 /\ Arg(2, 2) < 0

\* Such a word, unless it never comes back.
Complete(w) == DataStep(w) /\ ~Endless(w)

Data == Complete(Word) /\ ip' = ip + 1

\* Only the runaway guard stops it, with the operands taken.
Runaway ==
  /\ Endless(Word)
  /\ ip' = ip + 1
  /\ ds' = Under(2)
  /\ Ends("EmulatorError")

\* LIT: the next cell of the thread is a literal; it is skipped once pushed
Literal ==
  /\ Word = "LIT"
  /\ IF Len(ds) < DATA_STACK_SIZE
     THEN /\ ds' = Append(ds, dict[ip + 1])
          /\ ip' = ip + 2
          /\ Goes
          /\ UNCHANGED <<rs, dict, in, out>>
     ELSE /\ ip' = ip + 1
          /\ Ends("StackError")
          /\ UNCHANGED ds

Nest ==
  /\ Word = "ENTER"
  /\ IF Len(rs) < RETURN_STACK_SIZE
     THEN rs' = Append(rs, ip + 1) /\ ip' = Cfa + 1 /\ Goes /\ UNCHANGED <<ds, dict, in, out>>
     ELSE ip' = ip + 1 /\ Ends("StackError") /\ UNCHANGED ds

Unnest ==
  /\ Word = "EXIT"
  /\ IF rs # << >>
     THEN rs' = Front(rs) /\ ip' = Last(rs) /\ Goes /\ UNCHANGED <<ds, dict, in, out>>
     ELSE ip' = ip + 1 /\ Ends("StackError") /\ UNCHANGED ds

Bye ==
  /\ Word = "BYE"
  /\ ip' = ip + 1
  /\ Ends("halted")
  /\ UNCHANGED ds

Key ==
  /\ Word = "KEY"
  /\ ip' = ip + 1
  /\ IF in = << >>
     THEN Ends("InputExhaustedError") /\ UNCHANGED ds
     ELSE /\ in' = Tail(in)
          /\ IF Len(ds) < DATA_STACK_SIZE
             THEN ds' = Append(ds, Head(in)) /\ Goes
             ELSE status' = "StackError" /\ UNCHANGED ds
          /\ UNCHANGED <<rs, dict, out>>

Emit ==
  /\ Word = "EMIT"
  /\ ip' = ip + 1
  /\ IF ds = << >>
     THEN Ends("StackError") /\ UNCHANGED ds
     ELSE /\ ds' = Under(1)
          /\ out' = Append(out, Last(ds))
          /\ Goes
          /\ UNCHANGED <<rs, dict, in>>

\* WORD: the input after the leading delimiters, up to the next one, as a
\* counted string in the buffer.  Without that delimiter the characters are
\* in the buffer, but no count.
Stored(chars, count) ==
  [a \in DOMAIN dict |->
     IF a = WORD_BUFFER_BASE THEN (IF count THEN Len(chars) ELSE dict[a])
     ELSE IF a - WORD_BUFFER_BASE \in DOMAIN chars THEN chars[a - WORD_BUFFER_BASE]
     ELSE dict[a]]

Tokenize ==
  /\ Word = "WORD"
  /\ ip' = ip + 1
  /\ IF ds = << >>
     THEN Ends("StackError") /\ UNCHANGED ds
     ELSE LET delim == Last(ds)
              first == SelectInSeq(in, LAMBDA c : c # delim)
              past  == SelectInSubSeq(in, first, Len(in), LAMBDA c : c = delim)
              token == IF first = 0 THEN << >>
                       ELSE SubSeq(in, first, IF past = 0 THEN Len(in) ELSE past - 1)
          IN /\ Len(token) < WORD_BUFFER_SIZE
             /\ UNCHANGED <<rs, out>>
             /\ IF first = 0 \/ past = 0
                THEN /\ status' = "InputExhaustedError"
                     /\ ds' = Under(1)
                     /\ dict' = IF first = 0 THEN dict ELSE Stored(token, FALSE)
                     /\ in' = << >>
                ELSE /\ Goes
                     /\ ds' = Append(Under(1), WORD_BUFFER_BASE)
                     /\ dict' = Stored(token, TRUE)
                     /\ in' = SubSeq(in, past + 1, Len(in))

Next ==
  /\ status = "running"
  /\ \/ Data \/ Runaway \/ Literal \/ Nest \/ Unnest \/ Bye
     \/ Key \/ Emit \/ Tokenize

\* The thread and the input are whatever the machine is started with.
Init ==
  /\ ds = << >> /\ rs = << >>
  /\ out = << >>
  /\ status = "running"

Spec == Init /\ [][Next]_forthVars

=============================================================================
