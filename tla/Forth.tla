------------------------------- MODULE Forth -------------------------------
(***************************************************************************)
(* ForthService: words as Python callables on the shared stacks and        *)
(* memory.  A call runs one word; a colon word runs the words of its list, *)
(* looked up by name one after the other.  Each step is one primitive, or  *)
(* the entry or the end of a list, so an exception stops a call where it   *)
(* happens and undoes nothing.                                             *)
(*                                                                         *)
(* Python's own stack bounds how deep lists nest.  Where exactly it ends   *)
(* is not the program's to know: in the deepest list any call a primitive  *)
(* makes may be the one that raises RecursionError.                        *)
(***************************************************************************)
EXTENDS Memory, PythonIntegers, SequencesExt, FiniteSetsExt

CONSTANTS
  Definitions,   \* what the host calls add_colon_def with: <<name, code>>
  Literals,      \* the integers it pushes, or gives to LIT and DOCOL
  CallNames,     \* the words it calls
  Starts,        \* what earlier calls have left: [ds, rs, colon], stacks oldest value first
  MaxCalls,      \* bound: calls of the host
  MaxDepth,      \* how many lists can be nested
  Width,         \* see ForthMachine
  LabelOf        \* the kernel's CODE words, by name, as ForthMachine knows them

\* the code of a colon word: a list; "..." is no word but stands for some, see Expansion
IsWordList(code) == code \in Seq(Range(code)) /\ "..." \notin Range(code)

ASSUME ForthAssumption ==
  /\ Literals \subseteq Int /\ MaxCalls \in Nat /\ MaxDepth \in Nat
  /\ \A d \in Definitions : Len(d) = 2 /\ IsWordList(d[2])
  /\ \A s \in Starts : /\ s.ds \in Seq(Int) /\ Len(s.ds) <= DATA_STACK_SIZE
                       /\ s.rs \in Seq(Int) /\ Len(s.rs) <= RETURN_STACK_SIZE
                       /\ \A n \in DOMAIN s.colon : IsWordList(s.colon[n])

VARIABLES
  ip,       \* IP in the service's own register file
  halted,
  colon,    \* colon_defs: the code of the names that are colon words
  frames,   \* the lists being run, outermost first: [code, at]; the first is the call
  raised,
  calls,    \* history: how many calls there were
  called,   \* history: the word of the latest call
  ran       \* history: the primitives it has run, a failing one included

vars == <<mem, sp, ip, halted, colon, frames, raised, calls, called, ran>>

-----------------------------------------------------------------------------
(* The words that use the stacks and the memory *)

Structure == {"IF", "ELSE", "THEN", "BEGIN", "UNTIL", "WHILE", "REPEAT", "DO", "LOOP", "+LOOP"}
Control   == {"LIT", "DOCOL", "EXIT", "BYE"}
BinaryOps == {"+", "-", "*", "/", "MOD", "=", "<>", "<", ">", "AND", "OR"}
UnaryOps  == {"NEGATE", "ABS", "1+", "1-", "@", "0=", "0<", "INVERT"}
Shuffles  == {"DUP", "DROP", "SWAP", "OVER", "ROT", "-ROT", "NIP", "TUCK"}
BitWords  == {"AND", "OR"}
DataWords == BinaryOps \cup UnaryOps \cup Shuffles \cup {"!", ">R", "R>", "R@"}

Primitives == DataWords \cup Control \cup Structure

\* the data words and the labels of the kernel's routines for them
Labels ==
  { <<"+", "PLUS">>, <<"-", "MINUS">>, <<"*", "MUL">>, <<"=", "EQUALS">>, <<"<>", "NOTEQUALS">>,
    <<"<", "LESSTHAN">>, <<">", "GREATERTHAN">>, <<"AND", "BITAND">>, <<"OR", "BITOR">>,
    <<"NEGATE", "NEGATE">>, <<"ABS", "ABS">>, <<"1+", "ONEPLUS">>, <<"1-", "ONEMINUS">>,
    <<"@", "FETCH">>, <<"0=", "ZEROEQ">>, <<"0<", "ZEROLT">>, <<"INVERT", "BITINVERT">>,
    <<"DUP", "DUP">>, <<"DROP", "DROP">>, <<"SWAP", "SWAP">>, <<"OVER", "OVER">>, <<"ROT", "ROT">>,
    <<"-ROT", "NROT">>, <<"NIP", "NIP">>, <<"TUCK", "TUCK">>, <<"!", "STOREW">>, <<">R", "TOR">>,
    <<"R>", "FROMR">>, <<"R@", "RFETCH">> }

ASSUME LabelAssumption == \A w \in DOMAIN LabelOf \cap DataWords : <<w, LabelOf[w]>> \in Labels

Source(w) == IF w \in {"R>", "R@"} THEN "R" ELSE "D"
Target(w) == IF w = ">R" THEN "R" ELSE "D"

\* how many values a word pops, and whether it then looks at one more
Pops(w) ==
  CASE w \in {"DUP", "R@"} -> 0
    [] w \in {"ROT", "-ROT"} -> 3
    [] w \in BinaryOps \cup {"SWAP", "NIP", "TUCK", "!"} -> 2
    [] OTHER -> 1
Peeks(w) == w \in {"DUP", "OVER", "R@"}

\* the i-th value a word sees, the top first
Seen(w, i) == mem[sp[Source(w)] + i - 1]

Truth(b) == IF b THEN 1 ELSE 0

\* what it pushes, in order: a and b are what the source calls them
Binary(w, a, b) ==
  CASE w = "+" -> a + b
    [] w = "-" -> a - b
    [] w = "*" -> a * b
    [] w = "/" -> FloorDiv(a, b)
    [] w = "MOD" -> FloorMod(a, b)
    [] w = "=" -> Truth(a = b)
    [] w = "<>" -> Truth(a # b)
    [] w = "<" -> Truth(a < b)
    [] w = ">" -> Truth(a > b)
    [] w = "AND" -> BitAnd(a, b)
    [] w = "OR" -> a + b - BitAnd(a, b)

Unary(w, a) ==
  CASE w = "NEGATE" -> -a
    [] w = "ABS" -> IF a < 0 THEN -a ELSE a
    [] w = "1+" -> a + 1
    [] w = "1-" -> a - 1
    [] w = "@" -> mem[CellAt(a)]
    [] w = "0=" -> Truth(a = 0)
    [] w = "0<" -> Truth(a < 0)
    [] w = "INVERT" -> -a - 1

Gives(w) ==
  LET x == Seen(w, 1)  y == Seen(w, 2)  z == Seen(w, 3)
  IN CASE w \in BinaryOps -> <<Binary(w, y, x)>>
       [] w \in UnaryOps -> <<Unary(w, x)>>
       [] w \in {"DUP"} -> <<x>>
       [] w \in {"DROP", "!"} -> << >>
       [] w \in {"SWAP", "OVER"} -> <<x, y>>
       [] w = "ROT" -> <<y, x, z>>
       [] w = "-ROT" -> <<x, z, y>>
       [] w = "TUCK" -> <<x, y, x>>
       [] w \in {"NIP", ">R", "R>", "R@"} -> <<x>>

\* what it raises once it has popped its operands
Faults(w) ==
  CASE w \in {"/", "MOD"} /\ Seen(w, 1) = 0 -> "ZeroDivisionError"
    [] w \in {"@", "!"} /\ ~Addressable(Seen(w, 1)) -> "IndexError"
    [] OTHER -> "none"

Held(s) == Base(s) - sp[s]

\* the stack pointers once the first k operands are popped
Popped(w, k) == [sp EXCEPT ![Source(w)] = @ + k]

\* the values pushed one below the other, from where the pops leave the pointer
Pushed(w, values) ==
  LET top == Popped(w, Pops(w))[Target(w)]
  IN  [c \in Cells |-> IF top - c \in DOMAIN values THEN values[top - c] ELSE mem[c]]

\* mutant: the stack has no limit
RoomForAll(w) == Len(Gives(w))

\* how many of its results find room
Room(w) == Min({Len(Gives(w)), Popped(w, Pops(w))[Target(w)] - Floor(Target(w))})

\* mutant: operands are counted before the first is popped
TooFewCounted(w) == UNCHANGED sp

\* what there was has been popped
TooFew(w) == sp' = Popped(w, Held(Source(w)))

DataWord(w) ==
  LET popped == Popped(w, Pops(w))
      gives  == Gives(w)
  IN /\ UNCHANGED <<ip, halted>>
     /\ IF Held(Source(w)) < Pops(w) + (IF Peeks(w) THEN 1 ELSE 0)
        THEN TooFew(w) /\ raised' = "StackError" /\ UNCHANGED mem
        ELSE IF Faults(w) # "none"
        THEN sp' = popped /\ raised' = Faults(w) /\ UNCHANGED mem
        ELSE IF w = "!"
        THEN /\ sp' = popped /\ raised' = "none"
             /\ mem' = [mem EXCEPT ![CellAt(Seen(w, 1))] = Seen(w, 2)]
        ELSE /\ sp' = [popped EXCEPT ![Target(w)] = @ - Room(w)]
             /\ mem' = Pushed(w, SubSeq(gives, 1, Room(w)))
             /\ raised' = IF Room(w) < Len(gives) THEN "StackError" ELSE "none"

\* A data word that Python's stack cuts short: some of its pops are done, or
\* all and some of its pushes; the last of these may have moved the pointer
\* to a cell it has not written.
DataWordCut(w) ==
  LET most == Min({Pops(w), Held(Source(w))})
  IN /\ UNCHANGED <<ip, halted>>
     /\ \/ /\ \E k \in 0 .. most : sp' = Popped(w, k)
           /\ UNCHANGED mem
        \/ /\ Held(Source(w)) >= Pops(w) + (IF Peeks(w) THEN 1 ELSE 0)
           /\ Faults(w) = "none"
           /\ \E n \in 1 .. Room(w) :
                /\ sp' = [Popped(w, Pops(w)) EXCEPT ![Target(w)] = @ - n]
                /\ \E written \in {n - 1, n} : mem' = Pushed(w, SubSeq(Gives(w), 1, written))

-----------------------------------------------------------------------------
(* The other words *)

\* EXIT takes IP from the return stack; it does not end the list it is in
Exit ==
  /\ UNCHANGED <<mem, halted>>
  /\ IF Underflows("R")
     THEN raised' = "StackError" /\ UNCHANGED <<sp, ip>>
     ELSE /\ ip' = Top("R") /\ sp' = [sp EXCEPT !["R"] = @ + CELL_SIZE]
          /\ raised' = "none"

Bye == halted' = TRUE /\ raised' = "none" /\ UNCHANGED <<mem, sp, ip>>

\* a word that is missing its argument (LIT, DOCOL), or has nothing to do
Ends(e) == raised' = e /\ UNCHANGED <<mem, sp, ip, halted>>

WordBody(w) ==
  \/ w \in DataWords /\ DataWord(w)
  \/ w = "EXIT" /\ Exit
  \/ w = "BYE" /\ Bye
  \/ w \in {"LIT", "DOCOL"} /\ Ends("TypeError")
  \/ w \in Structure /\ Ends("none")

WordCut(w) ==
  /\ raised' = "RecursionError"
  /\ \/ w \in DataWords /\ DataWordCut(w)
     \/ w = "EXIT" /\ ~Underflows("R") /\ sp' = [sp EXCEPT !["R"] = @ + CELL_SIZE]
                   /\ UNCHANGED <<mem, ip, halted>>
     \/ UNCHANGED <<mem, sp, ip, halted>>

-----------------------------------------------------------------------------
(* _execute_colon *)

InCall  == frames # << >>
Running == Last(frames)
AtEnd   == Running.at > Len(Running.code)
Current == Running.code[Running.at]
Deepest == Len(frames) > MaxDepth

Names == Primitives \cup DOMAIN colon

\* the word at hand is done: on to the next one, or out of the call
Proceed ==
  frames' = IF raised' = "none" THEN [frames EXCEPT ![Len(frames)].at = @ + 1] ELSE << >>

RunPrimitive ==
  /\ InCall /\ ~AtEnd
  /\ Current \in Primitives \ DOMAIN colon
  /\ \/ WordBody(Current)
     \/ Deepest /\ WordCut(Current)
  /\ ran' = Append(ran, Current)
  /\ Proceed
  /\ UNCHANGED <<colon, calls, called>>

\* mutant: a word that is not there is passed over
UnknownSkipped ==
  /\ InCall /\ ~AtEnd
  /\ Current \notin Names
  /\ Ends("none") /\ Proceed
  /\ UNCHANGED <<colon, calls, called, ran>>

Unknown ==
  /\ InCall /\ ~AtEnd
  /\ Current \notin Names
  /\ Ends("UnknownWordError") /\ Proceed
  /\ UNCHANGED <<colon, calls, called, ran>>

\* mutant: the list of the last word takes the place of the list it is in
EnterInPlace ==
  /\ InCall /\ ~AtEnd
  /\ Current \in DOMAIN colon
  /\ frames' = IF Running.at = Len(Running.code)
               THEN Append(Front(frames), [code |-> colon[Current], at |-> 1])
               ELSE Append([frames EXCEPT ![Len(frames)].at = @ + 1], [code |-> colon[Current], at |-> 1])
  /\ UNCHANGED <<mem, sp, ip, halted, colon, raised, calls, called, ran>>

\* a colon word: its list as it is now, unless Python's stack is used up
Enter ==
  /\ InCall /\ ~AtEnd
  /\ Current \in DOMAIN colon
  /\ IF Deepest
     THEN raised' = "RecursionError" /\ frames' = << >>
     ELSE /\ frames' = Append(frames, [code |-> colon[Current], at |-> 1])
          /\ UNCHANGED raised
  /\ UNCHANGED <<mem, sp, ip, halted, colon, calls, called, ran>>

\* a list is at its end: the word that led to it is done
Leave ==
  /\ InCall /\ AtEnd
  /\ frames' = IF Len(frames) = 1 THEN << >>
               ELSE [Front(frames) EXCEPT ![Len(frames) - 1].at = @ + 1]
  /\ UNCHANGED <<mem, sp, ip, halted, colon, raised, calls, called, ran>>

Step == RunPrimitive \/ Unknown \/ Enter \/ Leave

-----------------------------------------------------------------------------
(* The host *)

Idle == ~InCall /\ calls < MaxCalls /\ calls' = calls + 1

\* dictionary[w]()
Call(w) ==
  /\ Idle /\ w \in Names
  /\ frames' = << [code |-> <<w>>, at |-> 1] >>
  /\ called' = w /\ ran' = << >> /\ raised' = "none"
  /\ UNCHANGED <<mem, sp, ip, halted, colon>>

\* add_colon_def
Define(name, code) ==
  /\ Idle
  /\ colon' = [n \in DOMAIN colon \cup {name} |-> IF n = name THEN code ELSE colon[n]]
  /\ raised' = "none"
  /\ UNCHANGED <<mem, sp, ip, halted, frames, called, ran>>

\* dictionary['LIT'](v), or a push by another service; and dictionary['DOCOL'](v)
Literal(v) ==
  /\ Idle /\ "LIT" \notin DOMAIN colon
  /\ IF Overflows("D")
     THEN raised' = "StackError" /\ UNCHANGED <<mem, sp>>
     ELSE StackPush("D", v) /\ raised' = "none"
  /\ UNCHANGED <<ip, halted, colon, frames, called, ran>>

Docol(v) ==
  /\ Idle /\ "DOCOL" \notin DOMAIN colon
  /\ IF Overflows("R")
     THEN raised' = "StackError" /\ UNCHANGED <<mem, sp, ip>>
     ELSE StackPush("R", ip) /\ ip' = v /\ raised' = "none"
  /\ UNCHANGED <<halted, colon, frames, called, ran>>

\* build_standard_colon_defs, on a service without definitions of those names
StandardDefs == [n \in {"IF_THEN", "IF_ELSE_THEN", "BEGIN_UNTIL", "WHILE_REPEAT", "DO_LOOP",
                        "DO_PLUS_LOOP", ";"} |->
  CASE n = "IF_THEN"      -> <<"0BRANCH">>
    [] n = "IF_ELSE_THEN" -> <<"0BRANCH", "BRANCH">>
    [] n = "BEGIN_UNTIL"  -> <<"BEGIN", "UNTIL">>
    [] n = "WHILE_REPEAT" -> <<"WHILE", "REPEAT">>
    [] n = "DO_LOOP"      -> <<"DO", "LOOP">>
    [] n = "DO_PLUS_LOOP" -> <<"DO", "+LOOP">>
    [] n = ";"            -> <<"EXIT">>]

BuildStandardColonDefs ==
  /\ Idle
  /\ colon' = [n \in DOMAIN colon \cup DOMAIN StandardDefs |->
                 IF n \in DOMAIN StandardDefs THEN StandardDefs[n] ELSE colon[n]]
  /\ raised' = "none"
  /\ UNCHANGED <<mem, sp, ip, halted, frames, called, ran>>

HostCall ==
  \/ \E w \in CallNames : Call(w)
  \/ \E d \in Definitions : Define(d[1], d[2])
  \/ \E v \in Literals : Literal(v) \/ Docol(v)
  \/ BuildStandardColonDefs

Init ==
  /\ \E start \in Starts :
       /\ sp = [s \in Stacks |-> Base(s) - Len(IF s = "D" THEN start.ds ELSE start.rs)]
       /\ mem = [c \in Cells |->
                   IF DATA_STACK_BASE - c \in DOMAIN start.ds THEN start.ds[DATA_STACK_BASE - c]
                   ELSE IF RETURN_STACK_BASE - c \in DOMAIN start.rs
                   THEN start.rs[RETURN_STACK_BASE - c] ELSE 0]
       /\ colon = start.colon
  /\ ip = 0 /\ halted = FALSE
  /\ frames = << >> /\ raised = "none"
  /\ calls = 0 /\ called = "" /\ ran = << >>

Next == Step \/ HostCall

\* A call is Python code that nothing suspends: it goes on.  The host need not.
Spec == Init /\ [][Next]_vars /\ WF_vars(Step)

-----------------------------------------------------------------------------
(* Properties *)

\* Both stacks stay in their regions, also when a word is cut short by Python's
\* own stack; a list of words is run at most MaxDepth deep.
TypeOK ==
  /\ mem \in [Cells -> Int] /\ sp \in [Stacks -> Int] /\ PointersInBounds
  /\ ip \in Int /\ halted \in BOOLEAN
  /\ Len(frames) <= MaxDepth + 1
  /\ raised \in {"none", "StackError", "IndexError", "ZeroDivisionError", "TypeError",
                 "UnknownWordError", "RecursionError"}

\* The words that the call made last runs, in order.  A list that is nested too
\* deep stands as "...", a name that is not there for itself.
Expansion ==
  LET all == Names \cup UNION {Range(colon[n]) : n \in DOMAIN colon}
      from[p \in (0 .. MaxDepth) \X all] ==
        IF p[2] \notin DOMAIN colon THEN <<p[2]>>
        ELSE IF p[1] = 0 THEN <<"...">>
        ELSE FlattenSeq([i \in DOMAIN colon[p[2]] |-> from[<<p[1] - 1, colon[p[2]][i]>>]])
  IN  from[<<MaxDepth, called>>]

\* A call runs the words of its definition depth first, every name meaning what
\* it means at the time of the call, up to the first one that raises, is unknown
\* or is nested too deep: what comes before that has run, what comes after has
\* not.  A word redefined in terms of itself is not the older word but endless
\* (forth.py 56-65).
RunsItsExpansion ==
  [][InCall /\ ~InCall' =>
       LET e    == Expansion
           stop == Min({Len(e) + 1} \cup {i \in DOMAIN e : e[i] \notin Primitives})
       IN /\ IsPrefix(ran', SubSeq(e, 1, stop - 1))
          /\ raised' = "none" => ran' = e
          /\ raised' = "UnknownWordError" => Len(ran') = stop - 1 /\ e[stop] # "..."
          /\ raised' = "RecursionError" => "..." \in Range(e) \/ Deepest]_vars

\* The kernel's machine as its own runs have it; what only the thread of a
\* program needs (Entry, Headers, ip) does not matter to one word.
Kernel == INSTANCE ForthMachine WITH
  Entry <- << >>, Headers <- << >>, TRUE_FLAG <- -1,
  ds <- Contents("D"), rs <- Contents("R"), ip <- 0,
  dict <- [a \in 0 .. DICTIONARY_SIZE - 1 |-> mem[a]],
  in <- << >>, out <- << >>, status <- IF raised = "none" THEN "running" ELSE raised

\* the words that leave a flag (forth.py 100-105)
Comparisons == {"=", "<>", "<", ">", "0=", "0<"}

\* What the routine l does, but with 1 for a flag that it leaves as -1.
FlagsNegated(l) ==
  LET n == Kernel!Operands[l]
  IN  Kernel!Compute(n, IF Len(Contents("D")) < n THEN << >> ELSE << -Kernel!Results(l)[1] >>)

\* A word does here, to both stacks and the dictionary, what the kernel's machine
\* does for its routine, and is cut short by their limits where that is, with
\* the same exception; only
\*   - a comparison leaves 1 where the routine leaves -1, and
\*   - * leaves the product where the routine, given a negative multiplier,
\*     never comes back.
\* Not compared are @ and ! at an address inside the stacks, of which the
\* kernel's machine says nothing, and a word that Python's own stack cuts short.
AgreesOn(words) ==
  LET w == Current
      l == LabelOf[w]
  IN  /\ InCall /\ ran' # ran /\ raised' # "RecursionError"
      /\ w \in DOMAIN LabelOf \cap words
      /\ w \in {"@", "!"} /\ ~Underflows("D") /\ Addressable(Top("D"))
           => CellAt(Top("D")) < DICTIONARY_SIZE
      => \/ w \notin Comparisons /\ Kernel!Complete(l)
         \/ w \in Comparisons /\ FlagsNegated(l)
         \/ Kernel!Endless(l) /\ Kernel!Pure(l)

\* Every data word but AND and OR that the kernel has too (/ and MOD it has not)
\* agrees with its routine (forth.py 69-108, routines.py).
AgreesWithKernel == [][AgreesOn(DataWords \ BitWords)]_vars

\* The same of AND and OR, on operands of Width bits.
BitsAgreeWithKernel == [][AgreesOn(BitWords)]_vars

\* Every call comes to its end, whatever the definitions lead to.
CallsReturn == InCall ~> ~InCall

\* BYE, in the words of its comment, stops the interpreter (forth.py 192-194):
\* a call in which it has run leaves stacks, memory and IP as they are.
ByeStops == [][InCall /\ "BYE" \in Range(ran) => UNCHANGED <<mem, sp, ip>>]_vars

=============================================================================
