----------------------------- MODULE Dictionary -----------------------------
(***************************************************************************)
(* MemoryDictionaryAdapter with the counted strings and system variables   *)
(* it is made of: words in the shared memory, DP and LATEST in two of its  *)
(* cells.  One action is one call of DictionaryPort, or of another client  *)
(* of the memory: the stacks, and the program or host that marks a word as *)
(* smudged.  headers() is a generator, so each of its words is a call.     *)
(***************************************************************************)
EXTENDS Memory, WordLayout

CONSTANTS
  Entries,       \* what append_word is called with: [codes, immediate, field, thread]
  SearchNames,   \* what find is called with, as character codes
  Scalars        \* what append_cell and push are called with

ASSUME DictionaryAssumption ==
  /\ Scalars \subseteq Int /\ SearchNames \subseteq Seq(Int)
  /\ Entries \subseteq [codes : Seq(Int), immediate : BOOLEAN, field : Int, thread : Seq(Int)]

VARIABLES
  walk,        \* the name field headers() is on; 0: no iteration is under way
  answer,      \* the header the latest call returned; of append_word, the CFA
  raised,
  installed,   \* history: the words append_word has completed, [nfa, length]
  lost         \* history: the dictionary has grown into a stack's values

dictVars == <<walk, answer, raised, installed, lost>>
vars == <<mem, sp, dictVars>>

-----------------------------------------------------------------------------
(* Cells *)

Here   == mem[DP_ADDR]
Latest == mem[LATEST_ADDR]

\* cells written one after the other from address a; memory may end first
Filled(m, a, cells) ==
  [c \in Cells |-> IF c - a + 1 \in DOMAIN cells THEN cells[c - a + 1] ELSE m[c]]

WithVariables(m, dp, latest) == [m EXCEPT ![DP_ADDR] = dp, ![LATEST_ADDR] = latest]

\* counted_string.read
CountedString(m, a) == [i \in 1 .. m[a] |-> m[a + i]]

NoHeader == [codes |-> << >>, link |-> 0, immediate |-> FALSE, smudge |-> FALSE, cfa |-> 0]

\* _read_header
HeaderAt(nfa) ==
  LET start == nfa - NAME_LENGTH
      codes == CountedString(mem, nfa)
  IN  [codes     |-> codes,
       link      |-> mem[start + LINK],
       immediate |-> mem[start + IMMEDIATE] # 0,
       smudge    |-> mem[start + SMUDGE] # 0,
       cfa       |-> nfa + 1 + Len(codes)]

\* where the link chain leads from a name field
LinkOf(nfa) == mem[nfa - NAME_LENGTH]

-----------------------------------------------------------------------------
(* DictionaryPort *)

\* A service's values survive as long as the cells below DP are none of theirs
\* and no append has run through to the end of memory.
Apart == \A s \in Stacks : \A c \in Live(s) : mem[DP_ADDR] <= c
Watch ==
  lost' = (lost \/ ~Apart' \/ (raised' = "IndexError" /\ \E s \in Stacks : Live(s) # {}))

AppendCell(v) ==
  /\ IF Here < MEMORY_SIZE
     THEN /\ mem' = WithVariables(Filled(mem, Here, <<v>>), Here + 1, Latest)
          /\ answer' = NoHeader /\ raised' = "none"
     ELSE raised' = "IndexError" /\ UNCHANGED <<mem, answer>>
  /\ UNCHANGED <<sp, walk, installed>> /\ Watch

\* mutant: DP is moved past the whole word before its cells are written
LeftBehindReserved(e) == << Here + Len(WordCells(e, Latest)), Latest >>

\* mutant: LATEST names the word before its cells are written
LeftBehindLatest(e) ==
  LET nfa == Here + NAME_LENGTH
  IN  << IF MEMORY_SIZE \in nfa .. nfa + Len(e.codes) THEN nfa ELSE MEMORY_SIZE, nfa >>

\* DP and LATEST once append_word has run out of memory.  DP is after the last
\* cell appended, but the name is a counted string, which moves DP only when
\* it is written in full.
LeftBehind(e) ==
  LET nfa == Here + NAME_LENGTH
  IN  << IF MEMORY_SIZE \in nfa .. nfa + Len(e.codes) THEN nfa ELSE MEMORY_SIZE, Latest >>

AppendWord(e) ==
  LET cells == WordCells(e, Latest)
      nfa   == Here + NAME_LENGTH
      end   == Here + Len(cells)
      left  == LeftBehind(e)
  IN /\ IF end <= MEMORY_SIZE
        THEN /\ mem' = WithVariables(Filled(mem, Here, cells), end, nfa)
             /\ answer' = [NoHeader EXCEPT !.cfa = nfa + 1 + Len(e.codes)]
             /\ raised' = "none"
             /\ installed' = Append(installed, [nfa |-> nfa, length |-> Len(e.thread)])
        ELSE /\ mem' = WithVariables(Filled(mem, Here, cells), left[1], left[2])
             /\ raised' = "IndexError"
             /\ UNCHANGED <<answer, installed>>
     /\ UNCHANGED <<sp, walk>> /\ Watch

\* the name fields headers() comes to, LATEST first, and 0 from their end on
Chain[n \in 0 .. MEMORY_SIZE] ==
  IF n = 0 THEN Latest
  ELSE LET nfa == Chain[n - 1] IN IF nfa = 0 THEN 0 ELSE LinkOf(nfa)

\* the first of them that has the name, or 0
Search(codes) ==
  Chain[Min({n \in 0 .. MEMORY_SIZE : Chain[n] = 0 \/ CountedString(mem, Chain[n]) = codes})]

Find(codes) ==
  /\ LET nfa == Search(codes) IN answer' = IF nfa = 0 THEN NoHeader ELSE HeaderAt(nfa)
  /\ raised' = "none"
  /\ UNCHANGED <<mem, sp, walk, installed, lost>>

\* mutant: the iteration always goes on from LATEST's link
NextHeaderFromLatest ==
  LET nfa == IF walk = 0 THEN Latest ELSE LinkOf(Latest)
  IN /\ walk' = nfa
     /\ answer' = IF nfa = 0 THEN NoHeader ELSE HeaderAt(nfa)
     /\ raised' = "none"
     /\ UNCHANGED <<mem, sp, installed, lost>>

\* headers() up to its next yield: LATEST is read when the first word is asked
\* for, a word's link when the next one is
NextHeader ==
  LET nfa == IF walk = 0 THEN Latest ELSE LinkOf(walk)
  IN /\ walk' = nfa
     /\ answer' = IF nfa = 0 THEN NoHeader ELSE HeaderAt(nfa)
     /\ raised' = "none"
     /\ UNCHANGED <<mem, sp, installed, lost>>

-----------------------------------------------------------------------------
(* The other clients *)

Push(s, v) ==
  /\ ~Overflows(s)
  /\ StackPush(s, v)
  /\ raised' = "none" /\ UNCHANGED <<walk, answer, installed>> /\ Watch

Pop(s) ==
  /\ ~Underflows(s)
  /\ StackPop(s)
  /\ raised' = "none" /\ UNCHANGED <<walk, answer, installed, lost>>

\* MemoryPort.write to the smudge cell of a word
Smudge(i) ==
  /\ \E b \in {0, 1} : CellWrite(installed[i].nfa - NAME_LENGTH + SMUDGE, b)
  /\ raised' = "none" /\ UNCHANGED <<walk, answer, installed, lost>>

\* The adapter's constructor sets DP and LATEST in a memory of zeros.
Init ==
  /\ mem = WithVariables([c \in Cells |-> 0], DICTIONARY_BASE, 0)
  /\ sp = [s \in Stacks |-> Base(s)]
  /\ walk = 0 /\ answer = NoHeader /\ raised = "none" /\ installed = << >> /\ lost = FALSE

\* Bound: nothing is followed beyond the loss of a value.
Next ==
  /\ ~lost
  /\ \/ \E v \in Scalars : AppendCell(v)
     \/ \E e \in Entries : AppendWord(e)
     \/ \E c \in SearchNames : Find(c)
     \/ NextHeader
     \/ \E s \in Stacks : Pop(s) \/ \E v \in Scalars : Push(s, v)
     \/ \E i \in DOMAIN installed : Smudge(i)

Spec == Init /\ [][Next]_vars

-----------------------------------------------------------------------------
(* Properties *)

\* The system variables, the cursor and the answer have their types: DP never
\* leaves the memory it allots, LATEST and the cursor are words' name fields.
TypeOK ==
  /\ mem \in [Cells -> Int] /\ sp \in [Stacks -> Int] /\ PointersInBounds
  /\ Here \in DICTIONARY_BASE .. MEMORY_SIZE
  /\ {Latest, walk} \subseteq {0} \cup {installed[i].nfa : i \in DOMAIN installed}
  /\ answer.cfa \in Nat /\ raised \in {"none", "IndexError"} /\ lost \in BOOLEAN

\* The index of the word with name field a; 0 for 0.
IndexOf(a) == Max({0} \cup {i \in DOMAIN installed : installed[i].nfa = a})

\* The word w as it stands in memory m.
WordAt(m, w) ==
  LET cfa == w.nfa + m[w.nfa] + 1
  IN  [codes |-> CountedString(m, w.nfa), immediate |-> m[w.nfa - 2] = 1,
       smudge |-> m[w.nfa - 1] = 1, field |-> m[cfa],
       thread |-> [j \in 1 .. w.length |-> m[cfa + j]]]

\* The refinement mapping: the words, how many the iteration has left, and the
\* word the latest call returned.
ListedWords == IF lost THEN << >> ELSE [i \in DOMAIN installed |-> WordAt(mem, installed[i])]
LeftWords   == IF walk = 0 THEN -1 ELSE IndexOf(walk) - 1
AnsweredWord ==
  [index     |-> Max({0} \cup {i \in DOMAIN installed : installed[i].nfa < answer.cfa}),
   codes     |-> answer.codes,
   immediate |-> answer.immediate,
   smudge    |-> answer.smudge,
   before    |-> IndexOf(answer.link)]
HeldValues == [s \in Stacks |-> Contents(s)]

List == INSTANCE WordList
          WITH words <- ListedWords, left <- LeftWords, answer <- AnsweredWord, stk <- HeldValues

\* The dictionary in memory implements the list of words: appended words stay
\* as they were written, find() gives the newest of a name, smudged or not, an
\* iteration is not disturbed by words appended under it, an append that runs
\* out of memory adds no word, and neither side reaches the other's values as
\* long as DP has not grown into a stack (adapters/dictionary.py 39-80).
ImplementsWordList == List!Spec

\* The link chain from LATEST passes every completed word, newest first, down
\* to the first word's link, 0: a failed append_word is not part of it, though
\* its cells stay behind and DP may stand inside them.
ChainIsWhole ==
  ~lost => /\ Latest = IF installed = << >> THEN 0 ELSE Last(installed).nfa
           /\ \A i \in DOMAIN installed :
                /\ LinkOf(installed[i].nfa) = IF i = 1 THEN 0 ELSE installed[i - 1].nfa
                /\ installed[i].nfa + mem[installed[i].nfa] + 1 + installed[i].length < Here

=============================================================================
