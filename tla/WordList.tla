------------------------------ MODULE WordList ------------------------------
(***************************************************************************)
(* What DictionaryPort promises the services that share its memory: a list *)
(* of words that only grows, in which a name means its newest word, and an *)
(* iteration that sees the words there were when it began.  The two stacks *)
(* in the same memory keep their values.  A call that runs out of memory   *)
(* changes neither.  Once the words have grown into a stack (lost) nothing *)
(* is promised.                                                            *)
(***************************************************************************)
EXTENDS Integers, SequencesExt, FiniteSetsExt

CONSTANTS
  Entries,       \* what append_word is called with: [codes, immediate, field, thread]
  SearchNames,   \* what find is called with
  Scalars        \* what the other clients push

VARIABLES
  words,    \* the words, oldest first: entries with a smudge flag
  left,     \* how many words the iteration has still to yield; -1: none is under way
  answer,   \* what the latest call returned
  raised,
  stk,      \* the stacks by name, oldest value first
  lost

listVars == <<words, left, answer, raised, stk, lost>>

Nothing == [index |-> 0, codes |-> << >>, immediate |-> FALSE, smudge |-> FALSE, before |-> 0]

Answer(i) ==
  IF i = 0 THEN Nothing
  ELSE [index |-> i, codes |-> words[i].codes, immediate |-> words[i].immediate,
        smudge |-> words[i].smudge, before |-> i - 1]

Init ==
  /\ words = << >> /\ left = -1 /\ answer = Nothing /\ raised = "none"
  /\ DOMAIN stk = {"D", "R"} /\ \A s \in DOMAIN stk : stk[s] = << >>
  /\ lost = FALSE

Returns == raised' = "none" /\ UNCHANGED <<stk, lost>>

Define(e) ==
  /\ words' = Append(words, [codes |-> e.codes, immediate |-> e.immediate, field |-> e.field,
                             thread |-> e.thread, smudge |-> FALSE])
  /\ answer' = [Nothing EXCEPT !.index = Len(words) + 1]
  /\ Returns /\ UNCHANGED left

\* append_cell: no word is the richer for it
Cell == answer' = Nothing /\ Returns /\ UNCHANGED <<words, left>>

OutOfMemory ==
  /\ raised' = "IndexError"
  /\ UNCHANGED <<words, left, answer, stk, lost>>

Find(codes) ==
  /\ answer' = Answer(Max({0} \cup {i \in DOMAIN words : words[i].codes = codes}))
  /\ Returns /\ UNCHANGED <<words, left>>

\* the iteration's next word, after which n are left, or its end
Yields(n) ==
  /\ left' = n
  /\ answer' = Answer(n + 1)
  /\ Returns /\ UNCHANGED words

NextHeader ==
  Yields(IF left = -1 THEN Len(words) - 1 ELSE left - 1)

Smudge(i) ==
  /\ \E b \in BOOLEAN : words' = [words EXCEPT ![i].smudge = b]
  /\ Returns /\ UNCHANGED <<left, answer>>

StackCall(s) ==
  /\ \/ \E v \in Scalars : stk' = [stk EXCEPT ![s] = Append(@, v)]
     \/ stk[s] # << >> /\ stk' = [stk EXCEPT ![s] = Front(@)]
  /\ raised' = "none" /\ UNCHANGED <<words, left, answer, lost>>

Next ==
  \/ lost'
  \/ \E e \in Entries : Define(e)
  \/ Cell \/ OutOfMemory \/ NextHeader
  \/ \E c \in SearchNames : Find(c)
  \/ \E i \in DOMAIN words : Smudge(i)
  \/ \E s \in DOMAIN stk : StackCall(s)

Spec == Init /\ [][Next]_listVars

=============================================================================
