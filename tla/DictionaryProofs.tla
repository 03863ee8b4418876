-------------------------- MODULE DictionaryProofs --------------------------
(***************************************************************************)
(* Theorems about Dictionary, for every memory map and every entry: words  *)
(* lie one after the other below DP, and nothing that its clients do short *)
(* of losing a value reaches the cells that hold them together.            *)
(***************************************************************************)
EXTENDS Dictionary, CommonProofs

(***************************************************************************)
(* The invariant                                                           *)
(***************************************************************************)

\* The cell behind word i.
WordEnd(i) == installed[i].nfa + mem[installed[i].nfa] + 2 + installed[i].length

\* The words stand in memory in the order they were appended, below DP.
WordsPlaced ==
  \A i \in DOMAIN installed :
    /\ installed[i].nfa \in DICTIONARY_BASE + NAME_LENGTH .. MEMORY_SIZE - 1
    /\ i <= installed[i].nfa
    /\ mem[installed[i].nfa] \in Nat
    /\ WordEnd(i) <= Here
    /\ \A j \in 1 .. i - 1 : WordEnd(j) <= installed[i].nfa - NAME_LENGTH

\* The chain's first link and those that follow.
ChainLinked ==
  /\ Latest = IF installed = << >> THEN 0 ELSE Last(installed).nfa
  /\ \A i \in DOMAIN installed :
       LinkOf(installed[i].nfa) = IF i = 1 THEN 0 ELSE installed[i - 1].nfa

Word == [nfa : Int, length : Nat]

\* The dictionary's part of TypeOK: what a client raises on its own account is
\* no concern of it.
Types ==
  /\ mem \in [Cells -> Int] /\ sp \in [Stacks -> Int] /\ PointersInBounds
  /\ Here \in DICTIONARY_BASE .. MEMORY_SIZE
  /\ {Latest, walk} \subseteq {0} \cup {installed[i].nfa : i \in DOMAIN installed}
  /\ answer.cfa \in Nat /\ lost \in BOOLEAN

DInv ==
  /\ Types
  /\ installed \in Seq(Word)
  /\ ~lost => Apart /\ WordsPlaced /\ ChainLinked

\* The types of an installed word.
LEMMA InstalledWord ==
  ASSUME NEW ws \in Seq(Word)
  PROVE  /\ Len(ws) \in Nat /\ DOMAIN ws = 1 .. Len(ws)
         /\ \A i \in DOMAIN ws : ws[i].nfa \in Int /\ ws[i].length \in Nat
<1>1. \A i \in DOMAIN ws : ws[i] \in Word
  OBVIOUS
<1> QED  BY <1>1 DEF Word

\* It says what ChainIsWhole says.
LEMMA InvariantChain == DInv => ChainIsWhole
<1> SUFFICES ASSUME DInv, ~lost
             PROVE  /\ Latest = IF installed = << >> THEN 0 ELSE Last(installed).nfa
                    /\ \A i \in DOMAIN installed :
                         /\ LinkOf(installed[i].nfa) = IF i = 1 THEN 0 ELSE installed[i - 1].nfa
                         /\ installed[i].nfa + mem[installed[i].nfa] + 1 + installed[i].length < Here
  BY DEF ChainIsWhole
<1>1. ChainLinked /\ WordsPlaced /\ Here \in Int /\ installed \in Seq(Word)
  <2>1. Here \in DICTIONARY_BASE .. MEMORY_SIZE
    BY DEF DInv, Types
  <2> QED  BY <2>1 DEF DInv
<1>2. ASSUME NEW i \in DOMAIN installed
      PROVE  installed[i].nfa + mem[installed[i].nfa] + 1 + installed[i].length < Here
  <2>1. installed[i].nfa \in Int /\ installed[i].length \in Nat
    BY <1>1, InstalledWord
  <2>2. mem[installed[i].nfa] \in Nat /\ WordEnd(i) <= Here
    BY <1>1, Zenon DEF WordsPlaced
  <2>3. Here \in Int
    BY <1>1
  <2> QED  BY <2>1, <2>2, <2>3 DEF WordEnd
<1>3. ChainLinked
  BY <1>1
<1> QED  BY <1>2, <1>3, Zenon DEF ChainLinked

(***************************************************************************)
(* Cells                                                                   *)
(***************************************************************************)

\* DP and LATEST are two cells below the dictionary (layout.py).
LEMMA SystemCells ==
  /\ DP_ADDR = 0 /\ LATEST_ADDR = 1 /\ DICTIONARY_BASE = SYSTEM_VARS_SIZE
  /\ DICTIONARY_BASE \in Nat /\ DICTIONARY_BASE >= 2 /\ DICTIONARY_BASE <= DICTIONARY_SIZE
  /\ MEMORY_SIZE \in Nat /\ DICTIONARY_BASE <= MEMORY_SIZE
  /\ DP_ADDR \in Cells /\ LATEST_ADDR \in Cells
<1>1. DICTIONARY_BASE <= DICTIONARY_SIZE /\ DICTIONARY_BASE \in Nat /\ DICTIONARY_BASE >= 2
  BY LayoutAssumption DEF DICTIONARY_BASE, SYSTEM_VARS_BASE
<1>2. DP_ADDR = 0 /\ LATEST_ADDR = 1 /\ DICTIONARY_BASE = SYSTEM_VARS_SIZE
  BY LayoutAssumption DEF DP_ADDR, LATEST_ADDR, DICTIONARY_BASE, SYSTEM_VARS_BASE
<1>3. MEMORY_SIZE \in Nat /\ DICTIONARY_BASE <= MEMORY_SIZE
  BY <1>1, Regions
<1> QED  BY <1>1, <1>2, <1>3 DEF Cells

\* Memory m is the present one with cells from address a on, and the two
\* variables, written.
Written(m, a, cells, dp, latest) ==
  /\ m \in [Cells -> Int]
  /\ m[DP_ADDR] = dp /\ m[LATEST_ADDR] = latest
  /\ \A c \in Cells \ {0, 1} : c < a => m[c] = mem[c]
  /\ \A c \in Cells \ {0, 1} : \A k \in 1 .. Len(cells) : c = a + k - 1 => m[c] = cells[k]
  /\ \A c \in Cells \ {0, 1} : a + Len(cells) <= c => m[c] = mem[c]

\* What append_word and append_cell leave in memory.
LEMMA WrittenCells ==
  ASSUME mem \in [Cells -> Int], NEW a \in Int, NEW cells \in Seq(Int), NEW dp \in Int,
         NEW latest \in Int, a >= 2
  PROVE  Written(WithVariables(Filled(mem, a, cells), dp, latest), a, cells, dp, latest)
<1> DEFINE f == Filled(mem, a, cells)
           m == WithVariables(f, dp, latest)
<1>1. f \in [Cells -> Int]
  <2>1. \A c \in Cells : c \in Int
    BY SystemCells DEF Cells
  <2> QED  BY <2>1 DEF Filled
<1>2. \A c \in Cells : f[c] = IF c - a + 1 \in 1 .. Len(cells) THEN cells[c - a + 1] ELSE mem[c]
  <2>1. DOMAIN cells = 1 .. Len(cells)
    OBVIOUS
  <2> QED  BY <2>1 DEF Filled
<1>3. m \in [Cells -> Int] /\ m[0] = dp /\ m[1] = latest /\ \A c \in Cells \ {0, 1} : m[c] = f[c]
  <2>1. 0 \in Cells /\ 1 \in Cells /\ DP_ADDR = 0 /\ LATEST_ADDR = 1
    BY SystemCells
  <2> HIDE DEF f
  <2> QED  BY <1>1, <2>1 DEF WithVariables
<1> HIDE DEF f, m
<1>4. m[DP_ADDR] = dp /\ m[LATEST_ADDR] = latest
  BY <1>3, SystemCells
<1>a. Len(cells) \in Nat /\ \A c \in Cells : c \in Int
  BY SystemCells DEF Cells
<1>5. \A c \in Cells \ {0, 1} : c < a => m[c] = mem[c]
  <2> SUFFICES ASSUME NEW c \in Cells \ {0, 1}, c < a
               PROVE  m[c] = mem[c]
    OBVIOUS
  <2>1. c - a + 1 \notin 1 .. Len(cells)
    BY <1>a
  <2> QED  BY <1>2, <1>3, <2>1
<1>6. \A c \in Cells \ {0, 1} : \A k \in 1 .. Len(cells) : c = a + k - 1 => m[c] = cells[k]
  <2> SUFFICES ASSUME NEW c \in Cells \ {0, 1}, NEW k \in 1 .. Len(cells), c = a + k - 1
               PROVE  m[c] = cells[k]
    OBVIOUS
  <2>1. c - a + 1 = k
    BY <1>a
  <2> QED  BY <1>2, <1>3, <2>1
<1>7. \A c \in Cells \ {0, 1} : a + Len(cells) <= c => m[c] = mem[c]
  <2> SUFFICES ASSUME NEW c \in Cells \ {0, 1}, a + Len(cells) <= c
               PROVE  m[c] = mem[c]
    OBVIOUS
  <2>1. c - a + 1 \notin 1 .. Len(cells)
    BY <1>a
  <2> QED  BY <1>2, <1>3, <2>1
<1> QED  BY <1>3, <1>4, <1>5, <1>6, <1>7 DEF m, f, Written

\* What append_word is called with, by KernelBuilder too.
EntryType == [codes : Seq(Int), immediate : BOOLEAN, field : Int, thread : Seq(Int)]

\* What is put behind a sequence does not move its elements.
LEMMA Concatenation ==
  ASSUME NEW S, NEW s \in Seq(S), NEW t \in Seq(S)
  PROVE  /\ s \o t \in Seq(S)
         /\ \A k \in 1 .. Len(s) : (s \o t)[k] = s[k]
OBVIOUS

\* Their lengths add up.
LEMMA ConcatenationLength == \A S : \A s, t \in Seq(S) : Len(s \o t) = Len(s) + Len(t)
OBVIOUS

\* u has t's elements from the index n + 1 on.
HasFrom(u, n, t) == \A k \in 1 .. Len(t) : u[n + k] = t[k]

\* The second one's elements follow the first one's.
LEMMA ConcatenationTail == \A S : \A s, t \in Seq(S) : HasFrom(s \o t, Len(s), t)
BY DEF HasFrom

\* The cells of a word (append_word).
LEMMA WordCellsAre ==
  ASSUME NEW e \in EntryType, NEW link \in Int
  PROVE  /\ WordCells(e, link) \in Seq(Int)
         /\ Len(e.codes) \in Nat /\ Len(e.thread) \in Nat
         /\ Len(WordCells(e, link)) = 5 + Len(e.codes) + Len(e.thread)
         /\ WordCells(e, link)[1] = link
         /\ WordCells(e, link)[2] = IF e.immediate THEN 1 ELSE 0
         /\ WordCells(e, link)[3] = 0
         /\ WordCells(e, link)[4] = Len(e.codes)
         /\ \A k \in 1 .. Len(e.codes) : WordCells(e, link)[4 + k] = e.codes[k]
         /\ WordCells(e, link)[5 + Len(e.codes)] = e.field
         /\ \A j \in 1 .. Len(e.thread) :
              WordCells(e, link)[5 + Len(e.codes) + j] = e.thread[j]
<1>1. e.codes \in Seq(Int) /\ e.thread \in Seq(Int) /\ e.field \in Int
  BY DEF EntryType
<1> DEFINE i == IF e.immediate THEN 1 ELSE 0
           head == << link, i, 0, Len(e.codes) >>
           body == (head \o e.codes) \o <<e.field>>
<1>2. Len(e.codes) \in Nat /\ Len(e.thread) \in Nat /\ i \in Int
  BY <1>1
<1> HIDE DEF i
<1>3. /\ head \in Seq(Int) /\ Len(head) = 4
      /\ head[1] = link /\ head[2] = i /\ head[3] = 0 /\ head[4] = Len(e.codes)
  BY <1>2
<1> HIDE DEF head
<1>4. /\ body \in Seq(Int) /\ Len(body) = 5 + Len(e.codes)
      /\ body[1] = link /\ body[2] = i /\ body[3] = 0 /\ body[4] = Len(e.codes)
      /\ body[5 + Len(e.codes)] = e.field
      /\ \A k \in 1 .. Len(e.codes) : body[4 + k] = e.codes[k]
  <2> DEFINE named == head \o e.codes
  <2>1. named \in Seq(Int) /\ \A k \in 1 .. Len(head) : named[k] = head[k]
    BY <1>1, <1>3, Concatenation, Zenon
  <2>a. Len(named) = Len(head) + Len(e.codes)
    BY <1>1, <1>3, ConcatenationLength, Zenon
  <2>2. /\ Len(named) = 4 + Len(e.codes)
        /\ named[1] = link /\ named[2] = i /\ named[3] = 0 /\ named[4] = Len(e.codes)
    BY <1>3, <2>1, <2>a
  <2>b. \A k \in 1 .. Len(e.codes) : named[4 + k] = e.codes[k]
    <3>1. HasFrom(named, Len(head), e.codes)
      BY <1>1, <1>3, ConcatenationTail, Zenon
    <3> QED  BY <1>3, <3>1 DEF HasFrom
  <2> HIDE DEF named
  <2>3. <<e.field>> \in Seq(Int) /\ Len(<<e.field>>) = 1 /\ <<e.field>>[1] = e.field
    BY <1>1
  <2>4. body \in Seq(Int) /\ \A k \in 1 .. Len(named) : body[k] = named[k]
    BY <2>1, <2>3, Concatenation, Zenon DEF named
  <2>5. Len(body) = Len(named) + Len(<<e.field>>)
    BY <2>1, <2>3, ConcatenationLength, Zenon DEF named
  <2>c. HasFrom(body, Len(named), <<e.field>>)
    BY <2>1, <2>3, ConcatenationTail, Zenon DEF named
  <2> HIDE DEF body
  <2>8. body[5 + Len(e.codes)] = e.field
    <3>1. body[Len(named) + 1] = <<e.field>>[1]
      BY <2>3, <2>c DEF HasFrom
    <3>2. Len(named) + 1 = 5 + Len(e.codes)
      BY <1>2, <2>2
    <3> QED  BY <2>3, <3>1, <3>2
  <2>6. /\ Len(body) = 5 + Len(e.codes)
        /\ body[1] = link /\ body[2] = i /\ body[3] = 0 /\ body[4] = Len(e.codes)
    <3>1. Len(body) = 5 + Len(e.codes)
      BY <1>2, <2>2, <2>3, <2>5
    <3>2. {1, 2, 3, 4} \subseteq 1 .. Len(named)
      BY <1>2, <2>2
    <3>3. body[1] = named[1] /\ body[2] = named[2] /\ body[3] = named[3] /\ body[4] = named[4]
      BY <2>4, <3>2
    <3> QED  BY <2>2, <3>1, <3>3
  <2>7. ASSUME NEW k \in 1 .. Len(e.codes) PROVE body[4 + k] = e.codes[k]
    <3>1. 4 + k \in 1 .. Len(named)
      BY <1>2, <2>2
    <3> QED  BY <2>4, <2>b, <3>1
  <2> QED  BY <2>4, <2>6, <2>7, <2>8
<1>5. WordCells(e, link) = body \o e.thread
  BY DEF WordCells, body, head, i
<1> HIDE DEF body
<1>6. body \o e.thread \in Seq(Int) /\ \A k \in 1 .. Len(body) : (body \o e.thread)[k] = body[k]
  BY <1>1, <1>4, Concatenation, Zenon
<1>7. Len(body \o e.thread) = Len(body) + Len(e.thread)
  BY <1>1, <1>4, ConcatenationLength, Zenon
<1> DEFINE all == body \o e.thread
<1>8. HasFrom(all, Len(body), e.thread)
  BY <1>1, <1>4, ConcatenationTail, Zenon
<1> HIDE DEF all
<1>9. ASSUME NEW k \in 1 .. Len(e.codes) PROVE all[4 + k] = e.codes[k]
  <2>1. 4 + k \in 1 .. Len(body)
    BY <1>2, <1>4
  <2> QED  BY <1>4, <1>6, <2>1 DEF all
<1>10. /\ all[1] = link /\ all[2] = i /\ all[3] = 0 /\ all[4] = Len(e.codes)
       /\ all[5 + Len(e.codes)] = e.field
       /\ Len(all) = 5 + Len(e.codes) + Len(e.thread)
  <2>1. Len(all) = 5 + Len(e.codes) + Len(e.thread)
    BY <1>4, <1>7 DEF all
  <2>2. {1, 2, 3, 4, 5 + Len(e.codes)} \subseteq 1 .. Len(body)
    BY <1>2, <1>4
  <2>3. \A k \in {1, 2, 3, 4, 5 + Len(e.codes)} : all[k] = body[k]
    BY <1>6, <2>2 DEF all
  <2> QED  BY <1>4, <2>1, <2>3
<1>11. \A j \in 1 .. Len(e.thread) : all[5 + Len(e.codes) + j] = e.thread[j]
  BY <1>4, <1>8 DEF HasFrom
<1>12. all \in Seq(Int) /\ WordCells(e, link) = all
  BY <1>5, <1>6 DEF all
<1>13. i = IF e.immediate THEN 1 ELSE 0
  BY DEF i
<1> QED  BY <1>2, <1>9, <1>10, <1>11, <1>12, <1>13

(***************************************************************************)
(* What keeps the words                                                    *)
(***************************************************************************)

\* The types of the two variables and of the word cells the chain is made of.
LEMMA VariablesTyped ==
  ASSUME DInv
  PROVE  /\ mem \in [Cells -> Int] /\ Here \in DICTIONARY_BASE .. MEMORY_SIZE /\ Here \in Int
         /\ Latest \in Int /\ installed \in Seq(Word)
<1>1. mem \in [Cells -> Int] /\ Here \in DICTIONARY_BASE .. MEMORY_SIZE /\ installed \in Seq(Word)
  BY DEF DInv, Types
<1>2. Latest \in Int
  BY <1>1, SystemCells
<1>3. Here \in Int
  BY <1>1, SystemCells
<1> QED  BY <1>1, <1>2, <1>3

\* The name and the link of a word are cells of the dictionary below DP.
LEMMA WordBelowHere ==
  ASSUME DInv, ~lost, NEW i \in DOMAIN installed
  PROVE  LET nfa == installed[i].nfa
         IN  /\ nfa \in Cells \ {0, 1} /\ nfa - NAME_LENGTH \in Cells \ {0, 1}
             /\ nfa < Here /\ nfa - NAME_LENGTH < Here
             /\ mem[nfa] \in Nat /\ WordEnd(i) <= Here /\ nfa + mem[nfa] + 1 < WordEnd(i)
<1> DEFINE nfa == installed[i].nfa
<1>1. /\ nfa \in DICTIONARY_BASE + NAME_LENGTH .. MEMORY_SIZE - 1
      /\ mem[nfa] \in Nat /\ WordEnd(i) <= Here
  BY Zenon DEF DInv, WordsPlaced
<1>2. installed[i].length \in Nat /\ Here \in Int
  BY VariablesTyped, InstalledWord
<1>3. WordEnd(i) = nfa + mem[nfa] + 2 + installed[i].length
  BY DEF WordEnd
<1> HIDE DEF nfa
<1>4. DICTIONARY_BASE \in Nat /\ DICTIONARY_BASE >= 2 /\ MEMORY_SIZE \in Nat
  BY SystemCells
<1>5. nfa \in Cells \ {0, 1} /\ nfa - NAME_LENGTH \in Cells \ {0, 1} /\ nfa \in Nat
  BY <1>1, <1>4 DEF Cells, NAME_LENGTH
<1>6. nfa < Here /\ nfa - NAME_LENGTH < Here /\ nfa + mem[nfa] + 1 < WordEnd(i)
  BY <1>1, <1>2, <1>3, <1>5 DEF NAME_LENGTH
<1> QED  BY <1>1, <1>5, <1>6 DEF nfa

\* No word is added, DP does not go back, and the words' names and links stay.
LEMMA WordsKept ==
  ASSUME DInv, ~lost, installed' = installed, Here' \in Int, Here <= Here', Latest' = Latest,
         \A i \in DOMAIN installed :
           LET nfa == installed[i].nfa
           IN  mem'[nfa] = mem[nfa] /\ mem'[nfa - NAME_LENGTH] = mem[nfa - NAME_LENGTH]
  PROVE  WordsPlaced' /\ ChainLinked'
<1>1. WordsPlaced /\ ChainLinked /\ Here \in Int
  BY VariablesTyped DEF DInv
<1>2. \A i \in DOMAIN installed : WordEnd(i)' = WordEnd(i)
  BY DEF WordEnd
<1>3. WordsPlaced'
  <2> SUFFICES ASSUME NEW i \in DOMAIN installed
               PROVE  /\ installed[i].nfa \in DICTIONARY_BASE + NAME_LENGTH .. MEMORY_SIZE - 1
                      /\ i <= installed[i].nfa
                      /\ mem'[installed[i].nfa] \in Nat
                      /\ WordEnd(i)' <= Here'
                      /\ \A j \in 1 .. i - 1 : WordEnd(j)' <= installed[i].nfa - NAME_LENGTH
    BY Zenon DEF WordsPlaced
  <2>1. /\ installed[i].nfa \in DICTIONARY_BASE + NAME_LENGTH .. MEMORY_SIZE - 1
        /\ i <= installed[i].nfa
        /\ mem[installed[i].nfa] \in Nat
        /\ WordEnd(i) <= Here
        /\ \A j \in 1 .. i - 1 : WordEnd(j) <= installed[i].nfa - NAME_LENGTH
    BY <1>1, Zenon DEF WordsPlaced
  <2>2. mem'[installed[i].nfa] = mem[installed[i].nfa] /\ WordEnd(i)' = WordEnd(i)
    BY <1>2
  <2>3. WordEnd(i) \in Int
    <3>1. installed[i].nfa \in Int /\ installed[i].length \in Nat
      BY VariablesTyped, InstalledWord
    <3>2. mem[installed[i].nfa] \in Nat
      BY <2>1
    <3> QED  BY <3>1, <3>2 DEF WordEnd
  <2>4. WordEnd(i)' <= Here'
    BY <1>1, <2>1, <2>2, <2>3
  <2>5. \A j \in 1 .. i - 1 : j \in DOMAIN installed
    BY VariablesTyped, InstalledWord
  <2>6. \A j \in 1 .. i - 1 : WordEnd(j)' <= installed[i].nfa - NAME_LENGTH
    BY <1>2, <2>1, <2>5
  <2> QED  BY <2>1, <2>2, <2>4, <2>6
<1>4. ChainLinked'
  <2>1. \A i \in DOMAIN installed : LinkOf(installed[i].nfa)' = LinkOf(installed[i].nfa)
    BY DEF LinkOf
  <2> QED  BY <1>1, <2>1 DEF ChainLinked
<1> QED  BY <1>3, <1>4

\* The cells of the dictionary stay as they are, DP does not go back.
Kept ==
  /\ Here' \in Int /\ Here <= Here'
  /\ \A c \in Cells \ {0, 1} : c < Here => mem'[c] = mem[c]

\* That is enough for the words.
LEMMA KeptWords ==
  ASSUME DInv, ~lost, Kept, installed' = installed, Latest' = Latest
  PROVE  WordsPlaced' /\ ChainLinked'
<1>1. \A i \in DOMAIN installed :
        LET nfa == installed[i].nfa
        IN  mem'[nfa] = mem[nfa] /\ mem'[nfa - NAME_LENGTH] = mem[nfa - NAME_LENGTH]
  BY WordBelowHere DEF Kept
<1> QED  BY <1>1, WordsKept DEF Kept

\* What the history variable watches.
LEMMA Watched ==
  ASSUME Watch
  PROVE  lost' \in BOOLEAN /\ (~lost' => ~lost /\ Apart')
BY Zenon DEF Watch

(***************************************************************************)
(* The calls                                                               *)
(***************************************************************************)

\* append_cell writes the cell DP stands on, or nothing.
LEMMA AppendCellKeeps ==
  ASSUME DInv, ~lost, NEW v \in Int, AppendCell(v)
  PROVE  DInv' /\ Kept
<1>1. /\ mem \in [Cells -> Int] /\ Here \in DICTIONARY_BASE .. MEMORY_SIZE /\ Here \in Int
      /\ Latest \in Int /\ Here >= 2
  BY VariablesTyped, SystemCells
<1>2. UNCHANGED <<sp, walk, installed>> /\ lost' \in BOOLEAN /\ (~lost' => Apart')
  BY Watched DEF AppendCell
<1>3. /\ mem' \in [Cells -> Int] /\ Latest' = Latest /\ Here' \in DICTIONARY_BASE .. MEMORY_SIZE
      /\ Kept /\ answer'.cfa \in Nat /\ raised' \in {"none", "IndexError"}
  <2>1. CASE Here < MEMORY_SIZE
    <3> DEFINE m == WithVariables(Filled(mem, Here, <<v>>), Here + 1, Latest)
    <3>1. mem' = m /\ answer' = NoHeader /\ raised' = "none"
      BY <2>1 DEF AppendCell
    <3>2. <<v>> \in Seq(Int) /\ Len(<<v>>) = 1 /\ Here + 1 \in Int
      BY <1>1
    <3>a. Written(m, Here, <<v>>, Here + 1, Latest)
      BY <1>1, <3>2, WrittenCells
    <3>3. /\ m \in [Cells -> Int] /\ m[DP_ADDR] = Here + 1 /\ m[LATEST_ADDR] = Latest
          /\ \A c \in Cells \ {0, 1} : c < Here => m[c] = mem[c]
      BY <3>a, Zenon DEF Written
    <3> HIDE DEF m
    <3>4. Here' = Here + 1 /\ Latest' = Latest
      BY <3>1, <3>3 DEF Here, Latest
    <3>5. Kept
      BY <1>1, <3>1, <3>3, <3>4 DEF Kept
    <3> QED  BY <1>1, <2>1, <3>1, <3>3, <3>4, <3>5, SystemCells DEF NoHeader
  <2>2. CASE ~(Here < MEMORY_SIZE)
    <3>1. raised' = "IndexError" /\ mem' = mem /\ answer' = answer
      BY <2>2 DEF AppendCell
    <3>2. Here' = Here /\ Latest' = Latest
      BY <3>1 DEF Here, Latest
    <3>3. Kept
      BY <1>1, <3>1, <3>2 DEF Kept
    <3> QED  BY <1>1, <3>1, <3>2, <3>3 DEF DInv, Types
  <2> QED  BY <2>1, <2>2
<1>4. Types'
  BY <1>2, <1>3 DEF DInv, Types, PointersInBounds
<1>5. ~lost' => WordsPlaced' /\ ChainLinked'
  BY <1>2, <1>3, KeptWords
<1>6. (installed \in Seq(Word))'
  BY <1>2 DEF DInv
<1> QED  BY <1>2, <1>3, <1>4, <1>5, <1>6, Zenon DEF DInv

\* A push leaves the words alone or is seen to reach them.
LEMMA PushKeeps ==
  ASSUME DInv, ~lost, NEW s \in Stacks, NEW v \in Int, Push(s, v)
  PROVE  DInv' /\ (~lost' => Kept)
<1>1. /\ mem \in [Cells -> Int] /\ Here \in DICTIONARY_BASE .. MEMORY_SIZE /\ Here \in Int
      /\ sp \in [Stacks -> Int] /\ sp[s] \in Floor(s) .. Base(s) /\ PointersInBounds
  BY VariablesTyped DEF DInv, Types, PointersInBounds
<1>2. /\ UNCHANGED <<walk, answer, installed>> /\ raised' = "none"
      /\ sp' = [sp EXCEPT ![s] = sp[s] - 1] /\ mem' = [mem EXCEPT ![sp[s] - 1] = v]
      /\ ~Overflows(s) /\ lost' \in BOOLEAN /\ (~lost' => Apart')
  BY Watched DEF Push, StackPush, CELL_SIZE
<1>3. Floor(s) \in Nat /\ Base(s) \in Nat /\ DICTIONARY_SIZE <= Floor(s) /\ Base(s) <= MEMORY_SIZE
      /\ DICTIONARY_SIZE \in Nat
  BY StackRegion, Regions
<1>4. sp[s] - 1 \in Floor(s) .. Base(s) /\ sp[s] - 1 \in Cells /\ sp[s] - 1 >= 2 /\ sp[s] - 1 < Base(s)
  BY <1>1, <1>2, <1>3, SystemCells DEF Overflows, Cells
<1>5. mem' \in [Cells -> Int] /\ sp' \in [Stacks -> Int] /\ Here' = Here /\ Latest' = Latest
  BY <1>1, <1>2, <1>4, SystemCells DEF Here, Latest
<1>6. PointersInBounds'
  BY <1>1, <1>2, <1>4 DEF PointersInBounds
<1>7. Types'
  BY <1>2, <1>5, <1>6 DEF DInv, Types
<1>8. ASSUME ~lost'
      PROVE  Kept
  <2>1. sp[s] - 1 \in Live(s)'
    BY <1>1, <1>2, <1>4 DEF Live
  <2>2. Here' <= sp[s] - 1
    BY <1>2, <1>8, <2>1 DEF Apart, Here, Live
  <2>3. \A c \in Cells \ {0, 1} : c < Here => c # sp[s] - 1
    BY <1>1, <1>4, <1>5, <2>2 DEF Cells
  <2> QED  BY <1>1, <1>2, <1>5, <2>3 DEF Kept
<1>9. ~lost' => WordsPlaced' /\ ChainLinked'
  BY <1>2, <1>5, <1>8, KeptWords
<1>10. (installed \in Seq(Word))'
  BY <1>2 DEF DInv
<1> QED  BY <1>2, <1>7, <1>8, <1>9, <1>10, Zenon DEF DInv

\* A pop changes no cell.
LEMMA PopKeeps ==
  ASSUME DInv, ~lost, NEW s \in Stacks, Pop(s)
  PROVE  DInv' /\ Kept
<1>1. /\ mem \in [Cells -> Int] /\ Here \in DICTIONARY_BASE .. MEMORY_SIZE /\ Here \in Int
      /\ sp \in [Stacks -> Int] /\ sp[s] \in Floor(s) .. Base(s) /\ PointersInBounds /\ Apart
  BY VariablesTyped DEF DInv, Types, PointersInBounds
<1>2. UNCHANGED <<mem, walk, answer, installed, lost>> /\ raised' = "none"
      /\ sp' = [sp EXCEPT ![s] = sp[s] + 1] /\ ~Underflows(s)
  BY DEF Pop, StackPop, CELL_SIZE
<1>3. sp[s] + 1 \in Floor(s) .. Base(s)
  BY <1>1, <1>2, StackRegion DEF Underflows
<1>4. PointersInBounds' /\ sp' \in [Stacks -> Int]
  BY <1>1, <1>2, <1>3 DEF PointersInBounds
<1>5. Types'
  BY <1>2, <1>4 DEF DInv, Types, Here, Latest
<1>6. \A t \in Stacks : Live(t)' \subseteq Live(t)
  <2> SUFFICES ASSUME NEW t \in Stacks, NEW c \in Cells, sp'[t] <= c
               PROVE  sp[t] <= c
    BY DEF Live
  <2>1. c \in Int /\ sp[t] \in Int /\ sp'[t] \in Int /\ sp[t] <= sp'[t]
    BY <1>1, <1>2, <1>4, SystemCells DEF Cells
  <2> QED  BY <2>1
<1>7. Apart'
  BY <1>1, <1>2, <1>6 DEF Apart
<1>8. Kept /\ Latest' = Latest
  BY <1>1, <1>2 DEF Kept, Here, Latest
<1>9. WordsPlaced' /\ ChainLinked'
  BY <1>2, <1>8, KeptWords
<1>10. (installed \in Seq(Word))'
  BY <1>2 DEF DInv
<1> QED  BY <1>5, <1>7, <1>8, <1>9, <1>10, Zenon DEF DInv

\* A word put where DP stands comes after the others and links to LATEST.
LEMMA NewWord ==
  ASSUME DInv, ~lost, Kept, NEW w \in Word, installed' = Append(installed, w),
         w.nfa = Here + NAME_LENGTH, Latest' = w.nfa, mem'[Here] = Latest,
         mem'[w.nfa] \in Nat, w.nfa + mem'[w.nfa] + 2 + w.length = Here', Here' <= MEMORY_SIZE
  PROVE  installed' \in Seq(Word) /\ WordsPlaced' /\ ChainLinked'
<1>0. PICK n \in Nat : n = Len(installed)
  BY InstalledWord DEF DInv
<1>1. /\ WordsPlaced /\ ChainLinked /\ installed \in Seq(Word)
      /\ Here \in Nat /\ Here >= DICTIONARY_BASE
      /\ DICTIONARY_BASE \in Nat /\ MEMORY_SIZE \in Nat /\ Latest \in Int
  BY VariablesTyped, SystemCells DEF DInv
<1>2. /\ n \in Nat /\ DOMAIN installed = 1 .. n
      /\ \A i \in DOMAIN installed : installed[i].nfa \in Int /\ installed[i].length \in Nat
  BY <1>0, <1>1, InstalledWord
<1>3. w.nfa \in Int /\ w.length \in Nat
  BY DEF Word
<1>4. /\ installed' \in Seq(Word) /\ DOMAIN installed' = 1 .. n + 1 /\ Len(installed') = n + 1
      /\ installed'[n + 1] = w /\ \A i \in DOMAIN installed : installed'[i] = installed[i]
  BY <1>0, <1>1, <1>2
<1>5. \A i \in DOMAIN installed :
        LET nfa == installed[i].nfa
        IN  /\ nfa \in DICTIONARY_BASE + NAME_LENGTH .. MEMORY_SIZE - 1
            /\ i <= nfa /\ mem'[nfa] = mem[nfa] /\ mem'[nfa - NAME_LENGTH] = mem[nfa - NAME_LENGTH]
            /\ mem'[nfa] \in Nat /\ WordEnd(i) <= Here /\ nfa < WordEnd(i)
            /\ WordEnd(i)' = WordEnd(i) /\ WordEnd(i) \in Int
            /\ \A j \in 1 .. i - 1 : WordEnd(j) <= nfa - NAME_LENGTH
  <2> SUFFICES ASSUME NEW i \in DOMAIN installed
               PROVE  LET nfa == installed[i].nfa
                      IN  /\ nfa \in DICTIONARY_BASE + NAME_LENGTH .. MEMORY_SIZE - 1
                          /\ i <= nfa /\ mem'[nfa] = mem[nfa]
                          /\ mem'[nfa - NAME_LENGTH] = mem[nfa - NAME_LENGTH]
                          /\ mem'[nfa] \in Nat /\ WordEnd(i) <= Here /\ nfa < WordEnd(i)
                          /\ WordEnd(i)' = WordEnd(i) /\ WordEnd(i) \in Int
                          /\ \A j \in 1 .. i - 1 : WordEnd(j) <= nfa - NAME_LENGTH
    OBVIOUS
  <2> DEFINE nfa == installed[i].nfa
  <2>1. /\ nfa \in DICTIONARY_BASE + NAME_LENGTH .. MEMORY_SIZE - 1 /\ i <= nfa
        /\ \A j \in 1 .. i - 1 : WordEnd(j) <= nfa - NAME_LENGTH
    BY <1>1, Zenon DEF WordsPlaced
  <2>2. /\ nfa \in Cells \ {0, 1} /\ nfa - NAME_LENGTH \in Cells \ {0, 1}
        /\ nfa < Here /\ nfa - NAME_LENGTH < Here
        /\ mem[nfa] \in Nat /\ WordEnd(i) <= Here /\ nfa + mem[nfa] + 1 < WordEnd(i)
    BY WordBelowHere
  <2>3. mem'[nfa] = mem[nfa] /\ mem'[nfa - NAME_LENGTH] = mem[nfa - NAME_LENGTH]
    BY <2>2 DEF Kept
  <2>4. WordEnd(i)' = WordEnd(i)
    BY <1>4, <2>3 DEF WordEnd
  <2>5. WordEnd(i) \in Int /\ nfa < WordEnd(i)
    BY <1>2, <2>2 DEF WordEnd
  <2> QED  BY <2>1, <2>2, <2>3, <2>4, <2>5
<1>6. Here' \in Int /\ Here' = WordEnd(n + 1)' /\ Here <= w.nfa /\ w.nfa < Here' /\ Here < Here'
  <2>1. WordEnd(n + 1)' = w.nfa + mem'[w.nfa] + 2 + w.length
    BY <1>4 DEF WordEnd
  <2>2. PICK k \in Nat, l \in Nat, h \in Int : k = mem'[w.nfa] /\ l = w.length /\ h = Here
    BY <1>1, <1>3
  <2>3. Here' = h + 3 + k + 2 + l /\ w.nfa = h + 3 /\ Here = h
    BY <2>2 DEF NAME_LENGTH
  <2>4. Here' = WordEnd(n + 1)'
    BY <2>1, Zenon
  <2>5. h <= h + 3 /\ h + 3 < h + 3 + k + 2 + l /\ h < h + 3 + k + 2 + l /\ h + 3 + k + 2 + l \in Int
    BY <2>2
  <2> QED  BY <2>3, <2>4, <2>5
<1>7. WordsPlaced'
  <2> SUFFICES ASSUME NEW i \in 1 .. n + 1
               PROVE  /\ installed'[i].nfa \in DICTIONARY_BASE + NAME_LENGTH .. MEMORY_SIZE - 1
                      /\ i <= installed'[i].nfa
                      /\ mem'[installed'[i].nfa] \in Nat
                      /\ WordEnd(i)' <= Here'
                      /\ \A j \in 1 .. i - 1 : WordEnd(j)' <= installed'[i].nfa - NAME_LENGTH
    BY <1>4, Zenon DEF WordsPlaced
  <2>1. CASE i \in 1 .. n
    <3>1. \A j \in 1 .. i - 1 : j \in 1 .. n
      BY <1>2, <2>1
    <3>2. \A j \in 1 .. i - 1 : WordEnd(j)' <= installed'[i].nfa - NAME_LENGTH
      BY <1>2, <1>4, <1>5, <2>1, <3>1
    <3>3. WordEnd(i)' <= Here'
      <4>1. WordEnd(i)' = WordEnd(i) /\ WordEnd(i) <= Here /\ WordEnd(i) \in Int
        BY <1>2, <1>5, <2>1, Zenon
      <4> QED  BY <1>1, <1>6, <4>1
    <3> QED  BY <1>2, <1>4, <1>5, <2>1, <3>2, <3>3
  <2>2. CASE i = n + 1
    <3>1. w.nfa \in DICTIONARY_BASE + NAME_LENGTH .. MEMORY_SIZE - 1
      BY <1>1, <1>3, <1>6 DEF NAME_LENGTH
    <3>2. n + 1 <= w.nfa
      <4>1. CASE n = 0
        BY <1>1, <1>3, <4>1 DEF NAME_LENGTH
      <4>2. CASE n # 0
        <5>1. n \in DOMAIN installed
          BY <1>2, <4>2
        <5>2. n <= installed[n].nfa /\ installed[n].nfa < WordEnd(n) /\ WordEnd(n) <= Here
              /\ installed[n].nfa \in Int /\ WordEnd(n) \in Int
          BY <1>2, <1>5, <5>1
        <5> QED  BY <1>1, <1>2, <1>3, <1>6, <5>2
      <4> QED  BY <4>1, <4>2
    <3>3. \A j \in 1 .. n : WordEnd(j)' <= w.nfa - NAME_LENGTH
      <4>1. \A j \in 1 .. n : WordEnd(j)' = WordEnd(j) /\ WordEnd(j) <= Here
        BY <1>2, <1>5, Zenon
      <4>2. w.nfa - NAME_LENGTH = Here
        BY <1>1 DEF NAME_LENGTH
      <4> QED  BY <4>1, <4>2
    <3>4. WordEnd(i)' <= Here'
      BY <1>6, <2>2
    <3>5. \A j \in 1 .. i - 1 : j \in 1 .. n
      BY <1>2, <2>2
    <3> QED  BY <1>4, <2>2, <3>1, <3>2, <3>3, <3>4, <3>5
  <2> QED  BY <1>2, <2>1, <2>2
<1>8. ChainLinked'
  <2>1. installed' # << >> /\ Last(installed') = w
    BY <1>2, <1>4 DEF Last
  <2>2. ASSUME NEW i \in 1 .. n + 1
        PROVE  LinkOf(installed[i].nfa)' = IF i = 1 THEN 0 ELSE installed'[i - 1].nfa
    <3>1. CASE i \in 1 .. n
      <4>1. LinkOf(installed[i].nfa)' = LinkOf(installed[i].nfa)
        BY <1>2, <1>4, <1>5, <3>1 DEF LinkOf
      <4>2. LinkOf(installed[i].nfa) = IF i = 1 THEN 0 ELSE installed[i - 1].nfa
        BY <1>1, <1>2, <3>1, Zenon DEF ChainLinked
      <4>3. i # 1 => i - 1 \in DOMAIN installed
        BY <1>2, <3>1
      <4> QED  BY <1>4, <4>1, <4>2, <4>3
    <3>2. CASE i = n + 1
      <4>1. LinkOf(installed[i].nfa)' = Latest
        <5>1. w.nfa - NAME_LENGTH = Here
          BY <1>1 DEF NAME_LENGTH
        <5> QED  BY <1>4, <3>2, <5>1 DEF LinkOf
      <4>2. CASE n = 0
        <5>1. installed = << >>
          BY <1>0, <1>1, <4>2, EmptySeq
        <5>2. Latest = 0
          BY <1>1, <5>1 DEF ChainLinked
        <5> QED  BY <1>2, <3>2, <4>1, <4>2, <5>2
      <4>3. CASE n # 0
        <5>1. installed # << >> /\ Last(installed) = installed[n]
          BY <1>0, <1>1, <4>3 DEF Last
        <5>2. Latest = installed[n].nfa
          BY <1>1, <5>1 DEF ChainLinked
        <5>3. i # 1 /\ i - 1 = n /\ n \in DOMAIN installed
          BY <1>2, <3>2, <4>3
        <5> QED  BY <1>4, <4>1, <5>2, <5>3
      <4> QED  BY <4>2, <4>3
    <3> QED  BY <1>2, <3>1, <3>2
  <2>3. Latest' = Last(installed').nfa
    BY <2>1
  <2> QED  BY <1>4, <2>1, <2>2, <2>3, Zenon DEF ChainLinked
<1> QED  BY <1>4, <1>7, <1>8

\* The word e, with lc characters and lt thread cells, is put at the address h.
PutAt(e, h, lc, lt) ==
  /\ h = Here /\ lc = Len(e.codes) /\ lt = Len(e.thread)
  /\ 2 <= h /\ h + 5 + lc + lt <= MEMORY_SIZE /\ Here' = h + 5 + lc + lt
  /\ installed' = Append(installed, [nfa |-> h + 3, length |-> lt])
  /\ answer' = [NoHeader EXCEPT !.cfa = h + 4 + lc]
  /\ mem'[h + 1] = (IF e.immediate THEN 1 ELSE 0) /\ mem'[h + 2] = 0
  /\ mem'[h + 3] = lc /\ mem'[h + 4 + lc] = e.field
  /\ \A k \in 1 .. lc : mem'[h + 3 + k] = e.codes[k]
  /\ \A j \in 1 .. lt : mem'[h + 4 + lc + j] = e.thread[j]
  /\ \A c \in Cells \ {0, 1} : Here' <= c => mem'[c] = mem[c]

\* What append_word does when it does not raise.
LEMMA WrittenWord ==
  ASSUME DInv, ~lost, NEW e \in EntryType, AppendWord(e), raised' = "none"
  PROVE  \E h, lc, lt \in Nat : PutAt(e, h, lc, lt)
<1> DEFINE cells == WordCells(e, Latest)
           nfa   == Here + NAME_LENGTH
           end   == Here + Len(cells)
           m     == WithVariables(Filled(mem, Here, cells), end, nfa)
<1>1. /\ mem \in [Cells -> Int] /\ Here \in Int /\ Latest \in Int /\ Here >= 2 /\ MEMORY_SIZE \in Nat
  BY VariablesTyped, SystemCells
<1>2. /\ cells \in Seq(Int) /\ Len(e.codes) \in Nat /\ Len(e.thread) \in Nat
      /\ Len(cells) = 5 + Len(e.codes) + Len(e.thread)
      /\ cells[2] = (IF e.immediate THEN 1 ELSE 0) /\ cells[3] = 0 /\ cells[4] = Len(e.codes)
      /\ \A k \in 1 .. Len(e.codes) : cells[4 + k] = e.codes[k]
      /\ cells[5 + Len(e.codes)] = e.field
      /\ \A j \in 1 .. Len(e.thread) : cells[5 + Len(e.codes) + j] = e.thread[j]
  BY <1>1, WordCellsAre
<1>3. end <= MEMORY_SIZE
  BY DEF AppendWord
<1>4. /\ mem' = m /\ answer' = [NoHeader EXCEPT !.cfa = nfa + 1 + Len(e.codes)]
      /\ installed' = Append(installed, [nfa |-> nfa, length |-> Len(e.thread)])
  BY <1>3 DEF AppendWord
<1>5. PICK h \in Nat : h = Here
  BY <1>1
<1>6. PICK lc \in Nat, lt \in Nat : lc = Len(e.codes) /\ lt = Len(e.thread)
  BY <1>2
<1>7. nfa = h + 3 /\ Len(cells) = 5 + lc + lt /\ end = h + 5 + lc + lt /\ 2 <= h
  <2>1. Len(cells) = 5 + lc + lt /\ 2 <= h
    BY <1>1, <1>2, <1>5, <1>6
  <2> HIDE DEF cells
  <2> QED  BY <1>5, <2>1 DEF NAME_LENGTH
<1>8. /\ answer' = [NoHeader EXCEPT !.cfa = h + 4 + lc]
      /\ installed' = Append(installed, [nfa |-> h + 3, length |-> lt])
  <2> HIDE DEF nfa
  <2>1. nfa + 1 + Len(e.codes) = h + 4 + lc
    BY <1>6, <1>7
  <2> QED  BY <1>4, <1>6, <1>7, <2>1
<1> HIDE DEF cells
<1>9. Written(m, Here, cells, end, nfa)
  <2>1. nfa \in Int /\ end \in Int
    BY <1>7
  <2> QED  BY <1>1, <1>2, <2>1, WrittenCells
<1> HIDE DEF m
<1>10. Here' = h + 5 + lc + lt
  BY <1>4, <1>7, <1>9 DEF Written, Here
<1>11. ASSUME NEW k \in 1 .. 5 + lc + lt
       PROVE  mem'[h + k - 1] = cells[k]
  <2>1. h + k - 1 \in Cells \ {0, 1}
    BY <1>1, <1>3, <1>7 DEF Cells
  <2>2. \A c \in Cells \ {0, 1} : \A n \in 1 .. Len(cells) : c = h + n - 1 => mem'[c] = cells[n]
    BY <1>4, <1>5, <1>9 DEF Written
  <2> QED  BY <1>7, <2>1, <2>2
<1>12. mem'[h + 1] = cells[2] /\ mem'[h + 2] = cells[3] /\ mem'[h + 3] = cells[4]
  <2>1. mem'[h + 2 - 1] = cells[2] /\ mem'[h + 3 - 1] = cells[3] /\ mem'[h + 4 - 1] = cells[4]
    BY <1>11
  <2> QED  BY <2>1
<1>13. mem'[h + 4 + lc] = cells[5 + lc]
  <2>1. mem'[h + (5 + lc) - 1] = cells[5 + lc]
    BY <1>11
  <2> QED  BY <2>1
<1>14. ASSUME NEW k \in 1 .. lc
       PROVE  mem'[h + 3 + k] = e.codes[k]
  <2>1. mem'[h + (4 + k) - 1] = cells[4 + k]
    BY <1>11
  <2>2. h + (4 + k) - 1 = h + 3 + k
    OBVIOUS
  <2> QED  BY <1>2, <1>6, <2>1, <2>2
<1>15. ASSUME NEW j \in 1 .. lt
       PROVE  mem'[h + 4 + lc + j] = e.thread[j]
  <2>1. mem'[h + (5 + lc + j) - 1] = cells[5 + lc + j]
    BY <1>11
  <2>2. h + (5 + lc + j) - 1 = h + 4 + lc + j
    OBVIOUS
  <2> QED  BY <1>2, <1>6, <2>1, <2>2
<1>16. h + 5 + lc + lt <= MEMORY_SIZE
  BY <1>3, <1>7
<1>17. /\ mem'[h + 1] = (IF e.immediate THEN 1 ELSE 0) /\ mem'[h + 2] = 0
       /\ mem'[h + 3] = lc /\ mem'[h + 4 + lc] = e.field
  BY <1>2, <1>6, <1>12, <1>13
<1>18. \A c \in Cells \ {0, 1} : Here' <= c => mem'[c] = mem[c]
  <2>1. \A c \in Cells \ {0, 1} : Here + Len(cells) <= c => mem'[c] = mem[c]
    BY <1>4, <1>9, Zenon DEF Written
  <2>2. Here + Len(cells) = Here'
    BY <1>7, <1>10
  <2> QED  BY <2>1, <2>2
<1>19. PutAt(e, h, lc, lt)
  BY <1>5, <1>6, <1>7, <1>8, <1>10, <1>14, <1>15, <1>16, <1>17, <1>18 DEF PutAt
<1> QED  BY <1>19

\* append_word adds a whole word, or none and leaves DP inside memory.
LEMMA AppendWordKeeps ==
  ASSUME DInv, ~lost, NEW e \in EntryType, AppendWord(e)
  PROVE  DInv' /\ Kept
<1> DEFINE cells == WordCells(e, Latest)
           nfa   == Here + NAME_LENGTH
           end   == Here + Len(cells)
<1>1. /\ mem \in [Cells -> Int] /\ Here \in DICTIONARY_BASE .. MEMORY_SIZE /\ Here \in Int
      /\ Latest \in Int /\ Here >= 2 /\ MEMORY_SIZE \in Nat /\ DICTIONARY_BASE \in Nat
  BY VariablesTyped, SystemCells
<1>2. /\ cells \in Seq(Int) /\ Len(e.codes) \in Nat /\ Len(e.thread) \in Nat
      /\ Len(cells) = 5 + Len(e.codes) + Len(e.thread)
      /\ cells[1] = Latest /\ cells[4] = Len(e.codes)
  BY <1>1, WordCellsAre
<1>h. PICK h \in Int : h = Here
  BY <1>1
<1>c. PICK lc \in Nat : lc = Len(e.codes)
  BY <1>2
<1>t. PICK lt \in Nat : lt = Len(e.thread)
  BY <1>2
<1>s. Len(cells) = 5 + lc + lt
  BY <1>2, <1>c, <1>t
<1>a. nfa = h + 3 /\ end = h + 5 + lc + lt
  BY <1>h, <1>s DEF NAME_LENGTH
<1>b. h >= 2 /\ h \in DICTIONARY_BASE .. MEMORY_SIZE
  BY <1>1, <1>h
<1>3. UNCHANGED <<sp, walk>> /\ lost' \in BOOLEAN /\ (~lost' => Apart')
  BY Watched DEF AppendWord
<1>4. CASE end <= MEMORY_SIZE
  <2> DEFINE m == WithVariables(Filled(mem, Here, cells), end, nfa)
             w == [nfa |-> nfa, length |-> Len(e.thread)]
  <2>1. /\ mem' = m /\ answer' = [NoHeader EXCEPT !.cfa = nfa + 1 + Len(e.codes)]
        /\ raised' = "none" /\ installed' = Append(installed, w)
    BY <1>4 DEF AppendWord
  <2>2. nfa \in Int /\ end \in Int
    BY <1>1, <1>2 DEF NAME_LENGTH
  <2> HIDE DEF cells
  <2>3. Written(m, Here, cells, end, nfa)
    BY <1>1, <1>2, <2>2, WrittenCells
  <2> HIDE DEF m
  <2>4. /\ mem' \in [Cells -> Int] /\ Here' = end /\ Latest' = nfa
        /\ \A c \in Cells \ {0, 1} : c < Here => mem'[c] = mem[c]
        /\ \A c \in Cells \ {0, 1} : \A k \in 1 .. Len(cells) : c = Here + k - 1 => mem'[c] = cells[k]
    <3> HIDE DEF nfa, end
    <3> QED  BY <2>1, <2>3, Zenon DEF Written, Here, Latest
  <2>5. Here \in Cells \ {0, 1} /\ nfa \in Cells \ {0, 1}
    <3>1. h + 5 + lc + lt <= MEMORY_SIZE
      BY <1>4, <1>a
    <3>2. h \in Cells \ {0, 1} /\ h + 3 \in Cells \ {0, 1}
      BY <1>1, <1>b, <3>1 DEF Cells
    <3> QED  BY <1>a, <1>h, <3>2
  <2>6. mem'[Here] = Latest /\ mem'[nfa] = Len(e.codes)
    <3>1. 1 \in 1 .. Len(cells) /\ 4 \in 1 .. Len(cells)
      BY <1>s
    <3>2. Here = Here + 1 - 1 /\ nfa = Here + 4 - 1
      BY <1>a, <1>h
    <3> HIDE DEF nfa, end
    <3>3. mem'[Here] = cells[1]
      BY <2>4, <2>5, <3>1, <3>2
    <3>4. mem'[nfa] = cells[4]
      BY <2>4, <2>5, <3>1, <3>2
    <3> QED  BY <1>2, <3>3, <3>4
  <2>7. Kept
    <3>1. end \in Int /\ Here <= end
      BY <1>a, <1>h
    <3> HIDE DEF nfa, end
    <3> QED  BY <2>4, <3>1 DEF Kept
  <2>8. w \in Word
    BY <1>2, <2>2 DEF Word
  <2>9. installed' \in Seq(Word) /\ WordsPlaced' /\ ChainLinked'
    <3>1. w.nfa = nfa /\ w.length = Len(e.thread)
      OBVIOUS
    <3>2. nfa + Len(e.codes) + 2 + Len(e.thread) = end
      <4> HIDE DEF nfa, end
      <4>1. nfa + lc + 2 + lt = end
        BY <1>a
      <4> QED  BY <1>c, <1>t, <4>1
    <3>3. Here' <= MEMORY_SIZE /\ w.nfa + mem'[w.nfa] + 2 + w.length = Here' /\ mem'[w.nfa] \in Nat
      BY <1>2, <1>4, <2>4, <2>6, <3>1, <3>2
    <3> HIDE DEF w, end
    <3> QED  BY <2>1, <2>4, <2>6, <2>7, <2>8, <3>1, <3>3, NewWord
  <2>10. {Latest, walk}' \subseteq {0} \cup {installed'[i].nfa : i \in DOMAIN installed'}
    <3>1. PICK n \in Nat : n = Len(installed)
      BY InstalledWord DEF DInv
    <3>2. DOMAIN installed = 1 .. n
      BY <3>1, InstalledWord DEF DInv
    <3>3. /\ DOMAIN installed' = 1 .. n + 1 /\ installed'[n + 1] = w
          /\ \A i \in 1 .. n : installed'[i] = installed[i]
      BY <2>1, <3>1, <3>2, VariablesTyped
    <3>4. walk \in {0} \cup {installed[i].nfa : i \in 1 .. n}
      BY <3>2 DEF DInv, Types
    <3>5. Latest' = installed'[n + 1].nfa /\ n + 1 \in DOMAIN installed'
      BY <2>4, <3>3
    <3>6. walk' = walk /\ \A i \in 1 .. n : i \in DOMAIN installed' /\ installed'[i].nfa = installed[i].nfa
      BY <1>3, <3>3
    <3> QED  BY <3>4, <3>5, <3>6
  <2>11. Types'
    <3>1. answer'.cfa \in Nat
      <4>1. answer'.cfa = nfa + 1 + Len(e.codes)
        BY <2>1 DEF NoHeader
      <4> QED  BY <1>a, <1>b, <1>c, <4>1
    <3>2. Here' \in DICTIONARY_BASE .. MEMORY_SIZE
      <4>1. end \in DICTIONARY_BASE .. MEMORY_SIZE
        BY <1>1, <1>4, <1>a, <1>b
      <4> QED  BY <2>4, <4>1
    <3>3. sp' \in [Stacks -> Int] /\ PointersInBounds'
      BY <1>3 DEF DInv, Types, PointersInBounds
    <3> HIDE DEF nfa, end
    <3> QED  BY <1>3, <2>1, <2>4, <2>10, <3>1, <3>2, <3>3 DEF Types
  <2> QED  BY <1>3, <2>7, <2>9, <2>11, Zenon DEF DInv
<1>5. CASE ~(end <= MEMORY_SIZE)
  <2> DEFINE dp == IF MEMORY_SIZE \in nfa .. nfa + Len(e.codes) THEN nfa ELSE MEMORY_SIZE
             m  == WithVariables(Filled(mem, Here, cells), dp, Latest)
  <2>1. mem' = m /\ raised' = "IndexError" /\ UNCHANGED <<answer, installed>>
    BY <1>5 DEF AppendWord, LeftBehind
  <2>2. dp \in DICTIONARY_BASE .. MEMORY_SIZE /\ dp \in Int /\ Here <= dp
    <3>1. dp = IF MEMORY_SIZE \in h + 3 .. h + 3 + lc THEN h + 3 ELSE MEMORY_SIZE
      BY <1>a, <1>c
    <3> HIDE DEF dp
    <3> QED  BY <1>1, <1>b, <1>h, <3>1
  <2> HIDE DEF cells, dp
  <2>3. Written(m, Here, cells, dp, Latest)
    BY <1>1, <1>2, <2>2, WrittenCells
  <2> HIDE DEF m
  <2>4. /\ mem' \in [Cells -> Int] /\ Here' = dp /\ Latest' = Latest
        /\ \A c \in Cells \ {0, 1} : c < Here => mem'[c] = mem[c]
    BY <2>1, <2>3, Zenon DEF Written, Here, Latest
  <2>5. Kept
    BY <2>2, <2>4 DEF Kept
  <2>6. WordsPlaced' /\ ChainLinked'
    BY <2>1, <2>4, <2>5, KeptWords
  <2>7. Types'
    BY <1>3, <2>1, <2>2, <2>4 DEF DInv, Types, PointersInBounds
  <2>8. (installed \in Seq(Word))'
    BY <2>1 DEF DInv
  <2> QED  BY <1>3, <2>5, <2>6, <2>7, <2>8, Zenon DEF DInv
<1> QED  BY <1>4, <1>5

\* Memory m holds the cells from address a on.
Holds(m, a, cells) == \A j \in 1 .. Len(cells) : m[a + j - 1] = cells[j]

\* Cells below DP are none that the clients of the dictionary write.
LEMMA HeldCells ==
  ASSUME DInv, Kept, NEW a \in Int, NEW cells \in Seq(Int), 2 <= a, a + Len(cells) <= Here,
         Holds(mem, a, cells)
  PROVE  Holds(mem', a, cells)
<1>1. PICK n \in Nat : n = Len(cells)
  OBVIOUS
<1>2. PICK h \in Int : h = Here /\ h <= MEMORY_SIZE /\ MEMORY_SIZE \in Nat /\ a + n <= h
  BY <1>1, VariablesTyped, SystemCells
<1>3. ASSUME NEW j \in 1 .. n
      PROVE  mem'[a + j - 1] = cells[j]
  <2>1. a + j - 1 \in Cells \ {0, 1} /\ a + j - 1 < h
    BY <1>2 DEF Cells
  <2>2. mem'[a + j - 1] = mem[a + j - 1]
    BY <1>2, <2>1 DEF Kept
  <2> QED  BY <1>1, <2>2 DEF Holds
<1> QED  BY <1>1, <1>3 DEF Holds

\* append_word writes the cells of word e from h on, linked to latest, and moves
\* DP and LATEST; it raises if and only if they do not fit.
WordPut(e, h, latest, size) ==
  /\ h = Here /\ latest = Latest /\ size = 5 + Len(e.codes) + Len(e.thread)
  /\ WordCells(e, latest) \in Seq(Int) /\ Len(WordCells(e, latest)) = size
  /\ raised' = IF h + size <= MEMORY_SIZE THEN "none" ELSE "IndexError"
  /\ raised' = "none" => /\ Holds(mem', h, WordCells(e, latest))
                         /\ Here' = h + size /\ Latest' = h + 3
                         /\ answer'.cfa = h + 4 + Len(e.codes)

\* Which is what append_word does.
LEMMA PuttingWord ==
  ASSUME DInv, ~lost, NEW e \in EntryType, AppendWord(e)
  PROVE  \E h, latest, size \in Int : WordPut(e, h, latest, size)
<1> DEFINE cells == WordCells(e, Latest)
           nfa   == Here + NAME_LENGTH
           end   == Here + Len(cells)
           m     == WithVariables(Filled(mem, Here, cells), end, nfa)
<1>1. /\ mem \in [Cells -> Int] /\ Here \in Int /\ Latest \in Int /\ Here >= 2 /\ MEMORY_SIZE \in Nat
  BY VariablesTyped, SystemCells
<1>2. /\ cells \in Seq(Int) /\ Len(e.codes) \in Nat /\ Len(e.thread) \in Nat
      /\ Len(cells) = 5 + Len(e.codes) + Len(e.thread)
  BY <1>1, WordCellsAre
<1>3. PICK h \in Int, l \in Int, lc \in Nat, lt \in Nat, size \in Nat :
        /\ h = Here /\ l = Latest /\ lc = Len(e.codes) /\ lt = Len(e.thread)
        /\ size = Len(cells) /\ size = 5 + lc + lt
  <2> HIDE DEF cells
  <2>1. PICK lc \in Nat, lt \in Nat : lc = Len(e.codes) /\ lt = Len(e.thread)
    BY <1>2
  <2>2. Len(cells) = 5 + lc + lt
    BY <1>2, <2>1
  <2>3. 5 + lc + lt \in Nat
    OBVIOUS
  <2> QED  BY <1>1, <2>1, <2>2, <2>3, Zenon
<1>4. nfa = h + 3 /\ end = h + size
  <2> HIDE DEF cells
  <2> QED  BY <1>3 DEF NAME_LENGTH
<1>5. raised' = IF h + size <= MEMORY_SIZE THEN "none" ELSE "IndexError"
  <2>1. raised' = IF end <= MEMORY_SIZE THEN "none" ELSE "IndexError"
    BY DEF AppendWord
  <2> HIDE DEF end
  <2> QED  BY <1>4, <2>1
<1>6. ASSUME raised' = "none"
      PROVE  /\ Holds(mem', h, cells) /\ Here' = h + size /\ Latest' = h + 3
             /\ answer'.cfa = h + 4 + lc
  <2>1. mem' = m /\ answer' = [NoHeader EXCEPT !.cfa = nfa + 1 + Len(e.codes)]
        /\ end <= MEMORY_SIZE
    BY <1>6 DEF AppendWord
  <2> HIDE DEF cells
  <2>2. nfa \in Int /\ end \in Int
    BY <1>4
  <2>3. Written(m, Here, cells, end, nfa)
    BY <1>1, <1>2, <2>2, WrittenCells
  <2> HIDE DEF m
  <2>4. Here' = end /\ Latest' = nfa
    <3> HIDE DEF end, nfa
    <3> QED  BY <2>1, <2>3 DEF Written, Here, Latest
  <2>5. answer'.cfa = h + 4 + lc
    <3>1. answer'.cfa = nfa + 1 + Len(e.codes)
      BY <2>1 DEF NoHeader
    <3>2. h + 3 + 1 + lc = h + 4 + lc
      OBVIOUS
    <3> HIDE DEF nfa
    <3> QED  BY <1>3, <1>4, <3>1, <3>2
  <2>6. ASSUME NEW j \in 1 .. size
        PROVE  mem'[h + j - 1] = cells[j]
    <3>1. h + size <= MEMORY_SIZE /\ 2 <= h
      BY <1>1, <1>3, <1>4, <2>1
    <3>2. h + j - 1 \in Cells \ {0, 1}
      BY <1>1, <3>1 DEF Cells
    <3>3. \A c \in Cells \ {0, 1} : \A n \in 1 .. Len(cells) : c = h + n - 1 => mem'[c] = cells[n]
      BY <1>3, <2>1, <2>3 DEF Written
    <3> QED  BY <1>3, <3>2, <3>3
  <2>7. Holds(mem', h, cells)
    BY <1>3, <2>6 DEF Holds
  <2> QED  BY <1>4, <2>4, <2>5, <2>7
<1>7. WordPut(e, h, l, size)
  <2>1. size = 5 + Len(e.codes) + Len(e.thread)
    BY <1>2, <1>3
  <2>2. WordCells(e, l) = cells
    BY <1>3
  <2> HIDE DEF cells
  <2> QED  BY <1>2, <1>3, <1>5, <1>6, <2>1, <2>2 DEF WordPut
<1> QED  BY <1>7

\* append_cell writes the cell DP stands on, and raises only if memory is full.
LEMMA PuttingCell ==
  ASSUME DInv, ~lost, NEW v \in Int, AppendCell(v)
  PROVE  /\ raised' = IF Here < MEMORY_SIZE THEN "none" ELSE "IndexError"
         /\ raised' = "none" => mem'[Here] = v /\ Here' = Here + 1 /\ Latest' = Latest
<1>1. /\ mem \in [Cells -> Int] /\ Here \in Int /\ Latest \in Int /\ Here >= 2 /\ MEMORY_SIZE \in Nat
  BY VariablesTyped, SystemCells
<1>2. raised' = IF Here < MEMORY_SIZE THEN "none" ELSE "IndexError"
  BY DEF AppendCell
<1>3. ASSUME raised' = "none"
      PROVE  mem'[Here] = v /\ Here' = Here + 1 /\ Latest' = Latest
  <2> DEFINE m == WithVariables(Filled(mem, Here, <<v>>), Here + 1, Latest)
  <2>1. mem' = m /\ Here < MEMORY_SIZE
    BY <1>3 DEF AppendCell
  <2>2. <<v>> \in Seq(Int) /\ Len(<<v>>) = 1 /\ <<v>>[1] = v
    OBVIOUS
  <2>3. Written(m, Here, <<v>>, Here + 1, Latest)
    <3>1. Here + 1 \in Int
      BY <1>1
    <3> QED  BY <1>1, <2>2, <3>1, WrittenCells, Zenon
  <2> HIDE DEF m
  <2>4. Here' = Here + 1 /\ Latest' = Latest
    <3>1. mem'[DP_ADDR] = Here + 1 /\ mem'[LATEST_ADDR] = Latest
      BY <2>1, <2>3 DEF Written
    <3> QED  BY <3>1 DEF Here, Latest
  <2>5. mem'[Here] = v
    <3>1. PICK h \in Int : h = Here /\ h \in Cells \ {0, 1} /\ h = h + 1 - 1
      BY <1>1, <2>1 DEF Cells
    <3>2. \A c \in Cells \ {0, 1} : \A k \in 1 .. 1 : c = h + k - 1 => mem'[c] = <<v>>[k]
      BY <2>1, <2>2, <2>3, <3>1 DEF Written
    <3>3. mem'[h] = <<v>>[1]
      BY <3>1, <3>2
    <3> QED  BY <2>2, <3>1, <3>3
  <2> QED  BY <2>4, <2>5
<1> QED  BY <1>2, <1>3

\* A smudge cell is none of the cells that hold the words together.
LEMMA SmudgeKeeps ==
  ASSUME DInv, ~lost, NEW i \in DOMAIN installed, Smudge(i)
  PROVE  /\ DInv' /\ Here' = Here /\ Latest' = Latest
         /\ \A c \in Cells \ {0, 1} : c >= Here => mem'[c] = mem[c]
<1> DEFINE a == installed[i].nfa - NAME_LENGTH + SMUDGE
<1>1. /\ mem \in [Cells -> Int] /\ installed \in Seq(Word) /\ Here \in Int
      /\ WordsPlaced /\ Apart /\ MEMORY_SIZE \in Nat /\ DICTIONARY_BASE \in Nat /\ DICTIONARY_BASE >= 2
  BY VariablesTyped, SystemCells DEF DInv
<1>3. UNCHANGED <<sp, walk, answer, installed, lost>> /\ raised' = "none"
  BY DEF Smudge, CellWrite
<1>4. \A j \in DOMAIN installed :
        LET nfa == installed[j].nfa
        IN  /\ nfa \in Int /\ nfa - NAME_LENGTH \in Cells \ {0, 1} /\ nfa \in Cells \ {0, 1}
            /\ nfa < Here /\ mem[nfa] \in Nat /\ WordEnd(j) = nfa + mem[nfa] + 2 + installed[j].length
            /\ nfa \in DICTIONARY_BASE + NAME_LENGTH .. MEMORY_SIZE - 1 /\ installed[j].length \in Nat
            /\ \A k \in 1 .. j - 1 : WordEnd(k) <= nfa - NAME_LENGTH
  <2>1. \A j \in DOMAIN installed : installed[j].nfa \in Int /\ installed[j].length \in Nat
    BY <1>1, InstalledWord
  <2>2. \A j \in DOMAIN installed :
          /\ installed[j].nfa \in DICTIONARY_BASE + NAME_LENGTH .. MEMORY_SIZE - 1
          /\ \A k \in 1 .. j - 1 : WordEnd(k) <= installed[j].nfa - NAME_LENGTH
    BY <1>1, Zenon DEF WordsPlaced
  <2> QED  BY <2>1, <2>2, WordBelowHere DEF WordEnd
<1>5. a \in Cells \ {0, 1} /\ a < Here /\ a = installed[i].nfa - 1 /\ a \in Int
  <2>1. /\ installed[i].nfa \in DICTIONARY_BASE + NAME_LENGTH .. MEMORY_SIZE - 1
        /\ installed[i].nfa < Here /\ installed[i].nfa \in Int
    BY <1>4, Zenon
  <2>2. PICK nfa \in Int : nfa = installed[i].nfa
    BY <2>1
  <2>3. a = nfa - 1 /\ nfa \in DICTIONARY_BASE + 3 .. MEMORY_SIZE - 1 /\ nfa < Here
    BY <2>1, <2>2 DEF NAME_LENGTH, SMUDGE
  <2>4. nfa - 1 \in Cells \ {0, 1} /\ nfa - 1 < Here /\ nfa - 1 \in Int
    BY <1>1, <2>3 DEF Cells
  <2> QED  BY <2>2, <2>3, <2>4
<1>6. mem' \in [Cells -> Int] /\ \A c \in Cells : c # a => mem'[c] = mem[c]
  <2>1. PICK b \in {0, 1} : CellWrite(a, b)
    BY Zenon DEF Smudge
  <2> HIDE DEF a
  <2>2. CellAt(a) = a
    BY <1>1, <1>5 DEF CellAt, Cells
  <2>3. mem' = [mem EXCEPT ![a] = b]
    BY <2>1, <2>2 DEF CellWrite
  <2> QED  BY <1>1, <1>5, <2>3
<1>7. Here' = Here /\ Latest' = Latest
  BY <1>5, <1>6, SystemCells DEF Here, Latest
<1>8. ASSUME NEW j \in DOMAIN installed
      PROVE  a # installed[j].nfa /\ a # installed[j].nfa - NAME_LENGTH
  <2>1. DOMAIN installed = 1 .. Len(installed) /\ Len(installed) \in Nat
    BY <1>1, InstalledWord
  <2>2. CASE j = i
    BY <1>4, <1>5, <2>2 DEF NAME_LENGTH
  <2>3. CASE j \in 1 .. i - 1
    <3>1. WordEnd(j) <= installed[i].nfa - NAME_LENGTH
      BY <1>4, <2>3, Zenon
    <3>2. /\ installed[j].nfa \in Int /\ mem[installed[j].nfa] \in Nat /\ installed[j].length \in Nat
          /\ WordEnd(j) = installed[j].nfa + mem[installed[j].nfa] + 2 + installed[j].length
      BY <1>4, Zenon
    <3> QED  BY <1>4, <1>5, <3>1, <3>2 DEF NAME_LENGTH
  <2>4. CASE i \in 1 .. j - 1
    <3>1. WordEnd(i) <= installed[j].nfa - NAME_LENGTH
      BY <1>4, <2>4, Zenon
    <3>2. /\ installed[i].nfa \in Int /\ mem[installed[i].nfa] \in Nat /\ installed[i].length \in Nat
          /\ WordEnd(i) = installed[i].nfa + mem[installed[i].nfa] + 2 + installed[i].length
          /\ installed[j].nfa \in Int
      BY <1>4, Zenon
    <3> QED  BY <1>5, <3>1, <3>2 DEF NAME_LENGTH
  <2> QED  BY <2>1, <2>2, <2>3, <2>4
<1> HIDE DEF a
<1>9. WordsPlaced' /\ ChainLinked'
  <2>1. \A j \in DOMAIN installed :
          LET nfa == installed[j].nfa
          IN  mem'[nfa] = mem[nfa] /\ mem'[nfa - NAME_LENGTH] = mem[nfa - NAME_LENGTH]
    BY <1>4, <1>6, <1>8
  <2> QED  BY <1>1, <1>3, <1>7, <2>1, WordsKept
<1>10. Types'
  BY <1>3, <1>6, <1>7 DEF DInv, Types, PointersInBounds
<1>11. Apart' /\ (installed \in Seq(Word))'
  BY <1>1, <1>3, <1>7 DEF Apart, Here, Live
<1>12. \A c \in Cells \ {0, 1} : c >= Here => mem'[c] = mem[c]
  BY <1>1, <1>5, <1>6 DEF Cells
<1> QED  BY <1>7, <1>9, <1>10, <1>11, <1>12, Zenon DEF DInv

(***************************************************************************)
(* The link chain                                                          *)
(***************************************************************************)

NameFields == {0} \cup {installed[i].nfa : i \in DOMAIN installed}

\* A word's name has as many characters as its first cell says.
LEMMA NameLength ==
  ASSUME DInv, ~lost, NEW i \in DOMAIN installed
  PROVE  LET a == installed[i].nfa
         IN  /\ a \in Nat /\ mem[a] \in Nat
             /\ CountedString(mem, a) \in Seq(Int) /\ Len(CountedString(mem, a)) = mem[a]
<1>1. PICK a : a = installed[i].nfa
  OBVIOUS
<1>2. a \in Nat /\ mem[a] \in Nat
  BY <1>1, WordBelowHere, SystemCells DEF Cells
<1>3. PICK k \in Nat : k = mem[a]
  BY <1>2
<1>4. a + k + 1 < WordEnd(i) /\ WordEnd(i) <= Here
  BY <1>1, <1>3, WordBelowHere
<1>5. Here \in Int /\ Here <= MEMORY_SIZE /\ mem \in [Cells -> Int]
  BY VariablesTyped, SystemCells
<1>6. WordEnd(i) \in Int
  <2>1. installed[i].length \in Nat
    BY InstalledWord DEF DInv
  <2> QED  BY <1>1, <1>2, <2>1 DEF WordEnd
<1>7. \A j \in 1 .. k : a + j \in Cells
  BY <1>2, <1>4, <1>5, <1>6, SystemCells DEF Cells
<1>8. CountedString(mem, a) \in [1 .. k -> Int]
  BY <1>3, <1>5, <1>7 DEF CountedString
<1>9. CountedString(mem, a) \in Seq(Int) /\ Len(CountedString(mem, a)) = k
  BY <1>8
<1> QED  BY <1>1, <1>2, <1>3, <1>9

\* A link leads to another word's name field or to the end of the chain, and
\* the words' code fields are addresses (headers, _read_header).
LEMMA LinkInChain ==
  ASSUME DInv, ~lost, NEW a \in NameFields, a # 0
  PROVE  LinkOf(a) \in NameFields /\ HeaderAt(a).cfa \in Nat
<1>1. PICK i \in DOMAIN installed : a = installed[i].nfa
  BY DEF NameFields
<1>2. LinkOf(a) = IF i = 1 THEN 0 ELSE installed[i - 1].nfa
  BY <1>1, Zenon DEF DInv, ChainLinked
<1>3. i # 1 => i - 1 \in DOMAIN installed
  BY InstalledWord DEF DInv
<1>4. LinkOf(a) \in NameFields
  BY <1>2, <1>3 DEF NameFields
<1>5. a \in Nat /\ mem[a] \in Nat
  BY <1>1, NameLength
<1>6. Len(CountedString(mem, a)) \in Nat
  BY <1>1, NameLength
<1>7. HeaderAt(a).cfa = a + 1 + Len(CountedString(mem, a))
  BY DEF HeaderAt
<1> QED  BY <1>4, <1>5, <1>6, <1>7

\* headers() comes to the words from the newest to the oldest.
LEMMA ChainOrder ==
  ASSUME DInv, ~lost
  PROVE  /\ Len(installed) \in Nat /\ Len(installed) <= MEMORY_SIZE
         /\ \A n \in 0 .. MEMORY_SIZE :
              Chain[n] = IF n < Len(installed) THEN installed[Len(installed) - n].nfa ELSE 0
<1>1. PICK len \in Nat : len = Len(installed)
  BY InstalledWord DEF DInv
<1>2. DOMAIN installed = 1 .. len /\ installed \in Seq(Word) /\ MEMORY_SIZE \in Nat
  BY <1>1, InstalledWord, SystemCells DEF DInv
<1>3. WordsPlaced /\ ChainLinked
  BY DEF DInv
<1>4. \A i \in 1 .. len : installed[i].nfa # 0
  BY <1>2, WordBelowHere
<1>5. len <= MEMORY_SIZE
  <2>1. CASE len = 0
    BY <1>2, <2>1
  <2>2. CASE len # 0
    <3>1. len \in DOMAIN installed
      BY <1>2, <2>2
    <3>2. /\ installed[len].nfa \in DICTIONARY_BASE + NAME_LENGTH .. MEMORY_SIZE - 1
          /\ len <= installed[len].nfa
      BY <1>3, <3>1, Zenon DEF WordsPlaced
    <3> QED  BY <1>2, <3>2
  <2> QED  BY <2>1, <2>2
<1> DEFINE F(n) == IF n < len THEN installed[len - n].nfa ELSE 0
           Next1(nfa) == IF nfa = 0 THEN 0 ELSE LinkOf(nfa)
           f == [n \in 0 .. MEMORY_SIZE |-> F(n)]
<1>6. F(0) = Latest
  <2>1. CASE len = 0
    <3>1. installed = << >>
      BY <1>1, <1>2, <2>1, EmptySeq
    <3> QED  BY <1>3, <2>1, <3>1 DEF ChainLinked
  <2>2. CASE len # 0
    <3>1. installed # << >> /\ Last(installed) = installed[len]
      BY <1>1, <2>2 DEF Last
    <3>2. Latest = installed[len].nfa
      BY <1>3, <3>1 DEF ChainLinked
    <3> QED  BY <2>2, <3>2
  <2> QED  BY <2>1, <2>2
<1>7. ASSUME NEW n \in 1 .. MEMORY_SIZE
      PROVE  F(n) = Next1(F(n - 1))
  <2>1. CASE n - 1 < len
    <3>1. PICK i \in 1 .. len : i = len - (n - 1)
      BY <2>1
    <3>2. F(n - 1) = installed[i].nfa
      BY <2>1, <3>1
    <3>3. Next1(F(n - 1)) = LinkOf(installed[i].nfa)
      BY <1>4, <3>2
    <3>4. LinkOf(installed[i].nfa) = IF i = 1 THEN 0 ELSE installed[i - 1].nfa
      BY <1>2, <1>3, <3>1, Zenon DEF ChainLinked
    <3>5. F(n) = IF i = 1 THEN 0 ELSE installed[i - 1].nfa
      <4>1. CASE i = 1
        BY <3>1, <4>1
      <4>2. CASE i # 1
        <5>1. n < len /\ len - n = i - 1
          BY <3>1, <4>2
        <5> QED  BY <4>2, <5>1
      <4> QED  BY <4>1, <4>2
    <3> QED  BY <3>3, <3>4, <3>5
  <2>2. CASE ~(n - 1 < len)
    BY <2>2
  <2> QED  BY <2>1, <2>2
<1>8. ASSUME NEW n \in 0 .. MEMORY_SIZE
      PROVE  f[n] = IF n = 0 THEN Latest ELSE Next1(f[n - 1])
  <2>1. CASE n = 0
    BY <1>6, <2>1
  <2>2. CASE n # 0
    <3>1. n \in 1 .. MEMORY_SIZE /\ n - 1 \in 0 .. MEMORY_SIZE
      BY <1>2, <2>2
    <3>2. f[n] = F(n) /\ f[n - 1] = F(n - 1)
      BY <3>1
    <3>3. F(n) = Next1(F(n - 1))
      BY <1>7, <3>1
    <3> HIDE DEF F, f, Next1
    <3> QED  BY <2>2, <3>2, <3>3
  <2> QED  BY <2>1, <2>2
<1> DEFINE Eqn(g) == g = [n \in 0 .. MEMORY_SIZE |-> IF n = 0 THEN Latest ELSE Next1(g[n - 1])]
<1>9. Eqn(f)
  <2>1. f = [n \in 0 .. MEMORY_SIZE |-> f[n]]
    OBVIOUS
  <2> HIDE DEF f, Next1
  <2> QED  BY <1>8, <2>1
<1>10. Eqn(Chain)
  <2>1. Chain = CHOOSE g : Eqn(g)
    BY DEF Chain
  <2> HIDE DEF Eqn
  <2> QED  BY <1>9, <2>1
<1>11. \A n \in 0 .. MEMORY_SIZE : Chain[n] = IF n = 0 THEN Latest ELSE Next1(Chain[n - 1])
  <2> HIDE DEF Next1
  <2> QED  BY <1>10
<1> HIDE DEF Eqn, f
<1> DEFINE Good == {n \in Nat : n \in 0 .. MEMORY_SIZE => Chain[n] = F(n)}
<1>12. 0 \in Good
  BY <1>6, <1>11, <1>2
<1>13. ASSUME NEW n \in Good
       PROVE  n + 1 \in Good
  <2> HIDE DEF F, Next1
  <2>1. SUFFICES ASSUME n + 1 \in 0 .. MEMORY_SIZE
                 PROVE  Chain[n + 1] = F(n + 1)
    OBVIOUS
  <2>2. n \in 0 .. MEMORY_SIZE /\ n + 1 \in 1 .. MEMORY_SIZE /\ n + 1 # 0 /\ n + 1 - 1 = n
    BY <1>2, <2>1
  <2>3. Chain[n] = F(n)
    BY <2>2
  <2>4. Chain[n + 1] = Next1(Chain[n])
    BY <1>11, <2>1, <2>2
  <2>5. F(n + 1) = Next1(F(n))
    BY <1>7, <2>2
  <2> QED  BY <2>3, <2>4, <2>5
<1>14. Good = Nat
  <2>1. Good \subseteq Nat
    OBVIOUS
  <2> HIDE DEF Good
  <2> QED  BY <1>12, <1>13, <2>1, NaturalInduction
<1>15. \A n \in 0 .. MEMORY_SIZE : Chain[n] = F(n)
  <2> HIDE DEF F
  <2> QED  BY <1>2, <1>14
<1> QED  BY <1>1, <1>5, <1>15

\* nfa is the newest word with the name, or 0 and no word has it.
IsNewest(nfa, codes) ==
  \/ /\ nfa = 0
     /\ \A j \in DOMAIN installed : CountedString(mem, installed[j].nfa) # codes
  \/ \E i \in DOMAIN installed :
       /\ nfa = installed[i].nfa /\ CountedString(mem, nfa) = codes
       /\ \A j \in DOMAIN installed : j > i => CountedString(mem, installed[j].nfa) # codes

\* find() gives the newest word of a name (find, headers).
LEMMA SearchIsNewest ==
  ASSUME DInv, ~lost, NEW codes
  PROVE  IsNewest(Search(codes), codes)
<1>1. PICK len \in Nat : len = Len(installed)
  BY InstalledWord DEF DInv
<1>2. DOMAIN installed = 1 .. len /\ len <= MEMORY_SIZE /\ MEMORY_SIZE \in Nat
  BY <1>1, ChainOrder, InstalledWord, SystemCells DEF DInv
<1>3. \A n \in 0 .. MEMORY_SIZE : Chain[n] = IF n < len THEN installed[len - n].nfa ELSE 0
  BY <1>1, ChainOrder
<1>4. \A i \in 1 .. len : installed[i].nfa # 0
  BY <1>2, WordBelowHere
<1> DEFINE S == {n \in 0 .. MEMORY_SIZE : Chain[n] = 0 \/ CountedString(mem, Chain[n]) = codes}
<1>5. len \in S
  BY <1>2, <1>3
<1>6. Min(S) \in S /\ \A k \in S : Min(S) <= k
  <2>1. S \subseteq Nat
    OBVIOUS
  <2> HIDE DEF S
  <2>2. \E m \in S : \A k \in S : m <= k
    BY <1>5, <2>1, LeastNatural
  <2> QED  BY <2>2 DEF Min
<1>7. Search(codes) = Chain[Min(S)]
  BY DEF Search
<1>8. PICK m \in 0 .. MEMORY_SIZE :
        /\ Search(codes) = Chain[m] /\ (Chain[m] = 0 \/ CountedString(mem, Chain[m]) = codes)
        /\ \A k \in 0 .. MEMORY_SIZE :
             (Chain[k] = 0 \/ CountedString(mem, Chain[k]) = codes) => m <= k
  <2> HIDE DEF S
  <2>1. Min(S) \in 0 .. MEMORY_SIZE
        /\ (Chain[Min(S)] = 0 \/ CountedString(mem, Chain[Min(S)]) = codes)
    BY <1>6 DEF S
  <2>2. \A k \in 0 .. MEMORY_SIZE :
          (Chain[k] = 0 \/ CountedString(mem, Chain[k]) = codes) => Min(S) <= k
    BY <1>6 DEF S
  <2> QED  BY <1>7, <2>1, <2>2
<1>9. m <= len
  BY <1>2, <1>3, <1>8
<1>10. ASSUME NEW j \in 1 .. len, len - j < m
       PROVE  CountedString(mem, installed[j].nfa) # codes
  <2>1. len - j \in 0 .. MEMORY_SIZE /\ len - j < len /\ len - (len - j) = j
    BY <1>2
  <2>2. Chain[len - j] = installed[j].nfa
    BY <1>3, <2>1
  <2>3. ~(m <= len - j)
    BY <1>10, <2>1
  <2> QED  BY <1>8, <2>1, <2>2, <2>3
<1>11. CASE m < len
  <2>1. PICK i \in 1 .. len : i = len - m
    BY <1>11
  <2>2. Search(codes) = installed[i].nfa
    BY <1>3, <1>8, <1>11, <2>1
  <2>3. CountedString(mem, Search(codes)) = codes
    BY <1>4, <1>8, <2>2
  <2>4. \A j \in 1 .. len : j > i => CountedString(mem, installed[j].nfa) # codes
    BY <1>10, <2>1
  <2> QED  BY <1>2, <2>2, <2>3, <2>4 DEF IsNewest
<1>12. CASE m = len
  <2>1. Search(codes) = 0
    BY <1>3, <1>8, <1>12
  <2>2. \A j \in 1 .. len : CountedString(mem, installed[j].nfa) # codes
    BY <1>10, <1>12
  <2> QED  BY <1>2, <2>1, <2>2 DEF IsNewest
<1> QED  BY <1>9, <1>11, <1>12

\* Neither find() nor headers() changes the dictionary; what they return is a
\* word of it or none.
LEMMA LookupKeeps ==
  ASSUME DInv, ~lost, NEW nfa \in NameFields, UNCHANGED <<mem, sp, installed, lost>>,
         answer' = IF nfa = 0 THEN NoHeader ELSE HeaderAt(nfa), raised' = "none",
         walk' \in NameFields
  PROVE  DInv' /\ Kept
<1>1. answer'.cfa \in Nat
  BY LinkInChain DEF NoHeader
<1>2. Latest \in NameFields
  BY DEF DInv, Types, NameFields
<1>3. Types'
  BY <1>1, <1>2 DEF DInv, Types, PointersInBounds, Here, Latest, NameFields
<1>4. Kept /\ Latest' = Latest
  BY VariablesTyped DEF Kept, Here, Latest
<1>5. WordsPlaced' /\ ChainLinked'
  BY <1>4, KeptWords
<1>6. Apart' /\ (installed \in Seq(Word))'
  BY DEF DInv, Apart, Live
<1> QED  BY <1>3, <1>4, <1>5, <1>6, Zenon DEF DInv

\* What find() and the generator headers() come to is in the chain.
LEMMA FindKeeps ==
  ASSUME DInv, ~lost, NEW codes, Find(codes)
  PROVE  DInv' /\ Kept
<1>1. Search(codes) \in NameFields
  BY SearchIsNewest DEF IsNewest, NameFields
<1>2. walk \in NameFields
  BY DEF DInv, Types, NameFields
<1> QED  BY <1>1, <1>2, LookupKeeps DEF Find

\* So does a step of headers().
LEMMA NextHeaderKeeps ==
  ASSUME DInv, ~lost, NextHeader
  PROVE  DInv' /\ Kept
<1>1. Latest \in NameFields /\ walk \in NameFields
  BY DEF DInv, Types, NameFields
<1>2. PICK nfa : nfa = IF walk = 0 THEN Latest ELSE LinkOf(walk)
  OBVIOUS
<1>3. nfa \in NameFields
  BY <1>1, <1>2, LinkInChain
<1> QED  BY <1>2, <1>3, LookupKeeps DEF NextHeader

(***************************************************************************)
(* The theorems                                                            *)
(***************************************************************************)

\* The adapter's constructor leaves an empty dictionary.
LEMMA InitDInv == Init => DInv
<1> SUFFICES ASSUME Init PROVE DInv
  OBVIOUS
<1> DEFINE zeros == [c \in Cells |-> 0]
<1>1. /\ mem = WithVariables(zeros, DICTIONARY_BASE, 0) /\ sp = [s \in Stacks |-> Base(s)]
      /\ walk = 0 /\ answer = NoHeader /\ raised = "none" /\ installed = << >> /\ lost = FALSE
  BY DEF Init
<1>2. mem \in [Cells -> Int] /\ Here = DICTIONARY_BASE /\ Latest = 0
  <2>1. zeros \in [Cells -> Int]
    OBVIOUS
  <2> HIDE DEF zeros
  <2>2. DP_ADDR \in Cells /\ LATEST_ADDR \in Cells /\ DP_ADDR # LATEST_ADDR /\ DICTIONARY_BASE \in Int
    BY SystemCells
  <2> QED  BY <1>1, <2>1, <2>2 DEF WithVariables, Here, Latest
<1>3. sp \in [Stacks -> Int] /\ PointersInBounds
  BY <1>1, StackRegion DEF PointersInBounds
<1>4. Types
  <2>1. Here \in DICTIONARY_BASE .. MEMORY_SIZE
    BY <1>2, SystemCells
  <2>2. answer.cfa \in Nat
    BY <1>1 DEF NoHeader
  <2> QED  BY <1>1, <1>2, <1>3, <2>1, <2>2 DEF Types
<1>5. Apart
  <2> SUFFICES ASSUME NEW s \in Stacks, NEW c \in Live(s)
               PROVE  FALSE
    BY DEF Apart
  <2> QED  BY <1>1, StackRegion, SystemCells DEF Live, Cells
<1>6. installed \in Seq(Word) /\ WordsPlaced /\ ChainLinked
  BY <1>1, <1>2 DEF WordsPlaced, ChainLinked
<1> QED  BY <1>4, <1>5, <1>6 DEF DInv

\* Every call keeps the invariant.
LEMMA NextDInv == DInv /\ [Next]_vars => DInv'
<1> SUFFICES ASSUME DInv, [Next]_vars PROVE DInv'
  OBVIOUS
<1>1. CASE UNCHANGED vars
  BY <1>1 DEF vars, dictVars, DInv, Types, PointersInBounds, Apart, Live, WordsPlaced,
              WordEnd, ChainLinked, Here, Latest, LinkOf
<1>2. CASE Next
  <2>1. ~lost
    BY <1>2, Zenon DEF Next
  <2>2. ASSUME NEW v \in Scalars, AppendCell(v) PROVE DInv'
    BY <2>1, <2>2, AppendCellKeeps, DictionaryAssumption
  <2>3. ASSUME NEW e \in Entries, AppendWord(e) PROVE DInv'
    <3>1. e \in EntryType
      BY DictionaryAssumption DEF EntryType
    <3> QED  BY <2>1, <2>3, <3>1, AppendWordKeeps
  <2>4. ASSUME NEW c \in SearchNames, Find(c) PROVE DInv'
    BY <2>1, <2>4, FindKeeps
  <2>5. ASSUME NextHeader PROVE DInv'
    BY <2>1, <2>5, NextHeaderKeeps
  <2>6. ASSUME NEW s \in Stacks, Pop(s) PROVE DInv'
    BY <2>1, <2>6, PopKeeps
  <2>7. ASSUME NEW s \in Stacks, NEW v \in Scalars, Push(s, v) PROVE DInv'
    BY <2>1, <2>7, PushKeeps, DictionaryAssumption
  <2>8. ASSUME NEW i \in DOMAIN installed, Smudge(i) PROVE DInv'
    BY <2>1, <2>8, SmudgeKeeps
  <2> QED  BY <1>2, <2>2, <2>3, <2>4, <2>5, <2>6, <2>7, <2>8, Zenon DEF Next
<1> QED  BY <1>1, <1>2

\* The invariant holds in every state a run of the dictionary and its clients
\* comes to.
THEOREM DictionaryInvariant == Spec => []DInv
<1> QED  BY InitDInv, NextDInv, PTL DEF Spec

\* What a call of the dictionary or of the stacks raises.
LEMMA CallRaises ==
  raised \in {"none", "IndexError"} /\ [Next]_vars => (raised \in {"none", "IndexError"})'
<1> SUFFICES ASSUME raised \in {"none", "IndexError"}, [Next]_vars
             PROVE  raised' \in {"none", "IndexError"}
  OBVIOUS
<1>1. CASE UNCHANGED vars
  BY <1>1 DEF vars, dictVars
<1>2. CASE Next
  <2>1. ASSUME NEW v, AppendCell(v) PROVE raised' \in {"none", "IndexError"}
    BY <2>1 DEF AppendCell
  <2>2. ASSUME NEW e, AppendWord(e) PROVE raised' \in {"none", "IndexError"}
    BY <2>2 DEF AppendWord
  <2>3. ASSUME NEW c, Find(c) PROVE raised' = "none"
    BY <2>3 DEF Find
  <2>4. ASSUME NextHeader PROVE raised' = "none"
    BY <2>4 DEF NextHeader
  <2>5. ASSUME NEW s, NEW v, Pop(s) \/ Push(s, v) PROVE raised' = "none"
    BY <2>5 DEF Pop, Push
  <2>6. ASSUME NEW i, Smudge(i) PROVE raised' = "none"
    BY <2>6 DEF Smudge
  <2> QED  BY <1>2, <2>1, <2>2, <2>3, <2>4, <2>5, <2>6, Zenon DEF Next
<1> QED  BY <1>1, <1>2

\* DP never leaves the memory it allots from, LATEST and the cursor of
\* headers() are name fields of words, and find() and headers() return
\* addresses (adapters/dictionary.py 39-83).
THEOREM DictionaryTypeOK == Spec => []TypeOK
<1>1. Init => raised \in {"none", "IndexError"}
  BY DEF Init
<1>2. Spec => [](raised \in {"none", "IndexError"})
  BY <1>1, CallRaises, PTL DEF Spec
<1>3. DInv /\ raised \in {"none", "IndexError"} => TypeOK
  BY DEF DInv, Types, TypeOK
<1> QED  BY <1>2, <1>3, DictionaryInvariant, PTL

\* The link chain passes every completed word, newest first, and every word
\* ends below DP: a failed append_word leaves nothing in the chain
\* (append_word, headers).
THEOREM DictionaryChain == Spec => []ChainIsWhole
<1> QED  BY InvariantChain, DictionaryInvariant, PTL

\* For as long as no value has been lost, find() gives the newest of the words
\* with a name, smudged or not, and nothing when none has it (find).
THEOREM DictionaryFindsNewest ==
  Spec => [](~lost => \A codes \in Seq(Int) : IsNewest(Search(codes), codes))
<1>1. DInv => (~lost => \A codes \in Seq(Int) : IsNewest(Search(codes), codes))
  BY SearchIsNewest
<1> QED  BY <1>1, DictionaryInvariant, PTL

=============================================================================
