---------------------------- MODULE WordListProofs ----------------------------
(***************************************************************************)
(* Dictionary implements WordList, for every memory map, every entry and   *)
(* every client: what is a list of words to the services is spread over    *)
(* cells that two stacks, the system variables and the marks of smudged    *)
(* words share.                                                            *)
(***************************************************************************)
EXTENDS DictionaryProofs

(***************************************************************************)
(* The invariant                                                           *)
(***************************************************************************)

\* The two flag cells of a word hold what append_word and Smudge write.
FlagsSet ==
  \A i \in DOMAIN installed :
    {mem[installed[i].nfa - 2], mem[installed[i].nfa - 1]} \subseteq {0, 1}

LInv == DInv /\ (~lost => FlagsSet)

(***************************************************************************)
(* Words in memory                                                         *)
(***************************************************************************)

\* Where a word lies: its name field a, k characters, l thread cells.
LiesAt(i, a, k, l) ==
  /\ installed[i].nfa = a /\ mem[a] = k /\ installed[i].length = l
  /\ 5 <= a /\ a + k + l + 2 <= Here /\ WordEnd(i) = a + k + l + 2

\* Every installed word lies below DP.
LEMMA WordLies ==
  ASSUME DInv, ~lost, NEW i \in DOMAIN installed
  PROVE  \E a, k, l \in Nat : LiesAt(i, a, k, l)
<1>1. PICK l \in Nat : l = installed[i].length
  BY InstalledWord DEF DInv
<1>2. PICK a \in Nat : a = installed[i].nfa /\ a \in DICTIONARY_BASE + 3 .. MEMORY_SIZE - 1
  <2>1. installed[i].nfa \in DICTIONARY_BASE + 3 .. MEMORY_SIZE - 1
    BY Zenon DEF DInv, WordsPlaced, NAME_LENGTH
  <2> QED  BY <2>1, SystemCells
<1>3. PICK k \in Nat : k = mem[a]
  BY <1>2, WordBelowHere
<1>4. WordEnd(i) = a + k + l + 2
  BY <1>1, <1>2, <1>3 DEF WordEnd
<1>5. WordEnd(i) <= Here /\ 5 <= a
  BY <1>2, WordBelowHere, SystemCells
<1> QED  BY <1>1, <1>2, <1>3, <1>4, <1>5 DEF LiesAt

\* Words lie one behind the other, headers included.
LEMMA WordsInOrder ==
  ASSUME DInv, ~lost, NEW i \in DOMAIN installed, NEW j \in DOMAIN installed, i < j
  PROVE  WordEnd(i) <= installed[j].nfa - 3
<1>1. i \in 1 .. j - 1
  BY InstalledWord DEF DInv
<1> QED  BY <1>1, Zenon DEF DInv, WordsPlaced, NAME_LENGTH

\* The cells of a word make it what it is.
LEMMA SameCells ==
  ASSUME NEW a \in Nat, NEW k \in Nat, NEW l \in Nat, NEW w, w.nfa = a, w.length = l,
         NEW m, NEW n, m[a] = k,
         \A c \in a - 2 .. a + k + l + 1 : n[c] = m[c]
  PROVE  WordAt(n, w) = WordAt(m, w)
<1>1. n[a - 2] = m[a - 2] /\ n[a - 1] = m[a - 1] /\ n[a] = k /\ n[a + k + 1] = m[a + k + 1]
  OBVIOUS
<1>2. \A j \in 1 .. k : n[a + j] = m[a + j]
  OBVIOUS
<1>3. \A j \in 1 .. l : n[a + k + 1 + j] = m[a + k + 1 + j]
  OBVIOUS
<1>4. CountedString(n, a) = CountedString(m, a)
  BY <1>1, <1>2 DEF CountedString
<1>5. [j \in 1 .. l |-> n[a + k + 1 + j]] = [j \in 1 .. l |-> m[a + k + 1 + j]]
  BY <1>3
<1>6. w.nfa + m[w.nfa] + 1 = a + k + 1 /\ w.nfa + n[w.nfa] + 1 = a + k + 1
  BY <1>1
<1> QED  BY <1>1, <1>4, <1>5, <1>6 DEF WordAt

\* The list of words, as the proofs below take it apart.
LEMMA ListedAre ==
  ASSUME DInv, ~lost
  PROVE  /\ Len(installed) \in Nat /\ DOMAIN installed = 1 .. Len(installed)
         /\ DOMAIN ListedWords = 1 .. Len(installed) /\ Len(ListedWords) = Len(installed)
         /\ ListedWords \in Seq({ListedWords[i] : i \in DOMAIN installed})
         /\ \A i \in DOMAIN installed : ListedWords[i] = WordAt(mem, installed[i])
<1>1. Len(installed) \in Nat /\ DOMAIN installed = 1 .. Len(installed)
  BY InstalledWord DEF DInv
<1>2. ListedWords = [i \in DOMAIN installed |-> WordAt(mem, installed[i])]
  BY DEF ListedWords
<1> DEFINE S == {ListedWords[i] : i \in DOMAIN installed}
<1>3. ListedWords \in [1 .. Len(installed) -> S]
  BY <1>1, <1>2
<1> HIDE DEF S
<1>4. ListedWords \in Seq(S) /\ Len(ListedWords) = Len(installed)
  BY <1>1, <1>3
<1> QED  BY <1>1, <1>2, <1>4 DEF S

\* No call changes a word's cells unless it marks the word.
LEMMA KeptList ==
  ASSUME DInv, ~lost, ~lost', Kept, installed' = installed
  PROVE  ListedWords' = ListedWords
<1>1. ASSUME NEW i \in DOMAIN installed
      PROVE  WordAt(mem', installed[i]) = WordAt(mem, installed[i])
  <2>1. PICK a, k, l \in Nat : LiesAt(i, a, k, l)
    BY WordLies
  <2>2. /\ installed[i].nfa = a /\ mem[a] = k /\ installed[i].length = l
        /\ 5 <= a /\ a + k + l + 2 <= Here
    BY <2>1 DEF LiesAt
  <2>3. PICK h \in Nat : h = Here /\ h <= MEMORY_SIZE
    BY VariablesTyped, SystemCells
  <2>4. \A c \in a - 2 .. a + k + l + 1 : c \in Cells \ {0, 1} /\ c < h
    BY <2>2, <2>3, SystemCells DEF Cells
  <2>5. \A c \in a - 2 .. a + k + l + 1 : mem'[c] = mem[c]
    BY <2>3, <2>4 DEF Kept
  <2> QED  BY <2>2, <2>5, SameCells
<1> QED  BY <1>1 DEF ListedWords

\* append_word adds the entry it is given to the list, flags and all.
LEMMA GrownList ==
  ASSUME DInv, ~lost, ~lost', Kept, NEW e \in EntryType,
         NEW h \in Nat, NEW lc \in Nat, NEW lt \in Nat, PutAt(e, h, lc, lt)
  PROVE  ListedWords' = Append(ListedWords, [codes |-> e.codes, immediate |-> e.immediate,
                                             field |-> e.field, thread |-> e.thread,
                                             smudge |-> FALSE])
<1> DEFINE w   == [nfa |-> h + 3, length |-> lt]
           new == [codes |-> e.codes, immediate |-> e.immediate, field |-> e.field,
                   thread |-> e.thread, smudge |-> FALSE]
<1>1. PICK n \in Nat : n = Len(installed) /\ DOMAIN installed = 1 .. n
  BY InstalledWord DEF DInv
<1>2. w.nfa = h + 3 /\ w.length = lt /\ installed' = Append(installed, w)
  BY DEF PutAt
<1> HIDE DEF w
<1>3. /\ DOMAIN installed' = 1 .. n + 1 /\ installed'[n + 1] = w
      /\ \A i \in 1 .. n : installed'[i] = installed[i]
  BY <1>1, <1>2, VariablesTyped
<1>4. WordAt(mem', w) = new
  <2>1. /\ mem'[h + 3 - 2] = (IF e.immediate THEN 1 ELSE 0) /\ mem'[h + 3 - 1] = 0
        /\ mem'[h + 3] = lc /\ mem'[h + 4 + lc] = e.field
    BY DEF PutAt
  <2>2. e.codes \in Seq(Int) /\ e.thread \in Seq(Int) /\ e.immediate \in BOOLEAN
    BY DEF EntryType
  <2>3. CountedString(mem', h + 3) = e.codes
    <3>1. e.codes = [j \in 1 .. lc |-> e.codes[j]]
      <4>1. Len(e.codes) = lc
        BY DEF PutAt
      <4>2. e.codes \in [1 .. lc -> Int]
        BY <2>2, <4>1, LenProperties
      <4> QED  BY <4>2
    <3>2. CountedString(mem', h + 3) = [j \in 1 .. lc |-> mem'[h + 3 + j]]
      BY <2>1 DEF CountedString
    <3>3. \A j \in 1 .. lc : mem'[h + 3 + j] = e.codes[j]
      BY DEF PutAt
    <3> QED  BY <3>1, <3>2, <3>3
  <2>4. [j \in 1 .. lt |-> mem'[h + 4 + lc + j]] = e.thread
    <3>1. e.thread = [j \in 1 .. lt |-> e.thread[j]]
      <4>1. Len(e.thread) = lt
        BY DEF PutAt
      <4>2. e.thread \in [1 .. lt -> Int]
        BY <2>2, <4>1, LenProperties
      <4> QED  BY <4>2
    <3>2. \A j \in 1 .. lt : mem'[h + 4 + lc + j] = e.thread[j]
      BY DEF PutAt
    <3> QED  BY <3>1, <3>2
  <2>5. w.nfa + mem'[w.nfa] + 1 = h + 4 + lc
    BY <1>2, <2>1
  <2>6. (mem'[w.nfa - 2] = 1) = e.immediate /\ (mem'[w.nfa - 1] = 1) = FALSE
    BY <1>2, <2>1, <2>2
  <2> QED  BY <1>2, <2>1, <2>3, <2>4, <2>5, <2>6 DEF WordAt
<1>5. ASSUME NEW i \in 1 .. n
      PROVE  WordAt(mem', installed[i]) = WordAt(mem, installed[i])
  <2>1. PICK a, k, l \in Nat : LiesAt(i, a, k, l)
    BY <1>1, WordLies
  <2>2. /\ installed[i].nfa = a /\ mem[a] = k /\ installed[i].length = l
        /\ 5 <= a /\ a + k + l + 2 <= h /\ h = Here /\ h <= MEMORY_SIZE
    BY <2>1, VariablesTyped, SystemCells DEF LiesAt, PutAt
  <2>3. \A c \in a - 2 .. a + k + l + 1 : c \in Cells \ {0, 1} /\ c < h
    BY <2>2, SystemCells DEF Cells
  <2>4. \A c \in a - 2 .. a + k + l + 1 : mem'[c] = mem[c]
    BY <2>2, <2>3 DEF Kept
  <2> QED  BY <2>2, <2>4, SameCells
<1> HIDE DEF new
<1>6. ListedWords' = [i \in 1 .. n + 1 |-> WordAt(mem', installed'[i])]
  BY <1>3 DEF ListedWords
<1>7. ListedWords = [i \in 1 .. n |-> WordAt(mem, installed[i])]
  BY <1>1 DEF ListedWords
<1>8. \A i \in 1 .. n + 1 :
        ListedWords'[i] = IF i = n + 1 THEN new ELSE ListedWords[i]
  <2>1. ListedWords'[n + 1] = new
    BY <1>3, <1>4, <1>6
  <2>2. ASSUME NEW i \in 1 .. n PROVE ListedWords'[i] = ListedWords[i]
    <3>1. i \in 1 .. n + 1 /\ installed'[i] = installed[i]
      BY <1>3
    <3> QED  BY <1>5, <1>6, <1>7, <3>1
  <2> QED  BY <2>1, <2>2
<1> DEFINE S == {new} \cup {ListedWords[i] : i \in 1 .. n}
<1>9. /\ \A i \in 1 .. n : ListedWords[i] \in S
      /\ \A i \in 1 .. n + 1 : ListedWords'[i] \in S
      /\ new \in S
  BY <1>8
<1> HIDE DEF S
<1>10. /\ ListedWords \in Seq(S) /\ Len(ListedWords) = n
       /\ ListedWords' \in Seq(S) /\ Len(ListedWords') = n + 1
  <2>1. ListedWords \in [1 .. n -> S]
    BY <1>7, <1>9
  <2>2. ListedWords' \in [1 .. n + 1 -> S]
    BY <1>6, <1>9
  <2> QED  BY <2>1, <2>2
<1>11. /\ Append(ListedWords, new) \in Seq(S) /\ Len(Append(ListedWords, new)) = n + 1
       /\ \A i \in 1 .. n : Append(ListedWords, new)[i] = ListedWords[i]
       /\ Append(ListedWords, new)[n + 1] = new
  BY <1>9, <1>10, AppendProperties
<1>12. \A i \in 1 .. n + 1 : Append(ListedWords, new)[i] = ListedWords'[i]
  BY <1>8, <1>11
<1>13. Append(ListedWords, new) = ListedWords'
  BY <1>10, <1>11, <1>12, SeqEqual
<1> QED  BY <1>13 DEF new

\* Marking a word changes that word's flag and nothing else of the list.
LEMMA MarkedList ==
  ASSUME DInv, ~lost, ~lost', NEW i \in DOMAIN installed, NEW b \in {0, 1},
         installed' = installed,
         \A c \in Cells : mem'[c] = IF c = installed[i].nfa - 1 THEN b ELSE mem[c]
  PROVE  ListedWords' = [ListedWords EXCEPT ![i].smudge = (b = 1)]
<1>1. ASSUME NEW j \in DOMAIN installed
      PROVE  WordAt(mem', installed[j]) =
               IF j = i THEN [WordAt(mem, installed[j]) EXCEPT !.smudge = (b = 1)]
               ELSE WordAt(mem, installed[j])
  <2>1. PICK a, k, l \in Nat : LiesAt(j, a, k, l)
    BY WordLies
  <2>2. PICK x, y, z \in Nat : LiesAt(i, x, y, z)
    BY WordLies
  <2>3. PICK h \in Nat : h = Here /\ h <= MEMORY_SIZE
    BY VariablesTyped, SystemCells
  <2>4. /\ installed[j].nfa = a /\ mem[a] = k /\ installed[j].length = l
        /\ 5 <= a /\ a + k + l + 2 <= h /\ WordEnd(j) = a + k + l + 2
        /\ installed[i].nfa = x /\ WordEnd(i) = x + y + z + 2
    BY <2>1, <2>2, <2>3 DEF LiesAt
  <2>5. \A c \in a - 2 .. a + k + l + 1 : c \in Cells
    BY <2>3, <2>4, SystemCells DEF Cells
  <2>6. CASE j # i
    <3>1. x - 1 < a - 2 \/ a + k + l + 1 < x - 1
      <4>1. DOMAIN installed \subseteq Int
        BY InstalledWord DEF DInv
      <4>2. CASE i < j
        <5>1. x + y + z + 2 <= a - 3
          BY <2>4, <4>2, WordsInOrder
        <5> QED  BY <5>1
      <4>3. CASE j < i
        <5>1. a + k + l + 2 <= x - 3
          BY <2>4, <4>3, WordsInOrder
        <5> QED  BY <5>1
      <4> QED  BY <2>6, <4>1, <4>2, <4>3
    <3>2. \A c \in a - 2 .. a + k + l + 1 : mem'[c] = mem[c]
      BY <2>4, <2>5, <3>1
    <3> QED  BY <2>4, <2>6, <3>2, SameCells
  <2>7. CASE j = i
    <3>1. x = a
      BY <2>4, <2>7
    <3>2. mem'[a - 1] = b /\ \A c \in a - 2 .. a + k + l + 1 : c # a - 1 => mem'[c] = mem[c]
      BY <2>4, <2>5, <3>1
    <3>3. /\ mem'[a] = k /\ mem'[a - 2] = mem[a - 2] /\ mem'[a + k + 1] = mem[a + k + 1]
          /\ \A c \in 1 .. k : mem'[a + c] = mem[a + c]
          /\ \A c \in 1 .. l : mem'[a + k + 1 + c] = mem[a + k + 1 + c]
      BY <2>4, <3>2
    <3>4. CountedString(mem', a) = CountedString(mem, a)
      BY <2>4, <3>3 DEF CountedString
    <3>5. [c \in 1 .. l |-> mem'[a + k + 1 + c]] = [c \in 1 .. l |-> mem[a + k + 1 + c]]
      BY <3>3
    <3> DEFINE str == CountedString(mem, a)
               thr == [c \in 1 .. l |-> mem[a + k + 1 + c]]
    <3>6. WordAt(mem', installed[j]) =
            [codes |-> str, immediate |-> mem[a - 2] = 1, smudge |-> b = 1,
             field |-> mem[a + k + 1], thread |-> thr]
      BY <2>4, <3>2, <3>3, <3>4, <3>5 DEF WordAt
    <3>7. WordAt(mem, installed[j]) =
            [codes |-> str, immediate |-> mem[a - 2] = 1, smudge |-> mem[a - 1] = 1,
             field |-> mem[a + k + 1], thread |-> thr]
      BY <2>4 DEF WordAt
    <3> HIDE DEF str, thr
    <3> QED  BY <2>7, <3>6, <3>7
  <2> QED  BY <2>6, <2>7
<1>2. /\ ListedWords = [j \in DOMAIN installed |-> WordAt(mem, installed[j])]
      /\ ListedWords' = [j \in DOMAIN installed |-> WordAt(mem', installed[j])]
  BY DEF ListedWords
<1> QED  BY <1>1, <1>2

(***************************************************************************)
(* Indices and answers                                                     *)
(***************************************************************************)

\* A name field belongs to one word.
LEMMA NameFieldsOrdered ==
  ASSUME DInv, ~lost, NEW i \in DOMAIN installed, NEW j \in DOMAIN installed
  PROVE  /\ i \in Nat \ {0} /\ installed[i].nfa \in Nat /\ installed[i].nfa # 0
         /\ WordEnd(i) \in Nat /\ installed[i].nfa < WordEnd(i)
         /\ i < j => WordEnd(i) <= installed[j].nfa - 3
         /\ i < j => installed[i].nfa < installed[j].nfa
<1>1. PICK a, k, l \in Nat : LiesAt(i, a, k, l)
  BY WordLies
<1>2. PICK x, y, z \in Nat : LiesAt(j, x, y, z)
  BY WordLies
<1>3. /\ installed[i].nfa = a /\ WordEnd(i) = a + k + l + 2 /\ 5 <= a
      /\ installed[j].nfa = x
  BY <1>1, <1>2 DEF LiesAt
<1>4. i \in Nat \ {0}
  BY InstalledWord DEF DInv
<1>5. i < j => WordEnd(i) <= installed[j].nfa - 3
  BY WordsInOrder
<1>6. i < j => a + k + l + 2 <= x - 3
  BY <1>3, <1>5
<1> QED  BY <1>3, <1>4, <1>5, <1>6

\* A word is found by its name field, and no word by 0.
LEMMA IndexOfWord ==
  ASSUME DInv, ~lost
  PROVE  /\ IndexOf(0) = 0
         /\ \A i \in DOMAIN installed : IndexOf(installed[i].nfa) = i
<1>1. IndexOf(0) = 0
  <2>1. {0} \cup {i \in DOMAIN installed : installed[i].nfa = 0} = {0}
    BY NameFieldsOrdered
  <2> QED  BY <2>1, GreatestIs DEF IndexOf
<1>2. ASSUME NEW i \in DOMAIN installed
      PROVE  IndexOf(installed[i].nfa) = i
  <2> DEFINE S == {0} \cup {j \in DOMAIN installed : installed[j].nfa = installed[i].nfa}
  <2>1. \A j \in DOMAIN installed : j \in Nat \ {0} /\ (installed[j].nfa = installed[i].nfa => j = i)
    <3> SUFFICES ASSUME NEW j \in DOMAIN installed
                 PROVE  j \in Nat \ {0} /\ (installed[j].nfa = installed[i].nfa => j = i)
      OBVIOUS
    <3>1. i \in Nat \ {0} /\ j \in Nat \ {0} /\ installed[i].nfa \in Nat /\ installed[j].nfa \in Nat
      BY NameFieldsOrdered
    <3>2. (i < j => installed[i].nfa < installed[j].nfa) /\ (j < i => installed[j].nfa < installed[i].nfa)
      BY NameFieldsOrdered
    <3> QED  BY <3>1, <3>2
  <2>2. S \subseteq Int /\ i \in S /\ \A k \in S : k <= i
    BY <2>1
  <2> HIDE DEF S
  <2>3. Max(S) = i
    BY <2>2, GreatestIs
  <2> QED  BY <2>3 DEF S, IndexOf
<1> QED  BY <1>1, <1>2

\* An address inside a word's name or on its code field tells which word it is.
LEMMA IndexBelow ==
  ASSUME DInv, ~lost, NEW i \in DOMAIN installed, NEW c \in Nat,
         installed[i].nfa < c, c <= WordEnd(i)
  PROVE  Max({0} \cup {j \in DOMAIN installed : installed[j].nfa < c}) = i
<1> DEFINE S == {0} \cup {j \in DOMAIN installed : installed[j].nfa < c}
<1>1. ASSUME NEW j \in DOMAIN installed, installed[j].nfa < c
      PROVE  j \in Nat /\ j <= i
  <2>1. /\ i \in Nat /\ j \in Nat /\ WordEnd(i) \in Nat /\ installed[j].nfa \in Nat
        /\ (i < j => WordEnd(i) <= installed[j].nfa - 3)
    BY NameFieldsOrdered
  <2> QED  BY <1>1, <2>1
<1>2. S \subseteq Int /\ i \in S /\ \A k \in S : k <= i
  <2>1. i \in Nat \ {0}
    BY NameFieldsOrdered
  <2> QED  BY <1>1, <2>1
<1> HIDE DEF S
<1>3. Max(S) = i
  BY <1>2, GreatestIs
<1> QED  BY <1>3 DEF S

\* No word is the answer.
LEMMA NothingAnswered ==
  ASSUME DInv, ~lost, installed' = installed, answer' = NoHeader
  PROVE  AnsweredWord' = List!Nothing
<1> DEFINE Below(c) == Max({0} \cup {j \in DOMAIN installed : installed[j].nfa < c})
<1>1. AnsweredWord' = [index |-> Below(answer'.cfa), codes |-> answer'.codes,
                       immediate |-> answer'.immediate, smudge |-> answer'.smudge,
                       before |-> IndexOf(answer'.link)]
  BY DEF AnsweredWord, IndexOf
<1>2. /\ answer'.cfa = 0 /\ answer'.link = 0 /\ answer'.codes = << >>
      /\ answer'.immediate = FALSE /\ answer'.smudge = FALSE
  BY DEF NoHeader
<1>3. Below(0) = 0
  <2>1. \A j \in DOMAIN installed : ~(installed[j].nfa < 0)
    BY NameFieldsOrdered
  <2>2. {0} \cup {j \in DOMAIN installed : installed[j].nfa < 0} = {0}
    BY <2>1
  <2> QED  BY <2>2, GreatestIs
<1> HIDE DEF Below
<1>4. Below(answer'.cfa) = 0 /\ IndexOf(answer'.link) = 0
  BY <1>2, <1>3, IndexOfWord
<1> QED  BY <1>1, <1>2, <1>4 DEF List!Nothing

\* What find() and headers() return is the word of the list that the chain
\* leads to (_read_header).
LEMMA HeaderAnswers ==
  ASSUME LInv, ~lost, mem' = mem, installed' = installed, NEW nfa \in NameFields,
         answer' = IF nfa = 0 THEN NoHeader ELSE HeaderAt(nfa)
  PROVE  AnsweredWord' = List!Answer(IndexOf(nfa))
<1> USE DEF LInv
<1> DEFINE Below(c) == Max({0} \cup {j \in DOMAIN installed : installed[j].nfa < c})
<1>1. AnsweredWord' = [index |-> Below(answer'.cfa), codes |-> answer'.codes,
                       immediate |-> answer'.immediate, smudge |-> answer'.smudge,
                       before |-> IndexOf(answer'.link)]
  BY DEF AnsweredWord, IndexOf
<1>2. CASE nfa = 0
  BY <1>2, NothingAnswered, IndexOfWord DEF List!Answer
<1>3. CASE nfa # 0
  <2>1. PICK i \in DOMAIN installed : nfa = installed[i].nfa
    BY <1>3 DEF NameFields
  <2>2. PICK a, k, l \in Nat : LiesAt(i, a, k, l)
    BY WordLies
  <2>3. nfa = a /\ mem[a] = k /\ WordEnd(i) = a + k + l + 2
    BY <2>1, <2>2 DEF LiesAt
  <2>4. Len(CountedString(mem, a)) = k
    BY <2>1, <2>3, NameLength
  <2>5. mem[a - 2] \in {0, 1} /\ mem[a - 1] \in {0, 1}
    BY <2>1, <2>3 DEF FlagsSet
  <2>6. answer' = [codes |-> CountedString(mem, a), link |-> LinkOf(a),
                   immediate |-> mem[a - 3 + 1] # 0, smudge |-> mem[a - 3 + 2] # 0,
                   cfa |-> a + 1 + k]
    BY <1>3, <2>3, <2>4 DEF HeaderAt, NAME_LENGTH, LINK, IMMEDIATE, SMUDGE, LinkOf
  <2>7. a - 3 + 1 = a - 2 /\ a - 3 + 2 = a - 1
    OBVIOUS
  <2>8. (mem[a - 2] # 0) = (mem[a - 2] = 1) /\ (mem[a - 1] # 0) = (mem[a - 1] = 1)
    BY <2>5
  <2>9. Below(a + 1 + k) = i
    <3>1. a + 1 + k \in Nat /\ a < a + 1 + k /\ a + 1 + k <= a + k + l + 2
      OBVIOUS
    <3> QED  BY <2>1, <2>3, <3>1, IndexBelow
  <2>10. IndexOf(LinkOf(a)) = i - 1
    <3>1. LinkOf(a) = IF i = 1 THEN 0 ELSE installed[i - 1].nfa
      BY <2>1, <2>3, Zenon DEF DInv, ChainLinked
    <3>2. i # 1 => i - 1 \in DOMAIN installed
      BY InstalledWord DEF DInv
    <3>3. i \in Int
      BY NameFieldsOrdered
    <3> QED  BY <3>1, <3>2, <3>3, IndexOfWord
  <2> HIDE DEF Below
  <2>11. AnsweredWord' = [index |-> i, codes |-> CountedString(mem, a),
                          immediate |-> mem[a - 2] = 1, smudge |-> mem[a - 1] = 1,
                          before |-> i - 1]
    BY <1>1, <2>6, <2>7, <2>8, <2>9, <2>10
  <2>12. IndexOf(nfa) = i /\ i # 0
    BY <2>1, IndexOfWord, NameFieldsOrdered
  <2>13. /\ ListedWords[i].codes = CountedString(mem, a)
         /\ ListedWords[i].immediate = (mem[a - 2] = 1)
         /\ ListedWords[i].smudge = (mem[a - 1] = 1)
    <3>1. ListedWords[i] = WordAt(mem, installed[i])
      BY ListedAre
    <3> DEFINE cfa == installed[i].nfa + mem[installed[i].nfa] + 1
               thr == [j \in 1 .. installed[i].length |-> mem[cfa + j]]
    <3>2. WordAt(mem, installed[i]) =
            [codes |-> CountedString(mem, installed[i].nfa),
             immediate |-> mem[installed[i].nfa - 2] = 1,
             smudge |-> mem[installed[i].nfa - 1] = 1, field |-> mem[cfa], thread |-> thr]
      BY Zenon DEF WordAt
    <3> HIDE DEF thr, cfa
    <3>3. installed[i].nfa = a
      BY <2>1, <2>3
    <3> QED  BY <3>1, <3>2, <3>3
  <2> QED  BY <2>11, <2>12, <2>13 DEF List!Answer
<1> QED  BY <1>2, <1>3

(***************************************************************************)
(* What a call leaves alone                                                *)
(***************************************************************************)

\* The stacks hold integers.
LEMMA HoldIntegers == DInv => StacksHold(Int)
BY DEF DInv, Types, StacksHold

\* Cells below DP are none of a stack's values, whatever is written there.
LEMMA StacksApart ==
  ASSUME DInv, Apart', sp' = sp, Here' \in Int, 2 <= Here',
         \A c \in Cells \ {0, 1} : Here' <= c => mem'[c] = mem[c]
  PROVE  HeldValues' = HeldValues
<1>1. ASSUME NEW t \in Stacks
      PROVE  Contents(t)' = Contents(t)
  <2>1. \A c \in Cells : sp[t] <= c /\ c < Base(t) => Here' <= c
    BY DEF Apart, Live, Here
  <2>2. \A c \in Cells : sp[t] <= c /\ c < Base(t) => mem'[c] = mem[c]
    <3>1. \A c \in Cells : c \in Int
      BY SystemCells DEF Cells
    <3> QED  BY <2>1, <3>1
  <2> QED  BY <2>2, ContentsFrame, HoldIntegers
<1> QED  BY <1>1 DEF HeldValues

\* A stack without values has none to lose.
LEMMA StacksEmpty ==
  ASSUME DInv, sp' = sp, \A s \in Stacks : Live(s) = {}
  PROVE  HeldValues' = HeldValues
<1>1. ASSUME NEW t \in Stacks
      PROVE  Contents(t)' = Contents(t)
  <2>1. \A c \in Cells : sp[t] <= c /\ c < Base(t) => mem'[c] = mem[c]
    BY DEF Live
  <2> QED  BY <2>1, ContentsFrame, HoldIntegers
<1> QED  BY <1>1 DEF HeldValues

\* The flags of the words there are stay.
LEMMA FlagsStand ==
  ASSUME LInv, ~lost, Kept, NEW i \in DOMAIN installed
  PROVE  {mem'[installed[i].nfa - 2], mem'[installed[i].nfa - 1]} \subseteq {0, 1}
<1>1. PICK a, k, l \in Nat : LiesAt(i, a, k, l)
  BY WordLies DEF LInv
<1>2. PICK h \in Nat : h = Here /\ h <= MEMORY_SIZE
  BY VariablesTyped, SystemCells DEF LInv
<1>3. installed[i].nfa = a /\ 5 <= a /\ a + k + l + 2 <= h
  BY <1>1, <1>2 DEF LiesAt
<1>4. a - 2 \in Cells \ {0, 1} /\ a - 1 \in Cells \ {0, 1} /\ a - 2 < h /\ a - 1 < h
  BY <1>2, <1>3, SystemCells DEF Cells
<1>5. mem'[a - 2] = mem[a - 2] /\ mem'[a - 1] = mem[a - 1]
  BY <1>2, <1>4 DEF Kept
<1> QED  BY <1>3, <1>5 DEF LInv, FlagsSet

\* As long as nothing is lost the history variable stays.
LEMMA NothingLost ==
  ASSUME DInv, ~lost, lost' \in BOOLEAN, ~lost'
  PROVE  lost' = lost
<1>1. lost \in BOOLEAN
  BY DEF DInv, Types
<1>2. lost = FALSE /\ lost' = FALSE
  BY <1>1, Zenon
<1> QED  BY <1>2, Zenon

\* The mapping of a step that adds no word and returns nothing new.
LEMMA SameView ==
  ASSUME installed' = installed
  PROVE  /\ walk' = walk => LeftWords' = LeftWords
         /\ answer' = answer => AnsweredWord' = AnsweredWord
BY DEF LeftWords, AnsweredWord, IndexOf

(***************************************************************************)
(* The calls                                                               *)
(***************************************************************************)

\* append_cell adds no word.
LEMMA CellIsCell ==
  ASSUME LInv, ~lost, NEW v \in Int, AppendCell(v)
  PROVE  LInv' /\ (~lost' => List!Cell \/ List!OutOfMemory)
<1> USE DEF LInv
<1>1. DInv' /\ Kept
  BY AppendCellKeeps
<1>2. /\ sp' = sp /\ walk' = walk /\ installed' = installed
      /\ lost' \in BOOLEAN /\ (~lost' => Apart')
  BY Watched DEF AppendCell
<1>3. ASSUME ~lost'
      PROVE  FlagsSet' /\ ListedWords' = ListedWords /\ LeftWords' = LeftWords
  BY <1>1, <1>2, <1>3, FlagsStand, KeptList, SameView DEF FlagsSet
<1>4. ASSUME ~lost', Here < MEMORY_SIZE
      PROVE  List!Cell
  <2> DEFINE m == WithVariables(Filled(mem, Here, <<v>>), Here + 1, Latest)
  <2>1. mem' = m /\ answer' = NoHeader /\ raised' = "none"
    BY <1>4 DEF AppendCell
  <2>2. /\ mem \in [Cells -> Int] /\ Here \in Int /\ Latest \in Int /\ 2 <= Here
    BY VariablesTyped, SystemCells
  <2>3. <<v>> \in Seq(Int) /\ Len(<<v>>) = 1 /\ Here + 1 \in Int
    BY <2>2
  <2>4. Written(m, Here, <<v>>, Here + 1, Latest)
    BY <2>2, <2>3, WrittenCells
  <2> HIDE DEF m
  <2>5. Here' = Here + 1 /\ \A c \in Cells \ {0, 1} : Here + Len(<<v>>) <= c => mem'[c] = mem[c]
    BY <2>1, <2>4, Zenon DEF Written, Here
  <2>6. HeldValues' = HeldValues
    BY <1>2, <1>4, <2>2, <2>3, <2>5, StacksApart
  <2>7. AnsweredWord' = List!Nothing
    BY <1>2, <2>1, NothingAnswered
  <2>8. lost' = lost
    BY <1>2, <1>4, NothingLost
  <2> QED  BY <1>3, <1>4, <2>1, <2>6, <2>7, <2>8 DEF List!Cell, List!Returns
<1>5. ASSUME ~lost', ~(Here < MEMORY_SIZE)
      PROVE  List!OutOfMemory
  <2>1. raised' = "IndexError" /\ mem' = mem /\ answer' = answer
    BY <1>5 DEF AppendCell
  <2>2. HeldValues' = HeldValues
    BY <1>2, <2>1 DEF HeldValues, Contents
  <2>3. lost' = lost /\ AnsweredWord' = AnsweredWord
    BY <1>2, <1>5, <2>1, SameView, NothingLost
  <2> QED  BY <1>3, <1>5, <2>1, <2>2, <2>3 DEF List!OutOfMemory
<1> QED  BY <1>1, <1>3, <1>4, <1>5

\* The name fields of the words there were are found where they were.
LEMMA IndexOfGrown ==
  ASSUME DInv, ~lost, NEW h \in Nat, h = Here, NEW l \in Nat,
         installed' = Append(installed, [nfa |-> h + 3, length |-> l]), NEW a \in NameFields
  PROVE  IndexOf(a)' = IndexOf(a)
<1> DEFINE w == [nfa |-> h + 3, length |-> l]
<1>1. w.nfa = h + 3 /\ installed' = Append(installed, w)
  OBVIOUS
<1> HIDE DEF w
<1>2. PICK n \in Nat : n = Len(installed) /\ DOMAIN installed = 1 .. n
  BY InstalledWord DEF DInv
<1>3. /\ DOMAIN installed' = 1 .. n + 1 /\ installed'[n + 1] = w
      /\ \A i \in 1 .. n : installed'[i] = installed[i]
  BY <1>1, <1>2, VariablesTyped
<1>4. a # h + 3
  <2>1. CASE a = 0
    BY <2>1
  <2>2. ASSUME NEW i \in DOMAIN installed, a = installed[i].nfa PROVE a # h + 3
    BY <2>2, WordBelowHere, NameFieldsOrdered
  <2> QED  BY <2>1, <2>2 DEF NameFields
<1>5. {i \in DOMAIN installed' : installed'[i].nfa = a} = {i \in DOMAIN installed : installed[i].nfa = a}
  BY <1>1, <1>2, <1>3, <1>4
<1> QED  BY <1>5 DEF IndexOf

\* append_word adds its entry to the list, or nothing.
LEMMA WordIsDefine ==
  ASSUME LInv, ~lost, NEW e \in EntryType, AppendWord(e)
  PROVE  LInv' /\ (~lost' => List!Define(e) \/ List!OutOfMemory)
<1> USE DEF LInv
<1>1. DInv' /\ Kept
  BY AppendWordKeeps
<1>2. /\ sp' = sp /\ walk' = walk /\ lost' \in BOOLEAN /\ (~lost' => Apart')
      /\ (raised' = "none" \/ raised' = "IndexError")
  BY Watched DEF AppendWord
<1>n. PICK n \in Nat : n = Len(installed) /\ DOMAIN installed = 1 .. n
  BY InstalledWord DEF DInv
<1>3. ASSUME ~lost', raised' = "none"
      PROVE  FlagsSet' /\ List!Define(e)
  <2>1. PICK h, lc, lt \in Nat : PutAt(e, h, lc, lt)
    BY <1>3, WrittenWord
  <2> DEFINE w == [nfa |-> h + 3, length |-> lt]
  <2>2. /\ w.nfa = h + 3 /\ w.length = lt /\ installed' = Append(installed, w)
        /\ h = Here /\ 2 <= h /\ Here' = h + 5 + lc + lt
        /\ answer' = [NoHeader EXCEPT !.cfa = h + 4 + lc]
        /\ (mem'[h + 1] = 0 \/ mem'[h + 1] = 1) /\ mem'[h + 2] = 0
        /\ \A c \in Cells \ {0, 1} : Here' <= c => mem'[c] = mem[c]
    BY <2>1 DEF PutAt
  <2> HIDE DEF w
  <2>3. /\ DOMAIN installed' = 1 .. n + 1 /\ installed'[n + 1] = w
        /\ \A i \in 1 .. n : installed'[i] = installed[i]
    BY <1>n, <2>2, VariablesTyped
  <2>4. FlagsSet'
    <3>1. \A i \in 1 .. n : {mem'[installed'[i].nfa - 2], mem'[installed'[i].nfa - 1]} \subseteq {0, 1}
      BY <1>1, <1>n, <2>3, FlagsStand
    <3>2. h + 3 - 2 = h + 1 /\ h + 3 - 1 = h + 2
      OBVIOUS
    <3>3. {mem'[installed'[n + 1].nfa - 2], mem'[installed'[n + 1].nfa - 1]} \subseteq {0, 1}
      <4>1. installed'[n + 1].nfa = h + 3
        BY <2>2, <2>3
      <4> QED  BY <2>2, <3>2, <4>1
    <3>4. \A i \in 1 .. n + 1 : i \in 1 .. n \/ i = n + 1
      OBVIOUS
    <3> QED  BY <2>3, <3>1, <3>3, <3>4 DEF FlagsSet
  <2>5. HeldValues' = HeldValues
    <3>1. Here' \in Int /\ 2 <= Here'
      BY <2>2
    <3> QED  BY <1>2, <1>3, <2>2, <3>1, StacksApart
  <2>6. \A a \in NameFields : IndexOf(a)' = IndexOf(a)
    BY <2>1, <2>2, IndexOfGrown DEF PutAt
  <2>7. LeftWords' = LeftWords
    <3>1. PICK a \in NameFields : a = walk
      BY DEF DInv, Types, NameFields
    <3>2. IndexOf(a)' = IndexOf(a)
      BY <2>6
    <3> QED  BY <1>2, <3>1, <3>2 DEF LeftWords, IndexOf
  <2>8. AnsweredWord' = [List!Nothing EXCEPT !.index = Len(ListedWords) + 1]
    <3>1. /\ answer'.cfa = h + 4 + lc /\ answer'.link = 0 /\ answer'.codes = << >>
          /\ answer'.immediate = FALSE /\ answer'.smudge = FALSE
      BY <2>2 DEF NoHeader
    <3>2. IndexOf(answer.link)' = 0
      <4>1. IndexOf(0)' = 0
        BY <2>6, IndexOfWord DEF NameFields
      <4> QED  BY <3>1, <4>1 DEF IndexOf
    <3> DEFINE S == {0} \cup {j \in DOMAIN installed' : installed'[j].nfa < answer'.cfa}
    <3>3. Max(S) = n + 1
      <4>1. w.nfa < h + 4 + lc
        BY <2>2
      <4>2. S \subseteq 0 .. n + 1 /\ n + 1 \in S
        BY <2>3, <3>1, <4>1
      <4> HIDE DEF S
      <4>3. S \subseteq Int /\ \A k \in S : k <= n + 1
        BY <4>2
      <4> QED  BY <4>2, <4>3, GreatestIs
    <3>4. AnsweredWord' = [index |-> Max(S), codes |-> answer'.codes,
                           immediate |-> answer'.immediate, smudge |-> answer'.smudge,
                           before |-> IndexOf(answer.link)']
      BY DEF AnsweredWord
    <3>5. Len(ListedWords) = n
      BY <1>n, ListedAre
    <3> HIDE DEF S
    <3>6. AnsweredWord' = [index |-> n + 1, codes |-> << >>, immediate |-> FALSE,
                           smudge |-> FALSE, before |-> 0]
      BY <3>1, <3>2, <3>3, <3>4
    <3>7. [List!Nothing EXCEPT !.index = n + 1] =
            [index |-> n + 1, codes |-> << >>, immediate |-> FALSE, smudge |-> FALSE, before |-> 0]
      <4>1. List!Nothing = [index |-> 0, codes |-> << >>, immediate |-> FALSE,
                            smudge |-> FALSE, before |-> 0]
        BY DEF List!Nothing
      <4>2. [[index |-> 0, codes |-> << >>, immediate |-> FALSE,
              smudge |-> FALSE, before |-> 0] EXCEPT !.index = n + 1] =
            [index |-> n + 1, codes |-> << >>, immediate |-> FALSE, smudge |-> FALSE, before |-> 0]
        <5>1. \A b, x, y, c : [[index |-> x, codes |-> c, immediate |-> b, smudge |-> b,
                                before |-> x] EXCEPT !.index = y] =
                              [index |-> y, codes |-> c, immediate |-> b, smudge |-> b,
                               before |-> x]
          OBVIOUS
        <5> QED  BY <5>1, Zenon
      <4> QED  BY <4>1, <4>2
    <3> QED  BY <3>5, <3>6, <3>7
  <2>9. ListedWords' = Append(ListedWords, [codes |-> e.codes, immediate |-> e.immediate,
                                            field |-> e.field, thread |-> e.thread,
                                            smudge |-> FALSE])
    BY <1>1, <1>3, <2>1, GrownList
  <2>10. lost' = lost
    BY <1>2, <1>3, NothingLost
  <2> QED  BY <1>3, <2>4, <2>5, <2>7, <2>8, <2>9, <2>10 DEF List!Define, List!Returns
<1>4. ASSUME ~lost', raised' = "IndexError"
      PROVE  FlagsSet' /\ List!OutOfMemory
  <2>1. installed' = installed /\ answer' = answer
    BY <1>4 DEF AppendWord
  <2>2. \A s \in Stacks : Live(s) = {}
    <3>1. Watch
      BY DEF AppendWord
    <3> QED  BY <1>4, <3>1, Zenon DEF Watch
  <2>3. HeldValues' = HeldValues
    BY <1>2, <2>2, StacksEmpty
  <2>4. ListedWords' = ListedWords /\ LeftWords' = LeftWords /\ AnsweredWord' = AnsweredWord
    BY <1>1, <1>2, <1>4, <2>1, KeptList, SameView
  <2>5. FlagsSet'
    BY <1>1, <2>1, FlagsStand DEF FlagsSet
  <2>6. lost' = lost
    BY <1>2, <1>4, NothingLost
  <2> QED  BY <1>4, <2>3, <2>4, <2>5, <2>6 DEF List!OutOfMemory
<1> QED  BY <1>1, <1>2, <1>3, <1>4

\* The newest word with a name is the greatest index with it.
LEMMA NewestIndex ==
  ASSUME DInv, ~lost, NEW codes
  PROVE  IndexOf(Search(codes)) =
           List!Max({0} \cup {i \in DOMAIN ListedWords : ListedWords[i].codes = codes})
<1>1. PICK nfa : nfa = Search(codes) /\ IsNewest(nfa, codes)
  BY SearchIsNewest
<1>2. \A i \in DOMAIN installed :
        ListedWords[i].codes = CountedString(mem, installed[i].nfa) /\ i \in Nat \ {0}
  <2> SUFFICES ASSUME NEW i \in DOMAIN installed
               PROVE  ListedWords[i].codes = CountedString(mem, installed[i].nfa) /\ i \in Nat \ {0}
    OBVIOUS
  <2>1. ListedWords[i] = WordAt(mem, installed[i])
    BY ListedAre
  <2>2. WordAt(mem, installed[i]).codes = CountedString(mem, installed[i].nfa)
    BY DEF WordAt
  <2> QED  BY <2>1, <2>2, NameFieldsOrdered
<1>3. DOMAIN ListedWords = DOMAIN installed
  BY ListedAre
<1> DEFINE S == {0} \cup {i \in DOMAIN installed : CountedString(mem, installed[i].nfa) = codes}
<1>4. {0} \cup {i \in DOMAIN ListedWords : ListedWords[i].codes = codes} = S
  BY <1>2, <1>3
<1>5. IndexOf(nfa) \in S /\ \A k \in S : k <= IndexOf(nfa)
  <2>1. CASE nfa = 0 /\ \A j \in DOMAIN installed : CountedString(mem, installed[j].nfa) # codes
    <3>1. S = {0}
      BY <2>1
    <3>2. IndexOf(nfa) = 0
      BY <2>1, IndexOfWord
    <3> HIDE DEF S
    <3> QED  BY <3>1, <3>2
  <2>2. ASSUME NEW i \in DOMAIN installed, nfa = installed[i].nfa,
               CountedString(mem, nfa) = codes,
               \A j \in DOMAIN installed : j > i => CountedString(mem, installed[j].nfa) # codes
        PROVE  IndexOf(nfa) \in S /\ \A k \in S : k <= IndexOf(nfa)
    <3>1. IndexOf(nfa) = i
      BY <2>2, IndexOfWord
    <3>2. i \in S /\ \A k \in S : k <= i
      BY <1>2, <2>2
    <3> HIDE DEF S
    <3> QED  BY <3>1, <3>2
  <2> QED  BY <1>1, <2>1, <2>2, Zenon DEF IsNewest
<1>6. S \subseteq Int
  BY <1>2
<1> HIDE DEF S
<1>7. Max(S) = IndexOf(nfa)
  BY <1>5, <1>6, GreatestIs
<1>8. List!Max(S) = Max(S)
  BY DEF List!Max, Max
<1> QED  BY <1>1, <1>4, <1>7, <1>8

\* A look-up leaves the words and the stacks alone.
LEMMA LookupFrame ==
  ASSUME LInv, ~lost, UNCHANGED <<mem, sp, installed, lost>>
  PROVE  FlagsSet' /\ ListedWords' = ListedWords /\ HeldValues' = HeldValues
<1>1. FlagsSet'
  BY DEF LInv, FlagsSet
<1>2. ListedWords' = ListedWords
  BY DEF ListedWords
<1>3. HeldValues' = HeldValues
  BY DEF HeldValues, Contents
<1> QED  BY <1>1, <1>2, <1>3

\* find() returns the newest word with the name.
LEMMA FindIsFind ==
  ASSUME LInv, ~lost, NEW codes, Find(codes)
  PROVE  LInv' /\ List!Find(codes)
<1>1. DInv'
  BY FindKeeps DEF LInv
<1>2. /\ UNCHANGED <<mem, sp, walk, installed, lost>> /\ raised' = "none"
      /\ answer' = IF Search(codes) = 0 THEN NoHeader ELSE HeaderAt(Search(codes))
  BY DEF Find
<1>3. FlagsSet' /\ ListedWords' = ListedWords /\ HeldValues' = HeldValues
  BY <1>2, LookupFrame
<1>4. LeftWords' = LeftWords
  BY <1>2, SameView
<1>5. AnsweredWord' = List!Answer(IndexOf(Search(codes)))
  <2>1. PICK nfa : nfa = Search(codes)
    OBVIOUS
  <2>2. nfa \in NameFields
    BY <2>1, SearchIsNewest DEF LInv, IsNewest, NameFields
  <2> QED  BY <1>2, <2>1, <2>2, HeaderAnswers
<1>6. List!Find(codes)
  <2>1. IndexOf(Search(codes)) =
          List!Max({0} \cup {i \in DOMAIN ListedWords : ListedWords[i].codes = codes})
    BY NewestIndex DEF LInv
  <2> QED  BY <1>2, <1>3, <1>4, <1>5, <2>1 DEF List!Find, List!Returns
<1> QED  BY <1>1, <1>3, <1>6 DEF LInv

\* headers() yields the words from the newest to the oldest; words appended
\* under it do not disturb it.
LEMMA NextHeaderIsNext ==
  ASSUME LInv, ~lost, NextHeader
  PROVE  LInv' /\ List!NextHeader
<1> USE DEF LInv
<1>1. DInv'
  BY NextHeaderKeeps
<1>2. PICK nfa : nfa = IF walk = 0 THEN Latest ELSE LinkOf(walk)
  OBVIOUS
<1>3. /\ UNCHANGED <<mem, sp, installed, lost>> /\ raised' = "none" /\ walk' = nfa
      /\ answer' = IF nfa = 0 THEN NoHeader ELSE HeaderAt(nfa)
  BY <1>2 DEF NextHeader
<1>4. FlagsSet' /\ ListedWords' = ListedWords /\ HeldValues' = HeldValues
  BY <1>3, LookupFrame
<1>5. walk \in NameFields /\ Latest \in NameFields
  BY DEF DInv, Types, NameFields
<1>6. PICK n \in Nat : n = Len(installed) /\ DOMAIN installed = 1 .. n
  BY InstalledWord DEF DInv
<1> DEFINE next == IF LeftWords = -1 THEN Len(ListedWords) - 1 ELSE LeftWords - 1
<1>7. nfa \in NameFields /\ IndexOf(nfa) \in 0 .. n /\ next = IndexOf(nfa) - 1
  <2>1. CASE walk = 0
    <3>1. LeftWords = -1 /\ Len(ListedWords) = n
      BY <1>6, <2>1, ListedAre DEF LeftWords
    <3>2. nfa = Latest /\ ChainLinked /\ installed \in Seq(Word)
      BY <1>2, <2>1 DEF DInv
    <3>3. CASE n = 0
      <4>1. installed = << >>
        BY <1>6, <3>2, <3>3, EmptySeq
      <4>2. nfa = 0
        BY <3>2, <4>1 DEF ChainLinked
      <4> QED  BY <1>5, <3>1, <3>2, <3>3, <4>2, IndexOfWord
    <3>4. CASE n # 0
      <4>1. installed # << >> /\ Last(installed) = installed[n] /\ n \in DOMAIN installed
        BY <1>6, <3>4 DEF Last
      <4>2. nfa = installed[n].nfa
        BY <3>2, <4>1 DEF ChainLinked
      <4>3. IndexOf(nfa) = n
        BY <4>1, <4>2, IndexOfWord
      <4> QED  BY <1>5, <3>1, <3>2, <4>3
    <3> QED  BY <3>3, <3>4
  <2>2. CASE walk # 0
    <3>1. PICK i \in 1 .. n : walk = installed[i].nfa
      BY <1>5, <1>6, <2>2 DEF NameFields
    <3>2. LeftWords = i - 1 /\ i - 1 # -1
      BY <1>6, <2>2, <3>1, IndexOfWord DEF LeftWords
    <3>3. nfa = IF i = 1 THEN 0 ELSE installed[i - 1].nfa
      BY <1>2, <1>6, <2>2, <3>1, Zenon DEF DInv, ChainLinked
    <3>4. i # 1 => i - 1 \in 1 .. n
      OBVIOUS
    <3>5. IndexOf(nfa) = i - 1
      BY <1>6, <3>3, <3>4, IndexOfWord
    <3>6. nfa \in NameFields
      BY <1>6, <3>3, <3>4 DEF NameFields
    <3> QED  BY <3>2, <3>5, <3>6
  <2> QED  BY <2>1, <2>2
<1>8. LeftWords' = IndexOf(nfa) - 1
  <2>1. LeftWords' = IF nfa = 0 THEN -1 ELSE IndexOf(nfa) - 1
    BY <1>3 DEF LeftWords, IndexOf
  <2>2. nfa = 0 => IndexOf(nfa) = 0
    BY IndexOfWord
  <2> QED  BY <2>1, <2>2
<1>9. AnsweredWord' = List!Answer(IndexOf(nfa))
  BY <1>3, <1>7, HeaderAnswers
<1>10. LeftWords' = next /\ AnsweredWord' = List!Answer(next + 1)
  <2>1. next + 1 = IndexOf(nfa)
    <3> HIDE DEF next
    <3> QED  BY <1>7
  <2> QED  BY <1>7, <1>8, <1>9, <2>1
<1>11. List!NextHeader
  <2>1. List!Yields(next)
    <3> HIDE DEF next
    <3> QED  BY <1>3, <1>4, <1>10 DEF List!Yields, List!Returns
  <2> QED  BY <2>1 DEF List!NextHeader
<1> QED  BY <1>1, <1>4, <1>11

\* A mark on a word is a mark on that word only.
LEMMA SmudgeIsSmudge ==
  ASSUME LInv, ~lost, NEW i \in DOMAIN installed, Smudge(i)
  PROVE  LInv' /\ List!Smudge(i)
<1> USE DEF LInv
<1>1. /\ DInv' /\ Here' = Here /\ \A c \in Cells \ {0, 1} : c >= Here => mem'[c] = mem[c]
  BY SmudgeKeeps
<1>2. UNCHANGED <<sp, walk, answer, installed, lost>> /\ raised' = "none"
  BY DEF Smudge, CellWrite
<1>3. PICK a, k, l \in Nat : LiesAt(i, a, k, l)
  BY WordLies
<1>4. installed[i].nfa = a /\ 5 <= a /\ a + k + l + 2 <= Here
  BY <1>3 DEF LiesAt
<1>5. Here \in Nat /\ Here <= MEMORY_SIZE /\ MEMORY_SIZE \in Nat /\ 2 <= Here
      /\ mem \in [Cells -> Int]
  BY VariablesTyped, SystemCells
<1>6. PICK b \in {0, 1} : CellWrite(a - 1, b)
  <2>1. installed[i].nfa - NAME_LENGTH + SMUDGE = a - 1
    BY <1>4 DEF NAME_LENGTH, SMUDGE
  <2> QED  BY <2>1 DEF Smudge
<1>7. \A c \in Cells : mem'[c] = IF c = a - 1 THEN b ELSE mem[c]
  <2>1. CellAt(a - 1) = a - 1 /\ a - 1 \in Cells
    BY <1>4, <1>5 DEF CellAt, Cells
  <2> QED  BY <1>5, <1>6, <2>1 DEF CellWrite
<1>8. ~lost'
  BY <1>2
<1>9. ListedWords' = [ListedWords EXCEPT ![i].smudge = (b = 1)]
  BY <1>2, <1>4, <1>7, <1>8, MarkedList
<1>10. HeldValues' = HeldValues
  <2>1. Apart'
    BY <1>1, <1>8 DEF DInv
  <2> QED  BY <1>1, <1>2, <1>5, <2>1, StacksApart
<1>11. LeftWords' = LeftWords /\ AnsweredWord' = AnsweredWord
  BY <1>2, SameView
<1>12. FlagsSet'
  <2> SUFFICES ASSUME NEW j \in DOMAIN installed
               PROVE  {mem'[installed[j].nfa - 2], mem'[installed[j].nfa - 1]} \subseteq {0, 1}
    BY <1>2 DEF FlagsSet
  <2>1. PICK x, y, z \in Nat : LiesAt(j, x, y, z)
    BY WordLies
  <2>2. installed[j].nfa = x /\ 5 <= x /\ x + y + z + 2 <= Here
    BY <2>1 DEF LiesAt
  <2>3. x - 2 \in Cells /\ x - 1 \in Cells
    BY <1>5, <2>2 DEF Cells
  <2>4. {mem[x - 2], mem[x - 1]} \subseteq {0, 1}
    BY <2>2 DEF FlagsSet
  <2> QED  BY <1>7, <2>2, <2>3, <2>4
<1>13. List!Smudge(i)
  <2>1. \E d \in BOOLEAN : ListedWords' = [ListedWords EXCEPT ![i].smudge = d]
    BY <1>9
  <2> QED  BY <1>2, <1>10, <1>11, <2>1 DEF List!Smudge, List!Returns
<1> QED  BY <1>1, <1>12, <1>13

\* A push that reaches no word adds a value to its stack.
LEMMA PushIsStackCall ==
  ASSUME LInv, ~lost, NEW s \in Stacks, NEW v \in Scalars, v \in Int, Push(s, v)
  PROVE  LInv' /\ (~lost' => List!StackCall(s))
<1> USE DEF LInv
<1>1. DInv' /\ (~lost' => Kept)
  BY PushKeeps
<1>2. /\ UNCHANGED <<walk, answer, installed>> /\ raised' = "none"
      /\ ~Overflows(s) /\ StackPush(s, v) /\ lost' \in BOOLEAN
  BY Watched DEF Push
<1>3. ASSUME ~lost'
      PROVE  FlagsSet' /\ List!StackCall(s)
  <2>1. FlagsSet' /\ ListedWords' = ListedWords
    BY <1>1, <1>2, <1>3, FlagsStand, KeptList DEF FlagsSet
  <2>2. LeftWords' = LeftWords /\ AnsweredWord' = AnsweredWord
    BY <1>2, SameView
  <2>3. StacksHold(Int) /\ StacksHold(Int)'
    BY <1>1 DEF DInv, Types, StacksHold
  <2>4. Contents(s)' = Append(Contents(s), v)
    BY <1>2, <2>3, ContentsPush
  <2>5. \A t \in Stacks \ {s} : Contents(t)' = Contents(t)
    BY <1>2, <2>3, PushFrame
  <2>6. HeldValues' = [HeldValues EXCEPT ![s] = Append(@, v)]
    BY <2>4, <2>5 DEF HeldValues
  <2>7. lost' = lost
    BY <1>2, <1>3, NothingLost
  <2>8. \E u \in Scalars : HeldValues' = [HeldValues EXCEPT ![s] = Append(@, u)]
    BY <2>6
  <2> QED  BY <1>2, <2>1, <2>2, <2>7, <2>8 DEF List!StackCall
<1> QED  BY <1>1, <1>3

\* A pop takes the newest value of its stack.
LEMMA PopIsStackCall ==
  ASSUME LInv, ~lost, NEW s \in Stacks, Pop(s)
  PROVE  LInv' /\ List!StackCall(s)
<1> USE DEF LInv
<1>1. DInv' /\ Kept
  BY PopKeeps
<1>2. /\ UNCHANGED <<walk, answer, installed, lost>> /\ raised' = "none"
      /\ ~Underflows(s) /\ StackPop(s)
  BY DEF Pop
<1>3. FlagsSet' /\ ListedWords' = ListedWords
  BY <1>1, <1>2, FlagsStand, KeptList DEF FlagsSet
<1>4. LeftWords' = LeftWords /\ AnsweredWord' = AnsweredWord
  BY <1>2, SameView
<1>5. StacksHold(Int)
  BY HoldIntegers
<1>6. Contents(s)' = List!Front(Contents(s)) /\ Contents(s) # << >>
  <2>1. Contents(s)' = SubSeq(Contents(s), 1, Len(Contents(s)) - 1)
    BY <1>2, <1>5, ContentsPop
  <2>2. Len(Contents(s)) = Base(s) - sp[s] /\ Contents(s) \in Seq(Int)
    BY <1>5, ContentsSeq
  <2>3. sp[s] \in Int /\ Base(s) \in Int /\ sp[s] < Base(s)
    BY <1>2, <1>5, StackRegion DEF StacksHold, Underflows
  <2>4. Len(Contents(s)) # 0
    BY <2>2, <2>3
  <2> QED  BY <2>1, <2>2, <2>4, EmptySeq DEF List!Front
<1>7. \A t \in Stacks \ {s} : Contents(t)' = Contents(t)
  BY <1>2, <1>5 DEF StackPop, StacksHold, Contents
<1>8. HeldValues' = [HeldValues EXCEPT ![s] = List!Front(@)] /\ HeldValues[s] # << >>
  BY <1>6, <1>7 DEF HeldValues
<1>9. List!StackCall(s)
  BY <1>2, <1>3, <1>4, <1>8 DEF List!StackCall
<1> QED  BY <1>1, <1>3, <1>9

(***************************************************************************)
(* The theorem                                                             *)
(***************************************************************************)

\* The constructor leaves an empty list.
LEMMA InitIsInit == Init => LInv /\ List!Init
<1> SUFFICES ASSUME Init PROVE LInv /\ List!Init
  OBVIOUS
<1>1. /\ sp = [s \in Stacks |-> Base(s)] /\ walk = 0 /\ answer = NoHeader /\ raised = "none"
      /\ installed = << >> /\ lost = FALSE
  BY DEF Init
<1>2. DInv
  BY InitDInv
<1>3. FlagsSet
  BY <1>1 DEF FlagsSet
<1>4. ListedWords = << >>
  BY <1>1 DEF ListedWords
<1>5. LeftWords = -1
  BY <1>1 DEF LeftWords
<1>6. AnsweredWord = List!Nothing
  <2>1. /\ answer.cfa = 0 /\ answer.link = 0 /\ answer.codes = << >>
        /\ answer.immediate = FALSE /\ answer.smudge = FALSE
    BY <1>1 DEF NoHeader
  <2>2. IndexOf(answer.link) = 0
    BY <1>1, <1>2, <2>1, IndexOfWord
  <2>3. Max({0} \cup {i \in DOMAIN installed : installed[i].nfa < answer.cfa}) = 0
    <3>1. {0} \cup {i \in DOMAIN installed : installed[i].nfa < answer.cfa} = {0}
      BY <1>1
    <3> QED  BY <3>1, GreatestIs
  <2> QED  BY <2>1, <2>2, <2>3 DEF AnsweredWord, List!Nothing
<1>7. /\ DOMAIN HeldValues = {"D", "R"}
      /\ \A s \in DOMAIN HeldValues : HeldValues[s] = << >>
  <2>1. ASSUME NEW s \in Stacks PROVE Contents(s) = << >>
    <3>1. Len(Contents(s)) = Base(s) - sp[s] /\ Contents(s) \in Seq(Int)
      BY <1>2, HoldIntegers, ContentsSeq
    <3>2. Base(s) - sp[s] = 0
      BY <1>1, StackRegion
    <3> QED  BY <3>1, <3>2, EmptySeq
  <2> QED  BY <2>1 DEF HeldValues, Stacks
<1> QED  BY <1>1, <1>2, <1>3, <1>4, <1>5, <1>6, <1>7 DEF LInv, List!Init

\* Every step of the dictionary and its clients is a step of the list, and
\* keeps the invariant.
LEMMA StepIsStep == LInv /\ [Next]_vars => LInv' /\ [List!Next]_(List!listVars)
<1> SUFFICES ASSUME LInv, [Next]_vars
             PROVE  LInv' /\ [List!Next]_(List!listVars)
  OBVIOUS
<1>1. CASE UNCHANGED vars
  <2>1. UNCHANGED <<mem, sp, walk, answer, raised, installed, lost>>
    BY <1>1 DEF vars, dictVars
  <2>2. DInv'
    BY <1>1, NextDInv DEF LInv
  <2>3. (~lost => FlagsSet)'
    BY <2>1 DEF LInv, FlagsSet
  <2>4. ListedWords' = ListedWords /\ LeftWords' = LeftWords /\ AnsweredWord' = AnsweredWord
        /\ HeldValues' = HeldValues
    BY <2>1, SameView DEF ListedWords, HeldValues, Contents
  <2>5. UNCHANGED List!listVars
    BY <2>1, <2>4 DEF List!listVars
  <2> QED  BY <2>2, <2>3, <2>5 DEF LInv
<1>2. CASE Next
  <2>1. ~lost
    BY <1>2, Zenon DEF Next
  <2>2. ASSUME NEW v \in Scalars, AppendCell(v) PROVE LInv' /\ List!Next
    <3>1. v \in Int
      BY DictionaryAssumption
    <3> QED  BY <2>1, <2>2, <3>1, CellIsCell, Zenon DEF List!Next
  <2>3. ASSUME NEW e \in Entries, AppendWord(e) PROVE LInv' /\ List!Next
    <3>1. e \in EntryType
      BY DictionaryAssumption DEF EntryType
    <3> QED  BY <2>1, <2>3, <3>1, WordIsDefine, Zenon DEF List!Next
  <2>4. ASSUME NEW c \in SearchNames, Find(c) PROVE LInv' /\ List!Next
    BY <2>1, <2>4, FindIsFind, Zenon DEF List!Next
  <2>5. ASSUME NextHeader PROVE LInv' /\ List!Next
    BY <2>1, <2>5, NextHeaderIsNext, Zenon DEF List!Next
  <2>6. DOMAIN HeldValues = Stacks /\ DOMAIN ListedWords = DOMAIN installed
    BY <2>1, ListedAre DEF HeldValues, LInv
  <2>7. ASSUME NEW s \in Stacks, Pop(s) PROVE LInv' /\ List!Next
    <3>1. LInv' /\ List!StackCall(s)
      BY <2>1, <2>7, PopIsStackCall
    <3> QED  BY <2>6, <3>1, Zenon DEF List!Next
  <2>8. ASSUME NEW s \in Stacks, NEW v \in Scalars, Push(s, v) PROVE LInv' /\ List!Next
    <3>1. v \in Int
      BY DictionaryAssumption
    <3>2. LInv' /\ (~lost' => List!StackCall(s))
      BY <2>1, <2>8, <3>1, PushIsStackCall
    <3> QED  BY <2>6, <3>2, Zenon DEF List!Next
  <2>9. ASSUME NEW i \in DOMAIN installed, Smudge(i) PROVE LInv' /\ List!Next
    <3>1. LInv' /\ List!Smudge(i)
      BY <2>1, <2>9, SmudgeIsSmudge
    <3> QED  BY <2>6, <3>1, Zenon DEF List!Next
  <2>10. LInv' /\ List!Next
    BY <1>2, <2>2, <2>3, <2>4, <2>5, <2>7, <2>8, <2>9, Zenon DEF Next
  <2> QED  BY <2>10
<1> QED  BY <1>1, <1>2

\* The dictionary in memory implements the list of words (adapters/
\* dictionary.py append_cell, append_word, find, headers): as long as no value
\* has been lost, appended words stay as they were written, find() gives the
\* newest of a name, an iteration is not disturbed by words appended under it,
\* an append that runs out of memory adds no word, and neither the words nor
\* the stacks reach each other's values.
THEOREM DictionaryImplementsList == Spec => ImplementsWordList
<1> QED  BY InitIsInit, StepIsStep, PTL DEF Spec, ImplementsWordList, List!Spec

=============================================================================
