------------------------ MODULE KernelBuilderProofs ------------------------
(***************************************************************************)
(* Theorems about KernelBuilder, for every list of words and every boot    *)
(* thread: what build and its host do to the dictionary keeps it whole,    *)
(* no thread that can be found runs into nothing, images stay as they were *)
(* built, and build raises what the first item at fault is at fault for.   *)
(***************************************************************************)
EXTENDS KernelBuilder, DictionaryProofs

(***************************************************************************)
(* The invariant                                                           *)
(***************************************************************************)

\* How EXIT is spelled.
ExitCodes ==
  {CodeWords[n].codes : n \in {m \in DOMAIN CodeWords : CodeWords[m].name = "EXIT"}}

SpecWord ==
  [name : STRING, codes : Seq(Int), words : Seq(STRING), field : Int, immediate : BOOLEAN]

BootItems == {"word"} \X STRING \cup {"cell"} \X Int

\* The words that build is called with.
GivenWords == Range(CodeWords) \cup UNION {Range(c) : c \in ColonLists}

\* A word build installs: a thread ends in EXIT.
Proper(w) ==
  /\ w \in SpecWord
  /\ \E v \in GivenWords : v.name = w.name /\ v.codes = w.codes
  /\ w.name = "EXIT" => w.codes \in ExitCodes
  /\ w.words # << >> => w.words[Len(w.words)] = "EXIT"

\* Word k may be what a thread calls EXIT.
IsExit(k) == CountedString(mem, installed[k].nfa) \in ExitCodes

\* word_cfas gives the address of a word, and of an EXIT for EXIT.
Known(n) == \E k \in DOMAIN installed : cfas[n] = CfaAt(k) /\ (n = "EXIT" => IsExit(k))

\* Word i's thread calls words before it, an EXIT last.
Closed(i) ==
  \A j \in 1 .. installed[i].length :
    \E k \in 1 .. i - 1 :
      mem[CfaAt(i) + j] = CfaAt(k) /\ (j = installed[i].length => IsExit(k))

BInv ==
  /\ DInv
  /\ phase \in {"idle", "words", "boot"} /\ at \in Nat
  /\ specs \in Seq(SpecWord) /\ \A i \in DOMAIN specs : Proper(specs[i])
  /\ boot \in Seq(BootItems)
  /\ ~lost => /\ \A n \in DOMAIN cfas : Known(n)
              /\ \A i \in DOMAIN installed : Closed(i)

\* A host that appends words of its own gives them no thread.
HostAppendsCode == \A e \in Entries : e.thread = << >>

(***************************************************************************)
(* What the words are called with                                          *)
(***************************************************************************)

\* install() hands on the words as they are given to build, EXIT put behind
\* those of a colon word.
LEMMA ProperSpecs ==
  ASSUME NEW colon \in ColonLists
  PROVE  LET new == CodeWords \o [i \in DOMAIN colon |-> ColonSpec(colon[i], EnterIndex)]
         IN  new \in Seq(SpecWord) /\ \A i \in DOMAIN new : Proper(new[i])
<1> DEFINE Code == [name : STRING, codes : Seq(Int), words : {<< >>}, field : Int,
                    immediate : BOOLEAN]
           Colon == [name : STRING, codes : Seq(Int), words : Seq(STRING), immediate : BOOLEAN]
           tail == [i \in DOMAIN colon |-> ColonSpec(colon[i], EnterIndex)]
<1>1. CodeWords \in Seq(Code) /\ colon \in Seq(Colon) /\ EnterIndex \in Int
  BY BuilderAssumption
<1>2. \A i \in DOMAIN CodeWords : CodeWords[i] \in Code
  <2> HIDE DEF Code
  <2> QED  BY <1>1
<1>3. ASSUME NEW i \in DOMAIN CodeWords
      PROVE  Proper(CodeWords[i])
  <2>1. CodeWords[i] \in SpecWord /\ CodeWords[i].words = << >>
    <3>1. << >> \in Seq(STRING)
      OBVIOUS
    <3> QED  BY <1>2, <3>1 DEF SpecWord
  <2>2. CodeWords[i].name = "EXIT" => CodeWords[i].codes \in ExitCodes
    BY DEF ExitCodes
  <2>3. CodeWords[i] \in GivenWords
    BY DEF GivenWords, Range
  <2> QED  BY <2>1, <2>2, <2>3 DEF Proper
<1>4. PICK x \in DOMAIN CodeWords : CodeWords[x].name = "EXIT"
  BY BuilderAssumption
<1>5. ASSUME NEW i \in DOMAIN colon
      PROVE  Proper(ColonSpec(colon[i], EnterIndex))
  <2> DEFINE c == colon[i]
             w == ColonSpec(c, EnterIndex)
  <2>1. c \in Colon
    <3> HIDE DEF Colon
    <3> QED  BY <1>1
  <2>2. /\ w.name = c.name /\ w.codes = c.codes /\ w.words = Append(c.words, "EXIT")
        /\ w.field = EnterIndex /\ w.immediate = c.immediate
        /\ w = [name |-> c.name, codes |-> c.codes, words |-> Append(c.words, "EXIT"),
                field |-> EnterIndex, immediate |-> c.immediate]
    BY DEF ColonSpec
  <2>3. c.words \in Seq(STRING) /\ "EXIT" \in STRING
    <3> HIDE DEF c
    <3>1. c.words \in Seq(STRING)
      BY <2>1, Zenon
    <3>2. "EXIT" \in STRING
      <4>1. CodeWords[x] \in Code
        BY <1>2
      <4>2. CodeWords[x].name \in STRING
        BY <4>1
      <4> QED  BY <1>4, <4>2
    <3> QED  BY <3>1, <3>2
  <2>4. /\ Append(c.words, "EXIT") \in Seq(STRING)
        /\ Append(c.words, "EXIT")[Len(Append(c.words, "EXIT"))] = "EXIT"
    BY <2>3
  <2>5. w \in SpecWord
    BY <1>1, <2>1, <2>2, <2>4 DEF SpecWord
  <2>6. w.name = "EXIT" => w.codes = CodeWords[x].codes
    <3>1. c \in UNION {Range(d) : d \in ColonLists}
      BY DEF Range
    <3>2. CodeWords[x] \in Range(CodeWords)
      BY DEF Range
    <3>3. CodeWords[x].name = c.name => CodeWords[x].codes = c.codes
      BY <3>1, <3>2, BuilderAssumption
    <3> QED  BY <1>4, <2>2, <3>3
  <2>7. CodeWords[x].codes \in ExitCodes
    BY <1>4 DEF ExitCodes
  <2>9. \E v \in GivenWords : v.name = w.name /\ v.codes = w.codes
    <3>1. c \in UNION {Range(d) : d \in ColonLists}
      BY DEF Range
    <3>2. c \in GivenWords
      BY <3>1, Zenon DEF GivenWords
    <3> QED  BY <2>2, <3>2
  <2> HIDE DEF c, w
  <2>8. w.words[Len(w.words)] = "EXIT"
    BY <2>2, <2>4
  <2> QED  BY <2>5, <2>6, <2>7, <2>8, <2>9 DEF Proper, w, c
<1>6. \A i \in DOMAIN colon : ColonSpec(colon[i], EnterIndex) \in SpecWord
  BY <1>5 DEF Proper
<1>7. DOMAIN colon = 1 .. Len(colon) /\ Len(colon) \in Nat /\ CodeWords \in Seq(SpecWord)
  BY <1>1, <1>3 DEF Proper
<1>8. tail \in Seq(SpecWord) /\ Len(tail) = Len(colon)
  BY <1>6, <1>7
<1>9. \A i \in DOMAIN colon : tail[i] = ColonSpec(colon[i], EnterIndex)
  OBVIOUS
<1> HIDE DEF tail
<1>10. CodeWords \o tail \in Seq(SpecWord)
  BY <1>7, <1>8
<1>11. ASSUME NEW i \in DOMAIN (CodeWords \o tail)
       PROVE  Proper((CodeWords \o tail)[i])
  <2>1. Len(CodeWords \o tail) = Len(CodeWords) + Len(tail) /\ i \in 1 .. Len(CodeWords \o tail)
        /\ Len(CodeWords) \in Nat /\ DOMAIN CodeWords = 1 .. Len(CodeWords)
    BY <1>7, <1>8
  <2>2. CASE i \in 1 .. Len(CodeWords)
    <3>1. (CodeWords \o tail)[i] = CodeWords[i]
      BY <1>7, <1>8, <2>2
    <3> QED  BY <1>3, <2>1, <2>2, <3>1
  <2>3. CASE i \notin 1 .. Len(CodeWords)
    <3>1. PICK k \in 1 .. Len(tail) : i = Len(CodeWords) + k
      <4>1. Len(tail) \in Nat /\ i \in Nat /\ i > Len(CodeWords) /\ i <= Len(CodeWords) + Len(tail)
        BY <1>8, <2>1, <2>3
      <4>2. i - Len(CodeWords) \in 1 .. Len(tail) /\ i = Len(CodeWords) + (i - Len(CodeWords))
        BY <2>1, <4>1
      <4> QED  BY <4>2
    <3>2. (CodeWords \o tail)[i] = tail[k]
      BY <1>7, <1>8, <3>1
    <3> QED  BY <1>5, <1>7, <1>8, <1>9, <3>1, <3>2
  <2> QED  BY <2>2, <2>3
<1> QED  BY <1>10, <1>11 DEF tail

(***************************************************************************)
(* What stays                                                              *)
(***************************************************************************)

\* The words that are installed stay so.
Grows == \A i \in DOMAIN installed : i \in DOMAIN installed' /\ installed'[i] = installed[i]

\* The cells of a word are none that its clients write.
LEMMA WordStands ==
  ASSUME DInv, ~lost, Kept, Grows, NEW i \in DOMAIN installed
  PROVE  /\ CfaAt(i)' = CfaAt(i) /\ CfaAt(i) \in Int /\ IsExit(i)' = IsExit(i)
         /\ CountedString(mem', installed'[i].nfa) = CountedString(mem, installed[i].nfa)
         /\ \A j \in 1 .. installed[i].length : mem'[CfaAt(i) + j] = mem[CfaAt(i) + j]
<1>1. PICK nfa : nfa = installed[i].nfa
  OBVIOUS
<1>2. PICK len : len = mem[nfa]
  OBVIOUS
<1>3. PICK size : size = installed[i].length
  OBVIOUS
<1>4. /\ nfa \in Nat /\ len \in Nat /\ size \in Nat /\ Here \in Int /\ Here <= MEMORY_SIZE
      /\ MEMORY_SIZE \in Nat /\ nfa >= 2
  <2>1. installed[i].length \in Nat
    BY InstalledWord DEF DInv
  <2>2. nfa \in Cells \ {0, 1} /\ len \in Nat
    BY <1>1, <1>2, WordBelowHere
  <2>3. Here \in DICTIONARY_BASE .. MEMORY_SIZE /\ Here \in Int
    BY VariablesTyped
  <2> QED  BY <1>3, <2>1, <2>2, <2>3, SystemCells DEF Cells
<1>5. nfa + len + 2 + size <= Here
  <2>1. WordEnd(i) <= Here
    BY WordBelowHere
  <2> QED  BY <1>1, <1>2, <1>3, <2>1 DEF WordEnd
<1>6. ASSUME NEW c \in nfa .. nfa + len + 1 + size
      PROVE  mem'[c] = mem[c]
  <2>1. c \in Cells \ {0, 1} /\ c < Here
    BY <1>4, <1>5 DEF Cells
  <2> QED  BY <2>1 DEF Kept
<1>7. mem'[nfa] = len /\ \A k \in 1 .. len : mem'[nfa + k] = mem[nfa + k]
  BY <1>2, <1>4, <1>6
<1>8. installed'[i].nfa = nfa /\ CfaAt(i) = nfa + len + 1 /\ CfaAt(i)' = nfa + len + 1
  BY <1>1, <1>2, <1>7 DEF Grows, CfaAt
<1>a. CountedString(mem', nfa) = CountedString(mem, nfa)
  BY <1>2, <1>7 DEF CountedString
<1>b. CountedString(mem', installed'[i].nfa) = CountedString(mem, installed[i].nfa)
  BY <1>1, <1>8, <1>a
<1>9. IsExit(i)' = IsExit(i)
  <2>2. IsExit(i)' = (CountedString(mem', nfa) \in ExitCodes)
    BY <1>8 DEF IsExit, ExitCodes
  <2>3. IsExit(i) = (CountedString(mem, nfa) \in ExitCodes)
    BY <1>1 DEF IsExit
  <2> QED  BY <1>a, <2>2, <2>3
<1>10. \A j \in 1 .. size : mem'[nfa + len + 1 + j] = mem[nfa + len + 1 + j]
  BY <1>4, <1>6
<1>11. \A j \in 1 .. installed[i].length : mem'[CfaAt(i) + j] = mem[CfaAt(i) + j]
  BY <1>3, <1>8, <1>10
<1> QED  BY <1>4, <1>8, <1>9, <1>11, <1>b

\* So threads go on calling what they called, and word_cfas is right for as
\* long as it is used.
LEMMA ThreadsStand ==
  ASSUME DInv, ~lost, Kept, Grows
  PROVE  /\ \A i \in DOMAIN installed : Closed(i) => Closed(i)'
         /\ \A n, k : k \in DOMAIN installed /\ cfas[n] = CfaAt(k) /\ (n = "EXIT" => IsExit(k))
                        => /\ k \in DOMAIN installed'
                           /\ cfas[n] = CfaAt(k)' /\ (n = "EXIT" => IsExit(k)')
<1>1. ASSUME NEW i \in DOMAIN installed, Closed(i)
      PROVE  Closed(i)'
  <2>1. installed'[i].length = installed[i].length
    BY DEF Grows
  <2>2. SUFFICES ASSUME NEW j \in 1 .. installed[i].length
                 PROVE  \E k \in 1 .. i - 1 :
                          /\ mem'[CfaAt(i)' + j] = CfaAt(k)'
                          /\ (j = installed[i].length => IsExit(k)')
    BY <2>1, Zenon DEF Closed
  <2>3. PICK k \in 1 .. i - 1 :
          mem[CfaAt(i) + j] = CfaAt(k) /\ (j = installed[i].length => IsExit(k))
    BY <1>1 DEF Closed
  <2>4. k \in DOMAIN installed
    BY InstalledWord DEF DInv
  <2>5. CfaAt(k)' = CfaAt(k) /\ IsExit(k)' = IsExit(k)
    BY <2>4, WordStands
  <2>6. CfaAt(i)' = CfaAt(i) /\ mem'[CfaAt(i) + j] = mem[CfaAt(i) + j]
    BY WordStands
  <2> QED  BY <2>3, <2>5, <2>6
<1>2. ASSUME NEW n, NEW k \in DOMAIN installed, cfas[n] = CfaAt(k), n = "EXIT" => IsExit(k)
      PROVE  /\ k \in DOMAIN installed'
             /\ cfas[n] = CfaAt(k)' /\ (n = "EXIT" => IsExit(k)')
  <2>1. k \in DOMAIN installed'
    BY DEF Grows
  <2>2. CfaAt(k)' = CfaAt(k) /\ IsExit(k)' = IsExit(k)
    BY WordStands
  <2> QED  BY <1>2, <2>1, <2>2, Zenon
<1> QED  BY <1>1, <1>2

\* What stands in memory, and what append_word returns, when it does not raise.
LEMMA AppendedWord ==
  ASSUME DInv, ~lost, NEW e \in EntryType, AppendWord(e)
  PROVE  /\ Grows
         /\ raised' # "none" => installed' = installed
         /\ raised' = "none" =>
              \E n \in DOMAIN installed' :
                /\ \A i \in DOMAIN installed' : i = n \/ i \in DOMAIN installed
                /\ \A i \in DOMAIN installed : i \in 1 .. n - 1
                /\ installed'[n].length = Len(e.thread)
                /\ answer'.cfa = CfaAt(n)'
                /\ CountedString(mem', installed'[n].nfa) = e.codes
                /\ \A j \in 1 .. Len(e.thread) : mem'[CfaAt(n)' + j] = e.thread[j]
<1>1. CASE raised' # "none"
  BY <1>1 DEF AppendWord, Grows
<1>2. CASE raised' = "none"
  <2>0. PICK h, lc, lt \in Nat : PutAt(e, h, lc, lt)
    BY <1>2, WrittenWord
  <2>1. /\ h = Here /\ lc = Len(e.codes) /\ lt = Len(e.thread)
        /\ installed' = Append(installed, [nfa |-> h + 3, length |-> lt])
        /\ answer' = [NoHeader EXCEPT !.cfa = h + 4 + lc]
        /\ mem'[h + 3] = lc
        /\ \A k \in 1 .. lc : mem'[h + 3 + k] = e.codes[k]
        /\ \A j \in 1 .. lt : mem'[h + 4 + lc + j] = e.thread[j]
    BY <2>0 DEF PutAt
  <2>2. CountedString(mem', h + 3) = e.codes
    <3>1. e.codes \in Seq(Int)
      BY DEF EntryType
    <3>2. e.codes \in [1 .. lc -> Int]
      BY <2>1, <3>1, LenProperties
    <3>3. e.codes = [k \in 1 .. lc |-> e.codes[k]]
      BY <3>2
    <3>4. CountedString(mem', h + 3) = [k \in 1 .. lc |-> mem'[h + 3 + k]]
      BY <2>1 DEF CountedString
    <3> QED  BY <2>1, <3>3, <3>4
  <2>3. PICK n \in Nat \ {0} : n = Len(installed) + 1
    BY VariablesTyped
  <2> DEFINE w == [nfa |-> h + 3, length |-> lt]
  <2>4. w.nfa = h + 3 /\ w.length = lt /\ installed' = Append(installed, w)
    BY <2>1
  <2> HIDE DEF w
  <2>5. /\ DOMAIN installed = 1 .. n - 1 /\ DOMAIN installed' = 1 .. n /\ installed'[n] = w
        /\ \A i \in DOMAIN installed : installed'[i] = installed[i]
    BY <2>3, <2>4, VariablesTyped
  <2>6. Grows
    BY <2>5 DEF Grows
  <2>7. CfaAt(n)' = h + 4 + lc
    <3>1. CfaAt(n)' = h + 3 + lc + 1
      BY <2>1, <2>4, <2>5 DEF CfaAt
    <3> QED  BY <3>1
  <2>8. answer'.cfa = CfaAt(n)'
    BY <2>1, <2>7 DEF NoHeader
  <2>9. \A j \in 1 .. Len(e.thread) : mem'[CfaAt(n)' + j] = e.thread[j]
    BY <2>1, <2>7
  <2>10. n \in DOMAIN installed' /\ \A i \in DOMAIN installed' : i = n \/ i \in DOMAIN installed
    BY <2>5
  <2> QED  BY <1>2, <2>1, <2>2, <2>4, <2>5, <2>6, <2>8, <2>9, <2>10
<1> QED  BY <1>1, <1>2

(***************************************************************************)
(* The steps                                                               *)
(***************************************************************************)

\* A step that appends no word and takes nothing from word_cfas.
LEMMA QuietStep ==
  ASSUME BInv, ~lost, DInv', ~lost' => Kept, installed' = installed, cfas' = cfas,
         specs' = specs, boot' = boot, phase' \in {"idle", "words", "boot"}, at' \in Nat
  PROVE  BInv'
<1>1. ASSUME ~lost'
      PROVE  /\ \A n \in DOMAIN cfas' : Known(n)'
             /\ \A i \in DOMAIN installed' : Closed(i)'
  <2>1. DInv /\ Kept /\ Grows
    BY <1>1 DEF BInv, Grows
  <2>2. \A i \in DOMAIN installed' : Closed(i)'
    BY <2>1, ThreadsStand DEF BInv
  <2>3. ASSUME NEW n \in DOMAIN cfas'
        PROVE  Known(n)'
    <3>1. PICK k \in DOMAIN installed : cfas[n] = CfaAt(k) /\ (n = "EXIT" => IsExit(k))
      BY <2>3 DEF BInv, Known
    <3>2. k \in DOMAIN installed' /\ cfas'[n] = CfaAt(k)' /\ (n = "EXIT" => IsExit(k)')
      BY <2>1, <3>1, ThreadsStand
    <3> QED  BY <3>2 DEF Known
  <2> QED  BY <2>2, <2>3
<1>2. /\ specs' \in Seq(SpecWord) /\ \A i \in DOMAIN specs' : Proper(specs'[i])
      /\ boot' \in Seq(BootItems)
  BY DEF BInv
<1>3. (specs \in Seq(SpecWord))' /\ (boot \in Seq(BootItems))' /\ (\A i \in DOMAIN specs : Proper(specs[i]))'
  BY <1>2 DEF SpecWord, BootItems, Proper, ExitCodes, GivenWords
<1> QED  BY <1>1, <1>3 DEF BInv

\* append_word, by build or by its host, with a thread of words that are
\* installed, an EXIT last.
LEMMA WordStep ==
  ASSUME BInv, ~lost, NEW e \in EntryType, AppendWord(e),
         \A j \in 1 .. Len(e.thread) : \E k \in DOMAIN installed :
           e.thread[j] = CfaAt(k) /\ (j = Len(e.thread) => IsExit(k)),
         \/ cfas' = cfas
         \/ \E name : /\ raised' = "none" /\ cfas' = Know(name, answer'.cfa)
                      /\ name = "EXIT" => e.codes \in ExitCodes,
         specs' = specs, boot' = boot, phase' \in {"idle", "words", "boot"}, at' \in Nat
  PROVE  BInv'
<1>1. DInv' /\ Kept /\ Grows
  BY AppendWordKeeps, AppendedWord DEF BInv
<1>2. CASE raised' # "none"
  <2>1. installed' = installed /\ cfas' = cfas
    BY <1>2, AppendedWord DEF BInv
  <2> QED  BY <1>1, <2>1, QuietStep
<1>3. CASE raised' = "none"
  <2>1. PICK n \in DOMAIN installed' :
          /\ \A i \in DOMAIN installed' : i = n \/ i \in DOMAIN installed
          /\ \A i \in DOMAIN installed : i \in 1 .. n - 1
          /\ installed'[n].length = Len(e.thread)
          /\ answer'.cfa = CfaAt(n)'
          /\ CountedString(mem', installed'[n].nfa) = e.codes
          /\ \A j \in 1 .. Len(e.thread) : mem'[CfaAt(n)' + j] = e.thread[j]
    BY <1>3, AppendedWord DEF BInv
  <2>2. Closed(n)'
    <3> SUFFICES ASSUME NEW j \in 1 .. Len(e.thread)
                 PROVE  \E k \in 1 .. n - 1 :
                          /\ mem'[CfaAt(n)' + j] = CfaAt(k)'
                          /\ (j = Len(e.thread) => IsExit(k)')
      BY <2>1, Zenon DEF Closed
    <3>1. PICK k \in DOMAIN installed :
            e.thread[j] = CfaAt(k) /\ (j = Len(e.thread) => IsExit(k))
      OBVIOUS
    <3>2. CfaAt(k)' = CfaAt(k) /\ IsExit(k)' = IsExit(k)
      BY <1>1, WordStands DEF BInv
    <3> QED  BY <2>1, <3>1, <3>2
  <2>3. \A i \in DOMAIN installed' : Closed(i)'
    BY <1>1, <2>1, <2>2, ThreadsStand DEF BInv
  <2>4. ASSUME NEW m \in DOMAIN cfas, cfas'[m] = cfas[m]
        PROVE  Known(m)'
    <3>1. PICK k \in DOMAIN installed : cfas[m] = CfaAt(k) /\ (m = "EXIT" => IsExit(k))
      BY DEF BInv, Known
    <3>2. k \in DOMAIN installed' /\ cfas'[m] = CfaAt(k)' /\ (m = "EXIT" => IsExit(k)')
      BY <1>1, <2>4, <3>1, ThreadsStand DEF BInv
    <3> QED  BY <3>2 DEF Known
  <2>5. CASE cfas' = cfas
    <3>1. \A m \in DOMAIN cfas' : Known(m)'
      BY <2>4, <2>5
    <3> QED  BY <1>1, <2>3, <3>1 DEF BInv, SpecWord, BootItems, Proper, ExitCodes, GivenWords
  <2>6. CASE ~(cfas' = cfas)
    <3>1. PICK name : cfas' = Know(name, answer'.cfa) /\ (name = "EXIT" => e.codes \in ExitCodes)
      BY <2>6
    <3>2. /\ DOMAIN cfas' = {name} \cup DOMAIN cfas /\ cfas'[name] = answer'.cfa
          /\ \A m \in DOMAIN cfas : m # name => cfas'[m] = cfas[m]
      BY <3>1 DEF Know
    <3>3. Known(name)'
      <4>1. name = "EXIT" => IsExit(n)'
        BY <2>1, <3>1 DEF IsExit, ExitCodes
      <4>2. cfas'[name] = CfaAt(n)'
        BY <2>1, <3>2
      <4> QED  BY <4>1, <4>2 DEF Known
    <3>4. \A m \in DOMAIN cfas' : Known(m)'
      BY <2>4, <3>2, <3>3
    <3> QED  BY <1>1, <2>3, <3>4 DEF BInv, SpecWord, BootItems, Proper, ExitCodes, GivenWords
  <2> QED  BY <2>5, <2>6
<1> QED  BY <1>2, <1>3

\* What leaves the dictionary and the stacks alone keeps its invariant.
LEMMA DictionaryLeftAlone ==
  ASSUME DInv, UNCHANGED <<mem, sp, walk, answer, installed, lost>>
  PROVE  DInv' /\ Kept
<1>1. DInv'
  BY DEF DInv, Types, PointersInBounds, Apart, Live, WordsPlaced, WordEnd, ChainLinked,
         Here, Latest, LinkOf
<1>2. Kept
  BY VariablesTyped DEF Kept, Here
<1> QED  BY <1>1, <1>2

\* A call of build starts with no addresses and words that are proper.
LEMMA CallStep ==
  ASSUME BInv, ~lost, Call
  PROVE  BInv'
<1>1. /\ UNCHANGED <<mem, sp, walk, answer, installed, lost>> /\ cfas' = NoCfas
      /\ phase' = "words" /\ at' = 0 /\ boot' \in BootThreads
  BY DEF Call, Begin
<1>2. PICK colon \in ColonLists :
        specs' = CodeWords \o [i \in DOMAIN colon |-> ColonSpec(colon[i], EnterIndex)]
  BY DEF Call, Begin
<1>3. specs' \in Seq(SpecWord) /\ \A i \in DOMAIN specs' : Proper(specs'[i])
  BY <1>2, ProperSpecs
<1>4. boot' \in Seq(BootItems)
  BY <1>1, BuilderAssumption DEF BootItems
<1>5. DInv' /\ Kept /\ Grows
  BY <1>1, DictionaryLeftAlone DEF BInv, Grows
<1>6. \A n \in DOMAIN cfas' : Known(n)'
  BY <1>1 DEF NoCfas
<1>7. \A i \in DOMAIN installed' : Closed(i)'
  BY <1>1, <1>5, ThreadsStand DEF BInv
<1>8. (specs \in Seq(SpecWord))' /\ (boot \in Seq(BootItems))' /\ (\A i \in DOMAIN specs : Proper(specs[i]))'
  BY <1>3, <1>4 DEF SpecWord, BootItems, Proper, ExitCodes, GivenWords
<1> QED  BY <1>1, <1>5, <1>6, <1>7, <1>8 DEF BInv

\* install(): every address is looked up before the word is appended, so its
\* thread has words of this build before it.
LEMMA InstallStep ==
  ASSUME BInv, ~lost, Install
  PROVE  BInv'
<1>1. /\ DInv /\ at \in Nat /\ at < Len(specs) /\ specs \in Seq(SpecWord)
      /\ phase \in {"idle", "words", "boot"}
      /\ UNCHANGED <<specs, boot, bootIp, start, calls, images>>
  BY DEF BInv, Install
<1>2. PICK w : w = specs[at + 1]
  OBVIOUS
<1>3. Proper(w)
  <2>1. at + 1 \in DOMAIN specs
    BY <1>1
  <2> QED  BY <1>2, <2>1 DEF BInv
<1>4. /\ w.codes \in Seq(Int) /\ w.words \in Seq(STRING) /\ w.field \in Int /\ w.immediate \in BOOLEAN
      /\ w.name = "EXIT" => w.codes \in ExitCodes
      /\ w.words # << >> => w.words[Len(w.words)] = "EXIT"
  <2>1. w \in SpecWord
    BY <1>3 DEF Proper
  <2>2. w.codes \in Seq(Int) /\ w.words \in Seq(STRING) /\ w.field \in Int /\ w.immediate \in BOOLEAN
    BY <2>1, Zenon DEF SpecWord
  <2> QED  BY <1>3, <2>2 DEF Proper
<1>5. CASE ~(Range(w.words) \subseteq DOMAIN cfas)
  <2>1. KernelError
    BY <1>2, <1>5, Zenon DEF Install
  <2>2. /\ UNCHANGED <<mem, sp, walk, answer, installed, lost>> /\ phase' = "idle"
        /\ UNCHANGED <<at, cfas>>
    BY <2>1 DEF KernelError, Fails
  <2>3. DInv' /\ Kept
    BY <1>1, <2>2, DictionaryLeftAlone
  <2> QED  BY <1>1, <2>2, <2>3, QuietStep
<1>6. CASE Range(w.words) \subseteq DOMAIN cfas
  <2> DEFINE thread == [j \in DOMAIN w.words |-> cfas[w.words[j]]]
             e == [codes |-> w.codes, immediate |-> w.immediate, field |-> w.field,
                   thread |-> thread]
  <2>1. AppendAs(w, thread)
    BY <1>2, <1>6, Zenon DEF Install
  <2>2. DOMAIN w.words = 1 .. Len(w.words) /\ Len(w.words) \in Nat
    BY <1>4
  <2>3. \A j \in DOMAIN w.words : w.words[j] \in DOMAIN cfas
    BY <1>6 DEF Range
  <2>4. ASSUME NEW j \in DOMAIN w.words
        PROVE  \E k \in DOMAIN installed :
                 thread[j] = CfaAt(k) /\ (w.words[j] = "EXIT" => IsExit(k))
    <3>1. Known(w.words[j])
      BY <2>3 DEF BInv
    <3> QED  BY <3>1 DEF Known
  <2>5. ASSUME NEW k \in DOMAIN installed
        PROVE  CfaAt(k) \in Int
    BY <1>1, WordBelowHere, SystemCells DEF CfaAt, Cells
  <2>6. thread \in Seq(Int) /\ Len(thread) = Len(w.words)
    <3>1. \A j \in DOMAIN w.words : cfas[w.words[j]] \in Int
      BY <2>4, <2>5
    <3> QED  BY <2>2, <3>1
  <2>7. \A j \in 1 .. Len(e.thread) : \E k \in DOMAIN installed :
          e.thread[j] = CfaAt(k) /\ (j = Len(e.thread) => IsExit(k))
    <3> SUFFICES ASSUME NEW j \in DOMAIN w.words
                 PROVE  \E k \in DOMAIN installed :
                          thread[j] = CfaAt(k) /\ (j = Len(w.words) => IsExit(k))
      BY <2>2, <2>6
    <3>1. w.words # << >>
      BY <2>2
    <3>2. j = Len(w.words) => w.words[j] = "EXIT"
      BY <1>4, <3>1
    <3> QED  BY <2>4, <3>2
  <2> HIDE DEF thread
  <2>8. e \in EntryType
    BY <1>4, <2>6 DEF EntryType
  <2>9. /\ AppendWord(e)
        /\ IF raised' = "none"
           THEN cfas' = Know(w.name, answer'.cfa) /\ at' = at + 1 /\ UNCHANGED phase
           ELSE Fails
    BY <2>1 DEF AppendAs
  <2>10. e.codes = w.codes
    OBVIOUS
  <2> HIDE DEF e
  <2>11. /\ phase' \in {"idle", "words", "boot"} /\ at' \in Nat
         /\ \/ cfas' = cfas
            \/ \E name : /\ raised' = "none" /\ cfas' = Know(name, answer'.cfa)
                         /\ name = "EXIT" => e.codes \in ExitCodes
    <3>1. CASE raised' = "none"
      BY <1>1, <1>4, <2>9, <2>10, <3>1
    <3>2. CASE raised' # "none"
      BY <1>1, <2>9, <3>2 DEF Fails
    <3> QED  BY <3>1, <3>2
  <2> QED  BY <1>1, <2>7, <2>8, <2>9, <2>11, WordStep
<1> QED  BY <1>5, <1>6

\* A boot item is a cell behind the words.
LEMMA BootItemKeeps ==
  ASSUME BInv, ~lost, BootItem
  PROVE  /\ DInv' /\ Kept /\ installed' = installed
         /\ cfas' = cfas /\ phase' \in {"idle", "words", "boot"} /\ at' \in Nat
<1>1. /\ DInv /\ at \in Nat /\ at < Len(boot) /\ boot \in Seq(BootItems)
      /\ phase \in {"idle", "words", "boot"}
      /\ UNCHANGED <<specs, boot, bootIp, start, calls, images>>
  BY DEF BInv, BootItem
<1>2. PICK item : item = boot[at + 1]
  OBVIOUS
<1>3. item \in BootItems
  <2>1. at + 1 \in 1 .. Len(boot)
    BY <1>1
  <2> HIDE DEF BootItems
  <2> QED  BY <1>1, <1>2, <2>1
<1>4. CASE item[1] = "word" /\ item[2] \notin DOMAIN cfas
  <2>1. KernelError
    BY <1>2, <1>4, Zenon DEF BootItem
  <2>2. /\ UNCHANGED <<mem, sp, walk, answer, installed, lost>> /\ phase' = "idle"
        /\ UNCHANGED <<at, cfas>>
    BY <2>1 DEF KernelError, Fails
  <2>3. DInv' /\ Kept
    BY <1>1, <2>2, DictionaryLeftAlone
  <2> QED  BY <1>1, <2>2, <2>3
<1>5. CASE ~(item[1] = "word" /\ item[2] \notin DOMAIN cfas)
  <2>1. PICK v : v = IF item[1] = "word" THEN cfas[item[2]] ELSE item[2]
    OBVIOUS
  <2>2. /\ AppendCell(v)
        /\ IF raised' = "none" THEN at' = at + 1 /\ UNCHANGED <<phase, cfas>> ELSE Fails
    BY <1>2, <1>5, <2>1, Zenon DEF BootItem
  <2>3. v \in Int
    <3>1. CASE item[1] = "word"
      <4>1. Known(item[2])
        BY <1>5, <3>1 DEF BInv
      <4>2. PICK k \in DOMAIN installed : cfas[item[2]] = CfaAt(k)
        BY <4>1 DEF Known
      <4>3. CfaAt(k) \in Int
        BY <1>1, WordBelowHere, SystemCells DEF CfaAt, Cells
      <4> QED  BY <2>1, <3>1, <4>2, <4>3
    <3>2. CASE item[1] # "word"
      <4>1. item[2] \in Int
        BY <1>3, <3>2 DEF BootItems
      <4> QED  BY <2>1, <3>2, <4>1
    <3> QED  BY <3>1, <3>2
  <2>4. DInv' /\ Kept /\ installed' = installed
    BY <1>1, <2>2, <2>3, AppendCellKeeps DEF AppendCell
  <2>5. cfas' = cfas /\ phase' \in {"idle", "words", "boot"} /\ at' \in Nat
    <3>1. CASE raised' = "none"
      BY <1>1, <2>2, <3>1
    <3>2. CASE raised' # "none"
      BY <1>1, <2>2, <3>2 DEF Fails
    <3> QED  BY <3>1, <3>2
  <2> QED  BY <2>4, <2>5
<1> QED  BY <1>4, <1>5

\* The host appends cells and code words, and uses the stacks.
LEMMA HostStep ==
  ASSUME HostAppendsCode, BInv, ~lost, HostCall
  PROVE  BInv'
<1>1. /\ DInv /\ UNCHANGED <<phase, specs, boot, at, cfas, bootIp, start, images>>
      /\ phase \in {"idle", "words", "boot"} /\ at \in Nat
  BY DEF BInv, HostCall
<1>2. ASSUME NEW v \in Scalars, AppendCell(v)
      PROVE  BInv'
  <2>1. DInv' /\ Kept /\ installed' = installed
    BY <1>1, <1>2, AppendCellKeeps, DictionaryAssumption DEF AppendCell
  <2> QED  BY <1>1, <2>1, QuietStep
<1>3. ASSUME NEW s \in Stacks, NEW v \in Scalars, Push(s, v)
      PROVE  BInv'
  <2>1. DInv' /\ (~lost' => Kept) /\ installed' = installed
    BY <1>1, <1>3, PushKeeps, DictionaryAssumption DEF Push
  <2> QED  BY <1>1, <2>1, QuietStep
<1>4. ASSUME NEW s \in Stacks, Pop(s)
      PROVE  BInv'
  <2>1. DInv' /\ Kept /\ installed' = installed
    BY <1>1, <1>4, PopKeeps DEF Pop
  <2> QED  BY <1>1, <2>1, QuietStep
<1>5. ASSUME NEW e \in Entries, AppendWord(e)
      PROVE  BInv'
  <2>1. e \in EntryType /\ e.thread = << >>
    BY DictionaryAssumption DEF EntryType, HostAppendsCode
  <2>2. \A j \in 1 .. Len(e.thread) : \E k \in DOMAIN installed :
          e.thread[j] = CfaAt(k) /\ (j = Len(e.thread) => IsExit(k))
    BY <2>1
  <2> QED  BY <1>1, <1>5, <2>1, <2>2, WordStep
<1> QED  BY <1>2, <1>3, <1>4, <1>5, Zenon DEF HostCall

(***************************************************************************)
(* The theorems                                                            *)
(***************************************************************************)

\* Nothing is installed when the first build begins.
LEMMA InitBInv == BuilderInit => BInv
<1> SUFFICES ASSUME BuilderInit PROVE BInv
  OBVIOUS
<1>1. /\ Init /\ phase = "idle" /\ specs = << >> /\ boot = << >> /\ at = 0 /\ cfas = NoCfas
      /\ installed = << >>
  BY DEF BuilderInit, Init
<1>2. \A n \in DOMAIN cfas : Known(n)
  BY <1>1 DEF NoCfas
<1>3. \A i \in DOMAIN installed : Closed(i)
  BY <1>1
<1>4. specs \in Seq(SpecWord) /\ boot \in Seq(BootItems) /\ \A i \in DOMAIN specs : Proper(specs[i])
  BY <1>1
<1> QED  BY <1>1, <1>2, <1>3, <1>4, InitDInv DEF BInv

\* Every step of build and of its host keeps the invariant.
LEMMA NextBInv ==
  ASSUME HostAppendsCode
  PROVE  BInv /\ [BuilderNext]_<<vars, buildVars>> => BInv'
<1> SUFFICES ASSUME BInv, [BuilderNext]_<<vars, buildVars>> PROVE BInv'
  OBVIOUS
<1> DEFINE Still == /\ UNCHANGED <<mem, sp, walk, answer, installed, lost>>
                    /\ UNCHANGED <<specs, boot, cfas>>
<1>0. DInv /\ phase \in {"idle", "words", "boot"} /\ at \in Nat
  BY DEF BInv
<1>1. CASE UNCHANGED <<vars, buildVars>>
  <2>1. UNCHANGED <<mem, sp, walk, answer, installed, lost, phase, specs, boot, at, cfas>>
    BY <1>1 DEF vars, dictVars, buildVars
  <2>2. CASE ~lost
    BY <1>0, <2>1, <2>2, DictionaryLeftAlone, QuietStep
  <2>3. CASE lost
    <3>1. DInv' /\ lost' = lost
      BY <1>0, <2>1, DictionaryLeftAlone
    <3> QED  BY <2>1, <2>3, <3>1 DEF BInv, Proper, SpecWord, BootItems, ExitCodes, GivenWords
  <2> QED  BY <2>2, <2>3
<1>2. CASE BuilderNext
  <2>1. ~lost
    BY <1>2 DEF BuilderNext
  <2>2. CASE Call
    BY <2>1, <2>2, CallStep
  <2>3. CASE Install
    BY <2>1, <2>3, InstallStep
  <2>4. CASE BeginBoot
    <3>1. Still /\ phase' = "boot" /\ at' = 0
      BY <2>4 DEF BeginBoot, vars, dictVars
    <3> QED  BY <1>0, <2>1, <3>1, DictionaryLeftAlone, QuietStep
  <2>5. CASE BootItem
    BY <2>1, <2>5, BootItemKeeps, QuietStep DEF BootItem
  <2>6. CASE Return
    <3>1. Still /\ phase' = "idle" /\ at' = at
      BY <2>6 DEF Return, vars, dictVars
    <3> QED  BY <1>0, <2>1, <3>1, DictionaryLeftAlone, QuietStep
  <2>7. CASE HostCall
    BY <2>1, <2>7, HostStep
  <2> QED  BY <1>2, <2>2, <2>3, <2>4, <2>5, <2>6, <2>7 DEF BuilderNext, Build
<1> QED  BY <1>1, <1>2

\* The invariant holds whatever is built, fails to be built or is appended.
THEOREM BuilderInvariant == HostAppendsCode => (BuilderSpec => []BInv)
<1> SUFFICES ASSUME HostAppendsCode PROVE BuilderSpec => []BInv
  OBVIOUS
<1>1. BInv /\ [BuilderNext]_<<vars, buildVars>> => BInv'
  BY NextBInv
<1> QED  BY <1>1, InitBInv, PTL DEF BuilderSpec

\* Every word the dictionary can find has a thread of words completed before
\* it, and a thread ends in a word that was named EXIT, whatever builds fail:
\* no word runs into nothing, or into itself (builder.py 59-82).
THEOREM BuilderThreadsClosed == HostAppendsCode => (BuilderSpec => []ThreadsClosed)
<1> SUFFICES ASSUME HostAppendsCode PROVE BuilderSpec => []ThreadsClosed
  OBVIOUS
<1>1. BInv => ThreadsClosed
  BY DEF BInv, Closed, IsExit, ThreadsClosed, ExitCodes
<1>2. BuilderSpec => []BInv
  BY BuilderInvariant
<1> QED  BY <1>1, <1>2, PTL

\* The link chain stays whole under build too: a build that fails half way
\* leaves complete words or none (builder.py 48-82).
THEOREM BuilderChain == HostAppendsCode => (BuilderSpec => []ChainIsWhole)
<1> SUFFICES ASSUME HostAppendsCode PROVE BuilderSpec => []ChainIsWhole
  OBVIOUS
<1>1. BInv => ChainIsWhole
  BY InvariantChain DEF BInv
<1>2. BuilderSpec => []BInv
  BY BuilderInvariant
<1> QED  BY <1>1, <1>2, PTL

\* Whatever a name is known by in word_cfas, during a build and after it, is
\* the address of a word that stands, for EXIT that of an EXIT (install).
THEOREM BuilderKnowsWords ==
  HostAppendsCode => (BuilderSpec => [](~lost => \A n \in DOMAIN cfas : Known(n)))
<1> SUFFICES ASSUME HostAppendsCode
             PROVE  BuilderSpec => [](~lost => \A n \in DOMAIN cfas : Known(n))
  OBVIOUS
<1>1. BInv => (~lost => \A n \in DOMAIN cfas : Known(n))
  BY DEF BInv
<1>2. BuilderSpec => []BInv
  BY BuilderInvariant
<1> QED  BY <1>1, <1>2, PTL

(***************************************************************************)
(* find() and word_cfas                                                    *)
(***************************************************************************)

\* The last m words of the dictionary, behind the first base ones, are the
\* first m of the build, and word_cfas has the newest of each name.
Installed(base, m) ==
  /\ m <= Len(specs) /\ base + m = Len(installed)
  /\ \A i \in 1 .. m : CountedString(mem, installed[base + i].nfa) = specs[i].codes
  /\ DOMAIN cfas = {specs[i].name : i \in 1 .. m}
  /\ \A i \in 1 .. m :
       (\A j \in i + 1 .. m : specs[j].name # specs[i].name)
         => cfas[specs[i].name] = CfaAt(base + i)

\* How many words of the build there are.
Done == IF phase = "words" THEN at ELSE Len(specs)

FInv ==
  /\ BInv
  /\ ~lost /\ phase # "idle" => \E base \in Nat : Installed(base, Done)

\* They stand for as long as none is appended.
LEMMA InstalledStands ==
  ASSUME BInv, ~lost, Kept, installed' = installed, cfas' = cfas, specs' = specs,
         NEW base \in Nat, NEW m \in Nat, Installed(base, m)
  PROVE  Installed(base, m)'
<1>1. DInv /\ Grows /\ DOMAIN installed = 1 .. Len(installed) /\ Len(installed) \in Nat
  BY InstalledWord DEF BInv, DInv, Grows
<1>2. base + m = Len(installed)
  BY DEF Installed
<1>3. ASSUME NEW i \in 1 .. m
      PROVE  /\ CountedString(mem', installed'[base + i].nfa) = CountedString(mem, installed[base + i].nfa)
             /\ CfaAt(base + i)' = CfaAt(base + i)
  <2>1. base + i \in DOMAIN installed
    BY <1>1, <1>2
  <2> QED  BY <1>1, <2>1, WordStands
<1>4. \A i \in 1 .. m : CountedString(mem', installed'[base + i].nfa) = specs'[i].codes
  BY <1>3 DEF Installed
<1>5. ASSUME NEW i \in 1 .. m, \A j \in i + 1 .. m : specs'[j].name # specs'[i].name
      PROVE  cfas'[specs'[i].name] = CfaAt(base + i)'
  BY <1>3, <1>5 DEF Installed
<1>6. m <= Len(specs') /\ base + m = Len(installed') /\ DOMAIN cfas' = {specs'[i].name : i \in 1 .. m}
  BY DEF Installed
<1> QED  BY <1>4, <1>5, <1>6 DEF Installed

\* A word more is the next one's.
LEMMA OneMoreInstalled ==
  ASSUME BInv, ~lost, NEW base \in Nat, NEW m \in Nat, Installed(base, m), m < Len(specs),
         NEW e \in EntryType, AppendWord(e), raised' = "none", specs' = specs,
         e.codes = specs[m + 1].codes, cfas' = Know(specs[m + 1].name, answer'.cfa)
  PROVE  Installed(base, m + 1)'
<1>1. /\ DInv /\ DOMAIN installed = 1 .. Len(installed) /\ Len(installed) \in Nat
      /\ base + m = Len(installed) /\ Len(specs) \in Nat
  BY InstalledWord DEF BInv, DInv, Installed
<1>2. DInv' /\ Kept /\ Grows
  BY <1>1, AppendWordKeeps, AppendedWord
<1>3. PICK n \in DOMAIN installed' :
        /\ \A i \in DOMAIN installed' : i = n \/ i \in DOMAIN installed
        /\ \A i \in DOMAIN installed : i \in 1 .. n - 1
        /\ answer'.cfa = CfaAt(n)'
        /\ CountedString(mem', installed'[n].nfa) = e.codes
  BY <1>1, AppendedWord
<1>4. installed' = Append(installed, [nfa |-> Here + NAME_LENGTH, length |-> Len(e.thread)])
  BY DEF AppendWord
<1>5. Len(installed') = Len(installed) + 1 /\ DOMAIN installed' = 1 .. Len(installed) + 1
  BY <1>1, <1>4, VariablesTyped
<1>6. n = base + (m + 1)
  <2>1. Len(installed) + 1 = n \/ Len(installed) + 1 \in DOMAIN installed
    BY <1>1, <1>3, <1>5
  <2> QED  BY <1>1, <2>1
<1>7. ASSUME NEW i \in 1 .. m
      PROVE  /\ CountedString(mem', installed'[base + i].nfa) = CountedString(mem, installed[base + i].nfa)
             /\ CfaAt(base + i)' = CfaAt(base + i)
  <2>1. base + i \in DOMAIN installed
    BY <1>1
  <2> QED  BY <1>1, <1>2, <2>1, WordStands
<1>8. ASSUME NEW i \in 1 .. m + 1
      PROVE  CountedString(mem', installed'[base + i].nfa) = specs'[i].codes
  <2>1. CASE i \in 1 .. m
    BY <1>7, <2>1 DEF Installed
  <2>2. CASE i = m + 1
    BY <1>3, <1>6, <2>2
  <2> QED  BY <2>1, <2>2
<1>9. /\ DOMAIN cfas' = DOMAIN cfas \cup {specs[m + 1].name}
      /\ cfas'[specs[m + 1].name] = answer'.cfa
      /\ \A x \in DOMAIN cfas : x # specs[m + 1].name => cfas'[x] = cfas[x]
  BY DEF Know
<1>10. DOMAIN cfas' = {specs'[i].name : i \in 1 .. m + 1}
  <2>1. DOMAIN cfas = {specs[i].name : i \in 1 .. m}
    BY DEF Installed
  <2>2. \A i : i \in 1 .. m + 1 <=> i \in 1 .. m \/ i = m + 1
    OBVIOUS
  <2> QED  BY <1>9, <2>1, <2>2
<1>11. ASSUME NEW i \in 1 .. m + 1, \A j \in i + 1 .. m + 1 : specs'[j].name # specs'[i].name
       PROVE  cfas'[specs'[i].name] = CfaAt(base + i)'
  <2>1. CASE i \in 1 .. m
    <3>1. m + 1 \in i + 1 .. m + 1 /\ \A j \in i + 1 .. m : j \in i + 1 .. m + 1
      BY <2>1
    <3>2. specs[m + 1].name # specs[i].name /\ \A j \in i + 1 .. m : specs[j].name # specs[i].name
      BY <1>11, <3>1
    <3>3. cfas[specs[i].name] = CfaAt(base + i) /\ specs[i].name \in DOMAIN cfas
      BY <2>1, <3>2 DEF Installed
    <3> QED  BY <1>7, <1>9, <2>1, <3>2, <3>3
  <2>2. CASE i = m + 1
    BY <1>3, <1>6, <1>9, <2>2
  <2> QED  BY <2>1, <2>2
<1>12. m + 1 <= Len(specs') /\ base + (m + 1) = Len(installed')
  BY <1>1, <1>5
<1> QED  BY <1>8, <1>10, <1>11, <1>12 DEF Installed

\* Every step of build and of its host keeps it.
LEMMA NextFInv ==
  ASSUME HostAppendsCode
  PROVE  FInv /\ [BuilderNext]_<<vars, buildVars>> => FInv'
<1> SUFFICES ASSUME FInv, [BuilderNext]_<<vars, buildVars>>, ~lost', phase' # "idle"
             PROVE  \E base \in Nat : Installed(base, Done)'
  BY NextBInv DEF FInv
<1>0. BInv /\ DInv /\ at \in Nat /\ phase \in {"idle", "words", "boot"} /\ specs \in Seq(SpecWord)
  BY DEF FInv, BInv
<1>1. CASE UNCHANGED <<vars, buildVars>>
  <2>1. UNCHANGED <<mem, installed, cfas, specs, phase, at, lost>>
    BY <1>1 DEF vars, dictVars, buildVars
  <2>2. PICK base \in Nat, m \in Nat : m = Done /\ Installed(base, m)
    <3>1. Done \in Nat
      BY <1>0 DEF Done
    <3> QED  BY <2>1, <3>1 DEF FInv
  <2>3. Installed(base, m)'
    BY <2>1, <2>2 DEF Installed, CfaAt
  <2>4. Done' = m
    BY <2>1, <2>2 DEF Done
  <2> QED  BY <2>3, <2>4 DEF Installed
<1>2. CASE BuilderNext
  <2>1. ~lost
    BY <1>2 DEF BuilderNext
  <2>2. CASE Call
    <3>1. /\ installed' = installed /\ cfas' = NoCfas /\ phase' = "words" /\ at' = 0
      BY <2>2 DEF Call, Begin
    <3>2. PICK base \in Nat : base = Len(installed)
      BY <1>0, InstalledWord DEF DInv
    <3>3. specs' \in Seq(SpecWord)
      BY <2>2, ProperSpecs DEF Call, Begin
    <3>4. Installed(base, 0)'
      BY <3>1, <3>2, <3>3 DEF Installed, NoCfas
    <3>5. Done' = 0
      BY <3>1 DEF Done
    <3> QED  BY <3>4, <3>5 DEF Installed
  <2>3. CASE Install
    <3>1. phase = "words" /\ at < Len(specs) /\ specs' = specs
      BY <2>3 DEF Install
    <3>a. PICK m \in Nat : m = at
      BY <1>0
    <3>2. PICK base \in Nat : Installed(base, m)
      BY <2>1, <3>1, <3>a DEF FInv, Done
    <3> DEFINE w == specs[m + 1]
               thread == [j \in DOMAIN w.words |-> cfas[w.words[j]]]
               e == [codes |-> w.codes, immediate |-> w.immediate, field |-> w.field,
                     thread |-> thread]
    <3>3. AppendAs(w, thread)
      BY <2>3, <1>2, <3>a DEF Install, KernelError, Fails
    <3>4. AppendWord(e) /\ raised' = "none" /\ cfas' = Know(w.name, answer'.cfa) /\ at' = at + 1
          /\ phase' = phase
      BY <3>3 DEF AppendAs, Fails
    <3>5. e \in EntryType
      <4>1. w \in SpecWord
        <5>1. at + 1 \in 1 .. Len(specs)
          BY <1>0, <3>1, <3>a
        <5> QED  BY <1>0, <3>a, <5>1
      <4>2. w.codes \in Seq(Int) /\ w.words \in Seq(STRING) /\ w.field \in Int /\ w.immediate \in BOOLEAN
        <5> HIDE DEF w
        <5> QED  BY <4>1, Zenon DEF SpecWord
      <4>3. \A j \in DOMAIN w.words : w.words[j] \in DOMAIN cfas
        <5>1. Range(w.words) \subseteq DOMAIN cfas
          BY <2>3, <3>a DEF Install, KernelError, Fails
        <5> QED  BY <5>1 DEF Range
      <4>4. \A j \in DOMAIN w.words : cfas[w.words[j]] \in Int
        <5> SUFFICES ASSUME NEW j \in DOMAIN w.words
                     PROVE  cfas[w.words[j]] \in Int
          OBVIOUS
        <5>1. Known(w.words[j])
          BY <1>0, <2>1, <4>3 DEF BInv
        <5>2. PICK k \in DOMAIN installed : cfas[w.words[j]] = CfaAt(k)
          BY <5>1 DEF Known
        <5> QED  BY <1>0, <2>1, <5>2, NameLength DEF CfaAt
      <4>5. thread \in Seq(Int)
        <5> HIDE DEF w
        <5>1. DOMAIN w.words = 1 .. Len(w.words) /\ Len(w.words) \in Nat
          BY <4>2
        <5> QED  BY <4>4, <5>1
      <4> HIDE DEF thread, w
      <4> QED  BY <4>2, <4>5 DEF EntryType
    <3>6. e.codes = w.codes
      OBVIOUS
    <3> HIDE DEF e
    <3>7. Installed(base, m + 1)'
      BY <1>0, <2>1, <3>1, <3>a, <3>2, <3>4, <3>5, <3>6, OneMoreInstalled
    <3>8. Done' = m + 1
      BY <3>1, <3>4, <3>a DEF Done
    <3> QED  BY <3>7, <3>8 DEF Installed
  <2>4. CASE BeginBoot
    <3>1. /\ UNCHANGED <<mem, sp, walk, answer, installed, lost>> /\ UNCHANGED <<specs, cfas>>
          /\ phase = "words" /\ at = Len(specs) /\ phase' = "boot"
      BY <2>4 DEF BeginBoot, vars, dictVars
    <3>2. PICK base \in Nat : Installed(base, at)
      BY <2>1, <3>1 DEF FInv, Done
    <3>3. Kept
      BY <1>0, <3>1, DictionaryLeftAlone
    <3>5. PICK m \in Nat : m = at
      BY <1>0
    <3>6. Installed(base, m)'
      BY <1>0, <2>1, <3>1, <3>2, <3>3, <3>5, InstalledStands
    <3>7. Done' = m
      BY <3>1, <3>5 DEF Done
    <3> QED  BY <3>6, <3>7 DEF Installed
  <2>5. CASE BootItem
    <3>1. phase = "boot" /\ specs' = specs /\ phase' = phase
      BY <2>5, <1>0 DEF BootItem, KernelError, Fails
    <3>2. PICK m \in Nat : m = Len(specs)
      BY <1>0
    <3>3. PICK base \in Nat : Installed(base, m)
      BY <2>1, <3>1, <3>2 DEF FInv, Done
    <3>4. Kept /\ installed' = installed /\ cfas' = cfas
      BY <1>0, <2>1, <2>5, BootItemKeeps
    <3>5. Installed(base, m)' /\ Done' = m
      BY <1>0, <2>1, <3>1, <3>2, <3>3, <3>4, InstalledStands DEF Done
    <3> QED  BY <3>5 DEF Installed
  <2>6. CASE Return \/ HostCall
    <3>1. phase' = "idle"
      BY <2>6 DEF Return, HostCall
    <3> QED  BY <3>1
  <2> QED  BY <1>2, <2>2, <2>3, <2>4, <2>5, <2>6 DEF BuilderNext, Build
<1> QED  BY <1>1, <1>2

\* It holds whatever is built.
LEMMA BuilderInstalled == HostAppendsCode => (BuilderSpec => []FInv)
<1> SUFFICES ASSUME HostAppendsCode PROVE BuilderSpec => []FInv
  OBVIOUS
<1>1. BuilderInit => FInv
  BY InitBInv DEF BuilderInit, FInv
<1>2. FInv /\ [BuilderNext]_<<vars, buildVars>> => FInv'
  BY NextFInv
<1> QED  BY <1>1, <1>2, PTL DEF BuilderSpec

\* The newest word of a name in the dictionary is the one word_cfas knows.
LEMMA FindsKnown ==
  ASSUME BInv, ~lost, NEW base \in Nat, Installed(base, Len(specs)), NEW i \in DOMAIN specs
  PROVE  LET nfa == Search(specs[i].codes)
         IN  nfa # 0 /\ HeaderAt(nfa).cfa = cfas[specs[i].name]
<1> DEFINE c == specs[i].codes
<1>0. PICK m \in Nat : m = Len(specs)
  BY DEF BInv
<1>1. /\ DInv /\ DOMAIN installed = 1 .. Len(installed) /\ Len(installed) \in Nat
      /\ base + m = Len(installed) /\ DOMAIN specs = 1 .. m
  BY <1>0, InstalledWord DEF BInv, DInv, Installed
<1>2. \A j \in 1 .. m : CountedString(mem, installed[base + j].nfa) = specs[j].codes
  BY <1>0 DEF Installed
<1>3. \A j \in 1 .. m : base + j \in DOMAIN installed
  BY <1>1
<1>4. IsNewest(Search(c), c)
  BY <1>1, SearchIsNewest
<1>5. PICK k \in DOMAIN installed :
        /\ Search(c) = installed[k].nfa /\ CountedString(mem, installed[k].nfa) = c
        /\ \A j \in DOMAIN installed : j > k => CountedString(mem, installed[j].nfa) # c
  <2>1. CountedString(mem, installed[base + i].nfa) = c /\ base + i \in DOMAIN installed
    BY <1>1, <1>2, <1>3
  <2> QED  BY <1>4, <2>1 DEF IsNewest
<1>6. PICK j \in 1 .. m : k = base + j
  <2>1. ~(base + i > k)
    BY <1>1, <1>2, <1>3, <1>5
  <2>2. k - base \in 1 .. m /\ k = base + (k - base)
    BY <1>1, <2>1
  <2> QED  BY <2>2
<1>7. \A x, y \in DOMAIN specs : specs[x].name = specs[y].name <=> specs[x].codes = specs[y].codes
  <2>1. \A x \in DOMAIN specs :
          \E v \in GivenWords : v.name = specs[x].name /\ v.codes = specs[x].codes
    BY DEF BInv, Proper
  <2>2. \A v, w \in GivenWords : v.name = w.name <=> v.codes = w.codes
    BY BuilderAssumption DEF GivenWords
  <2> QED  BY <2>1, <2>2
<1>8. specs[j].name = specs[i].name
  BY <1>1, <1>2, <1>5, <1>6, <1>7
<1>9. \A l \in j + 1 .. m : specs[l].name # specs[j].name
  <2> SUFFICES ASSUME NEW l \in j + 1 .. m PROVE specs[l].name # specs[j].name
    OBVIOUS
  <2>1. l \in 1 .. m /\ base + l > k
    BY <1>6
  <2>2. specs[l].codes # c
    BY <1>2, <1>3, <1>5, <2>1
  <2> QED  BY <1>1, <1>7, <1>8, <2>1, <2>2
<1>10. cfas[specs[i].name] = CfaAt(k)
  BY <1>0, <1>6, <1>8, <1>9 DEF Installed
<1>11. /\ installed[k].nfa \in Nat /\ Len(CountedString(mem, installed[k].nfa)) = mem[installed[k].nfa]
       /\ mem[installed[k].nfa] \in Nat
  BY <1>1, NameLength
<1>12. HeaderAt(installed[k].nfa).cfa = installed[k].nfa + 1 + mem[installed[k].nfa]
  BY <1>11 DEF HeaderAt
<1>13. HeaderAt(installed[k].nfa).cfa = CfaAt(k)
  BY <1>11, <1>12 DEF CfaAt
<1>14. installed[k].nfa # 0
  BY <1>1, WordBelowHere
<1> QED  BY <1>5, <1>10, <1>13, <1>14

\* When build returns, dictionary.find and the image's word_cfas agree on every
\* name of the build, words of former builds and redefinitions notwithstanding
\* (builder.py 48-82, dictionary.py 71-83).
THEOREM BuilderFindAgrees == HostAppendsCode => (BuilderSpec => FindAgrees)
<1> SUFFICES ASSUME HostAppendsCode PROVE BuilderSpec => FindAgrees
  OBVIOUS
<1> DEFINE Agrees == \A i \in DOMAIN specs :
                       LET nfa == Search(specs[i].codes)
                       IN  nfa # 0 /\ HeaderAt(nfa).cfa = cfas[specs[i].name]
           Returns == phase = "boot" /\ phase' = "idle" /\ raised' = "none"
<1>1. FInv /\ [BuilderNext]_<<vars, buildVars>> => [Returns => Agrees]_<<vars, buildVars>>
  <2> SUFFICES ASSUME FInv, BuilderNext, Returns
               PROVE  Agrees
    OBVIOUS
  <2>1. BInv /\ ~lost /\ phase = "boot"
    BY DEF FInv, BuilderNext
  <2>2. PICK base \in Nat : Installed(base, Len(specs))
    BY <2>1 DEF FInv, Done
  <2> QED  BY <2>1, <2>2, FindsKnown
<1>2. BuilderSpec => []FInv
  BY BuilderInstalled
<1>3. [][Returns => Agrees]_<<vars, buildVars>> <=> FindAgrees
  BY DEF FindAgrees
<1> HIDE DEF Agrees, Returns
<1> QED  BY <1>1, <1>2, <1>3, PTL DEF BuilderSpec

(***************************************************************************)
(* Where the words of a build lie                                          *)
(***************************************************************************)

\* How many cells a word of a build takes.
WordSize(w) == HeaderSize + Len(w.codes) + 1 + Len(w.words)

\* The fields of a word that is given to build, and its size.
LEMMA SpecFields ==
  ASSUME NEW w \in Seq(SpecWord), NEW i \in DOMAIN w
  PROVE  /\ w[i].codes \in Seq(Int) /\ w[i].words \in Seq(STRING)
         /\ w[i].field \in Int /\ w[i].immediate \in BOOLEAN
         /\ Len(w[i].codes) \in Nat /\ Len(w[i].words) \in Nat
         /\ WordSize(w[i]) \in Nat /\ WordSize(w[i]) = 5 + Len(w[i].codes) + Len(w[i].words)
<1>1. w[i] \in SpecWord
  <2> HIDE DEF SpecWord
  <2> QED  OBVIOUS
<1>2. PICK x : x = w[i] /\ x \in SpecWord
  BY <1>1
<1>3. x.codes \in Seq(Int) /\ x.words \in Seq(STRING) /\ x.field \in Int /\ x.immediate \in BOOLEAN
  BY <1>2, Zenon DEF SpecWord
<1>4. Len(x.codes) \in Nat /\ Len(x.words) \in Nat
  BY <1>3
<1>7. PICK lc \in Nat, lw \in Nat : lc = Len(x.codes) /\ lw = Len(x.words)
  BY <1>4
<1>8. WordSize(x) = 3 + 1 + lc + 1 + lw
  BY <1>7 DEF WordSize, HeaderSize, NAME_LENGTH
<1>5. WordSize(x) = 5 + Len(x.codes) + Len(x.words)
  <2>1. 3 + 1 + lc + 1 + lw = 5 + lc + lw
    OBVIOUS
  <2> QED  BY <1>7, <1>8, <2>1, Zenon
<1>6. WordSize(x) \in Nat
  BY <1>8
<1> QED  BY <1>2, <1>3, <1>4, <1>5, <1>6

\* Words lie one behind the other, the first where the build began.
LEMMA PlacesFollow ==
  ASSUME NEW w \in Seq(SpecWord), NEW dp \in Int
  PROVE  \A i \in DOMAIN w :
           /\ Placed(w, dp)[i].nfa \in Int
           /\ Placed(w, dp)[i].cfa = Placed(w, dp)[i].nfa + 1 + Len(w[i].codes)
           /\ Placed(w, dp)[i].nfa = IF i = 1 THEN dp + NAME_LENGTH
                                     ELSE Placed(w, dp)[i - 1].nfa + WordSize(w[i - 1])
<1> DEFINE size(i) == HeaderSize + Len(w[i].codes) + 1 + Len(w[i].words)
           Eqn(pos) == pos = [i \in 1 .. Len(w) |-> IF i = 1 THEN dp ELSE pos[i - 1] + size(i - 1)]
           pos == CHOOSE pos : Eqn(pos)
<1>1. Placed(w, dp) = [i \in DOMAIN w |-> [nfa |-> pos[i] + NAME_LENGTH,
                                           cfa |-> pos[i] + HeaderSize + Len(w[i].codes)]]
  BY DEF Placed
<1>2. PICK n \in Nat : n = Len(w) /\ DOMAIN w = 1 .. n
  BY LenProperties
<1>3. ASSUME NEW i \in 1 .. n
      PROVE  size(i) = WordSize(w[i]) /\ size(i) \in Nat
  BY <1>2, <1>3, SpecFields DEF WordSize
<1> DEFINE step == [i \in 1 .. n |-> [x \in Int |-> IF i = 1 THEN x ELSE x + size(i - 1)]]
<1>4. step \in [1 .. n -> [Int -> Int]]
  <2>1. ASSUME NEW i \in 1 .. n, NEW x \in Int
        PROVE  (IF i = 1 THEN x ELSE x + size(i - 1)) \in Int
    <3>1. i # 1 => i - 1 \in 1 .. n
      BY <1>2
    <3>2. i # 1 => size(i - 1) \in Nat
      BY <1>3, <3>1
    <3> HIDE DEF size
    <3> QED  BY <3>2
  <2> HIDE DEF size
  <2> QED  BY <2>1
<1>5. PICK f \in [1 .. n -> Int] : Follows(f, n, dp, step)
  <2> HIDE DEF step
  <2> QED  BY <1>4, StepwiseFunction, Zenon
<1>6. \A i \in 1 .. n : f[i] = IF i = 1 THEN dp ELSE f[i - 1] + size(i - 1)
  <2> SUFFICES ASSUME NEW i \in 1 .. n, i # 1
               PROVE  step[i][f[i - 1]] = f[i - 1] + size(i - 1)
    BY <1>5 DEF Follows
  <2>1. i - 1 \in 1 .. n
    BY <1>2
  <2>2. f[i - 1] \in Int
    BY <2>1
  <2> HIDE DEF size
  <2> QED  BY <2>2
<1>7. Eqn(f)
  <2>1. f = [i \in 1 .. n |-> f[i]]
    OBVIOUS
  <2> HIDE DEF size
  <2> QED  BY <1>2, <1>6, <2>1
<1>8. Eqn(pos)
  <2> HIDE DEF Eqn
  <2> QED  BY <1>7
<1>9. \A i \in 1 .. n : pos[i] = IF i = 1 THEN dp ELSE pos[i - 1] + size(i - 1)
  <2> HIDE DEF pos, size
  <2> QED  BY <1>2, <1>8
<1> HIDE DEF pos, size, step, Eqn
<1> DEFINE Good == {k \in Nat : k + 1 \in 1 .. n => pos[k + 1] \in Int}
<1>10. 0 \in Good
  BY <1>9
<1>11. ASSUME NEW k \in Good
       PROVE  k + 1 \in Good
  <2>1. SUFFICES ASSUME k + 1 + 1 \in 1 .. n PROVE pos[k + 1 + 1] \in Int
    OBVIOUS
  <2>2. k + 1 \in 1 .. n /\ k + 1 + 1 # 1 /\ k + 1 + 1 - 1 = k + 1
    BY <1>2, <2>1
  <2>3. pos[k + 1] \in Int /\ size(k + 1) \in Nat
    BY <1>3, <2>2
  <2>4. pos[k + 1 + 1] = pos[k + 1] + size(k + 1)
    BY <1>9, <2>1, <2>2
  <2> QED  BY <2>3, <2>4
<1>12. Good = Nat
  <2>1. Good \subseteq Nat
    OBVIOUS
  <2> HIDE DEF Good
  <2> QED  BY <1>10, <1>11, <2>1, NaturalInduction
<1>13. ASSUME NEW i \in 1 .. n
       PROVE  pos[i] \in Int
  <2>1. i - 1 \in Nat /\ i - 1 + 1 = i
    OBVIOUS
  <2>2. i - 1 \in Good
    BY <1>12, <2>1
  <2> QED  BY <2>1, <2>2
<1> SUFFICES ASSUME NEW i \in 1 .. n
             PROVE  /\ Placed(w, dp)[i].nfa \in Int
                    /\ Placed(w, dp)[i].cfa = Placed(w, dp)[i].nfa + 1 + Len(w[i].codes)
                    /\ Placed(w, dp)[i].nfa = IF i = 1 THEN dp + NAME_LENGTH
                                              ELSE Placed(w, dp)[i - 1].nfa + WordSize(w[i - 1])
  BY <1>2
<1>14. PICK a \in Int : a = pos[i]
  BY <1>13
<1>15. Placed(w, dp)[i] = [nfa |-> a + NAME_LENGTH, cfa |-> a + HeaderSize + Len(w[i].codes)]
  BY <1>1, <1>2, <1>14
<1>16. PICK lc \in Nat : lc = Len(w[i].codes)
  BY <1>2, SpecFields
<1>17. Placed(w, dp)[i].nfa = a + 3 /\ Placed(w, dp)[i].cfa = a + 4 + lc
  BY <1>15, <1>16 DEF NAME_LENGTH, HeaderSize
<1>18. CASE i = 1
  <2>1. a = dp
    BY <1>9, <1>14, <1>18
  <2>2. Placed(w, dp)[i].nfa = dp + NAME_LENGTH
    BY <1>17, <2>1 DEF NAME_LENGTH
  <2>3. Placed(w, dp)[i].cfa = Placed(w, dp)[i].nfa + 1 + Len(w[i].codes)
    <3>1. a + 4 + lc = a + 3 + 1 + lc
      OBVIOUS
    <3> QED  BY <1>16, <1>17, <3>1, Zenon
  <2>4. Placed(w, dp)[i].nfa \in Int
    BY <1>17
  <2> QED  BY <1>18, <2>2, <2>3, <2>4
<1>19. CASE i # 1
  <2>1. i - 1 \in 1 .. n
    BY <1>2, <1>19
  <2>2. PICK b \in Int, z \in Nat : b = pos[i - 1] /\ z = size(i - 1) /\ z = WordSize(w[i - 1])
    BY <1>3, <1>13, <2>1
  <2>3. a = b + z
    BY <1>9, <1>14, <1>19, <2>2
  <2>4. Placed(w, dp)[i - 1].nfa = b + 3
    BY <1>1, <1>2, <2>1, <2>2 DEF NAME_LENGTH
  <2>5. Placed(w, dp)[i].nfa = Placed(w, dp)[i - 1].nfa + WordSize(w[i - 1])
    <3>1. a + 3 = b + 3 + z
      BY <2>3
    <3> QED  BY <1>17, <2>2, <2>4, <3>1, Zenon
  <2> QED  BY <1>16, <1>17, <1>19, <2>5
<1> QED  BY <1>18, <1>19

\* The address behind the first n words of a build from dp on.
EndAfter(w, dp, n) == IF n = 0 THEN dp ELSE Placed(w, dp)[n].cfa + 1 + Len(w[n].words)

\* A word begins where the one before it ends.
LEMMA EndsFollow ==
  ASSUME NEW w \in Seq(SpecWord), NEW dp \in Int, NEW n \in DOMAIN w
  PROVE  /\ EndAfter(w, dp, n - 1) \in Int /\ EndAfter(w, dp, n) \in Int
         /\ EndAfter(w, dp, n) = EndAfter(w, dp, n - 1) + WordSize(w[n])
         /\ Placed(w, dp)[n].nfa = EndAfter(w, dp, n - 1) + 3
         /\ Placed(w, dp)[n].cfa = EndAfter(w, dp, n - 1) + 4 + Len(w[n].codes)
<1>1. PICK len \in Nat : len = Len(w) /\ DOMAIN w = 1 .. len
  BY LenProperties
<1>2. PICK a \in Int : /\ a = Placed(w, dp)[n].nfa
                       /\ Placed(w, dp)[n].cfa = a + 1 + Len(w[n].codes)
                       /\ a = IF n = 1 THEN dp + NAME_LENGTH
                              ELSE Placed(w, dp)[n - 1].nfa + WordSize(w[n - 1])
  BY PlacesFollow
<1>3. PICK lc \in Nat, lw \in Nat :
        lc = Len(w[n].codes) /\ lw = Len(w[n].words) /\ WordSize(w[n]) = 5 + lc + lw
  BY SpecFields
<1>4. Placed(w, dp)[n].cfa = a + 1 + lc
  BY <1>2, <1>3
<1>5. EndAfter(w, dp, n) = a + 1 + lc + 1 + lw
  <2>1. n # 0
    BY <1>1
  <2>2. EndAfter(w, dp, n) = Placed(w, dp)[n].cfa + 1 + Len(w[n].words)
    BY <2>1 DEF EndAfter
  <2> QED  BY <1>3, <1>4, <2>2, Zenon
<1>6. PICK b \in Int : b = EndAfter(w, dp, n - 1) /\ a = b + 3
  <2>1. CASE n = 1
    <3>1. EndAfter(w, dp, n - 1) = dp
      BY <2>1 DEF EndAfter
    <3> QED  BY <1>2, <2>1, <3>1 DEF NAME_LENGTH
  <2>2. CASE n # 1
    <3>1. PICK m \in 1 .. len : m = n - 1
      BY <1>1, <2>2
    <3>2. PICK c \in Int : /\ c = Placed(w, dp)[m].nfa
                           /\ Placed(w, dp)[m].cfa = c + 1 + Len(w[m].codes)
      <4>1. m \in DOMAIN w
        BY <1>1
      <4> QED  BY <4>1, PlacesFollow, Zenon
    <3>3. PICK mc \in Nat, mw \in Nat :
            mc = Len(w[m].codes) /\ mw = Len(w[m].words) /\ WordSize(w[m]) = 5 + mc + mw
      BY <1>1, <3>1, SpecFields
    <3>4. Placed(w, dp)[m].cfa = c + 1 + mc
      BY <3>2, <3>3
    <3>5. EndAfter(w, dp, m) = c + 1 + mc + 1 + mw
      <4>1. EndAfter(w, dp, m) = Placed(w, dp)[m].cfa + 1 + Len(w[m].words)
        BY <3>1 DEF EndAfter
      <4> QED  BY <3>3, <3>4, <4>1, Zenon
    <3>6. a = c + (5 + mc + mw)
      BY <1>2, <2>2, <3>1, <3>2, <3>3
    <3>7. EndAfter(w, dp, n - 1) = c + 1 + mc + 1 + mw
      BY <3>1, <3>5
    <3>8. c + 1 + mc + 1 + mw \in Int /\ a = (c + 1 + mc + 1 + mw) + 3
      BY <3>6
    <3> QED  BY <3>7, <3>8
  <2> QED  BY <2>1, <2>2
<1>7. a + 1 + lc = b + 4 + lc /\ a + 1 + lc + 1 + lw = b + (5 + lc + lw)
  BY <1>6
<1>8. EndAfter(w, dp, n) = EndAfter(w, dp, n - 1) + WordSize(w[n])
  BY <1>3, <1>5, <1>6, <1>7, Zenon
<1>9. Placed(w, dp)[n].cfa = EndAfter(w, dp, n - 1) + 4 + Len(w[n].codes)
  BY <1>3, <1>4, <1>6, <1>7, Zenon
<1>10. EndAfter(w, dp, n) \in Int
  BY <1>5
<1> QED  BY <1>2, <1>6, <1>8, <1>9, <1>10

\* The ends grow.
LEMMA EndsGrow ==
  ASSUME NEW w \in Seq(SpecWord), NEW dp \in Int, NEW m \in Nat, NEW n \in Nat, m <= n, n <= Len(w)
  PROVE  /\ EndAfter(w, dp, m) \in Int /\ EndAfter(w, dp, n) \in Int
         /\ EndAfter(w, dp, m) <= EndAfter(w, dp, n)
<1>1. PICK len \in Nat : len = Len(w) /\ DOMAIN w = 1 .. len
  BY LenProperties
<1>2. EndAfter(w, dp, 0) = dp
  BY DEF EndAfter
<1>3. \A k \in 0 .. len : EndAfter(w, dp, k) \in Int
  <2> SUFFICES ASSUME NEW k \in 1 .. len PROVE EndAfter(w, dp, k) \in Int
    BY <1>2
  <2> QED  BY <1>1, EndsFollow
<1> DEFINE Good == {k \in Nat : m + k <= len => EndAfter(w, dp, m) <= EndAfter(w, dp, m + k)}
<1>4. 0 \in Good
  <2>1. m + 0 = m /\ m \in 0 .. len
    BY <1>1
  <2>2. EndAfter(w, dp, m) <= EndAfter(w, dp, m)
    BY <1>3, <2>1
  <2> QED  BY <2>1, <2>2
<1>5. ASSUME NEW k \in Good
      PROVE  k + 1 \in Good
  <2>1. SUFFICES ASSUME m + (k + 1) <= len
                 PROVE  EndAfter(w, dp, m) <= EndAfter(w, dp, m + (k + 1))
    OBVIOUS
  <2>2. PICK l \in 1 .. len : l = m + (k + 1) /\ l - 1 = m + k /\ m \in 0 .. len
    BY <1>1, <2>1
  <2>3. PICK a \in Int, b \in Int, c \in Int, z \in Nat :
          /\ a = EndAfter(w, dp, m) /\ b = EndAfter(w, dp, l - 1) /\ c = EndAfter(w, dp, l)
          /\ z = WordSize(w[l]) /\ c = b + z
    <3>1. l \in DOMAIN w /\ l - 1 \in 0 .. len /\ l \in 0 .. len /\ m \in 0 .. len
      BY <1>1, <2>2
    <3>2. /\ EndAfter(w, dp, m) \in Int /\ EndAfter(w, dp, l - 1) \in Int
          /\ EndAfter(w, dp, l) \in Int
      BY <1>3, <3>1
    <3>3. WordSize(w[l]) \in Nat
      BY <3>1, SpecFields
    <3>4. EndAfter(w, dp, l) = EndAfter(w, dp, l - 1) + WordSize(w[l])
      BY <3>1, EndsFollow
    <3> QED  BY <3>2, <3>3, <3>4, Zenon
  <2>4. a <= b
    BY <2>2, <2>3
  <2> QED  BY <2>2, <2>3, <2>4
<1>6. Good = Nat
  <2>1. Good \subseteq Nat
    OBVIOUS
  <2> HIDE DEF Good
  <2> QED  BY <1>4, <1>5, <2>1, NaturalInduction
<1>7. PICK k \in Nat : n = m + k
  <2>1. n - m \in Nat /\ n = m + (n - m)
    OBVIOUS
  <2> QED  BY <2>1
<1>8. k \in Good
  <2> HIDE DEF Good
  <2> QED  BY <1>6
<1>9. m \in 0 .. len /\ n \in 0 .. len /\ m + k <= len
  BY <1>1, <1>7
<1> QED  BY <1>3, <1>7, <1>8, <1>9

\* cfa_of knows the newest word of a name.
LEMMA CfaOfNext ==
  ASSUME NEW w, NEW p, NEW n \in Nat, NEW x
  PROVE  CfaOf(w, p, x, n + 1) = IF x = w[n + 1].name THEN p[n + 1].cfa ELSE CfaOf(w, p, x, n)
<1> DEFINE S(k) == {i \in 1 .. k : w[i].name = x}
<1>1. CASE x = w[n + 1].name
  <2>1. n + 1 \in S(n + 1) /\ S(n + 1) \subseteq Int /\ \A k \in S(n + 1) : k <= n + 1
    BY <1>1
  <2>2. Max(S(n + 1)) = n + 1
    <3> HIDE DEF S
    <3> QED  BY <2>1, GreatestIs
  <2> QED  BY <1>1, <2>2 DEF CfaOf
<1>2. CASE x # w[n + 1].name
  <2>1. S(n + 1) = S(n)
    BY <1>2
  <2> QED  BY <1>2, <2>1 DEF CfaOf
<1> QED  BY <1>1, <1>2

(***************************************************************************)
(* What a build leaves in memory                                           *)
(***************************************************************************)

\* The cells of word i of a build.
BuiltCells(w, dp, latest, i) ==
  WordCells(EntryOf(w, Placed(w, dp), i), IF i = 1 THEN latest ELSE Placed(w, dp)[i - 1].nfa)

WordStandsAt(m, w, dp, latest, i) ==
  /\ BuiltCells(w, dp, latest, i) \in Seq(Int)
  /\ Len(BuiltCells(w, dp, latest, i)) = WordSize(w[i])
  /\ Holds(m, EndAfter(w, dp, i - 1), BuiltCells(w, dp, latest, i))

\* Of the boot thread, k items.
BootStands(m, w, dp, b, k) ==
  \A j \in 1 .. k : m[EndAfter(w, dp, Len(w)) + j - 1] = BootCell(w, Placed(w, dp), b[j])

\* word_cfas, cf, has the newest of the first n words with each of their names.
CfasAre(cf, w, dp, n) ==
  /\ DOMAIN cf = {w[i].name : i \in 1 .. n}
  /\ \A x \in DOMAIN cf : cf[x] \in Int /\ cf[x] = CfaOf(w, Placed(w, dp), x, n)

\* Of a build from dp on, the first n words and k boot items stand below h.
Stands(m, h, w, dp, latest, n, b, k) ==
  /\ n <= Len(w) /\ k <= Len(b) /\ (k # 0 => n = Len(w))
  /\ EndAfter(w, dp, n) + k <= h
  /\ \A i \in 1 .. n : WordStandsAt(m, w, dp, latest, i)
  /\ BootStands(m, w, dp, b, k)

\* The calls of the dictionary and the stacks leave them where they are.
LEMMA BuiltKept ==
  ASSUME DInv, Kept, NEW w \in Seq(SpecWord), NEW dp \in Nat, 2 <= dp, NEW latest,
         NEW n \in Nat, NEW b, NEW k \in Nat, Stands(mem, Here, w, dp, latest, n, b, k)
  PROVE  Stands(mem', Here', w, dp, latest, n, b, k)
<1>1. PICK len \in Nat : len = Len(w) /\ DOMAIN w = 1 .. len /\ n <= len
  BY LenProperties DEF Stands
<1>2. PICK h \in Int, g \in Int :
        h = Here /\ g = Here' /\ h <= g /\ h <= MEMORY_SIZE /\ MEMORY_SIZE \in Nat
  BY VariablesTyped, SystemCells DEF Kept
<1>3. PICK end \in Int : end = EndAfter(w, dp, n) /\ end + k <= h /\ dp <= end
  <2>1. EndAfter(w, dp, 0) = dp
    BY DEF EndAfter
  <2>2. 0 <= n /\ n <= Len(w) /\ 0 \in Nat
    BY <1>1
  <2>3. EndAfter(w, dp, n) \in Int /\ EndAfter(w, dp, 0) <= EndAfter(w, dp, n)
    BY <2>2, EndsGrow
  <2>4. EndAfter(w, dp, n) + k <= h
    BY <1>2 DEF Stands
  <2> QED  BY <2>1, <2>3, <2>4
<1>4. EndAfter(w, dp, n) + k <= Here'
  BY <1>2, <1>3
<1>5. ASSUME NEW i \in 1 .. n
      PROVE  WordStandsAt(mem', w, dp, latest, i)
  <2>1. WordStandsAt(mem, w, dp, latest, i)
    BY DEF Stands
  <2>2. PICK cells \in Seq(Int) : cells = BuiltCells(w, dp, latest, i)
    BY <2>1 DEF WordStandsAt
  <2>3. i \in DOMAIN w /\ i - 1 \in Nat /\ i \in Nat /\ 0 <= i - 1 /\ i - 1 <= Len(w) /\ i <= n
        /\ n <= Len(w) /\ 0 \in Nat
    BY <1>1
  <2>4. PICK a \in Int, z \in Nat :
          /\ a = EndAfter(w, dp, i - 1) /\ z = WordSize(w[i]) /\ EndAfter(w, dp, i) = a + z
          /\ z = Len(cells)
    <3>1. EndAfter(w, dp, i - 1) \in Int /\ WordSize(w[i]) \in Nat
          /\ EndAfter(w, dp, i) = EndAfter(w, dp, i - 1) + WordSize(w[i])
      <4>3. dp \in Int
        OBVIOUS
      <4>1. EndAfter(w, dp, i - 1) \in Int
            /\ EndAfter(w, dp, i) = EndAfter(w, dp, i - 1) + WordSize(w[i])
        BY <2>3, <4>3, EndsFollow, Zenon
      <4>2. WordSize(w[i]) \in Nat
        BY <2>3, SpecFields
      <4> QED  BY <4>1, <4>2
    <3>2. Len(cells) = WordSize(w[i])
      BY <2>1, <2>2 DEF WordStandsAt
    <3> QED  BY <3>1, <3>2, Zenon
  <2>5. dp <= a
    <3>1. EndAfter(w, dp, 0) = dp
      BY DEF EndAfter
    <3>2. EndAfter(w, dp, 0) <= EndAfter(w, dp, i - 1)
      BY <2>3, EndsGrow
    <3> QED  BY <2>4, <3>1, <3>2
  <2>6. a + z <= end
    <3>1. EndAfter(w, dp, i) <= EndAfter(w, dp, n)
      BY <2>3, EndsGrow
    <3> QED  BY <1>3, <2>4, <3>1
  <2>7. Holds(mem', a, cells)
    <3>1. Holds(mem, a, cells)
      BY <2>1, <2>2, <2>4 DEF WordStandsAt
    <3>2. 2 <= a /\ a + Len(cells) <= Here
      BY <1>2, <1>3, <2>4, <2>5, <2>6
    <3> QED  BY <3>1, <3>2, HeldCells
  <2> QED  BY <2>1, <2>2, <2>4, <2>7 DEF WordStandsAt
<1>6. BootStands(mem', w, dp, b, k)
  <2> SUFFICES ASSUME NEW j \in 1 .. k
               PROVE  mem'[EndAfter(w, dp, Len(w)) + j - 1] = BootCell(w, Placed(w, dp), b[j])
    BY DEF BootStands
  <2>1. EndAfter(w, dp, Len(w)) = end
    BY <1>3 DEF Stands
  <2>2. end + j - 1 \in Cells \ {0, 1} /\ end + j - 1 < h
    BY <1>2, <1>3 DEF Cells
  <2>3. mem'[end + j - 1] = mem[end + j - 1]
    BY <1>2, <2>2 DEF Kept
  <2>4. mem[EndAfter(w, dp, Len(w)) + j - 1] = BootCell(w, Placed(w, dp), b[j])
    BY DEF Stands, BootStands
  <2> QED  BY <2>1, <2>3, <2>4
<1> QED  BY <1>4, <1>5, <1>6 DEF Stands

\* append_word puts a word more behind them.
LEMMA WordMore ==
  ASSUME NEW m, NEW h, NEW w \in Seq(SpecWord), NEW dp \in Nat, NEW latest, NEW n \in Nat,
         NEW b, Stands(m, h, w, dp, latest, n, b, 0), n < Len(w),
         WordStandsAt(m, w, dp, latest, n + 1), h = EndAfter(w, dp, n + 1)
  PROVE  Stands(m, h, w, dp, latest, n + 1, b, 0)
<1>1. PICK len \in Nat : len = Len(w) /\ DOMAIN w = 1 .. len /\ n + 1 \in DOMAIN w
  BY LenProperties
<1>2. EndAfter(w, dp, n + 1) \in Int
  <2>1. PICK q \in DOMAIN w : q = n + 1
    BY <1>1
  <2>2. dp \in Int
    OBVIOUS
  <2>3. EndAfter(w, dp, q) \in Int
    BY <2>2, EndsFollow, Zenon
  <2> QED  BY <2>1, <2>3
<1>3. EndAfter(w, dp, n + 1) + 0 <= h
  BY <1>2
<1>4. \A i \in 1 .. n + 1 : i \in 1 .. n \/ i = n + 1
  OBVIOUS
<1>5. \A i \in 1 .. n + 1 : WordStandsAt(m, w, dp, latest, i)
  BY <1>4 DEF Stands
<1>6. n + 1 <= Len(w)
  BY <1>1
<1> QED  BY <1>3, <1>5, <1>6 DEF Stands

\* word_cfas then knows the name of it.
LEMMA CfaMore ==
  ASSUME NEW w \in Seq(SpecWord), NEW dp \in Nat, NEW n \in Nat, n < Len(w),
         CfasAre(cfas, w, dp, n), NEW a, a = Placed(w, dp)[n + 1].cfa, a \in Int,
         cfas' = Know(w[n + 1].name, a)
  PROVE  CfasAre(cfas', w, dp, n + 1)
<1>1. \A i : i \in 1 .. n + 1 <=> i \in 1 .. n \/ i = n + 1
  OBVIOUS
<1>2. DOMAIN cfas' = DOMAIN cfas \cup {w[n + 1].name}
  BY DEF Know
<1>3. DOMAIN cfas' = {w[i].name : i \in 1 .. n + 1}
  BY <1>1, <1>2 DEF CfasAre
<1>4. ASSUME NEW x \in DOMAIN cfas'
      PROVE  cfas'[x] \in Int /\ cfas'[x] = CfaOf(w, Placed(w, dp), x, n + 1)
  <2>1. cfas'[x] = IF x = w[n + 1].name THEN a ELSE cfas[x]
    BY <1>2 DEF Know
  <2>2. CfaOf(w, Placed(w, dp), x, n + 1)
          = IF x = w[n + 1].name THEN Placed(w, dp)[n + 1].cfa ELSE CfaOf(w, Placed(w, dp), x, n)
    BY CfaOfNext
  <2>3. CASE x = w[n + 1].name
    BY <2>1, <2>2, <2>3
  <2>4. CASE x # w[n + 1].name
    <3>1. x \in DOMAIN cfas
      BY <1>2, <2>4
    <3> QED  BY <2>1, <2>2, <2>4, <3>1 DEF CfasAre
  <2> QED  BY <2>3, <2>4
<1> QED  BY <1>3, <1>4 DEF CfasAre

\* append_cell puts a boot item more behind them.
LEMMA BootMore ==
  ASSUME NEW m, NEW h, NEW w \in Seq(SpecWord), NEW dp \in Nat, NEW latest, NEW n \in Nat,
         NEW b, NEW k \in Nat, Stands(m, h, w, dp, latest, n, b, k), n = Len(w),
         Len(b) \in Nat, k < Len(b),
         m[EndAfter(w, dp, n) + k] = BootCell(w, Placed(w, dp), b[k + 1]),
         h = EndAfter(w, dp, n) + k + 1
  PROVE  Stands(m, h, w, dp, latest, n, b, k + 1)
<1>1. EndAfter(w, dp, n) \in Int
  <2>1. n <= n /\ n <= Len(w)
    OBVIOUS
  <2> QED  BY <2>1, EndsGrow
<1>2. PICK e \in Int : e = EndAfter(w, dp, n)
  BY <1>1
<1>3. e + (k + 1) <= h /\ k + 1 <= Len(b)
  BY <1>2
<1>4. BootStands(m, w, dp, b, k + 1)
  <2> SUFFICES ASSUME NEW j \in 1 .. k + 1
               PROVE  m[EndAfter(w, dp, Len(w)) + j - 1] = BootCell(w, Placed(w, dp), b[j])
    BY DEF BootStands
  <2>1. CASE j \in 1 .. k
    BY <2>1 DEF Stands, BootStands
  <2>2. CASE j = k + 1
    <3>1. e + j - 1 = e + k
      BY <1>2, <2>2
    <3> QED  BY <1>2, <2>2, <3>1
  <2> QED  BY <2>1, <2>2
<1> QED  BY <1>2, <1>3, <1>4 DEF Stands

(***************************************************************************)
(* The images: the invariant                                               *)
(***************************************************************************)

\* Words and boot items only name words installed before them.
Resolves(w, n, b, k) ==
  /\ \A i \in 1 .. n : Range(w[i].words) \subseteq {w[j].name : j \in 1 .. i - 1}
  /\ \A j \in 1 .. k : b[j][1] = "word" => b[j][2] \in {w[i].name : i \in 1 .. Len(w)}

\* Of a build from dp on, n words and k boot items are done, in memory m with
\* DP at h and LATEST at l.
Built(m, h, l, w, dp, latest, n, b, k, cf) ==
  /\ dp \in Nat /\ 2 <= dp /\ w # << >>
  /\ Stands(m, h, w, dp, latest, n, b, k)
  /\ h = EndAfter(w, dp, n) + k
  /\ l = IF n = 0 THEN latest ELSE Placed(w, dp)[n].nfa
  /\ CfasAre(cf, w, dp, n)
  /\ Resolves(w, n, b, k)

\* How many items of the boot thread there are.
DoneItems == IF phase = "boot" THEN at ELSE 0

\* What a build that has not raised has done so far.
UnderWay ==
  /\ raised = "none"
  /\ Built(mem, Here, Latest, specs, start.dp, start.latest, Done, boot, DoneItems, cfas)
  /\ phase = "boot" => bootIp = EndAfter(specs, start.dp, Len(specs))

\* Image m is in memory, and its word_cfas and boot address are those of it.
ImageStands(m) ==
  /\ m.specs \in Seq(SpecWord) /\ m.boot \in Seq(BootItems) /\ m.start.dp \in Nat /\ 2 <= m.start.dp
  /\ Stands(mem, Here, m.specs, m.start.dp, m.start.latest, Len(m.specs), m.boot, Len(m.boot))
  /\ CfasAre(m.cfas, m.specs, m.start.dp, Len(m.specs))
  /\ m.bootIp = EndAfter(m.specs, m.start.dp, Len(m.specs))

\* The build under way and every image that was returned stand in memory.  No
\* client of the dictionary is asked to keep its words free of threads.
ImageInv ==
  /\ DInv
  /\ phase \in {"idle", "words", "boot"} /\ at \in Nat
  /\ specs \in Seq(SpecWord) /\ boot \in Seq(BootItems) /\ images \in Seq(Range(images))
  /\ ~lost => /\ phase # "idle" => UnderWay
              /\ \A k \in DOMAIN images : ImageStands(images[k])

\* An image stands for as long as its cells are left alone.
LEMMA ImageKept ==
  ASSUME DInv, Kept, NEW m, ImageStands(m)
  PROVE  ImageStands(m)'
<1>1. PICK w \in Seq(SpecWord), b \in Seq(BootItems), dp \in Nat, latest \in {m.start.latest} :
        /\ w = m.specs /\ b = m.boot /\ dp = m.start.dp /\ latest = m.start.latest /\ 2 <= dp
        /\ Stands(mem, Here, w, dp, latest, Len(w), b, Len(b))
  BY DEF ImageStands
<1>2. Len(w) \in Nat /\ Len(b) \in Nat
  OBVIOUS
<1>3. Stands(mem', Here', w, dp, latest, Len(w), b, Len(b))
  BY <1>1, <1>2, BuiltKept, Zenon
<1>4. Stands(mem', Here', m.specs, m.start.dp, m.start.latest, Len(m.specs), m.boot, Len(m.boot))
  BY <1>1, <1>3, Zenon
<1> QED  BY <1>4 DEF ImageStands

\* What a step has to show besides: the build under way is as far as it says.
LEMMA ImagesKept ==
  ASSUME ImageInv, ~lost, DInv', ~lost' => Kept, images' = images,
         specs' \in Seq(SpecWord), boot' \in Seq(BootItems),
         phase' \in {"idle", "words", "boot"}, at' \in Nat,
         ~lost' /\ phase' # "idle" => UnderWay'
  PROVE  ImageInv'
<1>1. ASSUME ~lost', NEW k \in DOMAIN images
      PROVE  ImageStands(images[k])'
  <2>1. PICK m : m = images[k]
    OBVIOUS
  <2>2. ImageStands(m)
    BY <2>1 DEF ImageInv
  <2>3. ImageStands(m)'
    BY <1>1, <2>2, ImageKept DEF ImageInv
  <2> QED  BY <2>1, <2>3 DEF ImageStands
<1>2. (specs \in Seq(SpecWord))' /\ (boot \in Seq(BootItems))' /\ (images \in Seq(Range(images)))'
  BY DEF ImageInv, SpecWord, BootItems, Range
<1> QED  BY <1>1, <1>2 DEF ImageInv

(***************************************************************************)
(* The images: the steps                                                   *)
(***************************************************************************)

\* The entry install() hands append_word for spec x.
Handed(x, cf) ==
  [codes |-> x.codes, immediate |-> x.immediate, field |-> x.field,
   thread |-> [j \in DOMAIN x.words |-> cf[x.words[j]]]]

\* Which is the entry that stands in the image as word n + 1.
IsHanded(e, w, dp, n) ==
  /\ e = EntryOf(w, Placed(w, dp), n + 1) /\ e \in EntryType
  /\ Len(e.thread) = Len(w[n + 1].words)

\* install() hands append_word the addresses of the newest words before it.
LEMMA InstalledEntry ==
  ASSUME NEW w \in Seq(SpecWord), NEW dp, NEW n \in Nat, n < Len(w), NEW cf,
         CfasAre(cf, w, dp, n), Range(w[n + 1].words) \subseteq DOMAIN cf,
         NEW e, e = Handed(w[n + 1], cf)
  PROVE  IsHanded(e, w, dp, n)
<1>1. PICK q \in DOMAIN w : q = n + 1 /\ q - 1 = n
  <2>1. n + 1 \in 1 .. Len(w) /\ DOMAIN w = 1 .. Len(w)
    BY LenProperties
  <2> QED  BY <2>1
<1>2. PICK x : x = w[q]
  OBVIOUS
<1>3. /\ x.codes \in Seq(Int) /\ x.words \in Seq(STRING) /\ x.field \in Int /\ x.immediate \in BOOLEAN
  BY <1>2, SpecFields
<1>4. ASSUME NEW j \in DOMAIN x.words
      PROVE  cf[x.words[j]] \in Int /\ cf[x.words[j]] = CfaOf(w, Placed(w, dp), x.words[j], n)
  <2>1. x.words[j] \in DOMAIN cf
    BY <1>1, <1>2 DEF Range
  <2> QED  BY <2>1 DEF CfasAre
<1> DEFINE thread == [j \in DOMAIN x.words |-> cf[x.words[j]]]
<1>5. thread = [j \in DOMAIN x.words |-> CfaOf(w, Placed(w, dp), x.words[j], n)]
  BY <1>4
<1>6. thread \in Seq(Int) /\ Len(thread) = Len(x.words)
  <2>1. DOMAIN x.words = 1 .. Len(x.words) /\ Len(x.words) \in Nat
    BY <1>3
  <2> QED  BY <1>4, <2>1
<1>7. e = [codes |-> x.codes, immediate |-> x.immediate, field |-> x.field, thread |-> thread]
  BY <1>1, <1>2 DEF Handed
<1> HIDE DEF thread
<1>8. e = EntryOf(w, Placed(w, dp), q)
  BY <1>1, <1>2, <1>5, <1>7 DEF EntryOf
<1>9. e \in EntryType
  <2>1. [codes |-> x.codes, immediate |-> x.immediate, field |-> x.field, thread |-> thread]
          \in EntryType
    BY <1>3, <1>6 DEF EntryType
  <2> QED  BY <1>7, <2>1
<1>10. e.thread = thread
  BY <1>7
<1> QED  BY <1>1, <1>2, <1>6, <1>8, <1>9, <1>10, Zenon DEF IsHanded

\* Word n + 1 of a build, of c characters and size cells, lies at h.
NextAt(w, dp, n, h, size, c) ==
  /\ h + size = EndAfter(w, dp, n + 1) /\ size = WordSize(w[n + 1])
  /\ h + 3 = Placed(w, dp)[n + 1].nfa /\ h + 4 + c = Placed(w, dp)[n + 1].cfa
  /\ h + 4 + c \in Int

\* Where append_word puts the next word of a build.
LEMMA NextPlace ==
  ASSUME NEW w \in Seq(SpecWord), NEW dp \in Nat, NEW n \in Nat, n < Len(w),
         NEW e, e = EntryOf(w, Placed(w, dp), n + 1), Len(e.thread) = Len(w[n + 1].words),
         NEW h \in Int, h = EndAfter(w, dp, n), NEW size, size = 5 + Len(e.codes) + Len(e.thread)
  PROVE  NextAt(w, dp, n, h, size, Len(e.codes))
<1>1. PICK q \in DOMAIN w : q = n + 1 /\ q - 1 = n
  <2>1. n + 1 \in 1 .. Len(w) /\ DOMAIN w = 1 .. Len(w)
    BY LenProperties
  <2> QED  BY <2>1
<1>2. e.codes = w[q].codes /\ Len(e.thread) = Len(w[q].words)
  BY <1>1 DEF EntryOf
<1>3. PICK lc \in Nat, lw \in Nat :
        lc = Len(w[q].codes) /\ lw = Len(w[q].words) /\ WordSize(w[q]) = 5 + lc + lw
  BY SpecFields
<1>4. size = 5 + lc + lw
  BY <1>2, <1>3, Zenon
<1>a. dp \in Int
  OBVIOUS
<1>5. /\ EndAfter(w, dp, q) = h + WordSize(w[q])
      /\ Placed(w, dp)[q].nfa = h + 3 /\ Placed(w, dp)[q].cfa = h + 4 + Len(w[q].codes)
  <2>1. /\ EndAfter(w, dp, q) = EndAfter(w, dp, q - 1) + WordSize(w[q])
        /\ Placed(w, dp)[q].nfa = EndAfter(w, dp, q - 1) + 3
        /\ Placed(w, dp)[q].cfa = EndAfter(w, dp, q - 1) + 4 + Len(w[q].codes)
    BY <1>a, EndsFollow
  <2> QED  BY <1>1, <2>1, Zenon
<1>6. h + 4 + lc \in Int
  OBVIOUS
<1> QED  BY <1>1, <1>2, <1>3, <1>4, <1>5, <1>6, Zenon DEF NextAt

\* When append_word returns, a word more is built.
LEMMA BuiltWord ==
  ASSUME DInv, Kept, NEW w \in Seq(SpecWord), NEW dp \in Nat, NEW latest, NEW n \in Nat, NEW b,
         Built(mem, Here, Latest, w, dp, latest, n, b, 0, cfas), n < Len(w),
         NEW e, e = EntryOf(w, Placed(w, dp), n + 1), Len(e.thread) = Len(w[n + 1].words),
         NEW h \in Int, NEW l \in Int, NEW size \in Int, WordPut(e, h, l, size), raised' = "none",
         Range(w[n + 1].words) \subseteq DOMAIN cfas, cfas' = Know(w[n + 1].name, answer'.cfa)
  PROVE  Built(mem', Here', Latest', w, dp, latest, n + 1, b, 0, cfas')
<1>1. /\ 2 <= dp /\ w # << >> /\ Stands(mem, Here, w, dp, latest, n, b, 0)
      /\ CfasAre(cfas, w, dp, n) /\ Resolves(w, n, b, 0)
      /\ Latest = (IF n = 0 THEN latest ELSE Placed(w, dp)[n].nfa)
      /\ Here = EndAfter(w, dp, n) + 0
  BY Zenon DEF Built
<1>2. /\ h = Here /\ l = Latest /\ size = 5 + Len(e.codes) + Len(e.thread)
      /\ WordCells(e, l) \in Seq(Int) /\ Len(WordCells(e, l)) = size
      /\ Holds(mem', h, WordCells(e, l)) /\ Here' = h + size /\ Latest' = h + 3
      /\ answer'.cfa = h + 4 + Len(e.codes)
  BY Zenon DEF WordPut
<1>3. h = EndAfter(w, dp, n)
  <2>1. EndAfter(w, dp, n) \in Int
    <3>1. n <= n /\ n <= Len(w)
      OBVIOUS
    <3>2. dp \in Int
      OBVIOUS
    <3> QED  BY <3>1, <3>2, EndsGrow, Zenon
  <2> QED  BY <1>1, <1>2, <2>1
<1>4. /\ h + size = EndAfter(w, dp, n + 1) /\ size = WordSize(w[n + 1])
      /\ h + 3 = Placed(w, dp)[n + 1].nfa /\ h + 4 + Len(e.codes) = Placed(w, dp)[n + 1].cfa
      /\ h + 4 + Len(e.codes) \in Int
  <2>1. NextAt(w, dp, n, h, size, Len(e.codes))
    BY <1>2, <1>3, NextPlace, Zenon
  <2> QED  BY <2>1, Zenon DEF NextAt
<1>5. Stands(mem', Here', w, dp, latest, n, b, 0)
  <2>1. 0 \in Nat
    OBVIOUS
  <2> QED  BY <1>1, <2>1, BuiltKept, Zenon
<1>6. n + 1 - 1 = n /\ (n + 1 = 1 <=> n = 0) /\ n + 1 # 0
  OBVIOUS
<1>7. WordCells(e, l) = BuiltCells(w, dp, latest, n + 1)
  BY <1>1, <1>2, <1>6 DEF BuiltCells
<1>8. WordStandsAt(mem', w, dp, latest, n + 1)
  <2>1. EndAfter(w, dp, n + 1 - 1) = h
    BY <1>3, <1>6, Zenon
  <2>2. /\ BuiltCells(w, dp, latest, n + 1) \in Seq(Int)
        /\ Len(BuiltCells(w, dp, latest, n + 1)) = WordSize(w[n + 1])
        /\ Holds(mem', h, BuiltCells(w, dp, latest, n + 1))
    BY <1>2, <1>4, <1>7, Zenon
  <2> QED  BY <2>1, <2>2 DEF WordStandsAt
<1>9. Here' = EndAfter(w, dp, n + 1) /\ Latest' = Placed(w, dp)[n + 1].nfa
  BY <1>2, <1>4, Zenon
<1>10. Stands(mem', Here', w, dp, latest, n + 1, b, 0)
  BY <1>5, <1>8, <1>9, WordMore, Zenon
<1>11. CfasAre(cfas', w, dp, n + 1)
  BY <1>1, <1>2, <1>4, CfaMore, Zenon
<1>12. Resolves(w, n + 1, b, 0)
  <2>1. DOMAIN cfas = {w[j].name : j \in 1 .. n + 1 - 1}
    BY <1>1, <1>6, Zenon DEF CfasAre
  <2>2. ASSUME NEW i \in 1 .. n + 1
        PROVE  Range(w[i].words) \subseteq {w[j].name : j \in 1 .. i - 1}
    <3>1. CASE i \in 1 .. n
      BY <1>1, <3>1 DEF Resolves
    <3>2. CASE i = n + 1
      BY <2>1, <3>2
    <3>3. i \in 1 .. n \/ i = n + 1
      OBVIOUS
    <3> QED  BY <3>1, <3>2, <3>3
  <2>3. \A j \in 1 .. 0 : FALSE
    OBVIOUS
  <2> QED  BY <2>2, <2>3 DEF Resolves
<1>13. Here' = EndAfter(w, dp, n + 1) + 0
  <2>1. h + size + 0 = h + size
    OBVIOUS
  <2> QED  BY <1>4, <1>9, <2>1, Zenon
<1>14. Latest' = IF n + 1 = 0 THEN latest ELSE Placed(w, dp)[n + 1].nfa
  BY <1>6, <1>9
<1> QED  BY <1>1, <1>10, <1>11, <1>12, <1>13, <1>14, Zenon DEF Built

\* When append_cell returns, a boot item more is built.
LEMMA BuiltItem ==
  ASSUME DInv, Kept, NEW w \in Seq(SpecWord), NEW dp \in Nat, NEW latest, NEW n \in Nat,
         n = Len(w), NEW b \in Seq(BootItems), NEW k \in Nat, k < Len(b),
         Built(mem, Here, Latest, w, dp, latest, n, b, k, cfas),
         b[k + 1][1] = "word" => b[k + 1][2] \in DOMAIN cfas,
         mem'[Here] = (IF b[k + 1][1] = "word" THEN cfas[b[k + 1][2]] ELSE b[k + 1][2]),
         Here' = Here + 1, Latest' = Latest
  PROVE  Built(mem', Here', Latest', w, dp, latest, n, b, k + 1, cfas)
<1>1. /\ 2 <= dp /\ w # << >> /\ Stands(mem, Here, w, dp, latest, n, b, k)
      /\ CfasAre(cfas, w, dp, n) /\ Resolves(w, n, b, k)
      /\ Latest = (IF n = 0 THEN latest ELSE Placed(w, dp)[n].nfa)
      /\ Here = EndAfter(w, dp, n) + k
  BY Zenon DEF Built
<1>2. PICK end \in Int : end = EndAfter(w, dp, n)
  <2>1. n <= n /\ n <= Len(w)
    OBVIOUS
  <2>2. dp \in Int
    OBVIOUS
  <2> QED  BY <2>1, <2>2, EndsGrow, Zenon
<1>3. Here' = end + k + 1 /\ Here' = end + (k + 1) /\ Here = end + k
  BY <1>1, <1>2
<1>4. Stands(mem', Here', w, dp, latest, n, b, k)
  BY <1>1, BuiltKept, Zenon
<1>5. mem'[end + k] = BootCell(w, Placed(w, dp), b[k + 1])
  <2>1. CASE b[k + 1][1] = "word"
    <3>1. cfas[b[k + 1][2]] = CfaOf(w, Placed(w, dp), b[k + 1][2], n)
      BY <1>1, <2>1 DEF CfasAre
    <3> QED  BY <1>3, <2>1, <3>1, Zenon DEF BootCell
  <2>2. CASE b[k + 1][1] # "word"
    BY <1>3, <2>2, Zenon DEF BootCell
  <2> QED  BY <2>1, <2>2
<1>6. Stands(mem', Here', w, dp, latest, n, b, k + 1)
  <2>1. Len(b) \in Nat
    OBVIOUS
  <2> QED  BY <1>2, <1>3, <1>4, <1>5, <2>1, BootMore, Zenon
<1>7. Resolves(w, n, b, k + 1)
  <2>1. DOMAIN cfas = {w[i].name : i \in 1 .. Len(w)}
    BY <1>1, Zenon DEF CfasAre
  <2>2. ASSUME NEW j \in 1 .. k + 1, b[j][1] = "word"
        PROVE  b[j][2] \in {w[i].name : i \in 1 .. Len(w)}
    <3>1. CASE j \in 1 .. k
      BY <1>1, <2>2, <3>1 DEF Resolves
    <3>2. CASE j = k + 1
      BY <2>1, <2>2, <3>2
    <3>3. j \in 1 .. k \/ j = k + 1
      OBVIOUS
    <3> QED  BY <3>1, <3>2, <3>3
  <2> QED  BY <1>1, <2>2 DEF Resolves
<1>8. Here' = EndAfter(w, dp, n) + (k + 1)
  BY <1>2, <1>3, Zenon
<1> QED  BY <1>1, <1>6, <1>7, <1>8, Zenon DEF Built

\* Item i is at fault for what build raises.
Refused(i) ==
  \/ raised' = "KernelError" /\ i \in Unresolved
  \/ raised' = "IndexError" /\ i \notin Unresolved /\ i \in TooBig

\* Which words and boot items name something that is not installed yet.
LEMMA UnresolvedItem ==
  ASSUME specs \in Seq(SpecWord), boot \in Seq(BootItems)
  PROVE  /\ \A i \in 1 .. Len(specs) :
              i \in Unresolved <=> ~(Range(specs[i].words) \subseteq Names(i - 1))
         /\ \A j \in 1 .. Len(boot) :
              Len(specs) + j \in Unresolved
                <=> boot[j][1] = "word" /\ boot[j][2] \notin Names(Len(specs))
         /\ \A i \in Unresolved : i \in 1 .. Len(specs) + Len(boot)
<1>1. PICK n \in Nat, k \in Nat :
        n = Len(specs) /\ DOMAIN specs = 1 .. n /\ k = Len(boot) /\ DOMAIN boot = 1 .. k
  BY LenProperties
<1>2. PICK A, B :
        /\ A = {i \in 1 .. n : ~(Range(specs[i].words) \subseteq Names(i - 1))}
        /\ B = {j \in 1 .. k : boot[j][1] = "word" /\ boot[j][2] \notin Names(n)}
  OBVIOUS
<1>3. Unresolved = A \cup {n + j : j \in B}
  BY <1>1, <1>2 DEF Unresolved
<1>4. A \subseteq 1 .. n /\ B \subseteq 1 .. k
  BY <1>2
<1>5. \A i \in 1 .. n : i \in Unresolved <=> i \in A
  <2>1. ASSUME NEW i \in 1 .. n, NEW j \in B
        PROVE  i # n + j
    <3>1. j \in 1 .. k
      BY <1>4
    <3> QED  BY <3>1
  <2> QED  BY <1>3, <2>1
<1>6. \A j \in 1 .. k : n + j \in Unresolved <=> j \in B
  BY <1>3, <1>4
<1>7. \A i \in Unresolved : i \in 1 .. n + k
  BY <1>3, <1>4
<1> QED  BY <1>1, <1>2, <1>5, <1>6, <1>7

\* The cell behind an item is where the next one goes.
LEMMA EndOfItem ==
  ASSUME specs \in Seq(SpecWord), specs # << >>
  PROVE  /\ \A i \in 1 .. Len(specs) : EndOf(i) = EndAfter(specs, start.dp, i)
         /\ \A j \in 1 .. Len(boot) :
              EndOf(Len(specs) + j) = EndAfter(specs, start.dp, Len(specs)) + (Len(specs) + j) - Len(specs)
<1>1. PICK n \in Nat : n = Len(specs) /\ n # 0
  BY EmptySeq
<1>2. ASSUME NEW i \in 1 .. n
      PROVE  EndOf(i) = EndAfter(specs, start.dp, i)
  <2>1. i <= n /\ i # 0
    OBVIOUS
  <2> QED  BY <1>1, <2>1 DEF EndOf, EndAfter
<1>3. ASSUME NEW j \in 1 .. Len(boot)
      PROVE  EndOf(n + j) = EndAfter(specs, start.dp, n) + (n + j) - n
  <2>1. ~(n + j <= n)
    BY <1>1
  <2> QED  BY <1>1, <2>1 DEF EndOf, EndAfter
<1> QED  BY <1>1, <1>2, <1>3

\* No item that is done would have been refused.
LEMMA DoneNotRefused ==
  ASSUME ImageInv, ~lost, phase # "idle"
  PROVE  /\ Done \in Nat /\ DoneItems \in Nat /\ Done + DoneItems <= Len(specs) + Len(boot)
         /\ \A i \in 1 .. Done + DoneItems : i \notin Unresolved /\ i \notin TooBig
<1>1. PICK w \in Seq(SpecWord), b \in Seq(BootItems), dp \in {start.dp}, latest \in {start.latest} :
        /\ w = specs /\ b = boot /\ dp = start.dp /\ latest = start.latest
  BY DEF ImageInv
<1>2. PICK n \in Nat, k \in Nat : n = Done /\ k = DoneItems
  <2>1. Len(specs) \in Nat /\ at \in Nat
    BY DEF ImageInv
  <2> QED  BY <2>1 DEF Done, DoneItems
<1>3. Built(mem, Here, Latest, w, dp, latest, n, b, k, cfas)
  BY <1>1, <1>2, Zenon DEF ImageInv, UnderWay
<1>4. /\ dp \in Nat /\ 2 <= dp /\ w # << >> /\ Stands(mem, Here, w, dp, latest, n, b, k)
      /\ CfasAre(cfas, w, dp, n) /\ Resolves(w, n, b, k)
      /\ Here = EndAfter(w, dp, n) + k
  BY <1>3, Zenon DEF Built
<1>5. n <= Len(w) /\ k <= Len(b) /\ (k # 0 => n = Len(w))
  BY <1>4, Zenon DEF Stands
<1>6. PICK len \in Nat, h \in Int :
        len = Len(w) /\ h = Here /\ h <= MEMORY_SIZE /\ MEMORY_SIZE \in Nat
  <2>1. Here \in Int /\ Here <= MEMORY_SIZE /\ MEMORY_SIZE \in Nat
    BY VariablesTyped, SystemCells DEF ImageInv
  <2> QED  BY <2>1
<1>7. PICK end \in Int : end = EndAfter(w, dp, n) /\ h = end + k
  <2>1. n <= n /\ dp \in Int
    BY <1>4
  <2>2. EndAfter(w, dp, n) \in Int
    BY <1>5, <2>1, EndsGrow, Zenon
  <2> QED  BY <1>4, <1>6, <2>2
<1>8. ASSUME NEW i \in 1 .. n
      PROVE  i \notin Unresolved /\ i \notin TooBig
  <2>1. i \in 1 .. Len(specs) /\ i <= n /\ i \in Nat
    BY <1>1, <1>5, <1>6
  <2>2. Range(specs[i].words) \subseteq Names(i - 1)
    BY <1>1, <1>4 DEF Resolves, Names
  <2>3. i \notin Unresolved
    BY <1>1, <2>1, <2>2, UnresolvedItem, Zenon
  <2>4. EndOf(i) = EndAfter(w, dp, i)
    BY <1>1, <1>4, <2>1, EndOfItem, Zenon
  <2>5. EndAfter(w, dp, i) \in Int /\ EndAfter(w, dp, i) <= EndAfter(w, dp, n)
    <3>1. dp \in Int
      BY <1>4
    <3> QED  BY <1>5, <2>1, <3>1, EndsGrow, Zenon
  <2>6. ~(EndOf(i) > MEMORY_SIZE)
    BY <1>6, <1>7, <2>4, <2>5
  <2> QED  BY <2>3, <2>6 DEF TooBig
<1>9. ASSUME NEW j \in 1 .. k
      PROVE  n + j \notin Unresolved /\ n + j \notin TooBig
  <2>1. n = Len(specs) /\ j \in 1 .. Len(boot)
    BY <1>1, <1>5
  <2>2. ~(boot[j][1] = "word" /\ boot[j][2] \notin Names(Len(specs)))
    BY <1>1, <1>4 DEF Resolves, Names
  <2>3. Len(specs) + j \notin Unresolved
    BY <1>1, <2>1, <2>2, UnresolvedItem, Zenon
  <2>4. EndOf(n + j) = EndAfter(w, dp, n) + (n + j) - n
    <3>1. specs \in Seq(SpecWord) /\ specs # << >>
      BY <1>1, <1>4
    <3>2. EndOf(Len(specs) + j) = EndAfter(specs, start.dp, Len(specs)) + (Len(specs) + j) - Len(specs)
      BY <2>1, <3>1, EndOfItem
    <3> QED  BY <1>1, <2>1, <3>2, Zenon
  <2>5. end + (n + j) - n <= h
    BY <1>7
  <2>6. ~(EndOf(n + j) > MEMORY_SIZE)
    <3>1. EndOf(n + j) = end + (n + j) - n
      BY <1>7, <2>4, Zenon
    <3> QED  BY <1>6, <2>5, <3>1
  <2> QED  BY <2>1, <2>3, <2>6 DEF TooBig
<1>10. \A i \in 1 .. n + k : i \in 1 .. n \/ \E j \in 1 .. k : i = n + j
  <2> SUFFICES ASSUME NEW i \in 1 .. n + k, i \notin 1 .. n
               PROVE  \E j \in 1 .. k : i = n + j
    OBVIOUS
  <2>1. i - n \in 1 .. k /\ i = n + (i - n)
    OBVIOUS
  <2> QED  BY <2>1
<1>11. \A i \in 1 .. n + k : i \notin Unresolved /\ i \notin TooBig
  BY <1>8, <1>9, <1>10
<1>12. n + k <= Len(specs) + Len(boot)
  <2>1. PICK lb \in Nat : lb = Len(b)
    OBVIOUS
  <2>2. n + k <= len + lb
    BY <1>5, <1>6, <2>1
  <2> QED  BY <1>1, <1>6, <2>1, <2>2, Zenon
<1> QED  BY <1>2, <1>11, <1>12, Zenon

\* install() builds a word more, or is refused before it writes, or runs out of
\* memory.
LEMMA InstallBuilds ==
  ASSUME ImageInv, ~lost, Install
  PROVE  /\ DInv' /\ Kept /\ phase' \in {"idle", "words", "boot"} /\ at' \in Nat
         /\ phase' # "idle" => UnderWay'
         /\ phase' = "idle" => Refused(at + 1)
<1>1. /\ DInv /\ at \in Nat /\ specs \in Seq(SpecWord) /\ boot \in Seq(BootItems)
      /\ phase = "words" /\ at < Len(specs) /\ UnderWay
      /\ UNCHANGED <<specs, boot, bootIp, start, calls, images>>
  BY DEF ImageInv, Install
<1>a. PICK w \in Seq(SpecWord), b \in Seq(BootItems), dp \in {start.dp}, latest \in {start.latest} :
        /\ w = specs /\ b = boot /\ dp = start.dp /\ latest = start.latest
  BY <1>1
<1>b. PICK n \in Nat : n = at
  BY <1>1
<1>2. /\ w = specs /\ b = boot /\ dp = start.dp /\ latest = start.latest /\ n = at /\ n < Len(w)
  BY <1>1, <1>a, <1>b
<1>3. Built(mem, Here, Latest, w, dp, latest, n, b, 0, cfas)
  BY <1>1, <1>2 DEF UnderWay, Done, DoneItems
<1>4. /\ dp \in Nat /\ w # << >> /\ CfasAre(cfas, w, dp, n) /\ Here = EndAfter(w, dp, n) + 0
  BY <1>3, Zenon DEF Built
<1>5. PICK q \in 1 .. Len(w) : q = n + 1 /\ q - 1 = n /\ q = at + 1
  BY <1>2
<1>6. q \in Unresolved <=> ~(Range(w[q].words) \subseteq DOMAIN cfas)
  <2>1. DOMAIN cfas = Names(q - 1)
    BY <1>2, <1>4, <1>5 DEF CfasAre, Names
  <2>2. q \in Unresolved <=> ~(Range(specs[q].words) \subseteq Names(q - 1))
    BY <1>1, <1>2, UnresolvedItem, Zenon
  <2> QED  BY <1>2, <2>1, <2>2
<1>7. CASE ~(Range(w[q].words) \subseteq DOMAIN cfas)
  <2>1. KernelError
    BY <1>2, <1>5, <1>7, Zenon DEF Install
  <2>2. /\ UNCHANGED <<mem, sp, walk, answer, installed, lost>> /\ phase' = "idle"
        /\ UNCHANGED <<at, cfas>> /\ raised' = "KernelError"
    BY <2>1 DEF KernelError, Fails
  <2>3. DInv' /\ Kept
    BY <1>1, <2>2, DictionaryLeftAlone
  <2> QED  BY <1>1, <1>5, <1>6, <1>7, <2>2, <2>3 DEF Refused
<1>8. CASE Range(w[q].words) \subseteq DOMAIN cfas
  <2> DEFINE thread == [j \in DOMAIN w[n + 1].words |-> cfas[w[n + 1].words[j]]]
             e == [codes |-> w[n + 1].codes, immediate |-> w[n + 1].immediate,
                   field |-> w[n + 1].field, thread |-> thread]
  <2>1. AppendAs(w[n + 1], thread)
    BY <1>2, <1>5, <1>8, Zenon DEF Install
  <2>2. /\ AppendWord(e)
        /\ IF raised' = "none"
           THEN cfas' = Know(w[n + 1].name, answer'.cfa) /\ at' = at + 1 /\ UNCHANGED phase
           ELSE Fails
    BY <2>1 DEF AppendAs
  <2>3. PICK f : f = e
    OBVIOUS
  <2>4. f = EntryOf(w, Placed(w, dp), n + 1) /\ f \in EntryType /\ Len(f.thread) = Len(w[n + 1].words)
    <3>1. Range(w[n + 1].words) \subseteq DOMAIN cfas
      BY <1>5, <1>8
    <3>2. PICK cf : cf = cfas
      OBVIOUS
    <3>3. CfasAre(cf, w, dp, n) /\ Range(w[n + 1].words) \subseteq DOMAIN cf
      BY <1>4, <3>1, <3>2
    <3>4. f = Handed(w[n + 1], cf)
      BY <2>3, <3>2 DEF Handed
    <3>5. IsHanded(f, w, dp, n)
      BY <1>2, <3>3, <3>4, InstalledEntry, Zenon
    <3> QED  BY <3>5, Zenon DEF IsHanded
  <2> HIDE DEF e
  <2>5. AppendWord(f)
    BY <2>2, <2>3
  <2>6. DInv' /\ Kept
    BY <1>1, <2>4, <2>5, AppendWordKeeps
  <2>7. PICK h \in Int, l \in Int, size \in Int : WordPut(f, h, l, size)
    BY <1>1, <2>4, <2>5, PuttingWord, Zenon
  <2>8. CASE raised' = "none"
    <3>1. cfas' = Know(w[n + 1].name, answer'.cfa) /\ at' = n + 1 /\ phase' = phase
      BY <1>2, <2>2, <2>8
    <3>2. Range(w[n + 1].words) \subseteq DOMAIN cfas
      BY <1>5, <1>8
    <3>3. Built(mem', Here', Latest', w, dp, latest, n + 1, b, 0, cfas')
      BY <1>1, <1>2, <1>3, <1>4, <2>4, <2>6, <2>7, <2>8, <3>1, <3>2, BuiltWord, Zenon
    <3>4. Done' = n + 1 /\ DoneItems' = 0
      BY <1>1, <3>1 DEF Done, DoneItems
    <3>5. Built(mem', Here', Latest', specs', start'.dp, start'.latest, Done', boot', DoneItems', cfas')
      BY <1>1, <1>2, <3>3, <3>4, Zenon
    <3>6. UnderWay'
      BY <1>1, <2>8, <3>1, <3>5 DEF UnderWay
    <3>7. at' \in Nat /\ phase' = "words"
      BY <1>1, <3>1
    <3> QED  BY <2>6, <3>6, <3>7
  <2>9. CASE raised' # "none"
    <3>1. phase' = "idle" /\ at' = at
      BY <2>2, <2>9 DEF Fails
    <3>2. raised' = "IndexError" /\ ~(h + size <= MEMORY_SIZE)
      BY <2>7, <2>9, Zenon DEF WordPut
    <3>3. h = EndAfter(w, dp, n)
      <4>1. h = EndAfter(w, dp, n) + 0
        BY <1>4, <2>7, Zenon DEF WordPut
      <4>2. EndAfter(w, dp, n) \in Int
        <5>1. dp \in Int /\ n <= n /\ n <= Len(w)
          BY <1>2, <1>4
        <5> QED  BY <5>1, EndsGrow, Zenon
      <4> QED  BY <4>1, <4>2
    <3>4. h + size = EndAfter(w, dp, n + 1)
      <4>1. size = 5 + Len(f.codes) + Len(f.thread)
        BY <2>7, Zenon DEF WordPut
      <4>2. NextAt(w, dp, n, h, size, Len(f.codes))
        BY <1>2, <1>4, <2>4, <3>3, <4>1, NextPlace, Zenon
      <4> QED  BY <4>2, Zenon DEF NextAt
    <3>5. EndOf(q) = EndAfter(w, dp, q)
      BY <1>2, <1>4, EndOfItem, Zenon
    <3>6. EndOf(q) > MEMORY_SIZE
      <4>1. MEMORY_SIZE \in Int
        BY SystemCells
      <4>2. h + size > MEMORY_SIZE
        BY <3>2, <4>1
      <4> QED  BY <1>5, <3>4, <3>5, <4>2, Zenon
    <3>7. q \in 1 .. Len(specs) + Len(boot)
      <4>1. Len(specs) \in Nat /\ Len(boot) \in Nat
        BY <1>1
      <4> QED  BY <1>2, <4>1
    <3>8. Refused(at + 1)
      BY <1>5, <1>6, <1>8, <3>2, <3>6, <3>7 DEF Refused, TooBig
    <3> QED  BY <1>1, <2>6, <3>1, <3>8
  <2> QED  BY <2>8, <2>9
<1> QED  BY <1>7, <1>8

\* append_cell() of a boot item builds an item more, or is refused before it
\* writes, or memory is full.
LEMMA BootItemBuilds ==
  ASSUME ImageInv, ~lost, BootItem
  PROVE  /\ DInv' /\ Kept /\ phase' \in {"idle", "words", "boot"} /\ at' \in Nat
         /\ phase' # "idle" => UnderWay'
         /\ phase' = "idle" => Refused(Len(specs) + at + 1)
<1>1. /\ DInv /\ at \in Nat /\ specs \in Seq(SpecWord) /\ boot \in Seq(BootItems)
      /\ phase = "boot" /\ at < Len(boot) /\ UnderWay
      /\ UNCHANGED <<specs, boot, bootIp, start, calls, images>>
  BY DEF ImageInv, BootItem
<1>b. PICK w \in Seq(SpecWord), b \in Seq(BootItems), dp \in {start.dp}, latest \in {start.latest} :
        /\ w = specs /\ b = boot /\ dp = start.dp /\ latest = start.latest
  BY <1>1
<1>c. PICK n \in Nat, k \in Nat : n = Len(w) /\ k = at
  BY <1>1
<1>2. /\ w = specs /\ b = boot /\ dp = start.dp /\ latest = start.latest /\ k = at /\ k < Len(b)
      /\ n = Len(w)
  BY <1>1, <1>b, <1>c
<1>3. Built(mem, Here, Latest, w, dp, latest, n, b, k, cfas) /\ bootIp = EndAfter(w, dp, n)
  BY <1>1, <1>2 DEF UnderWay, Done, DoneItems
<1>4. /\ dp \in Nat /\ w # << >> /\ CfasAre(cfas, w, dp, n) /\ Here = EndAfter(w, dp, n) + k
  BY <1>3, Zenon DEF Built
<1>5. PICK q \in 1 .. Len(b) : q = k + 1 /\ q = at + 1 /\ Len(specs) + at + 1 = n + q
  BY <1>2
<1>a. PICK item : item = b[q] /\ item \in BootItems
  <2> HIDE DEF BootItems
  <2> QED  BY <1>2
<1>6. n + q \in Unresolved <=> item[1] = "word" /\ item[2] \notin DOMAIN cfas
  <2>1. DOMAIN cfas = Names(n)
    BY <1>2, <1>4 DEF CfasAre, Names
  <2>2. Len(specs) + q \in Unresolved
          <=> boot[q][1] = "word" /\ boot[q][2] \notin Names(Len(specs))
    BY <1>1, <1>2, UnresolvedItem, Zenon
  <2> QED  BY <1>2, <1>a, <2>1, <2>2
<1>7. CASE item[1] = "word" /\ item[2] \notin DOMAIN cfas
  <2>1. KernelError
    BY <1>2, <1>5, <1>a, <1>7, Zenon DEF BootItem
  <2>2. /\ UNCHANGED <<mem, sp, walk, answer, installed, lost>> /\ phase' = "idle"
        /\ UNCHANGED <<at, cfas>> /\ raised' = "KernelError"
    BY <2>1 DEF KernelError, Fails
  <2>3. DInv' /\ Kept
    BY <1>1, <2>2, DictionaryLeftAlone
  <2> QED  BY <1>1, <1>5, <1>6, <1>7, <2>2, <2>3 DEF Refused
<1>8. CASE ~(item[1] = "word" /\ item[2] \notin DOMAIN cfas)
  <2>1. PICK v : v = IF item[1] = "word" THEN cfas[item[2]] ELSE item[2]
    OBVIOUS
  <2>2. /\ AppendCell(v)
        /\ IF raised' = "none" THEN at' = at + 1 /\ UNCHANGED <<phase, cfas>> ELSE Fails
    BY <1>2, <1>5, <1>a, <1>8, <2>1, Zenon DEF BootItem
  <2>3. v \in Int
    <3>1. CASE item[1] = "word"
      BY <1>4, <1>8, <2>1, <3>1 DEF CfasAre
    <3>2. CASE item[1] # "word"
      <4>1. item[2] \in Int
        BY <1>a, <3>2 DEF BootItems
      <4> QED  BY <2>1, <3>2, <4>1
    <3> QED  BY <3>1, <3>2
  <2>4. DInv' /\ Kept
    BY <1>1, <2>2, <2>3, AppendCellKeeps
  <2>5. /\ raised' = IF Here < MEMORY_SIZE THEN "none" ELSE "IndexError"
        /\ raised' = "none" => mem'[Here] = v /\ Here' = Here + 1 /\ Latest' = Latest
    BY <1>1, <2>2, <2>3, PuttingCell
  <2>6. CASE raised' = "none"
    <3>1. at' = k + 1 /\ phase' = phase /\ cfas' = cfas
      BY <1>2, <2>2, <2>6
    <3>2. /\ b[k + 1][1] = "word" => b[k + 1][2] \in DOMAIN cfas
          /\ mem'[Here] = (IF b[k + 1][1] = "word" THEN cfas[b[k + 1][2]] ELSE b[k + 1][2])
          /\ Here' = Here + 1 /\ Latest' = Latest
      BY <1>5, <1>8, <1>a, <2>1, <2>5, <2>6
    <3>3. Built(mem', Here', Latest', w, dp, latest, n, b, k + 1, cfas)
      BY <1>1, <1>2, <1>3, <1>4, <2>4, <3>2, BuiltItem, Zenon
    <3>4. Done' = n /\ DoneItems' = k + 1
      BY <1>1, <1>2, <3>1 DEF Done, DoneItems
    <3>5. Built(mem', Here', Latest', specs', start'.dp, start'.latest, Done', boot', DoneItems', cfas')
      BY <1>1, <1>2, <3>1, <3>3, <3>4, Zenon
    <3>6. bootIp' = EndAfter(specs', start'.dp, Len(specs'))
      BY <1>1, <1>2, <1>3, Zenon
    <3>7. UnderWay'
      BY <2>6, <3>5, <3>6 DEF UnderWay
    <3>8. at' \in Nat /\ phase' = "boot"
      BY <1>1, <3>1
    <3> QED  BY <2>4, <3>7, <3>8
  <2>7. CASE raised' # "none"
    <3>1. phase' = "idle" /\ at' = at
      BY <2>2, <2>7 DEF Fails
    <3>2. raised' = "IndexError" /\ ~(Here < MEMORY_SIZE)
      BY <2>5, <2>7
    <3>3. PICK end \in Int : end = EndAfter(w, dp, n)
      <4>1. dp \in Int /\ n <= n /\ n <= Len(w)
        BY <1>2, <1>4
      <4> QED  BY <4>1, EndsGrow, Zenon
    <3>4. EndOf(n + q) = end + (n + q) - n
      <4>1. EndOf(Len(specs) + q) = EndAfter(specs, start.dp, Len(specs)) + (Len(specs) + q) - Len(specs)
        BY <1>2, <1>4, EndOfItem
      <4> QED  BY <1>2, <3>3, <4>1, Zenon
    <3>5. EndOf(n + q) > MEMORY_SIZE
      <4>1. MEMORY_SIZE \in Int /\ Here = end + k
        BY <1>4, <3>3, SystemCells
      <4>2. end + (n + q) - n > MEMORY_SIZE
        BY <1>5, <3>2, <4>1
      <4> QED  BY <3>4, <4>2, Zenon
    <3>6. n + q \in 1 .. Len(specs) + Len(boot)
      <4>1. Len(b) \in Nat
        OBVIOUS
      <4>2. n + q \in 1 .. n + Len(b)
        BY <4>1
      <4> QED  BY <1>2, <4>2
    <3>7. Refused(n + q)
      BY <1>6, <1>8, <3>2, <3>5, <3>6 DEF Refused, TooBig
    <3> QED  BY <1>1, <1>5, <2>4, <3>1, <3>7
  <2> QED  BY <2>6, <2>7
<1> QED  BY <1>7, <1>8

\* A build that has nothing yet and knows no name.
LEMMA NothingBuilt ==
  ASSUME NEW m, NEW h, NEW l, NEW w \in Seq(SpecWord), w # << >>, NEW dp \in Nat, 2 <= dp, h = dp,
         NEW b \in Seq(BootItems)
  PROVE  Built(m, h, l, w, dp, l, 0, b, 0, NoCfas)
<1>1. /\ \A i \in 1 .. 0 : FALSE
      /\ 0 <= Len(w) /\ 0 <= Len(b) /\ dp + 0 = dp /\ dp <= dp
  OBVIOUS
<1>2. EndAfter(w, dp, 0) = dp
  BY DEF EndAfter
<1>3. Stands(m, h, w, dp, l, 0, b, 0)
  BY <1>1, <1>2 DEF Stands, BootStands
<1>4. CfasAre(NoCfas, w, dp, 0)
  BY <1>1 DEF CfasAre, NoCfas
<1>5. Resolves(w, 0, b, 0)
  BY <1>1 DEF Resolves
<1> QED  BY <1>1, <1>2, <1>3, <1>4, <1>5 DEF Built

\* Which is how a call of build begins.
LEMMA CallBegins ==
  ASSUME ImageInv, ~lost, Call
  PROVE  /\ DInv' /\ Kept /\ specs' \in Seq(SpecWord) /\ boot' \in Seq(BootItems)
         /\ phase' = "words" /\ at' = 0 /\ images' = images /\ UnderWay'
<1>1. /\ DInv /\ UNCHANGED <<mem, sp, walk, answer, installed, lost, images>>
      /\ raised' = "none" /\ phase' = "words" /\ at' = 0 /\ cfas' = NoCfas
      /\ start' = [dp |-> Here, latest |-> Latest] /\ boot' \in BootThreads
  BY DEF ImageInv, Call, Begin
<1>2. DInv' /\ Kept
  BY <1>1, DictionaryLeftAlone
<1>3. PICK colon \in ColonLists :
        specs' = CodeWords \o [i \in DOMAIN colon |-> ColonSpec(colon[i], EnterIndex)]
  BY DEF Call, Begin
<1>4. specs' \in Seq(SpecWord)
  BY <1>3, ProperSpecs
<1>5. specs' # << >>
  <2>1. PICK x \in DOMAIN CodeWords : CodeWords[x].name = "EXIT"
    BY BuilderAssumption
  <2>2. PICK n \in Nat, k \in Nat : n = Len(CodeWords) /\ x \in 1 .. n /\ k = Len(specs') /\ n <= k
    <3> DEFINE tail == [i \in DOMAIN colon |-> ColonSpec(colon[i], EnterIndex)]
    <3>1. CodeWords \in Seq([name : STRING, codes : Seq(Int), words : {<< >>}, field : Int,
                             immediate : BOOLEAN])
      BY BuilderAssumption
    <3>2. DOMAIN CodeWords = 1 .. Len(CodeWords) /\ Len(CodeWords) \in Nat
      BY <3>1, LenProperties
    <3>3. colon \in Seq([name : STRING, codes : Seq(Int), words : Seq(STRING), immediate : BOOLEAN])
      BY BuilderAssumption
    <3>4. DOMAIN tail = 1 .. Len(colon) /\ Len(colon) \in Nat
      BY <3>3, LenProperties
    <3>5. Len(tail) \in Nat /\ Len(tail) = Len(colon)
      BY <3>4
    <3> HIDE DEF tail
    <3>6. Len(specs') = Len(CodeWords) + Len(tail)
      BY <1>3, <3>2, <3>5 DEF tail
    <3>7. PICK n \in Nat, t \in Nat : n = Len(CodeWords) /\ t = Len(tail)
      BY <3>2, <3>5
    <3>8. n + t \in Nat /\ n <= n + t /\ Len(specs') = n + t
      BY <3>6, <3>7
    <3> QED  BY <2>1, <3>2, <3>7, <3>8
  <2> QED  BY <2>2
<1>6. boot' \in Seq(BootItems)
  BY <1>1, BuilderAssumption DEF BootItems
<1>7. PICK w \in Seq(SpecWord), b \in Seq(BootItems), dp \in Nat, l \in {Latest} :
        /\ w = specs' /\ b = boot' /\ dp = Here /\ l = Latest /\ 2 <= dp /\ w # << >>
  <2>1. Here \in Nat /\ 2 <= Here
    BY <1>1, VariablesTyped, SystemCells
  <2> QED  BY <1>4, <1>5, <1>6, <2>1
<1>8. Built(mem', dp, l, w, dp, l, 0, b, 0, NoCfas)
  BY <1>7, NothingBuilt
<1>9. Here' = dp /\ Latest' = l /\ start'.dp = dp /\ start'.latest = l
  BY <1>1, <1>7 DEF Here, Latest
<1>10. Done' = 0 /\ DoneItems' = 0
  BY <1>1 DEF Done, DoneItems
<1>11. Built(mem', Here', Latest', specs', start'.dp, start'.latest, Done', boot', DoneItems', cfas')
  BY <1>1, <1>7, <1>8, <1>9, <1>10, Zenon
<1>12. UnderWay'
  BY <1>1, <1>11 DEF UnderWay
<1> QED  BY <1>1, <1>2, <1>4, <1>6, <1>12

\* The words are built: the boot thread goes behind them.
LEMMA BootBegins ==
  ASSUME ImageInv, ~lost, BeginBoot
  PROVE  DInv' /\ Kept /\ phase' = "boot" /\ at' = 0 /\ UnderWay'
<1>1. /\ DInv /\ UNCHANGED <<mem, sp, walk, answer, installed, lost, raised>>
      /\ UNCHANGED <<specs, boot, cfas, start>> /\ UnderWay
      /\ phase = "words" /\ at = Len(specs) /\ phase' = "boot" /\ at' = 0 /\ bootIp' = Here
      /\ specs \in Seq(SpecWord)
  BY DEF ImageInv, BeginBoot, vars, dictVars
<1>2. DInv' /\ Kept
  BY <1>1, DictionaryLeftAlone
<1>3. Here' = Here /\ Latest' = Latest
  BY <1>1 DEF Here, Latest
<1>4. Done = Len(specs) /\ Done' = Len(specs) /\ DoneItems = 0 /\ DoneItems' = 0
  BY <1>1 DEF Done, DoneItems
<1>5. Built(mem, Here, Latest, specs, start.dp, start.latest, Len(specs), boot, 0, cfas)
  BY <1>1, <1>4 DEF UnderWay
<1>6. Built(mem', Here', Latest', specs', start'.dp, start'.latest, Done', boot', DoneItems', cfas')
  BY <1>1, <1>3, <1>4, <1>5, Zenon
<1>7. bootIp' = EndAfter(specs', start'.dp, Len(specs'))
  <2>1. PICK w \in Seq(SpecWord), dp \in Nat, n \in Nat : w = specs /\ dp = start.dp /\ n = Len(w)
    BY <1>1, <1>5 DEF Built
  <2>2. EndAfter(w, dp, n) \in Int
    <3>1. n <= n /\ n <= Len(w) /\ dp \in Int
      BY <2>1
    <3> QED  BY <3>1, EndsGrow, Zenon
  <2>3. Here = EndAfter(w, dp, n) + 0
    BY <1>5, <2>1 DEF Built
  <2>4. Here = EndAfter(w, dp, n)
    BY <2>2, <2>3
  <2> QED  BY <1>1, <2>1, <2>4
<1>8. raised' = "none"
  BY <1>1 DEF UnderWay
<1>9. UnderWay'
  BY <1>6, <1>7, <1>8 DEF UnderWay
<1> QED  BY <1>1, <1>2, <1>9

\* What the host does to the dictionary leaves the cells of images alone.
LEMMA HostKeeps ==
  ASSUME ImageInv, ~lost, HostCall
  PROVE  DInv' /\ (~lost' => Kept)
<1>1. DInv
  BY DEF ImageInv
<1>2. ASSUME NEW v \in Scalars, AppendCell(v) PROVE DInv' /\ Kept
  <2>1. v \in Int
    BY DictionaryAssumption
  <2> QED  BY <1>1, <1>2, <2>1, AppendCellKeeps
<1>3. ASSUME NEW v \in Scalars, NEW s \in Stacks, Push(s, v) PROVE DInv' /\ (~lost' => Kept)
  <2>1. v \in Int
    BY DictionaryAssumption
  <2> QED  BY <1>1, <1>3, <2>1, PushKeeps
<1>4. ASSUME NEW e \in Entries, AppendWord(e) PROVE DInv' /\ Kept
  <2>1. e \in EntryType
    BY DictionaryAssumption DEF EntryType
  <2> QED  BY <1>1, <1>4, <2>1, AppendWordKeeps
<1>5. ASSUME NEW s \in Stacks, Pop(s) PROVE DInv' /\ Kept
  BY <1>1, <1>5, PopKeeps
<1> QED  BY <1>2, <1>3, <1>4, <1>5 DEF HostCall

\* build returns what stands in memory.
LEMMA ImageReturned ==
  ASSUME ImageInv, ~lost, Return
  PROVE  ImageInv' /\ raised' = "none"
<1>1. /\ DInv /\ UNCHANGED <<mem, sp, walk, answer, installed, lost, raised>>
      /\ UNCHANGED <<specs, boot, at, cfas, bootIp, start>> /\ phase' = "idle"
      /\ phase = "boot" /\ at = Len(boot) /\ UnderWay
      /\ specs \in Seq(SpecWord) /\ boot \in Seq(BootItems) /\ at \in Nat
  BY DEF ImageInv, Return, vars, dictVars
<1>2. DInv' /\ Kept
  BY <1>1, DictionaryLeftAlone
<1>3. PICK new : new = [cfas |-> cfas, bootIp |-> bootIp, specs |-> specs, boot |-> boot, start |-> start]
  OBVIOUS
<1>4. images' = Append(images, new)
  BY <1>3 DEF Return
<1>5. /\ new.cfas = cfas /\ new.bootIp = bootIp /\ new.specs = specs /\ new.boot = boot
      /\ new.start = start
  BY <1>3
<1>6. /\ Built(mem, Here, Latest, specs, start.dp, start.latest, Len(specs), boot, Len(boot), cfas)
      /\ bootIp = EndAfter(specs, start.dp, Len(specs)) /\ raised = "none"
  BY <1>1 DEF UnderWay, Done, DoneItems
<1>7. ImageStands(new)
  BY <1>1, <1>5, <1>6 DEF ImageStands, Built
<1>8. PICK n \in Nat : n = Len(images) /\ DOMAIN images = 1 .. n
  BY LenProperties DEF ImageInv
<1>9. /\ DOMAIN images' = 1 .. n + 1 /\ images'[n + 1] = new
      /\ \A k \in 1 .. n : images'[k] = images[k]
      /\ images' \in Seq(Range(images'))
  <2>1. \A k \in DOMAIN images : images[k] \in Range(images)
    BY DEF Range
  <2>2. PICK S : S = Range(images) \cup {new}
    OBVIOUS
  <2>3. images \in Seq(S) /\ new \in S
    <3>1. \A k \in 1 .. n : images[k] \in S
      BY <1>8, <2>1, <2>2
    <3>2. images \in Seq(Range(images))
      BY DEF ImageInv
    <3>3. images = [k \in 1 .. n |-> images[k]]
      BY <1>8, <3>2
    <3> QED  BY <1>8, <2>2, <3>1, <3>3
  <2>4. /\ DOMAIN images' = 1 .. n + 1 /\ images'[n + 1] = new
        /\ \A k \in 1 .. n : images'[k] = images[k]
        /\ images' \in Seq(S) /\ Len(images') = n + 1
    BY <1>4, <1>8, <2>3
  <2>5. \A k \in 1 .. n + 1 : images'[k] \in Range(images')
    BY <2>4 DEF Range
  <2>6. images' = [k \in 1 .. n + 1 |-> images'[k]]
    BY <2>4
  <2>7. images' \in Seq(Range(images'))
    BY <2>5, <2>6
  <2> QED  BY <2>4, <2>7
<1>10. ASSUME NEW k \in DOMAIN images', ~lost'
       PROVE  ImageStands(images[k])'
  <2>1. PICK m : m = images'[k]
    OBVIOUS
  <2>2. ImageStands(m)
    <3>1. CASE k \in 1 .. n
      BY <1>8, <1>9, <2>1, <3>1 DEF ImageInv
    <3>2. CASE k = n + 1
      BY <1>7, <1>9, <2>1, <3>2
    <3>3. k \in 1 .. n \/ k = n + 1
      BY <1>9
    <3> QED  BY <3>1, <3>2, <3>3
  <2>3. ImageStands(m)'
    BY <1>1, <1>2, <2>2, ImageKept
  <2> QED  BY <2>1, <2>3 DEF ImageStands
<1>11. (specs \in Seq(SpecWord))' /\ (boot \in Seq(BootItems))' /\ (images \in Seq(Range(images)))'
  BY <1>1, <1>9 DEF SpecWord, BootItems, Range
<1>12. (\A k \in DOMAIN images : ImageStands(images[k]))' \/ lost'
  BY <1>10
<1> QED  BY <1>1, <1>2, <1>6, <1>11, <1>12 DEF ImageInv

\* Nothing is built and no image returned in the beginning.
LEMMA InitImageInv == BuilderInit => ImageInv
<1> SUFFICES ASSUME BuilderInit PROVE ImageInv
  OBVIOUS
<1>1. Init /\ phase = "idle" /\ specs = << >> /\ boot = << >> /\ at = 0 /\ images = << >>
  BY DEF BuilderInit
<1>2. specs \in Seq(SpecWord) /\ boot \in Seq(BootItems) /\ images \in Seq(Range(images))
  BY <1>1
<1> QED  BY <1>1, <1>2, InitDInv DEF ImageInv

\* Every step of build and of its host keeps it.
LEMMA NextImageInv == ImageInv /\ [BuilderNext]_<<vars, buildVars>> => ImageInv'
<1> SUFFICES ASSUME ImageInv, [BuilderNext]_<<vars, buildVars>> PROVE ImageInv'
  OBVIOUS
<1>0. /\ DInv /\ phase \in {"idle", "words", "boot"} /\ at \in Nat
      /\ specs \in Seq(SpecWord) /\ boot \in Seq(BootItems)
  BY DEF ImageInv
<1>1. CASE UNCHANGED <<vars, buildVars>>
  <2>1. /\ UNCHANGED <<mem, sp, walk, answer, installed, lost, raised>>
        /\ UNCHANGED <<phase, specs, boot, at, cfas, bootIp, start, images>>
    BY <1>1 DEF vars, dictVars, buildVars
  <2>2. DInv' /\ Kept
    BY <1>0, <2>1, DictionaryLeftAlone
  <2>3. CASE ~lost
    <3>1. ASSUME phase # "idle"
          PROVE  UnderWay'
      <4>1. UnderWay
        BY <2>3, <3>1 DEF ImageInv
      <4>2. Done' = Done /\ DoneItems' = DoneItems /\ Here' = Here /\ Latest' = Latest
        BY <2>1 DEF Done, DoneItems, Here, Latest
      <4>3. Built(mem', Here', Latest', specs', start'.dp, start'.latest, Done', boot', DoneItems', cfas')
        BY <2>1, <4>1, <4>2, Zenon DEF UnderWay
      <4>4. phase' = "boot" => bootIp' = EndAfter(specs', start'.dp, Len(specs'))
        BY <2>1, <4>1, Zenon DEF UnderWay
      <4>5. raised' = "none"
        BY <2>1, <4>1 DEF UnderWay
      <4> QED  BY <4>3, <4>4, <4>5 DEF UnderWay
    <3> QED  BY <1>0, <2>1, <2>2, <2>3, <3>1, ImagesKept
  <2>4. CASE lost
    <3>1. lost' /\ images' \in Seq(Range(images'))
      BY <2>1, <2>4 DEF ImageInv, Range
    <3> QED  BY <1>0, <2>1, <2>2, <3>1 DEF ImageInv, SpecWord, BootItems, Range
  <2> QED  BY <2>3, <2>4
<1>2. CASE BuilderNext
  <2>1. ~lost
    BY <1>2 DEF BuilderNext
  <2>2. CASE Call
    <3>1. /\ DInv' /\ Kept /\ specs' \in Seq(SpecWord) /\ boot' \in Seq(BootItems)
          /\ phase' \in {"idle", "words", "boot"} /\ at' \in Nat /\ images' = images /\ UnderWay'
      BY <2>1, <2>2, CallBegins
    <3> QED  BY <2>1, <3>1, ImagesKept
  <2>3. CASE Install
    <3>1. /\ DInv' /\ Kept /\ phase' \in {"idle", "words", "boot"} /\ at' \in Nat
          /\ phase' # "idle" => UnderWay'
      BY <2>1, <2>3, InstallBuilds
    <3>2. specs' = specs /\ boot' = boot /\ images' = images
      BY <2>3 DEF Install
    <3>3. specs' \in Seq(SpecWord) /\ boot' \in Seq(BootItems)
      BY <1>0, <3>2
    <3> QED  BY <2>1, <3>1, <3>2, <3>3, ImagesKept
  <2>4. CASE BeginBoot
    <3>1. DInv' /\ Kept /\ phase' \in {"idle", "words", "boot"} /\ at' \in Nat /\ UnderWay'
      BY <2>1, <2>4, BootBegins
    <3>2. specs' = specs /\ boot' = boot /\ images' = images
      BY <2>4 DEF BeginBoot
    <3>3. specs' \in Seq(SpecWord) /\ boot' \in Seq(BootItems)
      BY <1>0, <3>2
    <3> QED  BY <2>1, <3>1, <3>2, <3>3, ImagesKept
  <2>5. CASE BootItem
    <3>1. /\ DInv' /\ Kept /\ phase' \in {"idle", "words", "boot"} /\ at' \in Nat
          /\ phase' # "idle" => UnderWay'
      BY <2>1, <2>5, BootItemBuilds
    <3>2. specs' = specs /\ boot' = boot /\ images' = images
      BY <2>5 DEF BootItem
    <3>3. specs' \in Seq(SpecWord) /\ boot' \in Seq(BootItems)
      BY <1>0, <3>2
    <3> QED  BY <2>1, <3>1, <3>2, <3>3, ImagesKept
  <2>6. CASE Return
    BY <2>1, <2>6, ImageReturned
  <2>7. CASE HostCall
    <3>1. DInv' /\ (~lost' => Kept)
      BY <2>1, <2>7, HostKeeps
    <3>2. /\ specs' = specs /\ boot' = boot /\ images' = images /\ at' = at
          /\ phase' = phase /\ phase = "idle"
      BY <2>7 DEF HostCall
    <3>3. specs' \in Seq(SpecWord) /\ boot' \in Seq(BootItems)
      BY <1>0, <3>2
    <3>4. phase' \in {"idle", "words", "boot"} /\ at' \in Nat /\ phase' = "idle"
      BY <1>0, <3>2
    <3> QED  BY <2>1, <3>1, <3>2, <3>3, <3>4, ImagesKept
  <2> QED  BY <1>2, <2>2, <2>3, <2>4, <2>5, <2>6, <2>7 DEF BuilderNext, Build
<1> QED  BY <1>1, <1>2

\* The invariant holds whatever is built, fails to be built or is appended.
LEMMA BuilderImages == BuilderSpec => []ImageInv
<1>1. BuilderInit => ImageInv
  BY InitImageInv
<1>2. ImageInv /\ [BuilderNext]_<<vars, buildVars>> => ImageInv'
  BY NextImageInv
<1> QED  BY <1>1, <1>2, PTL DEF BuilderSpec

(***************************************************************************)
(* The images: the theorems                                                *)
(***************************************************************************)

\* The cells lie in memory m from dp up to end.
InPlace(m, dp, cells, end) ==
  cells \in Seq(Int) /\ end = dp + Len(cells) /\ \A x \in DOMAIN cells : m[dp + x - 1] = cells[x]

\* Words that stand one by one are the cells of an image in one piece.
LEMMA ImageInPlace ==
  ASSUME NEW w \in Seq(SpecWord), NEW dp \in Nat, NEW latest, NEW m,
         \A i \in 1 .. Len(w) : WordStandsAt(m, w, dp, latest, i)
  PROVE  InPlace(m, dp, ImageCells(w, Placed(w, dp), latest), EndAfter(w, dp, Len(w)))
<1>1. PICK n \in Nat : n = Len(w) /\ DOMAIN w = 1 .. n
  BY LenProperties
<1> DEFINE parts == [i \in 1 .. n |-> BuiltCells(w, dp, latest, i)]
           e == [i \in 0 .. n |-> EndAfter(w, dp, i)]
           cells == ImageCells(w, Placed(w, dp), latest)
<1>2. cells = FlattenSeq(parts)
  BY <1>1 DEF ImageCells, BuiltCells
<1>3. \A i \in 1 .. n : parts[i] = BuiltCells(w, dp, latest, i)
  OBVIOUS
<1>4. parts \in [1 .. n -> Seq(Int)]
  <2>1. \A i \in 1 .. n : BuiltCells(w, dp, latest, i) \in Seq(Int)
    BY <1>1 DEF WordStandsAt
  <2> QED  BY <2>1
<1>5. ASSUME NEW i \in 0 .. n
      PROVE  EndAfter(w, dp, i) \in Int
  <2>1. i \in Nat /\ i <= i /\ i <= Len(w) /\ dp \in Int
    BY <1>1
  <2> QED  BY <2>1, EndsGrow, Zenon
<1>6. e \in [0 .. n -> Int] /\ \A i \in 0 .. n : e[i] = EndAfter(w, dp, i)
  BY <1>5
<1>7. ASSUME NEW i \in 1 .. n
      PROVE  e[i] = e[i - 1] + Len(parts[i]) /\ e[i - 1] = EndAfter(w, dp, i - 1)
  <2>1. i - 1 \in 0 .. n /\ i \in 0 .. n /\ dp \in Int /\ i \in DOMAIN w
    BY <1>1
  <2>2. EndAfter(w, dp, i) = EndAfter(w, dp, i - 1) + WordSize(w[i])
    BY <2>1, EndsFollow, Zenon
  <2>3. Len(parts[i]) = WordSize(w[i])
    BY <1>1, <1>3 DEF WordStandsAt
  <2> HIDE DEF e, parts
  <2> QED  BY <1>6, <2>1, <2>2, <2>3, Zenon
<1> HIDE DEF parts, e, cells
<1>8. FlattenSeq(parts) \in Seq(Int) /\ Parts(FlattenSeq(parts), parts, e, n)
  BY <1>4, <1>6, <1>7, FlattenParts
<1>9. e[0] = dp /\ e[n] = EndAfter(w, dp, Len(w)) /\ e[n] \in Int
  <2>1. 0 \in 0 .. n /\ n \in 0 .. n
    OBVIOUS
  <2>2. EndAfter(w, dp, 0) = dp
    BY DEF EndAfter
  <2> QED  BY <1>1, <1>5, <1>6, <2>1, <2>2
<1>10. cells \in Seq(Int) /\ Len(cells) = e[n] - dp
  BY <1>2, <1>8, <1>9 DEF Parts
<1>11. EndAfter(w, dp, Len(w)) = dp + Len(cells)
  BY <1>9, <1>10
<1>12. ASSUME NEW x \in DOMAIN cells
       PROVE  m[dp + x - 1] = cells[x]
  <2>1. x \in 1 .. Len(cells)
    BY <1>10, LenProperties
  <2>2. PICK i \in 1 .. n : \E j \in 1 .. Len(parts[i]) :
          x = e[i - 1] - e[0] + j /\ cells[x] = parts[i][j]
    BY <1>2, <1>8, <2>1, Zenon DEF Parts
  <2>3. PICK j \in 1 .. Len(parts[i]) : x = e[i - 1] - dp + j /\ cells[x] = parts[i][j]
    BY <1>9, <2>2
  <2>4. PICK a \in Int : a = e[i - 1] /\ a = EndAfter(w, dp, i - 1)
    <3>1. i - 1 \in 0 .. n
      OBVIOUS
    <3> QED  BY <1>6, <3>1
  <2>5. Holds(m, a, parts[i])
    <3>1. WordStandsAt(m, w, dp, latest, i)
      BY <1>1
    <3> QED  BY <1>3, <2>4, <3>1 DEF WordStandsAt
  <2>6. m[a + j - 1] = parts[i][j]
    BY <2>5 DEF Holds
  <2>7. dp + x - 1 = a + j - 1
    <3>1. j \in Int
      BY <1>4, LenProperties
    <3> QED  BY <2>3, <2>4, <3>1
  <2> QED  BY <2>3, <2>6, <2>7
<1> QED  BY <1>10, <1>11, <1>12 DEF cells, InPlace

\* What ImagesStand says of one image.
LEMMA ImageStandsWhole ==
  ASSUME NEW m, ImageStands(m)
  PROVE  LET placed == Placed(m.specs, m.start.dp)
             cells  == ImageCells(m.specs, placed, m.start.latest)
             thread == BootCells(m.specs, placed, m.boot)
         IN /\ m.bootIp = m.start.dp + Len(cells)
            /\ \A i \in DOMAIN cells : mem[m.start.dp + i - 1] = cells[i]
            /\ \A i \in DOMAIN thread : mem[m.bootIp + i - 1] = thread[i]
            /\ \A n \in DOMAIN m.cfas : m.cfas[n] = CfaOf(m.specs, placed, n, Len(m.specs))
<1>1. PICK w \in Seq(SpecWord), b \in Seq(BootItems), dp \in Nat, latest \in {m.start.latest} :
        /\ w = m.specs /\ b = m.boot /\ dp = m.start.dp /\ latest = m.start.latest
  BY DEF ImageStands
<1>2. /\ Stands(mem, Here, w, dp, latest, Len(w), b, Len(b))
      /\ CfasAre(m.cfas, w, dp, Len(w)) /\ m.bootIp = EndAfter(w, dp, Len(w))
  BY <1>1, Zenon DEF ImageStands
<1> DEFINE cells  == ImageCells(w, Placed(w, dp), latest)
           thread == BootCells(w, Placed(w, dp), b)
<1>3. /\ EndAfter(w, dp, Len(w)) = dp + Len(cells)
      /\ \A x \in DOMAIN cells : mem[dp + x - 1] = cells[x]
  <2>1. \A i \in 1 .. Len(w) : WordStandsAt(mem, w, dp, latest, i)
    BY <1>2, Zenon DEF Stands
  <2>2. InPlace(mem, dp, cells, EndAfter(w, dp, Len(w)))
    BY <2>1, ImageInPlace, Zenon
  <2> QED  BY <2>2 DEF InPlace
<1>4. ASSUME NEW i \in DOMAIN thread
      PROVE  mem[m.bootIp + i - 1] = thread[i]
  <2>1. i \in 1 .. Len(b) /\ thread[i] = BootCell(w, Placed(w, dp), b[i])
    BY LenProperties DEF BootCells
  <2>2. mem[EndAfter(w, dp, Len(w)) + i - 1] = BootCell(w, Placed(w, dp), b[i])
    BY <1>2, <2>1 DEF Stands, BootStands
  <2> QED  BY <1>2, <2>1, <2>2
<1>5. \A n \in DOMAIN m.cfas : m.cfas[n] = CfaOf(w, Placed(w, dp), n, Len(w))
  BY <1>2 DEF CfasAre
<1> HIDE DEF cells, thread
<1>6. m.bootIp = dp + Len(cells)
  BY <1>2, <1>3
<1> QED  BY <1>1, <1>3, <1>4, <1>5, <1>6, Zenon DEF cells, thread

\* Every image that was returned stands in memory as it was built, whatever is
\* built, fails or is appended after it (builder.py 48-82, dictionary.py 46-69).
THEOREM BuilderImagesStand == BuilderSpec => []ImagesStand
<1>1. ImageInv => ImagesStand
  <2> SUFFICES ASSUME ImageInv PROVE ImagesStand
    OBVIOUS
  <2>1. ~lost => \A k \in DOMAIN images : ImageStands(images[k])
    BY DEF ImageInv
  <2> QED  BY <2>1, ImageStandsWhole DEF ImagesStand
<1> QED  BY <1>1, BuilderImages, PTL

\* What build raises when it ends, and at which item.
Outcome ==
  LET first(s) == Min(s \cup {Len(specs) + Len(boot) + 1})
  IN raised' = IF Unresolved \cup TooBig = {} THEN "none"
               ELSE IF first(Unresolved) <= first(TooBig) THEN "KernelError"
               ELSE "IndexError"

\* The item build stops at is the first that is at fault.
LEMMA FirstRefused ==
  ASSUME specs \in Seq(SpecWord), boot \in Seq(BootItems), NEW p \in Nat,
         \A i \in 1 .. p : i \notin Unresolved /\ i \notin TooBig, Refused(p + 1)
  PROVE  Outcome
<1> DEFINE first(s) == Min(s \cup {Len(specs) + Len(boot) + 1})
<1>1. PICK l \in Nat : l = Len(specs) + Len(boot)
  <2>1. Len(specs) \in Nat /\ Len(boot) \in Nat
    OBVIOUS
  <2> QED  BY <2>1
<1>2. Unresolved \subseteq 1 .. l /\ TooBig \subseteq 1 .. l
  BY <1>1, UnresolvedItem DEF TooBig
<1>3. p + 1 \in 1 .. l
  BY <1>2 DEF Refused
<1>4. ASSUME NEW S, S \subseteq 1 .. l, \A i \in 1 .. p : i \notin S
      PROVE  /\ first(S) \in S \cup {l + 1} /\ first(S) \in Nat /\ p + 1 <= first(S)
             /\ p + 1 \in S => first(S) = p + 1
  <2>1. PICK T : T = S \cup {l + 1}
    OBVIOUS
  <2>a. T \subseteq Nat /\ T # {}
    <3>1. 1 .. l \subseteq Nat /\ l + 1 \in Nat
      OBVIOUS
    <3> QED  BY <1>4, <2>1, <3>1, Zenon
  <2>b. first(S) = Min(T)
    BY <1>1, <2>1, Zenon
  <2>2. T \subseteq Nat /\ T # {} /\ first(S) = Min(T)
    BY <2>a, <2>b, Zenon
  <2>3. Min(T) \in T /\ \A k \in T : Min(T) <= k
    BY <2>2, LeastOf
  <2>4. \A k \in T : p + 1 <= k
    BY <1>3, <1>4, <2>1
  <2>5. Min(T) \in Nat /\ p + 1 <= Min(T)
    BY <2>2, <2>3, <2>4
  <2>6. p + 1 \in T => Min(T) = p + 1
    BY <2>3, <2>5
  <2> QED  BY <2>1, <2>2, <2>3, <2>5, <2>6
<1>5. /\ first(Unresolved) \in Unresolved \cup {l + 1} /\ p + 1 <= first(Unresolved)
      /\ first(Unresolved) \in Nat
      /\ p + 1 \in Unresolved => first(Unresolved) = p + 1
  BY <1>2, <1>4
<1>6. /\ p + 1 <= first(TooBig) /\ first(TooBig) \in Nat
      /\ p + 1 \in TooBig => first(TooBig) = p + 1
  BY <1>2, <1>4
<1>7. Unresolved \cup TooBig # {}
  BY DEF Refused
<1> HIDE DEF first
<1>8. CASE raised' = "KernelError" /\ p + 1 \in Unresolved
  <2>1. first(Unresolved) <= first(TooBig)
    BY <1>5, <1>6, <1>8
  <2> QED  BY <1>7, <1>8, <2>1 DEF Outcome, first
<1>9. CASE raised' = "IndexError" /\ p + 1 \notin Unresolved /\ p + 1 \in TooBig
  <2>1. first(Unresolved) # p + 1
    BY <1>3, <1>5, <1>9
  <2>2. ~(first(Unresolved) <= first(TooBig))
    BY <1>5, <1>6, <1>9, <2>1
  <2> QED  BY <1>7, <1>9, <2>2 DEF Outcome, first
<1> QED  BY <1>8, <1>9 DEF Refused

\* A build that ends has the outcome it should.
LEMMA BuildEnds ==
  ASSUME ImageInv, BuilderNext, phase # "idle", phase' = "idle"
  PROVE  Outcome
<1>1. /\ ~lost /\ phase \in {"words", "boot"} /\ at \in Nat
      /\ specs \in Seq(SpecWord) /\ boot \in Seq(BootItems)
  BY DEF ImageInv, BuilderNext
<1>2. /\ Done \in Nat /\ DoneItems \in Nat
      /\ \A i \in 1 .. Done + DoneItems : i \notin Unresolved /\ i \notin TooBig
  BY <1>1, DoneNotRefused
<1>3. CASE Install
  <2>1. Refused(at + 1)
    BY <1>1, <1>3, InstallBuilds
  <2>2. Done + DoneItems = at
    BY <1>1, <1>3 DEF Install, Done, DoneItems
  <2> QED  BY <1>1, <1>2, <2>1, <2>2, FirstRefused
<1>4. CASE BootItem
  <2>1. Refused(Len(specs) + at + 1)
    BY <1>1, <1>4, BootItemBuilds
  <2>2. Done + DoneItems = Len(specs) + at /\ Len(specs) + at \in Nat
    <3>1. Len(specs) \in Nat
      BY <1>1
    <3> QED  BY <1>1, <1>4, <3>1 DEF BootItem, Done, DoneItems
  <2> QED  BY <1>1, <1>2, <2>1, <2>2, FirstRefused
<1>5. CASE Return
  <2>1. raised' = "none"
    BY <1>1, <1>5, ImageReturned
  <2>2. Done + DoneItems = Len(specs) + Len(boot)
    BY <1>5 DEF Return, Done, DoneItems
  <2>3. Unresolved \cup TooBig = {}
    <3>1. \A i \in Unresolved : i \in 1 .. Len(specs) + Len(boot)
      BY <1>1, UnresolvedItem
    <3> QED  BY <1>2, <2>2, <3>1 DEF TooBig
  <2> QED  BY <2>1, <2>3 DEF Outcome
<1>6. ~Call /\ ~BeginBoot /\ ~HostCall
  BY <1>1 DEF Call, Begin, BeginBoot, HostCall
<1> QED  BY <1>3, <1>4, <1>5, <1>6 DEF BuilderNext, Build

\* build returns an image exactly if every name is of a word installed earlier
\* in the same call and all of it fits; otherwise it raises what the first item
\* at fault is at fault for (builder.py 59-82).
THEOREM BuilderBuildOutcome == BuilderSpec => BuildOutcome
<1> DEFINE Ends == phase # "idle" /\ phase' = "idle"
<1>1. ImageInv /\ [BuilderNext]_<<vars, buildVars>> => [Ends => Outcome]_<<vars, buildVars>>
  <2> SUFFICES ASSUME ImageInv, BuilderNext, Ends
               PROVE  Outcome
    OBVIOUS
  <2> QED  BY BuildEnds
<1>2. [][Ends => Outcome]_<<vars, buildVars>> <=> BuildOutcome
  BY DEF BuildOutcome, Outcome
<1> HIDE DEF Ends
<1> QED  BY <1>1, <1>2, BuilderImages, PTL DEF BuilderSpec

=============================================================================
