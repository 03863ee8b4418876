--------------------------- MODULE KernelBuilder ---------------------------
(***************************************************************************)
(* KernelBuilder.build on the dictionary, word by word: what it returns,   *)
(* and what it leaves when it fails half way.  Builds follow one another   *)
(* on the same dictionary, and between them the host uses the dictionary   *)
(* and the stacks.  The assembled routines are the constants CodeWords and *)
(* EnterIndex: START does assemble at index 0, so the check of it never    *)
(* raises.                                                                 *)
(***************************************************************************)
EXTENDS Dictionary

CONSTANTS
  CodeWords,     \* CODE_WORDS with their routines' indices, as words of WordLayout
  EnterIndex,    \* where ENTER assembles
  ColonLists,    \* the colon_words build is called with
  BootThreads,   \* the boot threads it is called with
  MaxCalls       \* bound: calls of build and of the host in between

ASSUME BuilderAssumption ==
  /\ EnterIndex \in Int /\ MaxCalls \in Nat
  /\ \E i \in DOMAIN CodeWords : CodeWords[i].name = "EXIT"
  /\ CodeWords \in Seq([name : STRING, codes : Seq(Int), words : {<< >>}, field : Int,
                       immediate : BOOLEAN])
  /\ ColonLists \subseteq Seq([name : STRING, codes : Seq(Int), words : Seq(STRING),
                               immediate : BOOLEAN])
  /\ BootThreads \subseteq Seq({"word"} \X STRING \cup {"cell"} \X Int)
  \* the codes are those of the name's characters
  /\ \A v, w \in Range(CodeWords) \cup UNION {Range(c) : c \in ColonLists} :
       v.name = w.name <=> v.codes = w.codes

VARIABLES
  phase,    \* of the build under way: "words" or "boot"; or "idle"
  specs,    \* the words it installs
  boot,     \* its boot thread
  at,       \* how many words, or boot items, are done
  cfas,     \* word_cfas
  bootIp,
  start,    \* history: DP and LATEST when it was called
  calls,    \* history: how many there have been
  images    \* history: the images returned, with the build each one is of

buildVars == <<phase, specs, boot, at, cfas, bootIp, start, calls, images>>

NoCfas == [n \in {} |-> 0]

\* A call of the dictionary raised, or build raises on its own: build is over.
Fails == phase' = "idle" /\ UNCHANGED <<at, cfas>>

KernelError ==
  /\ raised' = "KernelError"
  /\ Fails
  /\ UNCHANGED <<mem, sp, walk, answer, installed, lost>>

-----------------------------------------------------------------------------
(* build *)

Begin ==
  /\ phase = "idle" /\ calls < MaxCalls
  /\ \E colon \in ColonLists :
       specs' = CodeWords \o [i \in DOMAIN colon |-> ColonSpec(colon[i], EnterIndex)]
  /\ boot' \in BootThreads
  /\ phase' = "words" /\ at' = 0
  /\ start' = [dp |-> Here, latest |-> Latest] /\ calls' = calls + 1
  /\ raised' = "none"
  /\ UNCHANGED <<mem, sp, walk, answer, installed, lost, bootIp, images>>

\* mutant: word_cfas is not made anew for each build
CallKeepsCfas == Begin /\ UNCHANGED cfas

Call == Begin /\ cfas' = NoCfas

\* mutant: a name keeps the address it was given first
KnowFirst(name, cfa) ==
  [n \in DOMAIN cfas \cup {name} |-> IF n \in DOMAIN cfas THEN cfas[n] ELSE cfa]

\* word_cfas[name] = cfa
Know(name, cfa) == [n \in DOMAIN cfas \cup {name} |-> IF n = name THEN cfa ELSE cfas[n]]

\* the word appended, and known from then on
AppendAs(w, thread) ==
  /\ AppendWord([codes |-> w.codes, immediate |-> w.immediate, field |-> w.field,
                 thread |-> thread])
  /\ IF raised' = "none"
     THEN cfas' = Know(w.name, answer'.cfa) /\ at' = at + 1 /\ UNCHANGED phase
     ELSE Fails

\* mutant: an unknown name is compiled as 0
InstallUnchecked ==
  /\ phase = "words" /\ at < Len(specs)
  /\ LET w == specs[at + 1] IN
     AppendAs(w, [j \in DOMAIN w.words |->
                    IF w.words[j] \in DOMAIN cfas THEN cfas[w.words[j]] ELSE 0])
  /\ UNCHANGED <<specs, boot, bootIp, start, calls, images>>

Install ==
  /\ phase = "words" /\ at < Len(specs)
  /\ LET w == specs[at + 1] IN
     IF Range(w.words) \subseteq DOMAIN cfas
     THEN AppendAs(w, [j \in DOMAIN w.words |-> cfas[w.words[j]]])
     ELSE KernelError
  /\ UNCHANGED <<specs, boot, bootIp, start, calls, images>>

BeginBoot ==
  /\ phase = "words" /\ at = Len(specs)
  /\ phase' = "boot" /\ at' = 0 /\ bootIp' = Here
  /\ UNCHANGED <<vars, specs, boot, cfas, start, calls, images>>

BootItem ==
  /\ phase = "boot" /\ at < Len(boot)
  /\ LET item == boot[at + 1] IN
     IF item[1] = "word" /\ item[2] \notin DOMAIN cfas
     THEN KernelError
     ELSE /\ AppendCell(IF item[1] = "word" THEN cfas[item[2]] ELSE item[2])
          /\ IF raised' = "none" THEN at' = at + 1 /\ UNCHANGED <<phase, cfas>> ELSE Fails
  /\ UNCHANGED <<specs, boot, bootIp, start, calls, images>>

Return ==
  /\ phase = "boot" /\ at = Len(boot)
  /\ images' = Append(images, [cfas |-> cfas, bootIp |-> bootIp,
                               specs |-> specs, boot |-> boot, start |-> start])
  /\ phase' = "idle"
  /\ UNCHANGED <<vars, specs, boot, at, cfas, bootIp, start, calls>>

Build == Call \/ Install \/ BeginBoot \/ BootItem \/ Return

\* what the host does with the dictionary and the stacks between builds
HostCall ==
  /\ phase = "idle" /\ calls < MaxCalls
  /\ \/ \E v \in Scalars : AppendCell(v) \/ \E s \in Stacks : Push(s, v)
     \/ \E e \in Entries : AppendWord(e)
     \/ \E s \in Stacks : Pop(s)
  /\ calls' = calls + 1
  /\ UNCHANGED <<phase, specs, boot, at, cfas, bootIp, start, images>>

BuilderInit ==
  /\ Init
  /\ phase = "idle" /\ specs = << >> /\ boot = << >> /\ at = 0 /\ cfas = NoCfas
  /\ bootIp = 0 /\ start = [dp |-> 0, latest |-> 0] /\ calls = 0 /\ images = << >>

\* Bound: nothing is followed beyond the loss of a value.
BuilderNext == ~lost /\ (Build \/ HostCall)

BuilderSpec == BuilderInit /\ [][BuilderNext]_<<vars, buildVars>>

-----------------------------------------------------------------------------
(* Properties *)

Names(i) == {specs[j].name : j \in 1 .. i}

\* The items of the build, words before boot items, that name what is not
\* installed yet.
Unresolved ==
  {i \in DOMAIN specs : ~(Range(specs[i].words) \subseteq Names(i - 1))} \cup
  {Len(specs) + j : j \in {k \in DOMAIN boot : /\ boot[k][1] = "word"
                                               /\ boot[k][2] \notin Names(Len(specs))}}

\* The cell behind item i.
EndOf(i) ==
  LET n      == Len(specs)
      placed == Placed(specs, start.dp)
      word(k) == placed[k].cfa + 1 + Len(specs[k].words)
  IN  IF i <= n THEN word(i) ELSE word(n) + i - n

TooBig == {i \in 1 .. Len(specs) + Len(boot) : EndOf(i) > MEMORY_SIZE}

\* build returns an image exactly if every name, EXIT included, is of a word
\* installed earlier in the same call and the whole image fits; otherwise it
\* ends at the first item that fails, which is refused before it is written
\* if a name is at fault (builder.py 59-82).
BuildOutcome ==
  [][phase # "idle" /\ phase' = "idle" =>
       LET first(s) == Min(s \cup {Len(specs) + Len(boot) + 1})
       IN raised' = IF Unresolved \cup TooBig = {} THEN "none"
                    ELSE IF first(Unresolved) <= first(TooBig) THEN "KernelError"
                    ELSE "IndexError"]_<<vars, buildVars>>

\* Every image that was returned stands in memory as it was built, whatever
\* was built, failed or appended after it: its words one after the other from
\* the DP of the call, every thread on the newest words of its own build that
\* precede it (a colon word named EXIT included), then the boot thread.
ImagesStand ==
  ~lost => \A k \in DOMAIN images :
    LET m      == images[k]
        placed == Placed(m.specs, m.start.dp)
        cells  == ImageCells(m.specs, placed, m.start.latest)
        thread == BootCells(m.specs, placed, m.boot)
    IN /\ m.bootIp = m.start.dp + Len(cells)
       /\ \A i \in DOMAIN cells : mem[m.start.dp + i - 1] = cells[i]
       /\ \A i \in DOMAIN thread : mem[m.bootIp + i - 1] = thread[i]
       /\ \A n \in DOMAIN m.cfas : m.cfas[n] = CfaOf(m.specs, placed, n, Len(m.specs))

CfaAt(i) == installed[i].nfa + mem[installed[i].nfa] + 1

\* Every word the dictionary can find has a thread of words completed before
\* it, and a word with a thread ends in one that was named EXIT: a build that
\* fails leaves no word behind that runs into nothing, or into itself.
ThreadsClosed ==
  ~lost => \A i \in DOMAIN installed : \A j \in 1 .. installed[i].length :
    \E k \in 1 .. i - 1 :
      /\ mem[CfaAt(i) + j] = CfaAt(k)
      /\ j = installed[i].length =>
           CountedString(mem, installed[k].nfa) \in
             {CodeWords[n].codes : n \in {m \in DOMAIN CodeWords : CodeWords[m].name = "EXIT"}}

\* When build returns, dictionary.find and the image's word_cfas agree on every
\* name of the build, words of former builds and redefinitions notwithstanding.
FindAgrees ==
  [][phase = "boot" /\ phase' = "idle" /\ raised' = "none" =>
       \A i \in DOMAIN specs :
         LET nfa == Search(specs[i].codes)
         IN  nfa # 0 /\ HeaderAt(nfa).cfa = cfas[specs[i].name]]_<<vars, buildVars>>

=============================================================================
