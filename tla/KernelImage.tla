---------------------------- MODULE KernelImage -----------------------------
(***************************************************************************)
(* What KernelBuilder.build leaves in a fresh memory (builder.py and       *)
(* dictionary.py): the CODE words, the colon words and the boot thread,    *)
(* laid out one after the other from DICTIONARY_BASE.                      *)
(***************************************************************************)
EXTENDS KernelRoutines, WordLayout

CONSTANT ColonWords   \* ColonWordDto: [name, codes, words, immediate]

KernelProgram == Program(KERNEL_SOURCE)
KernelLabels  == LabelTable(KERNEL_SOURCE)

\* what install() is called with, in its order; words is the thread's names
Specs ==
  LET labels == KernelLabels
  IN  [i \in DOMAIN PRIMITIVES |->
         [name |-> PRIMITIVES[i].name, codes |-> PRIMITIVES[i].codes, words |-> << >>,
          field |-> labels[PRIMITIVES[i].label], immediate |-> FALSE]] \o
      [i \in DOMAIN ColonWords |-> ColonSpec(ColonWords[i], labels["ENTER"])]

\* every installed word, oldest first, and the cells they take
Installed ==
  LET specs  == Specs
      placed == Placed(specs, DICTIONARY_BASE)
  IN  [specs |-> specs, placed |-> placed, cells |-> ImageCells(specs, placed, 0)]

\* boot_ip: dictionary.here() once every word is appended
BootIp(image) == DICTIONARY_BASE + Len(image.cells)

ImageMemory(image, boot) ==
  LET ip   == BootIp(image)
      dp   == ip + Len(boot)
  IN  [a \in 0 .. MEMORY_SIZE - 1 |->
         CASE a = DP_ADDR     -> dp
           [] a = LATEST_ADDR -> Last(image.placed).nfa
           [] a \in DICTIONARY_BASE .. ip - 1 -> image.cells[a - DICTIONARY_BASE + 1]
           [] a \in ip .. dp - 1 -> BootCell(image.specs, image.placed, boot[a - ip + 1])
           [] OTHER -> 0]

=============================================================================
