------------------------------- MODULE Kernel -------------------------------
(***************************************************************************)
(* A booted kernel: KernelBuilder's image in memory, its program loaded,   *)
(* IP on the boot thread, and one run() call of the emulator over it.      *)
(* Every step is one machine instruction of Emulator.                      *)
(***************************************************************************)
EXTENDS Emulator, KernelImage

CONSTANTS
  Boots,     \* the boot threads
  Inputs,    \* what the input queue holds at the start
  MaxSteps,  \* the max_steps of run()
  Width      \* see ForthMachine

KERNEL == "kernel"   \* the name of the kernel's program

ASSUME KernelAssumption ==
  /\ KERNEL \in DOMAIN Code
  /\ Code[KERNEL] = KernelProgram
  /\ MaxSteps \in Nat

VARIABLE word   \* history: the machine as the latest word boundary left it

kernelVars == <<vars, word>>

Snapshot == [
  ds     |-> Contents("D"),
  rs     |-> Contents("R"),
  ip     |-> regs["IP"],
  dict   |-> [a \in 0 .. DICTIONARY_SIZE - 1 |-> mem[a]],
  in     |-> input,
  out    |-> output,
  status |-> IF halted THEN "halted" ELSE IF raised = "none" THEN "running" ELSE raised ]

\* boot(), then run(MaxSteps)
KernelInit ==
  \E boot \in Boots, chars \in Inputs, image \in {Installed} :
    /\ mem = ImageMemory(image, boot)
    /\ sp = [s \in Stacks |-> Base(s)]
    /\ prog = KERNEL /\ pc = 0 /\ halted = FALSE
    /\ regs = [r \in Registers |-> IF r = "IP" THEN BootIp(image) ELSE 0]
    /\ input = chars /\ output = << >>
    /\ raised = "none"
    /\ running = TRUE /\ budget = MaxSteps /\ steps = 0
    /\ calls = 1
    /\ word = Snapshot

\* A word is over when control is back at NEXT, and so is the run.
AtBoundary == pc = KernelLabels["NEXT"] \/ ~running \/ halted

KernelNext ==
  /\ RunProgress
  /\ word' = IF AtBoundary' THEN Snapshot' ELSE word

KernelSpec == KernelInit /\ [][KernelNext]_kernelVars

-----------------------------------------------------------------------------
(* Properties *)

Entry ==
  LET labels == {PRIMITIVES[i].label : i \in DOMAIN PRIMITIVES} \cup {"ENTER"}
      index  == KernelLabels
  IN  [x \in {index[l] : l \in labels} |-> CHOOSE l \in labels : index[l] = x]

Headers ==
  LET installed == Installed
  IN  [i \in DOMAIN installed.specs |->
         [codes |-> installed.specs[i].codes,
          nfa |-> installed.placed[i].nfa, cfa |-> installed.placed[i].cfa]]

Forth == INSTANCE ForthMachine WITH
           ds <- word.ds, rs <- word.rs, ip <- word.ip, dict <- word.dict,
           in <- word.in, out <- word.out, status <- word.status, TRUE_FLAG <- -1

\* The kernel implements ForthMachine: seen from NEXT to NEXT, every routine
\* of routines.py has the effect its stack comment promises, on exactly the
\* operands of the word, whatever the words before it left in the registers,
\* and a word cut short leaves what ForthMachine says.
ImplementsForth == Forth!Spec

\* The threading discipline (routines.py 9-19): a routine is entered only
\* through NEXT, with W on the code field that leads to it, XT equal to that
\* field and IP just past the thread cell that names it; NEXTREG holds NEXT.
ThreadingDiscipline ==
  /\ pc \in DOMAIN Entry /\ running /\ ~halted =>
       /\ mem[regs["W"]] = pc /\ regs["XT"] = pc
       /\ mem[regs["IP"] - 1] = regs["W"]
  /\ pc >= KernelLabels["NEXT"] => regs["NEXTREG"] = KernelLabels["NEXT"]

Comparisons == {"EQUALS", "NOTEQUALS", "LESSTHAN", "GREATERTHAN", "ZEROEQ", "ZEROLT"}

\* The flags that the comparison words push are 1 = true, 0 = false, as the
\* comment above them in routines.py has it.
FlagsAreOneOrZero ==
  [][word' # word /\ Forth!Word \in Comparisons /\ word'.status = "running" =>
       Last(word'.ds) \in {0, 1}]_kernelVars

InWord == pc \in KernelLabels["WORD"] .. KernelLabels["WORD_END"] + 4

\* WORD builds its counted string in the WORD buffer of layout.py, a fixed
\* block below the stacks: no STORE of the routine reaches another cell.
TokenStaysInBuffer ==
  [][InWord /\ Fetched.op = "STORE" =>
       \A c \in Cells : mem'[c] # mem[c] => c \in WORD_BUFFER_BASE .. DICTIONARY_TOP - 1]_kernelVars

=============================================================================
