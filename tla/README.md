# A verification of min-cpu-forth

min-cpu-forth is a small CPU with 17 opcodes and two stacks in its memory, an
assembler for it, and an indirect-threaded Forth kernel written in that
assembler.  This directory holds TLA+ models of the machine, the assembler and
the kernel, TLC configurations that check them on small instances, and theorems
about them that TLAPS proves for every value of the constants.

Paths below are relative to `src/min_cpu_forth/` in the repository.

## The system

| Component | State | Operations | Talks to |
|---|---|---|---|
| memory map, `layout.py` | none | constants | everything |
| memory, `adapters/memory.py` | a list of cells | `read`, `write` | stacks, emulator, dictionary, Forth service, host |
| stacks, `adapters/stack.py` (two) | a pointer each, values in memory | `push`, `pop`, `peek` | memory |
| registers, `adapters/registers.py` | name -> integer, 0 until written | `read`, `write` | emulator, host |
| devices, `adapters/io.py` | input queue, output buffer | `feed`, `read`, `write` | emulator, host |
| emulator, `services/emulator.py` | program, `pc`, `halted` | `load`, `step`, `run` | all of the above |
| assembler, `services/assembler/` | none between calls | `assemble`: parse, resolve, emit | kernel builder |
| kernel routines, `services/kernel/routines.py` | registers `IP`, `W`, `XT`, `NEXTREG`, scratch; memory | `START`, `NEXT`, `ENTER`, 39 CODE words | run by the emulator |
| kernel builder, `services/kernel/builder.py` | none between calls | `build`, `boot` | assembler, dictionary, emulator |
| dictionary, `adapters/dictionary.py` with `counted_string.py`, `system_variables.py` | `DP`, `LATEST` and headers, all in memory | `append_cell`, `append_word`, `find`, `headers` | memory |
| Forth service, `services/forth.py` | word tables, `IP`, `halted` | a callable per word, `add_colon_def` | stacks, memory, its own registers |
| containers, `containers.py` | the singletons | wiring | decides who shares what |

Nothing runs in parallel and nothing is persisted.  What is hard here is
sharing and sequence:

* One Python list holds the dictionary, WORD's buffer and both stacks, and all
  services of a machine use it.  Python counts negative addresses from the end
  of the list, where the return stack is.
* An exception ends a call in the middle of a program, the host keeps the
  machine and may call again.  What a refused instruction, a stopped run or
  half a Forth word leaves behind is part of the behaviour.
* The kernel's routines share some thirty registers.  A routine that reads one
  it has not written works on a fresh machine.
* The assembler counts instructions in one pass and emits them in another, and
  mirrors the emulator's operand table by hand.

`PROJECT.json` lists each hazard with its line and the properties that watch it.

What makes the components correct:

* data path: two independent bounded LIFO stacks, whatever else uses the list;
* emulator: a refused instruction leaves no trace but `pc`; `run` returns, in
  one of three well-defined ways, and can be resumed; live stack values change
  only by the program's own `STORE`;
* assembler: both passes agree on every address, branches reach their labels,
  no emitted instruction is refused by its handler;
* kernel: every routine is entered as the threading discipline says and does
  what its stack comment says, on any register contents, up to every limit;
* dictionary: a list of words that only grows, in which a name means its newest
  word, whatever else its clients do to the memory, and that a call that runs out
  of memory leaves as it was;
* kernel builder: an image is returned exactly if it can be, stands where it was
  built for ever, and a build that fails leaves no word that runs into nothing;
* Forth service: a call runs the expansion of its word, as far as the first word
  that fails, and agrees with the kernel on the words both have.

## The modules

    Layout --- Memory --- DataPath ......... refines LifoStacks  (DataPathProofs)
                 |
                 |--- Machine --- Emulator                       (EmulatorProofs)
                 |                   `- Kernel ... refines ForthMachine
                 |--- Dictionary ........... refines WordList    (DictionaryProofs,
                 |        |                                       WordListProofs)
                 |        `- KernelBuilder                       (KernelBuilderProofs)
                 `--- Forth ....... agrees with ForthMachine     (ForthProofs)

    Isa --- Assembly --- Parser --- Assembler                    (AssemblerProofs)
               `- KernelRoutines --- KernelImage (used by Kernel)

`Isa` is also part of `Machine`; `PythonIntegers` is part of `Machine`,
`ForthMachine` and `Forth`; `WordLayout` of `KernelImage` and `Dictionary`.

* `Layout`: `layout.py`, its sizes as constants.
* `Memory`: the list and both stacks.  `mem` is `ListMemoryAdapter._cells`,
  `sp` the two `_pointer`s.  `CellAt` is Python's indexing.
* `DataPath`: one action per call of `MemoryPort` or `StackPort`.  Memory calls
  are those of clients that keep below the stacks (`ClientAssumption`); a
  program's wild `STORE` is the emulator's subject.  `port` is a history
  variable that names the stack the last call was made on.
* `LifoStacks`: what `StackPort` promises.
* `Isa`: opcodes, instruction format, and which operands a handler refuses.
* `Machine`: `step`.  Each `Exec...` action is a whole handler with its
  exceptions; `raised` is the exception the last call ended with.  An
  instruction's integer operand (`b` or `offset`) is in `imm`.
* `Emulator`: the host.  `run` is `RunCall`, then `RunStep` once per iteration,
  then `RunReturn` or `RunExceeded`; a step that raises ends it.  So a property
  can speak of the inside of a run.
* `PythonIntegers`: `&`, `//` and `%` of integers of either sign.
* `Assembly`: one parsed line: size, operand kinds, emitted instructions,
  and in one piece the label table and program of a whole unit.
* `Parser`: what `LineParser` makes of a line of text, given as its lexemes.
* `Assembler`: `assemble` as its passes: the parser in one step, the resolver and
  the emitter one action per line.
* `KernelRoutines`: the kernel's source as parsed lines, with the table of CODE
  words.  `KernelImage`: the memory `build` leaves on a fresh machine, with the
  real routines.
* `WordLayout`: how a word lies in memory, and where the words of a build lie.
* `Dictionary`: one action per call of `MemoryDictionaryAdapter`, between the
  calls of the other clients of its memory.  `headers` is a generator, so each
  header it yields is an action and `walk` is where it stands.  `installed` and
  `lost` are history variables: the words completed, and whether the dictionary
  has grown into a value on a stack.
* `WordList`: what `DictionaryPort` promises.
* `KernelBuilder`: `build` over `Dictionary`, one action per word and per cell of
  the boot thread; `cfas` is its `word_cfas`.  `images` is a history variable: what
  the builds so far have returned.
* `Forth`: `ForthService`.  A call of the host puts a word on `frames`; a step runs
  one primitive, or enters or leaves a list, so that an exception stops a call
  where it happens.  `called` and `ran` are history variables.
* `Kernel`: that image booted, one `run` of `Emulator` over it.  `word` is a
  history variable: the Forth-visible machine at the last word boundary (`pc` at
  `NEXT`, or the run over).
* `ForthMachine`: one step per Forth word, written from the stack comments of
  the routines, including what a word cut short by a limit leaves.  `TRUE_FLAG`
  is what a comparison leaves for true, -1 in both of its instances (in `Kernel`
  and in `Forth`).  `DataStep` is what a word does that computes, `Complete` the
  same unless it is `*` by a negative number (`Endless`), whose routine only the
  runaway guard stops.
* `MC...`: values for the constants.  `...Proofs`: theorems; `CommonProofs` has the
  lemmas that several of them need, on the memory map, on what a stack holds, and
  on induction.

Operators marked `mutant` are wrong versions of the definition after them; each
is a bug that the property it is paired with in `PROJECT.json` detects.

Abstractions: integers are unbounded, as in Python.  A character is its code.
A line of source is the sequence of its lexemes (a label with its colon, a comma,
a semicolon, a word): which characters make one is not modelled, and
`int(token, 0)` is the partial function `IntOf`.  An operand that the parser makes
of several words stands as `Unreadable`, a token no kind of operand accepts.
Where Python's own stack ends is not the program's to know: in the deepest list
of `Forth` any call that a word makes may be the one that raises
`RecursionError`.
Messages of exceptions are left out.  `BitAnd` returns 0 if its recursive
function did not yield an integer; it always does.

## What the runs check

* `data_path` (11520 states): `ImplementsLifo`.  Stacks of two cells, so both limits, the adjacent
  boundary and every alternation near them occur; client addresses from both
  ends of the list and outside it.
* `emulator` (23329 states): five host calls over twelve programs, among them two that fill the
  stacks, one that drains them, one that writes to any cell, one that never
  halts, two with refused operands.  Budgets 0, 2 and 7 stop programs at once,
  in the middle and not at all.  Five calls allow seed, load, run, feed and
  run again.  `RunsReturn` is under weak fairness of `RunProgress`: `run` is a
  Python loop that nothing blocks or preempts, so its next iteration happens.
  The host itself is under no fairness.
* `kernel_words` (193289 states): the real routines, assembled by `Program`, over the real
  dictionary, with a data stack of four cells and a return stack of two.  All
  ordered pairs of computing words, and two-level colon words beside
  others, on operand lists that are empty, one short, enough, and at the limit.
  Pairs are what stale registers need: one word to dirty them, one to read
  them.  `MaxSteps` = 350 exceeds the longest terminating thread; a negative
  multiplier ends by the guard.
* `kernel_devices` (467177 states): the words that reach devices and memory, on inputs that end
  before, inside and after a token, every numeral of up to three of `-`, `/`,
  `0`, `9`, `:`, and names that are new, shadowed, smudged, immediate, unknown
  or a prefix.
* `assembler` (75847 states): all 12720 units of at most three lines over 23
  lines of text, and the text of the kernel's own source, which the parser is
  shown to turn into the lines of `KernelRoutines`.  Three lines allow a branch
  forward and backward over a pseudo-op, and any two duplicate labels; seven of
  the lines have a comma too few or too many, a comment, or a label in the wrong
  place.  `PseudoOpsReplace` runs what `SET` and `MOV` emit, on their own
  registers and one more (`RegisterNames`) that hold -7, 0 or 4
  (`RegisterValues`): what is emitted adds and subtracts, so three signs tell
  right from wrong, and the theorem is about all names and integers.  It leaves
  out the `MOV` of a register to itself (see Findings).
* `dictionary` (188198 states): fifteen cells of dictionary, names of which one is
  a prefix of the other, words with and without a thread.  Three words fill the
  memory, so an append fails in the header, in the name, behind it, and not at
  all; words are appended and smudged between any two steps of an iteration, and
  the dictionary grows through `DICTIONARY_TOP` up to the live values.
* `kernel_builder` (24640 states): up to three builds and host calls in any order.
  The colon words nest, redefine a word by way of itself, take the name `EXIT`,
  and name what is unknown or comes later; three builds do not all fit, so
  memory ends in each kind of item.
* `forth` (131875 states): two host calls, the second of which meets what the
  first left.  Every word on stacks that are empty, short, sufficient and full,
  and addresses from both ends of memory and outside; definitions that nest,
  redefine a primitive or a list in use, fail half way and never end.  Three
  levels of lists are two more than a redefinition needs to bite.
  `AgreesWithKernel` compares a word with one step of the machine that the
  kernel's runs refine, at the same `TRUE_FLAG`, and names the two differences:
  a comparison leaves 1 where the routine leaves -1, and `*` leaves the product
  where the routine, given a negative multiplier, never comes back.  That the
  routines do what that machine does is what `kernel_words` and `kernel_devices`
  check.
  `BitsAgreeWithKernel` is `AgreesWithKernel` for AND and OR, whose results
  `ForthMachine` states bit by bit: `Width` = 5 holds every operand that occurs.
  `CallsReturn` is under weak fairness of `Step`: a call is Python code that
  nothing suspends, so it goes on.  The host is under no fairness.
* `emulator_errors`, `kernel_flags`, `kernel_tokens`, `forth_bye` each show one
  statement of a comment violated; see Findings.

Runs whose host makes a bounded number of calls, or whose one call ends, do not
check for deadlock.  `data_path` does.

## What is proved

Every theorem is of the specification, for all values of the constants that
satisfy the named assumptions (`LayoutAssumption`, `ClientAssumption`,
`MachineAssumption`, `EmulatorAssumption`, `AssemblyAssumption`,
`ParserAssumption`, `AssemblerAssumption`, `DictionaryAssumption`,
`BuilderAssumption`, `ForthAssumption`, `LabelAssumption`): any memory sizes, programs, inputs,
budgets, sources, entries, word lists, boot threads and definitions.  They are
statements of types; beyond that they say that the memory map leaves room for the
system variables, that clients of the data path keep below the stacks, that no
opcode is a word the parser cannot read, that `EXIT` is one of the CODE words,
that a word's name and its character codes determine each other, and that a word
of the service is compared with its own routine (`Labels`).

* `DataPathTypeOK`, `DataPathImplementsLifo`.  The invariant is `TypeOK`, whose
  core is that each pointer stays between its floor and its base.  Refinement
  then follows per call: `Contents` after a push is an `Append`
  (`ContentsPush`), after a pop a prefix (`ContentsPop`), and a call on one
  stack writes outside the other's live cells (`PushFrame`, `ClientFrame`).
* `EmulatorTypeOK` rests on one lemma per kind of handler (`ExecTypeOK`).
  `EmulatorLiveValues` needs that an instruction writes memory in one of three
  ways (`StepWrites`) and that a push spares live cells of both stacks
  (`PushSparesLiveCells`).  `EmulatorRefusals` and `EmulatorRunEnds` go through
  `RefusedStep`: each handler checks before it writes.  `EmulatorResume` shows
  that `run` adds nothing to the steps it makes.
* `AssemblerPassesAgree`, `AssemblerEmitsSound`, `AssemblerTypeOK` share the
  inductive invariant `IInv`.  `TwoPassesAgree` alone is not inductive: it must
  be known that each line was placed where the sizes of the lines before it end
  (`PlacedInOrder`) and how far each pass is (`PassProgress`).  The heart is
  `EmittedLine`: an accepted line yields exactly as many instructions as the
  resolver counts, each one its handler accepts.  The units are any sequences of
  lexemes: that the parser makes a line of each of them takes the lemmas
  `LexemeCounts`, `OperandCount` and `ParsedLine` (the places it counts are an
  initial part of the line, and each operand has a place it begins at).
* `AssemblerResult`, `AssemblerBranchesLand`, `AssemblerPseudoOps` need more of
  the passes, `RInv`: the labels defined so far are those of the lines placed so
  far, each at its line's address and none twice, and the program so far is that
  of the lines emitted so far, line `i` at `placed[i]`.  When the first pass ends,
  the table is therefore `LabelTable` of the lines, which is stated in one piece,
  and when the second ends the program is `Program`.  `AssemblerPseudoOps` then
  executes the two instructions of a `SET` or `MOV` on registers of any names
  with any integers, and on those of the run (both from `FinishedPseudoOps`).
* `AssemblerEveryWord` takes both stages: the parser makes one operand, which no
  line accepts, of several words (`ReadableAlone`, `AcceptedReadable`), so in a
  unit that assembles each operand is a word alone.  Then every word behind the
  mnemonic begins an operand, for one that did not would have another before it,
  and so on (`AllAlone`), and a word's place among the words is its place in the
  parsed line (`LineWords`, by counting: `Beginning`, `RankOrders`).  The mark
  for an unreadable operand is no lexeme (`Lexeme`): a label of that name would
  have made it acceptable.
* `DictionaryTypeOK`, `DictionaryChain`, `DictionaryFindsNewest` share `DInv`.
  That the chain passes every word is not inductive: a cell written above `DP`
  must be no cell of a word, so `DInv` also says that words lie in the order of
  their appending, one behind the other and all below `DP` (`WordsPlaced`), and
  that no live cell of a stack is below `DP` (`Apart`).  Each call, a failed append
  included, is shown to leave the cells below `DP` as they are (`Kept`).
  `find` walks the chain recursively; `ChainOrder` follows it from newest to
  oldest.
* `DictionaryImplementsList`: the dictionary in memory implements `WordList`.  The
  refinement mapping reads each word back from its cells (`ListedWords`), takes
  the cursor of `headers` for the number of words that are left (`LeftWords`), a
  header for the index of its word (`AnsweredWord`) and the stacks for what they
  hold (`HeldValues`).  `LInv` adds to `DInv` that the two flags of a word are
  cells of 0 or 1.  One lemma per call maps it to its abstract action.
* `BuilderThreadsClosed`, `BuilderFindAgrees`, `BuilderChain`: `BInv` adds that
  `word_cfas` knows only addresses of installed words, and of an `EXIT` for the
  name `EXIT`; without that a thread closed now could be followed by one that is
  not.  `FInv` adds that the words of the build under way are the last ones of the
  dictionary.  Both have the hypothesis `HostAppendsCode`: between builds the host
  appends code words, not threads of its own making, which nothing checks.
* `BuilderImagesStand`, `BuilderBuildOutcome` need no such hypothesis.  Their
  invariant `ImageInv` says of the build under way what `ImagesStand` says of a
  finished one: the words done so far stand where `Placed` puts them (`Stands`),
  `DP` is behind them, `LATEST` is the last of them, `word_cfas` has the newest of
  each name, and none of them named what was not installed (`Built`).  So when an
  item is refused, no earlier one would have been, and it is refused for what it
  is at fault for (`FirstRefused`).  That `Placed`, a recursive function, puts
  each word behind the one before it is `PlacesFollow`; that the words, put into
  memory one by one, are the image in one piece is `ImageInPlace`, by
  `FlattenParts`.
* `ForthTypeOK`: `FInv` says that stacks and values are sound and that the lists
  under way are nested no deeper than Python's stack allows, whatever a definition
  expands to.
* `ForthRunsItsExpansion`: in a call, what has run, followed by what the lists
  being run have still to run, is what the word of the call leads to (`OnCourse`,
  of `XInv`).  `Expands` shows that the recursive function of `Expansion` exists, by
  `StepwiseFunction` over the depth.  Each kind of step keeps the course:
  a primitive moves from what is left to what has run (`RunOnCourse`), entering a
  list puts its words in place of its name (`EnterOnCourse`), leaving one takes
  away nothing (`LeaveOnCourse`).  When the call ends, what has run is therefore
  in front (`InFront`), up to the first word that is not there or too deep
  (`UpToFront`), or is all (`AllHasRun`).  `XInv` quantifies over sequences, which
  TLC cannot enumerate; the run checks the property itself.  That the code of a
  colon word is a finite list is assumed, and that no word is called `...`, which
  is the model's mark for what is nested too deep (`IsWordList`).
* `ForthAgreesWithKernel`: the invariant is `FInv`, the work is one step of a word
  against one step of `ForthMachine`, at the kernel's `TRUE_FLAG` of -1.  The
  theorem names what is different, as the property does: the flag of a
  comparison (`FlagsNegated`) and `*` by a negative number (`Endless`).  `View` reads a stack off any memory at any
  pointer; pops shorten it (`PopsView`), pushes extend it and leave the other stack
  and the dictionary alone (`PushesView`).  What a word leaves is what was below
  its operands with as many of its results as fit (`Completes`), or nothing when
  it had too few (`Exhausts`).  `SameResults` compares word and routine: `DUP` and
  `OVER` pop fewer values than the routine's stack comment has operands, and push
  fewer; below and results together are the same, and `Fits` says of the two
  together what is cut off.  `Left` is the routine's results with a flag negated.  `>R`, `R>`, `R@`, `@` and `!` have a lemma each.  A
  word whose calls Python's own stack cuts short ends with `RecursionError` and is
  not compared (`OnlyDataWords`); `/` and `MOD` are in no routine.

The library's induction theorems are out of the provers' reach, since they take
an operator as a parameter.  Induction over the natural numbers is done on sets
instead: a set with 0 and the successor of each of its elements is `Nat`
(`NaturalInduction`, from `LeastNatural`, from the well-foundedness of inclusion
among finite sets).  `StepwiseFunction` and the lemmas about `Chain` and `Placed`
use it.

Only model-checked: `RunsReturn` and `CallsReturn` (liveness and `ENABLED` are out
of the prover's reach); `ThreadingDiscipline` and `ImplementsForth`, which are
about a concrete program; and `BitsAgreeWithKernel`, because `ForthMachine`
states AND and OR bit by bit for operands of `Width` bits, which only an induction
over the bits, on the recursive function of `BitAnd`, compares with it.

## Findings

1. Step and run end with Python's `IndexError` when `pc` or an address leaves
   its list.  `errors.py` calls `MachineError` the base of every error the
   package raises.
2. Comparison words leave -1 for true; the heading comment in `routines.py`
   says 1.  (The routines' inner comments say -1.)
3. `WORD` has no bound: a token longer than its buffer is stored into the data
   stack's region.
4. `BYE` sets `halted` and nothing reads it: `services/forth.py` documents the word
   as "Stop the interpreter", but the words after it in the same definition run.

Noted, without a run: `docs/02-cpu-design.md` (152-153) asks for one boolean in
the whole project; comparisons leave -1 for true in the kernel and 1 in the
service, which is one of the two differences `AgreesOn` names.  `DICTIONARY_TOP`
is called an exclusive upper bound and nothing compares `DP` with it.  `MOV`
clears its destination before it reads its source, so `MOV X, X` leaves 0, where
the comment in `specs.py` says "copy a register"; the kernel's source has no such
line.

## Plan

Done: every component of the table above, in the order data path, emulator,
assembler, kernel, dictionary, kernel builder, Forth service, parser; theorems
for the data path, the emulator, the assembler, the dictionary with its
refinement, the kernel builder and the Forth service.

Left: the host over a running kernel, feeding and resuming after the input ran
dry.  That `run` can be resumed is `ResumeIsSeamless` of any program, so `Kernel`
makes one call of it.

## Not modelled

* `adapters/source.py` hands back the string it was given; `domain/types.py` has
  aliases of `int`; the dependency-injection library of `containers.py` (who
  shares what is in the structure of the modules).
* `docs/prototypes`: sketches the package does not import.  The tests: read for
  the intended behaviour.
* A host that writes `DP` or `LATEST` by hand, steps the emulator past `HALT`, or
  boots a thread without `BYE`: what is then read as an instruction or as a
  thread is arbitrary, and no document promises anything of it.  (The runs of
  `Emulator` do make steps past `HALT`.)
* What happens after the dictionary has grown into a live stack value: the models
  stop there.
