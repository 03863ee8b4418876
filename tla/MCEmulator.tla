----------------------------- MODULE MCEmulator -----------------------------
(***************************************************************************)
(* TLC instance of Emulator: short programs that meet every handler, both  *)
(* limits of both stacks, addresses and program counters from both ends of *)
(* the Python sequences, and every malformed operand.                      *)
(***************************************************************************)
EXTENDS Emulator

I(op, a, b, n) == [op |-> op, a |-> a, b |-> b, imm |-> n]
I1(op, a)      == I(op, a, NOREG, 0)
Branch(op, n)  == I(op, "X", IMM, n)

MCRegisters == {"X", "Y"}

Halt == I("HALT", NOREG, NOREG, 0)
Again(n) == I("JZ", "Y", IMM, n)   \* taken: these programs leave Y = 0

MCCode == [
  none    |-> << >>,
  echo    |-> << I1("IN", "X"), I1("OUT", "X"), Again(-3) >>,
  fillD   |-> << I("ADD", "X", IMM, 1), I1("PUSH_D", "X"), Again(-3) >>,
  fillR   |-> << I("SUB", "X", IMM, 1), I1("PUSH_R", "X"), Again(-3) >>,
  drain   |-> << I1("POP_R", "X"), I1("POP_D", "Y"), Halt >>,
  poke    |-> << I("ADD", "X", IMM, 3), I("STORE", "Y", "X", 0), Halt >>,
  peek    |-> << I("LOAD", "X", "Y", 0), Halt >>,
  logic   |-> << I("AND", "X", "Y", 0), I1("INVERT", "X"), I("OR", "X", IMM, 2), Branch("JS", -1), Halt >>,
  jump    |-> << I1("JMP", "Y"), Halt >>,
  spin    |-> << Again(-1) >>,
  nodst   |-> << I1("POP_D", NOREG), I("LOAD", "X", IMM, 0), Halt >>,
  nosrc   |-> << I1("ADD", "X"), I1("JZ", "X"), Halt >> ]

\* aliases of the data stack's and the return stack's cells and of the last
\* instruction, and one address outside both lists
MCSeeds == { <<"Y", -1>>, <<"Y", 3>>, <<"Y", -8>>, <<"X", -2>> }
MCFeeds == { <<1, 2>> }

=============================================================================
