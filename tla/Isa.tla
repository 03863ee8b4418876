-------------------------------- MODULE Isa ---------------------------------
(***************************************************************************)
(* The instruction set shared by the assembler and the emulator            *)
(* (domain/opcode.py, InstructionDto).  An instruction is a record         *)
(* [op, a, b, imm].  b = IMM stands for an integer operand, kept in imm:   *)
(* the b of an ALU instruction or the offset of a branch (no instruction   *)
(* has both).  NOREG is None.                                              *)
(***************************************************************************)
EXTENDS Integers

NOREG == "-"
IMM   == "#"

AluOps    == {"ADD", "SUB", "AND", "OR"}
BranchOps == {"JZ", "JS"}
Ops == AluOps \cup BranchOps \cup
       {"LOAD", "STORE", "INVERT", "JMP", "PUSH_D", "POP_D", "PUSH_R", "POP_R",
        "IN", "OUT", "HALT"}

\* _require_register, _require_offset and _operand_value would raise
Malformed(i) ==
  \/ i.op # "HALT" /\ i.a = NOREG
  \/ i.op \in {"LOAD", "STORE"} /\ i.b \in {NOREG, IMM}
  \/ i.op \in AluOps /\ i.b = NOREG
  \/ i.op \in BranchOps /\ i.b # IMM

=============================================================================
