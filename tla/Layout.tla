------------------------------- MODULE Layout -------------------------------
(***************************************************************************)
(* The memory map of cpu.mem (layout.py): system variables and dictionary  *)
(* in the lowest DICTIONARY_SIZE cells, then the data stack, then the      *)
(* return stack.  The sizes are constants so that a model can be small;    *)
(* layout.py fixes them at 2048, 1024, 1024, 8 and 64.                     *)
(***************************************************************************)
EXTENDS Integers

CONSTANTS
  DICTIONARY_SIZE,    \* cells below the data stack
  DATA_STACK_SIZE,
  RETURN_STACK_SIZE,
  SYSTEM_VARS_SIZE,   \* cells reserved for DP, LATEST and later variables
  WORD_BUFFER_SIZE    \* cells WORD's counted string is meant to fit in

ASSUME LayoutAssumption ==
  /\ DICTIONARY_SIZE \in Nat
  /\ DATA_STACK_SIZE \in Nat
  /\ RETURN_STACK_SIZE \in Nat
  /\ SYSTEM_VARS_SIZE \in Nat \ {0, 1}
  /\ WORD_BUFFER_SIZE \in Nat
  /\ SYSTEM_VARS_SIZE + WORD_BUFFER_SIZE <= DICTIONARY_SIZE

CELL_SIZE == 1

DATA_STACK_BASE   == DICTIONARY_SIZE + DATA_STACK_SIZE
RETURN_STACK_BASE == DATA_STACK_BASE + RETURN_STACK_SIZE
MEMORY_SIZE       == RETURN_STACK_BASE

SYSTEM_VARS_BASE  == 0
DP_ADDR           == SYSTEM_VARS_BASE
LATEST_ADDR       == SYSTEM_VARS_BASE + 1
DICTIONARY_BASE   == SYSTEM_VARS_BASE + SYSTEM_VARS_SIZE
DICTIONARY_TOP    == DICTIONARY_SIZE
WORD_BUFFER_BASE  == DICTIONARY_SIZE - WORD_BUFFER_SIZE

=============================================================================
