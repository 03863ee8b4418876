----------------------------- MODULE MCDataPath -----------------------------
(***************************************************************************)
(* TLC instance of DataPath: two-cell stacks above a three-cell dictionary *)
(* block, and client addresses that reach that block from both ends of the *)
(* Python list and fall off both ends of it.                               *)
(***************************************************************************)
EXTENDS DataPath

\* both ends and the middle of 0..2, the same cells counted from the end of
\* the list, and the first address outside on each side
MCClientAddrs == {0, 2, -7, -6, 7, -8}

=============================================================================
