---------------------------- MODULE MCDictionary ----------------------------
(***************************************************************************)
(* TLC instance of Dictionary: two names, one a prefix of the other, in a  *)
(* memory that three words fill, so that the dictionary meets the stacks   *)
(* and the end of memory.                                                  *)
(***************************************************************************)
EXTENDS Dictionary

Word(codes, immediate, field, thread) ==
  [codes |-> codes, immediate |-> immediate, field |-> field, thread |-> thread]

MCEntries == { Word(<<65>>, TRUE, 3, << >>), Word(<<65, 66>>, FALSE, 4, <<7, 8>>) }
MCNames   == { <<65>>, <<65, 66>> }

=============================================================================
