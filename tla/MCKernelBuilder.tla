-------------------------- MODULE MCKernelBuilder --------------------------
(***************************************************************************)
(* TLC instance of KernelBuilder: two CODE words, and colon words that     *)
(* nest, redefine a word in terms of itself, redefine EXIT, or name what   *)
(* does not exist or not yet; three builds fill the memory.                *)
(***************************************************************************)
EXTENDS KernelBuilder

Code(name, codes, index) ==
  [name |-> name, codes |-> codes, words |-> << >>, field |-> index, immediate |-> FALSE]
Colon(name, codes, words) ==
  [name |-> name, codes |-> codes, words |-> words, immediate |-> name = "C"]

MCCodeWords == << Code("EXIT", <<69>>, 5), Code("D", <<68>>, 7) >>

C(words) == Colon("C", <<67>>, words)
D(words) == Colon("D", <<68>>, words)
MCColonLists == {
  << >>, << C(<<"D">>) >>, << D(<<"D", "D">>), C(<<"D">>) >>, << D(<<"C">>), C(<< >>) >>,
  << Colon("EXIT", <<69>>, <<"D">>), C(<< >>) >>, << C(<< >>), D(<<"X">>) >> }

MCBootThreads == { << >>, << <<"word", "D">>, <<"cell", 2>> >>, << <<"cell", 1>>, <<"word", "C">> >> }

MCEntries == { [codes |-> <<67>>, immediate |-> FALSE, field |-> 9, thread |-> << >>] }

=============================================================================
