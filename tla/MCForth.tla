------------------------------ MODULE MCForth ------------------------------
(***************************************************************************)
(* TLC instance of Forth: every primitive on stacks that are empty, too    *)
(* short, long enough and full; lists that nest, lead to unknown words,    *)
(* redefine a primitive or a list they use, or never end.                  *)
(***************************************************************************)
EXTENDS Forth

Routines == INSTANCE KernelRoutines WITH IntOf <- [t \in {} |-> 0], BadTokens <- {}

\* the kernel's CODE words by name
MCLabelOf ==
  [n \in {Routines!PRIMITIVES[i].name : i \in DOMAIN Routines!PRIMITIVES} |->
     Routines!PRIMITIVES[CHOOSE i \in DOMAIN Routines!PRIMITIVES : Routines!PRIMITIVES[i].name = n].label]

NoLists == [n \in {} |-> << >>]
Lists(a, b)  == [n \in {"A", "B"} |-> IF n = "A" THEN a ELSE b]

Start(d, r, lists) == [ds |-> d, rs |-> r, colon |-> lists]

\* addresses in the dictionary, in a stack (from either end) and outside
MCLiterals == {-3, 1, 9}

Operands(n) == UNION {[1 .. k -> {-3, 0, 1, 9}] : k \in 0 .. n}

MCStarts ==
  {Start(ds, << >>, NoLists) : ds \in Operands(2)} \cup
  {Start(ds \o <<2>>, <<7>>, NoLists) : ds \in {<<3, 1>>, <<-2, 5>>, <<4>>, << >>}} \cup
  {Start(ds, << >>, Lists(a, b)) :
     ds \in {<<4>>, <<4, 2>>},
     a  \in {<<"B", "B">>, <<"DUP", "A">>, <<"B", "BYE", "SWAP">>},
     b  \in {<<"DUP">>, <<">R", "NOPE", "DROP">>, << >>}}

MCDefinitions == {
  <<"A", <<"A">>>>, <<"A", <<"DROP", "B">>>>, <<"B", <<"1+", "A">>>>, <<"B", <<"R>", "R@">>>>,
  <<"DUP", <<"DUP", "DROP">>>>, <<"B", <<"TUCK", "EXIT", "LIT">>>> }

MCCallNames == Primitives \cup {"A", "B", ";", "IF_THEN", "DO_LOOP"}

=============================================================================
