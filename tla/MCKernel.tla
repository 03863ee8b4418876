------------------------------ MODULE MCKernel ------------------------------
(***************************************************************************)
(* TLC instances of Kernel: the real routines and dictionary over small    *)
(* stacks.  One instance runs every pair of words that compute, after      *)
(* every operand list; the other the words that reach devices and memory.  *)
(***************************************************************************)
EXTENDS Kernel

MCIntOf     == KernelInts
MCCode      == [p \in {KERNEL, "none"} |-> IF p = KERNEL THEN KernelProgram ELSE << >>]
MCRegisters == {"ACC", "C", "CFA", "COUNT", "CUR", "DELIM", "DIGIT", "FLAG", "IMM", "IP", "LEN",
  "N", "NAMEADDR", "NEG", "NEXTREG", "PTR", "R", "SC", "SLEN", "SMUDGE", "SPTR", "T", "U", "W",
  "WC", "WLEN", "WPTR", "X", "XT", "Y", "Z"}

Colon(name, codes, words, immediate) ==
  [name |-> name, codes |-> codes, words |-> words, immediate |-> immediate]

\* nested definitions, the return stack inside one, and a redefinition of a
\* primitive's name that is immediate
MCColonWords == <<
  Colon("S", <<83>>, <<"DUP", "*">>, FALSE),
  Colon("Q", <<81>>, <<"S", "S">>, FALSE),
  Colon("H", <<72>>, <<">R", "1+", "R>">>, FALSE),
  Colon("DUP", <<68, 85, 80>>, <<"OVER">>, TRUE) >>

Lits(ns)  == FlattenSeq([i \in DOMAIN ns |-> << <<"word", "LIT">>, <<"cell", ns[i]>> >>])
Words(ws) == [i \in DOMAIN ws |-> <<"word", ws[i]>>]
Bye       == Words(<<"BYE">>)

-----------------------------------------------------------------------------
(* Words that compute *)

PureWords == ({PRIMITIVES[i].name : i \in DOMAIN PRIMITIVES} \cup {"S"})
             \ {"LIT", "EXIT", "BYE", "KEY", "EMIT", "WORD", "FIND", "NUMBER", "@", "!", "C@", "C!"}

\* words of two levels, next to words that do not grow their results
DeepPairs == LET near == {"DUP", "SWAP", "TUCK", ">R", "R>", "R@", "-", "1+", "0=", "<"}
                 deep == {"Q", "H"}
             IN  (deep \X near) \cup (near \X deep) \cup ({"H"} \X deep)
Pairs == (PureWords \X PureWords) \cup DeepPairs

\* empty, one short of two, short of three, one below the limit, at the limit
OperandLists == { << >>, <<2>>, <<3, -1>>, <<2, 3, 3>>, <<-4, 5, -6, 1>> }

PureBoots == {Lits(a) \o Words(vw) \o Bye : a \in OperandLists, vw \in Pairs}
NoInput   == { << >> }

-----------------------------------------------------------------------------
(* Words that reach devices and memory *)

\* the first DUP's name field, the cells of its header before it, a free cell
\* of the buffer from both ends of memory, and an address outside
FirstDup == Installed.placed[4].nfa
DeviceBoots ==
  { Words(<<"KEY", "EMIT", "KEY", "EMIT">>) \o Bye,
    Lits(<<1, 2, 3, 4>>) \o Words(<<"KEY">>) \o Bye,
    Lits(<<1, 2, 3, 4>>) \o Words(<<"EMIT", "EMIT", "EMIT", "EMIT", "EMIT">>) \o Bye,
    Words(<<"WORD">>) \o Bye,
    Lits(<<32>>) \o Words(<<"WORD", "NUMBER", "+">>) \o Bye,
    Lits(<<9, 8, 7, 32>>) \o Words(<<"WORD", "NUMBER">>) \o Bye,
    Lits(<<32>>) \o Words(<<"WORD", "FIND", "KEY">>) \o Bye,
    Lits(<<1, FirstDup - 1>>) \o Words(<<"!">>) \o Lits(<<32>>) \o Words(<<"WORD", "FIND">>) \o Bye,
    Lits(<<FirstDup>>) \o Words(<<"FIND", "SWAP", "C@">>) \o Bye,
    Lits(<<7, WORD_BUFFER_BASE>>) \o Words(<<"C!">>) \o
      Lits(<<WORD_BUFFER_BASE - MEMORY_SIZE>>) \o Words(<<"@">>) \o Bye,
    Lits(<<5, MEMORY_SIZE>>) \o Words(<<"!">>) \o Bye,
    Lits(<<5, -MEMORY_SIZE - 1>>) \o Words(<<"@">>) \o Bye,
    Words(<<"FIND">>) \o Bye, Words(<<"@">>) \o Bye, Lits(<<0>>) \o Words(<<"!">>) \o Bye }

\* signs, digits, the characters next to the digits, and the two delimiters of
\* a token; names of words new, shadowed and unknown
Numerals == UNION {[1 .. n -> {45, 47, 48, 57, 58}] : n \in 1 .. 3}
DeviceInputs ==
  {n \o <<32>> : n \in Numerals} \cup
  { << >>, <<32, 32>>, <<65, 66>>, <<32, 65, 32, 67>>, <<68, 85, 80, 32>>, <<68, 85, 80, 32, 32>>,
    <<76, 73, 84, 32>>, <<83, 32>>, <<82, 64, 32>>, <<68, 85, 32>> }

-----------------------------------------------------------------------------
(* What the source's own comments say *)

FlagBoots == {Lits(<<2, n>>) \o Words(<<w>>) \o Bye : n \in {1, 2}, w \in {"=", "<>", "<", ">"}}

\* tokens that fill WORD's buffer exactly, and one longer
TokenBoots == { Lits(<<32>>) \o Words(<<"WORD">>) \o Bye }
LongInputs == { <<65, 66, 67, 68, 32>>, <<65, 66, 67, 68, 69, 32>> }

=============================================================================
