----------------------------- MODULE WordLayout -----------------------------
(***************************************************************************)
(* How words lie in memory: the cells of one word (HeaderField and         *)
(* append_word), and in one piece the cells of the words and the boot      *)
(* thread that KernelBuilder.build appends one by one.                     *)
(*                                                                         *)
(* A word of a build is [name, codes, words, field, immediate]: its name,  *)
(* the character codes of it, the names its thread invokes and the code    *)
(* field.  A boot thread mixes <<"word", name>> and <<"cell", value>>.     *)
(***************************************************************************)
EXTENDS Integers, SequencesExt, FiniteSetsExt

\* HeaderField, from the header's first cell; the name field is NAME_LENGTH
LINK        == 0
IMMEDIATE   == 1
SMUDGE      == 2
NAME_LENGTH == 3

HeaderSize == NAME_LENGTH + 1

\* mutant: a link leads to the header's first cell, not to the name field
WordCellsLinkStart(e, link) ==
  << IF link = 0 THEN 0 ELSE link - NAME_LENGTH, IF e.immediate THEN 1 ELSE 0, 0, Len(e.codes) >>
  \o e.codes \o <<e.field>> \o e.thread

\* header, code field and thread, in the order they are written
WordCells(e, link) ==
  << link, IF e.immediate THEN 1 ELSE 0, 0, Len(e.codes) >> \o e.codes \o <<e.field>> \o e.thread

-----------------------------------------------------------------------------
(* A whole build *)

\* install() of a ColonWordDto: its words, then EXIT
ColonSpec(w, enterIndex) ==
  [name |-> w.name, codes |-> w.codes, words |-> Append(w.words, "EXIT"),
   field |-> enterIndex, immediate |-> w.immediate]

\* the name and code fields of words appended from start on
Placed(specs, start) ==
  LET size(i) == HeaderSize + Len(specs[i].codes) + 1 + Len(specs[i].words)
      at[i \in 1 .. Len(specs)] == IF i = 1 THEN start ELSE at[i - 1] + size(i - 1)
  IN  [i \in DOMAIN specs |->
         [nfa |-> at[i] + NAME_LENGTH, cfa |-> at[i] + HeaderSize + Len(specs[i].codes)]]

\* cfa_of: the newest of the first n words with the name
CfaOf(specs, placed, name, n) == placed[Max({i \in 1 .. n : specs[i].name = name})].cfa

\* word i as append_word is given it
EntryOf(specs, placed, i) ==
  [codes |-> specs[i].codes, immediate |-> specs[i].immediate, field |-> specs[i].field,
   thread |-> [j \in DOMAIN specs[i].words |-> CfaOf(specs, placed, specs[i].words[j], i - 1)]]

\* the cells of all of them, the first one linked to latest
ImageCells(specs, placed, latest) ==
  FlattenSeq([i \in DOMAIN specs |->
    WordCells(EntryOf(specs, placed, i), IF i = 1 THEN latest ELSE placed[i - 1].nfa)])

BootCell(specs, placed, item) ==
  IF item[1] = "word" THEN CfaOf(specs, placed, item[2], Len(specs)) ELSE item[2]

BootCells(specs, placed, boot) == [j \in DOMAIN boot |-> BootCell(specs, placed, boot[j])]

=============================================================================
