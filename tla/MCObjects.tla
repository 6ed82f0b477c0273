----------------------------- MODULE MCObjects -----------------------------
(***************************************************************************)
(* Strings of lengths around the size of a 16-byte unit, one struct type   *)
(* that ends in the middle of a word and one that leaves no slack.         *)
(***************************************************************************)
EXTENDS Objects

Field(off, width, reg) == [off |-> off, width |-> width, reg |-> reg]

MCTexts == {<<>>, <<1, 0, 2>>, [k \in 1 .. 16 |-> 3]}
MCCTexts == {<<>>, <<1, 0, 2>>, <<3, 3, 3, 3>>}
MCStructs == {[tag |-> 999, size |-> 12, fields |-> Cells(3, 0, 4)],
              [tag |-> 888, size |-> 24, fields |-> Cells(3, 0, 8)]}
MCValues == {1}
MCLegacyTags == {7}

\* A mutable struct of two Bools: a byte each in memory, 32 bits in a register.
MCBools == {[tag |-> 999, size |-> 2, fields |-> <<Field(0, 1, 4), Field(1, 1, 4)>>]}
=============================================================================
