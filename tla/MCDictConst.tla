---------------------------- MODULE MCDictConst ----------------------------
(* Three slots; Strings of lengths 1 and 2 (with MCWithEmpty also 0), whose *)
(* bytes look like lengths; two values of a bits type.                      *)
EXTENDS DictConst

MCStrings == {<<2>>, <<1, 2>>}
MCWithEmpty == MCStrings \cup {<<>>}
MCBits == {<<1>>, <<2>>}
=============================================================================
