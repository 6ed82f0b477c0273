------------------------------ MODULE MCUnions ------------------------------
(***************************************************************************)
(* Two struct types and two objects of them; the words 0 and 5 as Int64.   *)
(***************************************************************************)
EXTENDS Unions

MCTag == [T \in {"Nothing", "Missing", "Int64", "Leaf", "Tree"} |->
             CASE T = "Nothing" -> 10 [] T = "Missing" -> 11 [] T = "Int64" -> 12
               [] T = "Leaf" -> 13 [] T = "Tree" -> 14]
=============================================================================
