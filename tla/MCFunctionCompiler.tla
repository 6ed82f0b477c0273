------------------------- MODULE MCFunctionCompiler -------------------------
(* Graphs of three blocks; the second has one phi node, the third has two. *)
EXTENDS FunctionCompiler

MCPhis == <<0, 1, 2>>
=============================================================================
