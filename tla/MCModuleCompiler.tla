-------------------------- MODULE MCModuleCompiler --------------------------
(* An entry and three callees, two of them specializations of one method. *)
EXTENDS ModuleCompiler, TLC

CONSTANTS e, a, b, c

MCMIs    == {e, a, b, c}
MCMethod == (e :> "entry") @@ (a :> "f") @@ (b :> "f") @@ (c :> "g")
=============================================================================
