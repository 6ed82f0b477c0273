--------------------------- MODULE ModuleBuilder ---------------------------
(***************************************************************************)
(* BuilderContext of native-builder/src/builder.rs: one Cranelift          *)
(* ObjectModule, the functions added to it, and finalize, which turns them *)
(* into one object file.  The definitions below are the operations the     *)
(* Julia frontend calls through the C interface of lib.rs; ModuleCompiler  *)
(* composes them into steps.                                               *)
(*                                                                         *)
(* ObjectModule is external.  Declaring a name again is allowed, defining  *)
(* it again is an error, and finish() panics on an exported name that was  *)
(* never defined, which through extern "C" ends the process.               *)
(***************************************************************************)
EXTENDS Integers, Sequences

CONSTANT Code               \* what a function is compiled from

VARIABLES
    exports,        \* names in self_imports, declared Linkage::Export
    funcs,          \* BuilderContext.funcs: <<[name, code], ...>>
    defined,        \* [name, code] given a body or a trap stub in the module
    module          \* "open", then "taken" by finalize

builderVars == <<exports, funcs, defined, module>>

BuilderInit ==
    /\ exports = {}
    /\ funcs = <<>>
    /\ defined = {}
    /\ module = "open"

DefinedNames == {d.name : d \in defined}

-----------------------------------------------------------------------------
(* While bodies are emitted                                                *)

\* builder_declare_self_function: idempotent, the name becomes callable.
DeclareSelf(name) == exports' = exports \cup {name}

\* builder_add_function
AddFunction(name, code) == funcs' = Append(funcs, [name |-> name, code |-> code])

-----------------------------------------------------------------------------
(* builder_finalize                                                        *)

\* module.take()
TakeModule ==
    /\ module = "open"
    /\ module' = "taken"
    /\ UNCHANGED <<exports, funcs, defined>>

\* One iteration of the loop: the body is defined or, when its verification
\* fails, a trap stub under the same name.  A name that is defined already
\* takes neither, and finalize gives up.
CanDefine(i) == funcs[i].name \notin DefinedNames

Define(i) ==
    /\ defined' = defined \cup {funcs[i]}
    /\ UNCHANGED <<exports, funcs, module>>

\* ObjectModule::finish() panics.
FinishPanics == exports \ DefinedNames # {}
=============================================================================
