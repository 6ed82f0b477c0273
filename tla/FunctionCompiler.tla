-------------------------- MODULE FunctionCompiler --------------------------
(***************************************************************************)
(* _compile_function_in_module! of NativeCodegen/src/builder_emit.jl: the  *)
(* translation of one function's control-flow graph, block by block and    *)
(* statement by statement, into calls of FunctionCtx.                      *)
(*                                                                         *)
(* Julia's IR is external: any graph in which a block has up to two        *)
(* different successors, and any statements.  A statement may throw; when  *)
(* the exception is a CompileError or an ErrorException a placeholder      *)
(* takes its place, and any other ends the translation.                    *)
(***************************************************************************)
EXTENDS FunctionBuilder, Sequences

CONSTANTS
    Phis,           \* [Blocks -> Nat], the phi nodes of a block
    MaxOps          \* bound: calls of the builder per block, terminator aside

ASSUME PhisAssumption == Phis \in [Blocks -> Nat]
ASSUME BoundAssumption == MaxOps \in Nat

VARIABLES
    succs,          \* cfg.blocks[b].succs
    bi,             \* the block being translated
    terminatorEmitted,
    phase,
    whole,          \* no exception has ended the translation
    asked,          \* history: a Core.isdefined has been translated
    strayed,        \* history: an operand was widened in a block left behind
    ops             \* bounds the calls per block

compilerVars == <<succs, bi, terminatorEmitted, phase, whole, asked, strayed, ops>>
vars == <<builderVars, compilerVars>>

Successors == {<<>>} \cup {<<s>> : s \in Blocks}
              \cup {<<p[1], p[2]>> : p \in {q \in Blocks \X Blocks : q[1] # q[2]}}

\* The successors as a set.
Targets(b) == {succs[b][k] : k \in 1 .. Len(succs[b])}

TypeOK ==
    /\ BuilderTypeOK
    /\ succs \in [Blocks -> Successors]
    /\ bi \in 1 .. NumBlocks + 1
    /\ terminatorEmitted \in BOOLEAN
    /\ phase \in {"switch", "statements", "fallback", "seal", "finalize", "done"}
    /\ whole \in BOOLEAN /\ asked \in BOOLEAN /\ strayed \in BOOLEAN
    /\ ops \in Nat

Init ==
    /\ BuilderInit
    /\ succs \in [Blocks -> Successors]
    /\ bi = 1
    /\ terminatorEmitted = FALSE
    /\ phase = "switch"
    /\ whole = TRUE
    /\ asked = FALSE
    /\ strayed = FALSE
    /\ ops = 0

\* A branch passes one argument for each phi node of its target; an edge
\* without a value gets a placeholder (get_phi_args).
Branch(target) == [from |-> bi, to |-> target, args |-> Phis[target]]

-----------------------------------------------------------------------------
\* Fault: the last index is passed.
SwitchBlockPastEnd ==
    /\ phase = "switch" /\ ~panicked
    /\ IF bi <= NumBlocks + 1
       THEN SwitchTo(bi) /\ phase' = "statements"
       ELSE UNCHANGED builderVars /\ phase' = "finalize"
    /\ terminatorEmitted' = FALSE
    /\ ops' = 0
    /\ UNCHANGED <<succs, bi, whole, asked, strayed>>

SwitchBlock ==
    /\ phase = "switch" /\ ~panicked
    /\ IF bi <= NumBlocks
       THEN SwitchTo(bi) /\ phase' = "statements"
       ELSE UNCHANGED builderVars /\ phase' = "finalize"
    /\ terminatorEmitted' = FALSE
    /\ ops' = 0
    /\ UNCHANGED <<succs, bi, whole, asked, strayed>>

-----------------------------------------------------------------------------
(* Statements that do not end a block                                      *)

Statement ==
    /\ phase = "statements" /\ ~panicked
    /\ ops < MaxOps
    /\ ops' = ops + 1
    /\ UNCHANGED <<succs, bi, terminatorEmitted, phase, whole>>

\* A literal operand, or the placeholder of a statement that threw.
Constant == Statement /\ EmitConst(bi) /\ UNCHANGED <<asked, strayed>>

\* A load, a store, a call, a conversion, ...
Operation == Statement /\ Emit(bi) /\ UNCHANGED <<asked, strayed>>

\* emit_binop and emit_icmp with operands of two widths.  The operation that
\* follows the widening is an Operation.
MixedOperation == Statement /\ Widen(bi) /\ UNCHANGED <<asked, strayed>>

\* The same in emit_checked_pair and emit_string_codeunit, which call the
\* builder's operations with the operands as they are.  Unless something was
\* emitted in this block before, Cranelift's builder is still elsewhere.
MixedUnharmonized ==
    /\ Statement
    /\ Harmonize(bi)
    /\ strayed' = (strayed \/ position # currentBlock)
    /\ UNCHANGED asked

\* Core.isdefined becomes a trap, but is no terminator to the loop.
IsdefinedCall == Statement /\ Trap(bi) /\ asked' = TRUE /\ UNCHANGED strayed

-----------------------------------------------------------------------------
(* Statements that end a block                                             *)

Terminator ==
    /\ phase = "statements" /\ ~panicked
    /\ phase' = "fallback"
    /\ terminatorEmitted' = TRUE
    /\ UNCHANGED <<succs, bi, whole, asked, strayed, ops>>

Goto ==
    /\ Terminator
    /\ Len(succs[bi]) = 1
    /\ Terminate({Branch(succs[bi][1])}, bi)

\* Fault: the order of the successors is taken for granted.
FallthroughSecond(dest) == succs[bi][2]

\* The successor of a GotoIfNot that is not its destination.
Fallthrough(dest) == IF succs[bi][2] = dest THEN succs[bi][1] ELSE succs[bi][2]

GotoIfNot(dest) ==
    /\ Terminator
    /\ Len(succs[bi]) = 2 /\ dest \in Targets(bi)
    /\ Terminate({Branch(Fallthrough(dest)), Branch(dest)}, bi)

Return ==
    /\ Terminator
    /\ Len(succs[bi]) = 0
    /\ Terminate({}, bi)

\* An unreachable ReturnNode, or a call of throw and its relatives.
Unreachable ==
    /\ Terminator
    /\ Len(succs[bi]) = 0
    /\ Trap(bi)

\* The statement throws before anything of its terminator is emitted.
TerminatorThrows ==
    /\ phase = "statements" /\ ~panicked
    /\ EmitConst(bi)
    /\ phase' = "fallback"
    /\ UNCHANGED <<succs, bi, terminatorEmitted, whole, asked, strayed, ops>>

\* The block falls through, or ends in a statement the emitter ignores.
StatementsEnd ==
    /\ phase = "statements" /\ ~panicked
    /\ Len(succs[bi]) # 0
    /\ phase' = "fallback"
    /\ UNCHANGED <<builderVars, succs, bi, terminatorEmitted, whole, asked, strayed, ops>>

\* Fault: a terminator statement that was seen counts as emitted.
FallbackIfUnseen ==
    /\ phase = "fallback" /\ ~panicked
    /\ \/ UNCHANGED builderVars
       \/ /\ ~terminatorEmitted /\ Len(succs[bi]) = 1
          /\ Terminate({Branch(succs[bi][1])}, bi)
    /\ phase' = "seal"
    /\ UNCHANGED <<succs, bi, terminatorEmitted, whole, asked, strayed, ops>>

\* A block without a terminator gets one.
Fallback ==
    /\ phase = "fallback" /\ ~panicked
    /\ \/ terminatorEmitted /\ UNCHANGED builderVars
       \/ /\ ~terminatorEmitted /\ Len(succs[bi]) = 1
          /\ Terminate({Branch(succs[bi][1])}, bi)
       \/ ~terminatorEmitted /\ Len(succs[bi]) # 1 /\ Trap(bi)
    /\ phase' = "seal"
    /\ UNCHANGED <<succs, bi, terminatorEmitted, whole, asked, strayed, ops>>

Seal ==
    /\ phase = "seal" /\ ~panicked
    /\ SealBlock(bi)
    /\ bi' = bi + 1
    /\ phase' = "switch"
    /\ UNCHANGED <<succs, terminatorEmitted, whole, asked, strayed, ops>>

\* An exception the loop does not tolerate, or one thrown while the phi
\* arguments of the fallback jump are resolved.
BodyThrows ==
    /\ ~panicked
    /\ \/ phase = "statements"
       \/ phase = "fallback" /\ ~terminatorEmitted /\ Len(succs[bi]) = 1
    /\ phase' = "finalize"
    /\ whole' = FALSE
    /\ UNCHANGED <<builderVars, succs, bi, terminatorEmitted, asked, strayed, ops>>

\* builder_finalize comes to the function, whole or not.
Finalize ==
    /\ phase = "finalize" /\ ~panicked
    /\ FinalizeCtx
    /\ phase' = "done"
    /\ UNCHANGED <<succs, bi, terminatorEmitted, whole, asked, strayed, ops>>

-----------------------------------------------------------------------------
Next ==
    \/ SwitchBlock
    \/ Constant \/ Operation \/ MixedOperation \/ MixedUnharmonized \/ IsdefinedCall
    \/ Goto \/ Return \/ Unreachable \/ \E dest \in Blocks : GotoIfNot(dest)
    \/ TerminatorThrows \/ StatementsEnd \/ Fallback \/ Seal
    \/ BodyThrows \/ Finalize

Spec == Init /\ [][Next]_vars

-----------------------------------------------------------------------------
(* Properties                                                              *)

\* No assertion of Cranelift's builder fails.
NoPanic == ~panicked

\* Nothing but a translated Core.isdefined makes an assertion fail.  The code
\* does not keep this: see MixedUnharmonized.
OnlyIsdefinedPanics == panicked => asked

\* Nothing but a translated Core.isdefined and an operand that is widened by
\* harmonize_binop before anything was emitted in its block makes an assertion
\* fail, whatever the graph (back edges to blocks that were "sealed" before
\* included) and whichever statements throw: the lazily moved builder never
\* leaves a block half filled, nothing else is inserted into a block that was
\* ended, and no block is closed before its last predecessor.
OnlyKnownPanics == panicked => asked \/ strayed

\* No instruction is inserted into another block than the one whose statements
\* are translated, although Cranelift's builder is still elsewhere when a block
\* starts, and harmonize_binop inserts where it is: each block that is left
\* behind has its terminator, so the assertion stops the instruction.
InstructionsLand == \A p \in placed : p.block = p.wanted

\* A function translated to its end has a terminator in every block, also in
\* those whose own terminator statement could not be translated or follows
\* the trap of a Core.isdefined.
BodyComplete ==
    phase = "done" /\ whole => \A b \in Blocks : status[b] = "filled"

\* The branches are those of Julia's graph: a block branches to all of its
\* successors, each with one argument per phi node, or it traps.
EdgesFollowCFG ==
    /\ \A e \in edges : e.args = Phis[e.to]
    /\ \A b \in Blocks : {e.to : e \in {d \in edges : d.from = b}} \in {{}, Targets(b)}
=============================================================================
