-------------------------- MODULE FunctionBuilder --------------------------
(***************************************************************************)
(* FunctionCtx of native-builder/src/builder.rs: one Cranelift             *)
(* FunctionBuilder that lives as long as the function and is moved between *)
(* blocks lazily, when the first instruction for a block arrives.          *)
(*                                                                         *)
(* Cranelift's builder is external.  In a debug build, the only one the    *)
(* loader accepts, it asserts that a block is left only when it is filled  *)
(* (ended by a terminator) or still empty, that nothing enters a filled    *)
(* block, that a closed block gets no further predecessor, and that no     *)
(* block is closed twice.  A failed assertion crosses extern "C" and ends  *)
(* the process.                                                            *)
(***************************************************************************)
EXTENDS Integers

CONSTANT NumBlocks          \* blocks of the function, those that are used
ASSUME NumBlocksAssumption == NumBlocks \in Nat \ {0}

Blocks == 1 .. NumBlocks
Entry  == 0                 \* holds the parameters, jumps to block 1

VARIABLES
    status,         \* Cranelift's view of a block
    closed,         \* blocks Cranelift was told have all predecessors
    position,       \* where Cranelift's builder is
    currentBlock,   \* FunctionCtx.current_block
    sealed,         \* FunctionCtx.sealed: a terminator was put, or it is closed
    panicked,       \* an assertion failed
    placed,         \* history: [block, wanted] of the instructions inserted
    edges           \* history: [from, to, args] of the branches

builderVars == <<status, closed, position, currentBlock, sealed, panicked,
                 placed, edges>>

BuilderTypeOK ==
    /\ status \in [Blocks \cup {Entry} -> {"pristine", "partial", "filled"}]
    /\ closed \subseteq Blocks \cup {Entry}
    /\ position \in Blocks \cup {Entry}
    /\ currentBlock \in Blocks
    /\ sealed \subseteq Blocks
    /\ panicked \in BOOLEAN
    /\ placed \subseteq [block : Blocks \cup {Entry}, wanted : Blocks]
    /\ edges \subseteq [from : Blocks, to : Blocks, args : Nat]

\* FunctionCtx::new and init_entry.
BuilderInit ==
    /\ status = [b \in Blocks \cup {Entry} |->
                    IF b = Entry THEN "filled" ELSE "pristine"]
    /\ closed = {Entry}
    /\ position = Entry
    /\ currentBlock = 1
    /\ sealed = {}
    /\ panicked = FALSE
    /\ placed = {}
    /\ edges = {}

-----------------------------------------------------------------------------
(* Instructions; wanted is the block the caller is translating             *)

Put(block, wanted) == placed' = placed \cup {[block |-> block, wanted |-> wanted]}

\* switch_to_block if the builder is elsewhere, then an instruction.
MayInsert ==
    /\ position # currentBlock => status[position] # "partial"
    /\ status[currentBlock] # "filled"

Insert(newStatus) ==
    /\ position' = currentBlock
    /\ status' = [status EXCEPT ![currentBlock] = newStatus]
    /\ UNCHANGED <<currentBlock, closed, panicked>>

Panic ==
    /\ panicked' = TRUE
    /\ UNCHANGED <<status, closed, position, currentBlock, sealed, placed, edges>>

\* emit, emit_void, emit_call_import, emit_symbol_value
Emit(wanted) ==
    \/ /\ MayInsert /\ Insert("partial") /\ Put(currentBlock, wanted)
       /\ UNCHANGED <<sealed, edges>>
    \/ ~MayInsert /\ Panic

\* block_add_iconst: a block that has its terminator gets no constant.
EmitConst(wanted) ==
    \/ currentBlock \in sealed /\ UNCHANGED builderVars
    \/ currentBlock \notin sealed /\ Emit(wanted)

\* harmonize_binop widens an operand where Cranelift's builder is, without a
\* switch to the current block.  The operation itself is an Emit.
Harmonize(wanted) ==
    \/ /\ status[position] # "filled"
       /\ status' = [status EXCEPT ![position] = "partial"]
       /\ Put(position, wanted)
       /\ UNCHANGED <<position, currentBlock, closed, panicked, sealed, edges>>
    \/ status[position] = "filled" /\ Panic

\* block_add_uextend, with which emit_binop and emit_icmp of the frontend widen
\* an operand before harmonize_binop sees it.
Widen(wanted) == Emit(wanted)

\* Fault: FunctionCtx does not remember the terminator.
TerminateUnrecorded(branches, wanted) ==
    \/ /\ MayInsert /\ \A e \in branches : e.to \notin closed
       /\ Insert("filled") /\ Put(currentBlock, wanted)
       /\ edges' = edges \cup branches
       /\ UNCHANGED sealed
    \/ ~(MayInsert /\ \A e \in branches : e.to \notin closed) /\ Panic

\* emit_jump_with_args, emit_brif_with_args, emit_return, emit_trap: the
\* targets learn of a predecessor, and the block counts as sealed although
\* Cranelift is not told.
Terminate(branches, wanted) ==
    \/ /\ MayInsert /\ \A e \in branches : e.to \notin closed
       /\ Insert("filled") /\ Put(currentBlock, wanted)
       /\ edges' = edges \cup branches
       /\ sealed' = sealed \cup {currentBlock}
    \/ ~(MayInsert /\ \A e \in branches : e.to \notin closed) /\ Panic

\* block_add_trap
Trap(wanted) ==
    \/ currentBlock \in sealed /\ UNCHANGED builderVars
    \/ currentBlock \notin sealed /\ Terminate({}, wanted)

-----------------------------------------------------------------------------
(* Blocks                                                                  *)

\* switch_to_named: Cranelift's builder stays where it is.
SwitchTo(b) ==
    /\ currentBlock' = b
    /\ UNCHANGED <<status, closed, position, sealed, panicked, placed, edges>>

\* seal_block of Cranelift, for a set of blocks.
Close(B) ==
    /\ panicked' = (panicked \/ B \cap closed # {})
    /\ closed' = closed \cup B
    /\ UNCHANGED <<status, position, currentBlock, placed, edges>>

\* FunctionCtx::seal_block
SealBlock(b) == Close({b} \ sealed) /\ sealed' = sealed \cup {b}

\* finalize_ctx: the entry block holds a jump, so the layout is never empty.
FinalizeCtx == Close(Blocks \ sealed) /\ UNCHANGED sealed
=============================================================================
