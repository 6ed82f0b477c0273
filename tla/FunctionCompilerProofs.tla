---------------------- MODULE FunctionCompilerProofs ----------------------
(***************************************************************************)
(* Proofs about FunctionCompiler for every graph, every number of blocks   *)
(* and any number of statements.  Two inductive invariants: LandInv gives  *)
(* what branches a block has; FillInv holds as long as the builder has not *)
(* panicked and gives that only a block that was ended by a Core.isdefined *)
(* or an operand widened by harmonize_binop can make it panic, and where   *)
(* instructions end up.                                                    *)
(***************************************************************************)
EXTENDS FunctionCompiler, TLAPS

Translating == {"statements", "fallback", "seal"}

\* While a block is translated FunctionCtx is switched to it, and the
\* branches of a block are put together with its terminator.
LandInv ==
    /\ TypeOK
    /\ phase \in Translating => bi \in Blocks /\ currentBlock = bi
    /\ \A e \in edges : status[e.from] = "filled"
    /\ EdgesFollowCFG

-----------------------------------------------------------------------------
(* Successors                                                              *)

LEMMA TargetsFacts ==
    ASSUME succs \in [Blocks -> Successors], NEW b \in Blocks
    PROVE  /\ Len(succs[b]) \in 0 .. 2
           /\ Len(succs[b]) = 1 => Targets(b) = {succs[b][1]} /\ succs[b][1] \in Blocks
           /\ Len(succs[b]) = 2 =>
                 /\ Targets(b) = {succs[b][1], succs[b][2]}
                 /\ succs[b][1] \in Blocks /\ succs[b][2] \in Blocks
<1>1. succs[b] \in Successors
  OBVIOUS
<1>2. CASE succs[b] = <<>>
  BY <1>2 DEF Targets
<1>3. CASE \E s \in Blocks : succs[b] = <<s>>
  <2>1. PICK s \in Blocks : succs[b] = <<s>>
    BY <1>3
  <2>2. Len(succs[b]) = 1 /\ succs[b][1] = s
    BY <2>1
  <2>3. Targets(b) = {succs[b][1]}
    BY <2>2 DEF Targets
  <2>4. QED
    BY <2>2, <2>3
<1>4. CASE \E s, t \in Blocks : succs[b] = <<s, t>>
  <2>1. PICK s \in Blocks, t \in Blocks : succs[b] = <<s, t>>
    BY <1>4
  <2>2. Len(succs[b]) = 2 /\ succs[b][1] = s /\ succs[b][2] = t
    BY <2>1
  <2>3. Targets(b) = {succs[b][1], succs[b][2]}
    BY <2>2 DEF Targets
  <2>4. QED
    BY <2>2, <2>3
<1>5. QED
  BY <1>1, <1>2, <1>3, <1>4 DEF Successors

\* What one action of the builder may do while block bi is translated; each
\* kind of instruction is shown to be such a step, and the rest of the
\* argument needs to know no more of it.
Step(branches) ==
    /\ currentBlock' = currentBlock
    /\ closed' = closed
    /\ panicked' \in BOOLEAN
    /\ \/ UNCHANGED <<status, position, sealed, placed, edges>>
       \/ /\ status[currentBlock] # "filled"
          /\ position' = currentBlock
          /\ placed' = placed \cup {[block |-> currentBlock, wanted |-> bi]}
          /\ \/ /\ status' = [status EXCEPT ![currentBlock] = "partial"]
                /\ UNCHANGED <<sealed, edges>>
             \/ /\ status' = [status EXCEPT ![currentBlock] = "filled"]
                /\ sealed' = sealed \cup {currentBlock}
                /\ edges' = edges \cup branches
       \/ /\ status[position] # "filled"
          /\ status' = [status EXCEPT ![position] = "partial"]
          /\ placed' = placed \cup {[block |-> position, wanted |-> bi]}
          /\ UNCHANGED <<position, sealed, edges>>

LEMMA InstructionSteps ==
    ASSUME BuilderTypeOK, NEW branches
    PROVE  /\ Emit(bi) \/ EmitConst(bi) \/ Widen(bi) \/ Harmonize(bi) => Step(branches)
           /\ Terminate(branches, bi) => Step(branches)
           /\ Trap(bi) => Step({})
           /\ UNCHANGED builderVars => Step(branches)
<1>1. Emit(bi) => Step(branches)
  BY Zenon DEF BuilderTypeOK, Emit, Put, Insert, Panic, Step, MayInsert
<1>2. UNCHANGED builderVars => Step(branches)
  BY Zenon DEF BuilderTypeOK, builderVars, Step
<1>3. ASSUME NEW B PROVE Terminate(B, bi) => Step(B)
  BY Zenon DEF BuilderTypeOK, Terminate, Put, Insert, Panic, Step, MayInsert
<1>4. UNCHANGED builderVars => Step({})
  BY Zenon DEF BuilderTypeOK, builderVars, Step
<1>5. Harmonize(bi) => Step(branches)
  BY Zenon DEF BuilderTypeOK, Harmonize, Put, Panic, Step
<1>6. QED
  BY <1>1, <1>2, <1>3, <1>4, <1>5, Zenon DEF EmitConst, Widen, Trap

-----------------------------------------------------------------------------
(* Branches                                                                *)

\* A step of the builder whose branches, if any, are all those of block bi.
LEMMA StepLands ==
    ASSUME LandInv, bi \in Blocks, currentBlock = bi,
           NEW branches,
           branches \subseteq [from : {bi}, to : Blocks, args : Nat],
           \A e \in branches : e.args = Phis[e.to],
           {e.to : e \in branches} \in {{}, Targets(bi)},
           Step(branches),
           UNCHANGED <<succs, bi>>
    PROVE  /\ BuilderTypeOK'
           /\ currentBlock' = bi
           /\ \A e \in edges' : status'[e.from] = "filled"
           /\ EdgesFollowCFG'
<1>1. BuilderTypeOK /\ Targets(bi)' = Targets(bi)
  BY DEF LandInv, TypeOK, Targets
<1>2. BuilderTypeOK'
  BY <1>1 DEF BuilderTypeOK, Step
<1>3. currentBlock' = bi
  BY DEF Step
<1>4. \A e \in edges' : status'[e.from] = "filled"
  BY <1>1 DEF BuilderTypeOK, Step, LandInv
<1>5. ASSUME NEW b \in Blocks
      PROVE  {e.to : e \in {d \in edges' : d.from = b}} \in {{}, Targets(b)'}
  <2>1. Targets(b)' = Targets(b)
    BY DEF Targets
  <2>2. {e.to : e \in {d \in edges : d.from = b}} \in {{}, Targets(b)}
    BY DEF LandInv, EdgesFollowCFG
  <2>3. CASE edges' = edges
    BY <2>1, <2>2, <2>3
  <2>4. CASE edges' = edges \cup branches /\ status[bi] # "filled"
    <3>1. CASE b = bi
      <4>1. {d \in edges : d.from = bi} = {}
        BY <2>4 DEF LandInv
      <4>2. {d \in edges' : d.from = bi} = branches
        BY <2>4, <4>1
      <4>3. QED
        BY <2>1, <3>1, <4>2
    <3>2. CASE b # bi
      <4>1. {d \in edges' : d.from = b} = {d \in edges : d.from = b}
        BY <2>4, <3>2
      <4>2. QED
        BY <2>1, <2>2, <4>1
    <3>3. QED
      BY <3>1, <3>2
  <2>5. QED
    BY <2>3, <2>4 DEF Step
<1>6. \A e \in edges' : e.args = Phis[e.to]
  BY DEF Step, LandInv, EdgesFollowCFG
<1>7. QED
  BY <1>2, <1>3, <1>4, <1>5, <1>6, Zenon DEF EdgesFollowCFG

LEMMA LandInit == Init => LandInv
<1> SUFFICES ASSUME Init PROVE LandInv
  OBVIOUS
<1>1. BuilderTypeOK
  <2>1. 1 \in Blocks
    BY NumBlocksAssumption DEF Blocks
  <2>2. status \in [Blocks \cup {Entry} -> {"pristine", "partial", "filled"}]
    BY DEF Init, BuilderInit
  <2>3. /\ closed \subseteq Blocks \cup {Entry} /\ position \in Blocks \cup {Entry}
        /\ currentBlock \in Blocks /\ sealed \subseteq Blocks
        /\ placed \subseteq [block : Blocks \cup {Entry}, wanted : Blocks]
        /\ edges \subseteq [from : Blocks, to : Blocks, args : Nat]
    BY <2>1 DEF Init, BuilderInit
  <2>4. panicked \in BOOLEAN
    BY Zenon DEF Init, BuilderInit
  <2>5. QED
    BY <2>2, <2>3, <2>4, Zenon DEF BuilderTypeOK
<1>2. TypeOK
  <2>1. bi \in 1 .. NumBlocks + 1 /\ ops \in Nat
    BY NumBlocksAssumption DEF Init
  <2>2. /\ terminatorEmitted \in BOOLEAN /\ whole \in BOOLEAN
        /\ phase \in {"switch", "statements", "fallback", "seal", "finalize", "done"}
        /\ asked \in BOOLEAN /\ strayed \in BOOLEAN
    BY Zenon DEF Init
  <2>3. QED
    BY <1>1, <2>1, <2>2, Zenon DEF Init, TypeOK
<1>3. \A e \in edges : status[e.from] = "filled"
  BY DEF Init, BuilderInit
<1>4. EdgesFollowCFG
  BY DEF Init, BuilderInit, EdgesFollowCFG
<1>5. QED
  BY <1>2, <1>3, <1>4 DEF LandInv, Init, Translating

LEMMA LandStutter == ASSUME LandInv, UNCHANGED vars PROVE LandInv'
<1>1. UNCHANGED <<status, closed, position, currentBlock, sealed, panicked, placed,
                  edges, succs, bi, terminatorEmitted, phase, whole, asked, strayed, ops>>
  BY DEF vars, builderVars, compilerVars
<1>2. \A b : Targets(b)' = Targets(b)
  BY <1>1 DEF Targets
<1>3. TypeOK'
  BY <1>1 DEF LandInv, TypeOK, BuilderTypeOK
<1>4. EdgesFollowCFG'
  BY <1>1, <1>2 DEF LandInv, EdgesFollowCFG
<1>5. QED
  BY <1>1, <1>3, <1>4 DEF LandInv

\* A statement, a terminator or the fallback: one step of the builder.
LEMMA LandTranslating ==
    ASSUME LandInv, phase \in {"statements", "fallback"}, NEW branches,
           branches \subseteq [from : {bi}, to : Blocks, args : Nat],
           \A e \in branches : e.args = Phis[e.to],
           {e.to : e \in branches} \in {{}, Targets(bi)},
           Step(branches),
           UNCHANGED <<succs, bi, whole>>,
           phase' \in Translating, terminatorEmitted' \in BOOLEAN, ops' \in Nat,
           asked' \in BOOLEAN, strayed' \in BOOLEAN
    PROVE  LandInv'
<1>1. bi \in Blocks /\ currentBlock = bi
  BY DEF LandInv, Translating
<1>2. /\ BuilderTypeOK' /\ currentBlock' = bi
      /\ \A e \in edges' : status'[e.from] = "filled"
      /\ EdgesFollowCFG'
  BY <1>1, StepLands, Zenon
<1>3. TypeOK'
  BY <1>2 DEF LandInv, TypeOK, Translating
<1>4. QED
  BY <1>1, <1>2, <1>3 DEF LandInv

\* The branches of Goto and GotoIfNot, and of the fallback jump.
LEMMA BranchFacts ==
    ASSUME LandInv, bi \in Blocks, NEW T, T \subseteq Blocks
    PROVE  LET branches == {Branch(t) : t \in T} IN
           /\ branches \subseteq [from : {bi}, to : Blocks, args : Nat]
           /\ \A e \in branches : e.args = Phis[e.to]
           /\ {e.to : e \in branches} = T
<1> DEFINE branches == {Branch(t) : t \in T}
<1>1. \A t \in T : Branch(t) \in [from : {bi}, to : Blocks, args : Nat]
  BY PhisAssumption DEF Branch
<1>2. \A t \in T : Branch(t).args = Phis[Branch(t).to] /\ Branch(t).to = t
  BY DEF Branch
<1>3. {e.to : e \in branches} = T
  BY <1>2
<1>4. branches \subseteq [from : {bi}, to : Blocks, args : Nat]
  BY <1>1
<1>5. \A e \in branches : e.args = Phis[e.to]
  BY <1>2
<1>6. QED
  BY <1>3, <1>4, <1>5

LEMMA HistoryStep ==
    ASSUME Next
    PROVE  /\ asked' \in {asked, TRUE}
           /\ \/ strayed' = strayed
              \/ strayed' = (strayed \/ position # currentBlock)
BY Zenon DEF Next, SwitchBlock, Constant, Operation, MixedOperation, MixedUnharmonized,
             IsdefinedCall, Terminator, Goto, Return, Unreachable, GotoIfNot,
             TerminatorThrows, StatementsEnd, Fallback, Seal, BodyThrows, Finalize

LEMMA LandNext == ASSUME LandInv, Next PROVE LandInv'
<1> DEFINE Keep == UNCHANGED <<succs, bi, whole>>
<1>0. asked' \in BOOLEAN /\ strayed' \in BOOLEAN
  <2>1. (strayed \/ position # currentBlock) \in BOOLEAN
    OBVIOUS
  <2>2. QED
    BY <2>1, HistoryStep, Zenon DEF LandInv, TypeOK
<1>1. BuilderTypeOK /\ succs \in [Blocks -> Successors]
  BY DEF LandInv, TypeOK
<1>2. phase \in Translating => bi \in Blocks /\ currentBlock = bi
  BY DEF LandInv
<1>3. ASSUME phase \in {"statements", "fallback"}, Step({}), Keep,
             phase' \in Translating, terminatorEmitted' \in BOOLEAN, ops' \in Nat
      PROVE  LandInv'
  BY <1>0, <1>3, LandTranslating
<1>4. ASSUME Statement, Step({}) PROVE LandInv'
  <2>1. ops' \in Nat /\ terminatorEmitted' \in BOOLEAN
    BY <1>4 DEF Statement, LandInv, TypeOK
  <2>2. QED
    BY <1>3, <1>4, <2>1 DEF Statement, Translating
<1>5. ASSUME NEW T, T \subseteq Blocks, T = Targets(bi),
             phase \in {"statements", "fallback"},
             Terminate({Branch(t) : t \in T}, bi), Keep,
             phase' \in Translating, terminatorEmitted' \in BOOLEAN, ops' \in Nat
      PROVE  LandInv'
  <2> DEFINE branches == {Branch(t) : t \in T}
  <2>1. bi \in Blocks
    BY <1>2, <1>5 DEF Translating
  <2>2. /\ branches \subseteq [from : {bi}, to : Blocks, args : Nat]
        /\ \A e \in branches : e.args = Phis[e.to]
        /\ {e.to : e \in branches} = T
    BY <1>5, <2>1, BranchFacts
  <2>3. Step(branches)
    BY <1>1, <1>5, InstructionSteps
  <2> HIDE DEF branches
  <2>4. QED
    BY <1>0, <1>5, <2>2, <2>3, LandTranslating
<1>6. CASE SwitchBlock
  <2>1. /\ UNCHANGED <<status, closed, position, sealed, panicked, placed, edges, succs, bi>>
        /\ \/ bi <= NumBlocks /\ currentBlock' = bi /\ phase' = "statements"
           \/ currentBlock' = currentBlock /\ phase' = "finalize"
    BY <1>6 DEF SwitchBlock, SwitchTo, builderVars
  <2>2. TypeOK'
    <3>1. bi <= NumBlocks => bi \in Blocks
      BY NumBlocksAssumption DEF LandInv, TypeOK, Blocks
    <3>2. BuilderTypeOK'
      BY <2>1, <3>1, <1>1 DEF BuilderTypeOK
    <3>3. QED
      BY <1>0, <1>6, <2>1, <3>2 DEF SwitchBlock, LandInv, TypeOK
  <2>3. EdgesFollowCFG'
    BY <2>1 DEF LandInv, EdgesFollowCFG, Targets
  <2>4. bi <= NumBlocks => bi \in Blocks
    BY NumBlocksAssumption DEF LandInv, TypeOK, Blocks
  <2>5. QED
    BY <2>1, <2>2, <2>3, <2>4 DEF LandInv, Translating
<1>7. CASE Constant \/ Operation \/ MixedOperation \/ MixedUnharmonized \/ IsdefinedCall
  BY <1>1, <1>4, <1>7, InstructionSteps
     DEF Constant, Operation, MixedOperation, MixedUnharmonized, IsdefinedCall
<1>8. ops \in Nat /\ TRUE \in BOOLEAN /\ terminatorEmitted \in BOOLEAN
  BY DEF LandInv, TypeOK
<1>9. CASE Goto
  <2>1. bi \in Blocks
    BY <1>2, <1>9 DEF Goto, Terminator, Translating
  <2>2. Targets(bi) = {succs[bi][1]} /\ succs[bi][1] \in Blocks
    BY <1>1, <1>9, <2>1, TargetsFacts DEF Goto
  <2>3. {Branch(t) : t \in Targets(bi)} = {Branch(succs[bi][1])}
    BY <2>2
  <2>4. QED
    BY <1>5, <1>8, <1>9, <2>2, <2>3 DEF Goto, Terminator, Translating
<1>10. CASE \E dest \in Blocks : GotoIfNot(dest)
  <2> PICK dest \in Blocks : GotoIfNot(dest)
    BY <1>10
  <2>1. bi \in Blocks /\ Len(succs[bi]) = 2 /\ dest \in Targets(bi)
    BY <1>2 DEF GotoIfNot, Terminator, Translating
  <2>2. /\ Targets(bi) = {succs[bi][1], succs[bi][2]}
        /\ succs[bi][1] \in Blocks /\ succs[bi][2] \in Blocks
    BY <1>1, <2>1, TargetsFacts
  <2>3. Targets(bi) = {Fallthrough(dest), dest}
    BY <2>1, <2>2 DEF Fallthrough
  <2>4. {Branch(t) : t \in Targets(bi)} = {Branch(Fallthrough(dest)), Branch(dest)}
    BY <2>3
  <2>5. Targets(bi) \subseteq Blocks
    BY <2>2
  <2>6. QED
    BY <1>5, <1>8, <2>4, <2>5 DEF GotoIfNot, Terminator, Translating
<1>11. CASE Return \/ Unreachable
  BY <1>1, <1>3, <1>8, <1>11, InstructionSteps
     DEF Return, Unreachable, Terminator, Translating
<1>12. CASE TerminatorThrows \/ StatementsEnd
  BY <1>1, <1>3, <1>8, <1>12, InstructionSteps
     DEF TerminatorThrows, StatementsEnd, Translating
<1>13. CASE Fallback
  <2>1. CASE (terminatorEmitted /\ UNCHANGED builderVars) \/ Trap(bi)
    BY <1>1, <1>3, <1>8, <1>13, <2>1, InstructionSteps DEF Fallback, Translating
  <2>2. CASE Len(succs[bi]) = 1 /\ Terminate({Branch(succs[bi][1])}, bi)
    <3>1. bi \in Blocks
      BY <1>2, <1>13 DEF Fallback, Translating
    <3>2. Targets(bi) = {succs[bi][1]} /\ succs[bi][1] \in Blocks
      BY <1>1, <2>2, <3>1, TargetsFacts
    <3>3. {Branch(t) : t \in Targets(bi)} = {Branch(succs[bi][1])}
      BY <3>2
    <3>4. QED
      BY <1>5, <1>8, <1>13, <2>2, <3>2, <3>3 DEF Fallback, Translating
  <2>3. QED
    BY <1>13, <2>1, <2>2 DEF Fallback
<1>14. CASE Seal \/ BodyThrows \/ Finalize
  <2>1. /\ UNCHANGED <<status, position, currentBlock, placed, edges, succs>>
        /\ phase' \in {"switch", "finalize", "done"}
    BY <1>14 DEF Seal, SealBlock, Close, BodyThrows, Finalize, FinalizeCtx, builderVars
  <2>2. closed' \subseteq Blocks \cup {Entry} /\ panicked' \in BOOLEAN
    BY <1>1, <1>2, <1>14 DEF BuilderTypeOK, Seal, SealBlock, Close, BodyThrows, Finalize,
                       FinalizeCtx, builderVars, Translating
  <2>3. sealed' \subseteq Blocks
    BY <1>1, <1>2, <1>14 DEF BuilderTypeOK, Seal, SealBlock, BodyThrows, Finalize,
                       FinalizeCtx, builderVars, Translating
  <2>4. /\ bi' \in 1 .. NumBlocks + 1
        /\ terminatorEmitted' \in BOOLEAN /\ whole' \in BOOLEAN /\ ops' \in Nat
    <3>1. bi' \in 1 .. NumBlocks + 1
      BY <1>2, <1>14, NumBlocksAssumption
         DEF LandInv, TypeOK, Seal, BodyThrows, Finalize, Translating, Blocks
    <3>2. terminatorEmitted' = terminatorEmitted /\ whole' \in {whole, FALSE} /\ ops' = ops
      BY <1>14, Zenon DEF Seal, BodyThrows, Finalize
    <3>3. QED
      BY <1>8, <3>1, <3>2 DEF LandInv, TypeOK
  <2>5. TypeOK'
    <3>1. BuilderTypeOK'
      BY <1>1, <2>1, <2>2, <2>3 DEF BuilderTypeOK
    <3>2. QED
      BY <1>0, <1>1, <2>1, <2>4, <3>1 DEF TypeOK
  <2>6. EdgesFollowCFG'
    BY <2>1 DEF LandInv, EdgesFollowCFG, Targets
  <2>7. QED
    BY <2>1, <2>5, <2>6 DEF LandInv, Translating
<1>15. QED
  BY <1>6, <1>7, <1>9, <1>10, <1>11, <1>12, <1>13, <1>14 DEF Next

LEMMA LandInvariance == Spec => []LandInv
<1>1. LandInv /\ [Next]_vars => LandInv'
  BY LandNext, LandStutter
<1>2. QED
  BY LandInit, <1>1, PTL DEF Spec

\* The translation keeps the types of TypeOK, with any statements.
THEOREM TypeCorrect == Spec => []TypeOK
<1>1. LandInv => TypeOK
  BY DEF LandInv
<1>2. QED
  BY LandInvariance, <1>1, PTL

\* The branches are the edges of Julia's control-flow graph.
THEOREM EdgesAreJulias == Spec => []EdgesFollowCFG
<1>1. LandInv => EdgesFollowCFG
  BY DEF LandInv
<1>2. QED
  BY LandInvariance, <1>1, PTL

-----------------------------------------------------------------------------
(* The assertions of Cranelift's builder                                   *)

\* The builder is in the block that is translated, or left behind in a block
\* that has its terminator.
Behind == position = bi \/ status[position] = "filled"

\* Blocks are filled in order, the one that is translated last.
Progress ==
    \A b \in Blocks : /\ b < bi => status[b] = "filled"
                      /\ b > bi => status[b] = "pristine"

\* A block that is filled before its terminator was emitted was ended by
\* the trap of a Core.isdefined.
FillInv ==
    /\ LandInv
    /\ ~panicked
    /\ phase # "done" => closed = {Entry}
    /\ sealed = {b \in Blocks : status[b] = "filled"}
    /\ phase = "switch" => /\ Progress /\ status[position] = "filled"
                           /\ bi \in Blocks => status[bi] = "pristine"
    /\ phase = "statements" => /\ Progress /\ Behind /\ ~terminatorEmitted
                               /\ status[bi] = "filled" => asked
                               /\ status[bi] = "partial" => position = bi
    /\ phase = "fallback" => /\ Progress /\ Behind
                             /\ terminatorEmitted => status[bi] = "filled"
                             /\ status[bi] = "filled" => terminatorEmitted \/ asked
                             /\ status[bi] = "partial" => position = bi
    /\ phase = "seal" => Progress /\ Behind /\ status[bi] = "filled"
    /\ phase \in {"finalize", "done"} /\ whole =>
          \A b \in Blocks : status[b] = "filled"

\* One step of the builder in a block that has no terminator yet.
Advance(new) ==
    /\ status' = [status EXCEPT ![bi] = new]
    /\ position' = bi
    /\ closed' = closed
    /\ ~panicked'
    /\ sealed' = sealed \cup (IF new = "filled" THEN {bi} ELSE {})

LEMMA TerminateAdvances ==
    ASSUME FillInv, phase \in {"statements", "fallback"}, status[bi] # "filled",
           NEW branches, \A e \in branches : e.to \in Blocks,
           Terminate(branches, bi)
    PROVE  Advance("filled")
<1>1. bi \in Blocks /\ currentBlock = bi /\ closed = {Entry} /\ ~panicked
  BY DEF FillInv, LandInv, Translating
<1>2. MayInsert
  BY <1>1 DEF MayInsert, FillInv, Behind
<1>3. \A e \in branches : e.to \notin closed
  BY <1>1, NumBlocksAssumption DEF Blocks, Entry
<1>4. QED
  BY <1>1, <1>2, <1>3 DEF Terminate, Insert, Advance

LEMMA Advances ==
    ASSUME FillInv, phase \in {"statements", "fallback"}, status[bi] # "filled"
    PROVE  /\ Emit(bi) \/ EmitConst(bi) \/ Widen(bi) => Advance("partial")
           /\ Trap(bi) => Advance("filled")
<1>1. bi \in Blocks /\ currentBlock = bi /\ bi \notin sealed /\ ~panicked
  BY DEF FillInv, LandInv, Translating
<1>2. MayInsert
  BY <1>1 DEF MayInsert, FillInv, Behind
<1>3. Emit(bi) => Advance("partial")
  BY <1>1, <1>2 DEF Emit, Insert, Advance
<1>4. Trap(bi) => Advance("filled")
  BY <1>1, TerminateAdvances DEF Trap
<1>5. QED
  BY <1>1, <1>3, <1>4, Zenon DEF EmitConst, Widen

\* In a block that has its terminator, whatever is emitted makes the builder
\* panic or is left out.
LEMMA Blocked ==
    ASSUME FillInv, phase \in {"statements", "fallback"}, status[bi] = "filled"
    PROVE  /\ Emit(bi) \/ Widen(bi) => panicked'
           /\ \A B : Terminate(B, bi) => panicked'
           /\ EmitConst(bi) \/ Trap(bi) => UNCHANGED builderVars
<1>1. bi \in Blocks /\ currentBlock = bi /\ bi \in sealed
  BY DEF FillInv, LandInv, Translating
<1>2. ~MayInsert
  BY <1>1 DEF MayInsert
<1>3. Emit(bi) => panicked'
  BY <1>2, Zenon DEF Emit, Panic
<1>4. ASSUME NEW B, Terminate(B, bi) PROVE panicked'
  BY <1>2, <1>4, Zenon DEF Terminate, Panic
<1>5. EmitConst(bi) \/ Trap(bi) => UNCHANGED builderVars
  BY <1>1, Zenon DEF EmitConst, Trap
<1>6. QED
  BY <1>3, <1>4, <1>5, Zenon DEF Widen

LEMMA FillAdvance ==
    ASSUME FillInv, LandInv', phase \in {"statements", "fallback"},
           status[bi] # "filled", NEW new \in {"partial", "filled"}, Advance(new),
           bi' = bi, phase' \in {"statements", "fallback", "seal"},
           phase' = "statements" => ~terminatorEmitted',
           phase' = "statements" /\ new = "filled" => asked',
           phase' = "fallback" => (terminatorEmitted' <=> new = "filled"),
           phase' = "seal" => new = "filled"
    PROVE  FillInv'
<1>1. bi \in Blocks /\ bi \in DOMAIN status
  BY DEF FillInv, LandInv, TypeOK, BuilderTypeOK, Translating
<1>2. status'[bi] = new /\ \A b \in Blocks : b # bi => status'[b] = status[b]
  BY <1>1 DEF Advance, FillInv, LandInv, TypeOK, BuilderTypeOK
<1>3. Progress
  BY DEF FillInv
<1>4. Progress'
  BY <1>1, <1>2, <1>3, NumBlocksAssumption DEF Progress, Blocks
<1>5. Behind'
  BY DEF Advance, Behind
<1>6. closed' = {Entry} /\ position' = bi
  BY DEF Advance, FillInv
<1>7. sealed' = {b \in Blocks : status'[b] = "filled"}
  <2>1. sealed = {b \in Blocks : status[b] = "filled"}
    BY DEF FillInv
  <2>2. CASE new = "filled"
    BY <1>1, <1>2, <2>1, <2>2 DEF Advance
  <2>3. CASE new = "partial"
    BY <1>1, <1>2, <2>1, <2>3 DEF Advance
  <2>4. QED
    BY <2>2, <2>3
<1>8. QED
  BY <1>2, <1>4, <1>5, <1>6, <1>7 DEF FillInv, Advance

LEMMA FillInit == Init => FillInv
<1> SUFFICES ASSUME Init PROVE FillInv
  OBVIOUS
<1>1. LandInv
  BY LandInit
<1>2. \A b \in Blocks : status[b] = "pristine" /\ b >= 1
  BY DEF Init, BuilderInit, Blocks, Entry
<1>3. status[position] = "filled"
  BY DEF Init, BuilderInit
<1>4. sealed = {b \in Blocks : status[b] = "filled"}
  BY <1>2 DEF Init, BuilderInit
<1>5. Progress
  BY <1>2 DEF Init, Progress, Blocks
<1>6. QED
  BY <1>1, <1>2, <1>3, <1>4, <1>5 DEF FillInv, Init, BuilderInit

LEMMA FillStutter == ASSUME FillInv, LandInv', UNCHANGED vars PROVE FillInv'
BY DEF vars, builderVars, compilerVars, FillInv, Progress, Behind

\* The block already has its terminator, or is left to the fallback.
LEMMA FillIdle ==
    ASSUME FillInv, LandInv', UNCHANGED builderVars, bi' = bi, whole' = whole,
           asked' = asked \/ asked' = TRUE,
           phase' = "statements" => ~terminatorEmitted',
           phase' = "fallback" => /\ terminatorEmitted' => status[bi] = "filled"
                                  /\ status[bi] = "filled" => terminatorEmitted' \/ asked',
           \/ phase = "statements" /\ phase' \in {"statements", "fallback"}
           \/ phase = "fallback" /\ status[bi] = "filled" /\ phase' = "seal"
    PROVE  FillInv'
BY DEF builderVars, FillInv, Progress, Behind

\* The builder has panicked, for one of the two known reasons.
Stopped == panicked /\ (asked \/ strayed) /\ phase # "done"

\* A step keeps FillInv or makes the builder panic, and then a Core.isdefined
\* has been translated or harmonize_binop was in a block that was left behind.
LEMMA FillNext == ASSUME FillInv, Next, LandInv' PROVE FillInv' \/ Stopped'
<1> DEFINE Kept == FillInv' \/ Stopped'
<1> USE DEF Stopped
<1>1. BuilderTypeOK /\ succs \in [Blocks -> Successors] /\ bi \in 1 .. NumBlocks + 1
  BY DEF FillInv, LandInv, TypeOK
<1>2. phase \in Translating => bi \in Blocks /\ currentBlock = bi
  BY DEF FillInv, LandInv
<1>3. phase = "statements" => (status[bi] = "filled" => asked) /\ ~terminatorEmitted
  BY DEF FillInv
<1>4. CASE SwitchBlock
  <2>1. bi \in Blocks <=> bi <= NumBlocks
    BY <1>1, NumBlocksAssumption DEF Blocks
  <2>2. UNCHANGED <<status, closed, position, sealed, panicked, bi, whole>>
    BY <1>4 DEF SwitchBlock, SwitchTo, builderVars
  <2>3. Progress' /\ status'[position'] = "filled" /\ phase = "switch"
    BY <1>4, <2>2 DEF SwitchBlock, FillInv, Progress
  <2>4. CASE bi <= NumBlocks
    BY <1>4, <2>1, <2>2, <2>3, <2>4 DEF SwitchBlock, FillInv, Behind
  <2>5. CASE bi > NumBlocks
    <3>1. \A b \in Blocks : status'[b] = "filled"
      BY <1>1, <2>2, <2>5, NumBlocksAssumption, <2>3 DEF Blocks, Progress
    <3>2. phase' = "finalize"
      BY <1>1, <1>4, <2>5, NumBlocksAssumption DEF SwitchBlock
    <3>3. QED
      BY <2>2, <2>3, <3>1, <3>2 DEF FillInv
  <2>6. QED
    BY <1>1, <2>4, <2>5, NumBlocksAssumption
<1>5. CASE Constant \/ Operation \/ MixedOperation
  <2>1. /\ Statement /\ (Emit(bi) \/ EmitConst(bi) \/ Widen(bi)) /\ asked' = asked
        /\ phase = "statements" /\ phase' = "statements" /\ bi' = bi
        /\ terminatorEmitted' = terminatorEmitted /\ whole' = whole
    BY <1>5 DEF Constant, Operation, MixedOperation, Statement
  <2>2. CASE status[bi] # "filled"
    <3>1. Advance("partial")
      BY <2>1, <2>2, Advances
    <3>2. QED
      BY <1>3, <2>1, <2>2, <3>1, FillAdvance
  <2>3. CASE status[bi] = "filled"
    <3>1. asked' /\ phase' # "done"
      BY <1>3, <2>1, <2>3
    <3>2. panicked' \/ UNCHANGED builderVars
      BY <2>1, <2>3, Blocked
    <3>3. UNCHANGED builderVars => FillInv'
      BY <1>3, <2>1, FillIdle
    <3>4. QED
      BY <3>1, <3>2, <3>3, Zenon
  <2>4. QED
    BY <2>2, <2>3
<1>6. CASE IsdefinedCall
  <2>1. /\ Trap(bi) /\ asked' = TRUE
        /\ phase = "statements" /\ phase' = "statements" /\ bi' = bi
        /\ terminatorEmitted' = terminatorEmitted /\ whole' = whole
    BY <1>6 DEF IsdefinedCall, Statement
  <2>2. CASE status[bi] # "filled"
    <3>1. Advance("filled")
      BY <2>1, <2>2, Advances
    <3>2. QED
      BY <1>3, <2>1, <2>2, <3>1, FillAdvance
  <2>3. CASE status[bi] = "filled"
    <3>1. UNCHANGED builderVars
      BY <2>1, <2>3, Blocked
    <3>2. QED
      BY <1>3, <2>1, <3>1, FillIdle
  <2>4. QED
    BY <2>2, <2>3
<1>7. ASSUME Terminator, NEW B, \A e \in B : e.to \in Blocks,
             Terminate(B, bi) \/ Trap(bi)
      PROVE  Kept
  <2>1. /\ phase = "statements" /\ phase' = "fallback" /\ bi' = bi
        /\ terminatorEmitted' = TRUE /\ asked' = asked /\ whole' = whole
    BY <1>7 DEF Terminator
  <2>2. CASE status[bi] # "filled"
    <3>1. Advance("filled")
      BY <1>7, <2>1, <2>2, TerminateAdvances, Advances
    <3>2. QED
      BY <2>1, <2>2, <3>1, FillAdvance
  <2>3. CASE status[bi] = "filled"
    <3>1. asked' /\ phase' # "done"
      BY <1>3, <2>1, <2>3
    <3>2. panicked' \/ UNCHANGED builderVars
      BY <1>7, <2>1, <2>3, Blocked
    <3>3. UNCHANGED builderVars => FillInv'
      BY <2>1, <2>3, FillIdle
    <3>4. QED
      BY <3>1, <3>2, <3>3, Zenon
  <2>4. QED
    BY <2>2, <2>3
<1>8. \A t \in Blocks : Branch(t).to \in Blocks
  BY DEF Branch
<1>9. CASE Goto
  <2>1. bi \in Blocks
    BY <1>2, <1>9 DEF Goto, Terminator, Translating
  <2>2. succs[bi][1] \in Blocks
    BY <1>1, <1>9, <2>1, TargetsFacts DEF Goto
  <2>3. \A e \in {Branch(succs[bi][1])} : e.to \in Blocks
    BY <1>8, <2>2
  <2>4. QED
    BY <1>7, <1>9, <2>3 DEF Goto
<1>10. CASE \E dest \in Blocks : GotoIfNot(dest)
  <2> PICK dest \in Blocks : GotoIfNot(dest)
    BY <1>10
  <2>1. bi \in Blocks /\ Len(succs[bi]) = 2
    BY <1>2 DEF GotoIfNot, Terminator, Translating
  <2>2. succs[bi][1] \in Blocks /\ succs[bi][2] \in Blocks
    BY <1>1, <2>1, TargetsFacts
  <2>3. \A e \in {Branch(Fallthrough(dest)), Branch(dest)} : e.to \in Blocks
    BY <1>8, <2>2 DEF Fallthrough
  <2>4. QED
    BY <1>7, <2>3 DEF GotoIfNot
<1>11. CASE Return \/ Unreachable
  <2>1. \A e \in {} : e.to \in Blocks
    OBVIOUS
  <2>2. QED
    BY <1>7, <1>11, <2>1 DEF Return, Unreachable
<1>12. CASE TerminatorThrows
  <2>1. /\ phase = "statements" /\ phase' = "fallback" /\ bi' = bi
        /\ terminatorEmitted' = terminatorEmitted /\ asked' = asked /\ whole' = whole
        /\ EmitConst(bi)
    BY <1>12 DEF TerminatorThrows
  <2>2. CASE status[bi] # "filled"
    <3>1. Advance("partial")
      BY <2>1, <2>2, Advances
    <3>2. QED
      BY <1>3, <2>1, <2>2, <3>1, FillAdvance
  <2>3. CASE status[bi] = "filled"
    <3>1. UNCHANGED builderVars
      BY <2>1, <2>3, Blocked
    <3>2. QED
      BY <1>3, <2>1, <3>1, FillIdle
  <2>4. QED
    BY <2>2, <2>3
<1>13. CASE StatementsEnd
  BY <1>3, <1>13, FillIdle DEF StatementsEnd
<1>14. CASE Fallback
  <2>1. /\ phase = "fallback" /\ phase' = "seal" /\ bi' = bi
        /\ asked' = asked /\ whole' = whole /\ terminatorEmitted' = terminatorEmitted
    BY <1>14 DEF Fallback
  <2>2. /\ bi \in Blocks /\ (terminatorEmitted => status[bi] = "filled")
        /\ status[bi] = "filled" => terminatorEmitted \/ asked
    BY <1>2, <2>1 DEF FillInv, Translating
  <2>3. CASE terminatorEmitted /\ UNCHANGED builderVars
    BY <2>1, <2>2, <2>3, FillIdle
  <2>4. CASE /\ ~terminatorEmitted
             /\ \/ Len(succs[bi]) = 1 /\ Terminate({Branch(succs[bi][1])}, bi)
                \/ Trap(bi)
    <3>1. CASE status[bi] # "filled"
      <4>1. CASE Len(succs[bi]) = 1 /\ Terminate({Branch(succs[bi][1])}, bi)
        <5>1. succs[bi][1] \in Blocks
          BY <1>1, <2>2, <4>1, TargetsFacts
        <5>2. \A e \in {Branch(succs[bi][1])} : e.to \in Blocks
          BY <1>8, <5>1
        <5>3. Advance("filled")
          BY <2>1, <3>1, <4>1, <5>2, TerminateAdvances
        <5>4. QED
          BY <2>1, <3>1, <5>3, FillAdvance
      <4>2. CASE Trap(bi)
        <5>1. Advance("filled")
          BY <2>1, <3>1, <4>2, Advances
        <5>2. QED
          BY <2>1, <3>1, <5>1, FillAdvance
      <4>3. QED
        BY <2>4, <4>1, <4>2
    <3>2. CASE status[bi] = "filled"
      <4>1. asked' /\ phase' # "done"
        BY <2>1, <2>2, <2>4, <3>2
      <4>2. panicked' \/ UNCHANGED builderVars
        BY <2>1, <2>4, <3>2, Blocked
      <4>3. UNCHANGED builderVars => FillInv'
        BY <2>1, <3>2, FillIdle
      <4>4. QED
        BY <4>1, <4>2, <4>3, Zenon
    <3>3. QED
      BY <3>1, <3>2
  <2>5. QED
    BY <1>14, <2>3, <2>4 DEF Fallback
<1>15. CASE Seal
  <2>1. phase = "seal" /\ bi \in Blocks /\ bi \in sealed /\ bi' = bi + 1
    BY <1>2, <1>15 DEF Seal, FillInv, Translating
  <2>2. /\ UNCHANGED <<status, position, closed, sealed>> /\ ~panicked'
        /\ phase' = "switch"
    BY <1>15, <2>1 DEF Seal, SealBlock, Close, FillInv
  <2>3. Progress' /\ (bi' \in Blocks => status'[bi'] = "pristine")
    BY <2>1, <2>2, NumBlocksAssumption DEF FillInv, Progress, Blocks
  <2>4. status'[position'] = "filled"
    BY <2>1, <2>2 DEF FillInv, Behind
  <2>5. QED
    BY <2>1, <2>2, <2>3, <2>4 DEF FillInv
<1>16. CASE BodyThrows
  <2>1. /\ UNCHANGED <<status, position, closed, sealed, panicked>>
        /\ phase' = "finalize" /\ ~whole' /\ phase # "done"
    BY <1>16 DEF BodyThrows, builderVars
  <2>2. QED
    BY <2>1 DEF FillInv
<1>17. CASE Finalize
  <2>1. UNCHANGED <<status, position, sealed, whole>> /\ phase' = "done" /\ phase = "finalize"
    BY <1>17 DEF Finalize, FinalizeCtx, Close
  <2>2. ~panicked'
    <3>1. (Blocks \ sealed) \cap closed = {}
      BY <2>1, NumBlocksAssumption DEF FillInv, Blocks, Entry
    <3>2. QED
      BY <1>17, <3>1 DEF Finalize, FinalizeCtx, Close, FillInv
  <2>3. QED
    BY <2>1, <2>2 DEF FillInv
<1>18. CASE MixedUnharmonized
  <2>1. /\ Harmonize(bi) /\ asked' = asked
        /\ strayed' = (strayed \/ position # currentBlock)
        /\ phase = "statements" /\ phase' = "statements" /\ bi' = bi
        /\ terminatorEmitted' = terminatorEmitted /\ whole' = whole
    BY <1>18 DEF MixedUnharmonized, Statement
  <2>2. CASE status[position] # "filled"
    <3>1. position = bi
      BY <2>1, <2>2 DEF FillInv, Behind
    <3>2. Advance("partial")
      BY <2>1, <2>2, <3>1 DEF Harmonize, Advance, FillInv
    <3>3. QED
      BY <1>3, <2>1, <2>2, <3>1, <3>2, FillAdvance
  <2>3. CASE status[position] = "filled"
    <3>1. panicked'
      BY <2>1, <2>3, Zenon DEF Harmonize, Panic
    <3>2. CASE position = currentBlock
      BY <1>2, <1>3, <2>1, <2>3, <3>1, <3>2 DEF Translating
    <3>3. CASE position # currentBlock
      BY <2>1, <3>1, <3>3
    <3>4. QED
      BY <3>2, <3>3
  <2>4. QED
    BY <2>2, <2>3
<1>19. QED
  BY <1>4, <1>5, <1>6, <1>9, <1>10, <1>11, <1>12, <1>13, <1>14, <1>15, <1>16, <1>17, <1>18
     DEF Next

\* Each instruction goes into the current block, or into the block where the
\* builder is, if that has no terminator; then the two are the same.
LEMMA InstructionsNext == ASSUME FillInv, InstructionsLand, Next PROVE InstructionsLand'
<1>1. BuilderTypeOK
  BY DEF FillInv, LandInv, TypeOK
<1>2. ASSUME phase \in {"statements", "fallback"}, NEW B, Step(B) PROVE InstructionsLand'
  <2>1. currentBlock = bi
    BY <1>2 DEF FillInv, LandInv, Translating
  <2>2. status[position] # "filled" => position = bi
    BY <1>2 DEF FillInv, Behind
  <2>3. placed' \in {placed, placed \cup {[block |-> bi, wanted |-> bi]}}
    BY <1>2, <2>1, <2>2 DEF Step
  <2>4. QED
    BY <2>3 DEF InstructionsLand
<1>3. CASE \/ Constant \/ Operation \/ MixedOperation \/ MixedUnharmonized \/ IsdefinedCall
           \/ Goto \/ Return \/ Unreachable \/ \E dest \in Blocks : GotoIfNot(dest)
           \/ TerminatorThrows \/ Fallback
  <2>1. phase \in {"statements", "fallback"} /\ \E B : Step(B)
    BY <1>1, <1>3, InstructionSteps
       DEF Constant, Operation, MixedOperation, MixedUnharmonized, IsdefinedCall, Statement,
           Goto, Return, Unreachable, GotoIfNot, Terminator, TerminatorThrows, Fallback
  <2>2. QED
    BY <1>2, <2>1
<1>4. CASE SwitchBlock \/ StatementsEnd \/ Seal \/ BodyThrows \/ Finalize
  <2>1. placed' = placed
    BY <1>4, Zenon DEF SwitchBlock, SwitchTo, StatementsEnd, Seal, SealBlock, Close, BodyThrows,
                       Finalize, FinalizeCtx, builderVars
  <2>2. QED
    BY <2>1 DEF InstructionsLand
<1>5. QED
  BY <1>3, <1>4 DEF Next

\* As long as the builder has not panicked FillInv holds; finalizing a
\* function panics in no case.
PanicInv == LandInv /\ InstructionsLand /\ (FillInv \/ Stopped)

LEMMA PanicNext == ASSUME PanicInv, [Next]_vars PROVE PanicInv'
<1>1. LandInv'
  BY LandNext, LandStutter DEF PanicInv
<1>2. CASE UNCHANGED vars
  <2>1. FillInv => FillInv'
    BY <1>1, <1>2, FillStutter
  <2>2. /\ panicked' = panicked /\ asked' = asked /\ strayed' = strayed /\ phase' = phase
        /\ placed' = placed
    BY <1>2 DEF vars, builderVars, compilerVars
  <2>3. InstructionsLand'
    BY <2>2 DEF PanicInv, InstructionsLand
  <2>4. QED
    BY <1>1, <2>1, <2>2, <2>3, Zenon DEF PanicInv, Stopped
<1>3. CASE Next /\ FillInv
  BY <1>1, <1>3, FillNext, InstructionsNext DEF PanicInv
<1>4. CASE Next /\ panicked
  BY <1>4, Zenon DEF Next, SwitchBlock, Constant, Operation, MixedOperation, MixedUnharmonized,
                     IsdefinedCall, Statement, Terminator, Goto, Return, Unreachable, GotoIfNot,
                     TerminatorThrows, StatementsEnd, Fallback, Seal, BodyThrows, Finalize
<1>5. QED
  BY <1>2, <1>3, <1>4 DEF PanicInv, Stopped

LEMMA PanicInvariance == Spec => []PanicInv
<1>1. Init => PanicInv
  <2>1. Init => InstructionsLand
    BY DEF Init, BuilderInit, InstructionsLand
  <2>2. QED
    BY <2>1, FillInit, LandInit DEF PanicInv
<1>2. PanicInv /\ [Next]_vars => PanicInv'
  BY PanicNext
<1>3. QED
  BY <1>1, <1>2, PTL DEF Spec

\* Cranelift's builder panics in no function but one with a Core.isdefined or
\* with an operand that harmonize_binop widens before anything was emitted in
\* its block, whatever the graph and whichever of the statements throw.
THEOREM PanicsExplained == Spec => []OnlyKnownPanics
<1>1. PanicInv => OnlyKnownPanics
  BY DEF PanicInv, FillInv, Stopped, OnlyKnownPanics
<1>2. QED
  BY PanicInvariance, <1>1, PTL

\* No instruction is inserted into another block than the one that is
\* translated, whatever the graph and the statements are and whether or not
\* the builder panics: what harmonize_binop inserts elsewhere is stopped by the
\* assertion, as every block the builder was left in has its terminator.
THEOREM InstructionsStay == Spec => []InstructionsLand
<1>1. PanicInv => InstructionsLand
  BY DEF PanicInv
<1>2. QED
  BY PanicInvariance, <1>1, PTL

\* A function that was translated to its end has all of its terminators,
\* whatever its statements are.
THEOREM BodiesComplete == Spec => []BodyComplete
<1>1. PanicInv => BodyComplete
  BY DEF PanicInv, FillInv, Stopped, BodyComplete
<1>2. QED
  BY PanicInvariance, <1>1, PTL
=============================================================================
