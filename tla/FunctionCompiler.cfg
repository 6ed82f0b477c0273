SPECIFICATION Spec
CONSTANTS
    NumBlocks = 3
    Phis <- MCPhis
    MaxOps = 2
INVARIANTS
    TypeOK
    OnlyKnownPanics
    InstructionsLand
    BodyComplete
    EdgesFollowCFG
CHECK_DEADLOCK FALSE
