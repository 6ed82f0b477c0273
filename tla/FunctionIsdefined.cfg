SPECIFICATION Spec
CONSTANTS
    NumBlocks = 3
    Phis <- MCPhis
    MaxOps = 2
INVARIANTS
    NoPanic
CHECK_DEADLOCK FALSE
