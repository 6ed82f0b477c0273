SPECIFICATION Spec
CONSTANTS
    NumBlocks = 3
    Phis <- MCPhis
    MaxOps = 2
INVARIANTS
    OnlyIsdefinedPanics
CHECK_DEADLOCK FALSE
