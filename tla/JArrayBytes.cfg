SPECIFICATION Spec
CONSTANTS
    ElemSize = 1
    PtrSize = 8
    RegSize = 4
    Values <- MCValues
    Junk = 3
    MaxLength = 4
    Overlaps = FALSE
INVARIANTS
    StaysInMemory
CHECK_DEADLOCK FALSE
