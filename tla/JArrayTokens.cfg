SPECIFICATION Spec
CONSTANTS
    ElemSize = 12
    PtrSize = 8
    RegSize = 8
    Values <- MCValues
    Junk = 3
    MaxLength = 4
    Overlaps = FALSE
INVARIANTS
    RoomForElements
CHECK_DEADLOCK FALSE
