SPECIFICATION Spec
CONSTANTS
    ElemSize = 8
    PtrSize = 8
    RegSize = 8
    Values <- MCValues
    Junk = 3
    MaxLength = 4
    Overlaps = FALSE
INVARIANTS
    TypeOK
    StaysInMemory
    RoomForElements
PROPERTIES
    ImplementsVector
    RemovedAreZero
CHECK_DEADLOCK FALSE
