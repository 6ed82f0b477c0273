SPECIFICATION Spec
CONSTANTS
    ElemSize = 1
    PtrSize = 1
    RegSize = 4
    Values <- MCValues
    Junk = 3
    MaxLength = 4
    Overlaps = FALSE
PROPERTIES
    ImplementsVector
CHECK_DEADLOCK FALSE
