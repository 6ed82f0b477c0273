SPECIFICATION FairSpec
CONSTANTS
    e = e
    a = a
    b = b
    c = c
    NoMI = NoMI
    MIs <- MCMIs
    Code <- MCMIs
    Entry = e
    Method <- MCMethod
    MaxInvokes = 2
INVARIANTS
    TypeOK
    NoAbort
    CallsLand
    CompiledOnce
    NothingForgotten
PROPERTIES
    Ends
CHECK_DEADLOCK FALSE
