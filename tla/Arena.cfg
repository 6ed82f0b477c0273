SPECIFICATION FairSpec
CONSTANTS
    BlockSize <- MCBlockSize
    MaxUsize  <- MCMaxUsize
    MaxLayout <- MCMaxLayout
    Bases     <- MCBases
    Sizes     <- MCSizes
INVARIANTS
    TypeOK
    Exclusive
    InsideBlock
    RetriesOnce
    UsageIsOwned
PROPERTIES
    Implements
    CallsEnd
CHECK_DEADLOCK FALSE
