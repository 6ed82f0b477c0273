SPECIFICATION SpecLowered
CONSTANTS
    Base = 4
    Texts <- MCTexts
    CTexts <- MCCTexts
    StringTag = 12345
    MemoryTag = 54321
    LegacyTags <- MCLegacyTags
    Structs <- MCStructs
    ElemSize = 8
    Values <- MCValues
    MaxLength = 2
    MaxObjects = 3
    MemSize = 160
INVARIANTS
    Faithful
CHECK_DEADLOCK FALSE
