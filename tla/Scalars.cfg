SPECIFICATION ScalarSpec
CONSTANTS
    Word = 6
    Half = 4
    Byte = 2
    Lowered <- MCSound
INVARIANTS
    Represents
    FlagExact
    ReturnsValue
CHECK_DEADLOCK FALSE
