SPECIFICATION Spec
CONSTANTS
    Slots = 3
    Strings <- MCStrings
    Bits <- MCBits
    Null = Null
    Missing = Missing
    Crash = Crash
INVARIANTS
    GetFaithful
