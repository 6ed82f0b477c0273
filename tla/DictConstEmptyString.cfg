SPECIFICATION Spec
CONSTANTS
    Slots = 3
    Strings <- MCWithEmpty
    Bits <- MCBits
    Null = Null
    Missing = Missing
    Crash = Crash
INVARIANTS
    LookupFaithful
