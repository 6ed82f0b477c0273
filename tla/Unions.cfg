SPECIFICATION UnionSpec
CONSTANTS
    Structs = {"Leaf", "Tree"}
    Ghosts = {"Nothing"}
    Ints = {0, 5}
    Tag <- MCTag
    HostNothing = 20
    Addresses = {100, 200}
    Junk = {30}
    Forms = {}
INVARIANTS
    UnionTypeOK
    Represents
    TestsFaithful
    HostGetsValue
