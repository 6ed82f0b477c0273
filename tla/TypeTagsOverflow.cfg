SPECIFICATION Spec
CONSTANTS
    Nothing = Nothing
    Node = Node
    Token = Token
    Alias = Alias
    so1 = so1
    so2 = so2
    NoId = NoId
    Null = Null
    Types <- MCTypes
    ReservedIds <- MCReservedIds
    Unregistrable <- MCUnregistrable
    Libs <- MCLibs
    FirstId = 1
    TableSize = 3
    MaxId = 3
    FlatNamespace = FALSE
INVARIANTS
    TagsIdentifyTypes
CHECK_DEADLOCK FALSE
