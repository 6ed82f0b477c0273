SPECIFICATION Spec
CONSTANTS
    t1 = t1
    t2 = t2
    vector = vector
    string = string
    foo = foo
    bar = bar
    NoAddr = NoAddr
    Free = Free
    Plain = Plain
    Threads <- MCThreads
    Sites <- MCSites
    Symbols <- MCSymbols
    Addrs <- MCAddrs
    Keys <- MCKeys
    KeyOf <- MCDistinct
INVARIANTS
    TypeOK
    ConstantsIntact
    BuiltOnce
