CONSTANTS
    short = short
    long = long
    huge = huge
    None = None
    Corrupt = Corrupt
    Value = {short, long, huge}
    Len <- MCLen
    DirStates = {"synced"}
SPECIFICATION Spec
INVARIANTS
    TypeOK
    PowerFailureKeepsPromise
    GetIsAuthentic
PROPERTIES
    ImplementsStore
