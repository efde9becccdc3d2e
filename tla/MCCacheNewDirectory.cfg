CONSTANTS
    short = short
    long = long
    huge = huge
    None = None
    Corrupt = Corrupt
    Value = {short, long, huge}
    Len <- MCLen
    DirStates = {"absent"}
SPECIFICATION Spec
INVARIANTS
    PowerFailureKeepsPromise
