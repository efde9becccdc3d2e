CONSTANTS
    a = a
    b = b
    None = None
    entry1 = entry1
    entry2 = entry2
    home = home
    office = office
    Addr = {a, b}
    Task = {entry1, entry2}
    Name = {home}
    Configs <- Overlap
    Updates <- OnlyV4
    Stored <- AtMostOne
    MaxLines = 0
SPECIFICATION Spec
SYMMETRY SymmetryTasks
INVARIANTS
    TypeOK
    OkMeansPublished
    DuplicatesBounded
PROPERTIES
    ImplementsUpdateTask
    RequestsRunOut
