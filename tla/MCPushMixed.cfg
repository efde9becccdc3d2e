CONSTANTS
    a = a
    b = b
    None = None
    entry1 = entry1
    entry2 = entry2
    home = home
    office = office
    Addr = {a, b}
    Task = {entry1, entry2}
    Name = {home, office}
    Configs <- Mixed
    Updates <- ThreeUpdates
    Stored <- AtMostOne
    MaxLines = 2
SPECIFICATION FairSpec
INVARIANTS
    OkMeansPublished
    OkMeansOnly
PROPERTIES
    UpdateEnds
    ImplementsUpdateTask
