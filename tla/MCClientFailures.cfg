CONSTANTS
    a = a
    b = b
    None = None
    Corrupt = Corrupt
    cloudflare = cloudflare
    duckdns = duckdns
    home = home
    office = office
    Addr = {a, b}
    Provider = {cloudflare, duckdns}
    Record = {home, office}
    Owner <- MCOwner
    Configs <- Edited
    Faults = {"lookup", "provider", "cache", "crash"}
SPECIFICATION FairSpec
INVARIANTS
    TypeOK
    CacheIsEvidence
    DiskIsEvidence
PROPERTIES
    ShutdownCompletes
    CacheFollowsAddress
