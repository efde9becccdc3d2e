CONSTANTS
    a = a
    b = b
    None = None
    Corrupt = Corrupt
    cloudflare = cloudflare
    duckdns = duckdns
    home = home
    office = office
    Addr = {a, b}
    Provider = {cloudflare}
    Record = {home}
    Owner <- MCOwner
    Configs <- EditedVersions
    Faults = {"lookup", "provider", "crash"}
SPECIFICATION Spec
INVARIANTS
    CacheIsEvidence
PROPERTIES
    NoVersionForgotten
