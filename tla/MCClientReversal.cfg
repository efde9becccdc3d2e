CONSTANTS
    a = a
    b = b
    None = None
    Corrupt = Corrupt
    cloudflare = cloudflare
    duckdns = duckdns
    home = home
    office = office
    Addr = {a, b}
    Provider = {cloudflare, duckdns}
    Record = {home, office}
    Owner <- MCOwner
    Configs <- Single
    Faults = {"provider"}
SPECIFICATION Spec
PROPERTIES
    SkipMeansPublished
