CONSTANTS
    Interval = 4
    StartDelay = 6
    Tolerance = 1
    MaxPass <- Overlong
    MaxTime = 32
SPECIFICATION Spec
CHECK_DEADLOCK FALSE
INVARIANTS
    TypeOK
    NeverSilent
    StopsInTime
PROPERTIES
    OnePassPerPeriod
    KeepsGrid
