CONSTANTS
    Files <- AnyFile
    None = None
SPECIFICATION FairSpec
INVARIANTS
    TypeOK
    OnlySoundRuns
    RefusedForCause
    SuccessMeansDrained
PROPERTIES
    PanicIsReported
    SignalEnds
