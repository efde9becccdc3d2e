CONSTANTS
    u1 = u1
    u2 = u2
    u3 = u3
    u4 = u4
    a = a
    b = b
    Failure = Failure
    Pending = Pending
    Url = {u1, u2, u3, u4}
    Addr = {a, b}
    Threshold = 3
    Retries = 1
    Liar = {u1, u2}
SPECIFICATION FairSpec
INVARIANTS
    TypeOK
    AcceptedWasHeld
    NoRival
    LoopDecides
    FailsOnlyWithoutQuorum
PROPERTIES
    ImplementsDecision
    Terminates
CHECK_DEADLOCK FALSE
