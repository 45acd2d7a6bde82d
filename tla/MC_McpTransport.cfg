SPECIFICATION FairSpec
CONSTANTS
    Callers = {c1, c2}
    Closers = {k1, k2}
    MaxRequests = 2
INVARIANTS
    TypeOK
    NoLostWaiter
    NoPendingLeak
PROPERTIES
    KeepsRequestPromise
    DeathReleasesCallers
    ShutdownReleasesCallers
CHECK_DEADLOCK FALSE
