SPECIFICATION FairSpec
CONSTANTS
    Runs = {r1, r2}
    NoRun = NoRun
    Consoles = {"own", "trader"}
    MaxCommits = 4
    MaxRequests = 2
    MaxRestarts = 1
INVARIANTS
    TypeOK
    MemoryIsAudited
    KillIsShown
PROPERTIES
    RequestsAnswered
CHECK_DEADLOCK FALSE
