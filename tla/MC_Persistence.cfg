SPECIFICATION Spec
CONSTANTS
    Processes = {"trading", "dashboard"}
    Writer = "trading"
    Runs = {"r1"}
    Decisions = {"d1"}
    RiskDecisions = {"k1"}
    Executions = {"e1", "e2", "e3"}
    Fills = {"f1"}
    Snapshots = {"s1"}
    EvidenceIds = {"v1", "v2"}
    SourceEvents = {"x1"}
    Plan <- MCPlan
    EventOf <- MCEventOf
    States = {"Unknown", "Filled"}
    Appends <- MCAppends
    Absent = Absent
    MaxEvents = 4
INVARIANTS
    TypeOK
    OpenMeansComplete
    AuditMatchesTables
    ShownEvidenceIsSaved
    UnresolvedIsRight
