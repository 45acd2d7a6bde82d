SPECIFICATION Spec
CONSTANTS
    Instruments = {"BTC", "ETH", "DOGE"}
    Sources = {"Polymarket", "Reddit", "AtkNews", "MarxFinance"}
    Registered = {"Polymarket", "Reddit", "AtkNews"}
    Live = {"Polymarket"}
    Renaming = {"Reddit"}
    Toggled = {"Polymarket"}
    Events = {"market", "post", "report"}
    Undated = Undated
    Catalog <- MCCatalog
    Faults = {"Timeout"}
    Unlimited = Unlimited
    MaxResults = 2
    MaxPerSource = 1
    MaxNow = 1
    MaxReads = 3
    Universe = {"BTC", "ETH"}
    Positions <- MCPositions
    Plans <- MCPlans
    Collections <- MCCollections
    AgentActions = {"Sell", "Hold"}
    MaxSourceCalls = 2
    MaxActionable = 1
    One = 3
    MaxCollections = 2
    MaxCycles = 2
INVARIANTS
    TypeOK
    EvidenceWasAskedFor
    NothingProposedTwice
PROPERTIES
    FailedSourcesAddNothing
    CatalystsCountOnce
CHECK_DEADLOCK FALSE
