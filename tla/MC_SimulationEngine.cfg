SPECIFICATION Spec
CONSTANTS
    Instruments = {"BTC", "ETH"}
    Requests <- MCRequests
    Snapshots <- MCSnapshots
    InitialCash = 150
    InitialHeld <- MCHeld
    InitialAverage <- MCAverage
    Lot = 2
    Whole = 10
    FeeRate = 1
    Slippage = 1
    FillRatios = {0, 5, 10}
    StopLoss = 2
    TakeProfit = 5
    MaxOrders = 3
INVARIANTS
    TypeOK
    InventoryIsExplained
    OrdersAddUp
    LimitsAreKept
    ExitsAreFinal
PROPERTIES
    OnlyRoundingMovesMoney
