SPECIFICATION Spec
CONSTANTS
    Instruments = {"BTC", "ETH"}
    MaxOpenPositions = 1
    MaxTradeNotional = 6
    MinimumCashReserve = 2
    Whole = 2
    Decisions <- MCBuys
    Contexts <- MCContexts
    GatewayLive = TRUE
    InitialCash = 10
    MaxOrders = 2
INVARIANT
    ConcurrentPositions
CHECK_DEADLOCK FALSE
