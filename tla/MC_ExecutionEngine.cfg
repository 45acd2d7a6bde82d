SPECIFICATION Spec
CONSTANTS
    ExecutionIds = {1, 2, 3, 4}
    Instruments = {"BTC", "ETH"}
    ClientIds = {1, 2}
    InstrumentOf <- MCInstrumentOf
    ClientIdOf <- MCSharedClientIds
    Buys = {1, 2, 3}
    Limits = {3, 4}
    Sendable = {1, 2}
    MaxRestarts = 1
INVARIANTS
    TypeOK
    OnePlacementPerOrder
    CompleteMeansNoUnknownBuy
    AtMostOneMarketBuyInDoubt
    StartupCoversRestored
PROPERTIES
    KeepsPromise
