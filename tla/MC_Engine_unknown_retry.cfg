SPECIFICATION Spec
CONSTANTS
    ExecutionIds = {1, 2, 3}
    Instruments = {"BTC", "ETH"}
    ClientIds = {1, 2, 3}
    InstrumentOf <- MCInstrumentOf
    ClientIdOf <- MCOwnClientIds
    Buys = {1, 2, 3}
    Limits = {1, 2, 3}
    Sendable = {1, 2, 3}
    MaxRestarts = 0
INVARIANT
    UnknownReconciledBeforeRetry
