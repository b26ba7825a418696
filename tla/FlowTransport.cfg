SPECIFICATION FairSpec
CONSTANTS
    NFlows = 2
    NUnits = 3
    StripeUnits = 2
    BufferUnits = 2
    Scenarios <- Mixed
    MaxKills = 1
    None = None
INVARIANTS ReceivedWhole TasksHandedOutOnce
CHECK_DEADLOCK FALSE
PROPERTIES EveryCallReturns TransferSucceeds
