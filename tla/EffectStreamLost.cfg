SPECIFICATION FairSpec
CONSTANTS
    Requests <- MCRequests
    EffectOf <- MCEffectOf
    ScopesOf <- MCScopesOf
    Destructive <- Clearing
    Projecting = {"left"}
    Receipts = 0
    DestructiveReceipts = 2
    MaxDeliveries = 1
    Bounds <- One
PROPERTIES
    StreamFailureWins
CHECK_DEADLOCK FALSE
