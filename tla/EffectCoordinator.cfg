SPECIFICATION FairSpec
CONSTANTS
    Requests <- MCRequests
    EffectOf <- MCEffectOf
    ScopesOf <- MCScopesOf
    Destructive <- Clearing
    Projecting = {"left"}
    Receipts = 0
    DestructiveReceipts = 2
    MaxDeliveries = 3
    Bounds <- All
INVARIANTS
    CancelledAnswers
    DestructiveRunsOnce
    DisposedIsQuiet
PROPERTIES
    FenceIsCoherent
    ServedInOrder
    EffectsGoOn
CHECK_DEADLOCK FALSE
