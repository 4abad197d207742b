SPECIFICATION Spec
CONSTANTS
    Roles = {"a", "b"}
    Sources <- SourceNames
    SlotsOf <- SoloAndWorkspace
    TabIds = {t1, t2}
    Windows = {left, right}
    Callers = {"caller"}
    MaxGeneration = 3
    MaxAttempts = 3
SYMMETRY Names
INVARIANTS
    OwnersAndSlotsAgree
    StaleIntentsAreRefused
PROPERTIES
    OwnersGoForward
CHECK_DEADLOCK FALSE
