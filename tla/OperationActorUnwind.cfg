SPECIFICATION LocalSpec
CONSTANTS
    o1 = o1
    o2 = o2
    Operations = {o1}
    Plans <- UnwindPlans
    MaxSteps = 3
    PendingCapacity = 1
    OperationCapacity = 1
    CompletedCapacity = 8
    Replies = {"Ok", "Rejected"}
    MaxReplies = 1
INVARIANTS
    CompensationComplete
    UndoInReverse
PROPERTIES
    OperationsEnd
    FenceResolves
CHECK_DEADLOCK FALSE
