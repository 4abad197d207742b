SPECIFICATION Spec
CONSTANTS
    o1 = o1
    o2 = o2
    Operations = {o1}
    Plans <- RejectPlans
    MaxSteps = 1
    PendingCapacity = 1
    OperationCapacity = 1
    CompletedCapacity = 8
    Replies = {"Ok", "Rejected"}
    MaxReplies = 1
INVARIANTS
    TimeoutKeepsCompensation
CHECK_DEADLOCK FALSE
