SPECIFICATION Spec
CONSTANTS
    o1 = o1
    o2 = o2
    Operations = {o1, o2}
    Plans <- PairPlans
    MaxSteps = 1
    PendingCapacity = 1
    OperationCapacity = 2
    CompletedCapacity = 1
    Replies = {"Ok", "WrongOperation"}
    MaxReplies = 2
INVARIANTS
    OneNoticeAfterRequest
    CancelReachesHost
    AnswersClassifiedOnce
SYMMETRY Symmetric
CHECK_DEADLOCK FALSE
