SPECIFICATION MCSpec
CONSTANTS
    t1 = t1 t2 = t2 o1 = o1 o2 = o2 o3 = o3 a1 = a1 a2 = a2
    NoTab = NoTab NoOp = NoOp DormantAttempt = DormantAttempt
    WindowIds = {1, 2}
    Tabs = {t1, t2}
    OpIds = {o1, o2, o3}
    Attempts = {a1, a2}
    MaxGeneration = 1
    MaxSequence = 1
    Layouts = {}
SYMMETRY Symmetric
INVARIANTS
    FenceFollowsClose
    OutcomeReportedOnce
    ActivationFollowsTab
    AuditPasses
PROPERTIES
    ClosedStaysClosed
    CommitsAreOrdered
