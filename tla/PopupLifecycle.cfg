SPECIFICATION FairSpec
CONSTANTS
    Popups <- MCPopups
    Calls <- MCCalls
    KindOf <- MCKindOf
    OwnerOf <- MCOwnerOf
    MaxPopups = 2
    MaxCalls = 2
    MaxEvents = 1
    MaxFailures = 1
CHECK_DEADLOCK FALSE
INVARIANTS
    FencesKeepPopupsOut
    ZoomFollowsWindow
PROPERTIES
    MoveLeavesNoPopup
    ClosedIsReported
    CallsReturn
