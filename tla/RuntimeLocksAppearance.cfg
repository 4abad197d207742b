SPECIFICATION WhileClosing
CONSTANTS
    Operations = {o, p}
    Windows = {"w1", "w2"}
    Roles = {"r1", "r2"}
    RolesIn <- MCRolesIn
    Appearance = TRUE
INVARIANTS
    NoCircularWait
CHECK_DEADLOCK FALSE
