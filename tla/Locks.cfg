SPECIFICATION MCSpec
CONSTANTS
    Threads = {p, q, r}
    Scopes = {a, b}
    TicketSpan = 6
    SequenceThreads = {p, q, r}
    SequenceSpan = 4
    Operations = {o, p, q}
    Roles = {r, s}
    Windows = {w}
INVARIANTS
    BlockedUntilAborted
    OutrunIsTurnedDown
    NoCircularWait
PROPERTIES
    EachServesInOrder
    WaitersGoOn
CHECK_DEADLOCK FALSE
