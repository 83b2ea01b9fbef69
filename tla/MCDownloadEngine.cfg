SPECIFICATION FairSpec
CONSTANTS
    Chapters = {c1, c2}
    Pages = {p1, p2}
    Callers = {u1, u2}
    None = None
    Workers = 2
    PageAttempts = 2
    MaxCalls = 2
    MaxFaults = 1
    MaxCloses = 1
CHECK_DEADLOCK FALSE
INVARIANTS
    TypeOK
    CancelIsFinal
    RowMatchesPages
PROPERTIES
    QueueDrains
