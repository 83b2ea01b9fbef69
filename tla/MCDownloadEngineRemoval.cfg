SPECIFICATION Spec
CONSTANTS
    Chapters = {c1}
    Pages = {p1}
    Callers = {u1, u2}
    None = None
    Workers = 1
    PageAttempts = 1
    MaxCalls = 2
    MaxFaults = 0
    MaxCloses = 0
CHECK_DEADLOCK FALSE
INVARIANTS
    RemovalLeavesNothing
