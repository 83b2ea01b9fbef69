SPECIFICATION FairSpec
CONSTANTS
    l1 = l1
    l2 = l2
    l3 = l3
    None = None
    MaxRuns = 1
    Concurrency = 2
    Callers <- MCWorkers
    Titles <- ThreeTitles
    Skipped = {l3}
    Paces = {1, 2}
    Window = 2
    MaxAutoWait = 2
    RetryAfters = {1, 3}
    Interval = 1
    MaxEvents = 1
    MaxFaults = 1
    SlackTime = 1
CHECK_DEADLOCK FALSE
INVARIANTS
    TypeOK
    GrantsWithinPace
    ListingsAreSpaced
    NothingIsLeftOut
PROPERTIES
    KeepsToTheGate
    HorizonIsKept
    RunsEnd
