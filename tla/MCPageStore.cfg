SPECIFICATION FairSpec
CONSTANTS
    NoFile = NoFile
    Torn = Torn
    Unknown = Unknown
    Puts = {p1, p2}
    Lists = {l1, l2}
    MaxDeletes = 1
    MaxLists = 2
    MaxFailures = 1
    MaxLooks = 1
    MaxCrashes = 1
    MaxDamage = 1
CHECK_DEADLOCK FALSE
INVARIANTS
    TypeOK
    NoStaleSidecar
    SettledPageStays
    SweepsReapLeftovers
PROPERTIES
    CallsEnd
