SPECIFICATION FairSpec
CONSTANTS
    Rows = {k1, k2}
    MaxWrites = 1
    MaxEdits = 1
    MaxCrashes = 1
    MaxFaults = 1
    MaxLeaves = 1
CHECK_DEADLOCK FALSE
INVARIANTS
    TypeOK
PROPERTIES
    SavedEditIsShown
    ListCatchesUp
    EditsEnd
