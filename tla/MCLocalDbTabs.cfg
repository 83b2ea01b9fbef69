SPECIFICATION Spec
CONSTANTS
    t1 = t1
    t2 = t2
    Tabs = {t1, t2}
    Chapters = {c1}
    Entries = {l1}
    Events <- MCEvents
    NoRow = NoRow
    Absent = Absent
    Corruptible = TRUE
    MaxWrites <- TwoAndOne
    MaxFaults = 0
CHECK_DEADLOCK FALSE
INVARIANTS
    TypeOK
    FlushedWritesAreDurable
    SessionsTrackStore
PROPERTIES
    MergeKeepsCommitted
    OverwriteOnlyAfterMerge
