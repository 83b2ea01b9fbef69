SPECIFICATION FairSpec
CONSTANTS
    t1 = t1
    t2 = t2
    Tabs = {t1, t2}
    Chapters = {}
    Entries = {l1}
    Events <- MCEvents
    NoRow = NoRow
    Absent = Absent
    Corruptible = FALSE
    MaxWrites <- OneEach
    MaxFaults = 2
CHECK_DEADLOCK FALSE
INVARIANTS
    ClosedStaysClosed
    UnsavedIsVisible
PROPERTIES
    WritesSettle
