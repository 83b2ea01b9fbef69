SPECIFICATION Spec
CONSTANTS
    t1 = t1
    t2 = t2
    Tabs = {t1, t2}
    Chapters = {c1}
    Entries = {}
    Events <- MCEvents
    NoRow = NoRow
    Absent = Absent
    Corruptible = FALSE
    MaxWrites <- TwoAndOne
    MaxFaults = 0
CHECK_DEADLOCK FALSE
PROPERTIES NoCommitLost
