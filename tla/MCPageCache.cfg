SPECIFICATION FairSpec
CONSTANTS
    a = a
    b = b
    a1 = a1
    b1 = b1
    None = None
    Keys = {a1, b1}
    Chapters = {a, b}
    ChapterOf <- MCChapterOf
    Fills = {f1}
    Marks = {m1}
    Readers = {r1}
    Sweep = sweep
    Trims = {trim}
    MainStores = FALSE
    Limit = 1
    MaxFills = 2
    MaxTrims = 1
    MaxMounts = 1
    MaxOthers = 1
CHECK_DEADLOCK FALSE
INVARIANTS
    TypeOK
    RowNeverOutlivesItsBlob
    OpenChaptersAreSpared
PROPERTIES
    PassesEnd
    RequestsAreServed
