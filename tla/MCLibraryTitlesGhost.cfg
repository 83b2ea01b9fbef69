SPECIFICATION Spec
CONSTANTS
    a = a  b = b  x = x
    ta = ta  tb = tb  tn = tn
    ca = ca  cb = cb
    None = None
    Titles = {ta, tb, tn}
    Mappings = {a, b, x}
    Chapters = {ca, cb}
    Bound = {a, b}
    Provider <- MCProvider
    AppOf <- MCAppOf
    MappingOf <- MCMappingOf
    Backups = {}
    Crashes = FALSE
    MaxClock = 2
    MaxEvents = 1
    MaxEdits = 3
CHECK_DEADLOCK FALSE
INVARIANTS
    TitlesKeepASource
