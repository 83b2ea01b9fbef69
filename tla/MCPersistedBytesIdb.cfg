SPECIFICATION FairSpec
CONSTANTS
    Calls = {a1, a2, b1}
    Payloads = {x}
    MaxVersion = 2
INVARIANTS
    TypeOK
PROPERTIES
    ImplementsStore
    CallsSettle
