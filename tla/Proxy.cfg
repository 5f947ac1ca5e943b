CONSTANTS
    Sockets = {s1, s2}
    NoSocket = NoSocket
    Rpcs = {r1, r2, r3}
    Mutating = {r1}
    Results = {x}
    NoResult = NoResult
    MaxPending = 2
SPECIFICATION FairSpec
CHECK_DEADLOCK FALSE
INVARIANTS
    TypeOK
    SessionExact
PROPERTIES
    CallsSettle
