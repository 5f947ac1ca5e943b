SPECIFICATION FairSpec
CONSTANTS
    Plans = {p1, p2}
    Playing = {p2}
    Pages = {g1}
    PageOf <- OnePage
    Sockets = {s1, s2}
    NoSocket = NoSocket
    NoResult = NoResult
    MaxPending = 1
    Capacity = 2
    MaxSongs = 1
    MaxReloads = 1
CHECK_DEADLOCK FALSE
INVARIANTS
    TypeOK
    ExecutionSound
PROPERTIES
    ExecutionEnds
