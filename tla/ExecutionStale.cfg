CONSTANTS
    Plans = {p1}
    Playing = {}
    Pages = {g1}
    PageOf <- OnePage
    Sockets = {s1, s2}
    NoSocket = NoSocket
    NoResult = NoResult
    MaxPending = 1
    Capacity = 1
    MaxSongs = 2
    MaxReloads = 1
SPECIFICATION Spec
CHECK_DEADLOCK FALSE
INVARIANTS
    AppliesOnPlanned
