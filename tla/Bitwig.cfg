SPECIFICATION FairSpec
CONSTANTS
    Slots = {s1, s2}
    Plans = {p1}
    None = None
    Attempts = 2
    MaxEvents = 3
CHECK_DEADLOCK FALSE
INVARIANTS TypeOK ConfirmedTargetOnly
PROPERTIES VerdictSound ExecutionsEnd
