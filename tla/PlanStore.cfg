CONSTANTS
    i1 = i1
    i2 = i2
    Clients = {c1, c2}
    Plans = {p1, p2, p3}
    SameId = {p1, p3}
    PlanIds = {i1, i2}
    IdOf <- MCIdOf
    Confs = {k1}
    NoPlan = NoPlan
    NoConf = NoConf
    PlanTTLs = {2}
    ConfTTL = 1
    ReportTTL = 1
    PlanCapacity = 1
    ConfCapacity = 1
    MaxTime = 2
SPECIFICATION FairSpec
INVARIANTS
    TypeOK
    SingleGrant
    PinsExclusive
    ConfirmationsSound
    EvidenceSafe
    ReservationHolds
PROPERTIES
    ImplementsLifecycle
    GrantResolves
