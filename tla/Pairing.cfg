CONSTANTS
    Clients = {c1, c2}
    Tokens = {t1, t2, t3}
    NoToken = NoToken
    PairingTTL = 1
    MaxRequests = 1
    Capacity = 2
    MaxTime = 1
SPECIFICATION FairSpec
INVARIANTS
    TypeOK
    QuotaAccounted
PROPERTIES
    OperationsReturn
