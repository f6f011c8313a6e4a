SPECIFICATION FairSpec
CONSTANTS
    k1 = k1
    k2 = k2
    k3 = k3
    Key = {k1, k2, k3}
    NoKey = NoKey
    Limit <- MCLimit
    Window <- MCWindow
    SweepWindow = 3
    MaxKeys = 2
    MaxTime = 3
    MaxRaced = 1
INVARIANTS
    LimitHolds
    BlockedForCause
    MapIsBounded
PROPERTIES
    ColdKeysLeave
