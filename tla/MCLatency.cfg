CONSTANTS
    Capacity = 2
    kOps = 5
    kIntervalNs = 2
    MaxTime = 12
SPECIFICATION FairSpec
INVARIANTS
    TypeOK
    StallsShow
    PercentilesRight
PROPERTY AllMeasured
