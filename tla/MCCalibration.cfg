CONSTANTS
    MaxRate = 10
    Threads = 1
    MaxValue = 170
SPECIFICATION Spec
INVARIANTS
    TypeOK
    PeriodsNearest
    AggregateRateKept
