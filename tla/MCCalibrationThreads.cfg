CONSTANTS
    MaxRate = 10
    Threads = 2
    MaxValue = 60
SPECIFICATION Spec
INVARIANT AggregateRateKept
