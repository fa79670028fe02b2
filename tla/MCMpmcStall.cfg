CONSTANTS
    Capacity = 2
    NProducers = 2
    NConsumers = 2
    TotalItems = 4
SPECIFICATION StallSpec
PROPERTY LockFree
