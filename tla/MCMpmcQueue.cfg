CONSTANTS
    Capacity = 2
    NProducers = 2
    NConsumers = 2
    TotalItems = 6
SPECIFICATION FairSpec
INVARIANTS
    TypeOK
    NoDataRace
    ChecksumExact
PROPERTIES
    ImplementsQueue
    AllConsumed
