CONSTANTS
    Capacity = 4
    TotalItems = 14
SPECIFICATION FairSpec
INVARIANTS
    TypeOK
    NoDataRace
    NeverStuck
    ChecksumExact
PROPERTIES
    ImplementsQueue
    AllConsumed
