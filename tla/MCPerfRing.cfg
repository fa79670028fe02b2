CONSTANTS
    DataSize = 12
    MaxRecords = 7
    Kinds = {"sample", "throttle", "other"}
SPECIFICATION FairSpec
CHECK_DEADLOCK FALSE
INVARIANTS
    TypeOK
    UnreadIntact
    NoFalseAlarm
    SamplesFaithful
    LossAccounted
    AllDelivered
PROPERTIES
    ImplementsStream
    SessionEnds
