CONSTANTS
    DataSize = 12
    MaxRecords = 5
    Kinds = {"sample"}
SPECIFICATION Spec
CHECK_DEADLOCK FALSE
INVARIANT LostEventsIsDropped
