CONSTANTS
    NCpus = 2
    Threads = 2
    MaxTicks = 1
    MaxRecords = 0
SPECIFICATION Spec
INVARIANT MuxHonest
