CONSTANTS
    NCpus = 2
    Threads = 1
    MaxTicks = 2
    MaxRecords = 2
SPECIFICATION FairSpec
INVARIANTS
    TypeOK
    AttachedBeforeExec
    ReportComplete
    MuxHonest
    NoFalseHalt
    ExitCodeMeaning
PROPERTIES
    ImplementsProfile
    Terminates
