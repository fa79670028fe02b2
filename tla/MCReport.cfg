CONSTANTS
    Addresses = {1, 2, 3, 4, 5, 6, 7}
    HeaderTables <- MCHeaderTables
    kUserHalfEnd = 6
    kKernelHalfStart = 7
    Sites = {a, b}
    NoSite = nosite
    kMinAccessSamples = 2
    MaxMiss = 3
    MaxAccess = 4
    MaxCount = 8
SPECIFICATION Spec
SYMMETRY Symmetry
INVARIANTS
    TypeOK
    CountsExact
    EverySiteOnce
    NeverDominated
    EvidenceWins
PROPERTY CacheInvisible
