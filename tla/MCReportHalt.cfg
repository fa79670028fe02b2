CONSTANTS
    Addresses = {1, 2, 3, 4, 5, 6}
    HeaderTables <- HaltHeaderTables
    kUserHalfEnd = 5
    kKernelHalfStart = 6
    Sites = {a, b}
    NoSite = nosite
    kMinAccessSamples = 2
    MaxMiss = 1
    MaxAccess = 1
    MaxCount = 2
SPECIFICATION Spec
INVARIANT HaltHolds
