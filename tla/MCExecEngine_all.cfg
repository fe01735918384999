SPECIFICATION FairSpec
CONSTANTS
    PCs <- AnyPCs
    AllocSizes <- MCAllocSizes
    Programs <- AnyPrograms
    Entry = 4
    Capacity = 2
    PoolSize = 2
    HOT_THRESHOLD = 2
    MaxAccess = 5
    MaxBlock = 2
    FitBlock = 1
    MaxIter = 5
    OffsetWrap = 64
    PageSize = 8
INVARIANTS
    EngineTypeOK
    BlocksWellFormed
PROPERTIES
    Termination
    ExhaustionIsPermanent
