SPECIFICATION FairSpec
CONSTANTS
    PCs <- AnyPCs
    AllocSizes <- MCAllocSizes
    Programs <- PatchPrograms
    Entry = 4
    Capacity = 2
    PoolSize = 8
    HOT_THRESHOLD = 2
    MaxAccess = 7
    MaxBlock = 2
    FitBlock = 2
    MaxIter = 7
    OffsetWrap = 64
    PageSize = 8
INVARIANTS
    CacheCoherent
