SPECIFICATION SupportedSpec
CONSTANTS
    PCs <- GuestPCs
    AllocSizes <- MCAllocSizes
    Programs <- GuestPrograms
    Entry = 4
    Capacity = 2
    PoolSize = 3
    HOT_THRESHOLD = 2
    MaxAccess = 12
    MaxBlock = 2
    FitBlock = 2
    MaxIter = 12
    OffsetWrap = 64
    PageSize = 8
INVARIANTS
    CacheCoherent
PROPERTIES
    ImplementsGuest
