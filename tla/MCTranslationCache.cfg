SPECIFICATION CacheSpec
CONSTANTS
    PCs <- MCPCs
    AllocSizes <- MCAllocSizes
    Capacity = 2
    PoolSize = 7
    HOT_THRESHOLD = 2
    MaxAccess = 5
INVARIANTS
    CacheTypeOK
    BlocksDisjoint
    PendingDisjoint
    StampsDistinct
    HotMatchesHits
    OvergrowthIsPinned
PROPERTY EvictsLeastRecent
