SPECIFICATION CallsSpec
CONSTANTS
    PAGE_SIZE = 2
    LastPage = 66
    Arena = 58
    MmapStart = 60
    MaxRegions = 2
    IntWord = 128
    StackBuf = 2
    Input = 2
    MaxCalls = 5
    Lens <- MCLens
    Targets <- MCTargets
    Hints <- MCHints
    Addrs <- MCAddrs
    Prots <- MCProts
    Buffers <- MCBuffers
    Counts <- MCCounts
    Entries <- MCEntries
INVARIANTS
    SyscallTypeOK
    BumpRegionsDisjoint
    WholeRegionsSafe
    SameCallAsked
    FailureSeen
    MmapUsable
    EfaultExplained
