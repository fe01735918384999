SPECIFICATION StartSpec
CONSTANTS
    PAGE_SIZE = 4
    LastPage = 48
    Arena = 32
    MmapStart = 32
    MaxRegions = 7
    TLSSize = 5
    StackSize = 8
    Images <- AllImages
    Linked <- LinkedImages
    Libraries <- MCLibraries
    MaxLibs = 2
INVARIANTS
    ImageIntact
    SegmentPermissions
    ApartUntilReload
    FaultsOnlyInPageZero
    LibraryLinked
    LinkerFaults
