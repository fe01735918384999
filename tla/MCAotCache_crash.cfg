SPECIFICATION AotSpec
CONSTANTS
    Procs = {p1, p2}
    PCs <- MCPCs
    Blocks <- MCBlocks
    Garbage <- MCGarbage
    MaxOps = 4
    MaxFailures = 1
SYMMETRY Symmetry
INVARIANT
    LoadsWholeBlocks
PROPERTY
    SavedIsFound
CHECK_DEADLOCK FALSE
