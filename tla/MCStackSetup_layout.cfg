SPECIFICATION StackSpec
CONSTANTS
    Top = 66
    PathLens <- MCPaths
    TLSBlocks <- MCTLSBlocks
INVARIANTS
    StackLayout
    ArgvSurvives
    ExecfnSurvives
    EntriesFound
