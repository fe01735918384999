SPECIFICATION JitSpec
CONSTANTS
    Blocks <- CompareBlocks
    Contexts <- MCContexts
    Regs <- MCRegs
    Word = 16
    Lane = 4
    OffsetWrap = 64
    PageSize = 8
    BufSize = 4096
INVARIANTS
    JitMatchesInterpreter
