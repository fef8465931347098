SPECIFICATION CodeSpec
CONSTANTS
    Word = 64
    Half = 32
    Page = 8
    MinAlign = 2
    HeapBase = 3
    InitPages = 1
    MaxPages = 3
    InputCap = 4
    OutputCap = 3
    HostInts <- MCHostInts
    Sizes <- MCSizes
    Aligns = {1, 4}
    MaxBlocks = 4
    W = 4
    E = 3
    Depth = 3
    MaxConses = 4
    MaxCopied = 3
    MaxBuffer = 8
    Callees <- MCCallees
    Table <- MCTable
    Sources <- MCSources
INVARIANTS
    BlocksDisjoint
    BlocksReachable
    NoFalseOverlap
    ExactUpToShl
    BuildsTheList
    BorrowsCheck
    ClonesAreNeeded
