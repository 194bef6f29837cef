CONSTANTS
    NumBlocks = 4
    PagesPerBlock = 2
    EraseCanFail = TRUE
    BadCanAppear = TRUE
INIT RegInit
NEXT RegNext
INVARIANTS
    StatsLogEnds
    FreeListIntact
