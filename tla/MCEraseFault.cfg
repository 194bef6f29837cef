CONSTANTS
    NumBlocks = 3
    PagesPerBlock = 2
    PageSize = 2
    HdrSize = 1
    NumStores = 1
    AttrSizes = {0}
    DataSizes = {1}
    MaxObjects = 4
    MaxFaults = 1
    Faults = {"erase"}
    Misuse = {}
    Lifecycle = FALSE
INIT Init
NEXT Next
CHECK_DEADLOCK FALSE
INVARIANT ReadCursorOnChain
