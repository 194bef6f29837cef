CONSTANTS
    NumBlocks = 3
    PagesPerBlock = 2
    PageSize = 2
    HdrSize = 1
    NumStores = 2
    AttrSizes = {0}
    DataSizes = {1}
    MaxObjects = 5
    MaxFaults = 1
    Faults = {}
    Misuse = {}
    Lifecycle = FALSE
INIT Init
NEXT Next
CHECK_DEADLOCK FALSE
INVARIANT DeviceLockReleased
