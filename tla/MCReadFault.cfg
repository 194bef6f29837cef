CONSTANTS
    NumBlocks = 3
    PagesPerBlock = 2
    PageSize = 2
    HdrSize = 1
    NumStores = 1
    AttrSizes = {3}
    DataSizes = {1,3}
    MaxObjects = 4
    MaxFaults = 1
    Faults = {"read"}
    Misuse = {}
    Lifecycle = FALSE
INIT Init
NEXT Next
CHECK_DEADLOCK FALSE
INVARIANT DeviceLockReleased
