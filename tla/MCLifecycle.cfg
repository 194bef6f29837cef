CONSTANTS
    NumBlocks = 4
    PagesPerBlock = 2
    PageSize = 2
    HdrSize = 1
    NumStores = 1
    AttrSizes = {0, 3}
    DataSizes = {1, 3}
    MaxObjects = 5
    MaxFaults = 1
    Faults = {}
    Misuse = {}
    Lifecycle = TRUE
INIT Init
NEXT Next
CHECK_DEADLOCK FALSE
INVARIANT TypeOK
INVARIANT DeliveredWhole
INVARIANT CommittedObjectsIntact
PROPERTY QueueSpec
INVARIANT FreeListSound
