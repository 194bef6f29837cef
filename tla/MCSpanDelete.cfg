CONSTANTS
    NumBlocks = 3
    PagesPerBlock = 2
    PageSize = 2
    HdrSize = 1
    NumStores = 1
    AttrSizes = {3}
    DataSizes = {1, 3}
    MaxObjects = 3
    MaxFaults = 0
    Faults = {}
    Misuse = {}
    Lifecycle = FALSE
SPECIFICATION FairSpec
PROPERTY EveryObjectDelivered
CHECK_DEADLOCK FALSE
