CONSTANTS
    NumBlocks = 3
    PagesPerBlock = 2
    PageSize = 2
    HdrSize = 1
    NumStores = 1
    AttrSizes = {0}
    DataSizes = {1}
    MaxObjects = 5
    MaxFaults = 1
    Faults = {"bad"}
    Misuse = {}
    Lifecycle = FALSE
SPECIFICATION FairSpec
INVARIANTS
    ReadCursorOnChain
    CommittedObjectsIntact
    NoLeak
    FreeListSound
    WriteReadAgree
PROPERTIES
    QueueSpec
    EveryObjectDelivered
CHECK_DEADLOCK FALSE
