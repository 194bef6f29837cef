CONSTANTS
    NumBlocks = 4
    PagesPerBlock = 2
    PageSize = 2
    HdrSize = 1
    NumStores = 1
    AttrSizes = {0}
    DataSizes = {1}
    MaxObjects = 5
    MaxFaults = 3
    Faults = {"erase", "bad"}
    Misuse = {}
    Lifecycle = FALSE
INIT Init
NEXT Next
CHECK_DEADLOCK FALSE
INVARIANTS
  BadListLogEnds
  CommittedObjectsIntact
  FreeListSound
