SPECIFICATION FairSpec
CONSTANTS
    SourceCount = 2
    SlotPeriod = 2
    UpdCap = 2
    MaxSlot = 8
    MaxBlock = 3
INVARIANTS
    NeighboursDiffer
    AllErrMeansAll
PROPERTIES
    RegressNeedsFailover
    SlotsKeepComing
CHECK_DEADLOCK FALSE
