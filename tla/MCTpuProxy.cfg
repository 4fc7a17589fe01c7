SPECIFICATION FairSpec
CONSTANTS
    LeaderOf <- MCLeaderOf
    Past = 1
    Upcoming = 2
    SlotCap = 1
    FreshCap = 1
    StartSlot = 5
    MaxSlot = 8
    MaxFails = 1
INVARIANTS
    TypeOK
    NoHiddenSlot
    ConnectionsFollow
PROPERTIES
    EverySlotFollowed
CHECK_DEADLOCK FALSE
