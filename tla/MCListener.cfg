SPECIFICATION FairSpec
CONSTANTS
    PageSize = 2
    ChanCap = 1
    MaxTx = 4
    MaxQuiet = 1
    MaxBlanks = 1
INVARIANTS
    Complete
    ToldOnce
PROPERTIES
    EveryLiquidationTold
    ExitsUnlessFull
CHECK_DEADLOCK FALSE
