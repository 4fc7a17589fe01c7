SPECIFICATION FairSpec
CONSTANTS
    Endpoints = 1
    Workers = {w1, w2}
    ChanCap = 2
    MaxAge = 0
    Modulus = 4
    MaxCommands = 3
    MaxClock = 1
INVARIANTS
    Accounted
PROPERTIES
    NothingSentBehindADrop
    DeliverySpec
    EveryCommandSettled
CHECK_DEADLOCK FALSE
