SPECIFICATION FairSpecAll
CONSTANTS
    o1 = o1
    k1 = k1
    w1 = w1
    Oracles = {o1}
    Obligations = {k1}
    Uses <- MCUses
    NoObligation = NoObligation
    PubCap = 1
    UpdCap = 1
    MaxVersion = 6
    Validities = {TRUE}
    Endpoints = 1
    Workers = {w1}
    ChanCap = 1
    MaxAge = 0
    Modulus = 4
    MaxCommands = 2
    MaxClock = 0
PROPERTIES
    EveryPriceConsideredWhileSending
    EveryAccountAppliedWhileSending
CHECK_DEADLOCK FALSE
