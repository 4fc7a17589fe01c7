SPECIFICATION Spec
CONSTANTS
    o1 = o1
    o2 = o2
    k1 = k1
    k2 = k2
    Oracles = {o1, o2}
    Obligations = {k1, k2}
    Uses <- MCUses
    NoObligation = NoObligation
    PubCap = 2
    UpdCap = 1
    MaxVersion = 3
    Validities = {TRUE, FALSE}
INVARIANTS
    NoLostUpdate
PROPERTIES
    NoRegress
    CTSpec
CHECK_DEADLOCK FALSE
