SPECIFICATION Spec
CONSTANTS
    k1 = k1
    r1 = r1
    m1 = m1
    Accounts = {k1, r1, m1}
    Kind <- MCKind
    None = None
    Rate = 2
    Window = 2
    MinFire = 1
    Modulus = 16
    MaxNow = 4
    MaxVersion = 1
INVARIANTS
    NoNilStatus
    IgnoreIsInformed
    RateLimit
PROPERTIES
    MapsFrozen
    NeverIgnoredAgain
    PassedOverWasHealthy
