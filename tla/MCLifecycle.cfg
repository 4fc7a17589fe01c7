SPECIFICATION FairSpec
CONSTANTS
    r1 = r1
    r2 = r2
    r3 = r3
    o1 = o1
    o2 = o2
    o3 = o3
    Reserves = {r1, r2, r3}
    Oracles = {o1, o2, o3}
    OracleOf <- MCOracleOf
    PriceAccounts = {o1, o2}
    PageSize = 2
    MaxUpdates = 1
INVARIANTS
    MemoryFollows
    AllPricesOrNone
    CleanStartHearsAll
PROPERTIES
    BrokenIsRestarted
    EveryUpdateHeard
