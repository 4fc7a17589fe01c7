SPECIFICATION Spec
CONSTANTS
    u = u
    a = a
    b = b
    x = x
    Reserves = {u, a, b, x}
    Known = {u, a, b}
    Usdc = {u}
    HasUser = {u, a, b}
    HasCollateralUser = {u, a, b}
    Markets <- MCMarkets
    Layouts <- MCLayouts
    MaxWrites = 1
CHECK_DEADLOCK FALSE
INVARIANTS
    RefreshesAllReserves
