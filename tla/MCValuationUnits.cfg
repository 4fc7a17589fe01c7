SPECIFICATION Spec
CONSTANTS
    ru = ru
    ra = ra
    rb = rb
    rx = rx
    Reserves = {ru, ra, rb, rx}
    Data <- MCData
    Accounts <- MCAccounts
    Prices = {1, 2}
    Threshold = 1
    Modulus = 64
    Scale = 10
CHECK_DEADLOCK FALSE
INVARIANTS
    WorthTheThreshold
