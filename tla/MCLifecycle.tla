----------------------------- MODULE MCLifecycle ------------------------------
EXTENDS Lifecycle, TLC

CONSTANTS r1, r2, r3, o1, o2, o3

MCOracleOf == (r1 :> o1) @@ (r2 :> o2) @@ (r3 :> o3)
===============================================================================
