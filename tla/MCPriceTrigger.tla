---------------------------- MODULE MCPriceTrigger ----------------------------
EXTENDS PriceTrigger, TLC

CONSTANTS o1, o2, k1, k2

\* k1 deposits one token and borrows the other; k2 reads one oracle twice.
MCUses == (k1 :> <<o1, o2>>) @@ (k2 :> <<o2, o2>>)
===============================================================================
