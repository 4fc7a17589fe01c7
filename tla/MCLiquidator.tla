----------------------------- MODULE MCLiquidator -----------------------------
EXTENDS Liquidator, TLC

CONSTANTS o1, k1, w1

\* k1 borrows the token it deposits, and so its evaluation reads o1 twice.
MCUses == (k1 :> <<o1, o1>>)
===============================================================================
