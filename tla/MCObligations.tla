----------------------------- MODULE MCObligations ----------------------------
EXTENDS Obligations

CONSTANTS k1, r1, m1

MCKind == [k \in Accounts |-> CASE k = r1 -> "reserve"
                                [] k = m1 -> "other"
                                [] OTHER  -> "obligation"]
===============================================================================
