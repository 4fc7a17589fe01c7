----------------------------- MODULE MCTpuProxy -------------------------------
EXTENDS TpuProxy

\* A leader has a few slots in a row.
MCLeaderOf == [s \in 0..(MaxSlot + 4 * Upcoming) |-> IF s < 6 THEN 1 ELSE 2]
===============================================================================
