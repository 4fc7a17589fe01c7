--------------------------- MODULE CoalescedTrigger ---------------------------
(***************************************************************************)
(* What the path from a price account to the calculation promises, without *)
(* its channels: a board of prices, one dirty flag, and passes that look   *)
(* at every obligation.  A pass may start only while the flag is up, and   *)
(* the flag may stay up after the start (a change can slip in while the    *)
(* pass starts), which costs at most one pass too many.  The detailed      *)
(* module PriceTrigger implements this one.                                *)
(***************************************************************************)
EXTENDS Integers, Sequences

CONSTANTS
    Oracles,      \* the price accounts the reserves name
    Obligations,  \* the obligations the bot watches
    Uses,         \* obligation -> the oracles its evaluation reads, in order
    MaxVersion    \* the last version of a price

VARIABLES
    prices,      \* oracle -> version of its price, 0 when it was never loaded
    considered,  \* obligation -> oracle -> version of the last price looked at
    dirty,       \* a pass is owed
    passing,     \* a pass is under way
    todo         \* obligations the pass under way has still to finish

vars == <<prices, considered, dirty, passing, todo>>

Init ==
    /\ prices \in [Oracles -> {0, 1}]
    /\ considered = [k \in Obligations |-> [o \in Oracles |-> 0]]
    /\ dirty = FALSE
    /\ passing = FALSE
    /\ todo = {}

\* A price account is applied: its price may change, and a pass is owed.
Publish(o) ==
    /\ \E v \in prices[o]..MaxVersion : prices' = [prices EXCEPT ![o] = v]
    /\ dirty' = TRUE
    /\ UNCHANGED <<considered, passing, todo>>

StartPass ==
    /\ dirty /\ ~passing
    /\ dirty' \in BOOLEAN
    /\ passing' = TRUE
    /\ todo' = Obligations
    /\ UNCHANGED <<prices, considered>>

\* What obligation k has seen after a look at the prices of the oracles in S.
SeenAfter(k, S) ==
    [o \in Oracles |-> IF o \in S THEN prices[o] ELSE considered[k][o]]

\* The pass looks at some of the prices of an obligation it has not finished.
Look(k, S) ==
    /\ passing /\ k \in todo
    /\ considered' = [considered EXCEPT ![k] = SeenAfter(k, S)]
    /\ UNCHANGED <<prices, dirty, passing, todo>>

\* A last look finishes an obligation: every oracle it uses was looked at
\* since its price changed last, unless that change raised the flag again.
Finish(k, S) ==
    /\ passing /\ k \in todo
    /\ \/ dirty
       \/ \A i \in 1..Len(Uses[k]) : SeenAfter(k, S)[Uses[k][i]] = prices[Uses[k][i]]
    /\ considered' = [considered EXCEPT ![k] = SeenAfter(k, S)]
    /\ todo' = todo \ {k}
    /\ UNCHANGED <<prices, dirty, passing>>

EndPass ==
    /\ passing /\ todo = {}
    /\ passing' = FALSE
    /\ UNCHANGED <<prices, considered, dirty, todo>>

Next ==
    \/ \E o \in Oracles : Publish(o)
    \/ StartPass
    \/ \E k \in Obligations, S \in SUBSET Oracles : Look(k, S) \/ Finish(k, S)
    \/ EndPass

Spec == Init /\ [][Next]_vars
===============================================================================
