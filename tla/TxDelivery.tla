------------------------------ MODULE TxDelivery ------------------------------
(***************************************************************************)
(* What committing a transaction promises (abstract specification; the     *)
(* channels and goroutines of backend/execute.go and backend/tpu implement *)
(* it).                                                                    *)
(*                                                                         *)
(* Transactions are numbered in the order of the commits.  Each is offered *)
(* once to each destination, the TPU (0) first and then the RPC endpoints  *)
(* in order, and all of that before the next transaction.  A destination   *)
(* sends an offered transaction once or, when it has become too old, never.*)
(* Transactions may overtake each other, but one endpoint never leaves     *)
(* ExecutorSize of them behind.                                            *)
(***************************************************************************)
EXTENDS Naturals, FiniteSets

CONSTANTS
    Endpoints,     \* number of RPC endpoints
    ExecutorSize,  \* goroutines for each of them
    MaxCommands    \* bound: transactions in a run

Tpu == 0
Destinations == 0..Endpoints
Commands == 1..MaxCommands

VARIABLE status  \* of each transaction at each destination

-------------------------------------------------------------------------------
Init == status = [d \in Destinations |-> [c \in Commands |-> "none"]]

Offer(c, d) ==
    /\ status[d][c] = "none"
    /\ \A e \in Destinations : e < d => status[e][c] # "none"
    /\ \A b \in Commands, e \in Destinations : b < c => status[e][b] # "none"
    /\ status' = [status EXCEPT ![d][c] = "queued"]

Left(c, d) == {b \in Commands : b < c /\ status[d][b] = "queued"}

Settle(c, d) ==
    /\ status[d][c] = "queued"
    /\ d # Tpu => Cardinality(Left(c, d)) < ExecutorSize
    /\ \/ status' = [status EXCEPT ![d][c] = "sent"]
       \/ /\ d # Tpu
          /\ status' = [status EXCEPT ![d][c] = "dropped"]

Next == \E c \in Commands, d \in Destinations : Offer(c, d) \/ Settle(c, d)

Spec == Init /\ [][Next]_status
===============================================================================
