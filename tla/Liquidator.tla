------------------------------ MODULE Liquidator ------------------------------
(***************************************************************************)
(* The price pipeline and the delivery of transactions, which share the    *)
(* goroutine of Calculate: the evaluation of an obligation that is found   *)
(* unhealthy ends in liquidate (solend/program.go), which commits up to    *)
(* two transactions, and Commit waits for room in the channel of every     *)
(* destination.  While it waits no signal is taken, and so the pyth worker *)
(* and the receivers of the accounts come to wait as well.                 *)
(*                                                                         *)
(* One context ends both: an executor that is free may leave when it is    *)
(* done, and Commit may then wait forever.                                 *)
(***************************************************************************)
EXTENDS PriceTrigger, Executor

VARIABLE commits  \* Commits of the visit under way

allVars == <<vars, executorVars, commits>>
CommitsPerVisit == 2

InitAll == Init /\ ExecutorInit /\ commits = 0

\* Receivers, the pyth worker and the end of the context.
FeedStep ==
    /\ Receiver \/ PythWorker \/ Cancel
    /\ UNCHANGED <<executorVars, commits>>

\* Calculate goes on when no Commit is under way.  Once it committed, all
\* that is left of the visit is its end, with or without an error.
CalculateStep ==
    /\ at = Idle
    /\ Calculate
    /\ commits > 0 => calcPc' = "pass"
    /\ commits' = IF calcPc' = "visit" THEN commits ELSE 0
    /\ UNCHANGED executorVars

\* liquidate commits: every price of the obligation was read.
Fire ==
    /\ calcPc = "visit"
    /\ pos > Len(Uses[cur])
    /\ commits < CommitsPerVisit
    /\ Commit
    /\ commits' = commits + 1
    /\ UNCHANGED vars

DeliveryStep ==
    /\ ExecutorNext /\ ~Commit
    /\ UNCHANGED <<vars, commits>>

NextAll == FeedStep \/ CalculateStep \/ Fire \/ DeliveryStep

SpecAll == InitAll /\ [][NextAll]_allVars

\* As in PriceTrigger and Executor; but the executors serve their channels
\* only until the context is done.
Serve(e, w) ==
    /\ ~cancelled
    /\ Take(e, w) \/ Drop(e, w) \/ Clear(e, w) \/ Send(e, w) \/ Answer(e, w)

FairSpecAll ==
    /\ SpecAll
    /\ \A o \in Oracles : WF_allVars(OnAccountUpdate(o) /\ UNCHANGED <<executorVars, commits>>)
    /\ WF_allVars(PythWorker /\ UNCHANGED <<executorVars, commits>>)
    /\ WF_allVars(CalculateStep)
    /\ WF_allVars(Push /\ UNCHANGED <<vars, commits>>)
    /\ WF_allVars(Spawn /\ UNCHANGED <<vars, commits>>)
    /\ \A e \in RpcEndpoints, w \in Workers :
          WF_allVars(Serve(e, w) /\ UNCHANGED <<vars, commits>>)

-------------------------------------------------------------------------------
\* Back-pressure delays a price and loses none: whatever Calculate commits
\* meanwhile, and however long the channels stay full, a price that was
\* applied is considered for every obligation that uses it, until the context
\* is done.
EveryPriceConsideredWhileSending ==
    \A k \in Obligations, o \in Oracles, v \in 2..MaxVersion :
        (\E i \in 1..Len(Uses[k]) : Uses[k][i] = o) =>
            (prices[o] >= v ~> considered[k][o] >= v \/ cancelled)

\* The receivers that come to wait behind a Commit deliver in the end every
\* valid account they took: it reaches prices, until the context is done.
EveryAccountAppliedWhileSending ==
    \A o \in Oracles, v \in 2..MaxVersion :
        (got[o].version = v /\ got[o].valid) ~> (prices[o] >= v \/ cancelled)
===============================================================================
