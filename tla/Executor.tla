------------------------------- MODULE Executor -------------------------------
(***************************************************************************)
(* From Backend.Commit to the wire (backend/execute.go and                 *)
(* backend/tpu/tpu_proxy.go).                                              *)
(*                                                                         *)
(* The goroutine of Calculate commits: it builds a transaction and sends   *)
(* it to one buffered channel after the other, blocking on a full one: the *)
(* channel of the TPU proxy and one for each RPC endpoint.  ExecutorSize   *)
(* goroutines serve the channel of an endpoint; one goroutine serves that  *)
(* of the proxy and spawns another for each transaction.  Try is 0, so a   *)
(* transaction is sent once whatever the answer; simulate is always FALSE  *)
(* and sendTx is 3.                                                        *)
(*                                                                         *)
(* A command carries its Id, the wall clock when it was built; an executor *)
(* subtracts it from the wall clock, unsigned.  The clock may be set back. *)
(***************************************************************************)
EXTENDS Naturals, Sequences, FiniteSets

CONSTANTS
    Endpoints,     \* len(txChans)
    Workers,       \* the executors of an endpoint, ExecutorSize of them
    ChanCap,       \* capacity of every channel (1024)
    MaxAge,        \* 20 seconds
    Modulus,       \* uint64 arithmetic is modulo 2^64
    MaxCommands,   \* bound: transactions in a run
    MaxClock       \* bound: the last time of the clock

ASSUME EndpointsAssumption == Endpoints \in Nat
ASSUME WorkersAssumption == IsFiniteSet(Workers) /\ Workers # {}
ASSUME BoundsAssumption == ChanCap \in Nat \ {0} /\ MaxCommands \in Nat
ASSUME ClockAssumption ==
    MaxAge \in Nat /\ Modulus \in Nat /\ MaxClock \in Nat /\ MaxClock + MaxAge < Modulus

Tpu == 0
Destinations == 0..Endpoints
RpcEndpoints == 1..Endpoints
Commands == 1..MaxCommands
Idle == Endpoints + 1  \* no Commit is running
None == 0              \* no command

VARIABLES
    last,    \* the commands built so far are 1..last
    at,      \* the destination Commit is about to send the last one to
    chan,    \* the channels
    checks,  \* the command an executor took and has not checked, for each
    cleared, \* the command an executor found young enough, for each
    sends,   \* the command an executor waits for the answer of, for each
    flying,  \* commands of the goroutines spawned by the TPU proxy
    clock,   \* the wall clock
    ids,     \* the Id of each command
    shaken,  \* history: commands built before the clock was last set back
    outcome  \* history: "sent" or "dropped" for each destination and command

time == <<clock, ids, shaken>>
executorVars == <<last, at, chan, checks, cleared, sends, flying, time, outcome>>

-------------------------------------------------------------------------------
ExecutorInit ==
    /\ last = 0 /\ at = Idle
    /\ chan = [d \in Destinations |-> <<>>]
    /\ checks = [e \in RpcEndpoints |-> [w \in Workers |-> None]]
    /\ cleared = [e \in RpcEndpoints |-> [w \in Workers |-> None]]
    /\ sends = [e \in RpcEndpoints |-> [w \in Workers |-> None]]
    /\ flying = {}
    /\ clock = 0 /\ ids = [c \in Commands |-> 0] /\ shaken = 0
    /\ outcome = [d \in Destinations |-> [c \in Commands |-> "none"]]

\* liquidate stamps the command with the clock and calls Commit, up to the
\* first channel.  A transaction that cannot be built, or is too big, returns
\* without a trace.
Commit ==
    /\ at = Idle
    /\ last < MaxCommands
    /\ last' = last + 1
    /\ ids' = [ids EXCEPT ![last + 1] = clock]
    /\ at' = Tpu
    /\ UNCHANGED <<chan, checks, cleared, sends, flying, clock, shaken, outcome>>

\* A wrong variant of Push: a full channel is skipped, as with a default case.
Push_Default ==
    /\ at # Idle
    /\ chan' = IF Len(chan[at]) < ChanCap
                 THEN [chan EXCEPT ![at] = Append(@, last)] ELSE chan
    /\ at' = at + 1
    /\ UNCHANGED <<last, checks, cleared, sends, flying, time, outcome>>

\* A wrong variant of Push: the transaction is written to the connections
\* before Commit goes on, which waits for the one being written.
Push_Synchronous ==
    /\ at # Idle
    /\ Len(chan[at]) < ChanCap
    /\ at = Tpu => flying = {}
    /\ chan' = [chan EXCEPT ![at] = Append(@, last)]
    /\ at' = at + 1
    /\ UNCHANGED <<last, checks, cleared, sends, flying, time, outcome>>

\* transactions <- tx, txChans[i] <- command
Push ==
    /\ at # Idle
    /\ Len(chan[at]) < ChanCap
    /\ chan' = [chan EXCEPT ![at] = Append(@, last)]
    /\ at' = at + 1
    /\ UNCHANGED <<last, checks, cleared, sends, flying, time, outcome>>

-------------------------------------------------------------------------------
Free(e, w) == checks[e][w] = None /\ cleared[e][w] = None /\ sends[e][w] = None

\* A wrong variant of Take: the newest command first.
Take_Newest(e, w) ==
    /\ Free(e, w)
    /\ chan[e] # <<>>
    /\ checks' = [checks EXCEPT ![e][w] = chan[e][Len(chan[e])]]
    /\ chan' = [chan EXCEPT ![e] = SubSeq(@, 1, Len(@) - 1)]
    /\ UNCHANGED <<last, at, cleared, sends, flying, time, outcome>>

\* command := <-tx
Take(e, w) ==
    /\ Free(e, w)
    /\ chan[e] # <<>>
    /\ checks' = [checks EXCEPT ![e][w] = Head(chan[e])]
    /\ chan' = [chan EXCEPT ![e] = Tail(@)]
    /\ UNCHANGED <<last, at, cleared, sends, flying, time, outcome>>

\* uint64(tt)-command.Id > 20000000, which also holds of a command whose Id
\* the clock has not reached again: the difference is huge.
TooOld(c) ==
    (IF clock >= ids[c] THEN clock - ids[c] ELSE clock - ids[c] + Modulus) > MaxAge

Drop(e, w) ==
    /\ checks[e][w] # None
    /\ TooOld(checks[e][w])
    /\ outcome' = [outcome EXCEPT ![e][checks[e][w]] = "dropped"]
    /\ checks' = [checks EXCEPT ![e][w] = None]
    /\ UNCHANGED <<last, at, chan, cleared, sends, flying, time>>

\* A wrong variant of Clear: the age is logged but not acted upon.
Clear_Anyway(e, w) ==
    /\ checks[e][w] # None
    /\ cleared' = [cleared EXCEPT ![e][w] = checks[e][w]]
    /\ checks' = [checks EXCEPT ![e][w] = None]
    /\ UNCHANGED <<last, at, chan, sends, flying, time, outcome>>

\* It is not too old, and will be sent.
Clear(e, w) ==
    /\ checks[e][w] # None
    /\ ~TooOld(checks[e][w])
    /\ cleared' = [cleared EXCEPT ![e][w] = checks[e][w]]
    /\ checks' = [checks EXCEPT ![e][w] = None]
    /\ UNCHANGED <<last, at, chan, sends, flying, time, outcome>>

\* The call of SendTransactionWithOpts, any time later.
Send(e, w) ==
    /\ cleared[e][w] # None
    /\ outcome' = [outcome EXCEPT ![e][cleared[e][w]] = "sent"]
    /\ sends' = [sends EXCEPT ![e][w] = cleared[e][w]]
    /\ cleared' = [cleared EXCEPT ![e][w] = None]
    /\ UNCHANGED <<last, at, chan, checks, flying, time>>

\* Its answer, or its error: both are only logged.
Answer(e, w) ==
    /\ sends[e][w] # None
    /\ sends' = [sends EXCEPT ![e][w] = None]
    /\ UNCHANGED <<last, at, chan, checks, cleared, flying, time, outcome>>

-------------------------------------------------------------------------------
\* SendTransactions: go proxy.SendTransaction(tx, proxy.uuid)
Spawn ==
    /\ chan[Tpu] # <<>>
    /\ flying' = flying \cup {Head(chan[Tpu])}
    /\ chan' = [chan EXCEPT ![Tpu] = Tail(@)]
    /\ UNCHANGED <<last, at, checks, cleared, sends, time, outcome>>

\* SendTransaction writes 1 + 100 times, with pauses, to each connection it
\* finds, of which there may be none: one step, as nobody looks at the writes.
SendTransaction(c) ==
    /\ c \in flying
    /\ flying' = flying \ {c}
    /\ outcome' = [outcome EXCEPT ![Tpu][c] = "sent"]
    /\ UNCHANGED <<last, at, chan, checks, cleared, sends, time>>

Tick ==
    /\ clock < MaxClock
    /\ clock' = clock + 1
    /\ UNCHANGED <<last, at, chan, checks, cleared, sends, flying, ids, shaken, outcome>>

\* The machine sets its clock back.
SetBack ==
    /\ \E t \in 0..MaxClock : t < clock /\ clock' = t
    /\ shaken' = last
    /\ UNCHANGED <<last, at, chan, checks, cleared, sends, flying, ids, outcome>>

-------------------------------------------------------------------------------
ExecutorNext ==
    \/ Commit \/ Push \/ Spawn \/ Tick \/ SetBack
    \/ \E e \in RpcEndpoints, w \in Workers :
          Take(e, w) \/ Drop(e, w) \/ Clear(e, w) \/ Send(e, w) \/ Answer(e, w)
    \/ \E c \in Commands : SendTransaction(c)

ExecutorSpec == ExecutorInit /\ [][ExecutorNext]_executorVars

\* Goroutines run when they can, and the RPC client answers in the end: it
\* has a timeout.  Nothing makes Calculate commit again, or time pass.
Fairness ==
    /\ WF_executorVars(Push) /\ WF_executorVars(Spawn)
    /\ \A c \in Commands : WF_executorVars(SendTransaction(c))
    /\ \A e \in RpcEndpoints, w \in Workers :
          /\ WF_executorVars(Take(e, w)) /\ WF_executorVars(Drop(e, w) \/ Clear(e, w))
          /\ WF_executorVars(Send(e, w)) /\ WF_executorVars(Answer(e, w))

FairSpec == ExecutorSpec /\ Fairness

-------------------------------------------------------------------------------
ExecutorTypeOK ==
    /\ last \in 0..MaxCommands /\ at \in 0..Idle
    /\ chan \in [Destinations -> Seq(Commands)]
    /\ \A d \in Destinations : Len(chan[d]) <= ChanCap
    /\ checks \in [RpcEndpoints -> [Workers -> Commands \cup {None}]]
    /\ cleared \in [RpcEndpoints -> [Workers -> Commands \cup {None}]]
    /\ sends \in [RpcEndpoints -> [Workers -> Commands \cup {None}]]
    /\ flying \in SUBSET Commands
    /\ clock \in 0..MaxClock /\ ids \in [Commands -> 0..MaxClock] /\ shaken \in 0..MaxCommands
    /\ outcome \in [Destinations -> [Commands -> {"none", "sent", "dropped"}]]

\* An executor sends c, or is bound to.
Decided(e, c) == outcome[e][c] = "sent" \/ \E w \in Workers : cleared[e][w] = c

\* A command dropped by one executor closes the past, up to the last time the
\* clock was set back: no executor of any endpoint decides any more to send that
\* command, or one committed before it and since then.  (It may still send one
\* that it found young enough before.)  Of the commands committed before the
\* clock was set back the code drops fresh ones and may then send older ones.
NothingSentBehindADrop ==
    [][\A c \in Commands, e \in RpcEndpoints :
         outcome[e][c] = "dropped" =>
            \A f \in RpcEndpoints, b \in (shaken + 1)..c :
                Decided(f, b)' => Decided(f, b)]_executorVars

\* A destination that has a command c was given every command before c, and
\* every destination before it was given c too.
Given(c, d) == c < last \/ (c = last /\ d < at)

Queued(d) ==
    {c \in Commands :
        \/ \E i \in 1..Len(chan[d]) : chan[d][i] = c
        \/ d = Tpu /\ c \in flying
        \/ d # Tpu /\ \E w \in Workers : checks[d][w] = c \/ cleared[d][w] = c}

\* A command waits at a destination, or has its outcome there, exactly when
\* Commit has passed that destination: none is lost, kept after its end, or
\* known before its time.
Accounted ==
    \A d \in Destinations, c \in Commands :
        /\ Given(c, d) <=> c \in Queued(d) \/ outcome[d][c] # "none"
        /\ c \in Queued(d) => outcome[d][c] = "none"

-------------------------------------------------------------------------------
\* Where every command is, as TxDelivery sees it.
Status ==
    [d \in Destinations |-> [c \in Commands |->
        IF outcome[d][c] # "none" THEN outcome[d][c]
        ELSE IF c \in Queued(d) THEN "queued" ELSE "none"]]

\* The channels and the goroutines implement the delivery of TxDelivery.
Delivery == INSTANCE TxDelivery WITH
    ExecutorSize <- Cardinality(Workers), status <- Status

DeliverySpec == Delivery!Spec

\* Every command gets an outcome at every destination.
EveryCommandSettled ==
    \A d \in Destinations, c \in Commands : c <= last ~> outcome[d][c] # "none"
===============================================================================
