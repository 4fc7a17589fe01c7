------------------------------- MODULE Listener -------------------------------
(***************************************************************************)
(* The notifier of liquidations (liquidatelistener/main.go).  Every tick,  *)
(* the poller pages back through the transactions of Solend until it meets *)
(* Position, the newest transaction it knew; asks for the details of those *)
(* whose page does not tell what they are; and puts the liquidations on    *)
(* obligationChan, from which the notifier reports them one by one.        *)
(*                                                                         *)
(* A transaction is its place in the history of Solend, 0 is none.  Lists  *)
(* that the code keeps from the newest to the oldest are sets.             *)
(***************************************************************************)
EXTENDS Integers, Sequences, FiniteSetsExt

CONSTANTS
    PageSize,   \* transactions of a page
    ChanCap,    \* capacity of obligationChan (1024)
    MaxTx,      \* bound: transactions of a run
    MaxQuiet,   \* bound: those of them that are no liquidations
    MaxBlanks   \* bound: 200 answers without the page or the detail that was asked for

ASSUME SizeAssumption == PageSize \in Nat \ {0} /\ ChanCap \in Nat \ {0}
ASSUME BoundsAssumption == MaxTx \in Nat /\ MaxQuiet \in Nat /\ MaxBlanks \in Nat

\* What a transaction shows: a liquidation; an unknown instruction with or
\* without a liquidation inside; neither, or it failed.
Kinds == {"direct", "inner", "unknown", "other"}
Liquidates(kind) == kind \in {"direct", "inner"}

VARIABLES
    chain,     \* the kinds of the transactions so far
    Position,  \* the newest transaction of the last poll
    pc,        \* the poller: "wait", "page", "filter", "report", "exited", "dead"
    before,    \* the oldest transaction of the last page
    transactions, \* collected in this poll
    notSure,   \* those whose details are still to be asked for
    direct, inner, \* the liquidations to be queued: these first, then those
    obligationChan,
    notifier,  \* "run", "exited", "dead"
    cancelled, \* a signal has cancelled the context
    told,      \* history: what was reported, in order
    since,     \* history: the first Position
    skipped,   \* history: passed over behind a blank page, or asked for and not told
    blanks     \* blank answers so far

pollVars == <<Position, pc, before, transactions, notSure, direct, inner, since, skipped, blanks>>
vars == <<chain, pollVars, obligationChan, notifier, cancelled, told>>

\* The page of the newest transactions before b, or of the newest of all.
Page(b) ==
    LET newest == IF b = 0 THEN Len(chain) ELSE b - 1
    IN {t \in 1..newest : t > newest - PageSize}

-------------------------------------------------------------------------------
Init ==
    /\ chain = <<>>
    /\ Position = 0 /\ pc = "wait" /\ before = 0 /\ transactions = {}
    /\ notSure = {} /\ direct = {} /\ inner = {}
    /\ obligationChan = <<>> /\ notifier = "run" /\ cancelled = FALSE
    /\ told = <<>> /\ since = 0 /\ skipped = {} /\ blanks = 0

\* Somebody uses Solend.
ChainGrows(kind) ==
    /\ Len(chain) < MaxTx
    /\ Liquidates(kind) \/ Len(SelectSeq(chain, LAMBDA k : ~Liquidates(k))) < MaxQuiet
    /\ chain' = Append(chain, kind)
    /\ UNCHANGED <<pollVars, obligationChan, notifier, cancelled, told>>

Tick ==
    /\ pc = "wait"
    /\ pc' = "page"
    /\ before' = 0 /\ transactions' = {}
    /\ UNCHANGED <<chain, Position, notSure, direct, inner, since, skipped, blanks,
                   obligationChan, notifier, cancelled, told>>

\* An empty page ends the search.  With a 200 answer whose Success nobody
\* looks at, the page is empty although there are older transactions.
EmptyPage ==
    /\ pc = "page"
    /\ \/ Page(before) = {} /\ UNCHANGED <<skipped, blanks>>
       \/ /\ blanks < MaxBlanks
          /\ blanks' = blanks + 1
          /\ skipped' = skipped \cup (Position + 1)..(before - 1)
    /\ pc' = "filter"
    /\ UNCHANGED <<chain, Position, before, transactions, notSure, direct, inner, since,
                   obligationChan, notifier, cancelled, told>>

\* A wrong variant of CollectPage: Position itself is collected again.
CollectPage_Inclusive ==
    LET txs == Page(before) IN
    /\ pc = "page" /\ txs # {}
    /\ transactions' =
         IF Position = 0 THEN {Max(txs)}
         ELSE transactions \cup {t \in txs : Position \in txs => t >= Position}
    /\ pc' = IF Position = 0 \/ Position \in txs THEN "filter" ELSE "page"
    /\ before' = Min(txs)
    /\ UNCHANGED <<chain, Position, notSure, direct, inner, since, skipped, blanks,
                   obligationChan, notifier, cancelled, told>>

\* The first poll takes the newest transaction only; another one takes what is
\* newer than Position and goes on unless it met Position.
CollectPage ==
    LET txs == Page(before) IN
    /\ pc = "page" /\ txs # {}
    /\ transactions' =
         IF Position = 0 THEN {Max(txs)}
         ELSE transactions \cup {t \in txs : Position \in txs => t > Position}
    /\ pc' = IF Position = 0 \/ Position \in txs THEN "filter" ELSE "page"
    /\ before' = Min(txs)
    /\ UNCHANGED <<chain, Position, notSure, direct, inner, since, skipped, blanks,
                   obligationChan, notifier, cancelled, told>>

\* A wrong variant of NewPosition: the oldest transaction collected.
NewPosition_Oldest == Min(transactions)
NewPosition == Max(transactions)

\* Position moves before the details are known.
Filter ==
    /\ pc = "filter"
    /\ IF transactions = {}
         THEN /\ pc' = "wait"
              /\ UNCHANGED <<Position, since, direct, notSure>>
         ELSE /\ pc' = "report"
              /\ Position' = NewPosition
              /\ since' = IF Position = 0 THEN Position' ELSE since
              /\ direct' = {t \in transactions : chain[t] = "direct"}
              /\ notSure' = {t \in transactions : chain[t] \in {"inner", "unknown"}}
    /\ UNCHANGED <<chain, before, transactions, inner, skipped, blanks,
                   obligationChan, notifier, cancelled, told>>

\* GetTransactionDetail returns what the transaction did.
GetDetail ==
    /\ pc = "report" /\ notSure # {}
    /\ LET t == Max(notSure) IN
         /\ notSure' = notSure \ {t}
         /\ inner' = IF chain[t] = "inner" THEN inner \cup {t} ELSE inner
    /\ UNCHANGED <<chain, Position, pc, before, transactions, direct, since, skipped, blanks,
                   obligationChan, notifier, cancelled, told>>

\* The answer is a 200 without the detail: it has no inner instructions, which
\* nobody can tell from those of a transaction that liquidates nothing.
BlankDetail ==
    /\ pc = "report" /\ notSure # {}
    /\ blanks < MaxBlanks
    /\ blanks' = blanks + 1
    /\ LET t == Max(notSure) IN
         /\ notSure' = notSure \ {t}
         /\ skipped' = skipped \cup {t}
    /\ UNCHANGED <<chain, Position, pc, before, transactions, direct, inner, since,
                   obligationChan, notifier, cancelled, told>>

\* A wrong variant of Push: a full channel is skipped.
Push_Default ==
    /\ pc = "report" /\ notSure = {} /\ direct \cup inner # {}
    /\ LET t == Max(IF direct # {} THEN direct ELSE inner) IN
         /\ obligationChan' = IF Len(obligationChan) < ChanCap
                                THEN Append(obligationChan, t) ELSE obligationChan
         /\ direct' = direct \ {t} /\ inner' = inner \ {t}
    /\ UNCHANGED <<chain, Position, pc, before, transactions, notSure, since, skipped, blanks,
                   notifier, cancelled, told>>

\* obligationChan <- tx
Push ==
    /\ pc = "report" /\ notSure = {} /\ direct \cup inner # {}
    /\ Len(obligationChan) < ChanCap
    /\ LET t == Max(IF direct # {} THEN direct ELSE inner) IN
         /\ obligationChan' = Append(obligationChan, t)
         /\ direct' = direct \ {t} /\ inner' = inner \ {t}
    /\ UNCHANGED <<chain, Position, pc, before, transactions, notSure, since, skipped, blanks,
                   notifier, cancelled, told>>

EndPoll ==
    /\ pc = "report" /\ notSure \cup direct \cup inner = {}
    /\ pc' = "wait"
    /\ UNCHANGED <<chain, Position, before, transactions, notSure, direct, inner, since, skipped,
                   blanks, obligationChan, notifier, cancelled, told>>

\* A request fails: the panic ends the program, and what it had found is lost.
Panic ==
    /\ pc = "page" \/ (pc = "report" /\ notSure # {})
    /\ pc' = "dead" /\ notifier' = "dead"
    /\ UNCHANGED <<chain, Position, before, transactions, notSure, direct, inner, since, skipped,
                   blanks, obligationChan, cancelled, told>>

\* Notify, whose error nobody looks at.
Notify ==
    /\ notifier = "run"
    /\ obligationChan # <<>>
    /\ told' = Append(told, Head(obligationChan))
    /\ obligationChan' = Tail(obligationChan)
    /\ UNCHANGED <<chain, pollVars, notifier, cancelled>>

\* shutdown
Cancel ==
    /\ ~cancelled
    /\ cancelled' = TRUE
    /\ UNCHANGED <<chain, pollVars, obligationChan, notifier, told>>

\* A wrong variant of PollerExit: it waits for the queue to be drained.
PollerExit_Drained ==
    /\ cancelled /\ pc = "wait" /\ obligationChan = <<>>
    /\ pc' = "exited"
    /\ UNCHANGED <<chain, Position, before, transactions, notSure, direct, inner, since, skipped,
                   blanks, obligationChan, notifier, cancelled, told>>

PollerExit ==
    /\ cancelled /\ pc = "wait"
    /\ pc' = "exited"
    /\ UNCHANGED <<chain, Position, before, transactions, notSure, direct, inner, since, skipped,
                   blanks, obligationChan, notifier, cancelled, told>>

NotifierExit ==
    /\ cancelled /\ notifier = "run"
    /\ notifier' = "exited"
    /\ UNCHANGED <<chain, pollVars, obligationChan, cancelled, told>>

-------------------------------------------------------------------------------
Poll == Tick \/ EmptyPage \/ CollectPage \/ Filter \/ GetDetail \/ BlankDetail \/ Push \/ EndPoll

Next ==
    \/ \E kind \in Kinds : ChainGrows(kind)
    \/ Poll \/ Panic \/ Notify
    \/ Cancel \/ PollerExit \/ NotifierExit

Spec == Init /\ [][Next]_vars

\* The ticker ticks, and the requests return (the explorer's part: the client
\* has no timeout).  select takes a ready case at random, so that neither
\* goroutine overlooks the cancellation for ever.
FairSpec ==
    /\ Spec
    /\ WF_vars(Poll) /\ WF_vars(Notify)
    /\ SF_vars(PollerExit) /\ SF_vars(NotifierExit)

-------------------------------------------------------------------------------
Transactions == 1..MaxTx

TypeOK ==
    /\ chain \in Seq(Kinds) /\ Len(chain) <= MaxTx
    /\ Position \in 0..MaxTx /\ since \in 0..MaxTx /\ before \in 0..MaxTx
    /\ pc \in {"wait", "page", "filter", "report", "exited", "dead"}
    /\ transactions \in SUBSET Transactions /\ notSure \in SUBSET Transactions
    /\ direct \in SUBSET Transactions /\ inner \in SUBSET Transactions
    /\ obligationChan \in Seq(Transactions) /\ Len(obligationChan) <= ChanCap
    /\ told \in Seq(Transactions) /\ skipped \in SUBSET Transactions
    /\ notifier \in {"run", "exited", "dead"} /\ cancelled \in BOOLEAN
    /\ blanks \in 0..MaxBlanks

IsLiquidation(t) == Liquidates(chain[t])

\* The transactions of a sequence.
In(q) == {q[i] : i \in 1..Len(q)}

\* However the history grows between two pages, the liquidations since the
\* first Position are exactly those that were reported, are queued, or are at
\* hand; but for the ones that a blank answer hides: those behind the page, or
\* the one whose detail was asked for.
Complete ==
    Position # 0 =>
        {t \in since..Position : IsLiquidation(t)} \ skipped
          = In(told) \cup In(obligationChan) \cup direct \cup inner
              \cup {t \in notSure : IsLiquidation(t)}

\* None of them is reported twice.
ToldOnce ==
    /\ \A i, j \in 1..Len(told) : told[i] = told[j] => i = j
    /\ \A i, j \in 1..Len(obligationChan) : obligationChan[i] = obligationChan[j] => i = j
    /\ In(told) \cap In(obligationChan) = {}
    /\ (In(told) \cup In(obligationChan)) \cap (direct \cup inner \cup notSure) = {}

\* A liquidation after the first Position is reported, unless the program ends
\* or a blank answer hides it (a page, or its own detail).
EveryLiquidationTold ==
    \A t \in Transactions :
        since # 0 /\ t \in since..Len(chain) /\ IsLiquidation(t)
          ~> t \in In(told) \cup skipped \/ cancelled \/ pc = "dead"

\* After a signal both goroutines end, and with them main; except that the
\* poller waits for ever when the notifier has left a full channel behind.
ExitsUnlessFull ==
    cancelled ~> \/ pc \in {"exited", "dead"} /\ notifier # "run"
                 \/ Len(obligationChan) = ChanCap /\ notifier = "exited" /\ pc = "report"
===============================================================================
