----------------------------- MODULE PriceTrigger -----------------------------
(***************************************************************************)
(* How a price change reaches the calculation (backend/accountsubscribe.go,*)
(* pyth/program.go, solend/program.go).  One RecvAccount goroutine per     *)
(* oracle puts the accounts it receives on the pyth program's bounded      *)
(* updateAccountChan; the pyth worker applies each one to prices and then  *)
(* signals solend on the bounded channel `updated`; the Calculate          *)
(* goroutine takes one signal, drains the channel, and makes one pass over *)
(* all obligations, reading the prices as it goes.                         *)
(*                                                                         *)
(* A price is its version: 0 for an oracle whose account could not be      *)
(* loaded, 1 for the loaded account, and one more for each later account.  *)
(***************************************************************************)
EXTENDS Integers, Sequences

CONSTANTS
    Oracles,        \* the price accounts the reserves name
    Obligations,    \* the keys of p.obligations, fixed after Start
    Uses,           \* obligation -> the oracles its evaluation reads, in order
    NoObligation,   \* "the pass is between two obligations"
    PubCap,         \* capacity of pyth's updateAccountChan (1024)
    UpdCap,         \* capacity of solend's updated (1024)
    MaxVersion,     \* bound: the last version an oracle publishes
    Validities      \* what buildAccount may find: TRUE and FALSE, or less as a bound

ASSUME UsesAssumption == Uses \in [Obligations -> Seq(Oracles)]
ASSUME NoObligationAssumption == NoObligation \notin Obligations
ASSUME CapAssumption == PubCap \in Nat \ {0} /\ UpdCap \in Nat \ {0}
ASSUME VersionAssumption == MaxVersion \in Nat \ {0}
ASSUME ValidityAssumption == Validities \subseteq BOOLEAN

VARIABLES
    got,               \* oracle -> the account its RecvAccount received last
    recvPc,            \* oracle -> "recv" (in sub.Recv) or "send" (in OnAccountUpdate)
    updateAccountChan, \* accounts on their way to the pyth worker
    prices,            \* oracle -> version in p.prices
    pythPc,            \* "idle", "notify" (in cb.OnUpdate) or "exited"
    updated,           \* number of UpdateInfo in the channel
    calcPc,            \* "wait", "drain", "pass" or "visit"
    todo,              \* obligations the range loop has not reached
    cur,               \* the obligation being visited
    pos,               \* the next of Uses[cur] to read
    considered,        \* obligation -> oracle -> version last read or passed over
    cancelled          \* p.ctx is done

recvVars == <<got, recvPc>>
pythVars == <<prices, pythPc>>
calcVars == <<calcPc, todo, cur, pos, considered>>
vars == <<got, recvPc, updateAccountChan, prices, pythPc, updated,
          calcPc, todo, cur, pos, considered, cancelled>>

Nil == 0
Account == [key : Oracles, version : 0..MaxVersion, valid : BOOLEAN]

Subscribed == {o \in Oracles : prices[o] # Nil}

-------------------------------------------------------------------------------
\* After Start and Flash: the price accounts were loaded, some of them perhaps
\* in vain, and nothing has been calculated: Start signals no pass.
Init ==
    /\ prices \in [Oracles -> {Nil, 1}]
    /\ got = [o \in Oracles |-> [key |-> o, version |-> prices[o], valid |-> TRUE]]
    /\ recvPc = [o \in Oracles |-> "recv"]
    /\ updateAccountChan = <<>>
    /\ pythPc = "idle"
    /\ updated = 0
    /\ calcPc = "wait"
    /\ todo = {}
    /\ cur = NoObligation
    /\ pos = 1
    /\ considered = [k \in Obligations |-> [o \in Oracles |-> Nil]]
    /\ cancelled = FALSE

\* sub.Recv returns the next account of o; buildAccount may find it invalid.
RecvAccount(o) ==
    /\ o \in Subscribed
    /\ recvPc[o] = "recv"
    /\ got[o].version < MaxVersion
    /\ \E valid \in Validities :
          got' = [got EXCEPT ![o] = [key |-> o, version |-> @.version + 1, valid |-> valid]]
    /\ recvPc' = [recvPc EXCEPT ![o] = "send"]
    /\ UNCHANGED <<updateAccountChan, pythVars, updated, calcVars, cancelled>>

\* A wrong variant of OnAccountUpdate: it overtakes the accounts that wait.
OnAccountUpdate_Overtake(o) ==
    /\ recvPc[o] = "send"
    /\ Len(updateAccountChan) < PubCap
    /\ updateAccountChan' = <<got[o]>> \o updateAccountChan
    /\ recvPc' = [recvPc EXCEPT ![o] = "recv"]
    /\ UNCHANGED <<got, pythVars, updated, calcVars, cancelled>>

\* p.updateAccountChan <- account, which blocks while the channel is full.
OnAccountUpdate(o) ==
    /\ recvPc[o] = "send"
    /\ Len(updateAccountChan) < PubCap
    /\ updateAccountChan' = Append(updateAccountChan, got[o])
    /\ recvPc' = [recvPc EXCEPT ![o] = "recv"]
    /\ UNCHANGED <<got, pythVars, updated, calcVars, cancelled>>

\* The price an account leaves behind: an account that cannot be built is
\* ignored without an error, and so the old price stays.
BuiltPrice(account) ==
    IF account.valid THEN account.version ELSE prices[account.key]

\* A wrong variant of UpdateAccount: a price found unusable is not signalled.
UpdateAccount_Unsignalled ==
    /\ pythPc = "idle"
    /\ updateAccountChan # <<>>
    /\ updateAccountChan' = Tail(updateAccountChan)
    /\ LET account == Head(updateAccountChan) IN
          prices' = [prices EXCEPT ![account.key] = BuiltPrice(account)]
    /\ pythPc' \in {"idle", "notify"}
    /\ UNCHANGED <<recvVars, updated, calcVars, cancelled>>

\* The pyth worker takes an account of a known key and applies it; then it
\* calls the subscribers, whether the account could be built or not.
UpdateAccount ==
    /\ pythPc = "idle"
    /\ updateAccountChan # <<>>
    /\ updateAccountChan' = Tail(updateAccountChan)
    /\ LET account == Head(updateAccountChan) IN
          IF prices[account.key] = Nil
            THEN UNCHANGED <<prices, pythPc>>
            ELSE /\ prices' = [prices EXCEPT ![account.key] = BuiltPrice(account)]
                 /\ pythPc' = "notify"
    /\ UNCHANGED <<recvVars, updated, calcVars, cancelled>>

\* cb.OnUpdate: p.updated <- &UpdateInfo{}, which blocks while it is full.
OnUpdate ==
    /\ pythPc = "notify"
    /\ updated < UpdCap
    /\ updated' = updated + 1
    /\ pythPc' = "idle"
    /\ UNCHANGED <<recvVars, updateAccountChan, prices, calcVars, cancelled>>

\* select may take ctx.Done although accounts wait in the channel.
WorkerExit ==
    /\ cancelled
    /\ pythPc = "idle"
    /\ pythPc' = "exited"
    /\ UNCHANGED <<recvVars, updateAccountChan, prices, updated, calcVars, cancelled>>

Cancel ==
    /\ ~cancelled
    /\ cancelled' = TRUE
    /\ UNCHANGED <<recvVars, updateAccountChan, pythVars, updated, calcVars>>

-------------------------------------------------------------------------------
\* Calculate: the outer select takes one signal ...
TakeSignal ==
    /\ calcPc = "wait"
    /\ updated > 0
    /\ updated' = updated - 1
    /\ calcPc' = "drain"
    /\ UNCHANGED <<recvVars, updateAccountChan, pythVars, todo, cur, pos, considered, cancelled>>

\* ... the inner loop takes those that follow it ...
Drain ==
    /\ calcPc = "drain"
    /\ updated > 0
    /\ updated' = updated - 1
    /\ UNCHANGED <<recvVars, updateAccountChan, pythVars, calcVars, cancelled>>

\* ... and when it finds the channel empty the pass begins.
StartPass ==
    /\ calcPc = "drain"
    /\ updated = 0
    /\ calcPc' = "pass"
    /\ todo' = Obligations
    /\ UNCHANGED <<recvVars, updateAccountChan, pythVars, updated, cur, pos, considered, cancelled>>

\* The next obligation of the range over the map: any that is left.
Visit(k) ==
    /\ calcPc = "pass"
    /\ k \in todo
    /\ calcPc' = "visit"
    /\ todo' = todo \ {k}
    /\ cur' = k
    /\ pos' = 1
    /\ UNCHANGED <<recvVars, updateAccountChan, pythVars, updated, considered, cancelled>>

Leave ==
    /\ calcPc' = "pass"
    /\ cur' = NoObligation
    /\ pos' = 1

\* The evaluation of cur returns without reading further prices: its status
\* says so, it was fired at a moment ago, or a lookup failed.  Module
\* Obligations says when; here it counts as having looked at what is there.
ReturnEarly ==
    /\ calcPc = "visit"
    /\ considered' = [considered EXCEPT ![cur] = prices]
    /\ Leave
    /\ UNCHANGED <<recvVars, updateAccountChan, pythVars, updated, todo, cancelled>>

\* GetPrice for the next deposit or borrow; a price that was never loaded is
\* an error, which ends the evaluation (ReturnEarly).
GetPrice ==
    /\ calcPc = "visit"
    /\ pos <= Len(Uses[cur])
    /\ LET o == Uses[cur][pos] IN
          /\ prices[o] # Nil
          /\ considered' = [considered EXCEPT ![cur][o] = prices[o]]
    /\ pos' = pos + 1
    /\ UNCHANGED <<recvVars, updateAccountChan, pythVars, updated, calcPc, todo, cur, cancelled>>

\* Every price was read; the rest of the evaluation reads none.
EndVisit ==
    /\ calcPc = "visit"
    /\ pos > Len(Uses[cur])
    /\ Leave
    /\ UNCHANGED <<recvVars, updateAccountChan, pythVars, updated, todo, considered, cancelled>>

\* A wrong variant of EndPass: the channel is drained after the pass.
EndPass_DrainsAfter ==
    /\ calcPc = "pass"
    /\ todo = {}
    /\ calcPc' = "wait"
    /\ updated' = 0
    /\ UNCHANGED <<recvVars, updateAccountChan, pythVars, todo, cur, pos, considered, cancelled>>

EndPass ==
    /\ calcPc = "pass"
    /\ todo = {}
    /\ calcPc' = "wait"
    /\ UNCHANGED <<recvVars, updateAccountChan, pythVars, updated, todo, cur, pos, considered, cancelled>>

-------------------------------------------------------------------------------
Receiver == \E o \in Oracles : RecvAccount(o) \/ OnAccountUpdate(o)
PythWorker == UpdateAccount \/ OnUpdate \/ WorkerExit
Calculate ==
    \/ TakeSignal \/ Drain \/ StartPass
    \/ \E k \in Obligations : Visit(k)
    \/ ReturnEarly \/ GetPrice \/ EndVisit \/ EndPass

Next == Receiver \/ PythWorker \/ Calculate \/ Cancel

Spec == Init /\ [][Next]_vars

-------------------------------------------------------------------------------
TypeOK ==
    /\ got \in [Oracles -> Account]
    /\ recvPc \in [Oracles -> {"recv", "send"}]
    /\ updateAccountChan \in Seq(Account)
    /\ Len(updateAccountChan) <= PubCap
    /\ prices \in [Oracles -> 0..MaxVersion]
    /\ pythPc \in {"idle", "notify", "exited"}
    /\ updated \in 0..UpdCap
    /\ calcPc \in {"wait", "drain", "pass", "visit"}
    /\ todo \in SUBSET Obligations
    /\ cur \in Obligations \cup {NoObligation}
    /\ calcPc = "visit" => cur \in Obligations
    /\ pos \in Nat \ {0}
    /\ considered \in [Obligations -> [Oracles -> 0..MaxVersion]]
    /\ cancelled \in BOOLEAN

\* A pass that has not begun yet is certain to begin.
Signalled == pythPc = "notify" \/ updated > 0 \/ calcPc = "drain"

\* The prices k was last evaluated with are the prices in force.
Current(k) ==
    \A i \in 1..Len(Uses[k]) : considered[k][Uses[k][i]] = prices[Uses[k][i]]

\* The pass under way has still to reach the prices of k that changed.
Owed(k) ==
    \/ k \in todo
    \/ /\ calcPc = "visit"
       /\ cur = k
       /\ \A i \in 1..Len(Uses[k]) :
             i < pos => considered[k][Uses[k][i]] = prices[Uses[k][i]]

\* Since Start some price account was applied.
Updated == \E o \in Oracles : prices[o] > 1

\* No price change is lost between the pyth worker and Calculate: once a
\* price was applied, an obligation was evaluated with the prices in force,
\* or the pass under way will still read them, or a later pass is certain.
\* This is what draining `updated` BEFORE calculating has to preserve.
NoLostUpdate == Updated => \A k \in Obligations : Current(k) \/ Signalled \/ Owed(k)

\* Accounts of one oracle are applied in the order they were received, and no
\* obligation is ever evaluated with an older price than before.
NoRegress ==
    [][\A o \in Oracles : /\ prices'[o] >= prices[o]
                          /\ \A k \in Obligations : considered'[k][o] >= considered[k][o]]_vars

\* PriceTrigger implements CoalescedTrigger: the flag is up while a signal is
\* in flight, and an obligation is finished when its visit ends.
CT == INSTANCE CoalescedTrigger
        WITH dirty <- Signalled,
             passing <- calcPc \in {"pass", "visit"},
             todo <- IF calcPc = "visit" THEN todo \cup {cur} ELSE todo

CTSpec == CT!Spec
===============================================================================
