--------------------------- MODULE LiquidatorProofs ---------------------------
(***************************************************************************)
(* TLAPS proofs about the price pipeline (PriceTrigger), the delivery of   *)
(* transactions (Executor), and their composition (Liquidator).            *)
(*                                                                         *)
(* Each component is proved by itself first, for all its constants, and    *)
(* implements its abstract specification.  The composition is then shown   *)
(* to be a behaviour of both components, and inherits what they promise.   *)
(***************************************************************************)
EXTENDS Liquidator, FiniteSetTheorems, TLAPS

-------------------------------------------------------------------------------
(***************************************************************************)
(* The price pipeline: its type invariant, that no price update is lost,   *)
(* that prices never regress, and that it implements CoalescedTrigger.     *)
(***************************************************************************)
\* What k looked at among the first n - 1 oracles it uses is in force.
CurrentBelow(k, n) ==
    \A i \in 1..Len(Uses[k]) : i < n => considered[k][Uses[k][i]] = prices[Uses[k][i]]

\* The visit under way has seen the prices in force up to pos, unless a
\* change was signalled behind its back.
VisitInv == calcPc = "visit" => Signalled \/ CurrentBelow(cur, pos)

\* The accounts of an oracle are on their way in the order they were received.
Ordered ==
    /\ \A o \in Oracles : got[o].key = o /\ prices[o] <= got[o].version
    /\ \A i \in 1..Len(updateAccountChan) :
          /\ prices[updateAccountChan[i].key] <= updateAccountChan[i].version
          /\ updateAccountChan[i].version <= got[updateAccountChan[i].key].version
    /\ \A i, j \in 1..Len(updateAccountChan) :
          i < j /\ updateAccountChan[i].key = updateAccountChan[j].key
            => updateAccountChan[i].version <= updateAccountChan[j].version

\* No obligation was considered with a price that is not there yet.
SeenInv == \A k \in Obligations, o \in Oracles : considered[k][o] <= prices[o]

\* The range loop visits an obligation once in a pass.
CurInv == calcPc = "visit" => cur \notin todo

IInv == TypeOK /\ CurInv /\ VisitInv /\ NoLostUpdate /\ Ordered /\ SeenInv

-------------------------------------------------------------------------------
\* Tail keeps the elements of a nonempty sequence but the first.
LEMMA TailFacts ==
    ASSUME NEW S, NEW q \in Seq(S), q # <<>>
    PROVE  /\ Tail(q) \in Seq(S)
           /\ Len(Tail(q)) = Len(q) - 1
           /\ \A i \in 1..Len(Tail(q)) : Tail(q)[i] = q[i + 1]
           /\ Head(q) = q[1] /\ q[1] \in S
           /\ Len(q) \in Nat \ {0}
  OBVIOUS

\* Append adds its element after those that were there.
LEMMA AppendFacts ==
    ASSUME NEW S, NEW q \in Seq(S), NEW e \in S
    PROVE  /\ Append(q, e) \in Seq(S)
           /\ Len(Append(q, e)) = Len(q) + 1
           /\ \A i \in 1..Len(q) : Append(q, e)[i] = q[i]
           /\ Append(q, e)[Len(q) + 1] = e
           /\ Len(q) \in Nat
  OBVIOUS

\* The elements of a sequence.
LEMMA ElementFacts ==
    ASSUME NEW S, NEW q \in Seq(S)
    PROVE  Len(q) \in Nat /\ \A i \in 1..Len(q) : q[i] \in S
  OBVIOUS

\* The fields of an account on its way.
LEMMA AccountFacts ==
    ASSUME NEW a \in Account
    PROVE  a.key \in Oracles /\ a.version \in Int
  BY VersionAssumption DEF Account

\* The oracles an obligation uses are oracles.
LEMMA UsesTyped ==
    ASSUME NEW k \in Obligations
    PROVE  /\ Uses[k] \in Seq(Oracles)
           /\ Len(Uses[k]) \in Nat
           /\ \A i \in 1..Len(Uses[k]) : Uses[k][i] \in Oracles
  BY UsesAssumption

-------------------------------------------------------------------------------
\* The initial states satisfy the type invariant.
LEMMA InitTyped == Init => TypeOK
<1> SUFFICES ASSUME Init PROVE TypeOK
  OBVIOUS
<1>1. prices \in [Oracles -> 0..MaxVersion]
  BY VersionAssumption DEF Init, Nil
<1>2. \A o \in Oracles : [key |-> o, version |-> prices[o], valid |-> TRUE] \in Account
  BY <1>1 DEF Account
<1>3. got \in [Oracles -> Account]
  BY <1>2 DEF Init
<1>4. considered \in [Obligations -> [Oracles -> 0..MaxVersion]]
  BY VersionAssumption DEF Init, Nil
<1>5. /\ recvPc \in [Oracles -> {"recv", "send"}]
      /\ updateAccountChan \in Seq(Account) /\ Len(updateAccountChan) <= PubCap
  BY CapAssumption DEF Init
<1>6. /\ pythPc \in {"idle", "notify", "exited"}
      /\ calcPc \in {"wait", "drain", "pass", "visit"} /\ calcPc # "visit"
  BY DEF Init
<1>7. updated \in 0..UpdCap /\ pos \in Nat \ {0}
  BY CapAssumption DEF Init
<1>8. /\ todo \in SUBSET Obligations /\ cur \in Obligations \cup {NoObligation}
      /\ cancelled \in BOOLEAN
  BY DEF Init
<1> QED
  BY <1>1, <1>3, <1>4, <1>5, <1>6, <1>7, <1>8 DEF TypeOK

\* Every step keeps the type invariant.
LEMMA NextTyped == TypeOK /\ [Next]_vars => TypeOK'
<1> SUFFICES ASSUME TypeOK, [Next]_vars PROVE TypeOK'
  OBVIOUS
<1> USE CapAssumption, VersionAssumption, ValidityAssumption DEF TypeOK
<1>1. CASE Receiver
  <2>1. ASSUME NEW o \in Oracles, RecvAccount(o) PROVE TypeOK'
    <3>1. PICK valid \in Validities : got' = [got EXCEPT ![o] =
                         [key |-> o, version |-> @.version + 1, valid |-> valid]]
      BY <2>1 DEF RecvAccount
    <3>2. got[o].version \in 0..MaxVersion /\ got[o].version < MaxVersion
      BY <2>1 DEF RecvAccount, Account
    <3>3. [key |-> o, version |-> got[o].version + 1, valid |-> valid] \in Account
      BY <3>2 DEF Account
    <3>4. got' \in [Oracles -> Account]
      BY <3>1, <3>3
    <3> QED
      BY <2>1, <3>4 DEF RecvAccount, pythVars, calcVars
  <2>2. ASSUME NEW o \in Oracles, OnAccountUpdate(o) PROVE TypeOK'
    <3>1. got[o] \in Account
      OBVIOUS
    <3> QED
      BY <2>2, <3>1, AppendFacts DEF OnAccountUpdate, pythVars, calcVars
  <2> QED
    BY <1>1, <2>1, <2>2 DEF Receiver
<1>2. CASE UpdateAccount
  <2>1. Head(updateAccountChan) \in Account /\ Tail(updateAccountChan) \in Seq(Account)
        /\ Len(Tail(updateAccountChan)) <= PubCap
    BY <1>2, TailFacts DEF UpdateAccount
  <2>2. BuiltPrice(Head(updateAccountChan)) \in 0..MaxVersion
        /\ Head(updateAccountChan).key \in Oracles
    BY <2>1 DEF BuiltPrice, Account
  <2> QED
    BY <1>2, <2>1, <2>2 DEF UpdateAccount, recvVars, calcVars
<1>3. CASE OnUpdate
  BY <1>3 DEF OnUpdate, recvVars, calcVars
<1>4. CASE WorkerExit \/ Cancel
  BY <1>4 DEF WorkerExit, Cancel, recvVars, pythVars, calcVars
<1>5. CASE TakeSignal \/ Drain \/ StartPass \/ EndPass
  BY <1>5 DEF TakeSignal, Drain, StartPass, EndPass, recvVars, pythVars, calcVars
<1>6. ASSUME NEW k \in Obligations, Visit(k) PROVE TypeOK'
  BY <1>6 DEF Visit, recvVars, pythVars
<1>7. CASE ReturnEarly \/ EndVisit
  <2>1. considered' \in [Obligations -> [Oracles -> 0..MaxVersion]]
    BY <1>7 DEF ReturnEarly, EndVisit
  <2> QED
    BY <1>7, <2>1 DEF ReturnEarly, EndVisit, Leave, recvVars, pythVars
<1>8. CASE GetPrice
  <2>1. Uses[cur][pos] \in Oracles
    BY <1>8, UsesTyped DEF GetPrice
  <2> QED
    BY <1>8, <2>1 DEF GetPrice, recvVars, pythVars
<1>9. CASE UNCHANGED vars
  BY <1>9 DEF vars
<1> QED
  BY <1>1, <1>2, <1>3, <1>4, <1>5, <1>6, <1>7, <1>8, <1>9 DEF Next, PythWorker, Calculate

\* Type correctness of the trigger path, for all its parameters.
THEOREM TypeCorrect == Spec => []TypeOK
  BY InitTyped, NextTyped, PTL DEF Spec

-------------------------------------------------------------------------------
\* The steps that touch neither the accounts under way nor the prices.
QuietStep ==
    \/ OnUpdate \/ WorkerExit \/ Cancel \/ TakeSignal \/ Drain \/ StartPass
    \/ \E k \in Obligations : Visit(k)
    \/ ReturnEarly \/ GetPrice \/ EndVisit \/ EndPass
    \/ UNCHANGED vars

LEMMA QuietSteps ==
    ASSUME QuietStep
    PROVE  UNCHANGED <<got, updateAccountChan, prices>>
  BY DEF QuietStep, OnUpdate, WorkerExit, Cancel, TakeSignal, Drain, StartPass, Visit,
         ReturnEarly, GetPrice, EndVisit, EndPass, vars, recvVars, pythVars

\* What is left are the receivers and the pyth worker's first half.
LEMMA StepCases ==
    ASSUME [Next]_vars
    PROVE  \/ \E o \in Oracles : RecvAccount(o) \/ OnAccountUpdate(o)
           \/ UpdateAccount
           \/ QuietStep
  BY DEF Next, Receiver, PythWorker, Calculate, QuietStep

\* Accounts of an oracle stay in order, and so its price never goes back.
LEMMA OrderedStep ==
    ASSUME TypeOK, Ordered, [Next]_vars
    PROVE  Ordered' /\ \A o \in Oracles : prices'[o] >= prices[o]
<1>0. /\ got \in [Oracles -> Account] /\ updateAccountChan \in Seq(Account)
      /\ prices \in [Oracles -> 0..MaxVersion]
      /\ \A o \in Oracles : prices[o] \in Int /\ got[o].version \in Int
      /\ Len(updateAccountChan) \in Nat
      /\ \A i \in 1..Len(updateAccountChan) :
            /\ updateAccountChan[i] \in Account
            /\ updateAccountChan[i].key \in Oracles
            /\ updateAccountChan[i].version \in Int
  BY ElementFacts, AccountFacts, VersionAssumption DEF TypeOK
<1>1. ASSUME NEW o \in Oracles, RecvAccount(o)
      PROVE  Ordered' /\ \A p \in Oracles : prices'[p] >= prices[p]
  <2>1. UNCHANGED <<updateAccountChan, prices>>
    BY <1>1 DEF RecvAccount, pythVars
  <2>2. \A p \in Oracles : got'[p].key = p /\ got'[p].version >= got[p].version
    BY <1>0, <1>1 DEF RecvAccount, Ordered
  <2>3. \A p \in Oracles : got'[p].version \in Int
    BY <1>0, <1>1 DEF RecvAccount
  <2>4. \A p \in Oracles : prices[p] <= got'[p].version
    BY <1>0, <2>2, <2>3 DEF Ordered
  <2>5. \A i \in 1..Len(updateAccountChan) :
           updateAccountChan[i].version <= got'[updateAccountChan[i].key].version
    BY <1>0, <2>2, <2>3 DEF Ordered
  <2>6. \A p \in Oracles : prices[p] >= prices[p]
    BY <1>0
  <2> QED
    BY <2>1, <2>2, <2>4, <2>5, <2>6 DEF Ordered
<1>2. ASSUME NEW o \in Oracles, OnAccountUpdate(o)
      PROVE  Ordered' /\ \A p \in Oracles : prices'[p] >= prices[p]
  <2> DEFINE n == Len(updateAccountChan)
             q == Append(updateAccountChan, got[o])
  <2>1. UNCHANGED <<got, prices>> /\ updateAccountChan' = q
    BY <1>2 DEF OnAccountUpdate, pythVars
  <2>2. got[o] \in Account
    BY <1>0
  <2>3. n \in Nat /\ Len(q) = n + 1 /\ q[n + 1] = got[o]
        /\ \A i \in 1..n : q[i] = updateAccountChan[i]
    BY <1>0, <2>2, AppendFacts
  <2> HIDE DEF q
  <2>4. \A i \in 1..Len(q) : i = n + 1 \/ (i \in 1..n /\ q[i] = updateAccountChan[i])
    BY <2>3
  <2>5. got[o].key = o /\ prices[o] <= got[o].version /\ got[o].version <= got[o].version
    BY <1>0 DEF Ordered
  <2>6. ASSUME NEW i \in 1..Len(q)
        PROVE  prices[q[i].key] <= q[i].version /\ q[i].version <= got[q[i].key].version
    <3>1. CASE i = n + 1
      BY <2>3, <2>5, <3>1
    <3>2. CASE i \in 1..n /\ q[i] = updateAccountChan[i]
      BY <3>2 DEF Ordered
    <3> QED
      BY <2>4, <3>1, <3>2
  <2>7. ASSUME NEW i \in 1..Len(q), NEW j \in 1..Len(q), i < j, q[i].key = q[j].key
        PROVE  q[i].version <= q[j].version
    <3>1. i \in 1..n /\ q[i] = updateAccountChan[i]
      BY <2>3, <2>4, <2>7
    <3>2. CASE j = n + 1
      <4>1. updateAccountChan[i].version <= got[updateAccountChan[i].key].version
        BY <3>1 DEF Ordered
      <4> QED
        BY <2>3, <2>5, <2>7, <3>1, <3>2, <4>1
    <3>3. CASE j \in 1..n /\ q[j] = updateAccountChan[j]
      BY <2>7, <3>1, <3>3 DEF Ordered
    <3> QED
      BY <2>4, <3>2, <3>3
  <2>8. \A p \in Oracles : prices[p] >= prices[p]
    BY <1>0
  <2> QED
    BY <2>1, <2>6, <2>7, <2>8 DEF Ordered
<1>3. CASE UpdateAccount
  <2> DEFINE a == Head(updateAccountChan)
             q == Tail(updateAccountChan)
  <2>1. /\ updateAccountChan' = q /\ UNCHANGED got
        /\ a \in Account /\ a = updateAccountChan[1]
        /\ Len(updateAccountChan) \in Nat \ {0}
        /\ Len(q) = Len(updateAccountChan) - 1
        /\ \A i \in 1..Len(q) : q[i] = updateAccountChan[i + 1]
    BY <1>0, <1>3, TailFacts DEF UpdateAccount, recvVars
  <2>2. \A p \in Oracles : prices'[p] = prices[p] \/ (p = a.key /\ prices'[p] = a.version)
    <3>1. \/ prices' = prices
          \/ prices' = [prices EXCEPT ![a.key] = prices[a.key]]
          \/ prices' = [prices EXCEPT ![a.key] = a.version]
      BY <1>3 DEF UpdateAccount, BuiltPrice
    <3> QED
      BY <1>0, <3>1
  <2>3. /\ 1 \in 1..Len(updateAccountChan) /\ a.key \in Oracles /\ a.version \in Int
        /\ prices[a.key] <= a.version /\ a.version <= got[a.key].version
    <3>1. 1 \in 1..Len(updateAccountChan)
      BY <2>1
    <3> QED
      BY <1>0, <2>1, <3>1 DEF Ordered
  <2>4. \A p \in Oracles : /\ prices'[p] >= prices[p]
                           /\ prices'[p] # prices[p] => p = a.key /\ prices'[p] = a.version
    BY <1>0, <2>2, <2>3
  <2>5. \A i \in 1..Len(q) : /\ i + 1 \in 1..Len(updateAccountChan) /\ 1 < i + 1
                             /\ q[i] = updateAccountChan[i + 1]
                             /\ q[i].key \in Oracles /\ q[i].version \in Int
    <3>1. \A i \in 1..Len(q) : i + 1 \in 1..Len(updateAccountChan) /\ 1 < i + 1
      BY <2>1
    <3> QED
      BY <1>0, <2>1, <3>1
  <2>6. \A i \in 1..Len(q) : a.key = q[i].key => a.version <= q[i].version
    BY <2>1, <2>3, <2>5 DEF Ordered
  <2>7. \A i \in 1..Len(q) : /\ prices[q[i].key] <= q[i].version
                            /\ q[i].version <= got[q[i].key].version
    BY <2>5 DEF Ordered
  <2>8. \A i, j \in 1..Len(q) : i < j /\ q[i].key = q[j].key => q[i].version <= q[j].version
    <3> TAKE i, j \in 1..Len(q)
    <3>1. i < j => i + 1 < j + 1
      BY <2>1
    <3> QED
      BY <2>5, <3>1 DEF Ordered
  <2>9. \A p \in Oracles : got[p].key = p /\ prices'[p] <= got[p].version
    BY <2>3, <2>4 DEF Ordered
  <2>10. ASSUME NEW i \in 1..Len(q)
         PROVE  prices'[q[i].key] <= q[i].version
    <3>1. CASE prices'[q[i].key] = prices[q[i].key]
      BY <2>7, <3>1
    <3>2. CASE prices'[q[i].key] # prices[q[i].key]
      BY <2>4, <2>5, <2>6, <3>2
    <3> QED
      BY <3>1, <3>2
  <2> HIDE DEF q, a
  <2> QED
    BY <2>1, <2>4, <2>7, <2>8, <2>9, <2>10 DEF Ordered
<1>4. CASE QuietStep
  <2>1. UNCHANGED <<got, updateAccountChan, prices>>
    BY <1>4, QuietSteps
  <2>2. \A p \in Oracles : prices[p] >= prices[p]
    BY <1>0
  <2> QED
    BY <2>1, <2>2 DEF Ordered
<1> QED
  BY <1>1, <1>2, <1>3, <1>4, StepCases

-------------------------------------------------------------------------------
\* A signal in flight stays in flight until a pass begins.
LEMMA SignalStays ==
    ASSUME TypeOK, [Next]_vars, Signalled, ~StartPass
    PROVE  Signalled'
<1> USE DEF Signalled
<1>0. updated \in Nat
  BY DEF TypeOK
<1>1. CASE Receiver \/ Cancel \/ UNCHANGED vars
  BY <1>1 DEF Receiver, RecvAccount, OnAccountUpdate, Cancel, pythVars, calcVars, vars
<1>2. CASE PythWorker
  BY <1>0, <1>2 DEF PythWorker, UpdateAccount, OnUpdate, WorkerExit, calcVars
<1>3. CASE TakeSignal \/ Drain
  BY <1>0, <1>3 DEF TakeSignal, Drain, calcVars
<1>4. CASE (\E k \in Obligations : Visit(k)) \/ ReturnEarly \/ GetPrice \/ EndVisit \/ EndPass
  BY <1>4 DEF Visit, ReturnEarly, GetPrice, EndVisit, EndPass, Leave, pythVars
<1> QED
  BY <1>1, <1>2, <1>3, <1>4 DEF Next, Calculate

\* The steps of a pass that has begun.
PassStep ==
    (\E k \in Obligations : Visit(k)) \/ ReturnEarly \/ GetPrice \/ EndVisit \/ EndPass

\* Without a signal in flight a price changes only together with a new signal,
\* and Calculate can only go on with its pass.
LEMMA Unsignalled ==
    ASSUME TypeOK, [Next]_vars, ~Signalled
    PROVE  Signalled' \/ (UNCHANGED prices /\ (UNCHANGED calcVars \/ PassStep))
<1> USE DEF Signalled
<1>0. updated \in Nat
  BY DEF TypeOK
<1>1. CASE Receiver \/ Cancel \/ UNCHANGED vars
  BY <1>1 DEF Receiver, RecvAccount, OnAccountUpdate, Cancel, pythVars, calcVars, vars
<1>2. CASE UpdateAccount
  BY <1>2 DEF UpdateAccount
<1>3. CASE OnUpdate \/ WorkerExit
  BY <1>3 DEF OnUpdate, WorkerExit
<1>4. CASE TakeSignal \/ Drain \/ StartPass
  BY <1>4 DEF TakeSignal, Drain, StartPass
<1>5. CASE PassStep
  BY <1>5 DEF PassStep, Visit, ReturnEarly, GetPrice, EndVisit, EndPass, pythVars
<1> QED
  BY <1>1, <1>2, <1>3, <1>4, <1>5 DEF Next, PythWorker, Calculate, PassStep

\* Only GetPrice and ReturnEarly look at prices, and only for cur.
LEMMA LookSteps ==
    ASSUME TypeOK, UNCHANGED prices, UNCHANGED considered \/ ReturnEarly \/ GetPrice
    PROVE  /\ \A k \in Obligations, o \in Oracles :
                considered[k][o] = prices[o] => considered'[k][o] = prices'[o]
           /\ \A k \in Obligations : Current(k) => Current(k)'
<1>1. considered \in [Obligations -> [Oracles -> 0..MaxVersion]]
  BY DEF TypeOK
<1>2. ASSUME NEW k \in Obligations, NEW o \in Oracles, considered[k][o] = prices[o]
      PROVE  considered'[k][o] = prices'[o]
  <2>1. CASE UNCHANGED considered
    BY <1>2, <2>1
  <2>2. CASE ReturnEarly
    BY <1>1, <1>2, <2>2 DEF ReturnEarly
  <2>3. CASE GetPrice
    BY <1>1, <1>2, <2>3 DEF GetPrice
  <2> QED
    BY <2>1, <2>2, <2>3
<1>3. ASSUME NEW k \in Obligations, Current(k) PROVE Current(k)'
  BY <1>2, <1>3, UsesTyped DEF Current
<1> QED
  BY <1>2, <1>3

\* Every step keeps VisitInv: what a visit read is in force, or signalled.
LEMMA VisitStep ==
    ASSUME TypeOK, VisitInv, [Next]_vars
    PROVE  VisitInv'
<1> SUFFICES ASSUME ~Signalled', calcPc' = "visit" PROVE CurrentBelow(cur, pos)'
  BY DEF VisitInv, CurrentBelow
<1>1. CASE Signalled
  BY <1>1, SignalStays DEF StartPass
<1>2. CASE ~Signalled /\ UNCHANGED prices /\ UNCHANGED calcVars
  BY <1>2 DEF VisitInv, CurrentBelow, calcVars
<1>3. CASE ~Signalled /\ UNCHANGED prices /\ PassStep
  <2>1. ASSUME NEW k \in Obligations, Visit(k) PROVE CurrentBelow(cur, pos)'
    <3>1. pos' = 1 /\ \A i \in 1..Len(Uses[cur']) : ~(i < 1)
      BY <2>1, UsesTyped DEF Visit
    <3> QED
      BY <3>1 DEF CurrentBelow
  <2>2. CASE GetPrice
    <3>1. /\ cur \in Obligations /\ cur' = cur /\ pos' = pos + 1 /\ pos \in Int
          /\ pos \in 1..Len(Uses[cur]) /\ Uses[cur][pos] \in Oracles
          /\ considered'[cur][Uses[cur][pos]] = prices[Uses[cur][pos]]
      BY <2>2, UsesTyped DEF GetPrice, TypeOK
    <3>2. ASSUME NEW i \in 1..Len(Uses[cur]), i < pos + 1
          PROVE  considered'[cur][Uses[cur][i]] = prices'[Uses[cur][i]]
      <4>1. CASE i = pos
        BY <1>3, <3>1, <4>1
      <4>2. CASE i < pos
        <5>1. considered[cur][Uses[cur][i]] = prices[Uses[cur][i]]
          BY <1>3, <2>2, <4>2 DEF VisitInv, CurrentBelow, GetPrice
        <5> QED
          BY <1>3, <2>2, <3>1, <5>1, LookSteps, UsesTyped
      <4>3. i \in Int
        BY <3>1, UsesTyped
      <4> QED
        BY <3>1, <3>2, <4>1, <4>2, <4>3
    <3> QED
      BY <3>1, <3>2 DEF CurrentBelow
  <2>3. CASE ReturnEarly \/ EndVisit \/ EndPass
    BY <2>3 DEF ReturnEarly, EndVisit, EndPass, Leave
  <2> QED
    BY <1>3, <2>1, <2>2, <2>3 DEF PassStep
<1> QED
  BY <1>1, <1>2, <1>3, Unsignalled

\* Every step keeps NoLostUpdate.
LEMMA LostStep ==
    ASSUME TypeOK, VisitInv, NoLostUpdate, [Next]_vars
    PROVE  NoLostUpdate'
<1> SUFFICES ASSUME Updated', ~Signalled', NEW k \in Obligations
             PROVE  Current(k)' \/ Owed(k)'
  BY DEF NoLostUpdate
<1>1. CASE Signalled
  <2>1. StartPass
    BY <1>1, SignalStays
  <2> QED
    BY <2>1 DEF StartPass, Owed
<1>2. CASE ~Signalled
  <2>1. UNCHANGED prices /\ (UNCHANGED calcVars \/ PassStep)
    BY <1>2, Unsignalled
  <2>2. Current(k) \/ Owed(k)
    BY <1>2, <2>1 DEF NoLostUpdate, Updated
  <2>3. CASE UNCHANGED calcVars
    BY <2>1, <2>2, <2>3 DEF Current, Owed, calcVars
  <2>4. CASE PassStep
    <3>1. (\E l \in Obligations : Visit(l)) \/ EndVisit \/ EndPass => UNCHANGED considered
      BY DEF Visit, EndVisit, EndPass
    <3>2. Current(k) => Current(k)'
      BY <2>1, <2>4, <3>1, LookSteps DEF PassStep
    <3>3. ASSUME Owed(k), NEW l \in Obligations, Visit(l) PROVE Current(k)' \/ Owed(k)'
      <4>1. k \in todo
        BY <3>3 DEF Owed, Visit
      <4>2. CASE k = l
        <5>1. \A i \in 1..Len(Uses[k]) : ~(i < 1)
          BY UsesTyped
        <5> QED
          BY <3>3, <4>2, <5>1 DEF Owed, Visit
      <4> QED
        BY <3>3, <4>1, <4>2 DEF Owed, Visit
    <3>4. ASSUME Owed(k), ReturnEarly PROVE Current(k)' \/ Owed(k)'
      <4>1. CASE k \in todo
        BY <3>4, <4>1 DEF Owed, ReturnEarly
      <4>2. CASE k = cur
        <5>1. considered'[k] = prices
          BY <3>4, <4>2 DEF ReturnEarly, TypeOK
        <5> QED
          BY <2>1, <5>1 DEF Current
      <4> QED
        BY <3>4, <4>1, <4>2 DEF Owed
    <3>5. ASSUME Owed(k), GetPrice PROVE Current(k)' \/ Owed(k)'
      <4>1. CASE k \in todo
        BY <3>5, <4>1 DEF Owed, GetPrice
      <4>2. CASE k = cur
        <5>1. VisitInv' /\ calcPc' = "visit" /\ cur' = cur
          BY <3>5, VisitStep DEF GetPrice
        <5> QED
          BY <4>2, <5>1 DEF VisitInv, CurrentBelow, Owed
      <4> QED
        BY <3>5, <4>1, <4>2 DEF Owed
    <3>6. ASSUME Owed(k), EndVisit PROVE Current(k)' \/ Owed(k)'
      <4>1. CASE k \in todo
        BY <3>6, <4>1 DEF Owed, EndVisit
      <4>2. CASE k = cur /\ k \notin todo
        <5>1. \A i \in 1..Len(Uses[k]) : i < pos
          BY <3>6, <4>2, UsesTyped DEF EndVisit, TypeOK
        <5>2. Current(k)
          BY <3>6, <4>2, <5>1 DEF Owed, Current
        <5> QED
          BY <3>2, <5>2
      <4> QED
        BY <3>6, <4>1, <4>2 DEF Owed
    <3>7. ASSUME Owed(k), EndPass PROVE Current(k)' \/ Owed(k)'
      BY <3>7 DEF Owed, EndPass
    <3> QED
      BY <2>2, <2>4, <3>2, <3>3, <3>4, <3>5, <3>6, <3>7 DEF PassStep
  <2> QED
    BY <2>1, <2>3, <2>4
<1> QED
  BY <1>1, <1>2

\* An obligation is considered only with prices that are there, and never
\* with an older price than before.
LEMMA SeenStep ==
    ASSUME TypeOK, Ordered, SeenInv, [Next]_vars
    PROVE  SeenInv' /\ \A k \in Obligations, o \in Oracles : considered'[k][o] >= considered[k][o]
<1>1. /\ considered \in [Obligations -> [Oracles -> 0..MaxVersion]]
      /\ prices \in [Oracles -> 0..MaxVersion] /\ prices' \in [Oracles -> 0..MaxVersion]
      /\ \A o \in Oracles : prices'[o] >= prices[o]
  BY NextTyped, OrderedStep DEF TypeOK
<1>2. \A k \in Obligations, o \in Oracles : considered'[k][o] \in {considered[k][o], prices[o]}
  <2>1. CASE ReturnEarly
    BY <1>1, <2>1 DEF ReturnEarly
  <2>2. CASE GetPrice
    BY <1>1, <2>2 DEF GetPrice
  <2>3. CASE ~ReturnEarly /\ ~GetPrice
    <3>1. UNCHANGED considered
      BY <2>3 DEF Next, Receiver, RecvAccount, OnAccountUpdate, PythWorker, UpdateAccount,
         OnUpdate, WorkerExit, Calculate, TakeSignal, Drain, StartPass, Visit, EndVisit,
         EndPass, Cancel, vars, calcVars
    <3> QED
      BY <3>1
  <2> QED
    BY <2>1, <2>2, <2>3
<1>3. ASSUME NEW k \in Obligations, NEW o \in Oracles
      PROVE  considered'[k][o] <= prices'[o] /\ considered'[k][o] >= considered[k][o]
  <2>1. /\ considered[k][o] \in Int /\ prices[o] \in Int /\ prices'[o] \in Int
        /\ considered[k][o] <= prices[o] /\ prices'[o] >= prices[o]
    BY <1>1, VersionAssumption DEF SeenInv
  <2> QED
    BY <1>2, <2>1
<1> QED
  BY <1>3 DEF SeenInv

\* Every step keeps CurInv: Visit takes the obligation out of todo.
LEMMA CurStep ==
    ASSUME CurInv, [Next]_vars
    PROVE  CurInv'
  BY DEF CurInv, Next, Receiver, RecvAccount, OnAccountUpdate, PythWorker, UpdateAccount,
     OnUpdate, WorkerExit, Calculate, TakeSignal, Drain, StartPass, Visit, ReturnEarly,
     GetPrice, EndVisit, EndPass, Leave, Cancel, vars, calcVars

\* The initial states satisfy the inductive invariant.
LEMMA InitInv == Init => IInv
<1> SUFFICES ASSUME Init PROVE IInv
  OBVIOUS
<1>1. TypeOK
  BY InitTyped
<1>2. \A o \in Oracles : got[o].key = o /\ got[o].version = prices[o] /\ prices[o] \in {0, 1}
  BY DEF Init, Nil
<1>3. \A i \in 1..Len(updateAccountChan) : FALSE
  BY DEF Init
<1>4. Ordered
  BY <1>2, <1>3 DEF Ordered
<1>5. SeenInv
  <2>1. considered = [k \in Obligations |-> [o \in Oracles |-> 0]]
    BY DEF Init, Nil
  <2>2. \A k \in Obligations, o \in Oracles : considered[k][o] = 0
    BY <2>1
  <2>3. \A o \in Oracles : 0 <= prices[o]
    BY <1>1, VersionAssumption DEF TypeOK
  <2> QED
    BY <2>2, <2>3 DEF SeenInv
<1>6. ~Updated
  BY <1>2 DEF Updated
<1>7. VisitInv /\ CurInv
  BY DEF VisitInv, CurInv, Init
<1> QED
  BY <1>1, <1>4, <1>5, <1>6, <1>7 DEF IInv, NoLostUpdate

\* Every step keeps the inductive invariant.
LEMMA NextInv == IInv /\ [Next]_vars => IInv'
  BY NextTyped, CurStep, VisitStep, LostStep, OrderedStep, SeenStep DEF IInv

LEMMA Invariance == Spec => []IInv
  BY InitInv, NextInv, PTL DEF Spec

\* No price update is lost between the pyth worker and Calculate, whatever
\* the capacities of the channels and the number of oracles and obligations.
THEOREM NoUpdateIsLost == Spec => []NoLostUpdate
<1>1. IInv => NoLostUpdate
  BY DEF IInv
<1> QED
  BY <1>1, Invariance, PTL

\* Prices, and the prices an obligation was evaluated with, never go back.
THEOREM PricesNeverRegress == Spec => NoRegress
<1>1. IInv /\ [Next]_vars =>
        [\A o \in Oracles : /\ prices'[o] >= prices[o]
                            /\ \A k \in Obligations : considered'[k][o] >= considered[k][o]]_vars
  BY OrderedStep, SeenStep DEF IInv
<1> QED
  BY <1>1, Invariance, PTL DEF Spec, NoRegress

-------------------------------------------------------------------------------
\* An initial state of the program is an initial state of the abstraction.
LEMMA InitRefines == Init => CT!Init
  BY DEF Init, CT!Init, Signalled, Nil

\* A look that ends a visit finishes it in the abstraction too.
LEMMA FinishRefines ==
    ASSUME TypeOK, calcPc = "visit", cur \notin todo, UNCHANGED <<prices, Signalled, todo>>,
           calcPc' = "pass",
           NEW S \in SUBSET Oracles,
           considered' = [considered EXCEPT ![cur] = CT!SeenAfter(cur, S)],
           Signalled \/ \A i \in 1..Len(Uses[cur]) :
               CT!SeenAfter(cur, S)[Uses[cur][i]] = prices[Uses[cur][i]]
    PROVE  CT!Finish(cur, S) /\ cur \in Obligations
  BY DEF CT!Finish, TypeOK

\* Every step of the program is a step of the abstraction or a stutter.
LEMMA NextRefines ==
    ASSUME IInv, [Next]_vars
    PROVE  [CT!Next]_(CT!vars)
<1>0. TypeOK /\ CurInv /\ VisitInv /\ Ordered /\ TypeOK'
  BY NextTyped DEF IInv
<1>1. CASE UNCHANGED <<prices, Signalled, calcVars>>
  BY <1>1 DEF CT!vars, calcVars
<1>2. CASE Receiver \/ Cancel \/ WorkerExit \/ UNCHANGED vars
  <2>1. UNCHANGED <<prices, Signalled, calcVars>>
    BY <1>2 DEF Receiver, RecvAccount, OnAccountUpdate, Cancel, WorkerExit, Signalled,
       pythVars, calcVars, vars
  <2> QED
    BY <1>1, <2>1
<1>3. CASE UpdateAccount
  <2> DEFINE a == Head(updateAccountChan)
  <2>1. CASE prices[a.key] = Nil
    <3>1. UNCHANGED <<prices, Signalled, calcVars>>
      BY <1>3, <2>1 DEF UpdateAccount, Signalled, calcVars
    <3> QED
      BY <1>1, <3>1
  <2>2. CASE prices[a.key] # Nil
    <3>1. a.key \in Oracles /\ prices' = [prices EXCEPT ![a.key] = prices'[a.key]]
      <4>1. a \in Account
        BY <1>0, <1>3, TailFacts DEF UpdateAccount, TypeOK
      <4> QED
        BY <1>0, <1>3, <2>2, <4>1, AccountFacts DEF UpdateAccount, TypeOK
    <3>2. prices'[a.key] \in prices[a.key]..MaxVersion
      BY <1>0, <3>1, OrderedStep, VersionAssumption DEF TypeOK
    <3>3. Signalled' /\ UNCHANGED calcVars
      BY <1>3, <2>2 DEF UpdateAccount, Signalled
    <3>4. CT!Publish(a.key)
      BY <3>1, <3>2, <3>3 DEF CT!Publish, calcVars
    <3> QED
      BY <3>1, <3>4 DEF CT!Next
  <2> QED
    BY <2>1, <2>2
<1>4. CASE OnUpdate \/ TakeSignal \/ Drain
  <2>1. Signalled /\ Signalled'
    BY <1>0, <1>4, SignalStays DEF OnUpdate, TakeSignal, Drain, Signalled, StartPass, TypeOK
  <2>2. \/ /\ UNCHANGED <<prices, considered, todo>> /\ calcPc # "visit" /\ calcPc # "pass"
           /\ calcPc' # "visit" /\ calcPc' # "pass"
        \/ UNCHANGED <<prices, calcVars>>
    BY <1>4 DEF OnUpdate, TakeSignal, Drain, pythVars
  <2> QED
    BY <2>1, <2>2 DEF CT!vars, calcVars
<1>5. CASE StartPass
  <2>1. CT!StartPass
    BY <1>5 DEF StartPass, CT!StartPass, Signalled, pythVars
  <2> QED
    BY <2>1 DEF CT!Next
<1>6. ASSUME NEW k \in Obligations, Visit(k) PROVE UNCHANGED CT!vars
  BY <1>6 DEF Visit, CT!vars, Signalled, pythVars
<1>7. CASE ReturnEarly
  <2>1. CT!SeenAfter(cur, Oracles) = prices
    BY <1>0 DEF CT!SeenAfter, TypeOK
  <2>2. CT!Finish(cur, Oracles) /\ cur \in Obligations
    <3>1. /\ calcPc = "visit" /\ calcPc' = "pass" /\ cur \notin todo
          /\ UNCHANGED <<prices, Signalled, todo>>
          /\ considered' = [considered EXCEPT ![cur] = CT!SeenAfter(cur, Oracles)]
      BY <1>0, <1>7, <2>1 DEF ReturnEarly, Leave, CurInv, Signalled, pythVars
    <3> QED
      BY <1>0, <2>1, <3>1, FinishRefines
  <2> QED
    BY <2>2 DEF CT!Next
<1>8. CASE GetPrice
  <2> DEFINE o == Uses[cur][pos]
  <2>1. o \in Oracles /\ cur \in Obligations
    BY <1>0, <1>8, UsesTyped DEF GetPrice, TypeOK
  <2>2. considered[cur] \in [Oracles -> 0..MaxVersion]
    BY <1>0, <2>1 DEF TypeOK
  <2>3. CT!SeenAfter(cur, {o}) = [considered[cur] EXCEPT ![o] = prices[o]]
    BY <2>1, <2>2 DEF CT!SeenAfter
  <2>4. considered' = [considered EXCEPT ![cur] = CT!SeenAfter(cur, {o})]
    BY <1>8, <2>3 DEF GetPrice
  <2>5. CT!Look(cur, {o})
    BY <1>8, <2>1, <2>4 DEF GetPrice, CT!Look, Signalled, pythVars
  <2>6. {o} \in SUBSET Oracles
    BY <2>1
  <2> QED
    BY <2>1, <2>5, <2>6 DEF CT!Next
<1>9. CASE EndVisit
  <2>1. calcPc = "visit" /\ cur \in Obligations /\ pos \in Int
    BY <1>0, <1>9 DEF EndVisit, TypeOK
  <2>2. considered[cur] \in [Oracles -> 0..MaxVersion]
    BY <1>0, <2>1 DEF TypeOK
  <2>3. CT!SeenAfter(cur, {}) = considered[cur]
    BY <2>2 DEF CT!SeenAfter
  <2>4. Signalled \/ \A i \in 1..Len(Uses[cur]) :
            CT!SeenAfter(cur, {})[Uses[cur][i]] = prices[Uses[cur][i]]
    <3>1. \A i \in 1..Len(Uses[cur]) : i < pos
      BY <1>9, <2>1, UsesTyped DEF EndVisit
    <3> QED
      BY <1>0, <2>1, <2>3, <3>1 DEF VisitInv, CurrentBelow
  <2>5. CT!Finish(cur, {})
    <3>1. /\ calcPc' = "pass" /\ cur \notin todo /\ UNCHANGED <<prices, Signalled, todo>>
          /\ considered' = [considered EXCEPT ![cur] = CT!SeenAfter(cur, {})]
      BY <1>0, <1>9, <2>1, <2>3 DEF EndVisit, Leave, CurInv, Signalled, TypeOK, pythVars
    <3> QED
      BY <1>0, <2>1, <2>4, <3>1, FinishRefines
  <2> QED
    BY <2>1, <2>5 DEF CT!Next
<1>10. CASE EndPass
  <2>1. CT!EndPass
    BY <1>10 DEF EndPass, CT!EndPass, Signalled, pythVars
  <2> QED
    BY <2>1 DEF CT!Next
<1> QED
  BY <1>2, <1>3, <1>4, <1>5, <1>6, <1>7, <1>8, <1>9, <1>10 DEF Next, PythWorker, Calculate

\* The channels, the drain loop and the pass implement the coalesced trigger.
THEOREM Implements == Spec => CTSpec
<1>1. IInv /\ [Next]_vars => [CT!Next]_(CT!vars)
  BY NextRefines
<1> QED
  BY <1>1, InitRefines, Invariance, PTL DEF Spec, CTSpec, CT!Spec

-------------------------------------------------------------------------------
(***************************************************************************)
(* The delivery of transactions, for any number of endpoints and of        *)
(* executors, any capacity of the channels and any number of commands.     *)
(***************************************************************************)
\* The newest command that Commit has given to a destination, and the newest
\* that has left its channel again.
Passed(d) == IF d < at THEN last ELSE last - 1
Left(d) == Passed(d) - Len(chan[d])

\* The command is out of the channel and has no outcome yet.
Held(d, c) ==
    IF d = Tpu THEN c \in flying
    ELSE \E w \in Workers : checks[d][w] = c \/ cleared[d][w] = c

\* A channel holds the commands behind the last one that left it, in order.
InOrder ==
    \A d \in Destinations :
        /\ Left(d) \in Nat
        /\ \A n \in 1..Len(chan[d]) : chan[d][n] = Left(d) + n

\* What left the channel is held, or has its outcome, and never both.
Placed ==
    \A d \in Destinations, c \in Commands :
        /\ c <= Left(d) <=> Held(d, c) \/ outcome[d][c] # "none"
        /\ Held(d, c) => outcome[d][c] = "none"

\* An executor has one command at a time, and no two have the same.
OneEach ==
    \A e \in RpcEndpoints, w \in Workers :
        /\ checks[e][w] # None => cleared[e][w] = None /\ sends[e][w] = None
        /\ cleared[e][w] # None => sends[e][w] = None

Distinct ==
    \A e \in RpcEndpoints, v \in Workers, w \in Workers :
        v # w =>
            /\ checks[e][w] # None =>
                  checks[e][v] # checks[e][w] /\ cleared[e][v] # checks[e][w]
            /\ cleared[e][w] # None => cleared[e][v] # cleared[e][w]

USE EndpointsAssumption, WorkersAssumption, BoundsAssumption

-------------------------------------------------------------------------------
\* Writing one entry of a table.
LEMMA Entry ==
    ASSUME NEW S, NEW T, NEW V, NEW f \in [S -> [T -> V]], NEW s \in S, NEW t \in T, NEW v \in V
    PROVE  /\ [f EXCEPT ![s][t] = v] \in [S -> [T -> V]]
           /\ \A x \in S, y \in T :
                 [f EXCEPT ![s][t] = v][x][y] = IF x = s /\ y = t THEN v ELSE f[x][y]
  OBVIOUS

\* Neither None nor a free executor is a command.
LEMMA Names ==
    /\ \A c \in Commands : c \in Nat /\ c # None
    /\ Tpu \in Destinations /\ Tpu \notin RpcEndpoints
    /\ \A e \in RpcEndpoints : e \in Destinations /\ e # Tpu /\ e \in Nat
    /\ \A d \in Destinations : d \in Nat /\ d < Idle
                                    /\ (d # Tpu => d \in RpcEndpoints)
    /\ Idle \in Nat
  BY DEF Commands, None, Tpu, Destinations, RpcEndpoints, Idle

-------------------------------------------------------------------------------
(***************************************************************************)
(* Type correctness.                                                       *)
(***************************************************************************)
\* Commit sends a command that it built.
Typed == ExecutorTypeOK /\ (at # Idle => last # 0)

LEMMA InitType == ExecutorInit => Typed
<1> SUFFICES ASSUME ExecutorInit PROVE Typed
  OBVIOUS
<1>1. chan \in [Destinations -> Seq(Commands)]
      /\ \A d \in Destinations : Len(chan[d]) <= ChanCap
  BY DEF ExecutorInit
<1>2. last \in 0..MaxCommands /\ at \in 0..Idle
  BY Names DEF ExecutorInit
<1>3. clock \in 0..MaxClock /\ ids \in [Commands -> 0..MaxClock] /\ shaken \in 0..MaxCommands
  <2>1. 0 \in 0..MaxClock /\ 0 \in 0..MaxCommands
    BY ClockAssumption
  <2> QED
    BY <2>1 DEF ExecutorInit
<1> QED
  BY <1>1, <1>2, <1>3 DEF ExecutorInit, Typed, ExecutorTypeOK

LEMMA NextType == Typed /\ [ExecutorNext]_executorVars => Typed'
<1> SUFFICES ASSUME Typed, [ExecutorNext]_executorVars PROVE Typed'
  OBVIOUS
<1> USE DEF Typed, time
<1>1. CASE Commit
  <2>1. last' \in 0..MaxCommands /\ last' # 0 /\ at' \in 0..Idle
    BY <1>1, Names DEF Commit, ExecutorTypeOK, Tpu
  <2>2. ids' \in [Commands -> 0..MaxClock]
    BY <1>1 DEF Commit, ExecutorTypeOK
  <2> QED
    BY <1>1, <2>1, <2>2 DEF Commit, ExecutorTypeOK
<1>2. CASE Push
  <2>1. at \in Destinations /\ at + 1 \in 0..Idle
    BY <1>2 DEF Push, ExecutorTypeOK, Destinations, Idle
  <2>2. last \in Commands
    BY <1>2 DEF Push, ExecutorTypeOK, Commands
  <2>3. /\ Append(chan[at], last) \in Seq(Commands)
        /\ Len(Append(chan[at], last)) <= ChanCap
    BY <1>2, <2>1, <2>2, AppendFacts DEF Push, ExecutorTypeOK
  <2> QED
    BY <1>2, <2>1, <2>2, <2>3 DEF Push, ExecutorTypeOK
<1>3. CASE Tick \/ SetBack
  <2>1. clock' \in 0..MaxClock /\ ids' \in [Commands -> 0..MaxClock] /\ shaken' \in 0..MaxCommands
    BY <1>3, ClockAssumption DEF Tick, SetBack, ExecutorTypeOK
  <2> QED
    BY <1>3, <2>1 DEF Tick, SetBack, ExecutorTypeOK
<1>4. CASE Spawn
  BY <1>4, TailFacts, Names DEF Spawn, ExecutorTypeOK
<1>5. ASSUME NEW e \in RpcEndpoints, NEW w \in Workers, Take(e, w) PROVE Typed'
  <2>1. e \in Destinations /\ chan[e] \in Seq(Commands) /\ chan[e] # <<>>
    BY <1>5, Names DEF Take, ExecutorTypeOK
  <2>2. /\ Tail(chan[e]) \in Seq(Commands) /\ Head(chan[e]) \in Commands
        /\ Len(Tail(chan[e])) <= ChanCap
    <3>1. Len(chan[e]) \in Nat /\ Len(chan[e]) <= ChanCap
      BY <2>1 DEF ExecutorTypeOK
    <3> QED
      BY <2>1, <3>1, TailFacts
  <2>3. checks' \in [RpcEndpoints -> [Workers -> Commands \cup {None}]]
    BY <1>5, <2>2, Entry DEF Take, ExecutorTypeOK
  <2>4. chan' = [chan EXCEPT ![e] = Tail(chan[e])]
    BY <1>5 DEF Take
  <2>5. /\ chan' \in [Destinations -> Seq(Commands)]
        /\ \A d \in Destinations : Len(chan'[d]) <= ChanCap
    BY <2>1, <2>2, <2>4 DEF ExecutorTypeOK
  <2>6. UNCHANGED <<last, at, cleared, sends, flying, time, outcome>>
    BY <1>5 DEF Take
  <2> QED
    BY <2>3, <2>5, <2>6 DEF ExecutorTypeOK
<1>6. ASSUME NEW e \in RpcEndpoints, NEW w \in Workers,
             Drop(e, w) \/ Clear(e, w) \/ Send(e, w) \/ Answer(e, w)
      PROVE  Typed'
  <2>1. e \in Destinations /\ None \in Commands \cup {None}
    BY Names
  <2>2. /\ checks[e][w] \in Commands \cup {None}
        /\ cleared[e][w] \in Commands \cup {None}
    BY DEF ExecutorTypeOK
  <2>3. CASE Drop(e, w)
    <3>1. checks[e][w] \in Commands
      BY <2>2, <2>3 DEF Drop
    <3>2. outcome' \in [Destinations -> [Commands -> {"none", "sent", "dropped"}]]
      BY <2>1, <2>3, <3>1, Entry DEF Drop, ExecutorTypeOK
    <3>3. checks' \in [RpcEndpoints -> [Workers -> Commands \cup {None}]]
      <4>1. checks' = [checks EXCEPT ![e][w] = None]
        BY <2>3 DEF Drop
      <4>2. checks \in [RpcEndpoints -> [Workers -> Commands \cup {None}]]
        BY DEF ExecutorTypeOK
      <4> QED
        BY <2>1, <4>1, <4>2, Entry
    <3> QED
      BY <2>3, <3>2, <3>3 DEF Drop, ExecutorTypeOK
  <2>4. CASE Clear(e, w)
    <3>1. cleared' \in [RpcEndpoints -> [Workers -> Commands \cup {None}]]
      BY <2>1, <2>2, <2>4, Entry DEF Clear, ExecutorTypeOK
    <3>2. checks' \in [RpcEndpoints -> [Workers -> Commands \cup {None}]]
      BY <2>1, <2>4, Entry DEF Clear, ExecutorTypeOK
    <3> QED
      BY <2>4, <3>1, <3>2 DEF Clear, ExecutorTypeOK
  <2>5. CASE Send(e, w)
    <3>1. cleared[e][w] \in Commands
      BY <2>2, <2>5 DEF Send
    <3>2. outcome' \in [Destinations -> [Commands -> {"none", "sent", "dropped"}]]
      BY <2>1, <2>5, <3>1, Entry DEF Send, ExecutorTypeOK
    <3>3. sends' \in [RpcEndpoints -> [Workers -> Commands \cup {None}]]
      BY <2>2, <2>5, Entry DEF Send, ExecutorTypeOK
    <3>4. cleared' \in [RpcEndpoints -> [Workers -> Commands \cup {None}]]
      BY <2>1, <2>5, Entry DEF Send, ExecutorTypeOK
    <3> QED
      BY <2>5, <3>2, <3>3, <3>4 DEF Send, ExecutorTypeOK
  <2>6. CASE Answer(e, w)
    <3>1. sends' \in [RpcEndpoints -> [Workers -> Commands \cup {None}]]
      BY <2>1, <2>6, Entry DEF Answer, ExecutorTypeOK
    <3> QED
      BY <2>6, <3>1 DEF Answer, ExecutorTypeOK
  <2> QED
    BY <1>6, <2>3, <2>4, <2>5, <2>6
<1>7. ASSUME NEW c \in Commands, SendTransaction(c) PROVE Typed'
  BY <1>7, Names, Entry DEF SendTransaction, ExecutorTypeOK
<1>8. CASE UNCHANGED executorVars
  BY <1>8 DEF executorVars, ExecutorTypeOK
<1> QED
  BY <1>1, <1>2, <1>3, <1>4, <1>5, <1>6, <1>7, <1>8 DEF ExecutorNext

\* Every reachable state is well-typed, and no channel is over its capacity.
THEOREM DeliveryTypeCorrect == ExecutorSpec => []ExecutorTypeOK
<1>1. Typed => ExecutorTypeOK
  BY DEF Typed
<1> QED
  BY InitType, NextType, <1>1, PTL DEF ExecutorSpec

-------------------------------------------------------------------------------
(***************************************************************************)
(* Where every command is.                                                 *)
(***************************************************************************)
DeliveryInv == Typed /\ InOrder /\ Placed /\ OneEach /\ Distinct

\* What the types say of one place.
LEMMA Places ==
    ASSUME Typed
    PROVE  /\ last \in Nat /\ at \in Nat /\ last <= MaxCommands /\ at <= Idle
           /\ \A d \in Destinations : chan[d] \in Seq(Commands) /\ Len(chan[d]) \in Nat
           /\ \A d \in Destinations : Passed(d) \in Int /\ Left(d) \in Int
           /\ \A e \in RpcEndpoints, w \in Workers :
                 /\ checks[e][w] \in Commands \cup {None}
                 /\ cleared[e][w] \in Commands \cup {None}
                 /\ sends[e][w] \in Commands \cup {None}
  BY Names DEF Typed, ExecutorTypeOK, Passed, Left

\* The next state's Left.
LEMMA LeftNext ==
    ASSUME NEW d
    PROVE  /\ Passed(d)' = IF d < at' THEN last' ELSE last' - 1
           /\ Left(d)' = Passed(d)' - Len(chan'[d])
  BY DEF Passed, Left

LEMMA InitDelivery == ExecutorInit => DeliveryInv
<1> SUFFICES ASSUME ExecutorInit PROVE DeliveryInv
  OBVIOUS
<1>1. \A d \in Destinations : Left(d) = 0 /\ Len(chan[d]) = 0
  BY Names DEF ExecutorInit, Left, Passed
<1>2. InOrder
  BY <1>1 DEF InOrder
<1>3. Placed
  BY <1>1, Names DEF ExecutorInit, Placed, Held, Commands
<1> QED
  BY <1>2, <1>3, InitType, Names DEF ExecutorInit, DeliveryInv, OneEach, Distinct

LEMMA CommitInv == ASSUME DeliveryInv, Commit PROVE DeliveryInv'
<1>1. \A d \in Destinations : Left(d)' = Left(d)
  <2> SUFFICES ASSUME NEW d \in Destinations PROVE Left(d)' = Left(d)
    OBVIOUS
  <2>1. d \in Nat /\ d < Idle /\ last \in Nat
    BY Names, Places DEF DeliveryInv
  <2>2. at = Idle /\ last' = last + 1 /\ at' = 0 /\ chan' = chan
    BY DEF Commit, Tpu
  <2>3. Passed(d)' = last /\ Passed(d) = last
    BY <2>1, <2>2, LeftNext DEF Passed
  <2> QED
    BY <2>2, <2>3, LeftNext DEF Left
<1>2. Typed'
  BY NextType DEF DeliveryInv, ExecutorNext
<1>3. InOrder'
  BY <1>1 DEF Commit, DeliveryInv, InOrder
<1>4. Placed'
  BY <1>1 DEF Commit, DeliveryInv, Placed, Held
<1> QED
  BY <1>2, <1>3, <1>4 DEF Commit, DeliveryInv, OneEach, Distinct

LEMMA PushInv == ASSUME DeliveryInv, Push PROVE DeliveryInv'
<1>1. at \in Destinations /\ last \in Commands
  BY Names DEF Push, DeliveryInv, Typed, ExecutorTypeOK, Destinations, Idle, Commands
<1>2. chan[at] \in Seq(Commands) /\ Len(chan[at]) \in Nat
  BY <1>1, Places DEF DeliveryInv
<1>3. /\ chan'[at] = Append(chan[at], last)
      /\ \A d \in Destinations : d # at => chan'[d] = chan[d]
      /\ at' = at + 1 /\ last' = last
  BY <1>1 DEF Push, DeliveryInv, Typed, ExecutorTypeOK
<1>4. /\ Len(chan'[at]) = Len(chan[at]) + 1
      /\ \A n \in 1..Len(chan[at]) : chan'[at][n] = chan[at][n]
      /\ chan'[at][Len(chan[at]) + 1] = last
  BY <1>1, <1>2, <1>3, AppendFacts
<1>5. ASSUME NEW d \in Destinations PROVE Left(d)' = Left(d)
  <2>1. d \in Nat /\ at \in Nat /\ last \in Nat /\ Len(chan[d]) \in Nat
    BY Names, Places DEF DeliveryInv
  <2>2. CASE d = at
    <3>1. Passed(d)' = last /\ Passed(d) = last - 1
      BY <1>3, <2>1, <2>2, LeftNext DEF Passed
    <3>2. Left(d)' = last - Len(chan'[d]) /\ Left(d) = (last - 1) - Len(chan[d])
      BY <3>1, LeftNext DEF Left
    <3>3. Len(chan'[d]) = Len(chan[d]) + 1
      BY <1>4, <2>2
    <3> QED
      BY <2>1, <3>2, <3>3
  <2>3. CASE d # at
    <3>1. Passed(d)' = Passed(d)
      BY <1>3, <2>1, <2>3, LeftNext DEF Passed
    <3> QED
      BY <1>3, <2>3, <3>1, LeftNext DEF Left
  <2> QED
    BY <2>2, <2>3
<1>6. ASSUME NEW d \in Destinations, NEW n \in 1..Len(chan'[d])
      PROVE  chan'[d][n] = Left(d) + n
  <2>1. CASE d # at \/ n \in 1..Len(chan[at])
    <3>1. CASE d # at
      <4>1. chan'[d] = chan[d]
        BY <1>3, <3>1
      <4> QED
        BY <4>1 DEF DeliveryInv, InOrder
    <3>2. CASE d = at /\ n \in 1..Len(chan[at])
      <4>1. chan'[d][n] = chan[d][n]
        BY <1>4, <3>2
      <4> QED
        BY <3>2, <4>1 DEF DeliveryInv, InOrder
    <3> QED
      BY <2>1, <3>1, <3>2
  <2>2. CASE d = at /\ n = Len(chan[at]) + 1
    <3>1. Left(at) = last - 1 - Len(chan[at]) /\ last \in Nat
      BY Names, <1>1 DEF Left, Passed
    <3>2. chan'[d][n] = last /\ Left(d) = Left(at)
      BY <1>4, <2>2
    <3>3. (last - 1 - Len(chan[at])) + (Len(chan[at]) + 1) = last
      BY <1>2, <3>1
    <3>4. Left(d) + n = last
      BY <2>2, <3>1, <3>2, <3>3
    <3> QED
      BY <3>2, <3>4
  <2> QED
    BY <1>2, <1>4, <2>1, <2>2
<1>7. InOrder'
  BY <1>5, <1>6 DEF DeliveryInv, InOrder
<1>8. Placed'
  BY <1>5 DEF Push, DeliveryInv, Placed, Held
<1>9. Typed'
  BY NextType DEF DeliveryInv, ExecutorNext
<1> QED
  BY <1>7, <1>8, <1>9 DEF Push, DeliveryInv, OneEach, Distinct

\* The head of a channel is the next command, and has no outcome.
LEMMA HeadIs ==
    ASSUME DeliveryInv, NEW d \in Destinations, chan[d] # <<>>,
           chan' = [chan EXCEPT ![d] = Tail(chan[d])], UNCHANGED <<last, at>>
    PROVE  /\ Head(chan[d]) \in Commands /\ Head(chan[d]) = Left(d) + 1
           /\ Left(d)' = Left(d) + 1
           /\ \A f \in Destinations : f # d => Left(f)' = Left(f)
           /\ ~Held(d, Head(chan[d])) /\ outcome[d][Head(chan[d])] = "none"
           /\ InOrder'
<1>1. chan[d] \in Seq(Commands) /\ Len(chan[d]) \in Nat /\ Left(d) \in Int /\ Passed(d) \in Int
  BY Places DEF DeliveryInv
<1>2. /\ Head(chan[d]) \in Commands /\ Head(chan[d]) = chan[d][1] /\ Len(chan[d]) >= 1
      /\ Len(Tail(chan[d])) = Len(chan[d]) - 1
      /\ \A n \in 1..(Len(chan[d]) - 1) : Tail(chan[d])[n] = chan[d][n + 1]
  BY <1>1, TailFacts
<1>3. chan'[d] = Tail(chan[d]) /\ \A f \in Destinations : f # d => chan'[f] = chan[f]
  BY DEF DeliveryInv, Typed, ExecutorTypeOK
<1>4. Head(chan[d]) = Left(d) + 1
  BY <1>1, <1>2 DEF DeliveryInv, InOrder
<1>5. \A f \in Destinations : Passed(f)' = Passed(f)
  BY LeftNext DEF Passed
<1>6. /\ Left(d)' = Left(d) + 1
      /\ \A f \in Destinations : f # d => Left(f)' = Left(f)
  <2>1. Left(d)' = Passed(d) - Len(chan'[d]) /\ Left(d) = Passed(d) - Len(chan[d])
    BY <1>5, LeftNext DEF Left
  <2>2. Len(chan'[d]) = Len(chan[d]) - 1
    BY <1>2, <1>3
  <2>3. \A f \in Destinations : f # d => Left(f)' = Left(f)
    BY <1>3, <1>5, LeftNext DEF Left
  <2> QED
    BY <1>1, <2>1, <2>2, <2>3
<1>7. ~Held(d, Head(chan[d])) /\ outcome[d][Head(chan[d])] = "none"
  BY <1>1, <1>2, <1>4 DEF DeliveryInv, Placed
<1>8. InOrder'
  <2>1. ASSUME NEW f \in Destinations, NEW n \in 1..Len(chan'[f])
        PROVE  chan'[f][n] = Left(f)' + n
    <3>1. CASE f = d
      <4>0. Len(chan'[f]) = Len(chan[d]) - 1
        BY <1>2, <1>3, <3>1
      <4>1. n \in 1..(Len(chan[d]) - 1) /\ n \in Int
        BY <1>1, <4>0
      <4>2. chan'[f][n] = chan[d][n + 1] /\ n + 1 \in 1..Len(chan[d])
        <5>1. chan'[f] = Tail(chan[d])
          BY <1>3, <3>1
        <5>2. Tail(chan[d])[n] = chan[d][n + 1]
          BY <1>2, <4>1
        <5>3. chan'[f][n] = chan[d][n + 1]
          BY <5>1, <5>2, Zenon
        <5> QED
          BY <1>1, <4>1, <5>3
      <4>3. chan[d][n + 1] = Left(d) + (n + 1)
        BY <4>2 DEF DeliveryInv, InOrder
      <4> QED
        BY <1>1, <1>6, <3>1, <4>1, <4>2, <4>3
    <3>2. CASE f # d
      BY <1>3, <1>6, <3>2 DEF DeliveryInv, InOrder
    <3> QED
      BY <3>1, <3>2
  <2> QED
    BY <2>1, <1>6 DEF DeliveryInv, InOrder
<1> QED
  BY <1>2, <1>4, <1>6, <1>7, <1>8

LEMMA TakeInv ==
    ASSUME DeliveryInv, NEW e \in RpcEndpoints, NEW w \in Workers, Take(e, w)
    PROVE  DeliveryInv'
<1> DEFINE c == Head(chan[e])
<1>1. e \in Destinations /\ e # Tpu
  BY Names
<1>2. /\ c \in Commands /\ c = Left(e) + 1 /\ Left(e)' = Left(e) + 1
      /\ \A f \in Destinations : f # e => Left(f)' = Left(f)
      /\ ~Held(e, c) /\ outcome[e][c] = "none"
      /\ InOrder'
  BY <1>1, HeadIs DEF Take
<1>3. \A x \in RpcEndpoints, y \in Workers :
        checks'[x][y] = IF x = e /\ y = w THEN c ELSE checks[x][y]
  BY <1>2, Entry DEF Take, DeliveryInv, Typed, ExecutorTypeOK
<1>4. UNCHANGED <<cleared, sends, flying, time, outcome>> /\ Free(e, w)
  BY DEF Take
<1>5. \A y \in Workers : checks[e][y] # c /\ cleared[e][y] # c
  BY <1>1, <1>2 DEF Held
<1>6. ASSUME NEW d \in Destinations, NEW b \in Commands
      PROVE  Held(d, b)' <=> Held(d, b) \/ (d = e /\ b = c)
  BY <1>1, <1>3, <1>4, Names DEF Held, Free
<1>7. Placed'
  <2> SUFFICES ASSUME NEW d \in Destinations, NEW b \in Commands
               PROVE  /\ b <= Left(d)' <=> Held(d, b)' \/ outcome[d][b] # "none"
                      /\ Held(d, b)' => outcome[d][b] = "none"
    BY <1>4 DEF Placed
  <2>1. /\ b <= Left(d) <=> Held(d, b) \/ outcome[d][b] # "none"
        /\ Held(d, b) => outcome[d][b] = "none"
    BY DEF DeliveryInv, Placed
  <2>2. b \in Nat /\ Left(d) \in Int /\ Left(e) \in Int
    BY <1>1, Names, Places DEF DeliveryInv
  <2> QED
    BY <1>2, <1>6, <2>1, <2>2
<1>8. OneEach'
  BY <1>2, <1>3, <1>4 DEF DeliveryInv, OneEach, Free
<1>9. Distinct'
  BY <1>2, <1>3, <1>4, <1>5 DEF DeliveryInv, Distinct, Free
<1>10. Typed'
  BY NextType DEF DeliveryInv, ExecutorNext
<1> QED
  BY <1>2, <1>7, <1>8, <1>9, <1>10 DEF DeliveryInv

\* Behind the channel nothing moves in it.
LEMMA StayPut ==
    ASSUME InOrder, UNCHANGED <<last, at, chan>>
    PROVE  InOrder' /\ \A d \in Destinations : Left(d)' = Left(d)
<1>1. \A d \in Destinations : Left(d)' = Left(d)
  BY LeftNext DEF Left, Passed
<1> QED
  BY <1>1 DEF InOrder

\* A command that is held gets its outcome.
LEMMA SettledPlaced ==
    ASSUME DeliveryInv, InOrder', NEW d \in Destinations, NEW c \in Commands, Held(d, c),
           \A f \in Destinations : Left(f)' = Left(f),
           \A f \in Destinations, b \in Commands :
              /\ Held(f, b)' <=> Held(f, b) /\ ~(f = d /\ b = c)
              /\ f # d \/ b # c => outcome'[f][b] = outcome[f][b],
           outcome'[d][c] # "none"
    PROVE  Placed'
<1> SUFFICES ASSUME NEW f \in Destinations, NEW b \in Commands
             PROVE  /\ b <= Left(f)' <=> Held(f, b)' \/ outcome'[f][b] # "none"
                    /\ Held(f, b)' => outcome'[f][b] = "none"
  BY DEF Placed
<1>1. /\ b <= Left(f) <=> Held(f, b) \/ outcome[f][b] # "none"
      /\ Held(f, b) => outcome[f][b] = "none"
  BY DEF DeliveryInv, Placed
<1> QED
  BY <1>1

LEMMA DropInv ==
    ASSUME DeliveryInv, NEW e \in RpcEndpoints, NEW w \in Workers, Drop(e, w)
    PROVE  DeliveryInv'
<1> DEFINE c == checks[e][w]
<1>1. e \in Destinations /\ e # Tpu
  BY Names
<1>2. c \in Commands /\ c # None
  BY Names DEF Drop, DeliveryInv, Typed, ExecutorTypeOK
<1>3. \A x \in RpcEndpoints, y \in Workers :
        checks'[x][y] = IF x = e /\ y = w THEN None ELSE checks[x][y]
  BY Entry DEF Drop, DeliveryInv, Typed, ExecutorTypeOK
<1>4. \A f \in Destinations, b \in Commands :
        outcome'[f][b] = IF f = e /\ b = c THEN "dropped" ELSE outcome[f][b]
  BY <1>1, <1>2, Entry DEF Drop, DeliveryInv, Typed, ExecutorTypeOK
<1>5. UNCHANGED <<cleared, sends, flying>>
  BY DEF Drop
<1>6. Held(e, c)
  BY <1>1 DEF Held
<1>7. \A y \in Workers : cleared[e][y] # c /\ (y # w => checks[e][y] # c)
  BY <1>2 DEF DeliveryInv, OneEach, Distinct
<1>8. ASSUME NEW f \in Destinations, NEW b \in Commands
      PROVE  Held(f, b)' <=> Held(f, b) /\ ~(f = e /\ b = c)
  BY <1>1, <1>3, <1>5, <1>7, Names DEF Held
<1>9. InOrder' /\ \A f \in Destinations : Left(f)' = Left(f)
  BY StayPut DEF Drop, DeliveryInv
<1>10. Placed'
  BY <1>1, <1>2, <1>4, <1>6, <1>8, <1>9, SettledPlaced
<1>11. OneEach' /\ Distinct'
  BY <1>3, <1>5 DEF DeliveryInv, OneEach, Distinct
<1>12. Typed'
  BY NextType DEF DeliveryInv, ExecutorNext
<1> QED
  BY <1>9, <1>10, <1>11, <1>12 DEF DeliveryInv

LEMMA ClearInv ==
    ASSUME DeliveryInv, NEW e \in RpcEndpoints, NEW w \in Workers, Clear(e, w)
    PROVE  DeliveryInv'
<1> DEFINE c == checks[e][w]
<1>1. e \in Destinations /\ e # Tpu
  BY Names
<1>2. c \in Commands /\ c # None
  BY Names, Places DEF Clear, DeliveryInv
<1>3. \A x \in RpcEndpoints, y \in Workers :
        /\ checks'[x][y] = IF x = e /\ y = w THEN None ELSE checks[x][y]
        /\ cleared'[x][y] = IF x = e /\ y = w THEN c ELSE cleared[x][y]
  BY <1>2, Entry DEF Clear, DeliveryInv, Typed, ExecutorTypeOK
<1>4. UNCHANGED <<sends, flying, time, outcome>> /\ cleared[e][w] = None
  BY <1>2 DEF Clear, DeliveryInv, OneEach
<1>5. ASSUME NEW f \in Destinations, NEW b \in Commands
      PROVE  Held(f, b)' <=> Held(f, b)
  BY <1>1, <1>2, <1>3, <1>4, Names DEF Held
<1>6. InOrder' /\ \A f \in Destinations : Left(f)' = Left(f)
  BY StayPut DEF Clear, DeliveryInv
<1>7. Placed'
  BY <1>4, <1>5, <1>6 DEF DeliveryInv, Placed
<1>8. OneEach'
  BY <1>2, <1>3, <1>4 DEF DeliveryInv, OneEach
<1>9. Distinct'
  BY <1>2, <1>3, <1>4 DEF DeliveryInv, Distinct
<1>10. Typed'
  BY NextType DEF DeliveryInv, ExecutorNext
<1> QED
  BY <1>6, <1>7, <1>8, <1>9, <1>10 DEF DeliveryInv

LEMMA SendInv ==
    ASSUME DeliveryInv, NEW e \in RpcEndpoints, NEW w \in Workers, Send(e, w)
    PROVE  DeliveryInv'
<1> DEFINE c == cleared[e][w]
<1>1. e \in Destinations /\ e # Tpu
  BY Names
<1>2. c \in Commands /\ c # None
  BY Names, Places DEF Send, DeliveryInv
<1>3. \A x \in RpcEndpoints, y \in Workers :
        /\ cleared'[x][y] = IF x = e /\ y = w THEN None ELSE cleared[x][y]
        /\ sends'[x][y] = IF x = e /\ y = w THEN c ELSE sends[x][y]
  BY <1>2, Entry DEF Send, DeliveryInv, Typed, ExecutorTypeOK
<1>4. \A f \in Destinations, b \in Commands :
        outcome'[f][b] = IF f = e /\ b = c THEN "sent" ELSE outcome[f][b]
  BY <1>1, <1>2, Entry DEF Send, DeliveryInv, Typed, ExecutorTypeOK
<1>5. UNCHANGED <<checks, flying>> /\ checks[e][w] = None
  BY <1>2 DEF Send, DeliveryInv, OneEach
<1>6. Held(e, c)
  BY <1>1 DEF Held
<1>7. \A y \in Workers : checks[e][y] # c /\ (y # w => cleared[e][y] # c)
  BY <1>2, <1>5 DEF DeliveryInv, Distinct
<1>8. ASSUME NEW f \in Destinations, NEW b \in Commands
      PROVE  Held(f, b)' <=> Held(f, b) /\ ~(f = e /\ b = c)
  BY <1>1, <1>3, <1>5, <1>7, Names DEF Held
<1>9. InOrder' /\ \A f \in Destinations : Left(f)' = Left(f)
  BY StayPut DEF Send, DeliveryInv
<1>10. Placed'
  BY <1>1, <1>2, <1>4, <1>6, <1>8, <1>9, SettledPlaced
<1>11. OneEach' /\ Distinct'
  BY <1>2, <1>3, <1>5 DEF DeliveryInv, OneEach, Distinct
<1>12. Typed'
  BY NextType DEF DeliveryInv, ExecutorNext
<1> QED
  BY <1>9, <1>10, <1>11, <1>12 DEF DeliveryInv

LEMMA AnswerInv ==
    ASSUME DeliveryInv, NEW e \in RpcEndpoints, NEW w \in Workers, Answer(e, w)
    PROVE  DeliveryInv'
<1>1. \A x \in RpcEndpoints, y \in Workers :
        sends'[x][y] = IF x = e /\ y = w THEN None ELSE sends[x][y]
  BY Entry DEF Answer, DeliveryInv, Typed, ExecutorTypeOK
<1>2. UNCHANGED <<last, at, chan, checks, cleared, flying, time, outcome>>
  BY DEF Answer
<1>3. InOrder' /\ \A f \in Destinations : Left(f)' = Left(f)
  BY <1>2, StayPut DEF DeliveryInv
<1>4. Placed'
  BY <1>2, <1>3 DEF DeliveryInv, Placed, Held
<1>5. Typed'
  BY NextType DEF DeliveryInv, ExecutorNext
<1> QED
  BY <1>1, <1>2, <1>3, <1>4, <1>5 DEF DeliveryInv, OneEach, Distinct

LEMMA SpawnInv == ASSUME DeliveryInv, Spawn PROVE DeliveryInv'
<1> DEFINE c == Head(chan[Tpu])
<1>1. /\ c \in Commands /\ c = Left(Tpu) + 1 /\ Left(Tpu)' = Left(Tpu) + 1
      /\ \A f \in Destinations : f # Tpu => Left(f)' = Left(f)
      /\ ~Held(Tpu, c) /\ outcome[Tpu][c] = "none"
      /\ InOrder'
  BY Names, HeadIs DEF Spawn
<1>2. flying' = flying \cup {c} /\ UNCHANGED <<checks, cleared, sends, time, outcome>>
  BY DEF Spawn
<1>3. ASSUME NEW d \in Destinations, NEW b \in Commands
      PROVE  Held(d, b)' <=> Held(d, b) \/ (d = Tpu /\ b = c)
  BY <1>2 DEF Held
<1>4. Placed'
  <2> SUFFICES ASSUME NEW d \in Destinations, NEW b \in Commands
               PROVE  /\ b <= Left(d)' <=> Held(d, b)' \/ outcome[d][b] # "none"
                      /\ Held(d, b)' => outcome[d][b] = "none"
    BY <1>2 DEF Placed
  <2>1. /\ b <= Left(d) <=> Held(d, b) \/ outcome[d][b] # "none"
        /\ Held(d, b) => outcome[d][b] = "none"
    BY DEF DeliveryInv, Placed
  <2>2. b \in Nat /\ Left(d) \in Int /\ Left(Tpu) \in Int
    BY Names, Places DEF DeliveryInv
  <2> QED
    BY <1>1, <1>3, <2>1, <2>2
<1>5. Typed'
  BY NextType DEF DeliveryInv, ExecutorNext
<1> QED
  BY <1>1, <1>2, <1>4, <1>5 DEF DeliveryInv, OneEach, Distinct

LEMMA SendTransactionInv ==
    ASSUME DeliveryInv, NEW c \in Commands, SendTransaction(c) PROVE DeliveryInv'
<1>1. c \in flying /\ flying' = flying \ {c} /\ UNCHANGED <<checks, cleared, sends>>
  BY DEF SendTransaction
<1>2. \A f \in Destinations, b \in Commands :
        outcome'[f][b] = IF f = Tpu /\ b = c THEN "sent" ELSE outcome[f][b]
  BY Names, Entry DEF SendTransaction, DeliveryInv, Typed, ExecutorTypeOK
<1>3. ASSUME NEW f \in Destinations, NEW b \in Commands
      PROVE  Held(f, b)' <=> Held(f, b) /\ ~(f = Tpu /\ b = c)
  BY <1>1 DEF Held
<1>4. InOrder' /\ \A f \in Destinations : Left(f)' = Left(f)
  BY StayPut DEF SendTransaction, DeliveryInv
<1>5. Tpu \in Destinations /\ Held(Tpu, c)
  BY <1>1, Names DEF Held
<1>6. Placed'
  BY <1>2, <1>3, <1>4, <1>5, SettledPlaced
<1>7. Typed'
  BY NextType DEF DeliveryInv, ExecutorNext
<1> QED
  BY <1>1, <1>4, <1>6, <1>7 DEF DeliveryInv, OneEach, Distinct

LEMMA ClockInv == ASSUME DeliveryInv, Tick \/ SetBack PROVE DeliveryInv'
<1>1. UNCHANGED <<last, at, chan, checks, cleared, sends, flying, outcome>>
  BY DEF Tick, SetBack
<1>2. InOrder' /\ \A f \in Destinations : Left(f)' = Left(f)
  BY <1>1, StayPut DEF DeliveryInv
<1>3. Placed'
  BY <1>1, <1>2 DEF DeliveryInv, Placed, Held
<1>4. Typed'
  BY NextType DEF DeliveryInv, ExecutorNext
<1> QED
  BY <1>1, <1>2, <1>3, <1>4 DEF DeliveryInv, OneEach, Distinct

LEMMA NextDelivery == DeliveryInv /\ [ExecutorNext]_executorVars => DeliveryInv'
<1> SUFFICES ASSUME DeliveryInv, [ExecutorNext]_executorVars PROVE DeliveryInv'
  OBVIOUS
<1>1. CASE UNCHANGED executorVars
  <2>1. InOrder' /\ \A d \in Destinations : Left(d)' = Left(d)
    BY <1>1, StayPut DEF executorVars, DeliveryInv
  <2>2. Placed'
    BY <1>1, <2>1 DEF executorVars, DeliveryInv, Placed, Held
  <2>3. Typed'
    BY NextType DEF DeliveryInv
  <2> QED
    BY <1>1, <2>1, <2>2, <2>3 DEF executorVars, DeliveryInv, OneEach, Distinct
<1> QED
  BY <1>1, CommitInv, PushInv, ClockInv, SpawnInv, TakeInv, DropInv, ClearInv, SendInv, AnswerInv,
     SendTransactionInv DEF ExecutorNext

LEMMA DeliveryInvariance == ExecutorSpec => []DeliveryInv
  BY InitDelivery, NextDelivery, PTL DEF ExecutorSpec

-------------------------------------------------------------------------------
(***************************************************************************)
(* What follows from it.                                                   *)
(***************************************************************************)
\* A command waits in a channel behind what left it.
LEMMA InChannel ==
    ASSUME DeliveryInv, NEW d \in Destinations, NEW c \in Commands
    PROVE  /\ Given(c, d) <=> c <= Passed(d)
           /\ c \in Queued(d) <=> Held(d, c) \/ (Left(d) < c /\ c <= Passed(d))
           /\ Left(d) <= Passed(d)
<1>1. /\ c \in Nat /\ last \in Nat /\ d \in Nat /\ at \in Nat /\ Len(chan[d]) \in Nat
      /\ Passed(d) \in Int /\ Left(d) \in Int
  BY Names, Places DEF DeliveryInv
<1>2. Given(c, d) <=> c <= Passed(d)
  BY <1>1 DEF Given, Passed
<1>3. Left(d) = Passed(d) - Len(chan[d])
  BY DEF Left
<1>4. (\E n \in 1..Len(chan[d]) : chan[d][n] = c) <=> Left(d) < c /\ c <= Passed(d)
  <2>1. ASSUME NEW n \in 1..Len(chan[d]), chan[d][n] = c
        PROVE  Left(d) < c /\ c <= Passed(d)
    <3>1. c = Left(d) + n
      BY <2>1 DEF DeliveryInv, InOrder
    <3> QED
      BY <1>1, <1>3, <3>1
  <2>2. ASSUME Left(d) < c, c <= Passed(d)
        PROVE  \E n \in 1..Len(chan[d]) : chan[d][n] = c
    <3>1. c - Left(d) \in 1..Len(chan[d])
      BY <1>1, <1>3, <2>2
    <3>2. chan[d][c - Left(d)] = Left(d) + (c - Left(d))
      BY <3>1 DEF DeliveryInv, InOrder
    <3>3. chan[d][c - Left(d)] = c
      BY <1>1, <3>2
    <3> QED
      BY <3>1, <3>3
  <2> QED
    BY <2>1, <2>2
<1>5. c \in Queued(d) <=> Held(d, c) \/ \E n \in 1..Len(chan[d]) : chan[d][n] = c
  BY DEF Queued, Held
<1> QED
  BY <1>1, <1>2, <1>3, <1>4, <1>5

LEMMA InvAccounted == DeliveryInv => Accounted
<1> SUFFICES ASSUME DeliveryInv, NEW d \in Destinations, NEW c \in Commands
             PROVE  /\ Given(c, d) <=> c \in Queued(d) \/ outcome[d][c] # "none"
                    /\ c \in Queued(d) => outcome[d][c] = "none"
  BY DEF Accounted
<1>1. /\ c <= Left(d) <=> Held(d, c) \/ outcome[d][c] # "none"
      /\ Held(d, c) => outcome[d][c] = "none"
  BY DEF DeliveryInv, Placed
<1>2. c \in Int /\ Left(d) \in Int /\ Passed(d) \in Int
  BY Names, Places DEF DeliveryInv
<1> QED
  BY <1>1, <1>2, InChannel

\* No command is lost in Commit, in a channel or in an executor, or kept after
\* its end (execute.go:240).
THEOREM NothingIsLost == ExecutorSpec => []Accounted
  BY DeliveryInvariance, InvAccounted, PTL

-------------------------------------------------------------------------------
(***************************************************************************)
(* The ages of the commands, by a wall clock that may be set back.         *)
(***************************************************************************)
\* Since the clock was last set back the Ids grow with the commands and lie in
\* the past, and what was dropped since is too old and stays so.
TimeInv ==
    /\ \A c \in 1..last : shaken < c => ids[c] <= clock
    /\ \A b, c \in 1..last : shaken < b /\ b <= c => ids[b] <= ids[c]
    /\ \A e \in RpcEndpoints, c \in 1..last :
          shaken < c /\ outcome[e][c] = "dropped" => clock - ids[c] > MaxAge

\* What the types say of the times.
LEMMA Times ==
    ASSUME Typed
    PROVE  /\ clock \in Int /\ shaken \in Int /\ last \in Int /\ MaxAge \in Int
           /\ \A c \in 1..last : c \in Commands /\ c \in Int /\ ids[c] \in Int
  BY ClockAssumption DEF Typed, ExecutorTypeOK, Commands

\* Only what was built has an outcome.
LEMMA OutcomeBuilt ==
    ASSUME DeliveryInv, NEW e \in RpcEndpoints, NEW c \in Commands, outcome[e][c] # "none"
    PROVE  c \in 1..last
<1>1. e \in Destinations /\ c \in Nat /\ c >= 1
  BY Names DEF Commands
<1>2. c <= Left(e)
  BY <1>1 DEF DeliveryInv, Placed
<1>3. Left(e) <= Passed(e) /\ Left(e) \in Int /\ Passed(e) \in Int
  BY <1>1, Places, InChannel DEF DeliveryInv
<1>4. Passed(e) <= last /\ last \in Nat
  BY Places DEF DeliveryInv, Passed
<1> QED
  BY <1>1, <1>2, <1>3, <1>4

\* A command is too old once the clock is far enough ahead of its Id.
LEMMA OldIsTooOld ==
    ASSUME Typed, NEW c \in 1..last, ids[c] <= clock
    PROVE  TooOld(c) <=> clock - ids[c] > MaxAge
<1>1. clock >= ids[c]
  BY Times
<1> QED
  BY <1>1 DEF TooOld

LEMMA InitTime == ExecutorInit => TimeInv
<1> SUFFICES ASSUME ExecutorInit PROVE TimeInv
  OBVIOUS
<1>1. \A c \in 1..last : FALSE
  BY DEF ExecutorInit
<1> QED
  BY <1>1 DEF TimeInv

LEMMA TimeStep ==
    DeliveryInv /\ TimeInv /\ [ExecutorNext]_executorVars => TimeInv'
<1> SUFFICES ASSUME DeliveryInv, TimeInv, [ExecutorNext]_executorVars PROVE TimeInv'
  OBVIOUS
<1>0. /\ clock \in Int /\ shaken \in Int /\ last \in Int /\ MaxAge \in Int
      /\ \A c \in 1..last : c \in Commands /\ c \in Int /\ ids[c] \in Int
  BY Times DEF DeliveryInv
<1>1. ASSUME UNCHANGED <<last, clock, ids, shaken>>,
             \A e \in RpcEndpoints, c \in 1..last :
                outcome'[e][c] = "dropped" => outcome[e][c] = "dropped"
      PROVE  TimeInv'
  BY <1>1 DEF TimeInv
<1>2. CASE Commit
  <2>1. /\ last' = last + 1 /\ UNCHANGED <<clock, shaken, outcome>>
        /\ ids' = [ids EXCEPT ![last + 1] = clock] /\ last + 1 \in Commands
    BY <1>0, <1>2, Places DEF Commit, DeliveryInv, Commands
  <2>2. ids'[last + 1] = clock /\ \A c \in 1..last : ids'[c] = ids[c]
    BY <1>0, <2>1 DEF DeliveryInv, Typed, ExecutorTypeOK
  <2>3. \A c \in 1..last' : c \in 1..last \/ c = last + 1
    BY <1>0, <2>1
  <2>4. \A c \in 1..last' : shaken < c => ids'[c] <= clock
    BY <1>0, <2>2, <2>3 DEF TimeInv
  <2>5. ASSUME NEW b \in 1..last', NEW c \in 1..last', shaken < b, b <= c
        PROVE  ids'[b] <= ids'[c]
    <3>1. CASE c \in 1..last
      <4>1. b \in 1..last
        BY <1>0, <2>5, <3>1
      <4> QED
        BY <2>2, <2>5, <3>1, <4>1 DEF TimeInv
    <3>2. CASE c = last + 1
      BY <2>2, <2>4, <2>5, <3>2
    <3> QED
      BY <2>3, <3>1, <3>2
  <2>6. ASSUME NEW e \in RpcEndpoints, NEW c \in 1..last', shaken < c, outcome[e][c] = "dropped"
        PROVE  clock - ids'[c] > MaxAge
    <3>1. c \in Commands
      BY <1>0, <2>1, <2>3
    <3>2. c \in 1..last
      BY <2>6, <3>1, OutcomeBuilt
    <3> QED
      BY <2>2, <2>6, <3>2 DEF TimeInv
  <2> QED
    BY <2>1, <2>4, <2>5, <2>6 DEF TimeInv
<1>3. CASE Tick
  <2>1. clock' = clock + 1 /\ UNCHANGED <<last, ids, shaken, outcome>>
    BY <1>3 DEF Tick
  <2>2. \A c \in 1..last : /\ ids[c] <= clock => ids[c] <= clock'
                           /\ clock - ids[c] > MaxAge => clock' - ids[c] > MaxAge
    BY <1>0, <2>1
  <2> QED
    BY <2>1, <2>2 DEF TimeInv
<1>4. CASE SetBack
  <2>1. shaken' = last /\ UNCHANGED last
    BY <1>4 DEF SetBack
  <2>2. \A c \in 1..last' : ~(shaken' < c)
    BY <1>0, <2>1
  <2> QED
    BY <2>2 DEF TimeInv
<1>5. ASSUME NEW g \in RpcEndpoints, NEW w \in Workers, Drop(g, w) PROVE TimeInv'
  <2> DEFINE d == checks[g][w]
  <2>1. d \in Commands /\ g \in Destinations
    BY <1>5, Names DEF Drop, DeliveryInv, Typed, ExecutorTypeOK
  <2>2. \A f \in Destinations, b \in Commands :
          outcome'[f][b] = IF f = g /\ b = d THEN "dropped" ELSE outcome[f][b]
    BY <1>5, <2>1, Entry DEF Drop, DeliveryInv, Typed, ExecutorTypeOK
  <2>3. UNCHANGED <<last, clock, ids, shaken>> /\ TooOld(d)
    BY <1>5 DEF Drop, time
  <2>4. ASSUME NEW f \in RpcEndpoints, NEW c \in 1..last, shaken < c, outcome'[f][c] = "dropped"
        PROVE  clock - ids[c] > MaxAge
    <3>1. CASE c = d
      <4>1. ids[c] <= clock
        BY <2>4 DEF TimeInv
      <4> QED
        BY <2>3, <3>1, <4>1, OldIsTooOld DEF DeliveryInv
    <3>2. CASE c # d
      <4>1. outcome[f][c] = "dropped"
        BY <1>0, <2>2, <2>4, <3>2, Names
      <4> QED
        BY <2>4, <4>1 DEF TimeInv
    <3> QED
      BY <3>1, <3>2
  <2> QED
    BY <2>3, <2>4 DEF TimeInv
<1>6. ASSUME NEW g \in RpcEndpoints, NEW w \in Workers, Send(g, w) PROVE TimeInv'
  <2>1. cleared[g][w] \in Commands /\ g \in Destinations
    BY <1>6, Names, Places DEF Send, DeliveryInv
  <2>2. \A f \in Destinations, b \in Commands :
          outcome'[f][b] = IF f = g /\ b = cleared[g][w] THEN "sent" ELSE outcome[f][b]
    BY <1>6, <2>1, Entry DEF Send, DeliveryInv, Typed, ExecutorTypeOK
  <2>3. \A f \in RpcEndpoints, c \in 1..last :
           outcome'[f][c] = "dropped" => outcome[f][c] = "dropped"
    BY <1>0, <2>2, Names
  <2> QED
    BY <1>1, <1>6, <2>3 DEF Send, time
<1>7. ASSUME NEW d \in Commands, SendTransaction(d) PROVE TimeInv'
  <2>1. \A f \in RpcEndpoints, c \in 1..last : outcome'[f][c] = outcome[f][c]
    BY <1>0, <1>7, Names, Entry DEF SendTransaction, DeliveryInv, Typed, ExecutorTypeOK
  <2> QED
    BY <1>1, <1>7, <2>1 DEF SendTransaction, time
<1>8. ASSUME NEW g \in RpcEndpoints, NEW w \in Workers, Take(g, w) \/ Clear(g, w) \/ Answer(g, w)
      PROVE  TimeInv'
  BY <1>1, <1>8 DEF Take, Clear, Answer, time
<1>9. CASE Push \/ Spawn \/ UNCHANGED executorVars
  BY <1>1, <1>9 DEF Push, Spawn, executorVars, time
<1> QED
  BY <1>2, <1>3, <1>4, <1>5, <1>6, <1>7, <1>8, <1>9 DEF ExecutorNext

\* The age of a command is looked at by each executor on its own, and still
\* what one of them drops closes the past for all, as far back as the clock was
\* last set back (execute.go:98).
THEOREM DropsCloseThePast == ExecutorSpec => NothingSentBehindADrop
<1> DEFINE Closed == \A c \in Commands, e \in RpcEndpoints :
                        outcome[e][c] = "dropped" =>
                           \A f \in RpcEndpoints, b \in (shaken + 1)..c :
                              Decided(f, b)' => Decided(f, b)
<1>1. DeliveryInv /\ TimeInv /\ [ExecutorNext]_executorVars => [Closed]_executorVars
  <2> SUFFICES ASSUME DeliveryInv, TimeInv, ExecutorNext, NEW c \in Commands,
                      NEW e \in RpcEndpoints, outcome[e][c] = "dropped",
                      NEW f \in RpcEndpoints, NEW b \in (shaken + 1)..c, Decided(f, b)'
               PROVE  Decided(f, b)
    OBVIOUS
  <2>0. /\ clock \in Int /\ shaken \in Nat /\ last \in Int /\ MaxAge \in Int
        /\ \A n \in 1..last : n \in Commands /\ n \in Int /\ ids[n] \in Int
    BY Times DEF DeliveryInv, Typed, ExecutorTypeOK
  <2>1. b \in Commands /\ TooOld(b) /\ f \in Destinations /\ f # Tpu
    <3>1. c \in 1..last
      BY OutcomeBuilt
    <3>2. b \in 1..last /\ shaken < b /\ b <= c /\ shaken < c
      BY <2>0, <3>1
    <3>3. ids[b] <= ids[c] /\ ids[b] <= clock /\ clock - ids[c] > MaxAge
      BY <3>1, <3>2 DEF TimeInv
    <3>4. clock - ids[b] > MaxAge
      BY <2>0, <3>1, <3>2, <3>3
    <3>5. TooOld(b)
      BY <3>2, <3>3, <3>4, OldIsTooOld DEF DeliveryInv
    <3> QED
      BY <2>0, <3>2, <3>5, Names
  <2>2. CASE UNCHANGED <<cleared, outcome>>
    BY <2>2 DEF Decided
  <2>3. ASSUME NEW g \in RpcEndpoints, NEW w \in Workers, Drop(g, w) PROVE Decided(f, b)
    <3>1. outcome'[f][b] = "sent" => outcome[f][b] = "sent"
      BY <2>1, <2>3, Names, Entry, Places DEF Drop, DeliveryInv, Typed, ExecutorTypeOK
    <3> QED
      BY <2>3, <3>1 DEF Drop, Decided
  <2>4. ASSUME NEW g \in RpcEndpoints, NEW w \in Workers, Clear(g, w) PROVE Decided(f, b)
    <3>1. checks[g][w] # b
      BY <2>1, <2>4 DEF Clear
    <3>2. \A v \in Workers : cleared'[f][v] = b => cleared[f][v] = b
      BY <2>4, <3>1, Entry, Places DEF Clear, DeliveryInv, Typed, ExecutorTypeOK
    <3> QED
      BY <2>4, <3>2 DEF Clear, Decided
  <2>5. ASSUME NEW g \in RpcEndpoints, NEW w \in Workers, Send(g, w) PROVE Decided(f, b)
    <3>1. cleared[g][w] \in Commands
      BY <2>5, Places DEF Send, DeliveryInv
    <3>2. outcome'[f][b] = "sent" => outcome[f][b] = "sent" \/ (f = g /\ b = cleared[g][w])
      BY <2>1, <2>5, <3>1, Names, Entry DEF Send, DeliveryInv, Typed, ExecutorTypeOK
    <3>3. \A v \in Workers : cleared'[f][v] = b => cleared[f][v] = b
      BY <2>1, <2>5, Names, Entry DEF Send, DeliveryInv, Typed, ExecutorTypeOK
    <3> QED
      BY <3>2, <3>3 DEF Decided
  <2>6. ASSUME NEW d \in Commands, SendTransaction(d) PROVE Decided(f, b)
    <3>1. outcome'[f][b] = outcome[f][b]
      BY <2>1, <2>6, Names, Entry DEF SendTransaction, DeliveryInv, Typed, ExecutorTypeOK
    <3> QED
      BY <2>6, <3>1 DEF SendTransaction, Decided
  <2> QED
    BY <2>2, <2>3, <2>4, <2>5, <2>6 DEF ExecutorNext, Commit, Push, Tick, SetBack,
       Spawn, Take, Answer
<1> QED
  BY DeliveryInvariance, InitTime, TimeStep, <1>1, PTL
     DEF ExecutorSpec, NothingSentBehindADrop

-------------------------------------------------------------------------------
(***************************************************************************)
(* The refinement of TxDelivery.                                           *)
(***************************************************************************)
USE DEF Delivery!Destinations, Destinations, Delivery!Commands, Commands,
        Delivery!Tpu, Tpu

\* The status of a command, by how far Commit is.
StatusOf(d, c) ==
    IF outcome[d][c] # "none" THEN outcome[d][c]
    ELSE IF c <= Passed(d) THEN "queued" ELSE "none"

StatusKnown ==
    /\ Status = [d \in Destinations |-> [c \in Commands |-> StatusOf(d, c)]]
    /\ \A d \in Destinations, c \in Commands :
          /\ Status[d][c] = StatusOf(d, c)
          /\ Status[d][c] = "none" <=> ~Given(c, d)

LEMMA StatusIs == DeliveryInv => StatusKnown
<1> SUFFICES ASSUME DeliveryInv PROVE StatusKnown
  OBVIOUS
<1>1. \A d \in Destinations, c \in Commands :
        /\ outcome[d][c] = "none" => (c \in Queued(d) <=> c <= Passed(d))
        /\ Given(c, d) <=> c <= Passed(d)
        /\ outcome[d][c] # "none" => Given(c, d)
  BY InvAccounted, InChannel DEF Accounted
<1>2. Status = [d \in Destinations |-> [c \in Commands |-> StatusOf(d, c)]]
  BY <1>1 DEF Status, StatusOf
<1>3. \A d \in Destinations, c \in Commands : Status[d][c] = StatusOf(d, c)
  BY <1>2
<1>4. \A d \in Destinations, c \in Commands : StatusOf(d, c) = "none" <=> ~Given(c, d)
  BY <1>1 DEF StatusOf
<1> QED
  BY <1>2, <1>3, <1>4 DEF StatusKnown

LEMMA StatusNext == DeliveryInv' => StatusKnown'
  BY StatusIs, PTL

\* A step that changes no status.
LEMMA StatusStays ==
    ASSUME DeliveryInv, DeliveryInv',
           \A d \in Destinations, c \in Commands : StatusOf(d, c)' = StatusOf(d, c)
    PROVE  Status' = Status
  BY StatusIs, StatusNext DEF StatusKnown

\* A step that changes one.
LEMMA StatusStep ==
    ASSUME DeliveryInv, DeliveryInv', NEW d \in Destinations, NEW c \in Commands, NEW v,
           \A e \in Destinations, b \in Commands :
              StatusOf(e, b)' = IF e = d /\ b = c THEN v ELSE StatusOf(e, b)
    PROVE  Status' = [Status EXCEPT ![d][c] = v]
<1>1. /\ Status = [e \in Destinations |-> [b \in Commands |-> StatusOf(e, b)]]
      /\ Status' = [e \in Destinations |-> [b \in Commands |-> StatusOf(e, b)']]
  BY StatusIs, StatusNext DEF StatusKnown
<1> QED
  BY <1>1

LEMMA InitDelivers == ExecutorInit => Delivery!Init
<1> SUFFICES ASSUME ExecutorInit PROVE Delivery!Init
  OBVIOUS
<1>1. DeliveryInv
  BY InitDelivery
<1>2. ASSUME NEW d \in Destinations, NEW c \in Commands PROVE StatusOf(d, c) = "none"
  <2>1. c >= 1 /\ last = 0 /\ d < at /\ outcome[d][c] = "none"
    BY Names DEF ExecutorInit
  <2> QED
    BY <2>1 DEF StatusOf, Passed
<1> QED
  BY <1>1, <1>2, StatusIs DEF StatusKnown, Delivery!Init

\* Commit is behind no other destination with a new command, and within the
\* executors and the proxy nothing is given.
LEMMA PassedSame ==
    ASSUME DeliveryInv, Commit \/ UNCHANGED <<last, at>>, NEW d \in Destinations
    PROVE  Passed(d)' = Passed(d)
<1>1. d \in Nat /\ d < Idle /\ last \in Nat
  BY Names, Places DEF DeliveryInv
<1>2. CASE Commit
  <2>1. at = Idle /\ last' = last + 1 /\ at' = 0
    BY <1>2 DEF Commit
  <2> QED
    BY <1>1, <2>1, LeftNext DEF Passed
<1>3. CASE UNCHANGED <<last, at>>
  BY <1>3, LeftNext DEF Passed
<1> QED
  BY <1>2, <1>3

\* A push gives the last command to the next destination.
LEMMA PushRefines ==
    ASSUME DeliveryInv, DeliveryInv', Push
    PROVE  Delivery!Offer(last, at) /\ last \in Commands /\ at \in Destinations
<1>1. last \in Nat /\ at \in Nat /\ last # 0 /\ at < Idle /\ last <= MaxCommands
  BY Names, Places DEF Push, DeliveryInv, Typed
<1>2. last \in Commands /\ at \in Destinations
  BY <1>1 DEF Idle
<1>3. StatusKnown
  BY StatusIs
<1>4. Status[at][last] = "none"
  BY <1>1, <1>2, <1>3 DEF StatusKnown, Given
<1>5. \A e \in Destinations : e < at => Status[e][last] # "none"
  BY <1>2, <1>3 DEF StatusKnown, Given
<1>6. \A b \in Commands, e \in Destinations : b < last => Status[e][b] # "none"
  BY <1>3 DEF StatusKnown, Given
<1>7. ASSUME NEW e \in Destinations, NEW b \in Commands
      PROVE  StatusOf(e, b)' = IF e = at /\ b = last THEN "queued" ELSE StatusOf(e, b)
  <2>1. outcome' = outcome /\ at' = at + 1 /\ last' = last
    BY DEF Push
  <2>2. StatusOf(e, b)' = IF outcome[e][b] # "none" THEN outcome[e][b]
                          ELSE IF b <= Passed(e)' THEN "queued" ELSE "none"
    BY <2>1 DEF StatusOf
  <2>3. CASE e # at
    <3>1. Passed(e)' = Passed(e)
      BY <1>1, <2>1, <2>3, Names, LeftNext DEF Passed
    <3> QED
      BY <2>2, <2>3, <3>1 DEF StatusOf
  <2>4. CASE e = at
    <3>1. Passed(e)' = last /\ Passed(e) = last - 1
      BY <1>1, <2>1, <2>4, LeftNext DEF Passed
    <3>2. outcome[at][last] = "none"
      BY <1>2, <1>3, <1>4 DEF StatusKnown, StatusOf
    <3>3. b \in Nat
      OBVIOUS
    <3> QED
      BY <1>1, <2>2, <2>4, <3>1, <3>2, <3>3 DEF StatusOf
  <2> QED
    BY <2>3, <2>4
<1>8. Status' = [Status EXCEPT ![at][last] = "queued"]
  BY <1>2, <1>7, StatusStep
<1> QED
  BY <1>2, <1>4, <1>5, <1>6, <1>8 DEF Delivery!Offer

\* Cardinality is the same operator in every instance.
LEMMA SameCardinality == \A S : Delivery!Cardinality(S) = Cardinality(S)
  BY DEF Delivery!Cardinality, Cardinality

\* The commands an endpoint leaves behind are with its other executors.
LEMMA FewLeft ==
    ASSUME DeliveryInv, NEW e \in RpcEndpoints, NEW w \in Workers, NEW c \in Commands,
           checks[e][w] = c \/ cleared[e][w] = c
    PROVE  Cardinality(Delivery!Left(c, e)) < Cardinality(Workers)
<1> DEFINE others == Workers \ {w}
           has == [v \in others |-> IF checks[e][v] # None THEN checks[e][v] ELSE cleared[e][v]]
           held == {has[v] : v \in others}
<1>1. e \in Destinations /\ e # Tpu /\ c # None /\ c \in Nat
  BY Names
<1>2. Delivery!Left(c, e) \in SUBSET held
  <2> SUFFICES ASSUME NEW b \in Commands, b < c, Status[e][b] = "queued" PROVE b \in held
    BY DEF Delivery!Left
  <2>1. b \in Nat /\ b # None /\ Left(e) \in Int
    BY <1>1, Names, Places DEF DeliveryInv
  <2>2. c <= Left(e)
    BY <1>1 DEF DeliveryInv, Placed, Held
  <2>3. outcome[e][b] = "none"
    <3>1. Status[e][b] = StatusOf(e, b)
      BY <1>1, StatusIs DEF StatusKnown
    <3>2. outcome \in [Destinations -> [Commands -> {"none", "sent", "dropped"}]]
      BY DEF DeliveryInv, Typed, ExecutorTypeOK
    <3> QED
      BY <1>1, <3>1, <3>2 DEF StatusOf
  <2>4. Held(e, b)
    BY <1>1, <2>1, <2>2, <2>3 DEF DeliveryInv, Placed
  <2>5. PICK v \in Workers : checks[e][v] = b \/ cleared[e][v] = b
    BY <1>1, <2>4 DEF Held
  <2>6. v # w
    BY <1>1, <2>1, <2>5 DEF DeliveryInv, OneEach
  <2>7. has[v] = b
    BY <2>1, <2>5, <2>6 DEF DeliveryInv, OneEach
  <2> QED
    BY <2>6, <2>7
<1>3. IsFiniteSet(others) /\ Cardinality(others) = Cardinality(Workers) - 1
  BY FS_RemoveElement
<1>4. has \in Surjection(others, held)
  BY DEF Surjection
<1> HIDE DEF others, has, held
<1>5. IsFiniteSet(held) /\ Cardinality(held) <= Cardinality(others)
  BY <1>3, <1>4, FS_Surjection
<1>6. IsFiniteSet(Delivery!Left(c, e))
      /\ Cardinality(Delivery!Left(c, e)) <= Cardinality(held)
  BY <1>2, <1>5, FS_Subset
<1>7. /\ Cardinality(Workers) \in Nat /\ Cardinality(held) \in Nat
      /\ Cardinality(Delivery!Left(c, e)) \in Nat
  BY <1>5, <1>6, FS_CardinalityType
<1> QED
  BY <1>3, <1>5, <1>6, <1>7

\* What is held gets the outcome, and nothing else.
LEMMA SettleRefines ==
    ASSUME DeliveryInv, DeliveryInv', NEW d \in Destinations,
           NEW c \in Commands, NEW v \in {"sent", "dropped"},
           Held(d, c), UNCHANGED <<last, at>>, v = "dropped" => d # Tpu,
           \A e \in Destinations, b \in Commands :
              outcome'[e][b] = IF e = d /\ b = c THEN v ELSE outcome[e][b]
    PROVE  Delivery!Settle(c, d)
<1>1. ASSUME NEW e \in Destinations, NEW b \in Commands
      PROVE  StatusOf(e, b)' = IF e = d /\ b = c THEN v ELSE StatusOf(e, b)
  <2>1. Passed(e)' = Passed(e)
    BY PassedSame
  <2>2. StatusOf(e, b)' = IF outcome'[e][b] # "none" THEN outcome'[e][b]
                          ELSE IF b <= Passed(e)' THEN "queued" ELSE "none"
    BY DEF StatusOf
  <2> QED
    BY <2>1, <2>2 DEF StatusOf
<1>3. Status' = [Status EXCEPT ![d][c] = v]
  BY <1>1, StatusStep
<1>4. Status[d][c] = "queued"
  <2>1. outcome[d][c] = "none" /\ c <= Left(d)
    BY DEF DeliveryInv, Placed
  <2>2. c \in Nat /\ Left(d) \in Int /\ Passed(d) \in Int /\ Left(d) <= Passed(d)
    BY Names, Places, InChannel DEF DeliveryInv
  <2>3. Status[d][c] = StatusOf(d, c)
    BY StatusIs DEF StatusKnown
  <2> QED
    BY <2>1, <2>2, <2>3 DEF StatusOf
<1>5. d # Tpu => Cardinality(Delivery!Left(c, d)) < Cardinality(Workers)
  BY Names, FewLeft DEF Held
<1> QED
  <2>1. CASE v = "sent"
    BY <1>3, <1>4, <1>5, <2>1, SameCardinality DEF Delivery!Settle
  <2>2. CASE v = "dropped"
    BY <1>3, <1>4, <1>5, <2>2, SameCardinality DEF Delivery!Settle
  <2> QED
    BY <2>1, <2>2

LEMMA NextDelivers ==
    DeliveryInv /\ DeliveryInv' /\ [ExecutorNext]_executorVars => [Delivery!Next]_Status
<1> SUFFICES ASSUME DeliveryInv, DeliveryInv', [ExecutorNext]_executorVars
             PROVE  [Delivery!Next]_Status
  OBVIOUS
<1>1. ASSUME Commit \/ UNCHANGED <<last, at>>, UNCHANGED outcome PROVE UNCHANGED Status
  <2>1. ASSUME NEW d \in Destinations, NEW c \in Commands
        PROVE  StatusOf(d, c)' = StatusOf(d, c)
    <3>1. Passed(d)' = Passed(d)
      BY <1>1, PassedSame
    <3> QED
      BY <1>1, <3>1 DEF StatusOf
  <2> QED
    BY <2>1, StatusStays
<1>2. CASE Commit \/ Tick \/ SetBack \/ Spawn \/ UNCHANGED executorVars
  BY <1>1, <1>2 DEF Commit, Tick, SetBack, Spawn, executorVars
<1>3. CASE Push
  BY <1>3, PushRefines DEF Delivery!Next
<1>4. ASSUME NEW e \in RpcEndpoints, NEW w \in Workers,
             Take(e, w) \/ Clear(e, w) \/ Answer(e, w)
      PROVE  UNCHANGED Status
  BY <1>1, <1>4 DEF Take, Clear, Answer
<1>5. ASSUME NEW e \in RpcEndpoints, NEW w \in Workers, Drop(e, w)
      PROVE  Delivery!Settle(checks[e][w], e) /\ checks[e][w] \in Commands
             /\ e \in Destinations
  <2>1. e \in Destinations /\ e # Tpu
    BY Names
  <2>2. checks[e][w] \in Commands
    BY <1>5, Names DEF Drop, DeliveryInv, Typed, ExecutorTypeOK
  <2>3. \A f \in Destinations, b \in Commands :
          outcome'[f][b] = IF f = e /\ b = checks[e][w] THEN "dropped" ELSE outcome[f][b]
    <3>1. outcome' = [outcome EXCEPT ![e][checks[e][w]] = "dropped"]
      BY <1>5 DEF Drop
    <3>2. outcome \in [Destinations -> [Commands -> {"none", "sent", "dropped"}]]
      BY DEF DeliveryInv, Typed, ExecutorTypeOK
    <3> QED
      BY <2>1, <2>2, <3>1, <3>2, Entry
  <2>4. Held(e, checks[e][w])
    BY <2>1 DEF Held
  <2> QED
    BY <1>5, <2>1, <2>2, <2>3, <2>4, SettleRefines DEF Drop
<1>6. ASSUME NEW e \in RpcEndpoints, NEW w \in Workers, Send(e, w)
      PROVE  Delivery!Settle(cleared[e][w], e) /\ cleared[e][w] \in Commands
             /\ e \in Destinations
  <2>1. e \in Destinations /\ e # Tpu
    BY Names
  <2>2. cleared[e][w] \in Commands
    BY <1>6, Places DEF Send, DeliveryInv
  <2>3. \A f \in Destinations, b \in Commands :
          outcome'[f][b] = IF f = e /\ b = cleared[e][w] THEN "sent" ELSE outcome[f][b]
    <3>1. outcome' = [outcome EXCEPT ![e][cleared[e][w]] = "sent"]
      BY <1>6 DEF Send
    <3>2. outcome \in [Destinations -> [Commands -> {"none", "sent", "dropped"}]]
      BY DEF DeliveryInv, Typed, ExecutorTypeOK
    <3> QED
      BY <2>1, <2>2, <3>1, <3>2, Entry
  <2>4. Held(e, cleared[e][w])
    BY <2>1 DEF Held
  <2> QED
    BY <1>6, <2>1, <2>2, <2>3, <2>4, SettleRefines DEF Send
<1>7. ASSUME NEW c \in Commands, SendTransaction(c)
      PROVE  Delivery!Settle(c, Tpu) /\ Tpu \in Destinations
  <2>1. Tpu \in Destinations /\ Held(Tpu, c)
    BY <1>7, Names DEF SendTransaction, Held
  <2>2. \A f \in Destinations, b \in Commands :
          outcome'[f][b] = IF f = Tpu /\ b = c THEN "sent" ELSE outcome[f][b]
    <3>1. outcome' = [outcome EXCEPT ![Tpu][c] = "sent"]
      BY <1>7 DEF SendTransaction
    <3>2. outcome \in [Destinations -> [Commands -> {"none", "sent", "dropped"}]]
      BY DEF DeliveryInv, Typed, ExecutorTypeOK
    <3> QED
      BY <2>1, <3>1, <3>2, Entry
  <2> QED
    BY <1>7, <2>1, <2>2, SettleRefines DEF SendTransaction
<1> QED
  BY <1>2, <1>3, <1>4, <1>5, <1>6, <1>7 DEF ExecutorNext, Delivery!Next

\* The channels and goroutines of execute.go and of the TPU proxy implement
\* TxDelivery: every transaction is offered once to each destination, in order,
\* settled once, and never behind ExecutorSize others of its endpoint.
THEOREM DeliveryImplemented == ExecutorSpec => DeliverySpec
  BY InitDelivers, NextDelivers, DeliveryInvariance, PTL
     DEF ExecutorSpec, DeliverySpec, Delivery!Spec

\* What an endpoint has not settled of the commands before c.
Behind(c, e) == {b \in Commands : b < c /\ outcome[e][b] = "none"}

\* An endpoint that has sent or dropped a transaction has fewer than
\* ExecutorSize earlier ones that it has not.
NearlyInOrder ==
    \A e \in RpcEndpoints, c \in Commands :
        outcome[e][c] # "none" => Cardinality(Behind(c, e)) < Cardinality(Workers)

\* An outcome that changes is one of a command that an executor holds.
LEMMA OutcomeStep ==
    ASSUME DeliveryInv, [ExecutorNext]_executorVars, NEW e \in RpcEndpoints, NEW c \in Commands,
           outcome'[e][c] # outcome[e][c]
    PROVE  outcome[e][c] = "none" /\ \E w \in Workers : checks[e][w] = c \/ cleared[e][w] = c
<1>1. e \in Destinations /\ e # Tpu
  BY Names
<1>2. PICK f \in RpcEndpoints, w \in Workers : Drop(f, w) \/ Send(f, w)
  <2>1. ASSUME NEW b \in Commands, SendTransaction(b) PROVE FALSE
    BY <1>1, <2>1, Names, Entry DEF SendTransaction, DeliveryInv, Typed, ExecutorTypeOK
  <2> QED
    BY <2>1 DEF ExecutorNext, Commit, Push, Tick, SetBack, Spawn, Take, Clear, Answer,
       executorVars
<1>3. f \in Destinations
  BY Names
<1>4. checks[e][w] = c \/ cleared[e][w] = c
  <2>1. CASE Drop(f, w)
    <3>1. checks[f][w] \in Commands
      BY <2>1, Names DEF Drop, DeliveryInv, Typed, ExecutorTypeOK
    <3>2. outcome' = [outcome EXCEPT ![f][checks[f][w]] = "dropped"]
      BY <2>1 DEF Drop
    <3>3. outcome \in [Destinations -> [Commands -> {"none", "sent", "dropped"}]]
      BY DEF DeliveryInv, Typed, ExecutorTypeOK
    <3>4. e = f /\ c = checks[f][w]
      BY <1>1, <1>3, <3>1, <3>2, <3>3, Entry
    <3> QED
      BY <3>4
  <2>2. CASE Send(f, w)
    <3>1. cleared[f][w] \in Commands
      BY <2>2, Places DEF Send, DeliveryInv
    <3>2. outcome' = [outcome EXCEPT ![f][cleared[f][w]] = "sent"]
      BY <2>2 DEF Send
    <3>3. outcome \in [Destinations -> [Commands -> {"none", "sent", "dropped"}]]
      BY DEF DeliveryInv, Typed, ExecutorTypeOK
    <3>4. e = f /\ c = cleared[f][w]
      BY <1>1, <1>3, <3>1, <3>2, <3>3, Entry
    <3> QED
      BY <3>4
  <2> QED
    BY <1>2, <2>1, <2>2
<1>5. outcome[e][c] = "none"
  BY <1>1, <1>4 DEF DeliveryInv, Placed, Held
<1> QED
  BY <1>4, <1>5

LEMMA FiniteCommands == IsFiniteSet(1..MaxCommands)
<1>1. 1 \in Int /\ MaxCommands \in Int
  OBVIOUS
<1> QED
  BY <1>1, FS_Interval, Zenon

\* What is behind a command that an executor holds is held by the others.
LEMMA BehindIsLeft ==
    ASSUME DeliveryInv, NEW e \in RpcEndpoints, NEW w \in Workers, NEW c \in Commands,
           checks[e][w] = c \/ cleared[e][w] = c
    PROVE  Behind(c, e) \subseteq Delivery!Left(c, e)
<1>1. e \in Destinations /\ e # Tpu /\ c \in Nat
  BY Names
<1>2. c <= Passed(e) /\ Passed(e) \in Int
  <2>1. c <= Left(e)
    BY <1>1 DEF DeliveryInv, Placed, Held
  <2>2. Left(e) \in Int /\ Passed(e) \in Int /\ Left(e) <= Passed(e)
    BY <1>1, Places, InChannel DEF DeliveryInv
  <2> QED
    BY <1>1, <2>1, <2>2
<1>3. ASSUME NEW b \in Commands, b < c, outcome[e][b] = "none" PROVE Status[e][b] = "queued"
  <2>1. b \in Nat /\ b <= Passed(e)
    BY <1>1, <1>2, <1>3, Names
  <2>2. Status[e][b] = StatusOf(e, b)
    BY <1>1, StatusIs DEF StatusKnown
  <2> QED
    BY <1>3, <2>1, <2>2 DEF StatusOf
<1> QED
  BY <1>3 DEF Behind, Delivery!Left

LEMMA FewBehind ==
    ASSUME DeliveryInv, NearlyInOrder, [ExecutorNext]_executorVars
    PROVE  NearlyInOrder'
<1> SUFFICES ASSUME NEW e \in RpcEndpoints, NEW c \in Commands, outcome'[e][c] # "none"
             PROVE  Cardinality(Behind(c, e)') < Cardinality(Workers)
  BY DEF NearlyInOrder
<1>1. Behind(c, e)' \subseteq Behind(c, e)
  <2>1. ASSUME NEW b \in Commands, outcome'[e][b] = "none" PROVE outcome[e][b] = "none"
    BY <2>1, OutcomeStep
  <2> QED
    BY <2>1 DEF Behind
<1>2. IsFiniteSet(Behind(c, e))
  <2>1. IsFiniteSet(1..MaxCommands)
    BY FiniteCommands
  <2>2. Behind(c, e) \subseteq 1..MaxCommands
    BY DEF Behind
  <2> QED
    BY <2>1, <2>2, FS_Subset
<1>3. Cardinality(Behind(c, e)) < Cardinality(Workers)
  <2>1. CASE outcome'[e][c] = outcome[e][c]
    BY <2>1 DEF NearlyInOrder
  <2>2. CASE outcome'[e][c] # outcome[e][c]
    <3>1. PICK w \in Workers : checks[e][w] = c \/ cleared[e][w] = c
      BY <2>2, OutcomeStep
    <3>2. Behind(c, e) \subseteq Delivery!Left(c, e)
      BY <3>1, BehindIsLeft
    <3>3. Cardinality(Delivery!Left(c, e)) < Cardinality(Workers)
      BY <3>1, FewLeft
    <3>4. IsFiniteSet(Delivery!Left(c, e))
      <4>1. IsFiniteSet(1..MaxCommands) /\ Delivery!Left(c, e) \subseteq 1..MaxCommands
        BY FiniteCommands DEF Delivery!Left
      <4> QED
        BY <4>1, FS_Subset
    <3>5. /\ Cardinality(Behind(c, e)) <= Cardinality(Delivery!Left(c, e))
          /\ Cardinality(Behind(c, e)) \in Nat
          /\ Cardinality(Delivery!Left(c, e)) \in Nat /\ Cardinality(Workers) \in Nat
      BY <1>2, <3>2, <3>4, FS_Subset, FS_CardinalityType
    <3> QED
      BY <3>3, <3>5
  <2> QED
    BY <2>1, <2>2
<1>4. /\ Cardinality(Behind(c, e)') <= Cardinality(Behind(c, e))
      /\ Cardinality(Behind(c, e)') \in Nat
      /\ Cardinality(Behind(c, e)) \in Nat /\ Cardinality(Workers) \in Nat
  <2>1. IsFiniteSet(Behind(c, e)')
    BY <1>1, <1>2, FS_Subset
  <2> QED
    BY <1>1, <1>2, <2>1, FS_Subset, FS_CardinalityType
<1> QED
  BY <1>3, <1>4

\* Eight executors of an endpoint may overtake each other, but not by more than
\* their number: what is settled leaves at most seven earlier ones unsettled.
THEOREM OvertakingBounded == ExecutorSpec => []NearlyInOrder
<1>1. ExecutorInit => NearlyInOrder
  BY Names DEF ExecutorInit, NearlyInOrder
<1> QED
  BY <1>1, FewBehind, DeliveryInvariance, PTL DEF ExecutorSpec

-------------------------------------------------------------------------------
(***************************************************************************)
(* The composition: one goroutine, Calculate, evaluates the obligations    *)
(* and waits in Commit for room in the channels.                           *)
(***************************************************************************)
\* What the two components know of each other: a Commit is under way only in a
\* visit that has committed, and a visit commits when it has read its prices.
JointInv ==
    /\ commits \in 0..CommitsPerVisit
    /\ at # Idle => commits > 0
    /\ commits > 0 => calcPc = "visit" /\ pos > Len(Uses[cur])

\* A transaction is given to a channel, be it after a long wait for room, only
\* while the prices that its evaluation read are in force, or while a later
\* pass over its obligation is certain.
SentInForceOrReconsidered ==
    at # Idle => calcPc = "visit" /\ (Current(cur) \/ Signalled)

\* A step of the whole is a step of the price pipeline, or leaves it alone.
LEMMA PipelineStep == [NextAll]_allVars => [Next]_vars
  BY DEF NextAll, FeedStep, CalculateStep, Fire, DeliveryStep, Next, allVars

\* A step of the whole is a step of the delivery, or leaves it alone.
LEMMA DeliveryPart == [NextAll]_allVars => [ExecutorNext]_executorVars
  BY DEF NextAll, FeedStep, CalculateStep, Fire, DeliveryStep, ExecutorNext, allVars

\* Only Commit occupies the goroutine of Calculate.
LEMMA OnlyCommitOccupies ==
    ASSUME ExecutorNext, ~Commit, ExecutorTypeOK, at' # Idle
    PROVE  at # Idle
<1>1. CASE Push
  BY <1>1 DEF Push
<1>2. CASE Tick \/ SetBack \/ Spawn
  BY <1>2 DEF Tick, SetBack, Spawn
<1>3. CASE \E e \in RpcEndpoints, w \in Workers :
             Take(e, w) \/ Drop(e, w) \/ Clear(e, w) \/ Send(e, w) \/ Answer(e, w)
  BY <1>3 DEF Take, Drop, Clear, Send, Answer
<1>4. CASE \E c \in Commands : SendTransaction(c)
  BY <1>4 DEF SendTransaction
<1> QED
  BY <1>1, <1>2, <1>3, <1>4 DEF ExecutorNext

\* Every step keeps what the components know of each other.
LEMMA JointStep == JointInv /\ ExecutorTypeOK /\ [NextAll]_allVars => JointInv'
<1> SUFFICES ASSUME JointInv, ExecutorTypeOK, [NextAll]_allVars PROVE JointInv'
  OBVIOUS
<1> USE DEF JointInv, CommitsPerVisit
<1>1. CASE FeedStep \/ UNCHANGED allVars
  <2>1. UNCHANGED <<calcPc, cur, pos, at, commits>>
    BY <1>1 DEF FeedStep, Receiver, RecvAccount, OnAccountUpdate, PythWorker, UpdateAccount,
       OnUpdate, WorkerExit, Cancel, calcVars, pythVars, executorVars, vars, allVars
  <2> QED
    BY <2>1 DEF Idle
<1>2. CASE CalculateStep
  BY <1>2 DEF CalculateStep, executorVars, Idle
<1>3. CASE Fire
  <2>1. UNCHANGED <<calcPc, cur, pos>> /\ commits' = commits + 1 /\ commits < 2
    BY <1>3 DEF Fire, vars
  <2>2. commits' \in 0..2 /\ commits' > 0
    BY <2>1
  <2> QED
    BY <1>3, <2>1, <2>2 DEF Fire
<1>4. CASE DeliveryStep
  <2>1. UNCHANGED <<calcPc, cur, pos, commits>>
    BY <1>4 DEF DeliveryStep, vars
  <2>2. at' # Idle => at # Idle
    BY <1>4, OnlyCommitOccupies DEF DeliveryStep
  <2> QED
    BY <2>1, <2>2 DEF Idle
<1> QED
  BY <1>1, <1>2, <1>3, <1>4 DEF NextAll

\* The price pipeline runs inside the liquidator as it runs alone: waiting in
\* Commit takes nothing away from the steps it can make.
THEOREM PipelineInside == SpecAll => Spec
  BY PipelineStep, PTL DEF SpecAll, InitAll, Spec

\* And so does the delivery: the goroutine that evaluates obligations between
\* two commits adds nothing to what a committer can do.
THEOREM DeliveryInside == SpecAll => ExecutorSpec
  BY DeliveryPart, PTL DEF SpecAll, InitAll, ExecutorSpec

\* The liquidator inherits what its components promise: no price update is
\* lost to an obligation and no price regresses, however long Commit waits,
\* and no transaction is lost on its way, settled twice, sent behind a drop, or
\* overtaken by many.
THEOREM PromisesKept ==
    SpecAll => /\ []TypeOK /\ []NoLostUpdate /\ NoRegress /\ CTSpec
               /\ []ExecutorTypeOK /\ []Accounted /\ []NearlyInOrder
               /\ NothingSentBehindADrop /\ DeliverySpec
  BY PipelineInside, TypeCorrect, NoUpdateIsLost, PricesNeverRegress, Implements,
     DeliveryInside, DeliveryTypeCorrect, NothingIsLost, DropsCloseThePast, OvertakingBounded,
     DeliveryImplemented

\* Back-pressure makes no transaction outlive its evaluation unnoticed: while
\* liquidate waits in Commit, the prices it acted upon are in force or their
\* change has been signalled, and Calculate will look again.
THEOREM CommitInForce == SpecAll => []SentInForceOrReconsidered
<1>1. InitAll => JointInv
  BY DEF InitAll, JointInv, CommitsPerVisit, ExecutorInit, Idle
<1>2. IInv /\ JointInv => SentInForceOrReconsidered
  <2> SUFFICES ASSUME IInv, JointInv, at # Idle
               PROVE  calcPc = "visit" /\ (Current(cur) \/ Signalled)
    BY DEF SentInForceOrReconsidered
  <2>1. commits > 0 /\ calcPc = "visit" /\ pos > Len(Uses[cur])
    BY DEF JointInv
  <2>2. cur \in Obligations /\ pos \in Nat
    BY <2>1 DEF IInv, TypeOK
  <2>3. \A i \in 1..Len(Uses[cur]) : i < pos
    BY <2>1, <2>2, UsesTyped
  <2>4. Signalled \/ CurrentBelow(cur, pos)
    BY <2>1 DEF IInv, VisitInv
  <2> QED
    BY <2>1, <2>3, <2>4 DEF CurrentBelow, Current
<1> QED
  BY <1>1, <1>2, JointStep, PipelineInside, Invariance, DeliveryInside, DeliveryTypeCorrect, PTL
     DEF SpecAll

===============================================================================
