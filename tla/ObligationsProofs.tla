-------------------------- MODULE ObligationsProofs ---------------------------
(***************************************************************************)
(* TLAPS proofs about Obligations: the shared maps never change while the  *)
(* goroutines run and every Status they dereference exists; the rate limit *)
(* holds when the clock is not set back; what is passed over was healthy;  *)
(* an obligation that survived a visit is never ignored.                   *)
(***************************************************************************)
EXTENDS Obligations, TLAPS

\* Each map holds the accounts of its own kind.
KindInv ==
    /\ \A k \in obligations : Kind[k] = "obligation"
    /\ \A k \in reserves : Kind[k] = "reserve"

\* Between two passes no key is left over.
IdleInv == calcPc = "idle" => todo = {}

\* A visit stamped the key it evaluates.
StampInv == calcPc = "value" => Id[cur] # 0

\* A backed-up obligation was found healthy by its last evaluation.
BackupInv == \A k \in Accounts : Backup[k] => healthyAt[k] = Id[k] /\ Id[k] # 0

\* The counter that lets an error mark an obligation is gone after a visit.
CounterInv == \A k \in Accounts : settled[k] => Counter[k] = 0

IInv == TypeOK /\ KindInv /\ NoNilStatus /\ IdleInv /\ StampInv /\ BackupInv /\ CounterInv

-------------------------------------------------------------------------------
\* The initial states satisfy the invariant.
LEMMA InitInv == Init => IInv
<1> SUFFICES ASSUME Init PROVE IInv
  OBVIOUS
<1> USE KindAssumption, NoneAssumption, TimeAssumption, BoundAssumption
<1>1. PICK fetched \in SUBSET Accounts, built \in SUBSET Accounts :
        /\ built \subseteq fetched /\ statuses = fetched
        /\ obligations = {k \in built : Kind[k] = "obligation"}
        /\ reserves = {k \in built : Kind[k] = "reserve"}
  BY DEF Init
<1>2. obligations \in SUBSET Accounts /\ reserves \in SUBSET Accounts
      /\ statuses \in SUBSET Accounts /\ Known \subseteq statuses
  BY <1>1 DEF Known
<1>3. KindInv
  BY <1>1 DEF KindInv
<1>4. NoNilStatus
  BY <1>2 DEF Init, NoNilStatus
<1>5. IdleInv /\ StampInv /\ BackupInv /\ CounterInv
  BY DEF Init, IdleInv, StampInv, BackupInv, CounterInv
<1>6. TypeOK
  <2>1. /\ Ignore \in [Accounts -> BOOLEAN] /\ Backup \in [Accounts -> BOOLEAN]
        /\ Id \in [Accounts -> 0..MaxNow] /\ Counter \in [Accounts -> {0, 1}]
        /\ version \in [Accounts -> 0..MaxVersion]
    BY DEF Init
  <2>2. /\ updPc = "idle" /\ updKey = None /\ calcPc = "idle" /\ todo = {} /\ cur = None
        /\ failed = FALSE /\ stamp = 0 /\ needCheck = FALSE /\ fireCounter = 0 /\ now = 1 /\ wentBack = FALSE
    BY DEF Init
  <2>4. stamp \in 0..MaxNow /\ fireCounter \in Nat /\ now \in 1..MaxNow
    BY <2>2
  <2>5. failed \in BOOLEAN /\ needCheck \in BOOLEAN /\ wentBack \in BOOLEAN
    BY <2>2
  <2>3. /\ cached \in [Accounts -> 0..MaxNow] /\ evaluated \in [Accounts -> 0..MaxVersion]
        /\ healthyAt \in [Accounts -> 0..MaxNow]
        /\ overtaken \in [Accounts -> BOOLEAN] /\ settled \in [Accounts -> BOOLEAN]
    BY DEF Init
  <2> QED
    BY <1>2, <2>1, <2>2, <2>3, <2>4, <2>5 DEF TypeOK
<1> QED
  BY <1>3, <1>4, <1>5, <1>6 DEF IInv

\* buildAccount of a known account enters no key into the maps.
LEMMA BuildFacts ==
    ASSUME TypeOK, KindInv, NEW k \in Known, NEW valid \in BOOLEAN, Build(k, valid),
           version[k] < MaxVersion
    PROVE  /\ UNCHANGED <<obligations, reserves>>
           /\ version' \in [Accounts -> 0..MaxVersion]
           /\ overtaken' \in [Accounts -> BOOLEAN]
           /\ k \in Accounts
<1>1. k \in Accounts /\ (k \in obligations \/ k \in reserves)
  BY DEF Known, TypeOK
<1>2. UNCHANGED <<obligations, reserves>>
  BY <1>1 DEF Build, KindInv
<1>3. version[k] + 1 \in 0..MaxVersion
  BY <1>1, BoundAssumption DEF TypeOK
<1>4. version' \in [Accounts -> 0..MaxVersion]
  BY <1>1, <1>3 DEF Build, TypeOK
<1>5. overtaken' \in [Accounts -> BOOLEAN]
  BY <1>1 DEF Build, TypeOK, UnderEvaluation
<1> QED
  BY <1>1, <1>2, <1>4, <1>5

\* The maps change in no step.
LEMMA MapsStep ==
    ASSUME IInv, [Next]_vars
    PROVE  UNCHANGED <<obligations, reserves, statuses>>
<1>1. ASSUME NEW k \in Accounts, UpdateAccount(k)
      PROVE  UNCHANGED <<obligations, reserves, statuses>>
  <2>1. PICK valid \in BOOLEAN : Build(k, valid)
    BY <1>1 DEF UpdateAccount
  <2> QED
    BY <1>1, <2>1, BuildFacts DEF UpdateAccount, IInv
<1> QED
  BY <1>1 DEF Next, ClearIgnore, StartPass, Skip, Visit, Value, Commit, Committed, Settle,
     EndPass, Tick, SetBack, maps, clock, vars

-------------------------------------------------------------------------------
\* Every step keeps the type invariant.
LEMMA NextTyped ==
    ASSUME IInv, [Next]_vars
    PROVE  TypeOK'
<1> USE TimeAssumption, BoundAssumption
<1>0. TypeOK /\ KindInv /\ UNCHANGED <<obligations, reserves, statuses>>
  BY MapsStep DEF IInv
<1> USE DEF TypeOK, status, upd, calc, clock, history
<1>1. ASSUME NEW k \in Accounts, UpdateAccount(k) PROVE TypeOK'
  <2>1. PICK valid \in BOOLEAN : Build(k, valid)
    BY <1>1 DEF UpdateAccount
  <2>2. version' \in [Accounts -> 0..MaxVersion] /\ overtaken' \in [Accounts -> BOOLEAN]
    BY <1>0, <1>1, <2>1, BuildFacts DEF UpdateAccount
  <2> QED
    BY <1>0, <1>1, <2>2 DEF UpdateAccount
<1>2. CASE ClearIgnore
  BY <1>0, <1>2 DEF ClearIgnore
<1>3. CASE StartPass
  BY <1>0, <1>3 DEF StartPass
<1>4. ASSUME NEW k \in Accounts, Skip(k) PROVE TypeOK'
  BY <1>0, <1>4 DEF Skip, NewCounter
<1>5. ASSUME NEW k \in Accounts, Visit(k) PROVE TypeOK'
  <2>1. TooMuch(k) \in BOOLEAN
    BY DEF TooMuch
  <2> QED
    BY <1>0, <1>5, <2>1 DEF Visit
<1>6. ASSUME NEW verdict \in Verdicts, Value(verdict) PROVE TypeOK'
  <2>1. /\ evaluated' \in [Accounts -> 0..MaxVersion] /\ Backup' \in [Accounts -> BOOLEAN]
        /\ healthyAt' \in [Accounts -> 0..MaxNow]
    BY <1>0, <1>6 DEF Value
  <2>2. failed' \in BOOLEAN /\ fireCounter' \in Nat /\ calcPc' \in {"commit", "settle"}
    BY <1>0, <1>6 DEF Value
  <2> QED
    BY <1>0, <1>6, <2>1, <2>2 DEF Value
<1>7. CASE Commit \/ Committed
  BY <1>0, <1>7 DEF Commit, Committed
<1>8. CASE Settle
  <2>1. Ignore' \in [Accounts -> BOOLEAN] /\ Counter' \in [Accounts -> {0, 1}]
        /\ settled' \in [Accounts -> BOOLEAN]
    BY <1>0, <1>8 DEF Settle, NewCounter
  <2>2. /\ calcPc' = "pass" /\ cur' = None /\ failed' = FALSE /\ stamp' = 0
        /\ UNCHANGED <<statuses, Backup, Id, version, updPc, updKey, todo, needCheck,
                       fireCounter, cached, now, wentBack, evaluated, healthyAt, overtaken>>
    BY <1>0, <1>8 DEF Settle
  <2>3. failed' \in BOOLEAN
    BY <2>2
  <2>4. stamp' \in 0..MaxNow
    BY <2>2
  <2> QED
    BY <1>0, <2>1, <2>2, <2>3, <2>4
<1>9. CASE EndPass
  BY <1>0, <1>9 DEF EndPass
<1>10. CASE Tick \/ SetBack
  <2>1. now' \in 1..MaxNow
    BY <1>0, <1>10 DEF Tick, SetBack
  <2>2. wentBack' \in BOOLEAN
    BY <1>0, <1>10 DEF Tick, SetBack
  <2> QED
    BY <1>0, <1>10, <2>1, <2>2 DEF Tick, SetBack
<1>11. CASE UNCHANGED vars
  BY <1>0, <1>11 DEF vars
<1> QED
  BY <1>1, <1>2, <1>3, <1>4, <1>5, <1>6, <1>7, <1>8, <1>9, <1>10, <1>11 DEF Next

\* Every step keeps the rest of the invariant.
LEMMA NextInv ==
    ASSUME IInv, [Next]_vars
    PROVE  IInv'
<1>0. /\ TypeOK /\ TypeOK' /\ KindInv /\ NoNilStatus /\ IdleInv /\ StampInv /\ BackupInv /\ CounterInv
      /\ UNCHANGED <<obligations, reserves, statuses>>
  BY NextTyped, MapsStep DEF IInv
<1>1. KindInv'
  BY <1>0 DEF KindInv
<1>2. NoNilStatus'
  <2>1. Known' = Known /\ Known \subseteq statuses
    BY <1>0 DEF Known, NoNilStatus
  <2> QED
    BY <1>0, <2>1 DEF NoNilStatus, Known, Next, UpdateAccount, ClearIgnore, StartPass, Skip,
       Visit, Value, Commit, Committed, Settle, EndPass, Tick, SetBack, upd, calc, vars
<1>3. IdleInv'
  BY <1>0 DEF IdleInv, Next, UpdateAccount, ClearIgnore, StartPass, Skip,
     Visit, Value, Commit, Committed, Settle, EndPass, Tick, SetBack, calc, vars
<1>4. CounterInv'
  BY <1>0 DEF CounterInv, TypeOK, NewCounter, Next, UpdateAccount, ClearIgnore, StartPass, Skip,
     Visit, Value, Commit, Committed, Settle, EndPass, Tick, SetBack, status, history, vars
<1>5. BackupInv'
  <2>1. ASSUME NEW k \in Accounts, Visit(k) PROVE BackupInv'
    <3>1. /\ Backup' = [Backup EXCEPT ![k] = FALSE] /\ Id' = [Id EXCEPT ![k] = now]
          /\ UNCHANGED healthyAt
      BY <2>1 DEF Visit
    <3>2. \A j \in Accounts : Backup'[j] => j # k /\ Backup[j]
      BY <1>0, <3>1 DEF TypeOK
    <3>3. \A j \in Accounts : j # k => Id'[j] = Id[j]
      BY <1>0, <3>1 DEF TypeOK
    <3> QED
      BY <1>0, <3>1, <3>2, <3>3 DEF BackupInv
  <2>2. ASSUME NEW verdict \in Verdicts, Value(verdict) PROVE BackupInv'
    <3>1. /\ cur \in Accounts /\ UNCHANGED Id
          /\ Backup' = [Backup EXCEPT ![cur] = (verdict = "healthy")]
          /\ healthyAt' = IF verdict = "healthy"
                             THEN [healthyAt EXCEPT ![cur] = Id[cur]] ELSE healthyAt
      BY <1>0, <2>2 DEF Value, TypeOK
    <3>2. \A j \in Accounts : j # cur => Backup'[j] = Backup[j] /\ healthyAt'[j] = healthyAt[j]
      BY <1>0, <3>1 DEF TypeOK
    <3>3. Backup'[cur] => healthyAt'[cur] = Id[cur]
      BY <1>0, <3>1 DEF TypeOK
    <3>4. Id[cur] # 0
      BY <1>0, <2>2 DEF StampInv, Value
    <3> QED
      BY <1>0, <3>1, <3>2, <3>3, <3>4 DEF BackupInv
  <2>3. ASSUME UNCHANGED <<Backup, Id, healthyAt>> PROVE BackupInv'
    BY <1>0, <2>3 DEF BackupInv
  <2> QED
    BY <2>1, <2>2, <2>3 DEF Next, UpdateAccount, ClearIgnore, StartPass, Skip,
       Commit, Committed, Settle, EndPass, Tick, SetBack, status, history, vars
<1>6. StampInv'
  <2>1. ASSUME NEW k \in Accounts, Visit(k) PROVE Id'[cur'] = now /\ now # 0
    BY <1>0, <2>1, TimeAssumption DEF Visit, TypeOK
  <2> QED
    BY <1>0, <2>1 DEF StampInv, Next, UpdateAccount, ClearIgnore, StartPass, Skip,
       Value, Commit, Committed, Settle, EndPass, Tick, SetBack, status, calc, vars
<1> QED
  BY <1>0, <1>1, <1>2, <1>3, <1>4, <1>5, <1>6 DEF IInv

LEMMA Invariance == Spec => []IInv
  BY InitInv, NextInv, PTL DEF Spec

\* Type correctness of the book-keeping.
THEOREM TypeCorrect == Spec => []TypeOK
<1>1. IInv => TypeOK
  BY DEF IInv
<1> QED
  BY <1>1, Invariance, PTL

\* No goroutine dereferences the Status of a key that has none.
THEOREM NoNilDereference == Spec => []NoNilStatus
<1>1. IInv => NoNilStatus
  BY DEF IInv
<1> QED
  BY <1>1, Invariance, PTL

\* The maps calculate ranges over are never written while it runs.
THEOREM MapsStayFrozen == Spec => MapsFrozen
<1>1. IInv /\ [Next]_vars => [UNCHANGED <<obligations, reserves, statuses>>]_vars
  BY MapsStep
<1> QED
  BY <1>1, Invariance, PTL DEF Spec, MapsFrozen

\* What survived a visit is never ignored again.
THEOREM SurvivorsStay == Spec => NeverIgnoredAgain
<1>1. ASSUME IInv, [Next]_vars
      PROVE  \A k \in Accounts : settled[k] /\ ~Ignore[k] => ~Ignore'[k]
  <2>0. TypeOK /\ CounterInv
    BY <1>1 DEF IInv
  <2>1. CASE Settle
    BY <2>0, <2>1 DEF Settle, TypeOK, CounterInv
  <2>2. CASE ClearIgnore
    BY <2>0, <2>2 DEF ClearIgnore, TypeOK
  <2>3. CASE UNCHANGED Ignore
    BY <2>3
  <2> QED
    BY <1>1, <2>1, <2>2, <2>3 DEF Next, UpdateAccount, StartPass, Skip, Visit, Value, Commit,
       Committed, EndPass, Tick, SetBack, status, vars
<1>2. IInv /\ [Next]_vars
        => [\A k \in Accounts : settled[k] /\ ~Ignore[k] => ~Ignore'[k]]_vars
  BY <1>1
<1> QED
  BY <1>2, Invariance, PTL DEF Spec, NeverIgnoredAgain

-------------------------------------------------------------------------------
\* The unsigned difference is below Window only for a stamp of the last Window.
LEMMA SinceWindow ==
    ASSUME NEW a \in 1..MaxNow, NEW b \in 0..MaxNow, Since(a, b) < Window
    PROVE  b <= a /\ a < b + Window
  BY TimeAssumption DEF Since

\* A key that leaves todo unvisited was skipped.
LEMMA OnlySkipLeaves ==
    ASSUME IInv, [Next]_vars, NEW k \in Accounts, k \in todo, k \notin todo', cur' # k
    PROVE  Skip(k)
<1>1. ASSUME NEW j \in Accounts, Visit(j) PROVE FALSE
  BY <1>1 DEF Visit
<1>2. ASSUME NEW j \in Accounts, Skip(j) PROVE j = k
  BY <1>2 DEF Skip
<1>3. ~StartPass
  BY DEF IInv, IdleInv, StartPass
<1> QED
  BY <1>1, <1>2, <1>3 DEF Next, UpdateAccount, ClearIgnore, Value, Commit, Committed, Settle,
     EndPass, Tick, SetBack, calc, vars

\* What a pass leaves out is ignored or was healthy less than Window ago,
\* even when the clock was set back: the unsigned difference is huge then.
THEOREM OnlyHealthyPassedOver == Spec => PassedOverWasHealthy
<1>1. ASSUME IInv, [Next]_vars, NEW k \in Accounts,
             k \in todo, k \notin todo', cur' # k, ~Ignore[k]
      PROVE  healthyAt[k] # 0 /\ healthyAt[k] <= now /\ now < healthyAt[k] + Window
  <2>1. Skip(k)
    BY <1>1, OnlySkipLeaves
  <2>2. Backup[k] /\ Since(now, Id[k]) < Window
    BY <1>1, <2>1 DEF Skip, PassedOver
  <2>3. healthyAt[k] = Id[k] /\ Id[k] # 0 /\ now \in 1..MaxNow /\ Id[k] \in 0..MaxNow
    BY <1>1, <2>2 DEF IInv, BackupInv, TypeOK
  <2> QED
    BY <2>2, <2>3, SinceWindow
<1>2. IInv /\ [Next]_vars =>
        [\A k \in Accounts :
          k \in todo /\ k \notin todo' /\ cur' # k /\ ~Ignore[k]
              => healthyAt[k] # 0 /\ healthyAt[k] <= now /\ now < healthyAt[k] + Window]_vars
  BY <1>1
<1> QED
  BY <1>2, Invariance, PTL DEF Spec, PassedOverWasHealthy

-------------------------------------------------------------------------------
\* Until the clock is set back, every stamp lies in the past, and a visit
\* that got beyond the rate check stays beyond it.
Rates ==
    /\ \A k \in Accounts : cached[k] <= now
    /\ calcPc \in {"value", "commit"} => cached[cur] = 0 \/ now >= cached[cur] + Rate
    /\ calcPc = "sending" => stamp <= now /\ (cached[cur] # 0 => stamp >= cached[cur] + Rate)
RateInv == ~wentBack => Rates

\* The unsigned difference of times that are in order is the difference.
LEMMA SinceOrdered ==
    ASSUME NEW a \in Nat, NEW b \in Nat, b <= a
    PROVE  Since(a, b) = a - b
  BY DEF Since

\* Every step but setting the clock back keeps the stamps in order.
LEMMA RateStep ==
    ASSUME IInv, Rates, [Next]_vars, ~SetBack
    PROVE  Rates'
<1> USE DEF clock
<1>0. /\ TypeOK /\ now \in Nat /\ stamp \in Nat /\ Rate \in Nat
      /\ \A k \in Accounts : cached[k] \in Nat
  BY TimeAssumption DEF IInv, TypeOK
<1>1. ASSUME NEW k \in Accounts, Visit(k) PROVE Rates'
  <2>1. UNCHANGED <<cached, now>> /\ cur' = k /\ calcPc' \in {"settle", "value"}
        /\ (calcPc' = "value" => ~TooMuch(k))
    BY <1>1 DEF Visit
  <2>2. ~TooMuch(k) => cached[k] = 0 \/ now >= cached[k] + Rate
    <3>1. cached[k] <= now
      BY DEF Rates
    <3>2. Since(now, cached[k]) = now - cached[k]
      BY <1>0, <3>1, SinceOrdered
    <3> QED
      BY <1>0, <3>2 DEF TooMuch
  <2> QED
    BY <2>1, <2>2 DEF Rates
<1>2. ASSUME NEW verdict \in Verdicts, Value(verdict) PROVE Rates'
  BY <1>2 DEF Value, Rates
<1>3. CASE Commit
  BY <1>0, <1>3 DEF Commit, Rates
<1>4. CASE Committed
  <2>1. \A k \in Accounts : cached'[k] \in {cached[k], stamp}
    BY <1>0, <1>4 DEF Committed, TypeOK
  <2> QED
    BY <1>0, <1>4, <2>1 DEF Committed, Rates
<1>5. CASE Tick
  <2>1. now' = now + 1 /\ UNCHANGED <<cached, calcPc, cur, stamp>>
    BY <1>5 DEF Tick, calc
  <2>2. cur \in Accounts \/ calcPc \notin {"value", "commit", "sending"}
    BY <1>0 DEF TypeOK
  <2> QED
    BY <1>0, <2>1, <2>2 DEF Rates
<1>6. CASE Settle \/ StartPass \/ EndPass
  BY <1>6 DEF Settle, StartPass, EndPass, Rates
<1>7. ASSUME UNCHANGED <<calcPc, cur, stamp, cached, now>> PROVE Rates'
  BY <1>7 DEF Rates
<1> QED
  BY <1>1, <1>2, <1>3, <1>4, <1>5, <1>6, <1>7 DEF Next, UpdateAccount, ClearIgnore,
     Skip, calc, clock, vars

\* Two liquidations of an obligation are sent at least Rate apart, until the
\* clock is set back.
THEOREM RateIsLimited == Spec => []RateLimit
<1>1. Init => RateInv
  BY TimeAssumption DEF Init, RateInv, Rates
<1>2. IInv /\ RateInv /\ [Next]_vars => RateInv'
  <2>1. SetBack => wentBack'
    BY DEF SetBack
  <2>2. [Next]_vars => wentBack' \/ wentBack' = wentBack
    BY <2>1 DEF Next, UpdateAccount, ClearIgnore, StartPass, Skip, Visit, Value, Commit,
       Committed, Settle, EndPass, Tick, clock, vars
  <2> QED
    BY <2>1, <2>2, RateStep DEF RateInv
<1>3. RateInv => RateLimit
  BY DEF RateInv, Rates, RateLimit
<1> QED
  BY <1>1, <1>2, <1>3, Invariance, PTL DEF Spec

-------------------------------------------------------------------------------
\* A visit that can still mark its obligation has read the data it judges, or
\* was overtaken; one that is refused for its rate cannot mark any more.
InformedInv ==
    /\ IgnoreIsInformed
    /\ calcPc \in {"commit", "sending", "settle"} /\ Counter[cur] >= 1
         => evaluated[cur] = version[cur] \/ overtaken[cur]
    /\ \A k \in Accounts : cached[k] # 0 /\ Counter[k] >= 1 => calcPc = "settle" /\ cur = k

\* Every step keeps InformedInv.
LEMMA InformedStep ==
    ASSUME IInv, InformedInv, [Next]_vars
    PROVE  InformedInv'
<1>0. TypeOK /\ UNCHANGED <<obligations, reserves, statuses>>
  BY MapsStep DEF IInv
<1> USE DEF TypeOK, InformedInv, IgnoreIsInformed, status, upd, calc, clock, history
<1>1. ASSUME NEW k \in Accounts, UpdateAccount(k) PROVE InformedInv'
  <2>1. PICK valid \in BOOLEAN : Build(k, valid)
    BY <1>1 DEF UpdateAccount
  <2>2. /\ updPc' = "clear" /\ updKey' = k /\ updPc = "idle"
        /\ UNCHANGED <<Ignore, Counter, cached, calcPc, cur, evaluated>>
    BY <1>1 DEF UpdateAccount
  <2>3. /\ \A j \in Accounts : j # k => version'[j] = version[j] /\ overtaken'[j] = overtaken[j]
        /\ \/ version'[k] = version[k] /\ overtaken'[k] = overtaken[k]
           \/ overtaken'[k] = (overtaken[k] \/ UnderEvaluation(k))
    BY <1>0, <2>1 DEF Build
  <2>4. overtaken[k] => overtaken'[k]
    BY <1>0, <2>1 DEF Build
  <2>5. version'[k] = version[k] \/ (UnderEvaluation(k) => overtaken'[k])
    BY <1>0, <2>1 DEF Build
  <2> QED
    BY <1>0, <2>2, <2>3, <2>4, <2>5 DEF UnderEvaluation
<1>2. CASE ClearIgnore
  BY <1>0, <1>2 DEF ClearIgnore
<1>3. CASE StartPass \/ EndPass \/ Tick \/ SetBack \/ UNCHANGED vars
  BY <1>0, <1>3 DEF StartPass, EndPass, Tick, SetBack, vars
<1>4. ASSUME NEW k \in Accounts, Skip(k) PROVE InformedInv'
  BY <1>0, <1>4 DEF Skip, NewCounter
<1>5. ASSUME NEW k \in Accounts, Visit(k) PROVE InformedInv'
  <2>1. /\ calcPc = "pass" /\ cur' = k /\ ~Ignore[k]
        /\ calcPc' = IF TooMuch(k) THEN "settle" ELSE "value"
        /\ overtaken' = [overtaken EXCEPT ![k] = FALSE]
        /\ UNCHANGED <<Ignore, Counter, version, updPc, updKey, cached, evaluated>>
    BY <1>5 DEF Visit
  <2>2. TooMuch(k) => cached[k] # 0 /\ ~(Counter[k] >= 1)
    BY <2>1 DEF TooMuch
  <2> QED
    BY <1>0, <2>1, <2>2
<1>6. ASSUME NEW verdict \in Verdicts, Value(verdict) PROVE InformedInv'
  <2>1. /\ calcPc = "value" /\ calcPc' \in {"commit", "settle"} /\ cur \in Accounts
        /\ evaluated' = [evaluated EXCEPT ![cur] = version[cur]]
        /\ UNCHANGED <<Ignore, Counter, version, updPc, updKey, cached, cur, overtaken>>
    BY <1>0, <1>6 DEF Value
  <2> QED
    BY <1>0, <2>1
<1>7. CASE Commit
  BY <1>0, <1>7 DEF Commit
<1>8. CASE Committed
  <2>1. /\ calcPc = "sending" /\ calcPc' = "settle" /\ cur \in Accounts
        /\ \A k \in Accounts : k # cur => cached'[k] = cached[k]
        /\ UNCHANGED <<Ignore, Counter, version, updPc, updKey, cur, overtaken, evaluated>>
    BY <1>0, <1>8 DEF Committed
  <2> QED
    BY <1>0, <2>1
<1>9. CASE Settle
  <2>1. /\ calcPc = "settle" /\ calcPc' = "pass" /\ cur \in Accounts
        /\ \A k \in Accounts : k # cur => Ignore'[k] = Ignore[k] /\ Counter'[k] = Counter[k]
        /\ Ignore'[cur] => Ignore[cur] \/ Counter[cur] >= 1
        /\ Counter'[cur] = 0
        /\ UNCHANGED <<version, updPc, updKey, cached, overtaken, evaluated>>
    BY <1>0, <1>9 DEF Settle, NewCounter
  <2> QED
    BY <1>0, <2>1
<1> QED
  BY <1>1, <1>2, <1>3, <1>4, <1>5, <1>6, <1>7, <1>8, <1>9 DEF Next

\* Ignoring is informed: an obligation is not ignored for data it no longer
\* has, unless the data changed during the evaluation itself.
THEOREM IgnoringIsInformed == Spec => []IgnoreIsInformed
<1>1. Init => InformedInv
  BY DEF Init, InformedInv, IgnoreIsInformed
<1>2. IInv /\ InformedInv /\ [Next]_vars => InformedInv'
  BY InformedStep
<1>3. InformedInv => IgnoreIsInformed
  BY DEF InformedInv
<1> QED
  BY <1>1, <1>2, <1>3, Invariance, PTL DEF Spec
===============================================================================
