----------------------------- MODULE Obligations ------------------------------
(***************************************************************************)
(* The book-keeping of the solend program (solend/program.go): which       *)
(* accounts it knows, the Status of each, and the passes of the Calculate  *)
(* goroutine, which run concurrently with the updateAccount goroutine and  *)
(* share its maps without a lock.                                          *)
(*                                                                         *)
(* The valuation of an obligation is its verdict (module Liquidation looks *)
(* inside): prices and reserves change all the time, so any verdict is     *)
(* possible at any evaluation.  Account data is its version.  Time is the  *)
(* wall clock of time.Now(), which may be set back.                        *)
(***************************************************************************)
EXTENDS Integers, FiniteSets

CONSTANTS
    Accounts,    \* the accounts of the program on the chain
    Kind,        \* account -> "obligation", "reserve" or "other" (its data length)
    None,        \* "no account"
    Rate,        \* least time between two liquidations of an obligation (100 ms)
    Window,      \* time a healthy obligation may be passed over (5 min)
    MinFire,     \* evaluations a pass needs to keep passing over (50)
    Modulus,     \* uint64 arithmetic is modulo 2^64
    MaxNow,      \* bound: the last time of a run
    MaxVersion   \* bound: the last version of an account

ASSUME KindAssumption == Kind \in [Accounts -> {"obligation", "reserve", "other"}]
ASSUME NoneAssumption == None \notin Accounts
ASSUME TimeAssumption ==
    /\ Rate \in Nat \ {0} /\ Window \in Nat /\ MinFire \in Nat
    /\ MaxNow \in Nat \ {0} /\ Modulus \in Nat
    /\ MaxNow + Window <= Modulus /\ MaxNow + Rate <= Modulus
ASSUME BoundAssumption == MaxVersion \in Nat

VARIABLES
    obligations, reserves,   \* the keys of p.obligations and p.reserves
    statuses,                \* the keys of p.ignore
    Ignore, Backup, Id, Counter, \* the fields of *p.ignore[k]
    version,                 \* account -> version of the data held
    updPc, updKey,           \* updateAccount: "idle", or "clear" after buildAccount
    calcPc,                  \* "idle", "pass", "value", "commit", "sending", "settle"
    todo, cur,               \* keys the range loop has not reached, the key visited
    failed,                  \* the visit returned an error
    stamp,                   \* id of the command being committed
    cached,                  \* p.cached: key -> id of the last command, 0 for none
    needCheck, fireCounter,
    now,                     \* time.Now() in units of the model
    wentBack,                \* history: the clock was set back
    evaluated,               \* history: version the last evaluation read
    healthyAt,               \* history: Id of the last evaluation with verdict healthy
    overtaken,               \* history: data changed under the last evaluation
    settled                  \* history: some visit of the key has ended

maps == <<obligations, reserves, statuses>>
status == <<Ignore, Backup, Id, Counter>>
upd == <<updPc, updKey>>
calc == <<calcPc, todo, cur, failed, stamp, needCheck, fireCounter>>
history == <<evaluated, healthyAt, overtaken, settled>>
clock == <<now, wentBack>>
vars == <<maps, status, version, upd, calc, cached, clock, history>>

Known == obligations \cup reserves

\* uint64(a) - b
Since_Signed(a, b) == a - b
Since(a, b) == IF a >= b THEN a - b ELSE a - b + Modulus

-------------------------------------------------------------------------------
\* Start: every fetched account gets a Status, those that can be built enter
\* the map of their kind.  A fetch that fails leaves all maps empty.
Init ==
    /\ \E fetched \in SUBSET Accounts, built \in SUBSET Accounts :
          /\ built \subseteq fetched
          /\ statuses = fetched
          /\ obligations = {k \in built : Kind[k] = "obligation"}
          /\ reserves = {k \in built : Kind[k] = "reserve"}
    /\ Ignore = [k \in Accounts |-> FALSE]
    /\ Backup = [k \in Accounts |-> FALSE]
    /\ Id = [k \in Accounts |-> 0]
    /\ Counter = [k \in Accounts |-> 1]
    /\ version = [k \in Accounts |-> 0]
    /\ updPc = "idle" /\ updKey = None
    /\ calcPc = "idle" /\ todo = {} /\ cur = None /\ failed = FALSE /\ stamp = 0
    /\ cached = [k \in Accounts |-> 0]
    /\ needCheck = FALSE /\ fireCounter = 0
    /\ now = 1 /\ wentBack = FALSE
    /\ evaluated = [k \in Accounts |-> 0]
    /\ healthyAt = [k \in Accounts |-> 0]
    /\ overtaken = [k \in Accounts |-> FALSE]
    /\ settled = [k \in Accounts |-> FALSE]

\* A visit of k has read the account data and may still mark it.
UnderEvaluation(k) == cur = k /\ calcPc \in {"commit", "sending", "settle"}

\* What buildAccount stores of an account of k: an invalid one leaves the old
\* data, a valid one replaces it or, were the key unknown, enters it.
Build(k, valid) ==
    /\ version' = [version EXCEPT ![k] = IF valid THEN @ + 1 ELSE @]
    /\ obligations' = IF valid /\ Kind[k] = "obligation"
                        THEN obligations \cup {k} ELSE obligations
    /\ reserves' = IF valid /\ Kind[k] = "reserve"
                     THEN reserves \cup {k} ELSE reserves
    /\ overtaken' = [overtaken EXCEPT ![k] = @ \/ (valid /\ UnderEvaluation(k))]

\* A wrong variant of UpdateAccount: the check that the key is known is missing.
UpdateAccount_Unchecked(k) ==
    /\ updPc = "idle"
    /\ version[k] < MaxVersion
    /\ \E valid \in BOOLEAN : Build(k, valid)
    /\ updPc' = "clear"
    /\ updKey' = k
    /\ UNCHANGED <<statuses, status, calc, cached, clock, evaluated, healthyAt, settled>>

\* updateAccount takes an account of k; unknown keys are skipped.
UpdateAccount(k) ==
    /\ updPc = "idle"
    /\ version[k] < MaxVersion
    /\ k \in Known
    /\ \E valid \in BOOLEAN : Build(k, valid)
    /\ updPc' = "clear"
    /\ updKey' = k
    /\ UNCHANGED <<statuses, status, calc, cached, clock, evaluated, healthyAt, settled>>

\* A wrong variant of ClearIgnore: only reserves are taken back into account.
ClearIgnore_Forgotten ==
    /\ updPc = "clear"
    /\ Ignore' = IF updKey \in reserves THEN [Ignore EXCEPT ![updKey] = FALSE] ELSE Ignore
    /\ updPc' = "idle"
    /\ updKey' = None
    /\ UNCHANGED <<maps, Backup, Id, Counter, version, calc, cached, clock, history>>

\* status.Ignore = false, also when the account could not be built.
ClearIgnore ==
    /\ updPc = "clear"
    /\ Ignore' = [Ignore EXCEPT ![updKey] = FALSE]
    /\ updPc' = "idle"
    /\ updKey' = None
    /\ UNCHANGED <<maps, Backup, Id, Counter, version, calc, cached, clock, history>>

-------------------------------------------------------------------------------
\* calculate begins (module PriceTrigger says when).
StartPass ==
    /\ calcPc = "idle"
    /\ calcPc' = "pass"
    /\ todo' = obligations
    /\ fireCounter' = 0
    /\ UNCHANGED <<maps, status, version, upd, cur, failed, stamp, cached, needCheck, clock, history>>

\* k was healthy a moment ago and such obligations are passed over.
PassedOver(k) == ~needCheck /\ Backup[k] /\ Since(now, Id[k]) < Window

\* status.Counter = 0 at the end of every visit.  A wrong variant: the
\* counter is kept.
NewCounter_Keep(c) == c
NewCounter(c) == 0

\* k is ignored or passed over: the evaluation returns nil at once.
Skip(k) ==
    /\ calcPc = "pass"
    /\ k \in todo
    /\ Ignore[k] \/ PassedOver(k)
    /\ todo' = todo \ {k}
    /\ Counter' = [Counter EXCEPT ![k] = NewCounter(@)]
    /\ settled' = [settled EXCEPT ![k] = TRUE]
    /\ UNCHANGED <<maps, Ignore, Backup, Id, version, upd, calcPc, cur, failed, stamp,
                   needCheck, fireCounter, cached, clock, evaluated, healthyAt, overtaken>>

TooMuch_Never(k) == FALSE

\* "too much in 100 milliseconds"
TooMuch(k) == cached[k] # 0 /\ Since(now, cached[k]) < Rate

\* k is due: Backup is taken back, Id is stamped, and a k that was liquidated
\* a moment ago is an error.
Visit(k) ==
    /\ calcPc = "pass"
    /\ k \in todo
    /\ ~Ignore[k] /\ ~PassedOver(k)
    /\ todo' = todo \ {k}
    /\ cur' = k
    /\ Backup' = [Backup EXCEPT ![k] = FALSE]
    /\ Id' = [Id EXCEPT ![k] = now]
    /\ failed' = TooMuch(k)
    /\ calcPc' = IF TooMuch(k) THEN "settle" ELSE "value"
    /\ overtaken' = [overtaken EXCEPT ![k] = FALSE]
    /\ UNCHANGED <<maps, Ignore, Counter, version, upd, stamp, needCheck, fireCounter,
                   cached, clock, evaluated, healthyAt, settled>>

\* "invalid": a lookup failed or the value is too small, before the counter;
\* "healthy", "watch": no liquidation is due; "stuck": one is due but cannot
\* be built; "fire": its instructions are ready.
Verdicts == {"invalid", "healthy", "watch", "stuck", "fire"}

\* A wrong variant of Value: what is worth watching is passed over as well.
Value_BackupAll(verdict) ==
    /\ calcPc = "value"
    /\ evaluated' = [evaluated EXCEPT ![cur] = version[cur]]
    /\ fireCounter' = IF verdict = "invalid" THEN fireCounter ELSE fireCounter + 1
    /\ Backup' = [Backup EXCEPT ![cur] = verdict \in {"healthy", "watch"}]
    /\ healthyAt' = IF verdict = "healthy" THEN [healthyAt EXCEPT ![cur] = Id[cur]] ELSE healthyAt
    /\ failed' = (verdict \in {"invalid", "stuck"})
    /\ calcPc' = IF verdict = "fire" THEN "commit" ELSE "settle"
    /\ UNCHANGED <<maps, Ignore, Id, Counter, version, upd, todo, cur, stamp, needCheck,
                   cached, clock, overtaken, settled>>

\* The valuation of cur comes to a verdict.
Value(verdict) ==
    /\ calcPc = "value"
    /\ evaluated' = [evaluated EXCEPT ![cur] = version[cur]]
    /\ fireCounter' = IF verdict = "invalid" THEN fireCounter ELSE fireCounter + 1
    /\ Backup' = [Backup EXCEPT ![cur] = (verdict = "healthy")]
    /\ healthyAt' = IF verdict = "healthy" THEN [healthyAt EXCEPT ![cur] = Id[cur]] ELSE healthyAt
    /\ failed' = (verdict \in {"invalid", "stuck"})
    /\ calcPc' = IF verdict = "fire" THEN "commit" ELSE "settle"
    /\ UNCHANGED <<maps, Ignore, Id, Counter, version, upd, todo, cur, stamp, needCheck,
                   cached, clock, overtaken, settled>>

\* id := time.Now(), and Commit is called with it; it may block for long.
Commit ==
    /\ calcPc = "commit"
    /\ stamp' = now
    /\ calcPc' = "sending"
    /\ UNCHANGED <<maps, status, version, upd, todo, cur, failed, needCheck, fireCounter,
                   cached, clock, history>>

\* Commit returned: cached is stamped, and the balance command follows.
Committed ==
    /\ calcPc = "sending"
    /\ cached' = [cached EXCEPT ![cur] = stamp]
    /\ calcPc' = "settle"
    /\ UNCHANGED <<maps, status, version, upd, todo, cur, failed, stamp, needCheck,
                   fireCounter, clock, history>>

\* Back in calculate: an error in the first visit since Start marks cur.
Settle ==
    /\ calcPc = "settle"
    /\ Ignore' = [Ignore EXCEPT ![cur] = @ \/ (failed /\ Counter[cur] >= 1)]
    /\ Counter' = [Counter EXCEPT ![cur] = NewCounter(@)]
    /\ settled' = [settled EXCEPT ![cur] = TRUE]
    /\ calcPc' = "pass"
    /\ cur' = None
    /\ failed' = FALSE /\ stamp' = 0
    /\ UNCHANGED <<maps, Backup, Id, version, upd, todo, needCheck, fireCounter,
                   cached, clock, evaluated, healthyAt, overtaken>>

\* A pass that evaluated few obligations ends the passing over for good.
EndPass ==
    /\ calcPc = "pass"
    /\ todo = {}
    /\ needCheck' = (needCheck \/ fireCounter < MinFire)
    /\ calcPc' = "idle"
    /\ UNCHANGED <<maps, status, version, upd, todo, cur, failed, stamp, fireCounter,
                   cached, clock, history>>

-------------------------------------------------------------------------------
Tick ==
    /\ now < MaxNow
    /\ now' = now + 1
    /\ UNCHANGED <<wentBack, maps, status, version, upd, calc, cached, history>>

SetBack ==
    /\ \E t \in 1..(now - 1) : now' = t
    /\ wentBack' = TRUE
    /\ UNCHANGED <<maps, status, version, upd, calc, cached, history>>

Next ==
    \/ \E k \in Accounts : UpdateAccount(k)
    \/ ClearIgnore
    \/ StartPass
    \/ \E k \in Accounts : Skip(k) \/ Visit(k)
    \/ \E verdict \in Verdicts : Value(verdict)
    \/ Commit \/ Committed \/ Settle \/ EndPass
    \/ Tick \/ SetBack

Spec == Init /\ [][Next]_vars

-------------------------------------------------------------------------------
TypeOK ==
    /\ obligations \in SUBSET Accounts /\ reserves \in SUBSET Accounts
    /\ statuses \in SUBSET Accounts
    /\ Ignore \in [Accounts -> BOOLEAN] /\ Backup \in [Accounts -> BOOLEAN]
    /\ Id \in [Accounts -> 0..MaxNow] /\ Counter \in [Accounts -> {0, 1}]
    /\ version \in [Accounts -> 0..MaxVersion]
    /\ updPc \in {"idle", "clear"} /\ updKey \in Accounts \cup {None}
    /\ updPc = "clear" => updKey \in Accounts
    /\ calcPc \in {"idle", "pass", "value", "commit", "sending", "settle"}
    /\ todo \in SUBSET Accounts /\ cur \in Accounts \cup {None}
    /\ calcPc \in {"value", "commit", "sending", "settle"} => cur \in Accounts
    /\ failed \in BOOLEAN /\ stamp \in 0..MaxNow
    /\ cached \in [Accounts -> 0..MaxNow]
    /\ needCheck \in BOOLEAN /\ fireCounter \in Nat
    /\ now \in 1..MaxNow /\ wentBack \in BOOLEAN
    /\ evaluated \in [Accounts -> 0..MaxVersion]
    /\ healthyAt \in [Accounts -> 0..MaxNow]
    /\ overtaken \in [Accounts -> BOOLEAN] /\ settled \in [Accounts -> BOOLEAN]

\* Every key whose *Status a goroutine dereferences has one, although neither
\* updateAccount nor calculate checks the lookup.
NoNilStatus ==
    /\ Known \subseteq statuses
    /\ updPc = "clear" => updKey \in statuses
    /\ todo \subseteq statuses
    /\ cur # None => cur \in statuses

\* While updateAccount and calculate share them without a lock, the maps get
\* no new key: Go aborts a program that inserts into a map another goroutine
\* is ranging over.
MapsFrozen == [][UNCHANGED <<obligations, reserves, statuses>>]_vars

\* An obligation is ignored only on account of the data it still has; the
\* exception is data that changed while its first evaluation was under way,
\* for then updateAccount may clear the mark before calculate sets it.
IgnoreIsInformed ==
    \A k \in Accounts :
        Ignore[k] /\ ~(updPc = "clear" /\ updKey = k)
            => evaluated[k] = version[k] \/ overtaken[k]

\* Only the first visit after Start can mark an obligation: once it survived
\* a visit, or an update of its account took the mark back, it stays in sight.
NeverIgnoredAgain ==
    [][\A k \in Accounts : settled[k] /\ ~Ignore[k] => ~Ignore'[k]]_vars

\* What a pass leaves out without evaluating it is ignored, or was evaluated
\* and found healthy less than Window ago, even when the clock was set back.
PassedOverWasHealthy ==
    [][\A k \in Accounts :
          k \in todo /\ k \notin todo' /\ cur' # k /\ ~Ignore[k]
              => healthyAt[k] # 0 /\ healthyAt[k] <= now /\ now < healthyAt[k] + Window]_vars

\* Two liquidations of an obligation are sent at least Rate apart, as long as
\* the clock is not set back.
RateLimit ==
    ~wentBack /\ calcPc = "sending" /\ cached[cur] # 0 => stamp >= cached[cur] + Rate
===============================================================================
