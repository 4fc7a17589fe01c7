----------------------------- MODULE ListenerProofs -----------------------------
(***************************************************************************)
(* That the listener reports the liquidations exactly, and once, proved    *)
(* for every size of a page and of the queue and every history.            *)
(***************************************************************************)
EXTENDS Listener, WellFoundedInduction, TLAPS

USE SizeAssumption, BoundsAssumption DEF Liquidates

-------------------------------------------------------------------------------
(***************************************************************************)
(* Sets and sequences.                                                     *)
(***************************************************************************)
Less == {p \in Nat \X Nat : p[1] < p[2]}

\* Numbers have a least one.
LEMMA Least ==
    ASSUME NEW T, T \subseteq Nat, T # {}
    PROVE  \E x \in T : \A y \in T : x <= y
<1>1. IsWellFoundedOn(Less, Nat)
  BY NatLessThanWellFounded DEF OpToRel, Less
<1>2. PICK x \in T : \A y \in T : ~ (<<y, x>> \in Less)
  BY <1>1, WFMin
<1>3. ASSUME NEW y \in T PROVE x <= y
  <2>1. <<y, x>> \notin Less /\ x \in Nat /\ y \in Nat
    BY <1>2
  <2> QED
    BY <2>1 DEF Less
<1> QED
  BY <1>3

\* Transactions have a newest one, and Max is it.
LEMMA MaxFacts ==
    ASSUME NEW S, S \subseteq Transactions, S # {}
    PROVE  Max(S) \in S /\ \A y \in S : y <= Max(S)
<1> DEFINE T == {MaxTx - x : x \in S}
<1>1. \A x \in S : x \in Nat /\ MaxTx - x \in Nat
  BY DEF Transactions
<1>2. T \subseteq Nat /\ T # {}
  BY <1>1
<1>3. PICK m \in T : \A y \in T : m <= y
  BY <1>2, Least
<1>4. PICK x \in S : m = MaxTx - x
  BY <1>3
<1>5. ASSUME NEW y \in S PROVE x >= y
  <2>1. MaxTx - x <= MaxTx - y
    BY <1>3, <1>4
  <2> QED
    BY <1>1, <2>1
<1>6. Max(S) \in S /\ \A y \in S : Max(S) >= y
  BY <1>5 DEF Max
<1> QED
  BY <1>1, <1>6

LEMMA MinFacts ==
    ASSUME NEW S, S \subseteq Transactions, S # {}
    PROVE  Min(S) \in S /\ \A y \in S : Min(S) <= y
<1>1. S \subseteq Nat
  BY DEF Transactions
<1>2. \E x \in S : \A y \in S : x <= y
  BY <1>1, Least
<1> QED
  BY <1>2 DEF Min

\* No element twice.
Unique(q) == \A i, j \in 1..Len(q) : q[i] = q[j] => i = j

LEMMA AppendIn ==
    ASSUME NEW q \in Seq(Transactions), NEW t \in Transactions
    PROVE  /\ In(Append(q, t)) = In(q) \cup {t} /\ Append(q, t) \in Seq(Transactions)
           /\ Len(Append(q, t)) = Len(q) + 1
           /\ Unique(q) /\ t \notin In(q) => Unique(Append(q, t))
<1> DEFINE r == Append(q, t)
<1>1. /\ r \in Seq(Transactions) /\ Len(q) \in Nat /\ Len(r) = Len(q) + 1
      /\ \A i \in 1..Len(q) : r[i] = q[i]
      /\ r[Len(q) + 1] = t
  OBVIOUS
<1> HIDE DEF r
<1>2. 1..Len(r) = 1..Len(q) \cup {Len(q) + 1}
  BY <1>1
<1>3. In(r) = In(q) \cup {t}
  BY <1>1, <1>2 DEF In
<1>4. ASSUME Unique(q), t \notin In(q) PROVE Unique(r)
  <2> SUFFICES ASSUME NEW i \in 1..Len(r), NEW j \in 1..Len(r), r[i] = r[j] PROVE i = j
    BY DEF Unique
  <2>1. CASE i \in 1..Len(q) /\ j \in 1..Len(q)
    BY <1>1, <1>4, <2>1 DEF Unique
  <2>2. CASE i \in 1..Len(q) /\ j = Len(q) + 1
    BY <1>1, <1>4, <2>2 DEF In
  <2>3. CASE i = Len(q) + 1 /\ j \in 1..Len(q)
    BY <1>1, <1>4, <2>3 DEF In
  <2> QED
    BY <1>2, <2>1, <2>2, <2>3
<1> QED
  BY <1>1, <1>3, <1>4 DEF r

LEMMA TailIn ==
    ASSUME NEW q \in Seq(Transactions), q # <<>>
    PROVE  /\ Head(q) \in Transactions /\ Tail(q) \in Seq(Transactions)
           /\ Len(Tail(q)) = Len(q) - 1
           /\ In(q) = {Head(q)} \cup In(Tail(q))
           /\ Unique(q) => Unique(Tail(q)) /\ Head(q) \notin In(Tail(q))
<1> DEFINE h == Head(q)
           r == Tail(q)
<1>1. /\ h \in Transactions /\ r \in Seq(Transactions) /\ h = q[1]
      /\ Len(q) \in Nat /\ Len(q) >= 1 /\ Len(r) = Len(q) - 1
      /\ \A i \in 1..(Len(q) - 1) : r[i] = q[i + 1]
  OBVIOUS
<1> HIDE DEF h, r
<1>2. \A i \in 1..Len(r) : r[i] = q[i + 1] /\ i + 1 \in 1..Len(q) /\ i \in Nat
  BY <1>1
<1>3. \A i \in 1..Len(q) : i = 1 \/ (i - 1 \in 1..Len(r) /\ r[i - 1] = q[i])
  <2> SUFFICES ASSUME NEW i \in 1..Len(q), i # 1 PROVE i - 1 \in 1..Len(r) /\ r[i - 1] = q[i]
    OBVIOUS
  <2>1. i - 1 \in 1..Len(r) /\ (i - 1) + 1 = i
    BY <1>1
  <2> QED
    BY <1>2, <2>1
<1>4. 1 \in 1..Len(q)
  BY <1>1
<1>5. In(q) = {h} \cup In(r)
  <2>1. ASSUME NEW x \in In(q) PROVE x \in {h} \cup In(r)
    <3>1. PICK i \in 1..Len(q) : x = q[i]
      BY DEF In
    <3> QED
      BY <1>1, <1>3, <3>1 DEF In
  <2>2. ASSUME NEW x \in In(r) PROVE x \in In(q)
    <3>1. PICK i \in 1..Len(r) : x = r[i]
      BY DEF In
    <3> QED
      BY <1>2, <3>1 DEF In
  <2>3. h \in In(q)
    BY <1>1, <1>4 DEF In
  <2> QED
    BY <2>1, <2>2, <2>3
<1>6. ASSUME Unique(q) PROVE Unique(r) /\ h \notin In(r)
  <2>1. ASSUME NEW i \in 1..Len(r), NEW j \in 1..Len(r), r[i] = r[j] PROVE i = j
    <3>1. i + 1 = j + 1
      BY <1>2, <1>6, <2>1 DEF Unique
    <3> QED
      BY <1>2, <3>1
  <2>2. ASSUME h \in In(r) PROVE FALSE
    <3>1. PICK i \in 1..Len(r) : h = r[i]
      BY <2>2 DEF In
    <3>2. q[1] = q[i + 1]
      BY <1>1, <1>2, <3>1
    <3>3. 1 = i + 1
      BY <1>2, <1>4, <1>6, <3>2 DEF Unique
    <3> QED
      BY <1>2, <3>3
  <2> QED
    BY <2>1, <2>2 DEF Unique
<1> QED
  BY <1>1, <1>5, <1>6 DEF h, r

-------------------------------------------------------------------------------
(***************************************************************************)
(* Type correctness.                                                       *)
(***************************************************************************)
LEMMA PageFacts ==
    ASSUME TypeOK
    PROVE  /\ Page(before) \subseteq Transactions
           /\ Page(before) # {} =>
                 /\ Min(Page(before)) \in Page(before) /\ Max(Page(before)) \in Page(before)
                 /\ \A t \in Page(before) : Min(Page(before)) <= t
<1>1. Page(before) \subseteq Transactions
  BY DEF Page, Transactions, TypeOK
<1> QED
  BY <1>1, MaxFacts, MinFacts

LEMMA NextType == TypeOK /\ [Next]_vars => TypeOK'
<1> SUFFICES ASSUME TypeOK, [Next]_vars PROVE TypeOK'
  OBVIOUS
<1> USE DEF TypeOK, pollVars
<1>1. ASSUME NEW kind \in Kinds, ChainGrows(kind) PROVE TypeOK'
  BY <1>1 DEF ChainGrows
<1>2. CASE Tick
  BY <1>2 DEF Tick
<1>3. CASE EmptyPage
  <2>1. (Position + 1)..(before - 1) \subseteq Transactions
    BY DEF Transactions
  <2>2. skipped' \in SUBSET Transactions /\ blanks' \in 0..MaxBlanks
    BY <1>3, <2>1 DEF EmptyPage
  <2>3. /\ pc' = "filter"
        /\ UNCHANGED <<chain, Position, before, transactions, notSure, direct, inner, since,
                       obligationChan, notifier, cancelled, told>>
    BY <1>3 DEF EmptyPage
  <2> QED
    BY <2>2, <2>3
<1>4. CASE CollectPage
  <2> DEFINE txs == Page(before)
  <2>1. txs \subseteq Transactions /\ Min(txs) \in txs /\ Max(txs) \in txs
    BY <1>4, PageFacts DEF CollectPage
  <2>2. before' = Min(txs) /\ before' \in 0..MaxTx
    BY <1>4, <2>1 DEF CollectPage, Transactions
  <2>3. transactions' \subseteq transactions \cup txs
    BY <1>4, <2>1 DEF CollectPage
  <2>4. /\ pc' \in {"filter", "page"}
        /\ UNCHANGED <<chain, Position, notSure, direct, inner, since, skipped, blanks,
                       obligationChan, notifier, cancelled, told>>
    BY <1>4 DEF CollectPage
  <2> QED
    BY <2>1, <2>2, <2>3, <2>4
<1>5. CASE Filter
  <2>1. transactions # {} => NewPosition \in Transactions
    BY MaxFacts DEF NewPosition
  <2>2. Position' \in 0..MaxTx /\ since' \in 0..MaxTx
    BY <1>5, <2>1 DEF Filter, Transactions
  <2>3. direct' \in SUBSET Transactions /\ notSure' \in SUBSET Transactions
    BY <1>5 DEF Filter
  <2> QED
    BY <1>5, <2>2, <2>3 DEF Filter
<1>6. CASE GetDetail
  BY <1>6, MaxFacts DEF GetDetail
<1>10. CASE BlankDetail
  <2>1. Max(notSure) \in Transactions
    BY <1>10, MaxFacts DEF BlankDetail
  <2>2. blanks' \in 0..MaxBlanks
    BY <1>10 DEF BlankDetail
  <2>3. notSure' \in SUBSET Transactions /\ skipped' \in SUBSET Transactions
    BY <1>10, <2>1 DEF BlankDetail
  <2> QED
    BY <1>10, <2>2, <2>3 DEF BlankDetail
<1>7. CASE Push
  <2>1. Max(IF direct # {} THEN direct ELSE inner) \in Transactions
    BY <1>7, MaxFacts DEF Push
  <2>2. obligationChan' \in Seq(Transactions) /\ Len(obligationChan') <= ChanCap
    BY <1>7, <2>1, AppendIn DEF Push
  <2> QED
    BY <1>7, <2>2 DEF Push
<1>8. CASE EndPoll \/ Panic \/ Cancel \/ PollerExit \/ NotifierExit \/ UNCHANGED vars
  BY <1>8 DEF EndPoll, Panic, Cancel, PollerExit, NotifierExit, vars
<1>9. CASE Notify
  BY <1>9, TailIn, AppendIn DEF Notify
<1> QED
  BY <1>1, <1>2, <1>3, <1>4, <1>5, <1>6, <1>7, <1>8, <1>9, <1>10 DEF Next, Poll

LEMMA InitType == Init => TypeOK
<1> SUFFICES ASSUME Init PROVE TypeOK
  OBVIOUS
<1>1. <<>> \in Seq(Kinds) /\ <<>> \in Seq(Transactions) /\ Len(<<>>) = 0
  OBVIOUS
<1>2. /\ chain \in Seq(Kinds) /\ Len(chain) <= MaxTx /\ told \in Seq(Transactions)
      /\ obligationChan \in Seq(Transactions) /\ Len(obligationChan) <= ChanCap
  BY <1>1 DEF Init
<1>3. 0 \in 0..MaxTx /\ 0 \in 0..MaxBlanks
  OBVIOUS
<1> QED
  BY <1>2, <1>3 DEF Init, TypeOK

\* Every reachable state is well-typed, and the queue within its capacity.
THEOREM TypeCorrect == Spec => []TypeOK
  BY InitType, NextType, PTL DEF Spec

-------------------------------------------------------------------------------
(***************************************************************************)
(* The inductive invariant.                                                *)
(***************************************************************************)
\* Everything that was found is up to Position, and Position is in the history.
Bounded ==
    /\ Position <= Len(chain) /\ since <= Position /\ (Position # 0 => since # 0)
    /\ In(told) \cup In(obligationChan) \cup direct \cup inner \cup notSure \subseteq 1..Position
    /\ pc # "filter" => skipped \subseteq 1..Position

\* Between the polls and while it pages, the poller has nothing at hand.
EmptyHanded == pc \in {"wait", "page", "filter", "exited"} => direct \cup inner \cup notSure = {}

\* What is known to be a liquidation is not asked about.
AtHandOnce == notSure \cap (direct \cup inner) = {}

\* The details are asked for what may be a liquidation inside.
Unsure == \A t \in notSure : chain[t] \in {"inner", "unknown"}

\* While it pages, it has collected all from before to the newest of the first
\* page, and has not yet come to Position.
Paging ==
    pc = "page" =>
        /\ before = 0 => transactions = {}
        /\ Position = 0 => before = 0
        /\ before # 0 =>
              /\ Position < before /\ before \in transactions
              /\ \A t \in transactions :
                    /\ before <= t /\ t <= Len(chain)
                    /\ \A s \in before..t : s \in transactions

\* What it has collected in the end reaches down to Position, but for what the
\* blank answer hides; at first it is the newest transaction only.
Gathered ==
    pc = "filter" =>
        /\ \A t \in transactions : Position < t /\ t <= Len(chain)
        /\ Position # 0 => \A t \in transactions :
                               \A s \in (Position + 1)..t : s \in transactions \cup skipped
        /\ Position = 0 => skipped = {} /\ \A t, s \in transactions : t = s
        /\ skipped \cap transactions = {}
        /\ \A s \in skipped : s \in 1..Position \/ \E t \in transactions : s < t

Inv ==
    /\ TypeOK /\ Bounded /\ EmptyHanded /\ AtHandOnce /\ Unsure /\ Paging /\ Gathered
    /\ Complete /\ ToldOnce

\* A page is the transactions down from the one before before.
LEMMA PageIs ==
    ASSUME TypeOK, NEW newest, newest = IF before = 0 THEN Len(chain) ELSE before - 1
    PROVE  /\ newest \in Int
           /\ \A t : t \in Page(before) <=> t \in Int /\ 1 <= t /\ t <= newest /\ newest - PageSize < t
           /\ Page(before) # {} => Max(Page(before)) = newest
           /\ newest >= 1 => Page(before) # {}
<1>1. newest \in Int /\ PageSize \in Int /\ PageSize >= 1
  BY DEF TypeOK
<1>2. \A t : t \in Page(before) <=> t \in Int /\ 1 <= t /\ t <= newest /\ newest - PageSize < t
  BY <1>1 DEF Page
<1>3. newest >= 1 => newest \in Page(before)
  BY <1>1, <1>2
<1>4. ASSUME Page(before) # {} PROVE Max(Page(before)) = newest
  <2>1. PICK t \in Page(before) : TRUE
    BY <1>4
  <2>2. newest \in Page(before)
    BY <1>1, <1>2, <1>3, <2>1
  <2>3. Max(Page(before)) \in Page(before) /\ newest <= Max(Page(before))
    BY <2>2, PageFacts, MaxFacts
  <2> QED
    BY <1>1, <1>2, <2>3
<1> QED
  BY <1>1, <1>2, <1>3, <1>4

LEMMA InitInv == Init => Inv
<1> SUFFICES ASSUME Init PROVE Inv
  OBVIOUS
<1>1. In(<<>>) = {} /\ Len(<<>>) = 0
  BY DEF In
<1> QED
  BY <1>1, InitType
     DEF Init, Inv, Bounded, EmptyHanded, AtHandOnce, Unsure, Paging, Gathered, Complete, ToldOnce

\* The history grows, and what was known of it stays.
LEMMA ChainGrowsInv ==
    ASSUME Inv, NEW kind \in Kinds, ChainGrows(kind) PROVE Inv'
<1>1. /\ chain' = Append(chain, kind) /\ chain \in Seq(Kinds) /\ Len(chain) \in Nat
      /\ UNCHANGED <<pollVars, obligationChan, told>>
  BY DEF ChainGrows, Inv, TypeOK
<1>2. Len(chain') = Len(chain) + 1 /\ \A t \in 1..Len(chain) : chain'[t] = chain[t]
  BY <1>1
<1>3. /\ Position \in Nat /\ since \in Nat /\ 1..Position \subseteq 1..Len(chain)
      /\ \A t \in 1..Position : IsLiquidation(t)' <=> IsLiquidation(t)
  BY <1>1, <1>2 DEF Inv, TypeOK, Bounded, IsLiquidation
<1>4. Bounded' /\ EmptyHanded' /\ Unsure'
  BY <1>1, <1>2, <1>3 DEF Inv, Bounded, EmptyHanded, AtHandOnce, Unsure, pollVars
<1>5. \A t \in transactions : t \in Int
  BY DEF Inv, TypeOK, Transactions
<1>6. Paging' /\ Gathered'
  <2>1. Paging'
    BY <1>1, <1>2, <1>5 DEF Inv, Paging, pollVars
  <2>2. Gathered'
    BY <1>1, <1>2, <1>5 DEF Inv, Gathered, pollVars
  <2> QED
    BY <2>1, <2>2
<1>7. Complete'
  <2> SUFFICES ASSUME Position # 0 PROVE Complete'
    BY <1>1 DEF Complete, pollVars
  <2>1. since..Position \subseteq 1..Position
    BY <1>3 DEF Inv, Bounded
  <2>2. {t \in since..Position : IsLiquidation(t)'} = {t \in since..Position : IsLiquidation(t)}
    BY <1>3, <2>1
  <2>3. {t \in notSure : IsLiquidation(t)'} = {t \in notSure : IsLiquidation(t)}
    BY <1>3 DEF Inv, Bounded
  <2> QED
    BY <1>1, <2>2, <2>3 DEF Inv, Complete, pollVars
<1>8. ToldOnce'
  BY <1>1 DEF Inv, ToldOnce, pollVars
<1>9. TypeOK'
  BY NextType DEF Inv, Next
<1>10. AtHandOnce'
  BY <1>1 DEF Inv, AtHandOnce, pollVars
<1> QED
  BY <1>4, <1>6, <1>7, <1>8, <1>9, <1>10 DEF Inv

\* What was found stays so while the poller pages.
LEMMA FoundStays ==
    ASSUME Inv, UNCHANGED <<chain, Position, since, told, obligationChan, direct, inner, notSure>>,
           \A s \in 1..Position : s \in skipped' <=> s \in skipped
    PROVE  Complete' /\ ToldOnce' /\ Unsure'
<1>1. since..Position \subseteq 1..Position \/ Position = 0
  BY DEF Inv, TypeOK, Bounded
<1>2. Complete'
  BY <1>1 DEF Inv, Complete, IsLiquidation
<1> QED
  BY <1>2 DEF Inv, ToldOnce, Unsure

LEMMA TickInv == ASSUME Inv, Tick PROVE Inv'
<1>1. /\ pc = "wait" /\ pc' = "page" /\ before' = 0 /\ transactions' = {}
      /\ UNCHANGED <<chain, Position, since, told, obligationChan, direct, inner, notSure, skipped>>
  BY DEF Tick
<1>2. TypeOK'
  BY NextType DEF Inv, Next, Poll
<1> QED
  BY <1>1, <1>2, FoundStays DEF Inv, Bounded, EmptyHanded, AtHandOnce, Paging, Gathered

LEMMA EmptyPageInv == ASSUME Inv, EmptyPage PROVE Inv'
<1>1. /\ pc = "page" /\ pc' = "filter"
      /\ UNCHANGED <<chain, Position, before, transactions, since, told, obligationChan, direct,
                     inner, notSure>>
      /\ \/ Page(before) = {} /\ skipped' = skipped
         \/ skipped' = skipped \cup (Position + 1)..(before - 1)
  BY DEF EmptyPage
<1>2. TypeOK'
  BY NextType DEF Inv, Next, Poll
<1>3. Position \in Nat /\ before \in Nat /\ skipped \subseteq 1..Position /\ Len(chain) \in Nat
  BY <1>1 DEF Inv, TypeOK, Bounded
<1>4. skipped \subseteq skipped' /\ \A s \in skipped' : s \in skipped \/ Position < s
  BY <1>1, <1>3
<1>5. Complete' /\ ToldOnce' /\ Unsure'
  BY <1>1, <1>3, <1>4, FoundStays
<1>6. CASE before = 0
  <2>1. transactions = {} /\ skipped' = skipped
    BY <1>1, <1>3, <1>6 DEF Inv, Paging
  <2>2. Position = 0 => skipped = {}
    BY <1>3
  <2>3. Gathered'
    BY <1>1, <1>3, <2>1, <2>2 DEF Gathered
  <2> QED
    BY <1>1, <1>2, <1>5, <2>3 DEF Inv, Bounded, EmptyHanded, AtHandOnce, Paging
<1>7. CASE before # 0
  <2>1. /\ Position # 0 /\ Position < before /\ before \in transactions
        /\ \A t \in transactions :
              before <= t /\ t <= Len(chain) /\ \A s \in before..t : s \in transactions
    BY <1>1, <1>7 DEF Inv, Paging
  <2>2. skipped' = skipped \cup (Position + 1)..(before - 1)
    <3>1. before - 1 >= 1
      BY <1>3, <2>1
    <3> QED
      BY <1>1, <1>7, <3>1, PageIs DEF Inv
  <2>3. \A t \in transactions : t \in Nat
    BY DEF Inv, TypeOK, Transactions
  <2>4. ASSUME NEW t \in transactions, NEW s \in (Position + 1)..t
        PROVE  s \in transactions \cup skipped'
    BY <1>3, <2>1, <2>2, <2>3
  <2>5. skipped' \cap transactions = {}
    BY <1>3, <2>1, <2>2, <2>3
  <2>6. \A s \in skipped' : s \in 1..Position \/ s < before
    BY <1>3, <2>2
  <2>7. Gathered'
    BY <1>1, <1>3, <2>1, <2>3, <2>4, <2>5, <2>6 DEF Gathered
  <2> QED
    BY <1>1, <1>2, <1>5, <2>7 DEF Inv, Bounded, EmptyHanded, AtHandOnce, Paging
<1> QED
  BY <1>6, <1>7

LEMMA CollectPageInv == ASSUME Inv, CollectPage PROVE Inv'
<1> DEFINE txs == Page(before)
           newest == IF before = 0 THEN Len(chain) ELSE before - 1
<1>1. /\ pc = "page" /\ txs # {}
      /\ transactions' = IF Position = 0 THEN {Max(txs)}
                         ELSE transactions \cup {t \in txs : Position \in txs => t > Position}
      /\ pc' = IF Position = 0 \/ Position \in txs THEN "filter" ELSE "page"
      /\ before' = Min(txs)
      /\ UNCHANGED <<chain, Position, since, told, obligationChan, direct, inner, notSure, skipped>>
  BY DEF CollectPage
<1>2. TypeOK'
  BY NextType DEF Inv, Next, Poll
<1>3. /\ newest \in Int /\ Max(txs) = newest
      /\ \A t : t \in txs <=> t \in Int /\ 1 <= t /\ t <= newest /\ newest - PageSize < t
  BY <1>1, PageIs DEF Inv
<1>4. Min(txs) \in txs /\ \A t \in txs : Min(txs) <= t
  BY <1>1, PageFacts DEF Inv
<1>5. /\ Position \in Nat /\ before \in Nat /\ Len(chain) \in Nat /\ Position <= Len(chain)
      /\ skipped \subseteq 1..Position /\ PageSize \in Nat
      /\ \A t \in transactions : t \in Nat
  BY <1>1 DEF Inv, TypeOK, Bounded, Transactions
<1>6. before # 0 => /\ Position # 0 /\ Position < before /\ before \in transactions
                    /\ \A t \in transactions :
                          before <= t /\ t <= Len(chain) /\ \A s \in before..t : s \in transactions
  BY <1>1 DEF Inv, Paging
<1>7. before = 0 => transactions = {}
  BY <1>1 DEF Inv, Paging
<1>8. newest <= Len(chain) /\ Position <= newest
  BY <1>5, <1>6
<1> HIDE DEF txs, newest
<1>9. Complete' /\ ToldOnce' /\ Unsure'
  BY <1>1, FoundStays
<1>10. CASE Position = 0
  <2>1. transactions' = {newest} /\ newest >= 1 /\ skipped' = {} /\ pc' = "filter"
    BY <1>1, <1>3, <1>4, <1>5, <1>10
  <2>2. Gathered'
    BY <1>1, <1>3, <1>8, <1>10, <2>1 DEF Gathered
  <2> QED
    BY <1>1, <1>2, <1>9, <2>1, <2>2 DEF Inv, Bounded, EmptyHanded, AtHandOnce, Paging
<1>11. ASSUME Position # 0, NEW t \in transactions
       PROVE  Position < t /\ t <= Len(chain) /\ newest < t /\ \A s \in (newest + 1)..t : s \in transactions
  <2>1. before # 0 /\ newest = before - 1
    BY <1>7, <1>11 DEF newest
  <2>2. before..t = (newest + 1)..t
    BY <1>5, <2>1
  <2> QED
    BY <1>5, <1>6, <1>8, <1>11, <2>1, <2>2
<1>12. CASE Position # 0 /\ Position \in txs
  <2>1. transactions' = transactions \cup {t \in txs : t > Position} /\ pc' = "filter"
    BY <1>1, <1>12
  <2>2. \A t \in transactions' : t \in Nat /\ Position < t /\ t <= Len(chain)
    BY <1>3, <1>5, <1>8, <1>11, <1>12, <2>1
  <2>3. ASSUME NEW t \in transactions', NEW s \in (Position + 1)..t PROVE s \in transactions'
    <3>1. s \in Nat /\ Position < s /\ s <= t /\ t \in Nat
      BY <1>5, <2>2
    <3>2. CASE s <= newest
      <4>1. s \in txs
        BY <1>3, <1>12, <3>1, <3>2
      <4> QED
        BY <2>1, <3>1, <4>1
    <3>3. CASE newest < s
      <4>1. t \in transactions
        BY <1>3, <2>1, <3>1, <3>3
      <4>2. s \in (newest + 1)..t
        BY <1>3, <3>1, <3>3
      <4> QED
        BY <1>11, <1>12, <2>1, <4>1, <4>2
    <3> QED
      BY <1>3, <3>1, <3>2, <3>3
  <2>4. skipped \cap transactions' = {}
    BY <1>5, <2>2
  <2>5. Gathered'
    BY <1>1, <1>5, <1>12, <2>2, <2>3, <2>4 DEF Gathered
  <2> QED
    BY <1>1, <1>2, <1>9, <2>1, <2>5 DEF Inv, Bounded, EmptyHanded, AtHandOnce, Paging
<1>13. CASE Position # 0 /\ Position \notin txs
  <2>1. transactions' = transactions \cup txs /\ pc' = "page" /\ before' = Min(txs)
    BY <1>1, <1>13
  <2>2. Position < before' /\ before' \in transactions' /\ before' \in Nat /\ before' # 0
    BY <1>3, <1>4, <1>5, <1>8, <1>13, <2>1
  <2>3. ASSUME NEW t \in transactions'
        PROVE  before' <= t /\ t <= Len(chain) /\ \A s \in before'..t : s \in transactions'
    <3>1. before' <= newest /\ newest - PageSize < before'
      BY <1>3, <1>4, <2>1
    <3>2. CASE t \in txs
      <4>1. ASSUME NEW s \in before'..t PROVE s \in txs
        BY <1>3, <2>2, <3>1, <3>2
      <4> QED
        BY <1>3, <1>4, <1>5, <1>8, <2>1, <3>2, <4>1
    <3>3. CASE t \in transactions
      <4>1. newest < t /\ t <= Len(chain) /\ t \in Nat
        BY <1>5, <1>11, <1>13, <3>3
      <4>2. ASSUME NEW s \in before'..t PROVE s \in transactions'
        <5>1. s <= newest => s \in txs
          BY <1>3, <2>2, <3>1
        <5>2. newest < s => s \in (newest + 1)..t
          BY <1>3, <2>2
        <5> QED
          BY <1>3, <1>11, <1>13, <2>1, <2>2, <3>3, <5>1, <5>2
      <4> QED
        BY <1>3, <2>2, <3>1, <4>1, <4>2
    <3> QED
      BY <2>1, <3>2, <3>3
  <2>4. Paging'
    BY <1>1, <1>13, <2>2, <2>3 DEF Paging
  <2> QED
    BY <1>1, <1>2, <1>9, <2>1, <2>4 DEF Inv, Bounded, EmptyHanded, AtHandOnce, Gathered
<1> QED
  BY <1>10, <1>12, <1>13

\* The poll is over: what was collected lies above Position, without a gap but
\* for what is skipped, and becomes what is at hand.
LEMMA FilterInv == ASSUME Inv, Filter PROVE Inv'
<1>1. /\ pc = "filter" /\ UNCHANGED <<chain, before, transactions, inner, skipped, obligationChan, told>>
      /\ direct \cup inner \cup notSure = {}
  BY DEF Filter, Inv, EmptyHanded
<1>2. TypeOK'
  BY NextType DEF Inv, Next, Poll
<1>3. /\ Position \in Nat /\ since \in Nat /\ Len(chain) \in Nat /\ since <= Position
      /\ \A t \in transactions : t \in Nat
  BY DEF Inv, TypeOK, Bounded, Transactions
<1>4. CASE transactions = {}
  <2>1. pc' = "wait" /\ UNCHANGED <<Position, since, direct, notSure>>
    BY <1>4 DEF Filter
  <2>2. skipped \subseteq 1..Position
    BY <1>1, <1>4 DEF Inv, Gathered
  <2>3. Complete' /\ ToldOnce' /\ Unsure'
    BY <1>1, <2>1, FoundStays
  <2> QED
    BY <1>1, <1>2, <2>1, <2>2, <2>3 DEF Inv, Bounded, EmptyHanded, AtHandOnce, Paging, Gathered
<1>5. CASE transactions # {}
  <2>1. /\ pc' = "report" /\ Position' = Max(transactions)
        /\ since' = IF Position = 0 THEN Position' ELSE since
        /\ direct' = {t \in transactions : chain[t] = "direct"}
        /\ notSure' = {t \in transactions : chain[t] \in {"inner", "unknown"}}
    BY <1>5 DEF Filter, NewPosition
  <2>2. Position' \in transactions /\ \A t \in transactions : t <= Position'
    BY <1>5, <2>1, MaxFacts DEF Inv, TypeOK
  <2>3. \A t \in transactions : Position < t /\ t <= Position' /\ t <= Len(chain) /\ t \in Nat
    BY <1>1, <1>3, <2>2 DEF Inv, Gathered
  <2>4. 1..Position \subseteq 1..Position' /\ Position' \in Nat /\ Position' # 0
    BY <1>3, <2>2, <2>3
  <2>5. In(told) \cup In(obligationChan) \subseteq 1..Position
    BY DEF Inv, Bounded
  <2>6. \A t \in transactions : t \in 1..Position' /\ t \notin 1..Position
    BY <1>3, <2>3
  <2>7. skipped \subseteq 1..Position'
    <3> SUFFICES ASSUME NEW s \in skipped PROVE s \in 1..Position'
      OBVIOUS
    <3>1. CASE s \in 1..Position
      BY <2>4, <3>1
    <3>2. CASE s \notin 1..Position
      <4>1. PICK t \in transactions : s < t
        BY <1>1, <3>2 DEF Inv, Gathered
      <4>2. s \in Nat /\ s >= 1
        BY DEF Inv, TypeOK, Transactions
      <4> QED
        BY <2>3, <2>4, <4>1, <4>2
    <3> QED
      BY <3>1, <3>2
  <2>8. Bounded'
    <3>1. Position' <= Len(chain) /\ since' <= Position' /\ since' # 0
      <4>1. CASE Position = 0
        BY <2>1, <2>2, <2>3, <2>4, <4>1
      <4>2. CASE Position # 0
        <5>1. since' = since /\ since # 0 /\ Position < Position'
          BY <2>1, <2>2, <2>3, <4>2 DEF Inv, Bounded
        <5> QED
          BY <1>3, <2>2, <2>3, <2>4, <5>1
      <4> QED
        BY <4>1, <4>2
    <3>2. direct' \cup inner' \cup notSure' \subseteq 1..Position'
      BY <1>1, <2>1, <2>6
    <3> QED
      BY <1>1, <2>1, <2>4, <2>5, <2>7, <3>1, <3>2 DEF Bounded
  <2>9. Unsure'
    BY <1>1, <2>1 DEF Unsure
  <2>10. ToldOnce'
    <3>1. (In(told) \cup In(obligationChan)) \cap (direct' \cup inner' \cup notSure') = {}
      BY <1>1, <2>1, <2>5, <2>6
    <3> QED
      BY <1>1, <3>1 DEF Inv, ToldOnce
  <2>11. Complete'
    <3> DEFINE new == {t \in transactions : IsLiquidation(t)}
               found == In(told) \cup In(obligationChan)
    <3>1. direct' \cup inner' \cup {t \in notSure' : IsLiquidation(t)'} = new
      BY <1>1, <2>1 DEF IsLiquidation
    <3>2. {t \in since'..Position' : IsLiquidation(t)} \ skipped = found \cup new
      <4>1. CASE Position = 0
        <5>1. found = {} /\ skipped = {} /\ transactions = {Position'} /\ since' = Position'
          BY <1>1, <2>1, <2>2, <2>5, <4>1 DEF Inv, Gathered
        <5>2. since'..Position' = {Position'}
          BY <2>4, <5>1
        <5> QED
          BY <5>1, <5>2
      <4>2. CASE Position # 0
        <5>1. {t \in since..Position : IsLiquidation(t)} \ skipped = found
          BY <1>1, <4>2 DEF Inv, Complete
        <5>2. since' = since
          BY <2>1, <4>2
        <5>3. \A t : t \in since..Position' <=> t \in since..Position \/ t \in (Position + 1)..Position'
          BY <1>3, <2>2, <2>3, <2>4
        <5>4. \A t : t \in (Position + 1)..Position' /\ t \notin skipped <=> t \in transactions
          <6>1. ASSUME NEW t \in (Position + 1)..Position', t \notin skipped PROVE t \in transactions
            BY <1>1, <2>2, <4>2, <6>1 DEF Inv, Gathered
          <6>2. ASSUME NEW t \in transactions PROVE t \in (Position + 1)..Position' /\ t \notin skipped
            <7>1. t \notin skipped
              BY <1>1 DEF Inv, Gathered
            <7> QED
              BY <1>3, <2>3, <2>4, <7>1
          <6> QED
            BY <6>1, <6>2
        <5> HIDE DEF found
        <5> QED
          BY <5>1, <5>2, <5>3, <5>4
      <4> QED
        BY <4>1, <4>2
    <3>3. \A t : IsLiquidation(t)' <=> IsLiquidation(t)
      BY <1>1 DEF IsLiquidation
    <3>4. {t \in since'..Position' : IsLiquidation(t)'} \ skipped' = found \cup new
      BY <1>1, <3>2, <3>3
    <3> HIDE DEF new
    <3> QED
      BY <1>1, <3>1, <3>4 DEF Complete
  <2>12. AtHandOnce'
    BY <1>1, <2>1 DEF AtHandOnce
  <2> QED
    BY <1>2, <2>1, <2>8, <2>9, <2>10, <2>11, <2>12 DEF Inv, EmptyHanded, Paging, Gathered
<1> QED
  BY <1>4, <1>5

LEMMA GetDetailInv == ASSUME Inv, GetDetail PROVE Inv'
<1> DEFINE t == Max(notSure)
<1>1. /\ pc = "report" /\ pc' = pc /\ notSure' = notSure \ {t}
      /\ inner' = IF chain[t] = "inner" THEN inner \cup {t} ELSE inner
      /\ UNCHANGED <<chain, Position, since, told, obligationChan, direct, skipped>>
  BY DEF GetDetail
<1>2. t \in notSure
  BY MaxFacts DEF GetDetail, Inv, TypeOK
<1> HIDE DEF t
<1>3. TypeOK'
  BY NextType DEF Inv, Next, Poll
<1>4. Bounded' /\ Unsure' /\ ToldOnce'
  BY <1>1, <1>2 DEF Inv, Bounded, Unsure, ToldOnce
<1>5. IsLiquidation(t) <=> chain[t] = "inner"
  BY <1>2 DEF Inv, Unsure, IsLiquidation
<1>6. inner' \cup {s \in notSure' : IsLiquidation(s)} = inner \cup {s \in notSure : IsLiquidation(s)}
  BY <1>1, <1>2, <1>5
<1>7. \A s : IsLiquidation(s)' <=> IsLiquidation(s)
  BY <1>1 DEF IsLiquidation
<1>8. Complete'
  BY <1>1, <1>6, <1>7 DEF Inv, Complete
<1> QED
  BY <1>1, <1>3, <1>4, <1>8 DEF Inv, EmptyHanded, AtHandOnce, Paging, Gathered

\* What a blank detail hides was at hand, and is skipped from now on.
LEMMA BlankDetailInv == ASSUME Inv, BlankDetail PROVE Inv'
<1> DEFINE t == Max(notSure)
<1>1. /\ pc = "report" /\ pc' = pc /\ notSure' = notSure \ {t} /\ skipped' = skipped \cup {t}
      /\ UNCHANGED <<chain, Position, since, told, obligationChan, direct, inner>>
  BY DEF BlankDetail
<1>2. t \in notSure
  BY MaxFacts DEF BlankDetail, Inv, TypeOK
<1> HIDE DEF t
<1>3. TypeOK'
  BY NextType DEF Inv, Next, Poll
<1>4. Bounded' /\ Unsure' /\ ToldOnce'
  BY <1>1, <1>2 DEF Inv, Bounded, Unsure, ToldOnce
<1>5. \A s : IsLiquidation(s)' <=> IsLiquidation(s)
  BY <1>1 DEF IsLiquidation
<1>6. t \notin In(told) \cup In(obligationChan) /\ t \notin direct \cup inner
  BY <1>2 DEF Inv, ToldOnce, AtHandOnce
<1>7. Complete'
  <2> DEFINE found == In(told) \cup In(obligationChan) \cup direct \cup inner
             past == {s \in since..Position : IsLiquidation(s)}
  <2>1. Position # 0 => past \ skipped = found \cup {s \in notSure : IsLiquidation(s)}
    BY DEF Inv, Complete
  <2>2. t \notin found
    BY <1>6
  <2> HIDE DEF found, past
  <2>3. Position # 0 => past \ skipped' = found \cup {s \in notSure' : IsLiquidation(s)}
    BY <1>1, <2>1, <2>2
  <2> QED
    BY <1>1, <1>5, <2>3 DEF Complete, found, past
<1>8. AtHandOnce'
  BY <1>1 DEF Inv, AtHandOnce
<1> QED
  BY <1>1, <1>3, <1>4, <1>7, <1>8 DEF Inv, EmptyHanded, AtHandOnce, Paging, Gathered

LEMMA PushInv == ASSUME Inv, Push PROVE Inv'
<1> DEFINE t == Max(IF direct # {} THEN direct ELSE inner)
<1>1. /\ pc = "report" /\ pc' = pc /\ notSure = {} /\ direct \cup inner # {}
      /\ obligationChan' = Append(obligationChan, t)
      /\ direct' = direct \ {t} /\ inner' = inner \ {t}
      /\ UNCHANGED <<chain, Position, since, told, notSure, skipped>>
  BY DEF Push
<1>2. t \in direct \cup inner /\ t \in Transactions
  BY <1>1, MaxFacts DEF Inv, TypeOK
<1> HIDE DEF t
<1>3. TypeOK'
  BY NextType DEF Inv, Next, Poll
<1>4. In(obligationChan') = In(obligationChan) \cup {t}
  BY <1>1, <1>2, AppendIn DEF Inv, TypeOK
<1>5. Bounded' /\ Unsure'
  BY <1>1, <1>2, <1>4 DEF Inv, Bounded, Unsure
<1>6. t \notin In(told) \cup In(obligationChan)
  BY <1>2 DEF Inv, ToldOnce
<1>7. ToldOnce'
  <2>1. Unique(obligationChan')
    BY <1>1, <1>2, <1>6, AppendIn DEF Inv, TypeOK, ToldOnce, Unique
  <2> QED
    BY <1>1, <1>4, <1>6, <2>1 DEF Inv, ToldOnce, Unique
<1>8. In(obligationChan') \cup direct' \cup inner' = In(obligationChan) \cup direct \cup inner
  BY <1>1, <1>2, <1>4
<1>9. \A s : IsLiquidation(s)' <=> IsLiquidation(s)
  BY <1>1 DEF IsLiquidation
<1>10. Complete'
  BY <1>1, <1>8, <1>9 DEF Inv, Complete
<1> QED
  BY <1>1, <1>3, <1>5, <1>7, <1>10 DEF Inv, EmptyHanded, AtHandOnce, Paging, Gathered

LEMMA NotifyInv == ASSUME Inv, Notify PROVE Inv'
<1> DEFINE h == Head(obligationChan)
<1>1. /\ obligationChan # <<>> /\ obligationChan' = Tail(obligationChan)
      /\ told' = Append(told, h) /\ UNCHANGED <<chain, pollVars>>
  BY DEF Notify
<1>2. /\ h \in Transactions /\ In(obligationChan) = {h} \cup In(obligationChan')
      /\ Unique(obligationChan) => Unique(obligationChan') /\ h \notin In(obligationChan')
  BY <1>1, TailIn DEF Inv, TypeOK
<1> HIDE DEF h
<1>3. In(told') = In(told) \cup {h} /\ (Unique(told) /\ h \notin In(told) => Unique(told'))
  BY <1>1, <1>2, AppendIn DEF Inv, TypeOK
<1>4. TypeOK'
  BY NextType DEF Inv, Next
<1>5. In(told') \cup In(obligationChan') = In(told) \cup In(obligationChan)
  BY <1>2, <1>3
<1>6. Bounded'
  BY <1>1, <1>5 DEF Inv, Bounded, pollVars
<1>7. ToldOnce'
  <2>1. Unique(told) /\ Unique(obligationChan) /\ h \notin In(told)
    BY <1>2 DEF Inv, ToldOnce, Unique
  <2>2. Unique(told') /\ Unique(obligationChan') /\ In(told') \cap In(obligationChan') = {}
    BY <1>2, <1>3, <2>1 DEF Inv, ToldOnce
  <2> QED
    BY <1>1, <1>5, <2>2 DEF Inv, ToldOnce, Unique, pollVars
<1>8. \A s : IsLiquidation(s)' <=> IsLiquidation(s)
  BY <1>1 DEF IsLiquidation
<1>9. Complete'
  BY <1>1, <1>5, <1>8 DEF Inv, Complete, pollVars
<1> QED
  BY <1>1, <1>4, <1>6, <1>7, <1>9 DEF Inv, EmptyHanded, AtHandOnce, Unsure, Paging, Gathered, pollVars

LEMMA NextInv == Inv /\ [Next]_vars => Inv'
<1> SUFFICES ASSUME Inv, [Next]_vars PROVE Inv'
  OBVIOUS
<1>1. TypeOK'
  BY NextType DEF Inv
<1>2. CASE EndPoll \/ Panic \/ PollerExit
  <2>1. /\ pc' \in {"wait", "dead", "exited"}
        /\ (pc' # "dead" => direct \cup inner \cup notSure = {})
        /\ pc # "filter"
        /\ UNCHANGED <<chain, Position, since, told, obligationChan, direct, inner, notSure, skipped>>
    BY <1>2 DEF EndPoll, Panic, PollerExit, Inv, EmptyHanded
  <2>2. Complete' /\ ToldOnce' /\ Unsure'
    BY <2>1, FoundStays
  <2> QED
    BY <1>1, <2>1, <2>2 DEF Inv, Bounded, EmptyHanded, AtHandOnce, Paging, Gathered
<1>3. CASE Cancel \/ NotifierExit \/ UNCHANGED vars
  <2>1. UNCHANGED <<chain, pollVars, told, obligationChan>>
    BY <1>3 DEF Cancel, NotifierExit, vars
  <2>2. Complete' /\ ToldOnce' /\ Unsure'
    BY <2>1, FoundStays DEF pollVars
  <2> QED
    BY <1>1, <2>1, <2>2 DEF Inv, Bounded, EmptyHanded, AtHandOnce, Paging, Gathered, pollVars
<1> QED
  BY <1>2, <1>3, ChainGrowsInv, TickInv, EmptyPageInv, CollectPageInv, FilterInv, GetDetailInv,
     BlankDetailInv, PushInv, NotifyInv DEF Next, Poll

LEMMA Invariance == Spec => []Inv
  BY InitInv, NextInv, PTL DEF Spec

-------------------------------------------------------------------------------
\* However the history grows between two pages, exactly the liquidations since
\* the first Position are found, but for what a blank answer hides (main.go,
\* GetTransactionsByProgram and the poll).
THEOREM NothingIsMissed == Spec => []Complete
<1>1. Inv => Complete
  BY DEF Inv
<1> QED
  BY Invariance, <1>1, PTL

\* None of them is reported twice.
THEOREM NothingIsRepeated == Spec => []ToldOnce
<1>1. Inv => ToldOnce
  BY DEF Inv
<1> QED
  BY Invariance, <1>1, PTL
===============================================================================
