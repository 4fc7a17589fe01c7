---------------------------- MODULE LifecycleProofs ----------------------------
(***************************************************************************)
(* What module Lifecycle states of a life of the bot, proved for every set *)
(* of reserves and oracles, every page size and every number of changes.   *)
(***************************************************************************)
EXTENDS Lifecycle, FiniteSetTheorems, TLAPS

\* The oracles that the reserves the bot knows name, price or not.
NamedBy(m) == {OracleOf[r] : r \in {r \in Reserves : m[r] # 0}}

-------------------------------------------------------------------------------
\* The order of the phases of Start.
LEMMA FollowingPhases ==
    /\ Following("load") = "prices"
    /\ Following("prices") = "slots"
    /\ Following("slots") = "program"
    /\ Following("program") = "oracles"
    /\ Following("oracles") = "run"
    /\ Phases[1] = "load"
<1> DEFINE At(p, k) == k \in DOMAIN Phases /\ Phases[k] = p /\ \A n \in DOMAIN Phases : Phases[n] = p => n = k
<1>1. At("load", 1) /\ At("prices", 2) /\ At("slots", 3) /\ At("program", 4) /\ At("oracles", 5)
  BY DEF Phases
<1>2. ASSUME NEW p, NEW k, At(p, k) PROVE Following(p) = Phases[k + 1]
  <2>1. (CHOOSE n \in DOMAIN Phases : Phases[n] = p) = k
    BY <1>2
  <2> QED
    BY <2>1 DEF Following
<1>3. /\ Following("load") = Phases[1 + 1] /\ Following("prices") = Phases[2 + 1]
      /\ Following("slots") = Phases[3 + 1] /\ Following("program") = Phases[4 + 1]
      /\ Following("oracles") = Phases[5 + 1]
  BY <1>1, <1>2
<1> QED
  BY <1>3 DEF Phases

\* The phases are the six of Start.
LEMMA PhaseNames ==
    {Phases[n] : n \in DOMAIN Phases} = {"load", "prices", "slots", "program", "oracles", "run"}
  BY DEF Phases

\* A sequence of the elements of a finite set has each of them.
LEMMA SeqOfSet ==
    ASSUME NEW S, IsFiniteSet(S), NEW q \in SetToSeqs(S)
    PROVE  /\ q \in Seq(S)
           /\ \A e \in S : \E n \in 1..Len(q) : q[n] = e
<1> DEFINE D == 1..Cardinality(S)
<1>1. Cardinality(S) \in Nat
  BY FS_CardinalityType
<1>2. q \in [D -> S] /\ \A i, j \in D : i # j => q[i] # q[j]
  BY DEF SetToSeqs
<1>3. q \in Seq(S) /\ Len(q) = Cardinality(S)
  BY <1>1, <1>2
<1>4. q \in Injection(D, S)
  BY <1>2 DEF Injection, IsInjective
<1>5. Cardinality(D) = Cardinality(S)
  BY <1>1, FS_Interval
<1>6. q \in Surjection(D, S)
  BY <1>4, <1>5, FS_Injection
<1> QED
  BY <1>3, <1>6 DEF Surjection

-------------------------------------------------------------------------------
(***************************************************************************)
(* Type correctness, with what is known before and what is loaded.         *)
(***************************************************************************)
\* Nothing the bot has is newer than the chain.
Behind ==
    \A k \in Keys : chain[k] <= updates + 1 /\ mem[k] <= chain[k] /\ read[k] <= chain[k]

\* Before the accounts are loaded the bot knows nothing, and before the prices
\* are it has no subscription.
Early ==
    /\ phase \in {"down", "connect", "load"} =>
          mem = Nothing /\ keys = <<>> /\ index = 0 /\ read = Nothing
    /\ phase \in {"down", "connect", "load", "prices", "slots"} => subs = {}

Typed == TypeOK /\ Behind /\ Early

USE OraclesAssumption, PriceAccountsAssumption, KeysAssumption, BoundsAssumption

LEMMA VersionFacts ==
    /\ MaxUpdates \in Nat
    /\ \A v : v \in Version <=> v \in Nat /\ v <= MaxUpdates + 1
    /\ Nothing \in [Keys -> Version]
    /\ \A k \in Keys : Nothing[k] = 0
  BY DEF Version, Nothing

LEMMA InitTyped == Init => Typed
<1> SUFFICES ASSUME Init PROVE Typed
  OBVIOUS
<1>1. 1 \in Version /\ 0 \in Version
  BY VersionFacts
<1>2. <<>> \in Seq(Oracles) /\ 0 \in 0..Len(<<>>)
  OBVIOUS
<1>3. keys \in Seq(Oracles) /\ index \in 0..Len(keys)
  BY <1>2 DEF Init
<1>4. TypeOK
  <2>1. /\ chain \in [Keys -> Version] /\ updates \in 0..MaxUpdates
        /\ mem \in [Keys -> Version] /\ read \in [Keys -> Version]
        /\ since \in [Keys -> Version] /\ heard \in [Keys -> Version]
    BY <1>1, VersionFacts DEF Init
  <2>2. phase = "down" /\ link = "up" /\ cancelled = FALSE /\ dropped = FALSE /\ left = {} /\ subs = {}
    BY DEF Init
  <2> QED
    BY <1>3, <2>1, <2>2 DEF TypeOK
<1>5. Behind
  <2> SUFFICES ASSUME NEW k \in Keys
               PROVE  chain[k] <= updates + 1 /\ mem[k] <= chain[k] /\ read[k] <= chain[k]
    BY DEF Behind
  <2>1. chain[k] = 1 /\ mem[k] = 0 /\ read[k] = 0 /\ updates = 0
    BY VersionFacts DEF Init
  <2> QED
    BY <2>1
<1> QED
  BY <1>4, <1>5 DEF Init, Typed, Early

\* What a subscription begins with is well-typed.
LEMMA BeginTyped ==
    ASSUME TypeOK, NEW s \in {slot, program} \cup Oracles, Begin(s)
    PROVE  /\ subs' \in SUBSET ({slot, program} \cup Oracles)
           /\ since' \in [Keys -> Version] /\ heard' \in [Keys -> Version]
  BY DEF Begin, TypeOK

\* The oracles of some reserves, in any order.
LEMMA NamedSeq ==
    ASSUME NEW m, NEW q \in SetToSeqs(NamedBy(m))
    PROVE  /\ q \in Seq(Oracles)
           /\ \A n \in 1..Len(q) : q[n] \in NamedBy(m)
           /\ \A o \in NamedBy(m) : \E n \in 1..Len(q) : q[n] = o
<1>1. NamedBy(m) \in SUBSET Oracles
  BY DEF NamedBy
<1>2. IsFiniteSet(NamedBy(m))
  BY <1>1, FS_Subset
<1>3. q \in Seq(NamedBy(m)) /\ \A o \in NamedBy(m) : \E n \in 1..Len(q) : q[n] = o
  BY <1>2, SeqOfSet
<1> QED
  BY <1>1, <1>3

\* The page at index is made of keys that are there.
LEMMA EndFacts ==
    ASSUME TypeOK, index < Len(keys)
    PROVE  /\ End \in 0..Len(keys) /\ index < End
           /\ \A n \in (index + 1)..End : keys[n] \in Oracles
  BY DEF TypeOK, End

LEMMA LoadPageTyped ==
    ASSUME Typed, LoadPage
    PROVE  Typed'
<1>1. End \in 0..Len(keys)
  BY EndFacts DEF LoadPage, Typed
<1>2. PICK got \in [{keys[n] : n \in (index + 1)..End} -> Version] :
         /\ \A o \in {keys[n] : n \in (index + 1)..End} : got[o] \in 1..chain[o]
         /\ read' = [k \in Keys |-> IF k \in {keys[n] : n \in (index + 1)..End}
                                      THEN got[k] ELSE read[k]]
  BY DEF LoadPage
<1>3. read' \in [Keys -> Version]
  BY <1>2 DEF Typed, TypeOK
<1>4. \A k \in Keys : read'[k] <= chain[k]
  <2> SUFFICES ASSUME NEW k \in Keys PROVE read'[k] <= chain[k]
    OBVIOUS
  <2>1. chain[k] \in Int /\ read[k] <= chain[k]
    BY VersionFacts DEF Typed, TypeOK, Behind
  <2> QED
    BY <1>2, <2>1
<1> QED
  BY <1>1, <1>3, <1>4 DEF LoadPage, Typed, TypeOK, Behind, Early, env, feeds

LEMMA LoadAccountsTyped ==
    ASSUME Typed, LoadAccounts
    PROVE  Typed'
<1>1. PICK got \in [Reserves -> Version] :
         /\ \A r \in Reserves : got[r] <= chain[r]
         /\ mem' = [k \in Keys |-> IF k \in Reserves THEN got[k] ELSE mem[k]]
  BY DEF LoadAccounts
<1>2. mem' \in [Keys -> Version]
  BY <1>1 DEF Typed, TypeOK
<1>3. \A k \in Keys : mem'[k] <= chain[k]
  BY <1>1 DEF Typed, TypeOK, Behind
<1>4. keys' \in Seq(Oracles)
  <2>1. keys' \in SetToSeqs(NamedBy(mem'))
    BY DEF LoadAccounts, NamedBy
  <2> QED
    BY <2>1, NamedSeq
<1>5. phase' = "prices" /\ phase = "load"
  BY FollowingPhases DEF LoadAccounts
<1>6. index' = 0 /\ 0 \in 0..Len(keys')
  BY <1>4, <1>5 DEF LoadAccounts, Typed, Early
<1> QED
  BY <1>2, <1>3, <1>4, <1>5, <1>6, PhaseNames
     DEF LoadAccounts, Typed, TypeOK, Behind, Early, env, feeds

LEMMA BuildPricesTyped ==
    ASSUME Typed, BuildPrices
    PROVE  Typed'
<1>1. mem' \in [Keys -> Version] /\ \A k \in Keys : mem'[k] <= chain[k]
  BY DEF BuildPrices, Built, Typed, TypeOK, Behind
<1>2. phase' = "slots" /\ phase = "prices"
  BY FollowingPhases DEF BuildPrices
<1>3. left' \in SUBSET Oracles
  BY DEF BuildPrices
<1> QED
  BY <1>1, <1>2, <1>3, PhaseNames DEF BuildPrices, Typed, TypeOK, Behind, Early, env, paging, feeds

\* A change is on the chain at once, and in the memory of the bot later.
LEMMA ChangeTyped ==
    ASSUME Typed, NEW k \in Keys, ChainUpdate(k) \/ Deliver(k)
    PROVE  Typed'
<1>1. CASE ChainUpdate(k)
  <2>1. chain' \in [Keys -> Version] /\ updates' \in 0..MaxUpdates
    BY <1>1, VersionFacts DEF ChainUpdate, Typed, TypeOK, Behind
  <2>2. ASSUME NEW j \in Keys
        PROVE  chain'[j] <= updates' + 1 /\ mem[j] <= chain'[j] /\ read[j] <= chain'[j]
    <3>1. /\ chain[j] \in Nat /\ updates \in Nat /\ mem[j] \in Nat /\ read[j] \in Nat
          /\ chain[j] <= updates + 1 /\ mem[j] <= chain[j] /\ read[j] <= chain[j]
      BY VersionFacts DEF Typed, TypeOK, Behind
    <3>2. updates' = updates + 1 /\ chain'[j] = IF j = k THEN chain[j] + 1 ELSE chain[j]
      BY <1>1 DEF ChainUpdate, Typed, TypeOK
    <3> QED
      BY <3>1, <3>2
  <2> QED
    BY <1>1, <2>1, <2>2 DEF ChainUpdate, Typed, TypeOK, Behind, Early, paging, feeds
<1>2. CASE Deliver(k)
  <2>1. heard[k] \in Nat /\ chain[k] \in Nat /\ chain[k] <= MaxUpdates + 1 /\ heard[k] < chain[k]
    BY <1>2, VersionFacts DEF Deliver, Typed, TypeOK
  <2>2. heard' = [heard EXCEPT ![k] = heard[k] + 1] /\ heard[k] + 1 \in Version
    BY <1>2, <2>1, VersionFacts DEF Deliver
  <2>3. heard' \in [Keys -> Version] /\ heard'[k] = heard[k] + 1
    BY <2>2 DEF Typed, TypeOK
  <2>4. mem' = [mem EXCEPT ![k] = IF mem[k] = 0 THEN 0 ELSE heard[k] + 1]
    BY <1>2, <2>3 DEF Deliver
  <2>5. mem' \in [Keys -> Version]
    BY <2>2, <2>4, VersionFacts DEF Typed, TypeOK
  <2>6. \A j \in Keys : mem'[j] <= chain[j]
    BY <2>1, <2>4 DEF Typed, TypeOK, Behind
  <2>7. subs # {}
    BY <1>2 DEF Deliver, Follows
  <2> QED
    BY <1>2, <2>3, <2>5, <2>6, <2>7 DEF Deliver, Typed, TypeOK, Behind, Early, env, paging
<1> QED
  BY <1>1, <1>2

LEMMA StartTyped ==
    ASSUME Typed, Start
    PROVE  Typed'
<1> USE DEF Typed, TypeOK, Behind, Early, env, paging, feeds
<1>1. CASE Connect
  BY <1>1, FollowingPhases, PhaseNames DEF Connect
<1>2. CASE LoadAccounts
  BY <1>2, LoadAccountsTyped
<1>3. CASE LoadFails
  BY <1>3, FollowingPhases, PhaseNames DEF LoadFails, Skip
<1>4. CASE LoadPage
  BY <1>4, LoadPageTyped
<1>5. CASE PageFails
  BY <1>5, FollowingPhases, PhaseNames DEF PageFails, Skip
<1>6. CASE BuildPrices
  BY <1>6, BuildPricesTyped
<1>7. ASSUME NEW p \in {"slots", "program"}, NEW s \in {slot, program}, Subscribe(p, s)
      PROVE  Typed'
  <2>1. phase' \in {"program", "oracles"} /\ Begin(s)
    BY <1>7, FollowingPhases DEF Subscribe
  <2>2. /\ subs' \in SUBSET ({slot, program} \cup Oracles)
        /\ since' \in [Keys -> Version] /\ heard' \in [Keys -> Version]
    BY <2>1, BeginTyped
  <2> QED
    BY <1>7, <2>1, <2>2, PhaseNames DEF Subscribe
<1>8. ASSUME NEW p \in {"slots", "program"}, SubscribeFails(p) PROVE Typed'
  BY <1>8, FollowingPhases, PhaseNames DEF SubscribeFails, Skip
<1>9. ASSUME NEW o \in Oracles, SubscribeAccount(o) PROVE Typed'
  <2>1. /\ subs' \in SUBSET ({slot, program} \cup Oracles)
        /\ since' \in [Keys -> Version] /\ heard' \in [Keys -> Version]
    BY <1>9, BeginTyped DEF SubscribeAccount
  <2>2. phase' = "oracles" /\ left' \in SUBSET Oracles /\ dropped' \in BOOLEAN
    BY <1>9 DEF SubscribeAccount, Begin
  <2> QED
    BY <1>9, <2>1, <2>2 DEF SubscribeAccount
<1>10. CASE Started
  BY <1>10, FollowingPhases, PhaseNames DEF Started
<1> QED
  BY <1>1, <1>2, <1>3, <1>4, <1>5, <1>6, <1>7, <1>8, <1>9, <1>10 DEF Start

LEMMA NextTyped == Typed /\ [Next]_vars => Typed'
<1> SUFFICES ASSUME Typed, [Next]_vars PROVE Typed'
  OBVIOUS
<1> USE DEF Typed, TypeOK, Behind, Early, env, paging, feeds
<1>1. CASE Launch
  BY <1>1 DEF Launch
<1>2. CASE Start
  BY <1>2, StartTyped
<1>3. CASE Stop
  <2>1. <<>> \in Seq(Oracles) /\ 0 \in 0..Len(<<>>)
    OBVIOUS
  <2>2. keys' \in Seq(Oracles) /\ index' \in 0..Len(keys')
    BY <1>3, <2>1 DEF Stop
  <2>3. TypeOK'
    BY <1>3, <2>2, VersionFacts DEF Stop
  <2>4. Behind'
    <3> SUFFICES ASSUME NEW k \in Keys
                 PROVE  chain[k]' <= updates' + 1 /\ mem[k]' <= chain[k]' /\ read[k]' <= chain[k]'
      OBVIOUS
    <3>1. chain'[k] = chain[k] /\ mem'[k] = 0 /\ read'[k] = 0 /\ updates' = updates
      BY <1>3, VersionFacts DEF Stop
    <3>2. chain[k] <= updates + 1 /\ chain[k] \in Nat
      BY VersionFacts
    <3> QED
      BY <3>1, <3>2
  <2> QED
    BY <1>3, <2>3, <2>4 DEF Stop
<1>4. ASSUME NEW k \in Keys, ChainUpdate(k) \/ Deliver(k) PROVE Typed'
  BY <1>4, ChangeTyped
<1>5. CASE Break \/ Abort \/ Interrupt
  BY <1>5 DEF Break, Abort, Interrupt
<1>6. CASE UNCHANGED vars
  BY <1>6 DEF vars
<1> QED
  BY <1>1, <1>2, <1>3, <1>4, <1>5, <1>6 DEF Next

\* Every reachable state is well-typed.
THEOREM TypeCorrect == Spec => []TypeOK
<1>1. Typed => TypeOK
  BY DEF Typed
<1> QED
  BY InitTyped, NextTyped, <1>1, PTL DEF Spec

-------------------------------------------------------------------------------
(***************************************************************************)
(* What is loaded and what is subscribed.                                  *)
(***************************************************************************)
\* While the prices are loaded, keys names the oracles of the reserves, and
\* what the pages before index brought is there.
Loading ==
    phase = "prices" =>
        /\ \A o \in Oracles : mem[o] = 0 /\ (read[o] # 0 => o \in NamedBy(mem))
        /\ \A o \in NamedBy(mem) : \E n \in 1..Len(keys) : keys[n] = o
        /\ \A n \in 1..Len(keys) : keys[n] \in NamedBy(mem)
        /\ \A n \in 1..index : read[keys[n]] # 0

\* Without an error the subscriptions follow the order of Start.
Clean ==
    ~dropped =>
        /\ phase \in {"slots", "program", "oracles", "run"} => Priced = Named
        /\ phase \in {"slots", "program"} => left = Named
        /\ phase = "program" => subs = {slot}
        /\ phase = "oracles" => left \subseteq Named /\ subs = {slot, program} \cup (Named \ left)
        /\ phase = "run" => subs = {slot, program} \cup Named

\* What is delivered is what was on the chain, from since on, and the memory
\* has it or is older than the subscription.
Followed(k) ==
    /\ heard[k] <= chain[k]
    /\ mem[k] # 0 => mem[k] = heard[k] \/ (mem[k] < heard[k] /\ heard[k] = since[k])

Heard == \A k \in Keys : Follows(k) => Followed(k)

Inv == Typed /\ Loading /\ AllPricesOrNone /\ Clean /\ Heard

\* What Named and Priced depend on.
LEMMA SameNamed ==
    ASSUME \A k \in Keys : mem'[k] # 0 <=> mem[k] # 0
    PROVE  NamedBy(mem') = NamedBy(mem) /\ Named' = Named /\ Priced' = Priced
  BY DEF NamedBy, Named, Priced, Keys

LEMMA NamedIs == Named = NamedBy(mem) \cap PriceAccounts
  BY DEF Named, NamedBy

\* A subscription that begins hears what is on the chain now.
LEMMA BeginHeard ==
    ASSUME Typed, Heard, NEW s, Begin(s), UNCHANGED <<env, mem>>
    PROVE  Heard'
<1> SUFFICES ASSUME NEW k \in Keys, Follows(k)' PROVE Followed(k)'
  BY DEF Heard
<1>1. mem[k] \in Nat /\ chain[k] \in Nat /\ mem[k] <= chain[k]
  BY VersionFacts DEF Typed, TypeOK, Behind
<1>2. CASE k \in Feed(s)
  <2>1. heard'[k] = chain[k] /\ since'[k] = chain[k] /\ mem' = mem /\ chain' = chain
    BY <1>2 DEF Begin, env
  <2> QED
    BY <1>1, <2>1 DEF Followed
<1>3. CASE k \notin Feed(s)
  <2>1. Follows(k)
    BY <1>3 DEF Follows, Begin
  <2>2. heard'[k] = heard[k] /\ since'[k] = since[k] /\ mem' = mem /\ chain' = chain
    BY <1>3 DEF Begin, env
  <2> QED
    BY <2>1, <2>2 DEF Heard, Followed
<1> QED
  BY <1>2, <1>3

\* Without a subscription there is nothing to follow.
LEMMA NoneHeard == subs = {} => Heard
  BY DEF Heard, Follows

LEMMA InitInv == Init => Inv
<1> SUFFICES ASSUME Init PROVE Inv
  OBVIOUS
<1>1. subs = {} /\ phase = "down"
  BY DEF Init
<1> QED
  BY <1>1, InitTyped, NoneHeard DEF Inv, Loading, AllPricesOrNone, Clean

LEMMA LoadAccountsInv ==
    ASSUME Inv, LoadAccounts
    PROVE  Inv'
<1>1. phase' = "prices" /\ phase = "load" /\ subs' = {}
  BY FollowingPhases DEF LoadAccounts, Inv, Typed, Early, feeds
<1>2. mem = Nothing /\ index' = 0 /\ read' = Nothing
  BY <1>1 DEF LoadAccounts, Inv, Typed, Early
<1>3. \A o \in Oracles : mem'[o] = 0
  BY <1>2, VersionFacts DEF LoadAccounts, Keys
<1>4. keys' \in SetToSeqs(NamedBy(mem'))
  BY DEF LoadAccounts, NamedBy
<1>5. Loading'
  BY <1>2, <1>3, <1>4, NamedSeq, VersionFacts DEF Loading, Keys
<1>6. Typed'
  BY LoadAccountsTyped DEF Inv
<1> QED
  BY <1>1, <1>5, <1>6, NoneHeard DEF Inv, AllPricesOrNone, Clean, Heard, Follows

LEMMA LoadPageInv ==
    ASSUME Inv, LoadPage
    PROVE  Inv'
<1> DEFINE page == {keys[n] : n \in (index + 1)..End}
<1>1. PICK got \in [page -> Version] :
         /\ \A o \in page : got[o] \in 1..chain[o]
         /\ read' = [k \in Keys |-> IF k \in page THEN got[k] ELSE read[k]]
  BY DEF LoadPage
<1>2. End \in 0..Len(keys) /\ index < End /\ index \in Nat /\ Len(keys) \in Nat /\ index' = End
  BY EndFacts DEF LoadPage, Inv, Typed, TypeOK
<1>3. \A n \in 1..Len(keys) : keys[n] \in Oracles /\ keys[n] \in Keys
  BY DEF Inv, Typed, TypeOK, Keys
<1>4. UNCHANGED <<mem, keys, phase, subs, dropped, left>> /\ phase = "prices"
  BY DEF LoadPage, feeds
<1>5. \A o \in page : got[o] # 0 /\ o \in Keys
  BY <1>1, <1>2, <1>3
<1>6. Loading'
  <2>1. \A o \in Oracles : mem'[o] = 0
    BY <1>4 DEF Inv, Loading
  <2>2. ASSUME NEW o \in Oracles, read'[o] # 0 PROVE o \in NamedBy(mem')
    <3>1. CASE o \in page
      BY <1>2, <1>4, <3>1 DEF Inv, Loading
    <3>2. CASE o \notin page
      BY <1>1, <1>4, <2>2, <3>2 DEF Inv, Loading, Keys
    <3> QED
      BY <3>1, <3>2
  <2>3. ASSUME NEW n \in 1..index' PROVE read'[keys'[n]] # 0
    <3>1. n \in 1..Len(keys)
      BY <1>2
    <3>2. CASE keys[n] \in page
      BY <1>1, <1>4, <1>5, <3>2
    <3>3. CASE keys[n] \notin page
      <4>1. n \in 1..index
        BY <1>2, <3>3
      <4> QED
        BY <1>1, <1>3, <1>4, <3>1, <3>3, <4>1 DEF Inv, Loading
    <3> QED
      BY <3>2, <3>3
  <2> QED
    BY <1>4, <2>1, <2>2, <2>3 DEF Inv, Loading
<1>7. Typed'
  BY LoadPageTyped DEF Inv
<1>8. Heard'
  BY <1>4 DEF Inv, Typed, Early, Heard, Follows
<1> QED
  BY <1>4, <1>6, <1>7, <1>8 DEF Inv, AllPricesOrNone, Clean

LEMMA BuildPricesInv ==
    ASSUME Inv, BuildPrices
    PROVE  Inv'
<1>1. phase' = "slots" /\ phase = "prices" /\ subs' = {} /\ index = Len(keys)
  BY FollowingPhases DEF BuildPrices, Inv, Typed, Early, feeds
<1>2. \A r \in Reserves : mem'[r] = mem[r]
  BY PriceAccountsAssumption, KeysAssumption DEF BuildPrices, Built, Keys
<1>3. NamedBy(mem') = NamedBy(mem)
  BY <1>2 DEF NamedBy
<1>4. \A o \in Oracles : mem'[o] # 0 <=> o \in PriceAccounts /\ read[o] # 0
  BY <1>1 DEF BuildPrices, Built, Keys, Inv, Loading
<1>5. \A o \in Oracles : read[o] # 0 <=> o \in NamedBy(mem)
  BY <1>1 DEF Inv, Loading
<1>6. Priced' = Named'
  <2>1. Priced' = {o \in Oracles : o \in PriceAccounts /\ o \in NamedBy(mem)}
    BY <1>4, <1>5 DEF Priced
  <2>2. Named' = NamedBy(mem') \cap PriceAccounts
    BY DEF Named, NamedBy
  <2> QED
    BY <1>3, <2>1, <2>2
<1>7. left' = Priced'
  BY DEF BuildPrices, Priced
<1>8. Typed'
  BY BuildPricesTyped DEF Inv
<1> QED
  BY <1>1, <1>6, <1>7, <1>8, NoneHeard DEF Inv, Loading, AllPricesOrNone, Clean, Heard, Follows

\* The subscriptions of slots and of the program, and each that fails.
LEMMA SubscribeInv ==
    ASSUME Inv, NEW p, NEW s, <<p, s>> \in {<<"slots", slot>>, <<"program", program>>},
           Subscribe(p, s)
    PROVE  Inv'
<1>1. /\ \/ p = "slots" /\ s = slot /\ phase' = "program"
         \/ p = "program" /\ s = program /\ phase' = "oracles"
      /\ phase = p /\ subs' = subs \cup {s}
      /\ UNCHANGED <<mem, left, dropped, env>>
  BY FollowingPhases DEF Subscribe, Begin
<1>2. Typed'
  BY <1>1, StartTyped DEF Start, Inv
<1>3. Heard'
  BY <1>1, BeginHeard DEF Inv, Subscribe
<1>4. Named' = Named /\ Priced' = Priced
  BY <1>1 DEF Named, Priced
<1>5. AllPricesOrNone'
  BY <1>1, <1>4 DEF Inv, AllPricesOrNone
<1>6. Clean'
  <2>1. phase = "slots" => subs = {}
    BY DEF Inv, Typed, Early
  <2> QED
    BY <1>1, <1>4, <2>1 DEF Inv, Clean
<1> QED
  BY <1>1, <1>2, <1>3, <1>5, <1>6 DEF Inv, Loading

LEMMA SubscribeAccountInv ==
    ASSUME Inv, NEW o \in Oracles, SubscribeAccount(o)
    PROVE  Inv'
<1>1. /\ phase = "oracles" /\ phase' = "oracles" /\ o \in left /\ left' = left \ {o}
      /\ UNCHANGED <<mem, env>>
  BY DEF SubscribeAccount
<1>2. Typed'
  BY StartTyped DEF Start, Inv
<1>3. Heard'
  <2>1. CASE Begin(o)
    BY <1>1, <2>1, BeginHeard DEF Inv
  <2>2. CASE UNCHANGED feeds
    BY <1>1, <2>2 DEF Inv, Heard, Follows, Followed, feeds, env
  <2> QED
    BY <2>1, <2>2 DEF SubscribeAccount
<1>4. Named' = Named /\ Priced' = Priced
  BY <1>1 DEF Named, Priced
<1>5. Clean'
  <2> SUFFICES ASSUME ~dropped' PROVE Clean'
    BY DEF Clean
  <2>1. subs' = subs \cup {o} /\ ~dropped
    BY DEF SubscribeAccount, Begin
  <2>2. left \subseteq Named /\ subs = {slot, program} \cup (Named \ left) /\ Priced = Named
    BY <1>1, <2>1 DEF Inv, Clean
  <2> QED
    BY <1>1, <1>4, <2>1, <2>2 DEF Clean
<1> QED
  BY <1>1, <1>2, <1>3, <1>4, <1>5 DEF Inv, Loading, AllPricesOrNone

\* A step of Start that gives up leaves what is there.
LEMMA FailsInv ==
    ASSUME Inv, LoadFails \/ PageFails \/ SubscribeFails("slots") \/ SubscribeFails("program")
    PROVE  Inv'
<1>1. Start /\ UNCHANGED <<mem, left, feeds, env>> /\ dropped' = TRUE
  BY DEF Start, LoadFails, PageFails, SubscribeFails, Skip
<1>2. \/ phase \in {"load", "prices"} /\ phase' = "slots"
      \/ phase = "slots" /\ phase' = "program"
      \/ phase = "program" /\ phase' = "oracles"
  BY FollowingPhases DEF LoadFails, PageFails, SubscribeFails, Skip
<1>3. Named' = Named /\ Priced' = Priced
  BY <1>1 DEF Named, Priced
<1>4. phase \in {"load", "prices"} => Priced = {}
  BY VersionFacts DEF Inv, Typed, Early, Loading, Priced, Keys
<1>5. AllPricesOrNone'
  BY <1>2, <1>3, <1>4 DEF Inv, AllPricesOrNone
<1>6. Heard'
  BY <1>1 DEF Inv, Heard, Follows, Followed, feeds, env
<1>7. Typed'
  BY <1>1, StartTyped DEF Inv
<1> QED
  BY <1>1, <1>2, <1>5, <1>6, <1>7 DEF Inv, Loading, Clean

LEMMA StartInv ==
    ASSUME Inv, Start
    PROVE  Inv'
<1>0. Typed'
  BY StartTyped DEF Inv
<1>1. CASE Connect
  <2>1. phase = "connect" /\ phase' \in {"down", "load"} /\ UNCHANGED <<mem, feeds>> /\ subs = {}
    BY <1>1, FollowingPhases DEF Connect, Inv, Typed, Early
  <2> QED
    BY <1>0, <2>1 DEF Inv, Loading, AllPricesOrNone, Clean, Heard, Follows, feeds
<1>2. CASE LoadAccounts
  BY <1>2, LoadAccountsInv
<1>3. CASE LoadFails \/ PageFails \/ SubscribeFails("slots") \/ SubscribeFails("program")
  BY <1>3, FailsInv
<1>4. CASE LoadPage
  BY <1>4, LoadPageInv
<1>5. CASE BuildPrices
  BY <1>5, BuildPricesInv
<1>6. CASE Subscribe("slots", slot) \/ Subscribe("program", program)
  BY <1>6, SubscribeInv
<1>7. ASSUME NEW o \in Oracles, SubscribeAccount(o) PROVE Inv'
  BY <1>7, SubscribeAccountInv
<1>8. CASE Started
  <2>1. /\ phase = "oracles" /\ phase' = "run" /\ left = {}
        /\ UNCHANGED <<mem, left, subs, since, heard, chain, dropped>>
    BY <1>8, FollowingPhases DEF Started, feeds, env
  <2>2. Named' = Named /\ Priced' = Priced
    BY <2>1 DEF Named, Priced
  <2>3. Heard'
    BY <2>1 DEF Inv, Heard, Follows, Followed
  <2> QED
    BY <1>0, <2>1, <2>2, <2>3 DEF Inv, Loading, AllPricesOrNone, Clean
<1> QED
  BY <1>1, <1>2, <1>3, <1>4, <1>5, <1>6, <1>7, <1>8 DEF Start

\* What is delivered replaces what is known, and nothing becomes known.
LEMMA DeliverInv ==
    ASSUME Inv, NEW k \in Keys, Deliver(k)
    PROVE  Inv'
<1>1. /\ heard[k] \in Nat /\ chain[k] \in Nat /\ heard[k] < chain[k]
      /\ heard \in [Keys -> Version] /\ mem \in [Keys -> Version]
  BY VersionFacts DEF Deliver, Inv, Typed, TypeOK
<1>2. /\ heard' = [heard EXCEPT ![k] = heard[k] + 1]
      /\ mem' = [mem EXCEPT ![k] = IF mem[k] = 0 THEN 0 ELSE heard[k] + 1]
      /\ UNCHANGED <<chain, phase, left, subs, since, dropped, keys, index, read>>
  BY <1>1 DEF Deliver, env, paging
<1>3. \A j \in Keys : mem'[j] # 0 <=> mem[j] # 0
  BY <1>1, <1>2
<1>4. NamedBy(mem') = NamedBy(mem) /\ Named' = Named /\ Priced' = Priced
  BY <1>3, SameNamed
<1>5. Heard'
  <2> SUFFICES ASSUME NEW j \in Keys, Follows(j)' PROVE Followed(j)'
    BY DEF Heard
  <2>1. Followed(j)
    BY <1>2 DEF Inv, Heard, Follows
  <2> QED
    BY <1>1, <1>2, <2>1 DEF Followed
<1>6. Loading'
  BY <1>2, <1>3, <1>4 DEF Inv, Loading, Keys
<1>7. Typed'
  BY ChangeTyped DEF Inv
<1> QED
  BY <1>2, <1>4, <1>5, <1>6, <1>7 DEF Inv, AllPricesOrNone, Clean

LEMMA ChainUpdateInv ==
    ASSUME Inv, NEW k \in Keys, ChainUpdate(k)
    PROVE  Inv'
<1>1. /\ chain \in [Keys -> Version] /\ \A j \in Keys : chain[j] \in Nat /\ heard[j] \in Nat
      /\ chain' = [chain EXCEPT ![k] = chain[k] + 1]
      /\ UNCHANGED <<mem, phase, left, subs, since, heard, dropped, keys, index, read>>
  BY VersionFacts DEF ChainUpdate, Inv, Typed, TypeOK, paging, feeds
<1>2. Heard'
  <2> SUFFICES ASSUME NEW j \in Keys, Follows(j)' PROVE Followed(j)'
    BY DEF Heard
  <2>1. Followed(j)
    BY <1>1 DEF Inv, Heard, Follows
  <2> QED
    BY <1>1, <2>1 DEF Followed
<1>3. Typed'
  BY ChangeTyped DEF Inv
<1>4. Named' = Named /\ Priced' = Priced
  BY <1>1 DEF Named, Priced
<1> QED
  BY <1>1, <1>2, <1>3, <1>4 DEF Inv, Loading, AllPricesOrNone, Clean

LEMMA NextInv == Inv /\ [Next]_vars => Inv'
<1> SUFFICES ASSUME Inv, [Next]_vars PROVE Inv'
  OBVIOUS
<1>0. Typed'
  BY NextTyped DEF Inv
<1>1. CASE Launch
  <2>1. phase' = "connect" /\ UNCHANGED <<mem, subs>> /\ subs = {}
    BY <1>1 DEF Launch, Inv, Typed, Early, feeds
  <2> QED
    BY <1>0, <2>1 DEF Inv, Loading, AllPricesOrNone, Clean, Heard, Follows
<1>2. CASE Start
  BY <1>2, StartInv
<1>3. CASE Stop
  <2>1. phase' = "down" /\ subs' = {}
    BY <1>3 DEF Stop
  <2> QED
    BY <1>0, <2>1 DEF Inv, Loading, AllPricesOrNone, Clean, Heard, Follows
<1>4. ASSUME NEW k \in Keys, ChainUpdate(k) \/ Deliver(k) PROVE Inv'
  BY <1>4, ChainUpdateInv, DeliverInv
<1>5. CASE Break \/ Abort \/ Interrupt \/ UNCHANGED vars
  <2>1. UNCHANGED <<chain, phase, mem, keys, index, read, left, subs, since, heard, dropped>>
    BY <1>5 DEF Break, Abort, Interrupt, vars, env, paging, feeds
  <2>2. Named' = Named /\ Priced' = Priced
    BY <2>1 DEF Named, Priced
  <2>3. Heard'
    BY <2>1 DEF Inv, Heard, Follows, Followed
  <2> QED
    BY <1>0, <2>1, <2>2, <2>3 DEF Inv, Loading, AllPricesOrNone, Clean
<1> QED
  BY <1>1, <1>2, <1>3, <1>4, <1>5 DEF Next

LEMMA Invariance == Spec => []Inv
  BY InitInv, NextInv, PTL DEF Spec

-------------------------------------------------------------------------------
\* An account the bot knows and follows is the one delivered last, or it has
\* not changed since it was subscribed (liquidate.go, Start before Flash).
THEOREM MemoryIsFollowed == Spec => []MemoryFollows
<1>1. Inv => MemoryFollows
  BY DEF Inv, Heard, Followed, MemoryFollows
<1> QED
  BY Invariance, <1>1, PTL

\* The pages of getAccountsFromChain are used together, or not at all.
THEOREM PricesAllOrNone == Spec => []AllPricesOrNone
<1>1. Inv => AllPricesOrNone
  BY DEF Inv
<1> QED
  BY Invariance, <1>1, PTL

\* A Start without an error hears the oracle of every reserve.
THEOREM HearsAllOracles == Spec => []CleanStartHearsAll
<1>1. Inv => CleanStartHearsAll
  BY DEF Inv, Clean, CleanStartHearsAll
<1> QED
  BY Invariance, <1>1, PTL
===============================================================================
