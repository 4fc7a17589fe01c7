--------------------------- MODULE BlockHashProofs ----------------------------
(***************************************************************************)
(* What module BlockHash states, proved for every number of sources, every *)
(* capacity and every bound.                                               *)
(***************************************************************************)
EXTENDS BlockHash, SequenceTheorems, TLAPS

-------------------------------------------------------------------------------
\* The next source, without the remainder.
LEMMA NextSource ==
    ASSUME NEW s \in Sources
    PROVE  (s + 1) % SourceCount = IF s + 1 = SourceCount THEN 0 ELSE s + 1
  BY SourceAssumption, Z3 DEF Sources

\* Tail(Append(q, e)) keeps the length of q and moves its elements by one.
LEMMA ShiftFacts ==
    ASSUME NEW S, NEW q \in Seq(S), q # <<>>, NEW e \in S
    PROVE  /\ Tail(Append(q, e)) \in Seq(S)
           /\ Len(Tail(Append(q, e))) = Len(q)
           /\ \A i \in 1..(Len(q) - 1) : Tail(Append(q, e))[i] = q[i + 1]
           /\ Tail(Append(q, e))[Len(q)] = e
  OBVIOUS

LEMMA ThreeIsNotEmpty == ASSUME NEW q, Len(q) = 3 PROVE q # <<>>
  OBVIOUS

\* A fact about all indexes below three, at each of them.
LEMMA AtTwo ==
    ASSUME NEW f, NEW g, NEW n, n = 3, \A i \in 1..(n - 1) : g[i] = f[i + 1]
    PROVE  g[1] = f[2] /\ g[2] = f[3]
  OBVIOUS

\* What enters the cache keeps its length and moves it by one.
LEMMA ShiftedCache ==
    ASSUME NEW cache \in Seq(Hash), Len(cache) = BHCachedSize, NEW h \in Hash
    PROVE  /\ Shifted(cache, h) \in Seq(Hash)
           /\ Len(Shifted(cache, h)) = BHCachedSize
           /\ Shifted(cache, h)[1] = cache[2]
           /\ Shifted(cache, h)[2] = cache[3]
           /\ Shifted(cache, h)[3] = h
<1> DEFINE new == Tail(Append(cache, h))
<1> DEFINE n == Len(cache)
<1>1. n = 3
  BY DEF BHCachedSize
<1>2. cache # <<>>
  BY <1>1, ThreeIsNotEmpty
<1>3. /\ new \in Seq(Hash) /\ Len(new) = n
      /\ \A i \in 1..(n - 1) : new[i] = cache[i + 1]
      /\ new[n] = h
  BY <1>2, ShiftFacts
<1>4. Shifted(cache, h) = new
  BY DEF Shifted
<1> HIDE DEF new, n
<1>5. new[1] = cache[2] /\ new[2] = cache[3]
  BY <1>1, <1>3, AtTwo
<1> QED
  BY <1>1, <1>3, <1>4, <1>5 DEF BHCachedSize

\* The fields of a hash.
LEMMA HashFields ==
    ASSUME NEW h \in Hash
    PROVE  h.block \in 0..MaxBlock /\ h.source \in 0..SourceCount
  BY DEF Hash

LEMMA ZeroIsHash == Zero \in Hash /\ Zero.block = 0 /\ Zero.source = SourceCount
  BY SourceAssumption, BoundsAssumption DEF Zero, Hash, NoSource

\* The parts of a well-typed cache.
LEMMA CacheParts ==
    ASSUME NEW cache \in Seq(Hash), Len(cache) = BHCachedSize
    PROVE  cache[1] \in Hash /\ cache[2] \in Hash /\ cache[3] \in Hash
  BY ElementOfSeq DEF BHCachedSize

-------------------------------------------------------------------------------
(***************************************************************************)
(* Type correctness.                                                       *)
(***************************************************************************)
Typed == TypeOK /\ (pc = "try" => tries # 0)

LEMMA InitTyped == Init => Typed
<1> SUFFICES ASSUME Init PROVE Typed
  OBVIOUS
<1>1. <<Zero, Zero, Zero>> \in Seq(Hash) /\ Len(<<Zero, Zero, Zero>>) = BHCachedSize
  BY ZeroIsHash DEF BHCachedSize
<1>2. 0 \in Sources
  BY SourceAssumption DEF Sources
<1> QED
  BY <1>1, <1>2, ZeroIsHash, SourceAssumption, PeriodAssumption, BoundsAssumption
     DEF Init, Typed, TypeOK

LEMMA NextTyped == Typed /\ [Next]_vars => Typed'
<1> SUFFICES ASSUME Typed, [Next]_vars PROVE Typed'
  OBVIOUS
<1> USE SourceAssumption, PeriodAssumption, BoundsAssumption
<1>1. CASE RecvSlot
  BY <1>1 DEF RecvSlot, Typed, TypeOK, cacheVars
<1>2. CASE Signal
  BY <1>2 DEF Signal, Typed, TypeOK, cacheVars
<1>3. CASE TakeSignal
  BY <1>3 DEF TakeSignal, Typed, TypeOK, recvVars
<1>4. CASE Answer
  <2>1. index \in Sources /\ head[index] \in 1..MaxBlock
    BY DEF Typed, TypeOK
  <2>2. [block |-> head[index], source |-> index] \in Hash
    BY <2>1 DEF Hash, Sources
  <2> QED
    BY <1>4, <2>2 DEF Answer, Typed, TypeOK, recvVars
<1>5. CASE Fail
  <2>1. tries' \in 0..SourceCount
    BY <1>5 DEF Fail, Typed, TypeOK
  <2>2. (index + 1) % SourceCount \in Sources
    BY NextSource DEF Typed, TypeOK, Sources
  <2>3. asked \cup {index} \in SUBSET Sources
    BY DEF Typed, TypeOK
  <2> QED
    BY <1>5, <2>1, <2>2, <2>3 DEF Fail, Typed, TypeOK, recvVars
<1>6. CASE GiveUp
  BY <1>6 DEF GiveUp, Typed, TypeOK, recvVars
<1>7. CASE Store
  <2>1. cachedBH' \in Seq(Hash) /\ Len(cachedBH') = BHCachedSize
    BY <1>7, ShiftedCache DEF Store, Typed, TypeOK
  <2> QED
    BY <1>7, <2>1 DEF Store, Typed, TypeOK, recvVars
<1>8. CASE GetRecentBlockHash
  <2>1. cachedBH[BHCachedSize] \in Hash
    BY CacheParts DEF Typed, TypeOK, BHCachedSize
  <2> QED
    BY <1>8, <2>1 DEF GetRecentBlockHash, Typed, TypeOK, recvVars, cacheVars
<1>9. ASSUME NEW s \in Sources, NodeAdvances(s) PROVE Typed'
  BY <1>9 DEF NodeAdvances, Typed, TypeOK, recvVars, cacheVars
<1>10. CASE UNCHANGED vars
  BY <1>10 DEF vars, recvVars, cacheVars, Typed, TypeOK
<1> QED
  BY <1>1, <1>2, <1>3, <1>4, <1>5, <1>6, <1>7, <1>8, <1>9, <1>10 DEF Next, Cache

THEOREM TypeCorrect == Spec => []TypeOK
<1>1. Typed => TypeOK
  BY DEF Typed
<1> QED
  BY InitTyped, NextTyped, <1>1, PTL DEF Spec

-------------------------------------------------------------------------------
(***************************************************************************)
(* A signal that is given up was tried with every source.                  *)
(***************************************************************************)
\* The source s is still to be asked: one of the next tries sources, where
\* source 0 follows the last.
StillToAsk(s) ==
    \/ index <= s /\ s < index + tries
    \/ s + SourceCount < index + tries

AskedInv ==
    /\ pc = "try" => \A s \in Sources : s \in asked \/ StillToAsk(s)
    /\ pc = "failed" => asked = Sources

\* A failure moves index on by one, and the sources still to be asked are
\* those that were, but for the one that failed.
LEMMA FailAsks ==
    ASSUME Typed, AskedInv, Fail
    PROVE  \A s \in Sources : s \in asked' \/ StillToAsk(s)'
<1> SUFFICES ASSUME NEW s \in Sources, s \notin asked'
             PROVE  StillToAsk(s)'
  OBVIOUS
<1>1. s \notin asked /\ s # index
  BY DEF Fail
<1>2. StillToAsk(s)
  BY <1>1 DEF AskedInv, Fail
<1>3. index' = IF index + 1 = SourceCount THEN 0 ELSE index + 1
  BY NextSource DEF Fail, Typed, TypeOK
<1>4. tries' = tries - 1
  BY DEF Fail
<1>5. SourceCount \in Nat /\ tries \in Nat /\ index \in 0..(SourceCount - 1) /\ s \in 0..(SourceCount - 1)
  BY SourceAssumption DEF Typed, TypeOK, Sources
<1> QED
  BY <1>1, <1>2, <1>3, <1>4, <1>5 DEF StillToAsk

LEMMA InitAsked == Init => AskedInv
  BY DEF Init, AskedInv

LEMMA NextAsked == Typed /\ AskedInv /\ [Next]_vars => AskedInv'
<1> SUFFICES ASSUME Typed, AskedInv, [Next]_vars PROVE AskedInv'
  OBVIOUS
<1>1. CASE RecvSlot \/ Signal \/ GetRecentBlockHash
  BY <1>1 DEF RecvSlot, Signal, GetRecentBlockHash, cacheVars, AskedInv, StillToAsk
<1>2. CASE TakeSignal
  <2>1. pc' = "try" /\ index' = index /\ tries' = SourceCount
    BY <1>2 DEF TakeSignal
  <2>2. SourceCount \in Nat /\ index \in 0..(SourceCount - 1)
    BY SourceAssumption DEF Typed, TypeOK, Sources
  <2>3. \A s \in Sources : StillToAsk(s)'
    BY <2>1, <2>2 DEF StillToAsk, Sources
  <2> QED
    BY <2>1, <2>3 DEF AskedInv
<1>3. CASE Answer \/ GiveUp \/ Store
  BY <1>3 DEF Answer, GiveUp, Store, AskedInv
<1>4. CASE Fail
  <2>1. \A s \in Sources : s \in asked' \/ StillToAsk(s)'
    BY <1>4, FailAsks
  <2>2. ASSUME pc' = "failed" PROVE asked' = Sources
    <3>1. tries' = 0
      BY <1>4, <2>2 DEF Fail
    <3>2. Typed'
      BY NextTyped
    <3>3. index' \in 0..(SourceCount - 1) /\ SourceCount \in Nat /\ asked' \in SUBSET Sources
      BY <3>2, SourceAssumption DEF Typed, TypeOK, Sources
    <3>4. ASSUME NEW s \in Sources PROVE ~StillToAsk(s)'
      <4>1. s \in 0..(SourceCount - 1)
        BY DEF Sources
      <4>2. ASSUME NEW i \in 0..(SourceCount - 1)
            PROVE  ~(i <= s /\ s < i + 0) /\ ~(s + SourceCount < i + 0)
        BY <4>1, SourceAssumption
      <4> QED
        BY <3>1, <3>3, <4>2 DEF StillToAsk
    <3> QED
      BY <2>1, <3>3, <3>4
  <2> QED
    BY <2>1, <2>2 DEF AskedInv
<1>5. ASSUME NEW s \in Sources, NodeAdvances(s) PROVE AskedInv'
  BY <1>5 DEF NodeAdvances, cacheVars, AskedInv, StillToAsk
<1>6. CASE UNCHANGED vars
  BY <1>6 DEF vars, cacheVars, AskedInv, StillToAsk
<1> QED
  BY <1>1, <1>2, <1>3, <1>4, <1>5, <1>6 DEF Next, Cache

\* CacheRecentBlockHash gives a signal up ("all err") only after every source
\* failed for it, wherever among its sources it started.
THEOREM AllErrIsHonest == Spec => []AllErrMeansAll
<1>1. AskedInv => AllErrMeansAll
  BY DEF AskedInv, AllErrMeansAll
<1> QED
  BY InitTyped, NextTyped, InitAsked, NextAsked, <1>1, PTL DEF Spec

-------------------------------------------------------------------------------
(***************************************************************************)
(* The hashes of neighbouring levels differ.                               *)
(***************************************************************************)
LEMMA StoreDiffers ==
    ASSUME Typed, NeighboursDiffer, Store
    PROVE  NeighboursDiffer'
<1>1. CASE cachedBH' = cachedBH
  BY <1>1 DEF NeighboursDiffer
<1>2. CASE Newest(cachedBH).block # result.block /\ cachedBH' = Shifted(cachedBH, result)
  <2>1. cachedBH'[1] = cachedBH[2] /\ cachedBH'[2] = cachedBH[3] /\ cachedBH'[3] = result
    BY <1>2, ShiftedCache DEF Typed, TypeOK
  <2>2. cachedBH[2].block = cachedBH[3].block => cachedBH[2] = Zero
    BY DEF NeighboursDiffer, BHCachedSize
  <2>3. cachedBH[3].block # result.block
    BY <1>2 DEF Newest, BHCachedSize
  <2>4. \A i \in 1..2 : i = 1 \/ i = 2
    OBVIOUS
  <2>5. cachedBH'[1].block = cachedBH'[2].block => cachedBH'[1] = Zero
    BY <2>1, <2>2
  <2>6. cachedBH'[2].block # cachedBH'[3].block
    BY <2>1, <2>3
  <2>7. BHCachedSize - 1 = 2 /\ 1 + 1 = 2 /\ 2 + 1 = 3
    BY DEF BHCachedSize
  <2> QED
    BY <2>4, <2>5, <2>6, <2>7 DEF NeighboursDiffer
<1> QED
  BY <1>1, <1>2 DEF Store

LEMMA InitDiffers == Init => NeighboursDiffer
  BY DEF Init, NeighboursDiffer, BHCachedSize

LEMMA NextDiffers == Typed /\ NeighboursDiffer /\ [Next]_vars => NeighboursDiffer'
<1> SUFFICES ASSUME Typed, NeighboursDiffer, [Next]_vars, ~Store PROVE NeighboursDiffer'
  BY StoreDiffers
<1>1. cachedBH' = cachedBH
  BY DEF Next, Cache, RecvSlot, Signal, TakeSignal, Answer, Fail, GiveUp,
         GetRecentBlockHash, NodeAdvances, vars
<1> QED
  BY <1>1 DEF NeighboursDiffer

\* A hash that equals the newest one never enters the cache, so that a retry
\* at the next level uses another hash.
THEOREM LevelsDiffer == Spec => []NeighboursDiffer
  BY InitTyped, NextTyped, InitDiffers, NextDiffers, PTL DEF Spec

-------------------------------------------------------------------------------
(***************************************************************************)
(* The hashes of one source are used in the order of their blocks.         *)
(***************************************************************************)
\* a is not newer than b, if both come from the same source.
NotNewer(a, b) == a.source = b.source => a.block <= b.block

\* The node behind the source of h knows the block of h.
Known(h) ==
    /\ h.source \in Sources => h.block <= head[h.source]
    /\ h.source = NoSource => h.block = 0

\* h comes from a node if g does: the zero hash does not return.
NoZeroAfter(g, h) == h.source = NoSource => g.source = NoSource

\* The last hash used, the newest one cached, and the one to be stored.
OrderInv ==
    /\ Known(used) /\ Known(cachedBH[3]) /\ NotNewer(used, cachedBH[3])
    /\ NoZeroAfter(used, cachedBH[3])
    /\ pc = "store" =>
          /\ Known(result) /\ NotNewer(used, result) /\ NotNewer(cachedBH[3], result)
          /\ result.source # NoSource

LEMMA InitOrder == Init => OrderInv
<1> SUFFICES ASSUME Init PROVE OrderInv
  OBVIOUS
<1>1. used = Zero /\ cachedBH[3] = Zero /\ pc # "store"
  BY DEF Init
<1>2. Known(Zero)
  BY SourceAssumption, ZeroIsHash DEF Known, Sources
<1>3. NotNewer(Zero, Zero)
  BY ZeroIsHash DEF NotNewer
<1> QED
  BY <1>1, <1>2, <1>3 DEF OrderInv, NoZeroAfter

\* What the nodes know only grows.
LEMMA KnownGrows ==
    ASSUME Typed, [Next]_vars, NEW h \in Hash, Known(h)
    PROVE  h.source \in Sources => h.block <= head'[h.source]
<1> SUFFICES ASSUME h.source \in Sources PROVE h.block <= head'[h.source]
  OBVIOUS
<1>1. h.block \in Int /\ head[h.source] \in Int /\ h.block <= head[h.source]
  BY HashFields DEF Known, Typed, TypeOK
<1>2. CASE head' = head
  BY <1>1, <1>2
<1>3. ASSUME NEW s \in Sources, NodeAdvances(s) PROVE h.block <= head'[h.source]
  <2>1. PICK b \in (head[s] + 1)..MaxBlock : head' = [head EXCEPT ![s] = b]
    BY <1>3 DEF NodeAdvances
  <2>2. head[s] \in Int /\ b \in Int /\ head[s] <= b
    BY BoundsAssumption DEF Typed, TypeOK
  <2>3. head'[h.source] = IF h.source = s THEN b ELSE head[h.source]
    BY <2>1 DEF Typed, TypeOK
  <2> QED
    BY <1>1, <2>2, <2>3
<1>4. head' = head \/ \E s \in Sources : NodeAdvances(s)
  BY DEF Next, Cache, RecvSlot, Signal, TakeSignal, Answer, Fail, GiveUp, Store,
         GetRecentBlockHash, vars
<1> QED
  BY <1>2, <1>3, <1>4

LEMMA NextOrder == Typed /\ OrderInv /\ [Next]_vars => OrderInv'
<1> SUFFICES ASSUME Typed, OrderInv, [Next]_vars PROVE OrderInv'
  OBVIOUS
<1>1. used \in Hash /\ cachedBH[3] \in Hash /\ result \in Hash
  BY CacheParts DEF Typed, TypeOK
<1>2. ASSUME NEW h \in Hash, Known(h)
      PROVE  /\ h.source \in Sources => h.block <= head'[h.source]
             /\ h.source = NoSource => h.block = 0
  BY <1>2, KnownGrows DEF Known
<1>3. CASE /\ used' = used /\ cachedBH' = cachedBH
           /\ pc' = "store" => pc = "store" /\ result' = result
  <2>1. Known(used)' /\ Known(cachedBH[3])'
    BY <1>1, <1>2, <1>3 DEF OrderInv, Known
  <2>2. NotNewer(used, cachedBH[3])' /\ NoZeroAfter(used, cachedBH[3])'
    BY <1>3 DEF OrderInv, NotNewer, NoZeroAfter
  <2>3. ASSUME pc' = "store"
        PROVE  /\ (Known(result) /\ NotNewer(used, result) /\ NotNewer(cachedBH[3], result))'
               /\ result'.source # NoSource
    <3>1. pc = "store" /\ result' = result
      BY <1>3, <2>3
    <3>2. Known(result)'
      BY <1>1, <1>2, <3>1 DEF OrderInv, Known
    <3>3. /\ (NotNewer(used, result) /\ NotNewer(cachedBH[3], result))'
          /\ result'.source # NoSource
      BY <1>3, <3>1 DEF OrderInv, NotNewer
    <3> QED
      BY <3>2, <3>3
  <2> QED
    BY <2>1, <2>2, <2>3 DEF OrderInv
<1>4. CASE Answer
  <2>1. used' = used /\ cachedBH' = cachedBH /\ head' = head
    BY <1>4 DEF Answer
  <2>2. result' = [block |-> head[index], source |-> index]
    BY <1>4 DEF Answer
  <2>3. index \in Sources /\ head[index] \in Int /\ index # NoSource
    BY SourceAssumption DEF Typed, TypeOK, Sources, NoSource
  <2>4. result'.block = head'[result'.source] /\ result'.source \in Sources
        /\ result'.source # NoSource /\ result'.block \in Int
    BY <2>1, <2>2, <2>3
  <2>5. Known(result)'
    BY <2>4 DEF Known
  <2>6. ASSUME NEW h \in Hash, Known(h), h.source = result'.source
        PROVE  h.block <= result'.block
    BY <2>1, <2>4, <2>6 DEF Known
  <2>7. NotNewer(used, result)'
    BY <1>1, <2>1, <2>6 DEF NotNewer, OrderInv
  <2>8. NotNewer(cachedBH[3], result)'
    BY <1>1, <2>1, <2>6 DEF NotNewer, OrderInv
  <2>9. Known(used)' /\ Known(cachedBH[3])' /\ NotNewer(used, cachedBH[3])'
        /\ NoZeroAfter(used, cachedBH[3])'
    BY <2>1 DEF OrderInv, Known, NotNewer, NoZeroAfter
  <2> QED
    BY <2>4, <2>5, <2>7, <2>8, <2>9 DEF OrderInv
<1>5. CASE Store
  <2>1. used' = used /\ head' = head /\ pc' = "wait" /\ pc = "store"
    BY <1>5 DEF Store
  <2>2. cachedBH' = cachedBH \/ cachedBH'[3] = result
    BY <1>5, ShiftedCache DEF Store, Typed, TypeOK
  <2>3. Known(used)' /\ Known(cachedBH[3])' /\ NotNewer(used, cachedBH[3])'
        /\ NoZeroAfter(used, cachedBH[3])'
    BY <2>1, <2>2 DEF OrderInv, Known, NotNewer, NoZeroAfter
  <2> QED
    BY <2>1, <2>3 DEF OrderInv
<1>6. CASE GetRecentBlockHash
  <2>1. /\ used' = cachedBH[3] /\ cachedBH' = cachedBH /\ head' = head
        /\ pc' = pc /\ result' = result
    BY <1>6 DEF GetRecentBlockHash, cacheVars, BHCachedSize
  <2>2. NotNewer(used, cachedBH[3])'
    BY <1>1, <2>1, HashFields DEF NotNewer
  <2> QED
    BY <2>1, <2>2 DEF OrderInv, Known, NotNewer, NoZeroAfter
<1>7. \/ Answer \/ Store \/ GetRecentBlockHash
      \/ /\ used' = used /\ cachedBH' = cachedBH
         /\ pc' = "store" => pc = "store" /\ result' = result
  BY DEF Next, Cache, RecvSlot, Signal, TakeSignal, Fail, GiveUp, NodeAdvances,
         vars, recvVars, cacheVars
<1> QED
  BY <1>3, <1>4, <1>5, <1>6, <1>7

\* A step that uses an older hash uses one of another source, of a node.
LEMMA StepInOrder ==
    Typed /\ OrderInv /\ [Next]_vars
      => [used'.block < used.block => used'.source \notin {used.source, NoSource}]_vars
<1> SUFFICES ASSUME Typed, OrderInv, [Next]_vars, used'.block < used.block
             PROVE  used'.source \notin {used.source, NoSource}
  OBVIOUS
<1>1. used \in Hash /\ cachedBH[3] \in Hash
  BY CacheParts DEF Typed, TypeOK
<1>2. CASE used' = used
  BY <1>1, <1>2, HashFields
<1>3. CASE used' = cachedBH[3]
  BY <1>1, <1>3, HashFields DEF OrderInv, NotNewer, Known, NoZeroAfter
<1>4. used' = used \/ used' = cachedBH[3]
  BY DEF Next, Cache, RecvSlot, Signal, TakeSignal, Answer, Fail, GiveUp, Store,
         GetRecentBlockHash, NodeAdvances, vars, BHCachedSize
<1> QED
  BY <1>2, <1>3, <1>4

\* Commit goes back to an older block hash only when CacheRecentBlockHash has
\* changed its source in between, and never to the hash nobody fetched.
THEOREM RegressIsFailover == Spec => RegressNeedsFailover
<1>1. Typed /\ OrderInv /\ [Next]_vars
        => [used'.block < used.block => used'.source \notin {used.source, NoSource}]_vars
  BY StepInOrder
<1> QED
  BY InitTyped, NextTyped, InitOrder, NextOrder, <1>1, PTL DEF Spec, RegressNeedsFailover
===============================================================================
