------------------------------ MODULE BlockHash -------------------------------
(***************************************************************************)
(* The block hashes transactions are built with (backend/blockhash.go,     *)
(* backend/slotsubscribe.go).  RecvSlot signals every SlotPeriod-th slot   *)
(* on updateBH; CacheRecentBlockHash takes one signal at a time and asks   *)
(* its sources for the recent hash, going on to the next source when one   *)
(* fails; Commit takes the newest hash of the three that are cached.       *)
(*                                                                         *)
(* A hash is the number of its block.  The node behind a source never goes *)
(* back, but one node may lag behind another.                              *)
(***************************************************************************)
EXTENDS Integers, Sequences

CONSTANTS
    SourceCount,  \* len(clientBH)
    SlotPeriod,   \* a hash is fetched every so many slots (5)
    UpdCap,       \* capacity of updateBH (1024)
    MaxSlot,      \* bound: the last slot of a run
    MaxBlock      \* bound: the last block of a run

ASSUME SourceAssumption == SourceCount \in Nat \ {0}
ASSUME PeriodAssumption == SlotPeriod \in Nat \ {0} /\ UpdCap \in Nat \ {0}
ASSUME BoundsAssumption == MaxSlot \in Nat /\ MaxBlock \in Nat

Sources == 0..(SourceCount - 1)
BHCachedSize == 3
NoSource == SourceCount
Hash == [block : 0..MaxBlock, source : 0..SourceCount]
Zero == [block |-> 0, source |-> NoSource]

VARIABLES
    slot,      \* the slot RecvSlot received last
    recvPc,    \* RecvSlot: "recv", or "update" before it signals
    updateBH,  \* number of signals in the channel
    pc,        \* CacheRecentBlockHash: "wait", "try", "store", "failed"
    index,     \* the source it asks
    tries,     \* the sources it may still ask for this signal
    result,    \* the hash it was given
    cachedBH,  \* the hashes, the newest last; each with its source (history)
    used,      \* history: the hash of the last transaction
    head,      \* source -> the last block of its node
    asked      \* history: sources that failed for this signal

recvVars == <<slot, recvPc>>
cacheVars == <<pc, index, tries, result, asked>>
vars == <<recvVars, updateBH, cacheVars, cachedBH, used, head>>

-------------------------------------------------------------------------------
Init ==
    /\ slot = 0 /\ recvPc = "recv" /\ updateBH = 0
    /\ pc = "wait" /\ index = 0 /\ tries = 0 /\ result = Zero /\ asked = {}
    /\ cachedBH = <<Zero, Zero, Zero>>
    /\ used = Zero
    /\ head \in [Sources -> 1..MaxBlock]

\* RecvSlot receives the next slot.  (Its CommitSlot to the TPU proxy is in
\* module TpuProxy.)
RecvSlot ==
    /\ recvPc = "recv"
    /\ slot < MaxSlot
    /\ slot' = slot + 1
    /\ recvPc' = IF slot' % SlotPeriod = 0 THEN "update" ELSE "recv"
    /\ UNCHANGED <<updateBH, cacheVars, cachedBH, used, head>>

\* backend.updateBH <- got.Slot, which waits for room.
Signal ==
    /\ recvPc = "update"
    /\ updateBH < UpdCap
    /\ updateBH' = updateBH + 1
    /\ recvPc' = "recv"
    /\ UNCHANGED <<slot, cacheVars, cachedBH, used, head>>

\* case <-backend.updateBH, and the loop over the sources starts at index.
TakeSignal ==
    /\ pc = "wait"
    /\ updateBH > 0
    /\ updateBH' = updateBH - 1
    /\ tries' = SourceCount
    /\ asked' = {}
    /\ pc' = "try"
    /\ UNCHANGED <<recvVars, index, result, cachedBH, used, head>>

\* GetRecentBlockhash answers.
Answer ==
    /\ pc = "try"
    /\ result' = [block |-> head[index], source |-> index]
    /\ pc' = "store"
    /\ UNCHANGED <<recvVars, updateBH, index, tries, asked, cachedBH, used, head>>

\* A wrong variant of Fail: the same source is asked again.
Fail_SameSource ==
    /\ pc = "try"
    /\ asked' = asked \cup {index}
    /\ tries' = tries - 1
    /\ pc' = IF tries' = 0 THEN "failed" ELSE "try"
    /\ UNCHANGED <<recvVars, updateBH, index, result, cachedBH, used, head>>

\* It fails: the next source, or after the last one "all err".
Fail ==
    /\ pc = "try"
    /\ asked' = asked \cup {index}
    /\ index' = (index + 1) % SourceCount
    /\ tries' = tries - 1
    /\ pc' = IF tries' = 0 THEN "failed" ELSE "try"
    /\ UNCHANGED <<recvVars, updateBH, result, cachedBH, used, head>>

\* A wrong variant of GiveUp: the error ends the goroutine.
GiveUp_Exit ==
    /\ pc = "failed"
    /\ pc' = "exited"
    /\ UNCHANGED <<recvVars, updateBH, index, tries, result, asked, cachedBH, used, head>>

\* The signal is over; the next one starts at the same source.
GiveUp ==
    /\ pc = "failed"
    /\ pc' = "wait"
    /\ UNCHANGED <<recvVars, updateBH, index, tries, result, asked, cachedBH, used, head>>

\* The cache after a new hash.
Shifted(cache, h) == Tail(Append(cache, h))

\* The comparison of a new hash with the cache.  A wrong variant: with the
\* oldest hash instead of the newest.
Newest_Oldest(cache) == cache[1]
Newest(cache) == cache[BHCachedSize]

\* A hash that is not the newest already enters the cache, under the lock.
Store ==
    /\ pc = "store"
    /\ cachedBH' = IF Newest(cachedBH).block = result.block
                     THEN cachedBH ELSE Shifted(cachedBH, result)
    /\ pc' = "wait"
    /\ UNCHANGED <<recvVars, updateBH, index, tries, result, asked, used, head>>

\* A wrong variant: a level other than 0.
GetRecentBlockHash_AnyLevel ==
    /\ \E level \in 0..(BHCachedSize - 1) : used' = cachedBH[BHCachedSize - level]
    /\ UNCHANGED <<recvVars, updateBH, cacheVars, cachedBH, head>>

\* Commit: GetRecentBlockHash(0), under the lock.
GetRecentBlockHash ==
    /\ used' = cachedBH[BHCachedSize]
    /\ UNCHANGED <<recvVars, updateBH, cacheVars, cachedBH, head>>

\* The node behind a source learns of later blocks.
NodeAdvances(s) ==
    /\ \E b \in (head[s] + 1)..MaxBlock : head' = [head EXCEPT ![s] = b]
    /\ UNCHANGED <<recvVars, updateBH, cacheVars, cachedBH, used>>

-------------------------------------------------------------------------------
Cache == TakeSignal \/ Answer \/ Fail \/ GiveUp \/ Store

Next ==
    \/ RecvSlot \/ Signal
    \/ Cache
    \/ GetRecentBlockHash
    \/ \E s \in Sources : NodeAdvances(s)

Spec == Init /\ [][Next]_vars

\* The goroutines run and every RPC call returns.
FairSpec == Spec /\ WF_vars(Signal) /\ WF_vars(Cache)

-------------------------------------------------------------------------------
TypeOK ==
    /\ slot \in 0..MaxSlot /\ recvPc \in {"recv", "update"} /\ updateBH \in 0..UpdCap
    /\ pc \in {"wait", "try", "store", "failed"}
    /\ index \in Sources /\ tries \in 0..SourceCount
    /\ result \in Hash /\ asked \in SUBSET Sources
    /\ cachedBH \in Seq(Hash) /\ Len(cachedBH) = BHCachedSize
    /\ used \in Hash
    /\ head \in [Sources -> 1..MaxBlock]

\* A transaction is built with an older hash than the one before it only when
\* the two hashes came from different sources: a failover may go back in time,
\* one source never does, whatever is cached in between.  And the zero hash of
\* the time before the first fetch never comes back.
RegressNeedsFailover ==
    [][used'.block < used.block => used'.source \notin {used.source, NoSource}]_vars

\* Once a hash was cached, the hashes of neighbouring levels differ, so that a
\* retry at the next level really uses another hash.
NeighboursDiffer ==
    \A i \in 1..(BHCachedSize - 1) :
        cachedBH[i].block = cachedBH[i + 1].block => cachedBH[i] = Zero

\* "all err" means that every source was asked and failed.
AllErrMeansAll == pc = "failed" => asked = Sources

\* RecvSlot is never stuck behind the cache.
SlotsKeepComing == recvPc = "update" ~> recvPc = "recv"

===============================================================================
