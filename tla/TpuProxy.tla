------------------------------- MODULE TpuProxy -------------------------------
(***************************************************************************)
(* How the TPU proxy follows the leaders (backend/tpu).  RecvSlot puts each*)
(* slot on latestSlots; the newSlot goroutine takes the newest of them and *)
(* scans the window of slots around it, looking up each leader and its     *)
(* address, and installs the connections.  A lookup beyond the check point *)
(* asks for a refresh on newFresh; the Refresh goroutine takes all that was*)
(* asked for and fetches the leaders from the smallest slot on.            *)
(*                                                                         *)
(* The schedule is a function; what varies is how much of it is known.  A  *)
(* fetch that succeeds returns all the leaders it asked for.               *)
(***************************************************************************)
EXTENDS Integers, Sequences, FiniteSetsExt

CONSTANTS
    LeaderOf,    \* slot -> its leader
    Past,        \* PAST_SLOT_SEARCH (5)
    Upcoming,    \* UPCOMING_SLOT_SEARCH (100)
    SlotCap,     \* capacity of latestSlots (1024)
    FreshCap,    \* capacity of newFresh (1024)
    StartSlot,   \* the first slot received
    MaxSlot,     \* bound: the last slot of a run
    MaxFails     \* bound: failed fetches of a run

ASSUME WindowAssumption == Past \in Nat /\ Upcoming \in Nat \ {0}
ASSUME CapAssumption == SlotCap \in Nat \ {0} /\ FreshCap \in Nat \ {0}
ASSUME SlotAssumption ==
    StartSlot \in Nat /\ MaxSlot \in Nat /\ Upcoming + 2 * Past < StartSlot /\ StartSlot <= MaxSlot
ASSUME FailsAssumption == MaxFails \in Nat

\* Every slot that may be fetched has a leader.
ASSUME LeaderAssumption == 0..(MaxSlot + 4 * Upcoming) \subseteq DOMAIN LeaderOf

VARIABLES
    received,     \* the slot RecvSlot received last
    latestSlots, newFresh, \* the channels
    slotPc,       \* newSlot: "wait", "drain", "ask", "send", "look"
    slot, curSlot,\* the slot taken, and the one scanned around
    at,           \* slot of the scan
    seen, found,  \* leaderAddress and tpuAddress of the scan
    conns,        \* leaders in proxy.tpuConns
    freshPc, want,\* Refresh: "wait", "drain", "fetch", and the smallest slot asked for
    firstSlot, leaders, \* first slot of the last fetch, and the slots of the map
    nodes,        \* leaders in availableNodes
    fails,        \* failed fetches so far
    batch, lost,  \* history: slots merged into want, and those forgotten since they were asked for
    promised      \* history: leaders known with address when the scan began

slotVars == <<slotPc, slot, curSlot, at, seen, found, conns, promised>>
freshVars == <<freshPc, want, firstSlot, leaders, fails, batch, lost>>
vars == <<received, latestSlots, newFresh, slotVars, freshVars, nodes>>

Window(s) == (s - Past)..(s + Upcoming - 1)
LeadersOf(slots) == {LeaderOf[s] : s \in slots}
AllLeaders == {LeaderOf[s] : s \in DOMAIN LeaderOf}

-------------------------------------------------------------------------------
Init ==
    /\ received = StartSlot - 1
    /\ latestSlots = <<>> /\ newFresh = <<>>
    /\ slotPc = "wait" /\ slot = 0 /\ curSlot = 0 /\ at = 0
    /\ seen = {} /\ found = {} /\ conns = {} /\ promised = {}
    /\ freshPc = "wait" /\ want = 0 /\ firstSlot = 0 /\ leaders = {}
    /\ fails = 0 /\ batch = {} /\ lost = {}
    /\ nodes = {}

\* RecvSlot receives the next slot, which may not be the next number, and
\* CommitSlot waits for room.
CommitSlot ==
    /\ Len(latestSlots) < SlotCap
    /\ \E s \in (received + 1)..(received + 2) :
          /\ s <= MaxSlot
          /\ received' = s
          /\ latestSlots' = Append(latestSlots, s)
    /\ UNCHANGED <<newFresh, slotVars, freshVars, nodes>>

\* newSlot takes a slot, then all that follow; the last one counts.
TakeSlot ==
    /\ slotPc \in {"wait", "drain"}
    /\ latestSlots # <<>>
    /\ slot' = Head(latestSlots)
    /\ latestSlots' = Tail(latestSlots)
    /\ slotPc' = "drain"
    /\ UNCHANGED <<received, newFresh, curSlot, at, seen, found, conns, promised, freshVars, nodes>>

\* A wrong variant of BeginScan: the addresses of the last scan are kept.
BeginScan_Keep ==
    /\ slotPc = "drain"
    /\ latestSlots = <<>>
    /\ curSlot' = slot
    /\ at' = slot - Past
    /\ seen' = {} /\ found' = found
    /\ promised' = LeadersOf(Window(slot) \cap leaders) \cap nodes
    /\ slotPc' = "ask"
    /\ UNCHANGED <<received, latestSlots, newFresh, slot, conns, freshVars, nodes>>

\* The channel is empty: RefreshConnection begins.
BeginScan ==
    /\ slotPc = "drain"
    /\ latestSlots = <<>>
    /\ curSlot' = slot
    /\ at' = slot - Past
    /\ seen' = {} /\ found' = {}
    /\ promised' = LeadersOf(Window(slot) \cap leaders) \cap nodes
    /\ slotPc' = "ask"
    /\ UNCHANGED <<received, latestSlots, newFresh, slot, conns, freshVars, nodes>>

CheckPoint == firstSlot + Upcoming

\* What is on its way to a fetch, or in one.
Asked == Range(newFresh) \cup batch

\* What refresh fetches: three times the upcoming slots.
Fetched == (want - Past)..(want - Past + 3 * Upcoming - 1)

\* GetSlotLeader reads the check point without the lock: a slot beyond it will
\* be asked for, whatever a fetch does to the check point in the meantime.
Ask ==
    /\ slotPc = "ask"
    /\ at \in Window(curSlot)
    /\ slotPc' = IF at > CheckPoint THEN "send" ELSE "look"
    /\ UNCHANGED <<received, latestSlots, newFresh, slot, curSlot, at, seen, found, conns, promised,
                   freshVars, nodes>>

\* A wrong variant of SendFresh: newFresh has no bound.
SendFresh_Unbounded ==
    /\ slotPc = "send"
    /\ newFresh' = Append(newFresh, at)
    /\ lost' = lost \ {at}
    /\ slotPc' = "look"
    /\ UNCHANGED <<received, latestSlots, slot, curSlot, at, seen, found, conns, promised,
                   freshPc, want, firstSlot, leaders, fails, batch, nodes>>

\* It is asked for as soon as newFresh has room.
SendFresh ==
    /\ slotPc = "send"
    /\ Len(newFresh) < FreshCap
    /\ newFresh' = Append(newFresh, at)
    /\ lost' = lost \ {at}
    /\ slotPc' = "look"
    /\ UNCHANGED <<received, latestSlots, slot, curSlot, at, seen, found, conns, promised,
                   freshPc, want, firstSlot, leaders, fails, batch, nodes>>

\* With the lock: a leader that is known and new to this scan is looked up
\* once, and found when it has an address.
Look ==
    /\ slotPc = "look"
    /\ IF at \in leaders /\ LeaderOf[at] \notin seen
         THEN /\ seen' = seen \cup {LeaderOf[at]}
              /\ found' = found \cup ({LeaderOf[at]} \cap nodes)
         ELSE UNCHANGED <<seen, found>>
    /\ at' = at + 1
    /\ slotPc' = "ask"
    /\ UNCHANGED <<received, latestSlots, newFresh, slot, curSlot, conns, promised, freshVars, nodes>>

\* The window is scanned: its connections replace the old ones.  (Dialing UDP
\* sends nothing; it fails only for an address that cannot be used.)
Install ==
    /\ slotPc = "ask"
    /\ at \notin Window(curSlot)
    /\ conns' = found
    /\ slotPc' = "wait"
    /\ UNCHANGED <<received, latestSlots, newFresh, slot, curSlot, at, seen, found, promised,
                   freshVars, nodes>>

-------------------------------------------------------------------------------
\* A wrong variant of TakeFresh: the last slot asked for counts.
TakeFresh_Last ==
    /\ freshPc \in {"wait", "drain"}
    /\ newFresh # <<>>
    /\ want' = Head(newFresh)
    /\ batch' = batch \cup {Head(newFresh)}
    /\ newFresh' = Tail(newFresh)
    /\ freshPc' = "drain"
    /\ UNCHANGED <<received, latestSlots, slotVars, firstSlot, leaders, fails, lost, nodes>>

\* Refresh takes a slot, then all that follow; the smallest counts.
TakeFresh ==
    /\ freshPc \in {"wait", "drain"}
    /\ newFresh # <<>>
    /\ want' = IF freshPc = "wait" THEN Head(newFresh) ELSE Min({want, Head(newFresh)})
    /\ batch' = batch \cup {Head(newFresh)}
    /\ newFresh' = Tail(newFresh)
    /\ freshPc' = "drain"
    /\ UNCHANGED <<received, latestSlots, slotVars, firstSlot, leaders, fails, lost, nodes>>

\* The channel is empty: GetSlotLeaders is called.
CallFetch ==
    /\ freshPc = "drain"
    /\ newFresh = <<>>
    /\ freshPc' = "fetch"
    /\ UNCHANGED <<received, latestSlots, newFresh, slotVars, want, firstSlot, leaders, fails, batch,
                   lost, nodes>>

\* Its answer enters the map, in which no slot is ever deleted.  A slot that
\* was merged into a much smaller one may lie behind it, and is forgotten.
FetchLeaders ==
    /\ freshPc = "fetch"
    /\ leaders' = leaders \cup Fetched
    /\ firstSlot' = want - Past
    /\ lost' = lost \cup {s \in batch : s > want - Past + 3 * Upcoming - 1}
    /\ batch' = {}
    /\ freshPc' = "wait"
    /\ UNCHANGED <<received, latestSlots, newFresh, slotVars, want, fails, nodes>>

\* A wrong variant of FetchFails: the error ends the goroutine.
FetchFails_Exit ==
    /\ freshPc = "fetch"
    /\ fails < MaxFails
    /\ fails' = fails + 1
    /\ lost' = lost \cup batch
    /\ batch' = {}
    /\ freshPc' = "exited"
    /\ UNCHANGED <<received, latestSlots, newFresh, slotVars, want, firstSlot, leaders, nodes>>

\* An error is logged, and what was asked for is forgotten.
FetchFails ==
    /\ freshPc = "fetch"
    /\ fails < MaxFails
    /\ fails' = fails + 1
    /\ lost' = lost \cup batch
    /\ batch' = {}
    /\ freshPc' = "wait"
    /\ UNCHANGED <<received, latestSlots, newFresh, slotVars, want, firstSlot, leaders, nodes>>

\* fetchAvailableNodes enters the nodes one by one.
AddNode(leader) ==
    /\ leader \notin nodes
    /\ nodes' = nodes \cup {leader}
    /\ UNCHANGED <<received, latestSlots, newFresh, slotVars, freshVars>>

-------------------------------------------------------------------------------
NewSlot == TakeSlot \/ BeginScan \/ Ask \/ SendFresh \/ Look \/ Install
Refresh == TakeFresh \/ CallFetch \/ FetchLeaders \/ FetchFails

Next ==
    \/ CommitSlot \/ NewSlot \/ Refresh
    \/ \E leader \in AllLeaders : AddNode(leader)

Spec == Init /\ [][Next]_vars

\* The two goroutines run, and GetSlotLeaders answers or fails in the end.
FairSpec == Spec /\ WF_vars(NewSlot) /\ WF_vars(Refresh)

-------------------------------------------------------------------------------
TypeOK ==
    /\ received \in (StartSlot - 1)..MaxSlot
    /\ latestSlots \in Seq(StartSlot..MaxSlot) /\ Len(latestSlots) <= SlotCap
    /\ newFresh \in Seq(Nat) /\ Len(newFresh) <= FreshCap
    /\ slotPc \in {"wait", "drain", "ask", "send", "look"}
    /\ slot \in {0} \cup StartSlot..MaxSlot /\ curSlot \in {0} \cup StartSlot..MaxSlot
    /\ at \in 0..(MaxSlot + Upcoming)
    /\ seen \in SUBSET AllLeaders /\ found \in SUBSET AllLeaders
    /\ conns \in SUBSET AllLeaders /\ promised \in SUBSET AllLeaders
    /\ freshPc \in {"wait", "drain", "fetch"} /\ want \in Nat
    /\ firstSlot \in Nat /\ leaders \in SUBSET DOMAIN LeaderOf
    /\ nodes \in SUBSET AllLeaders /\ fails \in 0..MaxFails
    /\ batch \in SUBSET Nat /\ lost \in SUBSET Nat

\* No leader of the window falls through: a slot the scan has passed is known,
\* or it was itself asked for, and is on its way to a fetch or was forgotten
\* for a reason: the fetch failed, or merged it with a much smaller slot and did
\* not reach it.  (It is asked for again as long as it is beyond the check
\* point, and stays unknown when a later fetch moves that over it.)
NoHiddenSlot ==
    \A s \in Window(curSlot) :
        curSlot # 0 /\ s < at => s \in leaders \cup Asked \cup lost

\* A scan that has ended left connections to all leaders that were known, with
\* their address, when it began, and to none outside its window.
ConnectionsFollow ==
    slotPc = "wait" /\ curSlot # 0 =>
        /\ promised \subseteq conns
        /\ conns \subseteq LeadersOf(Window(curSlot))

\* Every slot received is scanned around, or a later one is: neither channel
\* can block the other goroutine for good.
EverySlotFollowed ==
    \A s \in StartSlot..MaxSlot : received = s ~> curSlot >= s
===============================================================================
