--------------------------- MODULE TpuProxyProofs -----------------------------
(***************************************************************************)
(* What module TpuProxy states, proved for any schedule, any window, any   *)
(* capacity of the channels and any number of slots and failed fetches.    *)
(***************************************************************************)
EXTENDS TpuProxy, TLAPS

-------------------------------------------------------------------------------
(* The inductive invariant.                                                *)

\* The scan need not ask for s any more.
Known(s) == s \in leaders \cup Asked \cup lost

\* Slots are taken in the order they were received, and the window moves up.
SlotsInv ==
    /\ \A j, k \in 1..Len(latestSlots) : j <= k => latestSlots[j] <= latestSlots[k]
    /\ \A j \in 1..Len(latestSlots) : slot <= latestSlots[j] /\ latestSlots[j] <= received
    /\ curSlot <= slot /\ slot <= received
    /\ slotPc # "drain" => curSlot = slot
    /\ slotPc = "drain" => slot # 0

\* The scan stays in its window, and nothing is asked for before the first.
WindowInv ==
    /\ curSlot # 0 => at \in (curSlot - Past)..(curSlot + Upcoming)
    /\ slotPc \in {"send", "look"} => at < curSlot + Upcoming
    /\ curSlot = 0 => /\ slotPc \in {"wait", "drain"} /\ at = 0
                      /\ Asked = {} /\ firstSlot = 0

\* What is fetched next is the smallest of the slots asked for.
BatchInv ==
    /\ freshPc = "wait" => batch = {}
    /\ freshPc # "wait" => want \in batch /\ \A b \in batch : want <= b

\* The slots that were asked for, and the one the map begins with.
Marks == Asked \cup {s \in {firstSlot + Past} : firstSlot # 0}

\* Before a slot is asked for, the scan has passed all slots of its window
\* before that.
MarksInv ==
    \A r \in Marks :
        /\ r \in (StartSlot - Past)..(MaxSlot + Upcoming - 1)
        /\ \A s \in (curSlot - Past)..(r - 1) : Known(s)

MapInv == firstSlot # 0 => firstSlot..(firstSlot + 3 * Upcoming - 1) \subseteq leaders

PassedInv ==
    curSlot # 0 =>
        /\ \A s \in (curSlot - Past)..(at - 1) : Known(s)
        /\ slotPc = "look" => Known(at)

\* What was promised is found, or lies ahead of the scan.
ConnInv ==
    /\ promised \subseteq nodes
    /\ seen \cap promised \subseteq found
    /\ IF curSlot = 0 THEN found = {} ELSE found \subseteq LeadersOf(Window(curSlot))
    /\ slotPc \in {"ask", "send", "look"} =>
          \A l \in promised : \E s \in Window(curSlot) \cap leaders :
              LeaderOf[s] = l /\ (s < at => l \in seen)
    /\ ConnectionsFollow

IInv ==
    /\ TypeOK /\ SlotsInv /\ WindowInv /\ BatchInv /\ MarksInv
    /\ MapInv /\ PassedInv /\ ConnInv

-------------------------------------------------------------------------------
(* The channels, and their contents.                                       *)

LEMMA SeqFacts ==
    ASSUME NEW S, NEW q \in Seq(S)
    PROVE  Len(q) \in Nat /\ \A j \in 1..Len(q) : q[j] \in S
  OBVIOUS

LEMMA AppendFacts ==
    ASSUME NEW S, NEW q \in Seq(S), NEW x \in S
    PROVE  /\ Append(q, x) \in Seq(S)
           /\ Len(q) \in Nat /\ Len(Append(q, x)) = Len(q) + 1
           /\ \A j \in 1..Len(q) : Append(q, x)[j] = q[j]
           /\ Append(q, x)[Len(q) + 1] = x
  OBVIOUS

LEMMA TailFacts ==
    ASSUME NEW S, NEW q \in Seq(S), q # <<>>
    PROVE  /\ Head(q) \in S /\ Tail(q) \in Seq(S) /\ Head(q) = q[1]
           /\ Len(q) \in Nat /\ Len(q) > 0 /\ Len(Tail(q)) = Len(q) - 1
           /\ \A j \in 1..Len(Tail(q)) : Tail(q)[j] = q[j + 1]
  OBVIOUS

LEMMA RangeIs ==
    ASSUME NEW S, NEW q \in Seq(S)
    PROVE  Range(q) = {q[j] : j \in 1..Len(q)}
  BY DEF Range

LEMMA RangeAppend ==
    ASSUME NEW S, NEW q \in Seq(S), NEW x \in S
    PROVE  Range(Append(q, x)) = Range(q) \cup {x}
<1>1. /\ Append(q, x) \in Seq(S) /\ Len(q) \in Nat /\ Len(Append(q, x)) = Len(q) + 1
      /\ \A j \in 1..Len(q) : Append(q, x)[j] = q[j]
      /\ Append(q, x)[Len(q) + 1] = x
  BY AppendFacts
<1>2. Range(Append(q, x)) = {Append(q, x)[j] : j \in 1..(Len(q) + 1)}
  BY <1>1, RangeIs
<1>3. 1..(Len(q) + 1) = 1..Len(q) \cup {Len(q) + 1}
  BY <1>1
<1>4. Range(q) = {q[j] : j \in 1..Len(q)}
  BY RangeIs
<1> QED
  BY <1>1, <1>2, <1>3, <1>4

LEMMA RangeTail ==
    ASSUME NEW S, NEW q \in Seq(S), q # <<>>
    PROVE  Range(q) = {Head(q)} \cup Range(Tail(q))
<1>1. /\ Head(q) = q[1] /\ Tail(q) \in Seq(S)
      /\ Len(q) \in Nat /\ Len(q) > 0 /\ Len(Tail(q)) = Len(q) - 1
      /\ \A j \in 1..Len(Tail(q)) : Tail(q)[j] = q[j + 1]
  BY TailFacts
<1>2. Range(q) = {q[j] : j \in 1..Len(q)} /\ Range(Tail(q)) = {Tail(q)[j] : j \in 1..(Len(q) - 1)}
  BY <1>1, RangeIs
<1>3. \A j \in 1..Len(q) : j = 1 \/ (j - 1 \in 1..(Len(q) - 1) /\ q[j] = Tail(q)[j - 1])
  BY <1>1
<1>4. \A j \in 1..(Len(q) - 1) : j + 1 \in 1..Len(q)
  BY <1>1
<1>5. 1 \in 1..Len(q)
  BY <1>1
<1>6. \A x \in Range(q) : x \in {Head(q)} \cup Range(Tail(q))
  BY <1>1, <1>2, <1>3
<1>7. \A x \in {Head(q)} \cup Range(Tail(q)) : x \in Range(q)
  BY <1>1, <1>2, <1>4, <1>5
<1> QED
  BY <1>6, <1>7

LEMMA RangeEmpty == Range(<<>>) = {}
  BY DEF Range

-------------------------------------------------------------------------------
(* Numbers.                                                                *)

LEMMA Numbers ==
    /\ Past \in Nat /\ Upcoming \in Nat /\ Upcoming > 0
    /\ SlotCap \in Nat /\ FreshCap \in Nat /\ SlotCap > 0 /\ FreshCap > 0
    /\ StartSlot \in Nat /\ MaxSlot \in Nat /\ MaxFails \in Nat
    /\ Upcoming + 2 * Past < StartSlot /\ StartSlot <= MaxSlot
  BY WindowAssumption, CapAssumption, SlotAssumption, FailsAssumption

LEMMA ShorterInterval ==
    ASSUME NEW a \in Nat, NEW b \in Nat, NEW c \in Int, NEW d \in Nat, a <= b
    PROVE  (b - d)..c \subseteq (a - d)..c
  OBVIOUS

LEMMA CurFacts ==
    ASSUME TypeOK
    PROVE  /\ curSlot \in Nat /\ slot \in Nat /\ at \in Nat /\ received \in Int
           /\ want \in Nat /\ firstSlot \in Nat
           /\ curSlot # 0 => curSlot >= StartSlot /\ curSlot <= MaxSlot
           /\ slot # 0 => slot >= StartSlot /\ slot <= MaxSlot
<1>1. curSlot \in {0} \cup StartSlot..MaxSlot /\ slot \in {0} \cup StartSlot..MaxSlot
  BY DEF TypeOK
<1>2. at \in 0..(MaxSlot + Upcoming) /\ received \in (StartSlot - 1)..MaxSlot
  BY DEF TypeOK
<1>3. want \in Nat /\ firstSlot \in Nat
  BY DEF TypeOK
<1>4. \A s \in {0} \cup StartSlot..MaxSlot :
         s \in Nat /\ (s # 0 => s >= StartSlot /\ s <= MaxSlot)
  BY Numbers
<1>5. at \in Nat /\ received \in Int
  BY <1>2, Numbers
<1> QED
  BY <1>1, <1>3, <1>4, <1>5

\* Every slot of a window has a leader.
LEMMA WindowFacts ==
    ASSUME NEW s \in StartSlot..MaxSlot
    PROVE  /\ Window(s) \subseteq DOMAIN LeaderOf /\ Window(s) \subseteq Nat
           /\ LeadersOf(Window(s)) \subseteq AllLeaders
           /\ s - Past \in Nat
<1>1. Window(s) \subseteq 0..(MaxSlot + 4 * Upcoming) /\ s - Past \in Nat
  BY Numbers DEF Window
<1> QED
  BY <1>1, LeaderAssumption DEF LeadersOf, AllLeaders

LEMMA ChannelFacts ==
    ASSUME TypeOK
    PROVE  /\ latestSlots \in Seq(StartSlot..MaxSlot) /\ Len(latestSlots) \in Nat
           /\ \A j \in 1..Len(latestSlots) : latestSlots[j] \in StartSlot..MaxSlot
           /\ newFresh \in Seq(Nat) /\ Range(newFresh) \subseteq Nat
           /\ batch \subseteq Nat /\ Asked \subseteq Nat
<1>1. latestSlots \in Seq(StartSlot..MaxSlot) /\ newFresh \in Seq(Nat) /\ batch \subseteq Nat
  BY DEF TypeOK
<1>0. /\ Len(latestSlots) \in Nat
      /\ \A j \in 1..Len(latestSlots) : latestSlots[j] \in StartSlot..MaxSlot
  BY <1>1, SeqFacts
<1>2. \A j \in 1..Len(newFresh) : newFresh[j] \in Nat
  BY <1>1, SeqFacts
<1>3. Range(newFresh) \subseteq Nat
  BY <1>1, <1>2, RangeIs
<1> QED
  BY <1>0, <1>1, <1>3 DEF Asked

-------------------------------------------------------------------------------
(* The slots, and the window.                                              *)

LEMMA SlotsStep == IInv /\ [Next]_vars => SlotsInv'
<1> SUFFICES ASSUME IInv, [Next]_vars PROVE SlotsInv'
  OBVIOUS
<1> DEFINE q == latestSlots
<1>0. /\ SlotsInv /\ q \in Seq(StartSlot..MaxSlot) /\ Len(q) \in Nat
      /\ slot \in Nat /\ received \in Int /\ curSlot \in Nat
      /\ \A j \in 1..Len(q) : q[j] \in StartSlot..MaxSlot
  <2>1. SlotsInv /\ TypeOK
    BY DEF IInv
  <2> QED
    BY <2>1, CurFacts, ChannelFacts
<1>1. CASE CommitSlot
  <2>1. PICK s \in (received + 1)..(received + 2) :
           s <= MaxSlot /\ received' = s /\ q' = Append(q, s)
    BY <1>1 DEF CommitSlot
  <2>2. s \in StartSlot..MaxSlot /\ s > received
    BY <1>0, <2>1, Numbers DEF IInv, TypeOK
  <2>3. /\ Len(q') = Len(q) + 1 /\ \A j \in 1..Len(q) : q'[j] = q[j]
        /\ q'[Len(q) + 1] = s
    BY <1>0, <2>1, <2>2, AppendFacts
  <2>4. UNCHANGED <<slot, curSlot, slotPc>>
    BY <1>1 DEF CommitSlot, slotVars
  <2> HIDE DEF q
  <2>5. \A j \in 1..Len(q') : j \in 1..Len(q) \/ (j = Len(q) + 1 /\ q'[j] = s)
    BY <1>0, <2>3
  <2>6. \A j, k \in 1..Len(q') : j <= k => q'[j] <= q'[k]
    <3>1. \A j \in 1..Len(q) : q[j] <= s
      BY <1>0, <2>2 DEF SlotsInv, q
    <3>2. \A j, k \in 1..Len(q) : j <= k => q[j] <= q[k]
      BY <1>0 DEF SlotsInv, q
    <3> QED
      BY <1>0, <2>2, <2>3, <2>5, <3>1, <3>2
  <2>7. \A j \in 1..Len(q') : slot <= q'[j] /\ q'[j] <= received'
    <3>1. \A j \in 1..Len(q) : slot <= q[j] /\ q[j] <= received
      BY <1>0 DEF SlotsInv, q
    <3>2. slot <= received
      BY <1>0 DEF SlotsInv
    <3> QED
      BY <1>0, <2>1, <2>2, <2>3, <2>5, <3>1, <3>2 DEF q
  <2>8. slot <= received'
    BY <1>0, <2>1, <2>2 DEF SlotsInv
  <2> QED
    BY <1>0, <2>4, <2>6, <2>7, <2>8 DEF SlotsInv, q
<1>2. CASE TakeSlot
  <2>1. /\ q # <<>> /\ slot' = Head(q) /\ q' = Tail(q) /\ slotPc' = "drain"
        /\ UNCHANGED <<curSlot, received>>
    BY <1>2 DEF TakeSlot
  <2>2. /\ Head(q) = q[1] /\ Len(q) > 0 /\ Len(Tail(q)) = Len(q) - 1
        /\ \A j \in 1..Len(Tail(q)) : Tail(q)[j] = q[j + 1]
    BY <1>0, <2>1, TailFacts
  <2> HIDE DEF q
  <2>3. \A j \in 1..Len(q') : j + 1 \in 1..Len(q) /\ q'[j] = q[j + 1]
    BY <1>0, <2>1, <2>2
  <2>4. 1 \in 1..Len(q)
    BY <1>0, <2>2
  <2>5. \A j, k \in 1..Len(q) : j <= k => q[j] <= q[k]
    BY <1>0 DEF SlotsInv, q
  <2>6. \A j, k \in 1..Len(q') : j <= k => q'[j] <= q'[k]
    BY <1>0, <2>3, <2>5
  <2>7. \A j \in 1..Len(q') : slot' <= q'[j] /\ q'[j] <= received'
    <3>1. \A j \in 1..Len(q) : q[j] <= received
      BY <1>0 DEF SlotsInv, q
    <3>2. \A j \in 1..Len(q) : q[1] <= q[j]
      BY <1>0, <2>4, <2>5
    <3> QED
      BY <2>1, <2>2, <2>3, <3>1, <3>2
  <2>8. slot' \in StartSlot..MaxSlot /\ slot' = q[1] /\ slot <= slot' /\ slot' <= received
    BY <1>0, <2>1, <2>2, <2>4 DEF SlotsInv, q
  <2>9. slot' # 0 /\ curSlot' <= slot' /\ slot' <= received'
    BY <1>0, <2>1, <2>8, Numbers DEF SlotsInv
  <2> QED
    BY <2>1, <2>6, <2>7, <2>9 DEF SlotsInv, q
<1>3. CASE BeginScan
  BY <1>0, <1>3 DEF SlotsInv, BeginScan
<1>4. CASE Ask \/ SendFresh \/ Look \/ Install
  <2>1. UNCHANGED <<slot, curSlot, received, latestSlots>> /\ slotPc # "drain" /\ slotPc' # "drain"
    BY <1>4 DEF Ask, SendFresh, Look, Install
  <2> QED
    BY <1>0, <2>1 DEF SlotsInv
<1>5. CASE Refresh \/ (\E leader \in AllLeaders : AddNode(leader)) \/ UNCHANGED vars
  <2>1. UNCHANGED <<slot, curSlot, received, latestSlots, slotPc>>
    BY <1>5 DEF Refresh, TakeFresh, CallFetch, FetchLeaders, FetchFails, AddNode, slotVars, vars
  <2> QED
    BY <1>0, <2>1 DEF SlotsInv
<1> QED
  BY <1>1, <1>2, <1>3, <1>4, <1>5 DEF Next, NewSlot

\* The window only moves up.
LEMMA WindowMoves == IInv /\ [Next]_vars => curSlot <= curSlot'
<1> SUFFICES ASSUME IInv, [Next]_vars PROVE curSlot <= curSlot'
  OBVIOUS
<1>0. SlotsInv /\ slot \in Nat /\ curSlot \in Nat
  BY CurFacts DEF IInv
<1>1. CASE BeginScan
  BY <1>0, <1>1 DEF SlotsInv, BeginScan
<1>2. CASE ~BeginScan
  <2>1. curSlot' = curSlot
    BY <1>2 DEF Next, NewSlot, Refresh, CommitSlot, TakeSlot, Ask, SendFresh, Look, Install, TakeFresh,
                CallFetch, FetchLeaders, FetchFails, AddNode, slotVars, vars
  <2> QED
    BY <1>0, <2>1
<1> QED
  BY <1>1, <1>2

LEMMA WindowStep == IInv /\ [Next]_vars => WindowInv'
<1> SUFFICES ASSUME IInv, [Next]_vars PROVE WindowInv'
  OBVIOUS
<1>0. WindowInv /\ TypeOK /\ SlotsInv
  BY DEF IInv
<1>1. curSlot \in Nat /\ slot \in Nat /\ at \in Nat
  BY <1>0, CurFacts
<1>2. CASE BeginScan
  <2>1. /\ curSlot' = slot /\ at' = slot - Past /\ slotPc' = "ask" /\ slot # 0
    BY <1>0, <1>2 DEF BeginScan, SlotsInv
  <2>2. at' \in (curSlot' - Past)..(curSlot' + Upcoming) /\ curSlot' # 0
    BY <1>1, <2>1, Numbers
  <2> QED
    BY <2>1, <2>2 DEF WindowInv
<1>3. CASE Ask
  <2>1. /\ curSlot # 0 /\ at \in Window(curSlot) /\ slotPc' \in {"send", "look"}
        /\ UNCHANGED <<curSlot, at>>
    BY <1>0, <1>3 DEF Ask, WindowInv
  <2>2. at < curSlot + Upcoming
    BY <1>1, <2>1, Numbers DEF Window
  <2> QED
    BY <1>0, <2>1, <2>2 DEF WindowInv
<1>7. CASE SendFresh
  <2>1. /\ slotPc = "send" /\ curSlot # 0 /\ slotPc' = "look" /\ UNCHANGED <<curSlot, at>>
    BY <1>0, <1>7 DEF SendFresh, WindowInv
  <2> QED
    BY <1>0, <2>1 DEF WindowInv
<1>4. CASE Look
  <2>1. /\ curSlot # 0 /\ at' = at + 1 /\ slotPc' = "ask" /\ curSlot' = curSlot
        /\ at < curSlot + Upcoming /\ at \in (curSlot - Past)..(curSlot + Upcoming)
    BY <1>0, <1>4 DEF Look, WindowInv
  <2>2. at' \in (curSlot' - Past)..(curSlot' + Upcoming)
    BY <1>1, <2>1, Numbers
  <2> QED
    BY <2>1, <2>2 DEF WindowInv
<1>5. CASE CommitSlot \/ TakeSlot \/ Install \/ (\E leader \in AllLeaders : AddNode(leader))
           \/ CallFetch \/ UNCHANGED vars
  <2>1. UNCHANGED <<curSlot, at, newFresh, batch, firstSlot>>
    BY <1>5 DEF CommitSlot, TakeSlot, Install, AddNode, CallFetch, slotVars, freshVars, vars
  <2>2. slotPc' = slotPc \/ slotPc' \in {"wait", "drain"}
    BY <1>5 DEF CommitSlot, TakeSlot, Install, AddNode, CallFetch, slotVars, freshVars, vars
  <2> QED
    BY <1>0, <2>1, <2>2 DEF WindowInv, Asked
<1>6. CASE TakeFresh \/ FetchLeaders \/ FetchFails
  <2>1. UNCHANGED <<curSlot, at, slotPc>>
    BY <1>6 DEF TakeFresh, FetchLeaders, FetchFails, slotVars
  <2>2. curSlot # 0
    <3>1. CASE TakeFresh
      <4>1. newFresh \in Seq(Nat) /\ newFresh # <<>>
        BY <1>0, <3>1 DEF TypeOK, TakeFresh
      <4>2. Head(newFresh) \in Asked
        BY <4>1, RangeTail DEF Asked
      <4> QED
        BY <1>0, <4>2 DEF WindowInv
    <3>2. CASE FetchLeaders \/ FetchFails
      <4>1. want \in Asked
        BY <3>2 DEF IInv, BatchInv, FetchLeaders, FetchFails, Asked
      <4> QED
        BY <1>0, <4>1 DEF WindowInv
    <3> QED
      BY <1>6, <3>1, <3>2
  <2> QED
    BY <1>0, <2>1, <2>2 DEF WindowInv
<1> QED
  BY <1>2, <1>3, <1>4, <1>5, <1>6, <1>7 DEF Next, NewSlot, Refresh

-------------------------------------------------------------------------------
(* What was asked for.                                                     *)

LEMMA MinOfTwo ==
    ASSUME NEW a \in Nat, NEW b \in Nat
    PROVE  Min({a, b}) = IF a <= b THEN a ELSE b
  BY DEF Min

LEMMA BatchStep == IInv /\ [Next]_vars => BatchInv'
<1> SUFFICES ASSUME IInv, [Next]_vars PROVE BatchInv'
  OBVIOUS
<1>0. BatchInv /\ TypeOK
  BY DEF IInv
<1>1. CASE TakeFresh
  <2> DEFINE h == Head(newFresh)
  <2>1. /\ freshPc \in {"wait", "drain"} /\ newFresh # <<>> /\ freshPc' = "drain"
        /\ batch' = batch \cup {h}
        /\ want' = IF freshPc = "wait" THEN h ELSE Min({want, h})
    BY <1>1 DEF TakeFresh
  <2>2. h \in Nat /\ want \in Nat /\ batch \subseteq Nat
    BY <1>0, <2>1, TailFacts, CurFacts DEF TypeOK
  <2> HIDE DEF h
  <2>3. Min({want, h}) = IF want <= h THEN want ELSE h
    BY <2>2, MinOfTwo
  <2>4. CASE freshPc = "wait"
    BY <1>0, <2>1, <2>2, <2>4 DEF BatchInv
  <2>5. CASE freshPc # "wait"
    <3>1. want \in batch /\ \A b \in batch : want <= b
      BY <1>0, <2>5 DEF BatchInv
    <3>2. want' = IF want <= h THEN want ELSE h
      BY <2>1, <2>3, <2>5
    <3>3. want' \in batch' /\ want' <= want /\ want' <= h
      BY <2>1, <2>2, <3>1, <3>2
    <3>4. want' \in Nat
      BY <2>2, <3>2
    <3>5. \A b \in batch' : want' <= b
      BY <2>1, <2>2, <3>1, <3>3, <3>4
    <3> QED
      BY <2>1, <3>3, <3>5 DEF BatchInv
  <2> QED
    BY <2>4, <2>5
<1>2. CASE CallFetch
  BY <1>0, <1>2 DEF BatchInv, CallFetch
<1>3. CASE FetchLeaders \/ FetchFails
  BY <1>3 DEF BatchInv, FetchLeaders, FetchFails
<1>4. CASE CommitSlot \/ NewSlot \/ (\E leader \in AllLeaders : AddNode(leader)) \/ UNCHANGED vars
  <2>1. UNCHANGED <<freshPc, want, batch>>
    BY <1>4 DEF CommitSlot, NewSlot, TakeSlot, BeginScan, Ask, SendFresh, Look, Install, AddNode, freshVars, vars
  <2> QED
    BY <1>0, <2>1 DEF BatchInv
<1> QED
  BY <1>1, <1>2, <1>3, <1>4 DEF Next, Refresh

\* What was asked for stays so until a fetch ends; only SendFresh asks.
LEMMA AskedNext ==
    ASSUME TypeOK, [Next]_vars
    PROVE  \/ Asked' = Asked
           \/ SendFresh /\ Asked' = Asked \cup {at}
           \/ (FetchLeaders \/ FetchFails) /\ Asked' \subseteq Asked
<1>0. newFresh \in Seq(Nat) /\ at \in Nat
  BY CurFacts DEF TypeOK
<1>1. CASE SendFresh
  <2>1. newFresh' = Append(newFresh, at) /\ batch' = batch
    BY <1>1 DEF SendFresh
  <2>2. Range(newFresh') = Range(newFresh) \cup {at}
    BY <1>0, <2>1, RangeAppend
  <2> QED
    BY <1>1, <2>1, <2>2 DEF Asked
<1>2. CASE TakeFresh
  <2>1. /\ newFresh # <<>> /\ newFresh' = Tail(newFresh)
        /\ batch' = batch \cup {Head(newFresh)}
    BY <1>2 DEF TakeFresh
  <2>2. Range(newFresh) = {Head(newFresh)} \cup Range(newFresh')
    BY <1>0, <2>1, RangeTail
  <2> QED
    BY <2>1, <2>2 DEF Asked
<1>3. CASE FetchLeaders \/ FetchFails
  BY <1>3 DEF FetchLeaders, FetchFails, Asked
<1>4. CASE CommitSlot \/ TakeSlot \/ BeginScan \/ Ask \/ Look \/ Install \/ CallFetch
           \/ (\E leader \in AllLeaders : AddNode(leader)) \/ UNCHANGED vars
  BY <1>4 DEF CommitSlot, TakeSlot, BeginScan, Ask, Look, Install, CallFetch, AddNode, Asked,
              slotVars, freshVars, vars
<1> QED
  BY <1>1, <1>2, <1>3, <1>4 DEF Next, NewSlot, Refresh

\* A slot that need not be asked for stays so.
LEMMA KnownStays ==
    ASSUME IInv, [Next]_vars, NEW s, Known(s)
    PROVE  Known(s)'
<1>0. TypeOK /\ BatchInv
  BY DEF IInv
<1>1. CASE SendFresh
  <2>1. /\ leaders' = leaders /\ batch' = batch
        /\ lost' = lost \ {at} /\ newFresh' = Append(newFresh, at)
    BY <1>1 DEF SendFresh
  <2>2. newFresh \in Seq(Nat) /\ at \in Nat
    BY <1>0, CurFacts DEF TypeOK
  <2>3. Asked' = Asked \cup {at}
    BY <2>1, <2>2, RangeAppend DEF Asked
  <2> QED
    BY <2>1, <2>3 DEF Known
<1>2. CASE FetchLeaders
  <2>1. /\ leaders' = leaders \cup Fetched /\ newFresh' = newFresh /\ freshPc = "fetch"
        /\ lost' = lost \cup {b \in batch : b > want - Past + 3 * Upcoming - 1}
    BY <1>2 DEF FetchLeaders
  <2>2. CASE s \in batch
    <3>1. s \in Nat /\ want \in Nat /\ want <= s
      BY <1>0, <2>1, <2>2, CurFacts DEF BatchInv, TypeOK
    <3>2. s \in Fetched \/ s > want - Past + 3 * Upcoming - 1
      BY <3>1, Numbers DEF Fetched
    <3> QED
      BY <2>1, <2>2, <3>2 DEF Known
  <2>3. CASE s \notin batch
    BY <2>1, <2>3 DEF Known, Asked
  <2> QED
    BY <2>2, <2>3
<1>3. CASE FetchFails
  BY <1>3 DEF FetchFails, Known, Asked
<1>4. CASE ~SendFresh /\ ~FetchLeaders /\ ~FetchFails
  <2>1. Asked' = Asked
    BY <1>0, <1>4, AskedNext
  <2>2. UNCHANGED <<leaders, lost>>
    BY <1>4 DEF Next, NewSlot, Refresh, CommitSlot, TakeSlot, BeginScan, Ask, Look, Install,
                TakeFresh, CallFetch, AddNode, freshVars, vars
  <2> QED
    BY <2>1, <2>2 DEF Known
<1> QED
  BY <1>1, <1>2, <1>3, <1>4

\* The slots of the map stay in it, and a fetch that succeeds brings those it
\* asked for.
LEMMA MapStep == IInv /\ [Next]_vars => MapInv'
<1> SUFFICES ASSUME IInv, [Next]_vars PROVE MapInv'
  OBVIOUS
<1>0. MapInv
  BY DEF IInv
<1>1. CASE FetchLeaders
  BY <1>1 DEF FetchLeaders, MapInv, Fetched
<1>2. CASE ~FetchLeaders
  <2>1. UNCHANGED <<firstSlot, leaders>>
    BY <1>2 DEF Next, NewSlot, Refresh, CommitSlot, TakeSlot, BeginScan, Ask, SendFresh, Look, Install,
                TakeFresh, CallFetch, FetchFails, AddNode, freshVars, vars
  <2> QED
    BY <1>0, <2>1 DEF MapInv
<1> QED
  BY <1>1, <1>2

\* A new mark is the slot SendFresh asks for, behind which the scan has passed all;
\* what a fetch makes the first slot of the map was a mark before.
LEMMA MarksStep == IInv /\ [Next]_vars => MarksInv'
<1> SUFFICES ASSUME IInv, [Next]_vars, NEW r \in Marks'
             PROVE  /\ r \in (StartSlot - Past)..(MaxSlot + Upcoming - 1)
                    /\ \A s \in (curSlot' - Past)..(r - 1) : Known(s)'
  BY DEF MarksInv
<1>0. TypeOK /\ MarksInv /\ BatchInv /\ WindowInv /\ PassedInv
  BY DEF IInv
<1>1. /\ curSlot \in Nat /\ curSlot' \in Nat /\ curSlot <= curSlot'
      /\ at \in Nat /\ want \in Nat /\ firstSlot \in Nat
  <2>1. curSlot' = curSlot \/ curSlot' = slot
    BY DEF Next, NewSlot, Refresh, CommitSlot, TakeSlot, BeginScan, Ask, SendFresh, Look, Install, TakeFresh,
           CallFetch, FetchLeaders, FetchFails, AddNode, slotVars, vars
  <2> QED
    BY <1>0, <2>1, CurFacts, WindowMoves
<1>2. r \in Marks \/ (SendFresh /\ r = at)
  <2>1. CASE r \in Asked'
    BY <1>0, <2>1, AskedNext DEF Marks
  <2>2. CASE r \notin Asked'
    <3>1. firstSlot' # 0 /\ r = firstSlot' + Past
      BY <2>2 DEF Marks
    <3>2. CASE FetchLeaders
      <4>1. firstSlot' = want - Past /\ want \in Asked
        BY <1>0, <3>2 DEF FetchLeaders, BatchInv, Asked
      <4> QED
        BY <1>1, <3>1, <4>1, Numbers DEF Marks
    <3>3. CASE ~FetchLeaders
      <4>1. firstSlot' = firstSlot
        BY <3>3 DEF Next, NewSlot, Refresh, CommitSlot, TakeSlot, BeginScan, Ask, SendFresh, Look, Install,
                    TakeFresh, CallFetch, FetchFails, AddNode, freshVars, vars
      <4> QED
        BY <3>1, <4>1 DEF Marks
    <3> QED
      BY <3>2, <3>3
  <2> QED
    BY <2>1, <2>2
<1>3. CASE r \in Marks
  <2>1. r \in (StartSlot - Past)..(MaxSlot + Upcoming - 1)
    BY <1>0, <1>3 DEF MarksInv
  <2>2. \A s \in (curSlot - Past)..(r - 1) : Known(s)
    BY <1>0, <1>3 DEF MarksInv
  <2>3. r \in Int
    BY <2>1, Numbers
  <2>4. (curSlot' - Past)..(r - 1) \subseteq (curSlot - Past)..(r - 1)
    <3>1. Past \in Nat /\ r - 1 \in Int
      BY <2>3, Numbers
    <3> QED
      BY <1>1, <3>1, ShorterInterval
  <2> QED
    BY <2>1, <2>2, <2>4, KnownStays
<1>4. CASE SendFresh /\ r = at
  <2>0. /\ curSlot # 0 /\ curSlot' = curSlot /\ at < curSlot + Upcoming
        /\ at \in (curSlot - Past)..(curSlot + Upcoming)
    BY <1>0, <1>4 DEF SendFresh, WindowInv
  <2>1. curSlot # 0 /\ curSlot' = curSlot /\ at \in Window(curSlot)
    BY <1>1, <2>0, Numbers DEF Window
  <2>2. StartSlot <= curSlot /\ curSlot <= MaxSlot
    BY <1>0, <2>1, CurFacts
  <2>3. at \in (StartSlot - Past)..(MaxSlot + Upcoming - 1)
    BY <1>1, <2>1, <2>2, Numbers DEF Window
  <2>4. \A s \in (curSlot - Past)..(at - 1) : Known(s)
    BY <1>0, <2>1 DEF PassedInv
  <2> QED
    BY <1>4, <2>1, <2>3, <2>4, KnownStays
<1> QED
  BY <1>2, <1>3, <1>4

\* A slot that is not asked for, as it is not beyond the check point, was
\* fetched, or lies before the slot the fetch was for.
LEMMA NotAsked ==
    ASSUME IInv, curSlot # 0, at \in Window(curSlot), ~(at > CheckPoint)
    PROVE  Known(at)
<1>0. TypeOK /\ MarksInv /\ MapInv
  BY DEF IInv
<1>1. curSlot \in Nat /\ at \in Nat /\ firstSlot \in Nat /\ curSlot >= StartSlot
  BY <1>0, CurFacts
<1>2. at >= curSlot - Past /\ at <= firstSlot + Upcoming
  BY <1>1, Numbers DEF Window, CheckPoint
<1>3. firstSlot # 0
  BY <1>1, <1>2, Numbers
<1>4. CASE at < firstSlot
  <2> DEFINE r == firstSlot + Past
  <2>1. r \in Marks
    BY <1>3 DEF Marks
  <2>2. at \in (curSlot - Past)..(r - 1)
    BY <1>1, <1>2, <1>4, Numbers
  <2> HIDE DEF r
  <2>3. \A s \in (curSlot - Past)..(r - 1) : Known(s)
    BY <1>0, <2>1 DEF MarksInv
  <2> QED
    BY <2>2, <2>3
<1>5. CASE at >= firstSlot
  <2>1. at \in firstSlot..(firstSlot + 3 * Upcoming - 1)
    BY <1>1, <1>2, <1>5, Numbers
  <2> QED
    BY <1>0, <1>3, <2>1 DEF MapInv, Known
<1> QED
  BY <1>1, <1>4, <1>5

LEMMA PassedStep == IInv /\ [Next]_vars => PassedInv'
<1> SUFFICES ASSUME IInv, [Next]_vars, curSlot' # 0
             PROVE  /\ \A s \in (curSlot' - Past)..(at' - 1) : Known(s)'
                    /\ slotPc' = "look" => Known(at)'
  BY DEF PassedInv
<1>0. TypeOK /\ PassedInv /\ WindowInv
  BY DEF IInv
<1>1. curSlot \in Nat /\ slot \in Nat /\ at \in Nat
  BY <1>0, CurFacts
<1>2. CASE BeginScan
  <2>1. at' = slot - Past /\ curSlot' = slot /\ slotPc' = "ask"
    BY <1>2 DEF BeginScan
  <2>2. \A s \in (slot - Past)..(slot - Past - 1) : FALSE
    BY <1>1, Numbers
  <2> QED
    BY <2>1, <2>2
<1>3. CASE Ask
  <2>1. /\ curSlot # 0 /\ at \in Window(curSlot) /\ UNCHANGED <<curSlot, at>>
        /\ slotPc' = IF at > CheckPoint THEN "send" ELSE "look"
    BY <1>0, <1>3 DEF Ask, WindowInv
  <2>2. \A s \in (curSlot - Past)..(at - 1) : Known(s)
    BY <1>0, <2>1 DEF PassedInv
  <2>3. slotPc' = "look" => Known(at)
    BY <2>1, NotAsked
  <2>4. \A s : Known(s) => Known(s)'
    BY KnownStays
  <2>5. slotPc' = "look" => Known(at)'
    BY <2>1, <2>3, <2>4 DEF Known
  <2> QED
    BY <2>1, <2>2, <2>4, <2>5
<1>6. CASE SendFresh
  <2>1. curSlot # 0 /\ UNCHANGED <<curSlot, at>>
    BY <1>0, <1>6 DEF SendFresh, WindowInv
  <2>2. \A s \in (curSlot - Past)..(at - 1) : Known(s)
    BY <1>0, <2>1 DEF PassedInv
  <2>3. Known(at)'
    <3>1. newFresh' = Append(newFresh, at) /\ batch' = batch /\ newFresh \in Seq(Nat)
      BY <1>0, <1>6 DEF SendFresh, TypeOK
    <3>2. Asked' = Asked \cup {at}
      BY <1>1, <3>1, RangeAppend DEF Asked
    <3> QED
      BY <2>1, <3>2 DEF Known
  <2>4. \A s : Known(s) => Known(s)'
    BY KnownStays
  <2> QED
    BY <2>1, <2>2, <2>3, <2>4
<1>4. CASE Look
  <2>1. /\ curSlot # 0 /\ at' = at + 1 /\ curSlot' = curSlot
        /\ slotPc = "look" /\ slotPc' = "ask"
    BY <1>0, <1>4 DEF Look, WindowInv
  <2>2. \A s \in (curSlot - Past)..(at - 1) : Known(s)
    BY <1>0, <2>1 DEF PassedInv
  <2>3. Known(at)
    BY <1>0, <2>1 DEF PassedInv
  <2>4. \A s \in (curSlot' - Past)..(at' - 1) : s \in (curSlot - Past)..(at - 1) \/ s = at
    BY <1>1, <2>1, Numbers
  <2> QED
    BY <2>1, <2>2, <2>3, <2>4, KnownStays
<1>5. CASE CommitSlot \/ TakeSlot \/ Install \/ Refresh
           \/ (\E leader \in AllLeaders : AddNode(leader)) \/ UNCHANGED vars
  <2>1. UNCHANGED <<curSlot, at>> /\ (slotPc' = "look" => slotPc = "look")
    BY <1>5 DEF CommitSlot, TakeSlot, Install, Refresh, TakeFresh, CallFetch, FetchLeaders,
                FetchFails, AddNode, slotVars, vars
  <2>2. \A s \in (curSlot - Past)..(at - 1) : Known(s)
    BY <1>0, <2>1 DEF PassedInv
  <2>3. slotPc' = "look" => Known(at)
    BY <1>0, <2>1 DEF PassedInv
  <2>4. \A s : Known(s) => Known(s)'
    BY KnownStays
  <2>5. slotPc' = "look" => Known(at)'
    BY <2>1, <2>3, <2>4 DEF Known
  <2> QED
    BY <2>1, <2>2, <2>4, <2>5
<1> QED
  BY <1>2, <1>3, <1>4, <1>5, <1>6 DEF Next, NewSlot

-------------------------------------------------------------------------------
(* Types.                                                                  *)

LEMMA FetchedTyped ==
    ASSUME IInv, freshPc = "fetch"
    PROVE  /\ want - Past \in Nat /\ Fetched \subseteq DOMAIN LeaderOf
           /\ batch \subseteq Nat
<1>1. want \in Marks
  BY DEF IInv, BatchInv, Marks, Asked
<1>2. want \in (StartSlot - Past)..(MaxSlot + Upcoming - 1)
  BY <1>1 DEF IInv, MarksInv
<1>3. want - Past \in Nat /\ want - Past + 3 * Upcoming - 1 <= MaxSlot + 4 * Upcoming
  BY <1>2, Numbers
<1>4. Fetched \subseteq 0..(MaxSlot + 4 * Upcoming)
  BY <1>3, Numbers DEF Fetched
<1> QED
  BY <1>3, <1>4, LeaderAssumption DEF IInv, TypeOK

LEMMA TypeStep == IInv /\ [Next]_vars => TypeOK'
<1> SUFFICES ASSUME IInv, [Next]_vars PROVE TypeOK'
  OBVIOUS
<1>0. TypeOK /\ WindowInv /\ SlotsInv
  BY DEF IInv
<1>1. CASE CommitSlot
  <2>1. PICK s \in (received + 1)..(received + 2) :
           s <= MaxSlot /\ received' = s /\ latestSlots' = Append(latestSlots, s)
    BY <1>1 DEF CommitSlot
  <2>2. received \in (StartSlot - 1)..MaxSlot
    BY <1>0 DEF TypeOK
  <2>3. s \in StartSlot..MaxSlot /\ received' \in (StartSlot - 1)..MaxSlot
    BY <2>1, <2>2, Numbers
  <2>4. latestSlots' \in Seq(StartSlot..MaxSlot) /\ Len(latestSlots') = Len(latestSlots) + 1
    BY <1>0, <2>1, <2>3, ChannelFacts, AppendFacts
  <2>5. Len(latestSlots) < SlotCap /\ Len(latestSlots) \in Nat
    BY <1>0, <1>1, ChannelFacts DEF CommitSlot
  <2>6. Len(latestSlots') <= SlotCap
    BY <2>4, <2>5, Numbers
  <2> QED
    BY <1>0, <1>1, <2>3, <2>4, <2>6 DEF TypeOK, CommitSlot, slotVars, freshVars
<1>2. CASE TakeSlot
  <2>1. /\ latestSlots # <<>> /\ slot' = Head(latestSlots) /\ latestSlots' = Tail(latestSlots)
        /\ slotPc' = "drain"
    BY <1>2 DEF TakeSlot
  <2>2. /\ slot' \in StartSlot..MaxSlot /\ latestSlots' \in Seq(StartSlot..MaxSlot)
        /\ Len(latestSlots') = Len(latestSlots) - 1 /\ Len(latestSlots) \in Nat
    BY <1>0, <2>1, ChannelFacts, TailFacts
  <2>3. Len(latestSlots') <= SlotCap
    <3>1. Len(latestSlots) <= SlotCap
      BY <1>0 DEF TypeOK
    <3> QED
      BY <2>2, <3>1, Numbers
  <2> QED
    BY <1>0, <1>2, <2>1, <2>2, <2>3 DEF TypeOK, TakeSlot, freshVars
<1>3. CASE BeginScan
  <2>1. slot \in StartSlot..MaxSlot
    <3>1. slot # 0
      BY <1>0, <1>3 DEF BeginScan, SlotsInv
    <3> QED
      BY <1>0, <3>1 DEF TypeOK
  <2>2. at' \in 0..(MaxSlot + Upcoming)
    BY <1>3, <2>1, Numbers DEF BeginScan
  <2>3. /\ curSlot' = slot /\ seen' = {} /\ found' = {} /\ promised' \subseteq nodes
        /\ slotPc' = "ask"
    BY <1>3 DEF BeginScan
  <2>4. UNCHANGED <<received, latestSlots, newFresh, slot, conns, freshVars, nodes>>
    BY <1>3 DEF BeginScan
  <2> QED
    BY <1>0, <2>1, <2>2, <2>3, <2>4 DEF TypeOK, freshVars
<1>4. CASE Ask
  <2>1. slotPc' \in {"send", "look"}
    BY <1>4 DEF Ask
  <2>2. UNCHANGED <<received, latestSlots, newFresh, slot, curSlot, at, seen, found, conns, promised,
                    freshVars, nodes>>
    BY <1>4 DEF Ask
  <2> QED
    BY <1>0, <2>1, <2>2 DEF TypeOK, freshVars
<1>13. CASE SendFresh
  <2>0. newFresh \in Seq(Nat) /\ lost \subseteq Nat /\ at \in Nat
    BY <1>0, CurFacts DEF TypeOK
  <2>1. Len(newFresh) < FreshCap /\ newFresh' = Append(newFresh, at) /\ lost' = lost \ {at}
    BY <1>13 DEF SendFresh
  <2>2. /\ newFresh' \in Seq(Nat) /\ Len(newFresh') = Len(newFresh) + 1
        /\ Len(newFresh) \in Nat
    BY <2>0, <2>1, AppendFacts
  <2>3. Len(newFresh') <= FreshCap
    BY <2>1, <2>2, Numbers
  <2>4. lost' \subseteq Nat
    BY <2>0, <2>1
  <2>5. /\ slotPc' = "look"
        /\ UNCHANGED <<received, latestSlots, slot, curSlot, at, seen, found, conns, promised,
                       freshPc, want, firstSlot, leaders, fails, batch, nodes>>
    BY <1>13 DEF SendFresh
  <2> QED
    BY <1>0, <2>2, <2>3, <2>4, <2>5 DEF TypeOK
<1>5. CASE Look
  <2>1. at < curSlot + Upcoming /\ curSlot # 0 /\ at' = at + 1 /\ slotPc' = "ask"
    BY <1>0, <1>5 DEF Look, WindowInv
  <2>2. at' \in 0..(MaxSlot + Upcoming)
    <3>1. at \in Nat /\ curSlot \in Nat /\ curSlot <= MaxSlot
      BY <1>0, <2>1, CurFacts
    <3> QED
      BY <2>1, <3>1, Numbers
  <2>3. seen' \subseteq AllLeaders /\ found' \subseteq AllLeaders
    <3>1. at \in leaders => LeaderOf[at] \in AllLeaders
      BY <1>0 DEF TypeOK, AllLeaders
    <3>2. seen \subseteq AllLeaders /\ found \subseteq AllLeaders
      BY <1>0 DEF TypeOK
    <3> QED
      BY <1>5, <3>1, <3>2 DEF Look
  <2>4. UNCHANGED <<received, latestSlots, newFresh, slot, curSlot, conns, promised, freshVars, nodes>>
    BY <1>5 DEF Look
  <2> QED
    BY <1>0, <2>1, <2>2, <2>3, <2>4 DEF TypeOK, freshVars
<1>6. CASE Install
  <2>1. conns' = found /\ slotPc' = "wait"
    BY <1>6 DEF Install
  <2>2. UNCHANGED <<received, latestSlots, newFresh, slot, curSlot, at, seen, found, promised,
                    freshVars, nodes>>
    BY <1>6 DEF Install
  <2> QED
    BY <1>0, <2>1, <2>2 DEF TypeOK, freshVars
<1>7. CASE TakeFresh
  <2> DEFINE h == Head(newFresh)
  <2>1. /\ newFresh # <<>> /\ newFresh' = Tail(newFresh) /\ batch' = batch \cup {h}
        /\ want' = IF freshPc = "wait" THEN h ELSE Min({want, h})
        /\ freshPc' = "drain"
    BY <1>7 DEF TakeFresh
  <2>2. newFresh \in Seq(Nat) /\ Len(newFresh) <= FreshCap /\ want \in Nat /\ batch \subseteq Nat
    BY <1>0 DEF TypeOK
  <2>3. /\ h \in Nat /\ newFresh' \in Seq(Nat) /\ Len(newFresh') = Len(newFresh) - 1
        /\ Len(newFresh) \in Nat
    BY <2>1, <2>2, TailFacts
  <2>4. Len(newFresh') <= FreshCap
    BY <2>2, <2>3, Numbers
  <2> HIDE DEF h
  <2>5. want' \in Nat
    BY <2>1, <2>2, <2>3, MinOfTwo
  <2>6. batch' \subseteq Nat
    BY <2>1, <2>2, <2>3
  <2>7. UNCHANGED <<received, latestSlots, slotVars, firstSlot, leaders, fails, lost, nodes>>
    BY <1>7 DEF TakeFresh
  <2> QED
    BY <1>0, <2>1, <2>3, <2>4, <2>5, <2>6, <2>7 DEF TypeOK, slotVars
<1>8. CASE CallFetch
  BY <1>0, <1>8 DEF TypeOK, CallFetch, slotVars
<1>9. CASE FetchLeaders
  <2>1. /\ leaders' = leaders \cup Fetched /\ firstSlot' = want - Past /\ freshPc = "fetch"
        /\ lost' \subseteq lost \cup batch /\ batch' = {} /\ freshPc' = "wait"
    BY <1>9 DEF FetchLeaders
  <2>2. leaders' \subseteq DOMAIN LeaderOf /\ firstSlot' \in Nat /\ lost' \subseteq Nat
    BY <1>0, <2>1, FetchedTyped DEF TypeOK
  <2>3. UNCHANGED <<received, latestSlots, newFresh, slotVars, want, fails, nodes>>
    BY <1>9 DEF FetchLeaders
  <2> QED
    BY <1>0, <2>1, <2>2, <2>3 DEF TypeOK, slotVars
<1>10. CASE FetchFails
  <2>1. /\ fails < MaxFails /\ fails' = fails + 1 /\ lost' = lost \cup batch /\ batch' = {}
        /\ freshPc' = "wait"
    BY <1>10 DEF FetchFails
  <2>2. fails' \in 0..MaxFails
    <3>1. fails \in 0..MaxFails
      BY <1>0 DEF TypeOK
    <3> QED
      BY <2>1, <3>1, Numbers
  <2>3. UNCHANGED <<received, latestSlots, newFresh, slotVars, want, firstSlot, leaders, nodes>>
    BY <1>10 DEF FetchFails
  <2> QED
    BY <1>0, <2>1, <2>2, <2>3 DEF TypeOK, slotVars
<1>11. CASE \E leader \in AllLeaders : AddNode(leader)
  <2>1. nodes' \subseteq AllLeaders
    BY <1>0, <1>11 DEF AddNode, TypeOK
  <2>2. UNCHANGED <<received, latestSlots, newFresh, slotVars, freshVars>>
    BY <1>11 DEF AddNode
  <2> QED
    BY <1>0, <2>1, <2>2 DEF TypeOK, slotVars, freshVars
<1>12. CASE UNCHANGED vars
  BY <1>0, <1>12 DEF TypeOK, vars, slotVars, freshVars
<1> QED
  BY <1>1, <1>2, <1>3, <1>4, <1>5, <1>6, <1>7, <1>8, <1>9, <1>10, <1>11, <1>12,
     <1>13 DEF Next, NewSlot, Refresh

-------------------------------------------------------------------------------
(* The connections.                                                        *)

LEMMA ConnStep == IInv /\ [Next]_vars => ConnInv'
<1> SUFFICES ASSUME IInv, [Next]_vars PROVE ConnInv'
  OBVIOUS
<1>0. ConnInv /\ TypeOK /\ WindowInv /\ SlotsInv
  BY DEF IInv
<1>1. curSlot \in Nat /\ slot \in Nat /\ at \in Nat
  BY <1>0, CurFacts
<1>2. CASE BeginScan
  <2>1. /\ curSlot' = slot /\ at' = slot - Past /\ seen' = {} /\ found' = {}
        /\ promised' = LeadersOf(Window(slot) \cap leaders) \cap nodes
        /\ slotPc' = "ask" /\ UNCHANGED <<leaders, nodes>>
    BY <1>2 DEF BeginScan, freshVars
  <2>2. ASSUME NEW l \in promised'
        PROVE  \E s \in Window(slot) \cap leaders : LeaderOf[s] = l /\ ~(s < slot - Past)
    <3>1. PICK s \in Window(slot) \cap leaders : LeaderOf[s] = l
      BY <2>1 DEF LeadersOf
    <3>2. ~(s < slot - Past)
      BY <1>1, <3>1, Numbers DEF Window
    <3> QED
      BY <3>1, <3>2
  <2>3. \A l \in promised' : \E s \in Window(curSlot') \cap leaders' :
           LeaderOf[s] = l /\ (s < at' => l \in seen')
    BY <2>1, <2>2
  <2> QED
    BY <2>1, <2>3 DEF ConnInv, ConnectionsFollow
<1>3. CASE Look
  <2>1. /\ slotPc = "look" /\ slotPc' = "ask" /\ at' = at + 1 /\ curSlot # 0
        /\ UNCHANGED <<curSlot, promised, leaders, nodes>>
    BY <1>0, <1>3 DEF Look, WindowInv, freshVars
  <2>2. at \in Window(curSlot)
    BY <1>0, <1>1, <2>1, Numbers DEF WindowInv, Window
  <2>3. /\ seen \subseteq seen'
        /\ at \in leaders => LeaderOf[at] \in seen'
        /\ seen' \subseteq seen \cup {LeaderOf[at]}
    BY <1>3 DEF Look
  <2>4. seen' \cap promised' \subseteq found'
    BY <1>0, <1>3, <2>1 DEF ConnInv, Look
  <2>5. found' \subseteq LeadersOf(Window(curSlot'))
    BY <1>0, <1>3, <2>1, <2>2 DEF ConnInv, Look, LeadersOf
  <2>6. ASSUME NEW l \in promised'
        PROVE  \E s \in Window(curSlot') \cap leaders' : LeaderOf[s] = l /\ (s < at' => l \in seen')
    <3>1. PICK s \in Window(curSlot) \cap leaders : LeaderOf[s] = l /\ (s < at => l \in seen)
      BY <1>0, <2>1 DEF ConnInv
    <3>2. s \in Nat
      BY <1>0, <2>1, <3>1, CurFacts, WindowFacts, Numbers
    <3>3. s < at' => s < at \/ s = at
      BY <1>1, <2>1, <3>2
    <3> QED
      BY <2>1, <2>3, <3>1, <3>3
  <2> QED
    BY <1>0, <2>1, <2>4, <2>5, <2>6 DEF ConnInv, ConnectionsFollow
<1>4. CASE Install
  <2>1. /\ slotPc = "ask" /\ slotPc' = "wait" /\ curSlot # 0 /\ at \notin Window(curSlot)
        /\ conns' = found
        /\ UNCHANGED <<curSlot, at, seen, found, promised, leaders, nodes>>
    BY <1>0, <1>4 DEF Install, WindowInv, freshVars
  <2>2. \A s \in Window(curSlot) : s < at
    BY <1>0, <1>1, <2>1, Numbers DEF Window, WindowInv
  <2>3. promised \subseteq seen
    BY <1>0, <2>1, <2>2 DEF ConnInv
  <2>4. promised' \subseteq conns' /\ conns' \subseteq LeadersOf(Window(curSlot'))
    BY <1>0, <2>1, <2>3 DEF ConnInv
  <2> QED
    BY <1>0, <2>1, <2>4 DEF ConnInv, ConnectionsFollow
<1>5. CASE TakeSlot
  <2>1. slotPc' = "drain" /\ UNCHANGED <<curSlot, seen, found, promised, leaders, nodes>>
    BY <1>5 DEF TakeSlot, freshVars
  <2> QED
    BY <1>0, <2>1 DEF ConnInv, ConnectionsFollow
<1>6. CASE Ask \/ SendFresh
  <2>1. /\ slotPc \in {"ask", "send"} /\ slotPc' \in {"send", "look"}
        /\ UNCHANGED <<curSlot, at, seen, found, promised, leaders, nodes>>
    BY <1>6 DEF Ask, SendFresh, freshVars
  <2> QED
    BY <1>0, <2>1 DEF ConnInv, ConnectionsFollow
<1>7. CASE CommitSlot \/ Refresh \/ (\E leader \in AllLeaders : AddNode(leader)) \/ UNCHANGED vars
  <2>1. UNCHANGED <<slotPc, curSlot, at, seen, found, conns, promised>>
    BY <1>7 DEF CommitSlot, Refresh, TakeFresh, CallFetch, FetchLeaders, FetchFails, AddNode,
                slotVars, vars
  <2>2. leaders \subseteq leaders' /\ nodes \subseteq nodes'
    BY <1>7 DEF CommitSlot, Refresh, TakeFresh, CallFetch, FetchLeaders, FetchFails, AddNode,
                freshVars, vars
  <2> QED
    BY <1>0, <2>1, <2>2 DEF ConnInv, ConnectionsFollow
<1> QED
  BY <1>2, <1>3, <1>4, <1>5, <1>6, <1>7 DEF Next, NewSlot

-------------------------------------------------------------------------------
(* The invariant holds.                                                    *)

LEMMA Initially == Init => IInv
<1> SUFFICES ASSUME Init PROVE IInv
  OBVIOUS
<1>1. received \in (StartSlot - 1)..MaxSlot
  BY Numbers DEF Init
<1>2. TypeOK
  BY <1>1, Numbers DEF Init, TypeOK
<1>3. Asked = {} /\ Marks = {}
  BY RangeEmpty DEF Init, Asked, Marks
<1>4. SlotsInv
  BY Numbers DEF Init, SlotsInv
<1>5. WindowInv /\ BatchInv /\ MarksInv /\ MapInv /\ PassedInv
  BY <1>3 DEF Init, WindowInv, BatchInv, MarksInv, MapInv, PassedInv
<1>6. ConnInv
  BY DEF Init, ConnInv, ConnectionsFollow
<1> QED
  BY <1>2, <1>4, <1>5, <1>6 DEF IInv

THEOREM Invariance == Spec => []IInv
<1>1. IInv /\ [Next]_vars => IInv'
  BY TypeStep, SlotsStep, WindowStep, BatchStep, MarksStep, MapStep, PassedStep, ConnStep DEF IInv
<1> QED
  BY Initially, <1>1, PTL DEF Spec

-------------------------------------------------------------------------------
(* What follows.                                                           *)

\* The channels keep their bounds, and every slot that is scanned or fetched
\* has a leader.
THEOREM TypeCorrect == Spec => []TypeOK
<1>1. IInv => TypeOK
  BY DEF IInv
<1> QED
  BY <1>1, Invariance, PTL

\* No leader falls between the scan, which asks, and the refresh, which merges
\* what was asked for.
THEOREM NoSlotIsHidden == Spec => []NoHiddenSlot
<1>1. IInv => NoHiddenSlot
  <2> SUFFICES ASSUME IInv, NEW s \in Window(curSlot), curSlot # 0, s < at PROVE Known(s)
    BY DEF NoHiddenSlot, Known
  <2>1. curSlot \in Nat /\ at \in Nat
    BY CurFacts DEF IInv
  <2>2. s \in (curSlot - Past)..(at - 1)
    BY <2>1, Numbers DEF Window
  <2> QED
    BY <2>2 DEF IInv, PassedInv
<1> QED
  BY <1>1, Invariance, PTL

\* The connections that a scan leaves behind are those of its window.
THEOREM ConnectionsOfTheWindow == Spec => []ConnectionsFollow
<1>1. IInv => ConnectionsFollow
  BY DEF IInv, ConnInv
<1> QED
  BY <1>1, Invariance, PTL

===============================================================================
