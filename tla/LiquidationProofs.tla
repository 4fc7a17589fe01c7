--------------------------- MODULE LiquidationProofs --------------------------
(***************************************************************************)
(* What module Liquidation states of an evaluation and of the transaction  *)
(* it builds, proved for any reserves, layouts and number of updates.      *)
(***************************************************************************)
EXTENDS Liquidation, TLAPS

\* An obligation borrows USDC once at most.
OneUsdcBorrow ==
    \A l \in Layouts : \A m, n \in 1..Len(l.bor) :
        l.bor[m] \in Usdc /\ l.bor[n] \in Usdc => m = n

USE ReservesAssumption, LayoutsAssumption, BoundAssumption DEF overlap

-------------------------------------------------------------------------------
(***************************************************************************)
(* Type correctness.                                                       *)
(***************************************************************************)
Names == [dep : Seq(Reserves), bor : Seq(Reserves)]

\* However it is torn, a slice is a sequence of reserves.
LEMMA SliceType ==
    ASSUME NEW array \in Seq(Reserves), NEW n \in Nat
    PROVE  Slice(array, n) \subseteq Seq(Reserves)
<1>1. CASE n <= Len(array)
  <2>1. SubSeq(array, 1, n) \in Seq(Reserves)
    BY <1>1
  <2> QED
    BY <1>1, <2>1 DEF Slice
<1>2. CASE ~(n <= Len(array))
  <2>1. n - Len(array) \in Nat
    BY <1>2
  <2>2. ASSUME NEW junk \in [1..(n - Len(array)) -> Reserves] PROVE array \o junk \in Seq(Reserves)
    <3>1. junk \in Seq(Reserves)
      BY <2>1
    <3> QED
      BY <3>1
  <2> QED
    BY <1>2, <2>2 DEF Slice
<1> QED
  BY <1>1, <1>2

\* A field of the layout is replaced by a sequence of reserves.
LEMMA FieldType ==
    ASSUME mem \in Names, NEW field \in {"dep", "bor"}, NEW s \in Seq(Reserves)
    PROVE  [mem EXCEPT ![field] = s] \in Names
  BY DEF Names

\* The set of the elements of a sequence.
LEMMA Elements ==
    ASSUME NEW S, NEW s \in Seq(S)
    PROVE  /\ ToSet(s) \subseteq S
           /\ \A n \in 1..Len(s) : s[n] \in ToSet(s)
           /\ \A T : ToSet(s) \subseteq T => s \in Seq(T)
  BY DEF ToSet

LEMMA InitTyped == Init => TypeOK
<1> SUFFICES ASSUME Init PROVE TypeOK
  OBVIOUS
<1>1. mem \in Names /\ new \in Layouts
  BY DEF Init, Names
<1>2. writes \in 0..MaxWrites
  BY DEF Init
<1>3. snap \in Seq(Reserves) /\ i \in 1..(Len(snap) + 1)
  BY DEF Init
<1>4. depKeys \in Seq(Known) /\ borKeys \in Seq(Known)
  BY DEF Init
<1>5. {selDep, selUsdcDep, selBor, selUsdcBor} \subseteq Nat /\ refreshed \in SUBSET Known
  BY DEF Init
<1>6. repay \in Known \cup {None} /\ withdraw \in Known \cup {None}
  BY DEF Init
<1>7. left \in SUBSET {"dep", "bor"} /\ torn \in SUBSET left
  BY DEF Init
<1>8. pc = "idle" /\ overtaken = FALSE /\ raced = {}
  BY DEF Init
<1> QED
  BY <1>1, <1>2, <1>3, <1>4, <1>5, <1>6, <1>7, <1>8 DEF TypeOK, Names

\* The selections are numbers.
LEMMA BetterType == ASSUME TypeOK, NEW sel \in Nat PROVE Better(sel) \subseteq Nat
  BY DEF TypeOK, Better

\* The writes to the layout.
LEMMA WriteTyped ==
    ASSUME TypeOK, BeginWrite \/ \E field \in {"dep", "bor"} : Tear(field) \/ Write(field)
    PROVE  TypeOK'
<1>1. ASSUME BeginWrite PROVE TypeOK'
  <2>1. new' \in Layouts
    BY <1>1 DEF BeginWrite
  <2>2. torn' \in SUBSET left'
    BY <1>1 DEF BeginWrite, TypeOK
  <2>3. writes' \in 0..MaxWrites
    <3>1. writes < MaxWrites /\ writes' = writes + 1
      BY <1>1 DEF BeginWrite
    <3>2. writes \in 0..MaxWrites
      BY DEF TypeOK
    <3> QED
      BY <3>1, <3>2
  <2> QED
    BY <1>1, <2>1, <2>2, <2>3 DEF BeginWrite, TypeOK, selection, built
<1>2. ASSUME NEW field \in {"dep", "bor"}, Tear(field) PROVE TypeOK'
  <2>1. mem \in Names /\ new \in Names
    BY DEF TypeOK, Names
  <2>2. /\ mem[field] \in Seq(Reserves) /\ new[field] \in Seq(Reserves)
        /\ Len(mem[field]) \in Nat /\ Len(new[field]) \in Nat
    BY <2>1 DEF Names
  <2>3. PICK seen \in Slice(new[field], Len(mem[field])) \cup Slice(mem[field], Len(new[field])) :
            mem' = [mem EXCEPT ![field] = seen]
    BY <1>2 DEF Tear
  <2>4. seen \in Seq(Reserves)
    BY <2>2, <2>3, SliceType
  <2>5. mem' \in Names
    BY <2>1, <2>3, <2>4, FieldType
  <2>6. torn' \in SUBSET left'
    BY <1>2 DEF Tear, TypeOK
  <2> QED
    BY <1>2, <2>5, <2>6 DEF Tear, Store, TypeOK, Names, selection, built
<1>3. ASSUME NEW field \in {"dep", "bor"}, Write(field) PROVE TypeOK'
  <2>1. mem \in Names /\ new[field] \in Seq(Reserves)
    BY DEF TypeOK, Names
  <2>2. mem' \in Names
    BY <1>3, <2>1, FieldType DEF Write
  <2>3. left' \in SUBSET {"dep", "bor"} /\ torn' \in SUBSET left'
    BY <1>3 DEF Write, TypeOK
  <2> QED
    BY <1>3, <2>2, <2>3 DEF Write, Store, TypeOK, Names, selection, built
<1> QED
  BY <1>1, <1>2, <1>3

\* Every return leaves the layout to its writer and clears the rest.
LEMMA ReturnTyped == ASSUME TypeOK, Return PROVE TypeOK'
<1>1. snap' \in Seq(Reserves) /\ i' \in 1..(Len(snap') + 1)
  BY DEF Return
<1>2. depKeys' \in Seq(Known) /\ borKeys' \in Seq(Known)
  BY DEF Return
<1>3. {selDep', selUsdcDep', selBor', selUsdcBor'} \subseteq Nat /\ refreshed' \in SUBSET Known
  BY DEF Return
<1>4. repay' \in Known \cup {None} /\ withdraw' \in Known \cup {None}
  BY DEF Return
<1>5. pc' = "idle" /\ overtaken' = FALSE /\ raced' = {}
  BY DEF Return
<1>6. mem' = mem /\ new' = new /\ left' = left /\ torn' = torn /\ writes' = writes
  BY DEF Return, layoutVars
<1> QED
  BY <1>1, <1>2, <1>3, <1>4, <1>5, <1>6 DEF TypeOK

LEMMA PanicTyped == ASSUME TypeOK, Panic PROVE TypeOK'
  BY DEF Panic, TypeOK, layoutVars, selection, built

\* The two loops and the verdict.
LEMMA LoopTyped ==
    ASSUME TypeOK, Begin \/ Deposit \/ RangeBorrows \/ Borrow \/ NothingDue \/ Underwater
    PROVE  TypeOK'
<1>1. mem.dep \in Seq(Reserves) /\ mem.bor \in Seq(Reserves)
  BY DEF TypeOK
<1>2. ASSUME Begin PROVE TypeOK'
  <2>1. snap' \in Seq(Reserves) /\ i' \in 1..(Len(snap') + 1)
    BY <1>1, <1>2 DEF Begin
  <2> QED
    BY <1>2, <2>1 DEF Begin, TypeOK, layoutVars, selection, built
<1>3. ASSUME Deposit PROVE TypeOK'
  <2>1. CASE Return
    BY <2>1, ReturnTyped
  <2>2. CASE Panic
    BY <2>2, PanicTyped
  <2>3. CASE /\ selDep' \in IF Collateral(snap[i]) THEN Better(selDep) ELSE {selDep}
             /\ selUsdcDep' \in IF snap[i] \in Usdc THEN Better(selUsdcDep) ELSE {selUsdcDep}
             /\ i' = i + 1
             /\ UNCHANGED <<layoutVars, pc, snap, selBor, selUsdcBor, built, overlap>>
    <3>1. selDep' \in Nat /\ selUsdcDep' \in Nat
      BY <2>3, BetterType DEF TypeOK
    <3>2. i' \in 1..(Len(snap') + 1)
      <4>1. i <= Len(snap) /\ i' = i + 1 /\ snap' = snap
        BY <1>3, <2>3 DEF Deposit
      <4>2. Len(snap) \in Nat /\ i \in 1..(Len(snap) + 1)
        BY DEF TypeOK
      <4> QED
        BY <4>1, <4>2
    <3>3. {selDep', selUsdcDep', selBor', selUsdcBor'} \subseteq Nat
      BY <2>3, <3>1 DEF TypeOK
    <3> QED
      BY <2>3, <3>2, <3>3 DEF TypeOK, layoutVars, built
  <2> QED
    BY <1>3, <2>1, <2>2, <2>3 DEF Deposit
<1>4. ASSUME RangeBorrows PROVE TypeOK'
  <2>1. snap' \in Seq(Reserves) /\ i' \in 1..(Len(snap') + 1)
    BY <1>1, <1>4 DEF RangeBorrows
  <2> QED
    BY <1>4, <2>1 DEF RangeBorrows, TypeOK, layoutVars, selection, built
<1>5. ASSUME Borrow PROVE TypeOK'
  <2>1. CASE Return
    BY <2>1, ReturnTyped
  <2>2. CASE Panic
    BY <2>2, PanicTyped
  <2>3. CASE /\ selBor' \in IF snap[i] \in HasUser THEN Better(selBor) ELSE {selBor}
             /\ selUsdcBor' \in IF snap[i] \in Usdc THEN Better(selUsdcBor) ELSE {selUsdcBor}
             /\ i' = i + 1
             /\ UNCHANGED <<layoutVars, pc, snap, selDep, selUsdcDep, built, overlap>>
    <3>1. selBor' \in Nat /\ selUsdcBor' \in Nat
      BY <2>3, BetterType DEF TypeOK
    <3>2. i' \in 1..(Len(snap') + 1)
      <4>1. i <= Len(snap) /\ i' = i + 1 /\ snap' = snap
        BY <1>5, <2>3 DEF Borrow
      <4>2. Len(snap) \in Nat /\ i \in 1..(Len(snap) + 1)
        BY DEF TypeOK
      <4> QED
        BY <4>1, <4>2
    <3>3. {selDep', selUsdcDep', selBor', selUsdcBor'} \subseteq Nat
      BY <2>3, <3>1 DEF TypeOK
    <3> QED
      BY <2>3, <3>2, <3>3 DEF TypeOK, layoutVars, built
  <2> QED
    BY <1>5, <2>1, <2>2, <2>3 DEF Borrow
<1>6. ASSUME NothingDue PROVE TypeOK'
  BY <1>6, ReturnTyped DEF NothingDue
<1>7. ASSUME Underwater PROVE TypeOK'
  <2>1. snap' \in Seq(Reserves) /\ i' \in 1..(Len(snap') + 1)
    BY <1>7 DEF Underwater
  <2> QED
    BY <1>7, <2>1 DEF Underwater, TypeOK, layoutVars, selection, built
<1> QED
  BY <1>2, <1>3, <1>4, <1>5, <1>6, <1>7

\* The instructions.
LEMMA BuildTyped ==
    ASSUME TypeOK, CheckSize \/ RefreshDeposits \/ RefreshBorrows \/ SelectRepay \/ SelectWithdraw \/ Commit
    PROVE  TypeOK'
<1>1. mem.dep \in Seq(Reserves) /\ mem.bor \in Seq(Reserves)
  BY DEF TypeOK
<1>2. ASSUME CheckSize PROVE TypeOK'
  <2>1. CASE Return
    BY <2>1, ReturnTyped
  <2>2. CASE Panic
    BY <2>2, PanicTyped
  <2>3. CASE pc' = "refreshDep" /\ UNCHANGED <<layoutVars, snap, i, selection, built, overlap>>
    BY <2>3 DEF TypeOK, layoutVars, selection, built
  <2> QED
    BY <1>2, <2>1, <2>2, <2>3 DEF CheckSize
<1>3. ASSUME RefreshDeposits PROVE TypeOK'
  <2>1. CASE Return
    BY <2>1, ReturnTyped
  <2>2. CASE ~Return
    <3>1. /\ ToSet(mem.dep) \subseteq Known /\ pc' = "refreshBor"
          /\ depKeys' = mem.dep /\ refreshed' = ToSet(mem.dep)
          /\ UNCHANGED <<layoutVars, snap, i, selection, borKeys, repay, withdraw, overlap>>
      BY <1>3, <2>2 DEF RefreshDeposits
    <3>2. depKeys' \in Seq(Known)
      BY <1>1, <3>1, Elements
    <3> QED
      BY <3>1, <3>2 DEF TypeOK, layoutVars, selection
  <2> QED
    BY <2>1, <2>2
<1>4. ASSUME RefreshBorrows PROVE TypeOK'
  <2>1. CASE Return
    BY <2>1, ReturnTyped
  <2>2. CASE ~Return
    <3>1. /\ ToSet(mem.bor) \subseteq Known /\ pc' = "repay"
          /\ borKeys' = mem.bor /\ refreshed' = refreshed \cup ToSet(mem.bor)
          /\ UNCHANGED <<layoutVars, snap, i, selection, depKeys, repay, withdraw, overlap>>
      BY <1>4, <2>2 DEF RefreshBorrows
    <3>2. borKeys' \in Seq(Known)
      BY <1>1, <3>1, Elements
    <3> QED
      BY <3>1, <3>2 DEF TypeOK, layoutVars, selection
  <2> QED
    BY <2>1, <2>2
<1>5. ASSUME SelectRepay PROVE TypeOK'
  <2>1. CASE Return
    BY <2>1, ReturnTyped
  <2>2. CASE Panic
    BY <2>2, PanicTyped
  <2>3. CASE ~Return /\ ~Panic
    <3>1. /\ repay' \in HasUser /\ pc' = "withdraw"
          /\ UNCHANGED <<layoutVars, snap, i, selection, refreshed, depKeys, borKeys, withdraw, overlap>>
      BY <1>5, <2>3 DEF SelectRepay
    <3> QED
      BY <3>1 DEF TypeOK, layoutVars, selection
  <2> QED
    BY <2>1, <2>2, <2>3
<1>6. ASSUME SelectWithdraw PROVE TypeOK'
  <2>1. CASE Return
    BY <2>1, ReturnTyped
  <2>2. CASE Panic
    BY <2>2, PanicTyped
  <2>3. CASE ~Return /\ ~Panic
    <3>1. /\ withdraw' \in HasUser /\ pc' = "commit"
          /\ UNCHANGED <<layoutVars, snap, i, selection, refreshed, depKeys, borKeys, repay, overlap>>
      BY <1>6, <2>3 DEF SelectWithdraw
    <3> QED
      BY <3>1 DEF TypeOK, layoutVars, selection
  <2> QED
    BY <2>1, <2>2, <2>3
<1>7. ASSUME Commit PROVE TypeOK'
  BY <1>7, ReturnTyped DEF Commit
<1> QED
  BY <1>2, <1>3, <1>4, <1>5, <1>6, <1>7

LEMMA NextTyped == TypeOK /\ [Next]_vars => TypeOK'
<1> SUFFICES ASSUME TypeOK, [Next]_vars PROVE TypeOK'
  OBVIOUS
<1>1. CASE Next
  BY <1>1, WriteTyped, LoopTyped, BuildTyped DEF Next
<1>2. CASE UNCHANGED vars
  BY <1>2 DEF vars, layoutVars, selection, built, TypeOK
<1> QED
  BY <1>1, <1>2

\* Every variable keeps its type: whatever a torn read shows is a sequence of
\* reserves, and only known reserves enter the instructions.
THEOREM TypeCorrect == Spec => []TypeOK
  BY InitTyped, NextTyped, PTL DEF Spec

-------------------------------------------------------------------------------
(***************************************************************************)
(* An evaluation that no update overlaps.                                  *)
(***************************************************************************)
Writing == BeginWrite \/ \E field \in {"dep", "bor"} : Tear(field) \/ Write(field)

\* A write touches the layout and nothing of the evaluation.
LEMMA WriteFrame ==
    ASSUME Writing
    PROVE  UNCHANGED <<pc, snap, i, selection, built>> /\ pc # "panic"
  BY DEF Writing, BeginWrite, Tear, Write

\* What is copied of the layout being assigned is in place.
Copied == \A field \in {"dep", "bor"} \ left : mem[field] = new[field]

Undisturbed == pc # "idle" /\ ~overtaken

\* The locals of an undisturbed evaluation belong to the layout in memory.
Selected ==
    /\ selDep # 0 => selDep \in 1..Len(mem.dep) /\ mem.dep[selDep] \notin Usdc
    /\ selUsdcDep # 0 => selUsdcDep \in 1..Len(mem.dep)
    /\ selBor # 0 => selBor \in 1..Len(mem.bor)
    /\ selUsdcBor # 0 => selUsdcBor \in 1..Len(mem.bor) /\ mem.bor[selUsdcBor] \in Usdc

Looping ==
    /\ pc = "deposits" => snap = mem.dep /\ selBor = 0 /\ selUsdcBor = 0
    /\ pc = "borrows" => snap = mem.bor /\ selUsdcBor < i

Building ==
    /\ pc \in {"refreshBor", "repay", "withdraw", "commit"} => depKeys = mem.dep
    /\ pc = "refreshBor" => refreshed = ToSet(mem.dep)
    /\ pc \in {"repay", "withdraw", "commit"} =>
          borKeys = mem.bor /\ refreshed = ToSet(mem.dep) \cup ToSet(mem.bor)
    /\ pc \in {"withdraw", "commit"} => repay \in Usdc \cap ToSet(mem.bor)
    /\ pc = "commit" => withdraw \in ToSet(mem.dep) \ Usdc

Still == mem \in Layouts /\ Selected /\ Looping /\ Building

\* Between evaluations nothing is selected, and past the verdict both are.
Phases ==
    /\ pc = "idle" => selDep = 0 /\ selUsdcDep = 0 /\ selBor = 0 /\ selUsdcBor = 0
    /\ pc \in {"size", "refreshDep", "refreshBor", "repay", "withdraw", "commit"} =>
          selDep # 0 /\ selUsdcBor # 0

Consistent == TypeOK /\ Copied /\ Phases /\ (Undisturbed => Still)

LEMMA NextCopied == TypeOK /\ Copied /\ [Next]_vars => Copied'
<1> SUFFICES ASSUME TypeOK, Copied, [Next]_vars PROVE Copied'
  OBVIOUS
<1> USE DEF Copied
<1>1. CASE BeginWrite
  BY <1>1 DEF BeginWrite
<1>2. ASSUME NEW field \in {"dep", "bor"}, Tear(field) PROVE Copied'
  BY <1>2 DEF Tear, TypeOK
<1>3. ASSUME NEW field \in {"dep", "bor"}, Write(field) PROVE Copied'
  BY <1>3 DEF Write, TypeOK
<1>4. CASE UNCHANGED layoutVars
  BY <1>4 DEF layoutVars
<1>5. CASE UNCHANGED vars
  BY <1>4, <1>5 DEF vars
<1>6. Next => BeginWrite \/ (\E field \in {"dep", "bor"} : Tear(field) \/ Write(field)) \/ UNCHANGED layoutVars
  BY DEF Next, Begin, Deposit, RangeBorrows, Borrow, NothingDue, Underwater, CheckSize,
         RefreshDeposits, RefreshBorrows, SelectRepay, SelectWithdraw, Commit, Return, Panic
<1> QED
  BY <1>1, <1>2, <1>3, <1>4, <1>5, <1>6

LEMMA NextPhases == Phases /\ [Next]_vars => Phases'
<1> SUFFICES ASSUME Phases, [Next]_vars PROVE Phases'
  OBVIOUS
<1> USE DEF Phases
<1>1. CASE Writing
  BY <1>1, WriteFrame DEF selection
<1>2. CASE Return
  BY <1>2 DEF Return
<1>3. CASE Panic
  BY <1>3 DEF Panic
<1>4. CASE Begin \/ Deposit \/ RangeBorrows \/ Borrow
  <2>1. Return \/ Panic \/ pc' \in {"deposits", "borrows"}
    BY <1>4 DEF Begin, Deposit, RangeBorrows, Borrow
  <2> QED
    BY <1>2, <1>3, <2>1
<1>5. CASE NothingDue \/ Underwater
  BY <1>2, <1>5 DEF NothingDue, Underwater, selection
<1>6. CASE CheckSize
  BY <1>2, <1>3, <1>6 DEF CheckSize, selection
<1>7. CASE RefreshDeposits
  BY <1>2, <1>7 DEF RefreshDeposits, selection
<1>8. CASE RefreshBorrows
  BY <1>2, <1>8 DEF RefreshBorrows, selection
<1>9. CASE SelectRepay
  BY <1>2, <1>3, <1>9 DEF SelectRepay, selection
<1>10. CASE SelectWithdraw
  BY <1>2, <1>3, <1>10 DEF SelectWithdraw, selection
<1>11. CASE Commit
  BY <1>2, <1>11 DEF Commit
<1>12. CASE UNCHANGED vars
  BY <1>12 DEF vars, selection
<1> QED
  BY <1>1, <1>4, <1>5, <1>6, <1>7, <1>8, <1>9, <1>10, <1>11, <1>12 DEF Next, Writing

\* A layout copied to its end is the one that was assigned.
LEMMA WholeLayout == ASSUME TypeOK, Copied, left = {} PROVE mem \in Layouts
<1>1. mem.dep = new.dep /\ mem.bor = new.bor
  BY DEF Copied
<1>2. mem \in Names /\ new \in Names
  BY DEF TypeOK, Names
<1>3. mem = new
  BY <1>1, <1>2 DEF Names
<1> QED
  BY <1>3 DEF TypeOK

\* An update either waits, or overtakes the evaluation.
LEMMA WriteStill == ASSUME Consistent, Writing, Undisturbed' PROVE Still'
<1>1. BeginWrite
  BY DEF Undisturbed, Writing, Tear, Write, Store
<1>2. UNCHANGED <<mem, pc, snap, i, selection, built, overlap>>
  BY <1>1 DEF BeginWrite
<1>3. Still
  BY <1>2 DEF Undisturbed, Consistent
<1> QED
  BY <1>2, <1>3 DEF Still, Selected, Looping, Building, selection, built

\* A panic changes nothing.
LEMMA PanicStill == ASSUME Consistent, Panic, Undisturbed', pc # "idle" PROVE Still'
<1>1. UNCHANGED <<mem, snap, i, selection, built, overlap>> /\ pc' = "panic"
  BY DEF Panic, layoutVars
<1>2. Still
  BY <1>1 DEF Undisturbed, Consistent
<1> QED
  BY <1>1, <1>2 DEF Still, Selected, Looping, Building, selection

LEMMA BeginStill == ASSUME Consistent, Begin, Undisturbed' PROVE Still'
<1>1. left = {}
  BY DEF Begin, Undisturbed
<1>2. mem \in Layouts /\ mem' = mem
  BY <1>1, WholeLayout DEF Consistent, Begin, layoutVars
<1>3. selDep' = 0 /\ selUsdcDep' = 0 /\ selBor' = 0 /\ selUsdcBor' = 0
  BY DEF Begin, Consistent, Phases, selection
<1>4. pc' = "deposits" /\ snap' = mem'.dep
  BY <1>2 DEF Begin
<1> QED
  BY <1>2, <1>3, <1>4 DEF Still, Selected, Looping, Building

\* A round of the loop over the deposits selects one of them.
LEMMA DepositStill == ASSUME Consistent, Deposit, Undisturbed' PROVE Still'
<1>1. pc = "deposits" /\ i <= Len(snap)
  BY DEF Deposit
<1>2. CASE Panic
  BY <1>1, <1>2, PanicStill
<1>3. CASE ~Panic
  <2>1. ~Return
    BY DEF Undisturbed, Return
  <2>2. /\ selDep' \in IF Collateral(snap[i]) THEN Better(selDep) ELSE {selDep}
        /\ selUsdcDep' \in IF snap[i] \in Usdc THEN Better(selUsdcDep) ELSE {selUsdcDep}
        /\ UNCHANGED <<layoutVars, pc, snap, selBor, selUsdcBor, built, overlap>>
    BY <1>3, <2>1 DEF Deposit
  <2>3. mem' = mem /\ pc' = pc /\ snap' = snap /\ overtaken' = overtaken
    BY <2>2 DEF layoutVars
  <2>4. Still
    BY <2>3 DEF Undisturbed, Consistent
  <2>5. snap = mem.dep /\ selBor = 0 /\ selUsdcBor = 0
    BY <1>1, <2>4 DEF Still, Looping
  <2>6. i \in 1..Len(mem.dep)
    <3>1. i \in 1..(Len(snap) + 1) /\ Len(snap) \in Nat
      BY DEF Consistent, TypeOK
    <3> QED
      BY <1>1, <2>5, <3>1
  <2>7. selDep' = selDep \/ (selDep' = i /\ mem.dep[i] \notin Usdc)
    BY <2>2, <2>5 DEF Better, Collateral
  <2>8. selUsdcDep' \in {selUsdcDep, i}
    BY <2>2 DEF Better
  <2>9. Selected'
    BY <2>2, <2>3, <2>4, <2>5, <2>6, <2>7, <2>8 DEF Still, Selected
  <2> QED
    BY <1>1, <2>2, <2>3, <2>4, <2>5, <2>9 DEF Still, Looping, Building
<1> QED
  BY <1>2, <1>3

LEMMA RangeBorrowsStill == ASSUME Consistent, RangeBorrows, Undisturbed' PROVE Still'
<1>1. /\ pc = "deposits" /\ pc' = "borrows" /\ snap' = mem.bor /\ i' = 1
      /\ UNCHANGED <<mem, selection, built, overlap>>
  BY DEF RangeBorrows, layoutVars
<1>2. Still
  BY <1>1 DEF Undisturbed, Consistent
<1>3. selUsdcBor' = 0
  BY <1>1, <1>2 DEF Still, Looping, selection
<1> QED
  BY <1>1, <1>2, <1>3 DEF Still, Selected, Looping, Building, selection

\* A round of the loop over the borrows selects one of them.
LEMMA BorrowStill == ASSUME Consistent, Borrow, Undisturbed' PROVE Still'
<1>1. pc = "borrows" /\ i <= Len(snap)
  BY DEF Borrow
<1>2. CASE Panic
  BY <1>1, <1>2, PanicStill
<1>3. CASE ~Panic
  <2>1. ~Return
    BY DEF Undisturbed, Return
  <2>2. /\ selBor' \in IF snap[i] \in HasUser THEN Better(selBor) ELSE {selBor}
        /\ selUsdcBor' \in IF snap[i] \in Usdc THEN Better(selUsdcBor) ELSE {selUsdcBor}
        /\ i' = i + 1
        /\ UNCHANGED <<layoutVars, pc, snap, selDep, selUsdcDep, built, overlap>>
    BY <1>3, <2>1 DEF Borrow
  <2>3. mem' = mem /\ pc' = pc /\ snap' = snap /\ overtaken' = overtaken
    BY <2>2 DEF layoutVars
  <2>4. Still
    BY <2>3 DEF Undisturbed, Consistent
  <2>5. snap = mem.bor /\ selUsdcBor < i
    BY <1>1, <2>4 DEF Still, Looping
  <2>6. i \in 1..Len(mem.bor) /\ selUsdcBor \in Nat
    <3>1. i \in 1..(Len(snap) + 1) /\ Len(snap) \in Nat /\ selUsdcBor \in Nat
      BY DEF Consistent, TypeOK
    <3> QED
      BY <1>1, <2>5, <3>1
  <2>7. selUsdcBor' = selUsdcBor \/ (selUsdcBor' = i /\ mem.bor[i] \in Usdc)
    BY <2>2, <2>5 DEF Better
  <2>8. selBor' \in {selBor, i}
    BY <2>2 DEF Better
  <2>9. Selected'
    BY <2>2, <2>3, <2>4, <2>6, <2>7, <2>8 DEF Still, Selected
  <2>10. selUsdcBor' < i'
    BY <2>2, <2>5, <2>6, <2>7
  <2> QED
    BY <1>1, <2>2, <2>3, <2>4, <2>5, <2>9, <2>10 DEF Still, Looping, Building
<1> QED
  BY <1>2, <1>3

LEMMA UnderwaterStill == ASSUME Consistent, Underwater, Undisturbed' PROVE Still'
<1>1. pc = "borrows" /\ pc' = "size" /\ UNCHANGED <<mem, selection, built, overlap>>
  BY DEF Underwater, layoutVars
<1>2. Still
  BY <1>1 DEF Undisturbed, Consistent
<1> QED
  BY <1>1, <1>2 DEF Still, Selected, Looping, Building, selection

LEMMA CheckSizeStill == ASSUME Consistent, CheckSize, Undisturbed' PROVE Still'
<1>1. pc = "size"
  BY DEF CheckSize
<1>2. CASE Panic
  BY <1>1, <1>2, PanicStill
<1>3. CASE ~Panic
  <2>1. pc' = "refreshDep" /\ UNCHANGED <<mem, selection, built, overlap>>
    BY <1>3 DEF CheckSize, Undisturbed, Return, layoutVars
  <2>2. Still
    BY <1>1, <2>1 DEF Undisturbed, Consistent
  <2> QED
    BY <2>1, <2>2 DEF Still, Selected, Looping, Building, selection
<1> QED
  BY <1>2, <1>3

LEMMA RefreshDepositsStill == ASSUME Consistent, RefreshDeposits, Undisturbed' PROVE Still'
<1>1. /\ pc = "refreshDep" /\ pc' = "refreshBor"
      /\ depKeys' = mem.dep /\ refreshed' = ToSet(mem.dep)
      /\ UNCHANGED <<mem, selection, overtaken>>
  BY DEF RefreshDeposits, Undisturbed, Return, layoutVars
<1>2. Still
  BY <1>1 DEF Undisturbed, Consistent
<1> QED
  BY <1>1, <1>2 DEF Still, Selected, Looping, Building, selection

LEMMA RefreshBorrowsStill == ASSUME Consistent, RefreshBorrows, Undisturbed' PROVE Still'
<1>1. /\ pc = "refreshBor" /\ pc' = "repay"
      /\ borKeys' = mem.bor /\ refreshed' = refreshed \cup ToSet(mem.bor)
      /\ UNCHANGED <<mem, selection, depKeys, overtaken>>
  BY DEF RefreshBorrows, Undisturbed, Return, layoutVars
<1>2. Still
  BY <1>1 DEF Undisturbed, Consistent
<1> QED
  BY <1>1, <1>2 DEF Still, Selected, Looping, Building, selection

\* The selected borrow is a USDC borrow of the layout.
LEMMA SelectRepayStill == ASSUME Consistent, SelectRepay, Undisturbed' PROVE Still'
<1>1. pc = "repay"
  BY DEF SelectRepay
<1>2. CASE Panic
  BY <1>1, <1>2, PanicStill
<1>3. CASE ~Panic
  <2>1. /\ repay' = mem.bor[selUsdcBor] /\ pc' = "withdraw"
        /\ UNCHANGED <<mem, selection, refreshed, depKeys, borKeys, overtaken>>
    BY <1>3 DEF SelectRepay, Undisturbed, Return, layoutVars
  <2>2. Still
    BY <1>1, <2>1 DEF Undisturbed, Consistent
  <2>3. selUsdcBor \in 1..Len(mem.bor) /\ mem.bor[selUsdcBor] \in Usdc
    BY <1>1, <2>2 DEF Consistent, Phases, Still, Selected
  <2>4. repay' \in Usdc \cap ToSet(mem.bor)
    BY <2>1, <2>3, Elements DEF Consistent, TypeOK
  <2> QED
    BY <1>1, <2>1, <2>2, <2>4 DEF Still, Selected, Looping, Building, selection
<1> QED
  BY <1>2, <1>3

\* The selected deposit is one of the layout, and not of USDC.
LEMMA SelectWithdrawStill == ASSUME Consistent, SelectWithdraw, Undisturbed' PROVE Still'
<1>1. pc = "withdraw"
  BY DEF SelectWithdraw
<1>2. CASE Panic
  BY <1>1, <1>2, PanicStill
<1>3. CASE ~Panic
  <2>1. /\ withdraw' = mem.dep[selDep] /\ pc' = "commit"
        /\ UNCHANGED <<mem, selection, refreshed, depKeys, borKeys, repay, overlap>>
    BY <1>3 DEF SelectWithdraw, Undisturbed, Return, layoutVars
  <2>2. Still
    BY <1>1, <2>1 DEF Undisturbed, Consistent
  <2>3. selDep \in 1..Len(mem.dep) /\ mem.dep[selDep] \notin Usdc
    BY <1>1, <2>2 DEF Consistent, Phases, Still, Selected
  <2>4. withdraw' \in ToSet(mem.dep) \ Usdc
    BY <2>1, <2>3, Elements DEF Consistent, TypeOK
  <2> QED
    BY <1>1, <2>1, <2>2, <2>4 DEF Still, Selected, Looping, Building, selection
<1> QED
  BY <1>2, <1>3

LEMMA NextConsistent == Consistent /\ [Next]_vars => Consistent'
<1> SUFFICES ASSUME Consistent, [Next]_vars PROVE Consistent'
  OBVIOUS
<1>1. TypeOK' /\ Copied' /\ Phases'
  BY NextTyped, NextCopied, NextPhases DEF Consistent
<1>2. ASSUME Undisturbed' PROVE Still'
  <2>1. CASE Next
    <3>1. ~NothingDue /\ ~Commit
      BY <1>2 DEF Undisturbed, NothingDue, Commit, Return
    <3> QED
      BY <1>2, <2>1, <3>1, WriteStill, BeginStill, DepositStill, RangeBorrowsStill, BorrowStill,
         UnderwaterStill, CheckSizeStill, RefreshDepositsStill, RefreshBorrowsStill,
         SelectRepayStill, SelectWithdrawStill DEF Next, Writing
  <2>2. CASE UNCHANGED vars
    <3>1. Still
      BY <1>2, <2>2 DEF Undisturbed, Consistent, vars
    <3> QED
      BY <2>2, <3>1 DEF vars, layoutVars, selection, built, Still, Selected, Looping, Building
  <2> QED
    BY <2>1, <2>2
<1> QED
  BY <1>1, <1>2 DEF Consistent

LEMMA InitConsistent == Init => Consistent
<1> SUFFICES ASSUME Init PROVE Consistent
  OBVIOUS
<1>1. TypeOK
  BY InitTyped
<1>2. Copied /\ Phases /\ ~Undisturbed
  BY DEF Init, Copied, Phases, Undisturbed
<1> QED
  BY <1>1, <1>2 DEF Consistent

\* A liquidation that no update overlaps repays a USDC borrow of the obligation,
\* withdraws a deposit that is not USDC, and refreshes all the obligation names.
THEOREM UndisturbedConsistent == Spec => []UndisturbedIsConsistent
<1>1. Consistent => UndisturbedIsConsistent
  BY DEF Consistent, Undisturbed, Still, Building, UndisturbedIsConsistent
<1> QED
  BY <1>1, InitConsistent, NextConsistent, PTL DEF Spec

-------------------------------------------------------------------------------
(***************************************************************************)
(* The window between a loop that refreshes reserves and the lookup of one *)
(* of them by index.                                                       *)
(***************************************************************************)
\* Until a field is stored to, what the loop saw of it is what the lookup will.
Misses ==
    /\ pc \in Exposed.dep /\ "dep" \notin raced => ToSet(mem.dep) \subseteq refreshed
    /\ pc \in Exposed.bor /\ "bor" \notin raced => ToSet(mem.bor) \subseteq refreshed
    /\ pc \in {"withdraw", "commit"} /\ "bor" \notin raced => repay \in refreshed
    /\ pc = "commit" /\ "dep" \notin raced => withdraw \in refreshed

\* A store to a field in its window is a race, and elsewhere changes nothing.
LEMMA WriteMisses == ASSUME TypeOK, Misses, Writing PROVE Misses'
<1>1. UNCHANGED <<pc, refreshed, repay, withdraw>>
  BY WriteFrame DEF built
<1>2. CASE BeginWrite
  BY <1>1, <1>2 DEF BeginWrite, Misses
<1>3. ASSUME NEW field \in {"dep", "bor"}, Tear(field) \/ Write(field) PROVE Misses'
  <2>1. /\ raced' = IF pc \in Exposed[field] THEN raced \cup {field} ELSE raced
        /\ \A other \in {"dep", "bor"} : other # field => mem'[other] = mem[other]
    BY <1>3 DEF Tear, Write, Store, TypeOK
  <2>2. pc \in Exposed.dep /\ "dep" \notin raced' => mem'.dep = mem.dep
    BY <1>3, <2>1
  <2>3. pc \in Exposed.bor /\ "bor" \notin raced' => mem'.bor = mem.bor
    BY <1>3, <2>1
  <2> QED
    BY <1>1, <2>1, <2>2, <2>3 DEF Misses
<1> QED
  BY <1>2, <1>3 DEF Writing

LEMMA NextMisses == TypeOK /\ Phases /\ Misses /\ [Next]_vars => Misses'
<1> SUFFICES ASSUME TypeOK, Phases, Misses, [Next]_vars PROVE Misses'
  OBVIOUS
<1> USE DEF Misses, Exposed
<1>1. CASE Writing
  BY <1>1, WriteMisses
<1>2. CASE Return
  BY <1>2 DEF Return
<1>3. CASE Panic
  BY <1>3 DEF Panic
<1>4. CASE Begin \/ Deposit \/ RangeBorrows \/ Borrow \/ NothingDue \/ Underwater
  <2>1. pc' \in {"idle", "deposits", "borrows", "size", "panic"}
    BY <1>4 DEF Begin, Deposit, RangeBorrows, Borrow, NothingDue, Underwater, Return, Panic
  <2> QED
    BY <2>1
<1>5. CASE CheckSize
  BY <1>2, <1>3, <1>5 DEF CheckSize
<1>6. CASE RefreshDeposits
  <2>1. CASE ~Return
    <3>1. pc' = "refreshBor" /\ refreshed' = ToSet(mem.dep) /\ mem' = mem
      BY <1>6, <2>1 DEF RefreshDeposits, layoutVars
    <3> QED
      BY <3>1
  <2> QED
    BY <1>2, <2>1
<1>7. CASE RefreshBorrows
  <2>1. CASE ~Return
    <3>1. /\ pc = "refreshBor" /\ pc' = "repay" /\ UNCHANGED <<mem, raced>>
          /\ refreshed' = refreshed \cup ToSet(mem.bor)
      BY <1>7, <2>1 DEF RefreshBorrows, layoutVars
    <3> QED
      BY <3>1
  <2> QED
    BY <1>2, <2>1
<1>8. CASE SelectRepay
  <2>1. CASE ~Return /\ ~Panic
    <3>1. /\ pc = "repay" /\ pc' = "withdraw" /\ repay' = mem.bor[selUsdcBor]
          /\ InRange(selUsdcBor, mem.bor) /\ UNCHANGED <<mem, refreshed, raced>>
      BY <1>8, <2>1 DEF SelectRepay, layoutVars
    <3>2. selUsdcBor \in 1..Len(mem.bor)
      BY <3>1 DEF InRange, Phases, TypeOK
    <3>3. repay' \in ToSet(mem.bor)
      BY <3>1, <3>2, Elements DEF TypeOK
    <3> QED
      BY <3>1, <3>3
  <2> QED
    BY <1>2, <1>3, <2>1
<1>9. CASE SelectWithdraw
  <2>1. CASE ~Return /\ ~Panic
    <3>1. /\ pc = "withdraw" /\ pc' = "commit" /\ withdraw' = mem.dep[selDep]
          /\ InRange(selDep, mem.dep) /\ UNCHANGED <<mem, refreshed, raced, repay>>
      BY <1>9, <2>1 DEF SelectWithdraw, layoutVars
    <3>2. selDep \in 1..Len(mem.dep)
      BY <3>1 DEF InRange, Phases, TypeOK
    <3>3. withdraw' \in ToSet(mem.dep)
      BY <3>1, <3>2, Elements DEF TypeOK
    <3> QED
      BY <3>1, <3>3
  <2> QED
    BY <1>2, <1>3, <2>1
<1>10. CASE Commit
  BY <1>2, <1>10 DEF Commit
<1>11. CASE UNCHANGED vars
  BY <1>11 DEF vars, layoutVars, built
<1> QED
  BY <1>1, <1>4, <1>5, <1>6, <1>7, <1>8, <1>9, <1>10, <1>11 DEF Next, Writing

\* A liquidation works on a reserve that its transaction does not refresh only
\* when the field was stored to between the loop and the lookup by index.
THEOREM OnlyRacesMiss == Spec => []MissesAreRaced
<1>1. Init => Misses
  BY DEF Init, Misses, Exposed
<1>2. Misses => MissesAreRaced
  BY DEF Misses, MissesAreRaced
<1> QED
  BY <1>1, <1>2, InitConsistent, NextConsistent, NextMisses, PTL DEF Spec, Consistent

-------------------------------------------------------------------------------
(***************************************************************************)
(* An index out of range takes an update, or two USDC borrows.             *)
(***************************************************************************)
\* In an undisturbed evaluation no lookup by index panics.
LEMMA NextCalm ==
    ASSUME OneUsdcBorrow
    PROVE  Consistent /\ PanicOnlyOvertaken /\ [Next]_vars => PanicOnlyOvertaken'
<1> SUFFICES ASSUME Consistent, PanicOnlyOvertaken, [Next]_vars, pc' = "panic", ~overtaken'
             PROVE  FALSE
  BY DEF PanicOnlyOvertaken, Consistent, TypeOK
<1>1. CASE UNCHANGED vars \/ Writing
  <2>1. pc = "panic"
    BY <1>1, WriteFrame DEF vars
  <2> QED
    BY <1>1, <2>1, WriteFrame DEF vars, PanicOnlyOvertaken
<1>2. CASE ~(UNCHANGED vars \/ Writing)
  <2>1. Panic
    BY <1>2 DEF Next, Writing, Begin, Deposit, RangeBorrows, Borrow, NothingDue, Underwater,
                CheckSize, RefreshDeposits, RefreshBorrows, SelectRepay, SelectWithdraw, Commit, Return
  <2>2. Deposit \/ Borrow \/ CheckSize \/ SelectRepay \/ SelectWithdraw
    BY <1>2, <2>1 DEF Next, Writing, Begin, RangeBorrows, NothingDue, Underwater,
                      RefreshDeposits, RefreshBorrows, Commit, Return
  <2>3. ~Return
    BY DEF Return
  <2>4. ~overtaken /\ mem' = mem /\ pc # "idle"
    BY <2>1, <2>2 DEF Panic, layoutVars, Deposit, Borrow, CheckSize, SelectRepay, SelectWithdraw
  <2>5. Still
    BY <2>4 DEF Consistent, Undisturbed
  <2>6. InRange(selDep, mem.dep) /\ InRange(selUsdcDep, mem.dep) /\ InRange(selBor, mem.bor) /\ InRange(selUsdcBor, mem.bor)
    BY <2>5 DEF Still, Selected, InRange
  <2>7. CASE Borrow
    <3>1. snap[i] \in Usdc /\ ~InRange(selUsdcBor, mem.dep) /\ pc = "borrows" /\ i <= Len(snap)
      BY <2>1, <2>3, <2>6, <2>7 DEF Borrow, Panic
    <3>2. snap = mem.bor /\ selUsdcBor < i /\ selUsdcBor # 0
      BY <2>5, <3>1 DEF Still, Looping, InRange
    <3>3. i \in 1..Len(mem.bor)
      <4>1. i \in 1..(Len(snap) + 1) /\ Len(snap) \in Nat
        BY DEF Consistent, TypeOK
      <4> QED
        BY <3>1, <3>2, <4>1
    <3>4. selUsdcBor \in 1..Len(mem.bor) /\ mem.bor[selUsdcBor] \in Usdc
      BY <2>5, <3>2 DEF Still, Selected
    <3>5. selUsdcBor = i
      BY <2>5, <3>1, <3>2, <3>3, <3>4 DEF Still, OneUsdcBorrow
    <3> QED
      BY <3>2, <3>3, <3>5
  <2> QED
    BY <2>1, <2>2, <2>3, <2>6, <2>7 DEF Deposit, CheckSize, SelectRepay, SelectWithdraw, Panic
<1> QED
  BY <1>1, <1>2

\* When an obligation borrows USDC once at most, an index is out of range only
\* when updateAccount changed the layout during the evaluation.
THEOREM PanicIsOvertaken ==
    ASSUME OneUsdcBorrow
    PROVE  Spec => []PanicOnlyOvertaken
<1>1. Init => PanicOnlyOvertaken
  BY DEF Init, PanicOnlyOvertaken
<1> QED
  BY <1>1, InitConsistent, NextConsistent, NextCalm, PTL DEF Spec
===============================================================================
