------------------------------ MODULE Liquidation -----------------------------
(***************************************************************************)
(* One obligation, from its valuation to the transaction that liquidates   *)
(* it (calculateRefreshedObligation and liquidateObligation in             *)
(* solend/program.go), while updateAccount replaces its layout.            *)
(*                                                                         *)
(* The two goroutines share the *KeyedObligation.  A range statement takes *)
(* its slice once; every later read by index goes to the layout of that    *)
(* moment.  Assigning the layout copies its fields one after the other, in *)
(* an order the compiler is free to choose, and a slice is several words:  *)
(* between two of its stores a reader sees the length of one array with    *)
(* the contents of another.                                                *)
(*                                                                         *)
(* A deposit or a borrow is the reserve it names.  What the comparisons of *)
(* market values select, and whether the obligation is worth a             *)
(* liquidation, depends on numbers that are not modelled: both outcomes    *)
(* are possible at every comparison.  flashloan is FALSE and noreturn TRUE,*)
(* as in production.                                                       *)
(***************************************************************************)
EXTENDS Integers, Sequences, SequencesExt

CONSTANTS
    Reserves,    \* reserves an obligation may name
    Known,       \* those in p.reserves whose price and token are known
    Usdc,        \* those whose liquidity is USDC
    HasUser,     \* those whose liquidity the bot holds an account of
    HasCollateralUser, \* those whose collateral the bot holds an account of
    Markets,     \* the pairs of reserves between whose liquidity one can swap
    Layouts,     \* the layouts the account may have
    MaxWrites    \* bound: account updates in a run

ASSUME ReservesAssumption ==
    /\ Known \subseteq Reserves /\ Usdc \subseteq Known /\ HasUser \subseteq Known
    /\ HasCollateralUser \subseteq Known
    /\ Markets \subseteq SUBSET Known
ASSUME LayoutsAssumption ==
    Layouts \subseteq [dep : Seq(Reserves), bor : Seq(Reserves)]
ASSUME BoundAssumption == MaxWrites \in Nat

VARIABLES
    mem,       \* the ObligationLayout in memory
    new, left, \* the layout being assigned and its fields still to copy
    torn,      \* those of them of which a part is copied
    writes,    \* updates so far
    pc,        \* where Calculate is
    snap, i,   \* the slice a range loop took, and its index
    selDep, selUsdcDep, selBor, selUsdcBor, \* selected indexes, 0 for -1
    refreshed, depKeys, borKeys,  \* the instructions built so far
    repay, withdraw,              \* the reserves of the liquidate instruction
    overtaken, \* history: the valuation and an update overlapped
    raced      \* history: fields stored to between refresh loop and lookup

layoutVars == <<mem, new, left, torn, writes>>
selection == <<selDep, selUsdcDep, selBor, selUsdcBor>>
built == <<refreshed, depKeys, borKeys, repay, withdraw>>
overlap == <<overtaken, raced>>
vars == <<layoutVars, pc, snap, i, selection, built, overlap>>

None == "none"

-------------------------------------------------------------------------------
Init ==
    /\ mem \in Layouts
    /\ new = mem /\ left = {} /\ torn = {} /\ writes = 0
    /\ pc = "idle"
    /\ snap = <<>> /\ i = 1
    /\ selDep = 0 /\ selUsdcDep = 0 /\ selBor = 0 /\ selUsdcBor = 0
    /\ refreshed = {} /\ depKeys = <<>> /\ borKeys = <<>>
    /\ repay = None /\ withdraw = None
    /\ overtaken = FALSE /\ raced = {}

-------------------------------------------------------------------------------
\* updateAccount: upsertObligation assigns the layout, field by field.
BeginWrite ==
    /\ pc # "panic"
    /\ left = {}
    /\ writes < MaxWrites
    /\ \E l \in Layouts \ {mem} : new' = l
    /\ left' = {"dep", "bor"}
    /\ writes' = writes + 1
    /\ UNCHANGED <<mem, torn, pc, snap, i, selection, built, overlap>>

\* What a reader sees of a slice: the first n elements of the array, and
\* whatever lies behind the array when n is beyond its end.
Slice(array, n) ==
    IF n <= Len(array) THEN {SubSeq(array, 1, n)}
    ELSE {array \o junk : junk \in [1..(n - Len(array)) -> Reserves]}

\* Where the loop that refreshes a field is behind, and the lookup is ahead.
Exposed == [dep |-> {"refreshBor", "repay", "withdraw"}, bor |-> {"repay"}]

\* Something is stored to a field, whatever Calculate is doing.
Store(field) ==
    /\ overtaken' = (pc # "idle")
    /\ raced' = IF pc \in Exposed[field] THEN raced \cup {field} ELSE raced

\* The length or the array of a field is stored, the other is still the old one.
Tear(field) ==
    /\ pc # "panic"
    /\ field \in left \ torn
    /\ \E seen \in Slice(new[field], Len(mem[field]))
                   \cup Slice(mem[field], Len(new[field])) :
          mem' = [mem EXCEPT ![field] = seen]
    /\ torn' = torn \cup {field}
    /\ Store(field)
    /\ UNCHANGED <<new, left, writes, pc, snap, i, selection, built>>

\* The field is copied to its end.
Write(field) ==
    /\ pc # "panic"
    /\ field \in left
    /\ mem' = [mem EXCEPT ![field] = new[field]]
    /\ left' = left \ {field}
    /\ torn' = torn \ {field}
    /\ Store(field)
    /\ UNCHANGED <<new, writes, pc, snap, i, selection, built>>

-------------------------------------------------------------------------------
\* Every return of the evaluation: the next one starts afresh.
Return ==
    /\ pc' = "idle"
    /\ snap' = <<>> /\ i' = 1
    /\ selDep' = 0 /\ selUsdcDep' = 0 /\ selBor' = 0 /\ selUsdcBor' = 0
    /\ refreshed' = {} /\ depKeys' = <<>> /\ borKeys' = <<>>
    /\ repay' = None /\ withdraw' = None
    /\ overtaken' = FALSE /\ raced' = {}
    /\ UNCHANGED layoutVars

Panic ==
    /\ pc' = "panic"
    /\ UNCHANGED <<layoutVars, snap, i, selection, built, overlap>>

\* for i, deposit := range obligation.ObligationCollateral
Begin ==
    /\ pc = "idle"
    /\ pc' = "deposits"
    /\ snap' = mem.dep
    /\ i' = 1
    /\ overtaken' = (left # {})
    /\ UNCHANGED <<layoutVars, selection, built, raced>>

\* The first candidate is selected; a later one when its market value exceeds
\* the one stored in slice[sel], which panics when the index is out of range.
InRange(sel, slice) == sel = 0 \/ sel <= Len(slice)
Better(sel) == IF sel = 0 THEN {i} ELSE {sel, i}

\* A deposit that can be withdrawn and swapped.
Collateral(r) == r \in HasCollateralUser /\ r \notin Usdc

\* One round of the loop over the deposits.
Deposit ==
    /\ pc = "deposits"
    /\ i <= Len(snap)
    /\ LET r == snap[i] IN
          \/ r \notin Known /\ Return
          \/ /\ r \in Known
             /\ \/ /\ Collateral(r) /\ ~InRange(selDep, mem.dep)
                \/ /\ r \in Usdc /\ ~InRange(selUsdcDep, mem.dep)
             /\ Panic
          \/ /\ r \in Known
             /\ Collateral(r) => InRange(selDep, mem.dep)
             /\ r \in Usdc => InRange(selUsdcDep, mem.dep)
             /\ selDep' \in IF Collateral(r) THEN Better(selDep) ELSE {selDep}
             /\ selUsdcDep' \in IF r \in Usdc THEN Better(selUsdcDep) ELSE {selUsdcDep}
             /\ i' = i + 1
             /\ UNCHANGED <<layoutVars, pc, snap, selBor, selUsdcBor, built, overlap>>

\* for i, borrow := range obligation.ObligationLiquidity
RangeBorrows ==
    /\ pc = "deposits"
    /\ i > Len(snap)
    /\ pc' = "borrows"
    /\ snap' = mem.bor
    /\ i' = 1
    /\ UNCHANGED <<layoutVars, selection, built, overlap>>

\* One round of the loop over the borrows.  The code compares a second USDC
\* borrow with the stored value of the DEPOSIT of the selected index.
Borrow ==
    /\ pc = "borrows"
    /\ i <= Len(snap)
    /\ LET r == snap[i] IN
          \/ r \notin Known /\ Return
          \/ /\ r \in Known
             /\ \/ r \in HasUser /\ ~InRange(selBor, mem.bor)
                \/ r \in Usdc /\ ~InRange(selUsdcBor, mem.dep)
             /\ Panic
          \/ /\ r \in Known
             /\ r \in HasUser => InRange(selBor, mem.bor)
             /\ r \in Usdc => InRange(selUsdcBor, mem.dep)
             /\ selBor' \in IF r \in HasUser THEN Better(selBor) ELSE {selBor}
             /\ selUsdcBor' \in IF r \in Usdc THEN Better(selUsdcBor) ELSE {selUsdcBor}
             /\ i' = i + 1
             /\ UNCHANGED <<layoutVars, pc, snap, selDep, selUsdcDep, built, overlap>>

\* Healthy or too small: nothing is due.  Underwater: a USDC borrow and
\* another deposit must have been selected, or it is an error.
NothingDue ==
    /\ pc = "borrows"
    /\ i > Len(snap)
    /\ Return

Underwater ==
    /\ pc = "borrows"
    /\ i > Len(snap)
    /\ selDep # 0 /\ selUsdcBor # 0
    /\ pc' = "size"
    /\ snap' = <<>> /\ i' = 1   \* the loops are over
    /\ UNCHANGED <<layoutVars, selection, built, overlap>>

\* BorrowedAmount of the selected borrow is read again, and must be large.
CheckSize ==
    /\ pc = "size"
    /\ IF InRange(selUsdcBor, mem.bor)
         THEN \/ Return
              \/ /\ pc' = "refreshDep"
                 /\ UNCHANGED <<layoutVars, snap, i, selection, built, overlap>>
         ELSE Panic

\* The two loops of liquidateObligation: one RefreshReserve instruction for
\* each reserve named, and all the names for RefreshObligation.
RefreshDeposits ==
    /\ pc = "refreshDep"
    /\ IF ToSet(mem.dep) \subseteq Known
         THEN /\ pc' = "refreshBor"
              /\ depKeys' = mem.dep
              /\ refreshed' = ToSet(mem.dep)
              /\ UNCHANGED <<layoutVars, snap, i, selection, borKeys, repay, withdraw, overlap>>
         ELSE Return

\* A wrong variant of RefreshBorrows: the map of refreshed reserves is kept
\* for the deposits only, and nothing is refreshed for the borrows.
RefreshBorrows_Forgotten ==
    /\ pc = "refreshBor"
    /\ pc' = "repay"
    /\ borKeys' = mem.bor
    /\ UNCHANGED <<layoutVars, snap, i, selection, refreshed, depKeys, repay, withdraw, overlap>>

RefreshBorrows ==
    /\ pc = "refreshBor"
    /\ IF ToSet(mem.bor) \subseteq Known
         THEN /\ pc' = "repay"
              /\ borKeys' = mem.bor
              /\ refreshed' = refreshed \cup ToSet(mem.bor)
              /\ UNCHANGED <<layoutVars, snap, i, selection, depKeys, repay, withdraw, overlap>>
         ELSE Return

\* A wrong variant of SelectRepay: the largest borrow of any token.
SelectRepay_AnyBorrow ==
    /\ pc = "repay"
    /\ IF ~InRange(selBor, mem.bor) THEN Panic
       ELSE LET r == mem.bor[selBor] IN
            IF r \in HasUser
              THEN /\ repay' = r
                   /\ pc' = "withdraw"
                   /\ UNCHANGED <<layoutVars, snap, i, selection, refreshed, depKeys, borKeys,
                                  withdraw, overlap>>
              ELSE Return

\* obligation.ObligationLiquidity[selectBorrow], by index once more.
SelectRepay ==
    /\ pc = "repay"
    /\ IF ~InRange(selUsdcBor, mem.bor) THEN Panic
       ELSE LET r == mem.bor[selUsdcBor] IN
            IF r \in HasUser
              THEN /\ repay' = r
                   /\ pc' = "withdraw"
                   /\ UNCHANGED <<layoutVars, snap, i, selection, refreshed, depKeys, borKeys,
                                  withdraw, overlap>>
              ELSE Return

\* A wrong variant of SelectWithdraw: it takes the index of the borrow.
SelectWithdraw_WrongIndex ==
    /\ pc = "withdraw"
    /\ IF ~InRange(selUsdcBor, mem.dep) THEN Panic
       ELSE LET r == mem.dep[selUsdcBor] IN
            \/ Return
            \/ /\ r \in HasCollateralUser \cap HasUser
               /\ {r, repay} \in Markets
               /\ withdraw' = r
               /\ pc' = "commit"
               /\ UNCHANGED <<layoutVars, snap, i, selection, refreshed, depKeys, borKeys,
                              repay, overlap>>

\* obligation.ObligationCollateral[selectDeposit]; the market between the two
\* must exist.  The lending market may be unknown, whatever the deposit is.
SelectWithdraw ==
    /\ pc = "withdraw"
    /\ IF ~InRange(selDep, mem.dep) THEN Panic
       ELSE LET r == mem.dep[selDep] IN
            \/ Return
            \/ /\ r \in HasCollateralUser \cap HasUser
               /\ {r, repay} \in Markets
               /\ withdraw' = r
               /\ pc' = "commit"
               /\ UNCHANGED <<layoutVars, snap, i, selection, refreshed, depKeys, borKeys,
                              repay, overlap>>

\* Commit of the instructions, and of the balance command that follows.
Commit ==
    /\ pc = "commit"
    /\ Return

Next ==
    \/ BeginWrite \/ \E field \in {"dep", "bor"} : Tear(field) \/ Write(field)
    \/ Begin \/ Deposit \/ RangeBorrows \/ Borrow \/ NothingDue \/ Underwater \/ CheckSize
    \/ RefreshDeposits \/ RefreshBorrows \/ SelectRepay \/ SelectWithdraw \/ Commit

Spec == Init /\ [][Next]_vars

-------------------------------------------------------------------------------
TypeOK ==
    /\ mem \in [dep : Seq(Reserves), bor : Seq(Reserves)]
    /\ new \in Layouts /\ left \in SUBSET {"dep", "bor"} /\ torn \in SUBSET left
    /\ writes \in 0..MaxWrites
    /\ pc \in {"idle", "deposits", "borrows", "size", "refreshDep", "refreshBor",
               "repay", "withdraw", "commit", "panic"}
    /\ snap \in Seq(Reserves) /\ i \in 1..(Len(snap) + 1)
    /\ {selDep, selUsdcDep, selBor, selUsdcBor} \subseteq Nat
    /\ refreshed \in SUBSET Known
    /\ depKeys \in Seq(Known) /\ borKeys \in Seq(Known)
    /\ repay \in Known \cup {None} /\ withdraw \in Known \cup {None}
    /\ overtaken \in BOOLEAN /\ raced \in SUBSET {"dep", "bor"}

\* A liquidation whose obligation did not change under its hands repays a USDC
\* borrow of the obligation, withdraws a deposit that is not USDC, and its
\* transaction refreshes everything the obligation names.
UndisturbedIsConsistent ==
    pc = "commit" /\ ~overtaken =>
        /\ repay \in Usdc \cap ToSet(mem.bor)
        /\ withdraw \in ToSet(mem.dep) \ Usdc
        /\ depKeys = mem.dep /\ borKeys = mem.bor
        /\ refreshed = ToSet(mem.dep) \cup ToSet(mem.bor)

\* Only a store in a narrow window makes a liquidation work on a reserve that
\* its transaction does not refresh: a store to the deposits after the loop
\* that refreshes them, or to the borrows after theirs, and before the lookup
\* by index.  An update anywhere else in the evaluation, complete or torn, and
\* whatever it does to the selected indexes, does not.
MissesAreRaced ==
    pc = "commit" =>
        /\ withdraw \notin refreshed => "dep" \in raced
        /\ repay \notin refreshed => "bor" \in raced

\* An index is out of range only when the obligation changed meanwhile.  (Here
\* an obligation has one USDC borrow; with two of them the comparison in the
\* borrow loop may index the deposits beyond their end at any time.)
PanicOnlyOvertaken == pc = "panic" => overtaken

\* "refresh all reserves": the reserves the liquidate instruction works on are
\* among those its transaction refreshes.
RefreshesAllReserves == pc = "commit" => {repay, withdraw} \subseteq refreshed
===============================================================================
