--------------------------- MODULE ValuationProofs ----------------------------
(***************************************************************************)
(* What module Valuation states, proved for any reserves, accounts, prices *)
(* and threshold.                                                          *)
(***************************************************************************)
EXTENDS Valuation, FiniteSetTheorems, WellFoundedInduction, TLAPS

-------------------------------------------------------------------------------
(* Values are integers. *)

LEMMA SeqFacts ==
    ASSUME NEW S, NEW s \in Seq(S)
    PROVE  Len(s) \in Nat /\ DOMAIN s = 1..Len(s) /\ \A k \in 1..Len(s) : s[k] \in S
  OBVIOUS

LEMMA AccountFacts ==
    ASSUME NEW a \in Accounts
    PROVE  /\ a.dep \in Seq(Deposited) /\ a.bor \in Seq(Borrowed)
           /\ Len(a.dep) \in Nat /\ Len(a.bor) \in Nat
           /\ Len(a.dep) + Len(a.bor) <= 10
           /\ Len(a.bor) > 0 => Len(a.dep) > 0
           /\ DOMAIN a.dep = 1..Len(a.dep) /\ DOMAIN a.bor = 1..Len(a.bor)
           /\ \A k \in 1..Len(a.dep) : a.dep[k] \in Deposited
           /\ \A k \in 1..Len(a.bor) : a.bor[k] \in Borrowed
<1>1. a \in [dep : Seq(Deposited), bor : Seq(Borrowed)]
  BY AccountsAssumption
<1>2. a.dep \in Seq(Deposited) /\ a.bor \in Seq(Borrowed)
  BY <1>1
<1>3. Len(a.dep) + Len(a.bor) <= 10 /\ (Len(a.bor) > 0 => Len(a.dep) > 0)
  BY ChainAssumption
<1>4. /\ Len(a.dep) \in Nat /\ DOMAIN a.dep = 1..Len(a.dep)
      /\ \A k \in 1..Len(a.dep) : a.dep[k] \in Deposited
  BY <1>2, SeqFacts
<1>5. /\ Len(a.bor) \in Nat /\ DOMAIN a.bor = 1..Len(a.bor)
      /\ \A k \in 1..Len(a.bor) : a.bor[k] \in Borrowed
  BY <1>2, SeqFacts
<1> QED
  BY <1>2, <1>3, <1>4, <1>5

LEMMA DataFacts ==
    ASSUME NEW r \in Reserves
    PROVE  /\ Data[r] \in ReserveData
           /\ Data[r].known \in BOOLEAN /\ Data[r].usdc \in BOOLEAN /\ Data[r].user \in BOOLEAN
           /\ Data[r].supply \in Amount /\ Data[r].available \in Amount
           /\ Data[r].borrowed \in Nat
           /\ Data[r].rate \in Nat /\ Data[r].rate > 0
           /\ Data[r].liquidationThreshold \in Nat
           /\ Data[r].decimal \in Nat /\ Data[r].decimal > 0
<1>1. Data[r] \in ReserveData
  BY DataAssumption
<1> QED
  BY <1>1 DEF ReserveData

LEMMA SignedInt == ASSUME NEW a \in Amount PROVE Signed(a) \in Int /\ (a # 0 => Signed(a) # 0)
  BY NumbersAssumption DEF Amount, Signed

LEMMA QuoInt == ASSUME NEW a \in Int, NEW b \in Int, b # 0 PROVE Quo(a, b) \in Int
  BY DEF Quo

LEMMA ProductInt == ASSUME NEW a \in Int, NEW b \in Int PROVE a * b \in Int
  OBVIOUS

LEMMA ProductNotZero ==
    ASSUME NEW a \in Int, NEW b \in Int, a # 0, b # 0 PROVE a * b # 0
  OBVIOUS

LEMMA DepositValueInt ==
    ASSUME NEW d \in Deposited, NEW p \in Nat
    PROVE  marketValueDeposit(d, p) \in Int
<1> DEFINE r == Data[d.reserve]
           empty == r.supply = 0 \/ totalLiquidity(d.reserve) = 0
           liquidity == IF empty THEN 1 ELSE totalLiquidity(d.reserve)
           supply == IF empty THEN 1 ELSE Signed(r.supply)
<1>1. d.reserve \in Reserves /\ d.amount \in Amount
  BY DEF Deposited
<1>2. totalLiquidity(d.reserve) \in Int
  BY <1>1, DataFacts, SignedInt DEF totalLiquidity
<1>3. liquidity \in Int
  BY <1>2
<1>4. supply \in Int /\ supply # 0
  BY <1>1, DataFacts, SignedInt
<1>5. r.decimal \in Nat /\ r.decimal > 0
  BY <1>1, DataFacts
<1>6. Signed(d.amount) \in Int /\ Scale \in Int
  BY <1>1, SignedInt, NumbersAssumption
<1> HIDE DEF liquidity, supply, r
<1>7. Signed(d.amount) * liquidity * p * Scale \in Int
  BY <1>3, <1>6, ProductInt
<1>8. supply * r.decimal \in Int /\ supply * r.decimal # 0
  BY <1>4, <1>5, ProductInt, ProductNotZero
<1>9. Quo(Signed(d.amount) * liquidity * p * Scale, supply * r.decimal) \in Int
  BY <1>7, <1>8, QuoInt
<1> QED
  BY <1>9 DEF marketValueDeposit, liquidity, supply, r

LEMMA BorrowValueInt ==
    ASSUME NEW b \in Borrowed, NEW p \in Nat
    PROVE  marketValueBorrow(b, p) \in Int
<1>1. b.reserve \in Reserves /\ b.amount \in Nat /\ b.rate \in Nat /\ b.rate > 0
  BY DEF Borrowed
<1>2. /\ Data[b.reserve].rate \in Nat /\ Scale \in Nat
      /\ Data[b.reserve].decimal \in Nat /\ Data[b.reserve].decimal > 0
  BY <1>1, DataFacts, NumbersAssumption
<1>3. b.amount * Data[b.reserve].rate \in Int
  BY <1>1, <1>2, ProductInt
<1>4. borrowedAmountWithInterest(b) \in Int
  BY <1>1, <1>2, <1>3 DEF borrowedAmountWithInterest
<1>5. borrowedAmountWithInterest(b) * p * Scale \in Int
  BY <1>2, <1>4, ProductInt
<1> QED
  BY <1>2, <1>5 DEF marketValueBorrow

-------------------------------------------------------------------------------
(* The inductive invariant.                                                 *)

\* The cursor after n entries of an account with d deposits.
Cursor(d, n) ==
    IF n <= d THEN ObligationFixLayoutSize + ObligationCollateralLayoutSize * n
    ELSE ObligationFixLayoutSize + ObligationCollateralLayoutSize * d
           + ObligationLiquidityLayoutSize * (n - d)

\* Every entry before i moved the cursor by its size.
CursorInv ==
    pc = "unpack" =>
        /\ i <= Len(account.dep) + Len(account.bor) + 1
        /\ index = Cursor(Len(account.dep), i - 1)

\* What is selected is of the right kind, and lies before i.
SelectionInv ==
    /\ selectedDeposit \in Candidates \cup {None}
    /\ selectedUSDCBorrow \in UsdcBorrows \cup {None}
    /\ pc = "unpack" => selectedDeposit = None
    /\ pc \in {"unpack", "deposit"} => selectedUSDCBorrow = None
    /\ pc = "deposit" => i <= Len(account.dep) + 1 /\ selectedDeposit < i
    /\ pc = "borrow" => i <= Len(account.bor) + 1 /\ selectedUSDCBorrow < i
    /\ pc # "done" <=> verdict = "none"

\* Of the first n deposits, none is worth more than the one selected by more
\* than n - 1 times the worst drift; and one is selected if any can be.
Loss(n) ==
    \A worst \in Candidates :
        (\A k \in Candidates : Drift(k) <= Drift(worst)) =>
            \A k \in Candidates :
                selectedDeposit # None /\ k <= n =>
                    Fresh(account.dep[k]) - Fresh(account.dep[selectedDeposit])
                        <= (n - 1) * Drift(worst)
Found(n) == \A k \in Candidates : k <= n => selectedDeposit # None

LossInv ==
    /\ pc = "deposit" => Loss(i - 1) /\ Found(i - 1)
    /\ pc = "borrow" \/ verdict = "fire" => Loss(Len(account.dep))

IInv == TypeOK /\ CursorInv /\ ReadsStayInside /\ SelectionInv /\ PanicNeedsTwoUSDC /\ LossInv

\* The entries of the account at hand.
LEMMA EntryFacts ==
    ASSUME TypeOK
    PROVE  /\ Len(account.dep) \in Nat /\ Len(account.bor) \in Nat
           /\ Len(account.dep) + Len(account.bor) <= 10
           /\ Len(account.bor) > 0 => Len(account.dep) > 0
           /\ Candidates \subseteq 1..Len(account.dep)
           /\ UsdcBorrows \subseteq 1..Len(account.bor)
           /\ \A k \in 1..Len(account.dep) :
                 /\ Fresh(account.dep[k]) \in Int /\ account.dep[k].stored \in Int
                 /\ account.dep[k].reserve \in Reserves
           /\ \A k \in 1..Len(account.bor) :
                 FreshBorrow(account.bor[k]) \in Int /\ account.bor[k].reserve \in Reserves
<1>1. account \in Accounts /\ price \in [Reserves -> Nat]
  BY NumbersAssumption DEF TypeOK
<1>2. ASSUME NEW k \in 1..Len(account.dep)
      PROVE  /\ Fresh(account.dep[k]) \in Int /\ account.dep[k].stored \in Int
             /\ account.dep[k].reserve \in Reserves
  <2>1. account.dep[k] \in Deposited
    BY <1>1, <1>2, AccountFacts
  <2>2. account.dep[k].reserve \in Reserves /\ account.dep[k].stored \in Int
    BY <2>1 DEF Deposited
  <2>3. price[account.dep[k].reserve] \in Nat
    BY <1>1, <2>2
  <2> QED
    BY <2>1, <2>2, <2>3, DepositValueInt DEF Fresh
<1>3. ASSUME NEW k \in 1..Len(account.bor)
      PROVE  FreshBorrow(account.bor[k]) \in Int /\ account.bor[k].reserve \in Reserves
  <2>1. account.bor[k] \in Borrowed
    BY <1>1, <1>3, AccountFacts
  <2>2. account.bor[k].reserve \in Reserves
    BY <2>1 DEF Borrowed
  <2>3. price[account.bor[k].reserve] \in Nat
    BY <1>1, <2>2
  <2> QED
    BY <2>1, <2>2, <2>3, BorrowValueInt DEF FreshBorrow
<1> QED
  BY <1>1, <1>2, <1>3, AccountFacts DEF Candidates, UsdcBorrows

LEMMA DriftFacts ==
    ASSUME TypeOK, NEW k \in Candidates
    PROVE  /\ Drift(k) \in Nat
           /\ Fresh(account.dep[k]) - account.dep[k].stored <= Drift(k)
           /\ account.dep[k].stored - Fresh(account.dep[k]) <= Drift(k)
<1> DEFINE f == Fresh(account.dep[k])
           s == account.dep[k].stored
<1>1. f \in Int /\ s \in Int
  BY EntryFacts
<1>2. Drift(k) = IF f - s < 0 THEN -(f - s) ELSE f - s
  BY DEF Drift
<1> QED
  BY <1>1, <1>2

-------------------------------------------------------------------------------
(* The steps.                                                               *)

LEMMA CursorStart ==
    ASSUME NEW d \in Nat
    PROVE  /\ Cursor(d, 0) = ObligationFixLayoutSize
           /\ ObligationFixLayoutSize <= ObligationLayoutSize
  BY DEF Cursor, ObligationFixLayoutSize, ObligationCollateralLayoutSize,
         ObligationLiquidityLayoutSize, ObligationLayoutSize

LEMMA Initially == Init => IInv
<1> SUFFICES ASSUME Init PROVE IInv
  OBVIOUS
<1>1. account \in Accounts
  BY DEF Init
<1>2. Len(account.dep) \in Nat /\ Len(account.bor) \in Nat
  BY <1>1, AccountFacts
<1>3. TypeOK
  BY <1>2 DEF Init, TypeOK, None, ObligationFixLayoutSize
<1>4. CursorInv /\ ReadsStayInside
  <2>1. i = 1 /\ i - 1 = 0 /\ index = ObligationFixLayoutSize
    BY DEF Init
  <2>2. 1 <= Len(account.dep) + Len(account.bor) + 1
    <3> DEFINE d == Len(account.dep)
               b == Len(account.bor)
    <3>1. d \in Nat /\ b \in Nat
      BY <1>2
    <3> HIDE DEF d, b
    <3>2. 1 <= d + b + 1
      BY <3>1
    <3> QED
      BY <3>2 DEF d, b
  <2>3. index = Cursor(Len(account.dep), i - 1) /\ index <= ObligationLayoutSize
    BY <1>2, <2>1, CursorStart
  <2> QED
    BY <2>1, <2>2, <2>3 DEF CursorInv, ReadsStayInside
<1>5. SelectionInv /\ PanicNeedsTwoUSDC /\ LossInv
  BY DEF Init, SelectionInv, PanicNeedsTwoUSDC, LossInv, None
<1> QED
  BY <1>3, <1>4, <1>5 DEF IInv

\* Nothing but UnpackEntry and Unpacked happens while unpacking.
LEMMA CursorStep == IInv /\ [Next]_vars => CursorInv' /\ ReadsStayInside'
<1> SUFFICES ASSUME IInv, [Next]_vars PROVE CursorInv' /\ ReadsStayInside'
  OBVIOUS
<1>0. /\ TypeOK /\ CursorInv /\ ReadsStayInside
      /\ Len(account.dep) \in Nat /\ Len(account.bor) \in Nat
      /\ Len(account.dep) + Len(account.bor) <= 10
      /\ Len(account.bor) > 0 => Len(account.dep) > 0
  BY EntryFacts DEF IInv
<1>1. CASE UnpackEntry
  <2> DEFINE d == Len(account.dep)
             b == Len(account.bor)
  <2>1. /\ account' = account /\ i' = i + 1 /\ index' = index + EntrySize(i)
        /\ pc = "unpack" /\ i <= d + b
    BY <1>1 DEF UnpackEntry
  <2>2. i \in Nat /\ 0 < i
    BY <1>0 DEF TypeOK
  <2>3. index = Cursor(d, i - 1)
    BY <1>0, <2>1 DEF CursorInv
  <2>4. /\ Cursor(d, i) = Cursor(d, i - 1) + (IF i <= d THEN ObligationCollateralLayoutSize
                                               ELSE ObligationLiquidityLayoutSize)
        /\ Cursor(d, i) <= ObligationLayoutSize
        /\ i + 1 <= d + b + 1 /\ (i + 1) - 1 = i
    <3> HIDE DEF d, b
    <3>1. d \in Nat /\ b \in Nat /\ d + b <= 10 /\ (b > 0 => d > 0)
      BY <1>0 DEF d, b
    <3>2. i <= d + b
      BY <2>1
    <3> QED
      BY <2>2, <3>1, <3>2
         DEF Cursor, ObligationFixLayoutSize, ObligationCollateralLayoutSize,
             ObligationLiquidityLayoutSize, ObligationLayoutSize
  <2>5. index' = Cursor(d, i)
    BY <2>1, <2>3, <2>4 DEF EntrySize
  <2>6. d' = d /\ b' = b /\ i' - 1 = i /\ i' <= d + b + 1
    BY <2>1, <2>4
  <2> QED
    BY <2>4, <2>5, <2>6 DEF CursorInv, ReadsStayInside
<1>2. CASE Unpacked
  BY <1>0, <1>2 DEF Unpacked, CursorInv, ReadsStayInside
<1>3. CASE Invalid \/ Deposit \/ RangeBorrows \/ Borrow \/ Decide
  <2>1. pc # "unpack" /\ pc' # "unpack" /\ index' = index
    BY <1>3 DEF Invalid, Deposit, RangeBorrows, Borrow, Decide, Finish
  <2> QED
    BY <1>0, <2>1 DEF CursorInv, ReadsStayInside
<1>4. CASE UNCHANGED vars
  BY <1>0, <1>4 DEF vars, CursorInv, ReadsStayInside
<1> QED
  BY <1>1, <1>2, <1>3, <1>4 DEF Next

\* The bookkeeping of one more deposit.
LEMMA TimesNat == ASSUME NEW n \in Nat, NEW e \in Nat PROVE n * e \in Nat
  OBVIOUS

LEMMA TimesPred ==
    ASSUME NEW n \in Nat, n > 0, NEW e \in Nat
    PROVE  n * e = (n - 1) * e + e /\ (n - 1) * e \in Nat
  OBVIOUS

LEMMA TimesMonotone ==
    ASSUME NEW m \in Int, NEW n \in Int, m <= n, NEW e \in Nat
    PROVE  m * e <= n * e
  OBVIOUS

LEMMA DepositLoss == IInv /\ Deposit => Loss(i - 1)' /\ Found(i - 1)'
<1> SUFFICES ASSUME IInv, Deposit PROVE Loss(i - 1)' /\ Found(i - 1)'
  OBVIOUS
<1> USE DEF IInv
<1> DEFINE d == account.dep[i]
           sel == selectedDeposit
           e(k) == Drift(k)
           f(k) == Fresh(account.dep[k])
<1>0. /\ account' = account /\ price' = price /\ i' = i + 1 /\ i \in 1..Len(account.dep)
      /\ sel' = IF BetterDeposit(d) THEN i ELSE sel
      /\ pc = "deposit"
  BY EntryFacts DEF Deposit, TypeOK
<1>1. /\ Candidates' = Candidates
      /\ \A k : Drift(k)' = Drift(k)
      /\ \A k : Fresh(account.dep[k])' = f(k)
  BY <1>0 DEF Candidates, Drift, Fresh
<1>2. Loss(i - 1) /\ Found(i - 1)
  BY <1>0 DEF LossInv
<1>3. sel \in Candidates \cup {None} /\ sel < i
  BY <1>0 DEF SelectionInv
<1>4. Candidates \subseteq 1..Len(account.dep) /\ \A k \in Candidates : f(k) \in Int
  BY EntryFacts
<1>5. i \in Candidates <=> ~Data[d.reserve].usdc /\ Data[d.reserve].user
  BY <1>0, AccountFacts DEF Candidates, TypeOK
<1>8. (i - 1)' = i
  BY <1>0
<1>6. Found(i - 1)'
  BY <1>8, <1>0, <1>1, <1>2, <1>3, <1>4, <1>5 DEF Found, BetterDeposit, None
<1>7. ASSUME NEW worst \in Candidates, \A k \in Candidates : Drift(k) <= Drift(worst),
             NEW k \in Candidates, sel' # None, k <= i
      PROVE  f(k) - f(sel') <= (i - 1) * Drift(worst)
  <2>0. Drift(worst) \in Nat /\ i - 1 \in Nat /\ (i - 1) * Drift(worst) \in Nat
    BY <1>0, DriftFacts, TimesNat
  <2>1. CASE sel' = sel
    <3>1. sel \in Candidates /\ i >= 2
      BY <1>0, <1>3, <1>4, <1>7, <2>1 DEF None
    <3>2. (i - 1) * Drift(worst) = (i - 1 - 1) * Drift(worst) + Drift(worst)
          /\ (i - 1 - 1) * Drift(worst) \in Nat
      <4>1. i - 1 > 0
        BY <1>0, <3>1
      <4> QED
        BY <2>0, <4>1, TimesPred
    <3>3. CASE k <= i - 1
      <4>1. f(k) - f(sel) <= (i - 1 - 1) * Drift(worst)
        BY <1>2, <1>7, <2>1, <3>3 DEF Loss
      <4> QED
        BY <1>4, <2>0, <2>1, <3>1, <3>2, <4>1
    <3>4. CASE k = i
      <4>1. ~BetterDeposit(d)
        BY <1>0, <1>3, <1>4, <2>1 DEF None
      <4>2. f(i) <= account.dep[sel].stored
        <5>1. ~(f(i) > account.dep[sel].stored)
          BY <1>5, <3>1, <3>4, <4>1 DEF BetterDeposit
        <5>2. account.dep[sel].stored \in Int /\ f(i) \in Int
          BY <1>0, <1>4, <3>1, EntryFacts
        <5> QED
          BY <5>1, <5>2
      <4>3. account.dep[sel].stored - f(sel) <= Drift(sel) /\ Drift(sel) \in Nat
        BY <3>1, DriftFacts
      <4>4. Drift(sel) <= Drift(worst)
        BY <1>7, <3>1
      <4>5. account.dep[sel].stored \in Int /\ f(i) \in Int /\ f(sel) \in Int
        BY <1>0, <1>4, <3>1, EntryFacts
      <4> HIDE DEF f
      <4> QED
        BY <2>0, <2>1, <3>2, <3>4, <4>2, <4>3, <4>4, <4>5
    <3> QED
      BY <1>0, <1>4, <1>7, <3>3, <3>4
  <2>2. CASE sel' # sel /\ sel = None
    <3>1. sel' = i /\ k = i
      BY <1>0, <1>2, <1>4, <1>7, <2>2 DEF Found
    <3> QED
      BY <1>4, <1>7, <2>0, <3>1
  <2>3. CASE sel' # sel /\ sel # None
    <3>1. sel' = i /\ sel \in Candidates /\ BetterDeposit(d) /\ i >= 2
      BY <1>0, <1>3, <1>4, <2>3
    <3>2. (i - 1) * Drift(worst) = (i - 1 - 1) * Drift(worst) + Drift(worst)
          /\ (i - 1 - 1) * Drift(worst) \in Nat
      <4>1. i - 1 > 0
        BY <1>0, <3>1
      <4> QED
        BY <2>0, <4>1, TimesPred
    <3>3. i \in Candidates /\ f(i) > account.dep[sel].stored
      BY <1>5, <2>3, <3>1 DEF BetterDeposit
    <3>4. /\ f(sel) - account.dep[sel].stored <= Drift(sel) /\ Drift(sel) \in Nat
          /\ Drift(sel) <= Drift(worst) /\ account.dep[sel].stored \in Int
      BY <1>4, <1>7, <3>1, DriftFacts, EntryFacts
    <3>5. f(i) \in Int /\ f(sel) \in Int /\ f(k) \in Int
      BY <1>4, <3>1, <3>3
    <3>6. CASE k <= i - 1
      <4>1. f(k) - f(sel) <= (i - 1 - 1) * Drift(worst)
        BY <1>2, <1>7, <2>3, <3>6 DEF Loss
      <4> HIDE DEF f
      <4> QED
        BY <2>0, <3>1, <3>2, <3>3, <3>4, <3>5, <4>1
    <3>7. CASE k = i
      BY <2>0, <3>1, <3>5, <3>7
    <3> QED
      BY <1>0, <1>4, <1>7, <3>6, <3>7
  <2> QED
    BY <2>1, <2>2, <2>3
<1>9. Loss(i - 1)'
  BY <1>0, <1>1, <1>7, <1>8 DEF Loss
<1> QED
  BY <1>6, <1>9

\* Every action assigns values of the right kind.
LEMMA TypeStep == IInv /\ [Next]_vars => TypeOK'
<1> SUFFICES ASSUME IInv, [Next]_vars PROVE TypeOK'
  OBVIOUS
<1>0. TypeOK
  BY DEF IInv
<1>1. CASE UnpackEntry
  <2>1. EntrySize(i) \in Nat
    BY DEF EntrySize, ObligationCollateralLayoutSize, ObligationLiquidityLayoutSize
  <2> QED
    BY <1>0, <1>1, <2>1 DEF TypeOK, UnpackEntry, Finish, values, selected
<1>2. CASE Unpacked
  BY <1>0, <1>2 DEF TypeOK, Unpacked, values, selected
<1>3. CASE Invalid
  BY <1>0, <1>3 DEF TypeOK, Invalid, Finish, values, selected
<1>4. CASE Deposit
  <2>1. i \in 1..Len(account.dep)
    BY <1>0, <1>4, EntryFacts DEF TypeOK, Deposit
  <2> DEFINE d == account.dep[i]
  <2>2. Fresh(d) \in Int /\ Data[d.reserve].liquidationThreshold \in Int
    BY <1>0, <2>1, EntryFacts, DataFacts
  <2>3. Fresh(d) * Data[d.reserve].liquidationThreshold \in Int
    BY <2>2, ProductInt
  <2>4. depositValue' \in Int /\ unhealthyBorrowValue' \in Int
    <3> DEFINE w == Fresh(d) * Data[d.reserve].liquidationThreshold
    <3>1. /\ depositValue' = depositValue + Fresh(d)
          /\ unhealthyBorrowValue' = unhealthyBorrowValue + w
      BY <1>4 DEF Deposit
    <3> HIDE DEF w
    <3>2. w \in Int
      BY <2>3 DEF w
    <3>3. depositValue \in Int /\ unhealthyBorrowValue \in Int
      BY <1>0 DEF TypeOK
    <3> QED
      BY <2>2, <3>1, <3>2, <3>3
  <2>5. selectedDeposit' \in 0..Len(account.dep)
    BY <1>0, <1>4, <2>1, EntryFacts DEF TypeOK, Deposit
  <2> QED
    BY <1>0, <1>4, <2>4, <2>5 DEF TypeOK, Deposit
<1>5. CASE RangeBorrows
  BY <1>0, <1>5 DEF TypeOK, RangeBorrows, values, selected
<1>6. CASE Borrow
  <2>1. i \in 1..Len(account.bor)
    BY <1>0, <1>6, EntryFacts DEF TypeOK, Borrow
  <2>2. FreshBorrow(account.bor[i]) \in Int
    BY <1>0, <2>1, EntryFacts
  <2>3. borrowValue' \in Int
    BY <1>0, <1>6, <2>2 DEF TypeOK, Borrow
  <2>4. selectedUSDCBorrow' \in 0..Len(account.bor)
    BY <1>0, <1>6, <2>1, EntryFacts DEF TypeOK, Borrow, selected
  <2> QED
    BY <1>0, <1>6, <2>3, <2>4 DEF TypeOK, Borrow, Finish, selected
<1>7. CASE Decide
  <2>1. Verdict \in {"invalid", "healthy", "watch", "stuck", "fire"}
    BY DEF Verdict
  <2> QED
    BY <1>0, <1>7, <2>1 DEF TypeOK, Decide, Finish, values, selected
<1>8. CASE UNCHANGED vars
  BY <1>0, <1>8 DEF TypeOK, vars, values, selected
<1> QED
  BY <1>1, <1>2, <1>3, <1>4, <1>5, <1>6, <1>7, <1>8 DEF Next

\* A selection lies behind the cursor, and comes from the loop that is over
\* or under way.
LEMMA SelectionStep == IInv /\ [Next]_vars => SelectionInv'
<1> SUFFICES ASSUME IInv, [Next]_vars PROVE SelectionInv'
  OBVIOUS
<1>0. TypeOK /\ SelectionInv /\ i \in Nat /\ i > 0
  BY DEF IInv, TypeOK
<1>1. account' = account
  BY DEF Next, UnpackEntry, Unpacked, Invalid, Deposit, RangeBorrows, Borrow, Decide, vars
<1>2. Candidates' = Candidates /\ UsdcBorrows' = UsdcBorrows
  BY <1>1 DEF Candidates, UsdcBorrows
<1>3. /\ Len(account.dep) \in Nat /\ Len(account.bor) \in Nat
      /\ Candidates \subseteq 1..Len(account.dep) /\ UsdcBorrows \subseteq 1..Len(account.bor)
  BY <1>0, EntryFacts
<1>4. CASE UnpackEntry
  BY <1>0, <1>1, <1>2, <1>4 DEF SelectionInv, UnpackEntry, Finish, selected
<1>5. CASE Unpacked
  BY <1>0, <1>1, <1>2, <1>3, <1>5 DEF SelectionInv, Unpacked, selected, None
<1>6. CASE Invalid
  BY <1>0, <1>1, <1>2, <1>6 DEF SelectionInv, Invalid, Finish, selected
<1>7. CASE Deposit
  <2>1. i \in 1..Len(account.dep) /\ BetterDeposit(account.dep[i]) => i \in Candidates
    BY <1>0, <1>3, AccountFacts DEF BetterDeposit, Candidates, TypeOK
  <2>2. i \in 1..Len(account.dep) /\ i' = i + 1
    BY <1>0, <1>3, <1>7 DEF Deposit
  <2>3. /\ selectedDeposit' \in Candidates \cup {None} /\ selectedDeposit' < i'
        /\ i' <= Len(account.dep) + 1
    BY <1>0, <1>3, <1>7, <2>1, <2>2 DEF SelectionInv, Deposit, None
  <2> QED
    BY <1>0, <1>1, <1>2, <1>7, <2>3 DEF SelectionInv, Deposit
<1>8. CASE RangeBorrows
  BY <1>0, <1>1, <1>2, <1>3, <1>8 DEF SelectionInv, RangeBorrows, selected, None
<1>9. CASE Borrow
  <2>1. i \in 1..Len(account.bor) /\ BetterBorrow(account.bor[i]) => i \in UsdcBorrows
    BY <1>0, <1>3, AccountFacts DEF BetterBorrow, UsdcBorrows, TypeOK
  <2>2. i \in 1..Len(account.bor) /\ i' = i + 1
    BY <1>0, <1>3, <1>9 DEF Borrow
  <2>3. /\ selectedUSDCBorrow' \in UsdcBorrows \cup {None} /\ selectedUSDCBorrow' < i'
        /\ i' <= Len(account.bor) + 1 /\ selectedDeposit' = selectedDeposit
    BY <1>0, <1>3, <1>9, <2>1, <2>2 DEF SelectionInv, Borrow, None, selected
  <2>4. /\ pc = "borrow"
        /\ (pc' = "borrow" /\ verdict' = verdict) \/ (pc' = "done" /\ verdict' = "panic")
    BY <1>9 DEF Borrow, Finish
  <2> QED
    BY <1>0, <1>1, <1>2, <2>3, <2>4 DEF SelectionInv
<1>10. CASE Decide
  <2>1. Verdict # "none"
    BY DEF Verdict
  <2> QED
    BY <1>0, <1>1, <1>2, <1>10, <2>1 DEF SelectionInv, Decide, Finish, selected
<1>11. CASE UNCHANGED vars
  BY <1>0, <1>2, <1>11 DEF SelectionInv, vars, selected
<1> QED
  BY <1>4, <1>5, <1>6, <1>7, <1>8, <1>9, <1>10, <1>11 DEF Next

\* The unpacking cannot panic, so a panic is the index of an earlier USDC
\* borrow that no deposit has.
LEMMA PanicStep == IInv /\ [Next]_vars => PanicNeedsTwoUSDC'
<1> SUFFICES ASSUME IInv, [Next]_vars PROVE PanicNeedsTwoUSDC'
  OBVIOUS
<1>0. TypeOK /\ SelectionInv /\ PanicNeedsTwoUSDC
  BY DEF IInv
<1>1. account' = account
  BY DEF Next, UnpackEntry, Unpacked, Invalid, Deposit, RangeBorrows, Borrow, Decide, vars
<1>2. UsdcBorrows' = UsdcBorrows
  BY <1>1 DEF UsdcBorrows
<1>3. CASE UnpackEntry
  <2>1. index' <= ObligationLayoutSize
    BY CursorStep DEF ReadsStayInside
  <2>2. index' \in Nat
    BY TypeStep DEF TypeOK
  <2>3. ~(index' > ObligationLayoutSize)
    BY <2>1, <2>2 DEF ObligationLayoutSize, ObligationFixLayoutSize,
                      ObligationCollateralLayoutSize, ObligationLiquidityLayoutSize
  <2>4. verdict' = verdict
    BY <1>3, <2>3 DEF UnpackEntry
  <2> QED
    BY <1>0, <1>1, <1>2, <2>4 DEF PanicNeedsTwoUSDC
<1>4. CASE Borrow
  <2>1. i \in 1..Len(account.bor)
    BY <1>0, <1>4, EntryFacts DEF TypeOK, Borrow
  <2>2. CASE OutOfRange(account.bor[i])
    <3>1. /\ Data[account.bor[i].reserve].usdc /\ selectedUSDCBorrow # None
          /\ selectedUSDCBorrow > Len(account.dep)
      BY <2>2 DEF OutOfRange, Compares
    <3>2. i \in UsdcBorrows
      BY <1>0, <2>1, <3>1, AccountFacts DEF UsdcBorrows, TypeOK
    <3>3. selectedUSDCBorrow \in UsdcBorrows /\ selectedUSDCBorrow < i
      BY <1>0, <1>4, <3>1 DEF SelectionInv, Borrow
    <3> QED
      BY <1>1, <1>2, <3>1, <3>2, <3>3 DEF PanicNeedsTwoUSDC
  <2>3. CASE ~OutOfRange(account.bor[i])
    <3>1. verdict' = verdict
      BY <1>4, <2>3 DEF Borrow
    <3> QED
      BY <1>0, <1>1, <1>2, <3>1 DEF PanicNeedsTwoUSDC
  <2> QED
    BY <2>2, <2>3
<1>5. CASE Unpacked \/ Invalid \/ Deposit \/ RangeBorrows \/ Decide \/ UNCHANGED vars
  <2>1. verdict' = verdict \/ verdict' # "panic"
    BY <1>5 DEF Unpacked, Invalid, Deposit, RangeBorrows, Decide, Finish, Verdict, vars
  <2> QED
    BY <1>0, <1>1, <1>2, <2>1 DEF PanicNeedsTwoUSDC
<1> QED
  BY <1>3, <1>4, <1>5 DEF Next

\* Only Deposit changes what is selected for withdrawal.
LEMMA LossStep == IInv /\ [Next]_vars => LossInv'
<1> SUFFICES ASSUME IInv, [Next]_vars PROVE LossInv'
  OBVIOUS
<1>0. TypeOK /\ LossInv /\ SelectionInv /\ i \in Nat /\ i > 0
  BY DEF IInv, TypeOK
<1>1. account' = account /\ price' = price
  BY DEF Next, UnpackEntry, Unpacked, Invalid, Deposit, RangeBorrows, Borrow, Decide, vars
<1>2. /\ Candidates' = Candidates
      /\ \A k : Drift(k)' = Drift(k)
      /\ \A k : Fresh(account.dep[k])' = Fresh(account.dep[k])
  BY <1>1 DEF Candidates, Drift, Fresh
<1>3. Len(account.dep) \in Nat /\ Candidates \subseteq 1..Len(account.dep)
  BY <1>0, EntryFacts
<1>4. CASE UnpackEntry
  <2>1. pc' \in {"unpack", "done"} /\ verdict' # "fire"
    BY <1>0, <1>4 DEF UnpackEntry, Finish, SelectionInv
  <2> QED
    BY <2>1 DEF LossInv
<1>5. CASE Unpacked
  <2>1. (i - 1)' = 0 /\ pc' = "deposit" /\ verdict' # "fire"
    BY <1>0, <1>5 DEF Unpacked, SelectionInv
  <2>2. \A k \in Candidates' : ~(k <= 0)
    BY <1>2, <1>3
  <2> QED
    BY <2>1, <2>2 DEF LossInv, Loss, Found
<1>6. CASE Invalid
  <2>1. pc' = "done" /\ verdict' # "fire"
    BY <1>6 DEF Invalid, Finish
  <2> QED
    BY <2>1 DEF LossInv
<1>7. CASE Deposit
  <2>1. pc' = "deposit" /\ verdict' # "fire"
    BY <1>0, <1>7 DEF Deposit, SelectionInv
  <2>2. Loss(i - 1)' /\ Found(i - 1)'
    BY <1>7, DepositLoss
  <2> QED
    BY <2>1, <2>2 DEF LossInv
<1>8. CASE RangeBorrows
  <2>1. /\ i - 1 = Len(account.dep) /\ pc = "deposit"
        /\ pc' = "borrow" /\ selectedDeposit' = selectedDeposit
    BY <1>0, <1>3, <1>8 DEF RangeBorrows, SelectionInv, selected
  <2>2. Loss(Len(account.dep))
    BY <1>0, <2>1 DEF LossInv
  <2>3. Loss(Len(account.dep))'
    BY <1>1, <1>2, <2>1, <2>2 DEF Loss
  <2> QED
    BY <2>1, <2>3 DEF LossInv
<1>9. CASE Borrow \/ Decide
  <2>1. pc = "borrow" /\ pc' # "deposit" /\ selectedDeposit' = selectedDeposit
    BY <1>9 DEF Borrow, Decide, Finish, selected
  <2>2. Loss(Len(account.dep))
    BY <1>0, <2>1 DEF LossInv
  <2>3. Loss(Len(account.dep))'
    BY <1>1, <1>2, <2>1, <2>2 DEF Loss
  <2> QED
    BY <2>1, <2>3 DEF LossInv
<1>10. CASE UNCHANGED vars
  <2>1. UNCHANGED <<pc, i, verdict, selectedDeposit>>
    BY <1>10 DEF vars, selected
  <2>2. (i - 1)' = i - 1 /\ Len(account.dep)' = Len(account.dep)
    BY <1>1, <2>1
  <2> QED
    BY <1>0, <1>2, <2>1, <2>2 DEF LossInv, Loss, Found
<1> QED
  BY <1>4, <1>5, <1>6, <1>7, <1>8, <1>9, <1>10 DEF Next

THEOREM Invariance == Spec => []IInv
<1>1. Init => IInv
  BY Initially
<1>2. IInv /\ [Next]_vars => IInv'
  BY TypeStep, CursorStep, SelectionStep, PanicStep, LossStep DEF IInv
<1> QED
  BY <1>1, <1>2, PTL DEF Spec

-------------------------------------------------------------------------------
(* What follows.                                                           *)

\* Totals are integers, and a selection is an entry of its list.
THEOREM TypeCorrect == Spec => []TypeOK
<1>1. IInv => TypeOK
  BY DEF IInv
<1> QED
  BY <1>1, Invariance, PTL

\* Unpacking an account that the chain can hold stays inside its data.
THEOREM ReadsInside == Spec => []ReadsStayInside
<1>1. IInv => ReadsStayInside
  BY DEF IInv
<1> QED
  BY <1>1, Invariance, PTL

\* The USDC loop indexes the deposits out of range only with two USDC borrows.
THEOREM PanicIsTwoUSDC == Spec => []PanicNeedsTwoUSDC
<1>1. IInv => PanicNeedsTwoUSDC
  BY DEF IInv
<1> QED
  BY <1>1, Invariance, PTL

\* What the comparison with stored values can lose, for any values.
THEOREM SelectionLoss == Spec => []SelectionLossBounded
<1>1. IInv => SelectionLossBounded
  <2> SUFFICES ASSUME IInv,
                      NEW worst \in Candidates,
                      \A k \in Candidates : Drift(k) <= Drift(worst),
                      NEW k \in Candidates,
                      selectedDeposit # None, Valued(k)
               PROVE  Fresh(account.dep[k]) - Fresh(account.dep[selectedDeposit])
                        <= (Len(account.dep) - 1) * Drift(worst)
    BY DEF SelectionLossBounded
  <2> DEFINE f(n) == Fresh(account.dep[n])
             len == Len(account.dep)
  <2>0. /\ TypeOK /\ SelectionInv /\ LossInv /\ i \in Nat /\ i > 0
        /\ len \in Nat /\ Candidates \subseteq 1..len
    <3>1. TypeOK /\ SelectionInv /\ LossInv
      BY DEF IInv
    <3>2. i \in Nat /\ i > 0
      BY <3>1 DEF TypeOK
    <3>3. len \in Nat /\ Candidates \subseteq 1..len
      BY <3>1, EntryFacts
    <3> QED
      BY <3>1, <3>2, <3>3
  <2>1. CASE pc = "borrow" \/ verdict = "fire"
    BY <2>0, <2>1 DEF LossInv, Loss
  <2>2. CASE pc = "deposit" /\ k < i
    <3>1. f(k) - f(selectedDeposit) <= (i - 1 - 1) * Drift(worst)
      BY <2>0, <2>2 DEF LossInv, Loss
    <3>2. Drift(worst) \in Nat /\ f(k) \in Int /\ selectedDeposit \in Candidates
      BY <2>0, <2>2, DriftFacts, EntryFacts DEF SelectionInv
    <3>3. f(selectedDeposit) \in Int
      BY <2>0, <3>2, EntryFacts
    <3>4. i - 1 - 1 \in Int /\ len - 1 \in Int /\ i - 1 - 1 <= len - 1
      BY <2>0, <2>2 DEF SelectionInv
    <3>5. (i - 1 - 1) * Drift(worst) <= (len - 1) * Drift(worst)
      BY <3>2, <3>4, TimesMonotone
    <3>6. (i - 1 - 1) * Drift(worst) \in Int /\ (len - 1) * Drift(worst) \in Int
      BY <3>2, <3>4, ProductInt
    <3> HIDE DEF f, len
    <3> QED
      BY <3>1, <3>2, <3>3, <3>5, <3>6 DEF f, len
  <2> QED
    BY <2>1, <2>2 DEF Valued
<1> QED
  BY <1>1, Invariance, PTL

-------------------------------------------------------------------------------
(* Sums.                                                                   *)

\* Numbers have a least one.
LEMMA LeastNumber ==
    ASSUME NEW T, T \subseteq Nat, T # {}
    PROVE  \E m \in T : \A n \in T : m <= n
<1> DEFINE below == {q \in Nat \X Nat : q[1] < q[2]}
<1>1. IsWellFoundedOn(below, Nat)
  BY NatLessThanWellFounded DEF OpToRel
<1>2. PICK m \in T : \A n \in T : <<n, m>> \notin below
  BY <1>1, WFMin
<1>3. ASSUME NEW n \in T PROVE m <= n
  <2>1. <<n, m>> \notin below /\ m \in Nat /\ n \in Nat
    BY <1>2
  <2>2. ~(n < m)
    BY <2>1
  <2> QED
    BY <2>1, <2>2
<1> QED
  BY <1>3

\* g holds the sums of the first entries of x, up to n of them.
SumsUpTo(g, x, n) == g = [m \in 0..n |-> IF m = 0 THEN 0 ELSE g[m - 1] + x[m]]

\* There are such sums: else there would be a least n that has none, and the
\* sums up to n - 1 could be continued.
LEMMA SumsExist ==
    ASSUME NEW x, NEW n \in Nat
    PROVE  \E g : SumsUpTo(g, x, n)
<1> DEFINE bad == {m \in Nat : ~ \E g : SumsUpTo(g, x, m)}
<1> SUFFICES ASSUME bad # {} PROVE FALSE
  OBVIOUS
<1>1. PICK m \in bad : \A k \in bad : m <= k
  BY LeastNumber
<1>2. CASE m = 0
  <2>1. SumsUpTo([k \in 0..0 |-> 0], x, 0)
    BY DEF SumsUpTo
  <2> QED
    BY <1>2, <2>1
<1>3. CASE m # 0
  <2>1. m - 1 \in Nat /\ ~(m <= m - 1) /\ m \in Nat
    BY <1>3
  <2>2. PICK g : SumsUpTo(g, x, m - 1)
    BY <1>1, <2>1
  <2> DEFINE h == [k \in 0..m |-> IF k = m THEN g[m - 1] + x[m] ELSE g[k]]
  <2>3. ASSUME NEW k \in 0..m
        PROVE  h[k] = IF k = 0 THEN 0 ELSE h[k - 1] + x[k]
    <3>1. \A j \in 0..(m - 1) : g[j] = IF j = 0 THEN 0 ELSE g[j - 1] + x[j]
      BY <2>2 DEF SumsUpTo
    <3>2. CASE k = m
      BY <2>1, <3>2
    <3>3. CASE k # m
      <4>1. k \in 0..(m - 1) /\ (k # 0 => k - 1 \in 0..m /\ k - 1 # m)
        BY <2>1, <3>3
      <4> QED
        BY <3>1, <3>3, <4>1
    <3> QED
      BY <3>2, <3>3
  <2>4. SumsUpTo(h, x, m)
    BY <2>3 DEF SumsUpTo
  <2> QED
    BY <2>4
<1> QED
  BY <1>2, <1>3

\* What Sums computes: each sum is the one before it and the next entry.
LEMMA SumsFacts ==
    ASSUME NEW x, Len(x) \in Nat
    PROVE  /\ Sums(x)[0] = 0
           /\ \A n \in 1..Len(x) : Sums(x)[n] = Sums(x)[n - 1] + x[n]
<1>1. Sums(x) = CHOOSE g : SumsUpTo(g, x, Len(x))
  BY DEF Sums, SumsUpTo
<1>2. SumsUpTo(Sums(x), x, Len(x))
  BY <1>1, SumsExist
<1>3. \A n \in 0..Len(x) : Sums(x)[n] = IF n = 0 THEN 0 ELSE Sums(x)[n - 1] + x[n]
  <2> DEFINE s == Sums(x)
  <2>1. s = [m \in 0..Len(x) |-> IF m = 0 THEN 0 ELSE s[m - 1] + x[m]]
    BY <1>2 DEF SumsUpTo
  <2> HIDE DEF s
  <2>2. \A n \in 0..Len(x) : s[n] = IF n = 0 THEN 0 ELSE s[n - 1] + x[n]
    BY <2>1
  <2> QED
    BY <2>2 DEF s
<1> QED
  BY <1>3

-------------------------------------------------------------------------------
(* What an evaluation has added up, and what it makes of that.             *)

FreshDeposits == [k \in DOMAIN account.dep |-> Fresh(account.dep[k])]
FreshLimits ==
    [k \in DOMAIN account.dep |->
        Fresh(account.dep[k]) * Data[account.dep[k].reserve].liquidationThreshold]

\* The totals are the sums of the entries before i.
SumsInv ==
    /\ pc \in {"unpack", "deposit"} => borrowValue = 0
    /\ pc = "unpack" => depositValue = 0 /\ unhealthyBorrowValue = 0
    /\ pc = "deposit" => /\ depositValue = Sums(FreshDeposits)[i - 1]
                         /\ unhealthyBorrowValue = Sums(FreshLimits)[i - 1]
    /\ pc = "borrow" => /\ depositValue = Total(FreshDeposits)
                        /\ unhealthyBorrowValue = Total(FreshLimits)
                        /\ borrowValue = Sums(FreshBorrows)[i - 1]

\* A USDC borrow is selected if there is one before i.
FoundBorrow(n) == \A k \in UsdcBorrows : k <= n => selectedUSDCBorrow # None
FoundInv == pc = "borrow" => Found(Len(account.dep)) /\ FoundBorrow(i - 1)

\* Every entry was valued and offered for selection, and the verdict is what
\* the code says of the totals.
Judged ==
    /\ depositValue = Total(FreshDeposits)
    /\ unhealthyBorrowValue = Total(FreshLimits)
    /\ borrowValue = Total(FreshBorrows)
    /\ Found(Len(account.dep)) /\ FoundBorrow(Len(account.bor))
    /\ verdict = Verdict
AllKnown ==
    /\ \A k \in DOMAIN account.dep : Data[account.dep[k].reserve].known
    /\ \A k \in DOMAIN account.bor : Data[account.bor[k].reserve].known
VerdictInv ==
    pc = "done" => verdict = "panic" \/ (verdict = "invalid" /\ ~AllKnown) \/ Judged

JudgedInv == SumsInv /\ FoundInv /\ VerdictInv

LEMMA ListLength ==
    ASSUME NEW n \in Nat, NEW f \in [1..n -> Int]
    PROVE  Len(f) = n
<1>1. f \in Seq(Int)
  OBVIOUS
<1>2. DOMAIN f = 1..n /\ DOMAIN f = 1..Len(f) /\ Len(f) \in Nat
  BY <1>1, SeqFacts
<1> QED
  BY <1>2

\* The lists that are added up.
LEMMA ListFacts ==
    ASSUME TypeOK
    PROVE  /\ Len(FreshDeposits) = Len(account.dep)
           /\ Len(FreshLimits) = Len(account.dep)
           /\ Len(FreshBorrows) = Len(account.bor)
           /\ \A k \in 1..Len(account.dep) :
                 /\ FreshDeposits[k] = Fresh(account.dep[k])
                 /\ FreshLimits[k] = Fresh(account.dep[k])
                                        * Data[account.dep[k].reserve].liquidationThreshold
           /\ \A k \in 1..Len(account.bor) : FreshBorrows[k] = FreshBorrow(account.bor[k])
<1>1. /\ DOMAIN account.dep = 1..Len(account.dep) /\ DOMAIN account.bor = 1..Len(account.bor)
      /\ Len(account.dep) \in Nat /\ Len(account.bor) \in Nat
  BY AccountFacts DEF TypeOK
<1>2. ASSUME NEW k \in 1..Len(account.dep)
      PROVE  /\ Fresh(account.dep[k]) \in Int
             /\ Fresh(account.dep[k]) * Data[account.dep[k].reserve].liquidationThreshold \in Int
  <2>1. /\ Fresh(account.dep[k]) \in Int
        /\ Data[account.dep[k].reserve].liquidationThreshold \in Int
    BY <1>2, EntryFacts, DataFacts
  <2> QED
    BY <2>1, ProductInt
<1>3. \A k \in 1..Len(account.bor) : FreshBorrow(account.bor[k]) \in Int
  BY EntryFacts
<1>4. Len(FreshDeposits) = Len(account.dep)
  BY <1>1, <1>2, ListLength DEF FreshDeposits
<1>5. Len(FreshLimits) = Len(account.dep)
  BY <1>1, <1>2, ListLength DEF FreshLimits
<1>6. Len(FreshBorrows) = Len(account.bor)
  BY <1>1, <1>3, ListLength DEF FreshBorrows
<1> QED
  BY <1>1, <1>4, <1>5, <1>6 DEF FreshDeposits, FreshLimits, FreshBorrows

\* No step changes what is added up.
LEMMA ListsStay ==
    ASSUME [Next]_vars
    PROVE  /\ account' = account /\ price' = price
           /\ FreshDeposits' = FreshDeposits /\ FreshLimits' = FreshLimits
           /\ FreshBorrows' = FreshBorrows
           /\ AllKnown' = AllKnown
           /\ Candidates' = Candidates /\ UsdcBorrows' = UsdcBorrows
<1>1. account' = account /\ price' = price
  BY DEF Next, UnpackEntry, Unpacked, Invalid, Deposit, RangeBorrows, Borrow, Decide, vars
<1> QED
  BY <1>1 DEF FreshDeposits, FreshLimits, FreshBorrows, Fresh, FreshBorrow, AllKnown,
     Candidates, UsdcBorrows

\* Nothing is added up before the account is unpacked.
LEMMA JudgedStart == Init => JudgedInv
  BY DEF Init, JudgedInv, SumsInv, FoundInv, VerdictInv

\* One more entry is added to the sum of those before it.
LEMMA OneMore ==
    ASSUME TypeOK
    PROVE  /\ Sums(FreshDeposits)[0] = 0 /\ Sums(FreshLimits)[0] = 0 /\ Sums(FreshBorrows)[0] = 0
           /\ \A k \in 1..Len(account.dep) :
                 /\ Sums(FreshDeposits)[k] = Sums(FreshDeposits)[k - 1] + Fresh(account.dep[k])
                 /\ Sums(FreshLimits)[k] =
                       Sums(FreshLimits)[k - 1]
                         + Fresh(account.dep[k]) * Data[account.dep[k].reserve].liquidationThreshold
           /\ \A k \in 1..Len(account.bor) :
                 Sums(FreshBorrows)[k] = Sums(FreshBorrows)[k - 1] + FreshBorrow(account.bor[k])
           /\ Total(FreshDeposits) = Sums(FreshDeposits)[Len(account.dep)]
           /\ Total(FreshLimits) = Sums(FreshLimits)[Len(account.dep)]
           /\ Total(FreshBorrows) = Sums(FreshBorrows)[Len(account.bor)]
<1>1. Len(account.dep) \in Nat /\ Len(account.bor) \in Nat
  BY EntryFacts
<1>2. ASSUME NEW x, NEW n \in Nat, Len(x) = n
      PROVE  /\ Sums(x)[0] = 0 /\ Total(x) = Sums(x)[n]
             /\ \A k \in 1..n : Sums(x)[k] = Sums(x)[k - 1] + x[k]
  <2>1. Len(x) \in Nat
    BY <1>2
  <2>2. Sums(x)[0] = 0 /\ \A k \in 1..Len(x) : Sums(x)[k] = Sums(x)[k - 1] + x[k]
    BY <2>1, SumsFacts
  <2> QED
    BY <1>2, <2>2 DEF Total
<1>3. /\ Len(FreshDeposits) = Len(account.dep)
      /\ Len(FreshLimits) = Len(account.dep)
      /\ Len(FreshBorrows) = Len(account.bor)
  BY ListFacts
<1>4. /\ Sums(FreshDeposits)[0] = 0
      /\ Total(FreshDeposits) = Sums(FreshDeposits)[Len(account.dep)]
      /\ \A k \in 1..Len(account.dep) :
            Sums(FreshDeposits)[k] = Sums(FreshDeposits)[k - 1] + FreshDeposits[k]
  BY <1>1, <1>2, <1>3
<1>5. /\ Sums(FreshLimits)[0] = 0
      /\ Total(FreshLimits) = Sums(FreshLimits)[Len(account.dep)]
      /\ \A k \in 1..Len(account.dep) :
            Sums(FreshLimits)[k] = Sums(FreshLimits)[k - 1] + FreshLimits[k]
  BY <1>1, <1>2, <1>3
<1>6. /\ Sums(FreshBorrows)[0] = 0
      /\ Total(FreshBorrows) = Sums(FreshBorrows)[Len(account.bor)]
      /\ \A k \in 1..Len(account.bor) :
            Sums(FreshBorrows)[k] = Sums(FreshBorrows)[k - 1] + FreshBorrows[k]
  BY <1>1, <1>2, <1>3
<1> QED
  BY <1>4, <1>5, <1>6, ListFacts

\* The sums of lists that no step changes.
LEMMA SumsStay ==
    ASSUME [Next]_vars
    PROVE  /\ Sums(FreshDeposits)' = Sums(FreshDeposits)
           /\ Sums(FreshLimits)' = Sums(FreshLimits)
           /\ Sums(FreshBorrows)' = Sums(FreshBorrows)
           /\ Total(FreshDeposits)' = Total(FreshDeposits)
           /\ Total(FreshLimits)' = Total(FreshLimits)
           /\ Total(FreshBorrows)' = Total(FreshBorrows)
<1>1. /\ Sums(FreshDeposits)' = Sums(FreshDeposits)
      /\ Sums(FreshLimits)' = Sums(FreshLimits)
      /\ Sums(FreshBorrows)' = Sums(FreshBorrows)
  BY ListsStay DEF Sums
<1> QED
  BY <1>1, ListsStay DEF Total

\* What was found stays found.
LEMMA FoundStays ==
    ASSUME [Next]_vars, selected' = selected
    PROVE  /\ Found(Len(account.dep)) => Found(Len(account.dep))'
           /\ \A n : FoundBorrow(n) => FoundBorrow(n)'
  BY ListsStay DEF Found, FoundBorrow, selected

\* A borrow is valued and, when it is in USDC and none is selected, selected.
LEMMA BorrowJudged ==
    ASSUME IInv, JudgedInv, Borrow
    PROVE  JudgedInv'
<1>0. TypeOK /\ SumsInv /\ FoundInv /\ SelectionInv /\ i \in Nat /\ i > 0
  BY DEF IInv, JudgedInv, TypeOK
<1>1. [Next]_vars
  BY DEF Next
<1>2. i \in 1..Len(account.bor) /\ i' = i + 1 /\ i' - 1 = i
  BY <1>0, EntryFacts DEF Borrow
<1>3. CASE OutOfRange(account.bor[i])
  <2>1. pc' = "done" /\ verdict' = "panic"
    BY <1>3 DEF Borrow, Finish
  <2> QED
    BY <2>1 DEF JudgedInv, SumsInv, FoundInv, VerdictInv
<1>4. CASE ~OutOfRange(account.bor[i])
  <2>1. /\ pc = "borrow" /\ pc' = "borrow"
        /\ borrowValue' = borrowValue + FreshBorrow(account.bor[i])
        /\ UNCHANGED <<depositValue, unhealthyBorrowValue, selectedDeposit>>
        /\ selectedUSDCBorrow' = IF BetterBorrow(account.bor[i]) THEN i ELSE selectedUSDCBorrow
    BY <1>4 DEF Borrow
  <2>2. borrowValue' = Sums(FreshBorrows)[i]
    BY <1>0, <1>2, <2>1, OneMore DEF SumsInv
  <2>3. SumsInv'
    BY <1>0, <1>1, <1>2, <2>1, <2>2, SumsStay DEF SumsInv
  <2>4. Found(Len(account.dep))'
    BY <1>0, <1>1, <2>1, ListsStay DEF FoundInv, Found
  <2>5. selectedUSDCBorrow # None => selectedUSDCBorrow' # None
    BY <1>2, <2>1 DEF None
  <2>6. i \in UsdcBorrows => selectedUSDCBorrow' # None
    BY <1>2, <2>1 DEF UsdcBorrows, BetterBorrow, Compares, None
  <2>7. ASSUME NEW k \in UsdcBorrows, k <= i PROVE selectedUSDCBorrow' # None
    <3>1. k \in Nat
      BY <1>0, <2>7, EntryFacts
    <3>2. CASE k = i
      BY <2>6, <2>7, <3>2
    <3>3. CASE k # i
      <4>1. k <= i - 1
        BY <1>0, <2>7, <3>1, <3>3
      <4> QED
        BY <1>0, <2>1, <2>5, <2>7, <4>1 DEF FoundInv, FoundBorrow
    <3> QED
      BY <3>2, <3>3
  <2>8. FoundBorrow(i - 1)'
    BY <1>1, <1>2, <2>7, ListsStay DEF FoundBorrow
  <2> QED
    BY <2>1, <2>3, <2>4, <2>8 DEF JudgedInv, FoundInv, VerdictInv
<1> QED
  BY <1>3, <1>4

\* Every step adds what it should, and judges when all is added up.
LEMMA JudgedStep == IInv /\ JudgedInv /\ [Next]_vars => JudgedInv'
<1> SUFFICES ASSUME IInv, JudgedInv, [Next]_vars PROVE JudgedInv'
  OBVIOUS
<1>0. /\ TypeOK /\ SumsInv /\ FoundInv /\ VerdictInv /\ SelectionInv /\ LossInv
      /\ i \in Nat /\ i > 0
      /\ Len(account.dep) \in Nat /\ Len(account.bor) \in Nat
  BY EntryFacts DEF IInv, JudgedInv, TypeOK
<1>1. CASE UnpackEntry
  BY <1>0, <1>1 DEF UnpackEntry, Finish, values, JudgedInv, SumsInv, FoundInv, VerdictInv
<1>2. CASE Unpacked
  <2>1. /\ pc = "unpack" /\ pc' = "deposit" /\ i' = 1 /\ i' - 1 = 0
        /\ UNCHANGED <<depositValue, borrowValue, unhealthyBorrowValue>>
    BY <1>2 DEF Unpacked, values
  <2>2. depositValue' = Sums(FreshDeposits)[0] /\ unhealthyBorrowValue' = Sums(FreshLimits)[0]
    BY <1>0, <2>1, OneMore DEF SumsInv
  <2> QED
    BY <1>0, <2>1, <2>2, SumsStay DEF JudgedInv, SumsInv, FoundInv, VerdictInv
<1>3. CASE Invalid
  <2>1. pc' = "done" /\ verdict' = "invalid"
    BY <1>3 DEF Invalid, Finish
  <2>2. ~AllKnown
    <3>1. /\ DOMAIN account.dep = 1..Len(account.dep)
          /\ DOMAIN account.bor = 1..Len(account.bor)
      BY <1>0, AccountFacts DEF TypeOK
    <3> QED
      BY <1>0, <1>3, <3>1 DEF Invalid, AllKnown
  <2>3. ~AllKnown'
    BY <2>2, ListsStay
  <2> QED
    BY <2>1, <2>3 DEF JudgedInv, SumsInv, FoundInv, VerdictInv
<1>4. CASE Deposit
  <2>1. i \in 1..Len(account.dep) /\ i' = i + 1 /\ i' - 1 = i /\ pc = "deposit" /\ pc' = "deposit"
    BY <1>0, <1>4 DEF Deposit
  <2>2. /\ depositValue' = depositValue + Fresh(account.dep[i])
        /\ unhealthyBorrowValue' = unhealthyBorrowValue
              + Fresh(account.dep[i]) * Data[account.dep[i].reserve].liquidationThreshold
        /\ borrowValue' = borrowValue
    BY <1>4 DEF Deposit
  <2>3. depositValue' = Sums(FreshDeposits)[i] /\ unhealthyBorrowValue' = Sums(FreshLimits)[i]
    BY <1>0, <2>1, <2>2, OneMore DEF SumsInv
  <2> QED
    BY <1>0, <2>1, <2>2, <2>3, SumsStay DEF JudgedInv, SumsInv, FoundInv, VerdictInv
<1>5. CASE RangeBorrows
  <2>1. /\ pc = "deposit" /\ pc' = "borrow" /\ i' - 1 = 0 /\ i - 1 = Len(account.dep)
        /\ UNCHANGED <<depositValue, borrowValue, unhealthyBorrowValue>>
        /\ selected' = selected
    BY <1>0, <1>5 DEF RangeBorrows, values, SelectionInv
  <2>2. /\ depositValue' = Total(FreshDeposits) /\ unhealthyBorrowValue' = Total(FreshLimits)
        /\ borrowValue' = Sums(FreshBorrows)[0]
    BY <1>0, <2>1, OneMore DEF SumsInv
  <2>3. SumsInv'
    BY <2>1, <2>2, SumsStay DEF SumsInv
  <2>4. Found(Len(account.dep))'
    BY <1>0, <2>1, FoundStays DEF LossInv
  <2>5. FoundBorrow(0)
    BY <1>0, EntryFacts DEF FoundBorrow
  <2>6. FoundBorrow(i - 1)'
    BY <2>1, <2>5, FoundStays DEF FoundBorrow
  <2> QED
    BY <2>1, <2>3, <2>4, <2>6 DEF JudgedInv, FoundInv, VerdictInv
<1>6. CASE Borrow
  BY <1>6, BorrowJudged
<1>7. CASE Decide
  <2>1. /\ pc = "borrow" /\ pc' = "done" /\ i - 1 = Len(account.bor) /\ verdict' = Verdict
        /\ UNCHANGED <<account, values, selected>>
    BY <1>0, <1>7 DEF Decide, Finish, SelectionInv
  <2>2. /\ depositValue' = Total(FreshDeposits)' /\ unhealthyBorrowValue' = Total(FreshLimits)'
        /\ borrowValue' = Total(FreshBorrows)'
    BY <1>0, <2>1, OneMore, SumsStay DEF SumsInv, values
  <2>3. Found(Len(account.dep))' /\ FoundBorrow(Len(account.bor))'
    <3>1. Found(Len(account.dep)) /\ FoundBorrow(Len(account.bor))
      BY <1>0, <2>1 DEF FoundInv
    <3> QED
      BY <2>1, <3>1, FoundStays DEF FoundBorrow
  <2>4. Verdict' = Verdict
    BY <2>1 DEF Verdict, TooSmall, Above, Selected, TooSmallBorrow, values, selected
  <2>5. Judged'
    BY <2>1, <2>2, <2>3, <2>4 DEF Judged
  <2> QED
    BY <2>1, <2>5 DEF JudgedInv, SumsInv, FoundInv, VerdictInv
<1>8. CASE UNCHANGED vars
  <2>1. UNCHANGED <<pc, i, verdict, account, values, selected>> /\ (i - 1)' = i - 1
    BY <1>8 DEF vars
  <2>2. SumsInv'
    BY <1>0, <2>1, SumsStay DEF SumsInv, values
  <2>3. FoundInv'
    BY <1>0, <2>1, FoundStays DEF FoundInv, FoundBorrow
  <2>4. Verdict' = Verdict
    BY <2>1 DEF Verdict, TooSmall, Above, Selected, TooSmallBorrow, values, selected
  <2>5. Judged => Judged'
    BY <2>1, <2>4, SumsStay, FoundStays DEF Judged, FoundBorrow, values
  <2>6. VerdictInv'
    BY <1>0, <2>1, <2>5, ListsStay DEF VerdictInv
  <2> QED
    BY <2>2, <2>3, <2>6 DEF JudgedInv
<1> QED
  BY <1>1, <1>2, <1>3, <1>4, <1>5, <1>6, <1>7, <1>8 DEF Next

LEMMA JudgedInvariance == Spec => []JudgedInv
  BY JudgedStart, JudgedStep, Invariance, PTL DEF Spec

-------------------------------------------------------------------------------
(* Who is fired at.                                                        *)

LEMMA QuoSame == ASSUME NEW a, NEW b \in Nat PROVE Quo(a, b) = a \div b
  BY DEF Quo

\* With amounts that fit a signed number the bot values a deposit as Solend
\* does: the conversions change nothing.
LEMMA SolendValue ==
    ASSUME TypeOK, Representable, NEW k \in DOMAIN account.dep
    PROVE  Fresh(account.dep[k]) = SolendDeposit(account.dep[k])
<1> DEFINE d == account.dep[k]
           r == Data[d.reserve]
           p == price[d.reserve]
           liquidity == r.available + r.borrowed
<1>1. d \in Deposited /\ d.reserve \in Reserves /\ d.amount \in Amount
  <2>1. d \in Deposited
    BY AccountFacts DEF TypeOK
  <2> QED
    BY <2>1 DEF Deposited
<1>2. /\ r.supply \in Amount /\ r.available \in Amount /\ r.borrowed \in Nat
      /\ r.decimal \in Nat /\ r.decimal > 0
  BY <1>1, DataFacts
<1>3. /\ p \in Nat /\ Scale \in Nat
  BY <1>1, NumbersAssumption DEF TypeOK
<1>4. 2 * d.amount < Modulus /\ 2 * r.supply < Modulus /\ 2 * r.available < Modulus
  BY DEF Representable
<1>5. /\ Signed(d.amount) = d.amount /\ Signed(r.supply) = r.supply
      /\ Signed(r.available) = r.available
  BY <1>4 DEF Signed
<1>6. totalLiquidity(d.reserve) = liquidity
  BY <1>5 DEF totalLiquidity
<1>7. d.amount \in Nat /\ r.supply \in Nat /\ liquidity \in Nat
  BY <1>1, <1>2, NumbersAssumption DEF Amount
<1>8. CASE r.supply = 0 \/ liquidity = 0
  <2>1. Fresh(d) = Quo(d.amount * 1 * p * Scale, 1 * r.decimal)
    BY <1>5, <1>6, <1>8 DEF Fresh, marketValueDeposit
  <2>2. SolendDeposit(d) = (d.amount * p * Scale) \div r.decimal
    BY <1>8 DEF SolendDeposit
  <2>3. d.amount * 1 = d.amount /\ 1 * r.decimal = r.decimal
    BY <1>2, <1>7
  <2> QED
    BY <1>2, <2>1, <2>2, <2>3, QuoSame
<1>9. CASE ~(r.supply = 0 \/ liquidity = 0)
  <2>1. Fresh(d) = Quo(d.amount * liquidity * p * Scale, r.supply * r.decimal)
    BY <1>5, <1>6, <1>9 DEF Fresh, marketValueDeposit
  <2>2. SolendDeposit(d) = (d.amount * liquidity * p * Scale) \div (r.supply * r.decimal)
    BY <1>9 DEF SolendDeposit
  <2>3. r.supply * r.decimal \in Nat
    BY <1>2, <1>7, TimesNat
  <2> QED
    BY <2>1, <2>2, <2>3, QuoSame
<1> QED
  BY <1>8, <1>9

LEMMA SolendLists ==
    ASSUME TypeOK, Representable
    PROVE  FreshDeposits = SolendDeposits /\ FreshLimits = SolendLimits
  BY SolendValue DEF FreshDeposits, SolendDeposits, FreshLimits, SolendLimits, SolendUnhealthy

\* Two numbers of a set of one are the same.
LEMMA OnlyOne ==
    ASSUME NEW S, Cardinality(S) = 1, IsFiniteSet(S), NEW a \in S, NEW b \in S
    PROVE  a = b
<1>1. PICK c : S = {c}
  BY FS_Singleton
<1> QED
  BY <1>1

\* An obligation that Solend lets anybody liquidate, and that the bot can act
\* upon, is fired at, whatever its deposits, borrows, reserves and prices are.
THEOREM UnhealthyIsFiredAt == Spec => []UnhealthyFires
<1>1. IInv /\ JudgedInv => UnhealthyFires
  <2> DEFINE U == Total(SolendLimits)
             B == Total(FreshBorrows)
             T == 2 * Threshold * Scale
  <2> SUFFICES ASSUME IInv, JudgedInv, pc = "done", Representable, AllKnown,
                      Total(SolendDeposits) > T, B > T, U <= 100 * B,
                      Candidates # {}, Cardinality(UsdcBorrows) = 1,
                      \A k \in UsdcBorrows : account.bor[k].amount >= Threshold
               PROVE  verdict = "fire"
    BY DEF UnhealthyFires, AllKnown
  <2>0. /\ TypeOK /\ SelectionInv /\ PanicNeedsTwoUSDC /\ VerdictInv
        /\ Len(account.dep) \in Nat /\ Len(account.bor) \in Nat
        /\ Candidates \subseteq 1..Len(account.dep) /\ UsdcBorrows \subseteq 1..Len(account.bor)
    BY EntryFacts DEF IInv, JudgedInv
  <2>1. IsFiniteSet(UsdcBorrows)
    <3>1. 1 \in Int /\ Len(account.bor) \in Int
      BY <2>0
    <3>2. IsFiniteSet(1..Len(account.bor))
      BY <3>1, FS_Interval
    <3> QED
      BY <2>0, <3>2, FS_Subset
  <2>2. verdict # "panic"
    <3> SUFFICES ASSUME verdict = "panic" PROVE FALSE
      OBVIOUS
    <3>1. PICK j, k \in UsdcBorrows : j < k
      BY <2>0 DEF PanicNeedsTwoUSDC
    <3>2. j = k /\ j \in Nat
      BY <2>0, <2>1, <3>1, OnlyOne
    <3> QED
      BY <3>1, <3>2
  <2>3. Judged
    BY <2>0, <2>2 DEF VerdictInv
  <2>4. /\ depositValue = Total(SolendDeposits) /\ unhealthyBorrowValue = U /\ borrowValue = B
    BY <2>0, <2>3, SolendLists DEF Judged
  <2>5. T \in Nat /\ B \in Int /\ U \in Int
    <3>1. T \in Nat
      BY NumbersAssumption, TimesNat
    <3> QED
      BY <2>0, <2>4, <3>1 DEF TypeOK
  <2> HIDE DEF T, U, B
  <2>6. ~TooSmall
    <3>1. ~(depositValue <= T) /\ ~(borrowValue <= T)
      BY <2>0, <2>4, <2>5 DEF TypeOK
    <3> QED
      BY <3>1 DEF TooSmall, T
  <2>7. ~Above(100) /\ ~Above(3)
    <3>1. B \in Nat
      BY <2>5
    <3>2. ~(10 * U > 1000 * B + 100 * B) /\ ~(10 * U > 1000 * B + 3 * B)
      BY <2>5, <3>1
    <3> QED
      BY <2>4, <3>2 DEF Above
  <2>8. PICK c : c \in UsdcBorrows
    <3>1. Cardinality(UsdcBorrows) # 0
      OBVIOUS
    <3> QED
      BY <3>1, FS_EmptySet
  <2>9. Selected
    <3>1. Found(Len(account.dep)) /\ FoundBorrow(Len(account.bor))
      BY <2>3 DEF Judged
    <3>2. PICK d \in Candidates : d <= Len(account.dep)
      <4>1. PICK d : d \in Candidates
        OBVIOUS
      <4>2. d \in 1..Len(account.dep)
        BY <2>0, <4>1
      <4> QED
        BY <4>1, <4>2
    <3>3. selectedDeposit # None
      BY <3>1, <3>2 DEF Found
    <3>4. c <= Len(account.bor)
      BY <2>0, <2>8
    <3>5. selectedUSDCBorrow # None
      BY <2>8, <3>1, <3>4 DEF FoundBorrow
    <3> QED
      BY <3>3, <3>5 DEF Selected
  <2>10. ~TooSmallBorrow
    <3>1. selectedUSDCBorrow \in UsdcBorrows
      BY <2>0, <2>9 DEF SelectionInv, Selected
    <3>2. account.bor[selectedUSDCBorrow].amount \in Nat
      BY <2>0, <3>1, AccountFacts DEF TypeOK, Borrowed
    <3> QED
      BY <3>1, <3>2, NumbersAssumption DEF TooSmallBorrow
  <2> QED
    BY <2>3, <2>6, <2>7, <2>9, <2>10 DEF Judged, Verdict
<1> QED
  BY <1>1, Invariance, JudgedInvariance, PTL

\* And nothing that is more than 0.3 percent away from that is: the totals the
\* bot acts upon are those of all entries, and the selection is of its kind.
THEOREM FiredAtIsNear == Spec => []FiresOnlyWhenNear
<1>1. IInv /\ JudgedInv => FiresOnlyWhenNear
  <2> SUFFICES ASSUME IInv, JudgedInv, verdict = "fire"
               PROVE  /\ Representable =>
                            10 * Total(SolendLimits) <= 1003 * Total(FreshBorrows)
                      /\ selectedDeposit \in Candidates /\ selectedUSDCBorrow \in UsdcBorrows
    BY DEF FiresOnlyWhenNear
  <2>0. TypeOK /\ SelectionInv /\ VerdictInv
    BY DEF IInv, JudgedInv
  <2>1. Judged
    BY <2>0 DEF VerdictInv, SelectionInv
  <2>2. ~Above(3) /\ Selected
    BY <2>1 DEF Judged, Verdict
  <2>3. selectedDeposit \in Candidates /\ selectedUSDCBorrow \in UsdcBorrows
    BY <2>0, <2>2 DEF SelectionInv, Selected
  <2>4. ASSUME Representable
        PROVE  10 * Total(SolendLimits) <= 1003 * Total(FreshBorrows)
    <3> DEFINE U == Total(SolendLimits)
               B == Total(FreshBorrows)
    <3>1. unhealthyBorrowValue = U /\ borrowValue = B
      BY <2>0, <2>1, <2>4, SolendLists DEF Judged
    <3>2. U \in Int /\ B \in Int
      BY <2>0, <3>1 DEF TypeOK
    <3>3. ~(10 * U > 1000 * B + 3 * B)
      BY <2>2, <3>1 DEF Above
    <3> HIDE DEF U, B
    <3>4. 10 * U <= 1003 * B
      BY <3>2, <3>3
    <3> QED
      BY <3>4 DEF U, B
  <2> QED
    BY <2>3, <2>4
<1> QED
  BY <1>1, Invariance, JudgedInvariance, PTL

===============================================================================
