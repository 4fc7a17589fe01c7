------------------------------ MODULE Valuation -------------------------------
(***************************************************************************)
(* What an obligation is worth, and what the bot makes of that             *)
(* (solend/program.go 349-622, solend/layout.go).  The account is unpacked *)
(* entry by entry, its deposits and then its borrows are valued, and the   *)
(* totals decide.  Module Liquidation has the same code with abstract      *)
(* values, under a concurrent update; here nothing disturbs it and the     *)
(* values are numbers.                                                     *)
(*                                                                         *)
(* Dollars are integers, in units of 1/Scale and rounded down, where the   *)
(* code has big.Float of at least 53 bits.  Percentages and borrow rates   *)
(* are integers over 100.  Amounts are uint64, modulo Modulus, and the     *)
(* code converts some of them to int64.                                    *)
(***************************************************************************)
EXTENDS Layouts, FiniteSets

CONSTANTS
    Reserves,  \* the reserves of the program
    Data,      \* reserve -> the fields of its account and token
    Accounts,  \* obligation accounts: a record of sequences dep and bor
    Prices,    \* what oracles say, in dollars
    Threshold, \* p.threshold
    Modulus,   \* an unsigned amount is less than this (2^64)
    Scale      \* units in a dollar

None == 0      \* nothing selected: the -1 of the code

Amount == 0..(Modulus - 1)
ReserveData ==
    [known : BOOLEAN, usdc : BOOLEAN, user : BOOLEAN,
     supply : Amount, available : Amount, borrowed : Nat,
     rate : Nat \ {0}, liquidationThreshold : Nat, decimal : Nat \ {0}]
Deposited == [reserve : Reserves, amount : Amount, stored : Int]
Borrowed == [reserve : Reserves, amount : Nat, rate : Nat \ {0}, stored : Int]

ASSUME DataAssumption == Data \in [Reserves -> ReserveData]
ASSUME AccountsAssumption == Accounts \subseteq [dep : Seq(Deposited), bor : Seq(Borrowed)]
ASSUME NumbersAssumption ==
    /\ Prices \subseteq Nat /\ Threshold \in Nat
    /\ Modulus \in Nat \ {0} /\ Scale \in Nat \ {0}

\* What the chain can hold: ten entries, and no borrow without a deposit.
ASSUME ChainAssumption ==
    \A a \in Accounts : /\ Len(a.dep) + Len(a.bor) <= 10
                        /\ Len(a.bor) > 0 => Len(a.dep) > 0

VARIABLES
    account,   \* the obligation
    price,     \* reserve -> the price of its oracle
    pc,        \* "unpack", "deposit", "borrow" or "done"
    index,     \* the cursor of ObligationLayout.unpack
    i,         \* the next entry
    depositValue, borrowValue, unhealthyBorrowValue,
    selectedDeposit, selectedUSDCBorrow,
    verdict    \* "none", or what comes out

values == <<depositValue, borrowValue, unhealthyBorrowValue>>
selected == <<selectedDeposit, selectedUSDCBorrow>>
vars == <<account, price, pc, index, i, values, selected, verdict>>

-------------------------------------------------------------------------------
\* int64(a)
Signed(a) == IF 2 * a < Modulus THEN a ELSE a - Modulus

\* A quotient of signed numbers, rounded down.
Quo(a, b) == IF b < 0 THEN (-a) \div (-b) ELSE a \div b

\* depositValue of d at price p: the amount by the collateral exchange rate,
\* which is one in a reserve that is empty.
totalLiquidity(r) == Signed(Data[r].available) + Data[r].borrowed

marketValueDeposit(d, p) ==
    LET r == Data[d.reserve]
        empty == r.supply = 0 \/ totalLiquidity(d.reserve) = 0
        liquidity == IF empty THEN 1 ELSE totalLiquidity(d.reserve)
        supply == IF empty THEN 1 ELSE Signed(r.supply)
    IN  Quo(Signed(d.amount) * liquidity * p * Scale, supply * r.decimal)

\* Interest since the obligation was refreshed; a rate that went down is
\* logged and counts as none.
borrowedAmountWithInterest(b) ==
    IF Data[b.reserve].rate > b.rate
      THEN (b.amount * Data[b.reserve].rate) \div b.rate ELSE b.amount

marketValueBorrow(b, p) ==
    (borrowedAmountWithInterest(b) * p * Scale) \div Data[b.reserve].decimal

Fresh(d) == marketValueDeposit(d, price[d.reserve])
FreshBorrow(b) == marketValueBorrow(b, price[b.reserve])

-------------------------------------------------------------------------------
Init ==
    /\ account \in Accounts
    /\ price \in [Reserves -> Prices]
    /\ pc = "unpack" /\ index = ObligationFixLayoutSize /\ i = 1
    /\ depositValue = 0 /\ borrowValue = 0 /\ unhealthyBorrowValue = 0
    /\ selectedDeposit = None /\ selectedUSDCBorrow = None
    /\ verdict = "none"

Finish(v) == pc' = "done" /\ verdict' = v

\* The size of entry k.  A wrong variant: all entries have the size of a
\* borrow.
EntrySize_Same(k) == ObligationLiquidityLayoutSize
EntrySize(k) ==
    IF k <= Len(account.dep)
      THEN ObligationCollateralLayoutSize ELSE ObligationLiquidityLayoutSize

\* The loops over deposits and borrows of ObligationLayout.unpack; slicing
\* the data behind its end panics.
UnpackEntry ==
    /\ pc = "unpack"
    /\ i <= Len(account.dep) + Len(account.bor)
    /\ index' = index + EntrySize(i)
    /\ IF index' > ObligationLayoutSize
         THEN Finish("panic") ELSE UNCHANGED <<pc, verdict>>
    /\ i' = i + 1
    /\ UNCHANGED <<account, price, values, selected>>

Unpacked ==
    /\ pc = "unpack"
    /\ i > Len(account.dep) + Len(account.bor)
    /\ pc' = "deposit" /\ i' = 1
    /\ UNCHANGED <<account, price, index, values, selected, verdict>>

\* A reserve, an oracle or a token is unknown.
Invalid ==
    /\ pc \in {"deposit", "borrow"}
    /\ LET entries == IF pc = "deposit" THEN account.dep ELSE account.bor IN
          i <= Len(entries) /\ ~Data[entries[i].reserve].known
    /\ Finish("invalid")
    /\ UNCHANGED <<account, price, index, i, values, selected>>

\* A deposit that the bot can withdraw replaces the one selected when its
\* market value exceeds the one STORED for that.  A wrong variant: the value
\* stored for the candidate itself.
BetterDeposit_Own(d) ==
    ~Data[d.reserve].usdc /\ Data[d.reserve].user
    /\ (selectedDeposit # None => d.stored > account.dep[selectedDeposit].stored)

BetterDeposit(d) ==
    ~Data[d.reserve].usdc /\ Data[d.reserve].user
    /\ (selectedDeposit # None => Fresh(d) > account.dep[selectedDeposit].stored)

Deposit ==
    /\ pc = "deposit"
    /\ i <= Len(account.dep)
    /\ LET d == account.dep[i] IN
          /\ Data[d.reserve].known
          /\ depositValue' = depositValue + Fresh(d)
          /\ unhealthyBorrowValue' = unhealthyBorrowValue
                + Fresh(d) * Data[d.reserve].liquidationThreshold
          /\ selectedDeposit' = IF BetterDeposit(d) THEN i ELSE selectedDeposit
    /\ i' = i + 1
    /\ UNCHANGED <<account, price, pc, index, borrowValue, selectedUSDCBorrow, verdict>>

RangeBorrows ==
    /\ pc = "deposit"
    /\ i > Len(account.dep)
    /\ pc' = "borrow" /\ i' = 1
    /\ UNCHANGED <<account, price, index, values, selected, verdict>>

\* selectedUSDCBorrow is an index of borrows, and yet the value it is compared
\* with comes from the deposits.  A wrong variant: any borrow is compared.
Compares_Any(b) == selectedUSDCBorrow # None
Compares(b) == Data[b.reserve].usdc /\ selectedUSDCBorrow # None
OutOfRange(b) == Compares(b) /\ selectedUSDCBorrow > Len(account.dep)

BetterBorrow(b) ==
    /\ Data[b.reserve].usdc
    /\ Compares(b) => FreshBorrow(b) > account.dep[selectedUSDCBorrow].stored

Borrow ==
    /\ pc = "borrow"
    /\ i <= Len(account.bor)
    /\ LET b == account.bor[i] IN
          /\ Data[b.reserve].known
          /\ borrowValue' = borrowValue + FreshBorrow(b)
          /\ IF OutOfRange(b)
               THEN Finish("panic") /\ UNCHANGED selected
               ELSE /\ selectedUSDCBorrow' = IF BetterBorrow(b) THEN i ELSE selectedUSDCBorrow
                    /\ UNCHANGED <<pc, verdict, selectedDeposit>>
    /\ i' = i + 1
    /\ UNCHANGED <<account, price, index, depositValue, unhealthyBorrowValue>>

\* x, the distance to liquidation, exceeds p thousandths.  Wrong variants:
\* x by the deposits' value; the difference the other way round.
Above_Deposits(p) == 10 * unhealthyBorrowValue > 1000 * depositValue + p * depositValue
Above_Swapped(p) == 1000 * borrowValue > 10 * unhealthyBorrowValue + p * borrowValue
Above(p) == 10 * unhealthyBorrowValue > 1000 * borrowValue + p * borrowValue

TooSmall == \/ depositValue <= 2 * Threshold * Scale
            \/ borrowValue <= 2 * Threshold * Scale
Selected == selectedDeposit # None /\ selectedUSDCBorrow # None

\* The amount of the USDC borrow, in base units, is below the threshold.
TooSmallBorrow == account.bor[selectedUSDCBorrow].amount < Threshold

\* The early returns, in their order; the names are those of module Obligations.
Verdict ==
    IF TooSmall THEN "invalid"
    ELSE IF Above(100) THEN "healthy"
    ELSE IF Above(3) THEN "watch"
    ELSE IF ~Selected THEN "stuck"
    ELSE IF TooSmallBorrow THEN "stuck" ELSE "fire"

Decide ==
    /\ pc = "borrow"
    /\ i > Len(account.bor)
    /\ Finish(Verdict)
    /\ UNCHANGED <<account, price, index, i, values, selected>>

Next ==
    \/ UnpackEntry \/ Unpacked
    \/ Invalid \/ Deposit \/ RangeBorrows \/ Borrow \/ Decide

Spec == Init /\ [][Next]_vars

-------------------------------------------------------------------------------
TypeOK ==
    /\ account \in Accounts /\ price \in [Reserves -> Prices]
    /\ pc \in {"unpack", "deposit", "borrow", "done"}
    /\ index \in Nat /\ i \in Nat \ {0}
    /\ depositValue \in Int /\ borrowValue \in Int /\ unhealthyBorrowValue \in Int
    /\ selectedDeposit \in 0..Len(account.dep)
    /\ selectedUSDCBorrow \in 0..Len(account.bor)
    /\ verdict \in {"none", "invalid", "healthy", "watch", "stuck", "fire", "panic"}

\* ObligationLayout.unpack never reads behind the end of an account the chain
\* can hold, although ten borrows would not fit.
ReadsStayInside == index <= ObligationLayoutSize

Candidates == {k \in DOMAIN account.dep : LET r == Data[account.dep[k].reserve] IN
                                              ~r.usdc /\ r.user}
UsdcBorrows == {k \in DOMAIN account.bor : Data[account.bor[k].reserve].usdc}

\* What the account is worth by the rules of Solend, in unsigned numbers.
SolendDeposit(d) ==
    LET r == Data[d.reserve]
        liquidity == r.available + r.borrowed
    IN  IF r.supply = 0 \/ liquidity = 0
          THEN (d.amount * price[d.reserve] * Scale) \div r.decimal
          ELSE (d.amount * liquidity * price[d.reserve] * Scale) \div (r.supply * r.decimal)
SolendUnhealthy(d) == SolendDeposit(d) * Data[d.reserve].liquidationThreshold

SolendDeposits == [k \in DOMAIN account.dep |-> SolendDeposit(account.dep[k])]
SolendLimits == [k \in DOMAIN account.dep |-> SolendUnhealthy(account.dep[k])]
FreshBorrows == [k \in DOMAIN account.bor |-> FreshBorrow(account.bor[k])]

\* The sums of the first entries of x: of none, of one, and so on.  (A recursive
\* function rather than SumFunction, so that its equation can be proved.)
Sums(x) == LET sum[n \in 0..Len(x)] == IF n = 0 THEN 0 ELSE sum[n - 1] + x[n] IN sum
Total(x) == Sums(x)[Len(x)]

\* Every amount that is converted to a signed one keeps its value.
Representable ==
    \A k \in DOMAIN account.dep :
        LET d == account.dep[k] IN
        \A n \in {d.amount, Data[d.reserve].supply, Data[d.reserve].available} : 2 * n < Modulus

\* An obligation that Solend lets anybody liquidate is fired at when it is big
\* enough, its accounts are known, it has something the bot can withdraw and
\* one USDC borrow to repay.  Amounts of 2^63 and more are excepted.
UnhealthyFires ==
    /\ pc = "done"
    /\ Representable
    /\ \A k \in DOMAIN account.dep : Data[account.dep[k].reserve].known
    /\ \A k \in DOMAIN account.bor : Data[account.bor[k].reserve].known
    /\ Total(SolendDeposits) > 2 * Threshold * Scale
    /\ Total(FreshBorrows) > 2 * Threshold * Scale
    /\ Total(SolendLimits) <= 100 * Total(FreshBorrows)
    /\ Candidates # {}
    /\ Cardinality(UsdcBorrows) = 1
    /\ \A k \in UsdcBorrows : account.bor[k].amount >= Threshold
    => verdict = "fire"

\* What is fired at is at most 0.3 percent away from liquidation, and what is
\* withdrawn and repaid is of the kind the bot can handle.
FiresOnlyWhenNear ==
    verdict = "fire" =>
        /\ Representable =>
              10 * Total(SolendLimits) <= 1003 * Total(FreshBorrows)
        /\ selectedDeposit \in Candidates /\ selectedUSDCBorrow \in UsdcBorrows

\* The index that is out of range takes two USDC borrows and too few deposits.
PanicNeedsTwoUSDC ==
    verdict = "panic" =>
        \E j, k \in UsdcBorrows : j < k /\ j > Len(account.dep)

Drift(k) == LET x == Fresh(account.dep[k]) - account.dep[k].stored IN
            IF x < 0 THEN -x ELSE x

Valued(k) == (pc = "deposit" /\ k < i) \/ pc = "borrow" \/ verdict = "fire"

\* Comparing fresh values with stored ones may miss the most valuable deposit,
\* but it loses at most the largest drift of a stored value for each deposit
\* after the first; nothing is lost when the stored values are fresh.
SelectionLossBounded ==
    \A worst \in Candidates :
        (\A k \in Candidates : Drift(k) <= Drift(worst)) =>
            \A k \in Candidates :
                selectedDeposit # None /\ Valued(k) =>
                    Fresh(account.dep[k]) - Fresh(account.dep[selectedDeposit])
                        <= (Len(account.dep) - 1) * Drift(worst)

\* "too small borrowed value": what is repaid is worth the threshold at least.
WorthTheThreshold ==
    verdict = "fire" =>
        FreshBorrow(account.bor[selectedUSDCBorrow]) >= Threshold * Scale

===============================================================================
