------------------------------- MODULE Layouts --------------------------------
(***************************************************************************)
(* Where the unpack functions of solend/layout.go and pyth/layout.go read  *)
(* an account.  Each one moves a cursor over its data, field by field; the *)
(* data is a slice that its caller cut by a declared size.  A layout is    *)
(* the sequence of its fields' widths, in the order they are read.         *)
(***************************************************************************)
EXTENDS Integers, Sequences, Functions

Key == 32
U64 == 8

\* The sizes as the source declares them.
LendingMarketLayoutSize == 290
LastUpdateLayoutSize == 9
DecimalLayoutSize == 16
ReserveLayoutSize == 619
ReserveLiquidityLayoutSize == 185
ReserveCollateralLayoutSize == 72
ReserveFeesLayoutSize == 17
ReserveConfigLayoutSize == 55 + ReserveFeesLayoutSize
ObligationFixLayoutSize == 204
ObligationCollateralLayoutSize == 88
ObligationLiquidityLayoutSize == 112
ObligationLayoutSize ==
    ObligationFixLayoutSize + ObligationCollateralLayoutSize + 9 * ObligationLiquidityLayoutSize
BaseLayoutSize == 16
PriceFixLayoutSize == 240
PriceInfoSize == 32
EmaSize == 24

-------------------------------------------------------------------------------
LendingMarket == <<1, 1, Key, Key, Key, Key, Key, 128>>
LastUpdate == <<U64, 1>>
ReserveLiquidity ==
    <<Key, 1, Key, Key, Key, U64, DecimalLayoutSize, DecimalLayoutSize, DecimalLayoutSize>>
ReserveCollateral == <<Key, U64, Key>>
ReserveFees == <<U64, U64, 1>>
ReserveConfig == <<1, 1, 1, 1, 1, 1, 1, ReserveFeesLayoutSize, U64, U64, Key>>
Reserve ==
    <<1, LastUpdateLayoutSize, Key, ReserveLiquidityLayoutSize, ReserveCollateralLayoutSize,
      ReserveConfigLayoutSize, 248>>
ObligationFix ==
    <<1, LastUpdateLayoutSize, Key, Key, DecimalLayoutSize, DecimalLayoutSize,
      DecimalLayoutSize, DecimalLayoutSize, 64, 1, 1>>

\* The cursor of a deposit stops before the padding its declared size includes.
ObligationCollateral == <<Key, U64, DecimalLayoutSize>>
ObligationLiquidity == <<Key, DecimalLayoutSize, DecimalLayoutSize, DecimalLayoutSize, 32>>

Base == <<4, 4, 4, 4>>
PriceInfo == <<U64, U64, 4, 4, 8>>
Ema == <<U64, U64, U64>>
PriceFix ==
    <<BaseLayoutSize, 4, 4, 4, 4, U64, U64, EmaSize, EmaSize, U64, 1, 1, 2, 4, Key, Key,
      U64, U64, U64, U64, PriceInfoSize>>
\* A component hands the rest of the data to the two prices in it.
PriceComponent == <<Key, PriceInfoSize, PriceInfoSize>>

\* The cursor after the fields of a layout.
Width(fields) == SumFunction(fields)

\* The layouts end where their declared sizes do, so that the layout behind
\* each one is read from its beginning.
LayoutsFit ==
    /\ Width(LendingMarket) = LendingMarketLayoutSize
    /\ Width(LastUpdate) = LastUpdateLayoutSize
    /\ Width(ReserveLiquidity) = ReserveLiquidityLayoutSize
    /\ Width(ReserveCollateral) = ReserveCollateralLayoutSize
    /\ Width(ReserveFees) = ReserveFeesLayoutSize
    /\ Width(ReserveConfig) = ReserveConfigLayoutSize
    /\ Width(Reserve) = ReserveLayoutSize
    /\ Width(ObligationFix) = ObligationFixLayoutSize
    /\ Width(ObligationCollateral) + 32 = ObligationCollateralLayoutSize
    /\ Width(ObligationLiquidity) = ObligationLiquidityLayoutSize
    /\ Width(Base) = BaseLayoutSize
    /\ Width(PriceInfo) = PriceInfoSize
    /\ Width(Ema) = EmaSize
    /\ Width(PriceFix) = PriceFixLayoutSize

-------------------------------------------------------------------------------
\* The keys of the components of a price account of n components, which the
\* loop reads until a key is zero or the data ends.
ComponentAt(i) == PriceFixLayoutSize + i * (Key + PriceInfoSize + PriceInfoSize)
PriceSize(n) == ComponentAt(n)

ComponentsFit(n) ==
    \A i \in 0..(n - 1) :
        ComponentAt(i) < PriceSize(n) => ComponentAt(i) + Key <= PriceSize(n)

===============================================================================
