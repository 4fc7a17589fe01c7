---------------------------- MODULE MCLiquidation -----------------------------
EXTENDS Liquidation

CONSTANTS u, a, b, x

\* One deposit or two, in either order of kind; x is unknown to the bot.
MCLayouts ==
    [dep : {<<a>>, <<u, b>>, <<a, b>>}, bor : {<<u>>, <<b, u>>}]
    \cup {[dep |-> <<b, x>>, bor |-> <<>>], [dep |-> <<>>, bor |-> <<x>>]}
MCMarkets == {{u, a}, {u, b}, {a, b}}
===============================================================================
