----------------------------- MODULE MCValuation ------------------------------
EXTENDS Valuation, TLC

CONSTANTS ru, ra, rb, rx

\* The layouts of the other accounts need no state.
ASSUME LayoutsFit /\ ComponentsFit(32)

\* ru is USDC and its pool is empty; the pool of ra has grown; nothing withdraws
\* from rx, which is unknown to the bot.
Pool(usdc, user, supply, available, borrowed, rate, threshold, decimal) ==
    [known |-> TRUE, usdc |-> usdc, user |-> user, supply |-> supply,
     available |-> available, borrowed |-> borrowed, rate |-> rate,
     liquidationThreshold |-> threshold, decimal |-> decimal]
MCData ==
    (ru :> Pool(TRUE, TRUE, 0, 0, 0, 100, 90, 10))
    @@ (ra :> Pool(FALSE, TRUE, 4, 4, 2, 150, 80, 2))
    @@ (rb :> Pool(FALSE, TRUE, 8, 4, 4, 100, 50, 1))
    @@ (rx :> [Pool(FALSE, FALSE, 40, 4, 40, 100, 50, 4) EXCEPT !.known = FALSE])

Dep(r, n, v) == [reserve |-> r, amount |-> n, stored |-> v]
Bor(r, n, rate, v) == [reserve |-> r, amount |-> n, rate |-> rate, stored |-> v]

MCDeposits == {Dep(ra, 4, 60), Dep(ra, 12, 90), Dep(rb, 6, 40), Dep(rb, 6, 120),
               Dep(ru, 30, 30), Dep(rb, 60, 50)}
MCBorrows == {Bor(ru, 5, 100, 5), Bor(ru, 60, 100, 60), Bor(ra, 4, 100, 40), Bor(rb, 9, 200, 80)}
MCWithdrawable == {Dep(ra, 4, 60), Dep(ra, 12, 90), Dep(rb, 6, 40)}

\* Accounts of ordinary size, unknown reserves, and the fullest accounts.
MCAccounts ==
    {[dep |-> <<c, d>>, bor |-> <<v, w>>] :
        c \in MCDeposits, d \in MCDeposits, v \in MCBorrows, w \in MCBorrows}
    \cup {[dep |-> <<d>>, bor |-> <<v, w>>] :
             d \in MCDeposits, v \in MCBorrows, w \in MCBorrows}
    \cup {[dep |-> <<Dep(ra, 12, 90)>>, bor |-> <<v, w, y>>] :
             v \in MCBorrows, w \in MCBorrows, y \in MCBorrows}
    \cup {[dep |-> <<c, d, e>>, bor |-> <<Bor(ru, 60, 100, 60)>>] :
             c \in MCWithdrawable, d \in MCWithdrawable, e \in MCWithdrawable}
    \cup {[dep |-> d, bor |-> w] : d \in {<<>>, <<Dep(rx, 1, 1)>>, <<Dep(ra, 12, 90)>>},
                                   w \in {<<>>}}
    \cup {[dep |-> <<Dep(ra, 12, 90)>>, bor |-> <<Bor(rx, 1, 100, 1)>>]}
    \cup {[dep |-> [k \in 1..n |-> Dep(ra, 12, 90)],
           bor |-> [k \in 1..(10 - n) |-> Bor(rb, 9, 100, 80)]] : n \in 1..10}
===============================================================================
