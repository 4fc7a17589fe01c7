------------------------------ MODULE Lifecycle -------------------------------
(***************************************************************************)
(* A life of the bot (liquidator/main.go, liquidate.go, backend/fetch.go,  *)
(* script/monitor.sh): it connects, loads the accounts of the Solend       *)
(* program and the prices they name, subscribes, runs until it is          *)
(* signalled, and is launched again.  Each step of Start may fail, and     *)
(* Start drops the errors.                                                 *)
(*                                                                         *)
(* The data of an account is its version, 0 when it does not exist or is   *)
(* not known.  Loads ask for finalized data, so they may be behind the     *)
(* chain; subscriptions deliver every change from then on, in order.  What *)
(* happens between a receiver and the maps is in PriceTrigger and          *)
(* Obligations; here it is one step.                                       *)
(***************************************************************************)
EXTENDS Integers, FiniteSets, SequencesExt

CONSTANTS
    Reserves,   \* the accounts of the program
    Oracles,    \* the price accounts
    OracleOf,   \* reserve -> the oracle its account names
    PriceAccounts, \* the oracles whose account can be built into a price
    PageSize,   \* MultipleAccountSliceSize (100)
    MaxUpdates  \* bound: changes on the chain

Keys == Reserves \cup Oracles
slot == "slot"        \* the subscription of slots
program == "program"  \* the subscription of the program

ASSUME OraclesAssumption == OracleOf \in [Reserves -> Oracles] /\ IsFiniteSet(Oracles)
ASSUME PriceAccountsAssumption == PriceAccounts \subseteq Oracles
ASSUME KeysAssumption == Reserves \cap Oracles = {} /\ slot \notin Keys /\ program \notin Keys
ASSUME BoundsAssumption == PageSize \in Nat \ {0} /\ MaxUpdates \in Nat

VARIABLES
    chain, updates, \* key -> version on the chain, and the changes so far
    phase,          \* "down", "connect", a phase of Start, or "run"
    link,           \* the websocket: "up" or "broken"
    cancelled,      \* the context is done
    mem,            \* key -> version in p.obligations, p.reserves or p.prices
    keys, index, read, \* getAccountsFromChain: its keys, the cursor, what it has
    left,           \* accountSubs that StartSubscribeAccount has not reached
    subs,           \* subscriptions that have a receiver
    since, heard,   \* key -> version when it was subscribed, and delivered last
    dropped         \* history: a step of this Start failed

env == <<chain, updates>>
paging == <<keys, index, read>>
feeds == <<subs, since, heard>>
vars == <<env, phase, link, cancelled, mem, paging, left, feeds, dropped>>

Version == 0..MaxUpdates + 1
Nothing == [k \in Keys |-> 0]

\* liquidate.Start: loads accounts and prices, then slots, Flash, oracles.
\* A wrong variant: Flash before the accounts are loaded.
Phases_FlashFirst == <<"program", "load", "prices", "slots", "oracles", "run">>
Phases == <<"load", "prices", "slots", "program", "oracles", "run">>

Following(p) == Phases[(CHOOSE n \in DOMAIN Phases : Phases[n] = p) + 1]

-------------------------------------------------------------------------------
Init ==
    /\ chain = [k \in Keys |-> 1] /\ updates = 0
    /\ phase = "down"
    /\ link = "up" /\ cancelled = FALSE /\ dropped = FALSE
    /\ mem = Nothing /\ left = {}
    /\ keys = <<>> /\ index = 0 /\ read = Nothing
    /\ subs = {} /\ since = Nothing /\ heard = Nothing

\* monitor.sh finds no process.
Launch ==
    /\ phase = "down"
    /\ phase' = "connect"
    /\ UNCHANGED <<env, link, cancelled, mem, paging, left, feeds, dropped>>

\* ws.Connect; NewBackend panics when it fails.
Connect ==
    /\ phase = "connect"
    /\ phase' \in {"down", Phases[1]}
    /\ UNCHANGED <<env, link, cancelled, mem, paging, left, feeds, dropped>>

\* Program.Start of solend.  GetProgramAccounts gives a version of every
\* account, and buildModels asks for the oracles of the reserves among them in
\* any order; its error ends Start and with it the loading of prices.
LoadAccounts ==
    /\ phase = "load"
    /\ ~cancelled
    /\ \E got \in [Reserves -> Version] :
          /\ \A r \in Reserves : got[r] <= chain[r]
          /\ mem' = [k \in Keys |-> IF k \in Reserves THEN got[k] ELSE mem[k]]
    /\ keys' \in SetToSeqs({OracleOf[r] : r \in {r \in Reserves : mem'[r] # 0}})
    /\ phase' = Following("load")
    /\ UNCHANGED <<env, link, cancelled, index, read, left, feeds, dropped>>

\* The error of a step of Start is not looked at.
Skip(p, next) ==
    /\ phase = p
    /\ phase' = next
    /\ dropped' = TRUE

LoadFails ==
    /\ Skip("load", Following(Following("load")))
    /\ UNCHANGED <<env, link, cancelled, mem, paging, left, feeds>>

-------------------------------------------------------------------------------
\* The end of the page at index.
End == IF index + PageSize > Len(keys) THEN Len(keys) ELSE index + PageSize

\* One request of getAccountsFromChain.
LoadPage ==
    /\ phase = "prices"
    /\ index < Len(keys)
    /\ ~cancelled
    /\ LET page == {keys[n] : n \in (index + 1)..End} IN
          \E got \in [page -> Version] :
             /\ \A o \in page : got[o] \in 1..chain[o]
             /\ read' = [k \in Keys |-> IF k \in page THEN got[k] ELSE read[k]]
    /\ index' = End
    /\ UNCHANGED <<env, phase, link, cancelled, mem, keys, left, feeds, dropped>>

\* buildAccounts: what can be built of what was read.
Built == [k \in Keys |-> IF k \in PriceAccounts /\ read[k] # 0 THEN read[k] ELSE mem[k]]

\* A wrong variant of PageFails: what was read before the error is used.
PageFails_Keep ==
    /\ Skip("prices", Following("prices"))
    /\ index < Len(keys)
    /\ mem' = Built
    /\ left' = {o \in Oracles : mem'[o] # 0}
    /\ UNCHANGED <<env, link, cancelled, paging, feeds>>

\* A request that fails, or an answer with too few accounts: all is lost.
PageFails ==
    /\ Skip("prices", Following("prices"))
    /\ index < Len(keys)
    /\ UNCHANGED <<env, link, cancelled, mem, paging, left, feeds>>

\* A wrong variant of BuildPrices: the oracles are named before they are built.
BuildPrices_Early ==
    /\ phase = "prices"
    /\ index = Len(keys)
    /\ left' = {o \in Oracles : mem[o] # 0}
    /\ mem' = Built
    /\ phase' = Following("prices")
    /\ UNCHANGED <<env, link, cancelled, paging, feeds, dropped>>

\* SubscribePrice builds what it got, and names it to subscribeUpdate.
BuildPrices ==
    /\ phase = "prices"
    /\ index = Len(keys)
    /\ mem' = Built
    /\ left' = {o \in Oracles : mem'[o] # 0}
    /\ phase' = Following("prices")
    /\ UNCHANGED <<env, link, cancelled, paging, feeds, dropped>>

-------------------------------------------------------------------------------
\* The keys whose changes a subscription delivers.
Feed(s) == IF s = program THEN Reserves ELSE IF s = slot THEN {} ELSE {s}

\* A subscription begins: its receiver hears what changes from now on.
Begin(s) ==
    /\ link = "up"
    /\ subs' = subs \cup {s}
    /\ since' = [k \in Keys |-> IF k \in Feed(s) THEN chain[k] ELSE since[k]]
    /\ heard' = [k \in Keys |-> IF k \in Feed(s) THEN chain[k] ELSE heard[k]]

\* SubscribeSlot, and SubscribeProgram in Flash.
Subscribe(p, s) ==
    /\ phase = p
    /\ Begin(s)
    /\ phase' = Following(p)
    /\ UNCHANGED <<env, link, cancelled, mem, paging, left, dropped>>

SubscribeFails(p) ==
    /\ Skip(p, Following(p))
    /\ UNCHANGED <<env, link, cancelled, mem, paging, left, feeds>>

\* StartSubscribeAccount goes on behind an oracle it could not subscribe.
SubscribeAccount(o) ==
    /\ phase = "oracles"
    /\ o \in left
    /\ left' = left \ {o}
    /\ \/ Begin(o) /\ UNCHANGED dropped
       \/ dropped' = TRUE /\ UNCHANGED feeds
    /\ UNCHANGED <<env, phase, link, cancelled, mem, paging>>

Started ==
    /\ phase = "oracles"
    /\ left = {}
    /\ phase' = Following("oracles")
    /\ UNCHANGED <<env, link, cancelled, mem, paging, left, feeds, dropped>>

\* Stop, after ctx.Done: the caches are saved and the process ends with
\* all it knew; it ends by a panic when an oracle has no subscription.
Stop ==
    /\ phase = "run"
    /\ cancelled
    /\ phase' = "down"
    /\ link' = "up" /\ cancelled' = FALSE /\ dropped' = FALSE
    /\ mem' = Nothing /\ left' = {}
    /\ keys' = <<>> /\ index' = 0 /\ read' = Nothing
    /\ subs' = {} /\ since' = Nothing /\ heard' = Nothing
    /\ UNCHANGED env

-------------------------------------------------------------------------------
\* A transaction changes an account.
ChainUpdate(k) ==
    /\ updates < MaxUpdates
    /\ updates' = updates + 1
    /\ chain' = [chain EXCEPT ![k] = @ + 1]
    /\ UNCHANGED <<phase, link, cancelled, mem, paging, left, feeds, dropped>>

Follows(k) == \E s \in subs : k \in Feed(s)

\* A wrong variant of Deliver: a change may be dropped on the way.
Deliver_Drop(k) ==
    /\ link = "up"
    /\ Follows(k)
    /\ heard[k] < chain[k]
    /\ heard' = [heard EXCEPT ![k] = @ + 1]
    /\ mem' \in {mem, [mem EXCEPT ![k] = IF @ = 0 THEN 0 ELSE heard'[k]]}
    /\ UNCHANGED <<env, phase, link, cancelled, paging, left, subs, since, dropped>>

\* The next change of k is received and, were k known, applied.
Deliver(k) ==
    /\ link = "up"
    /\ Follows(k)
    /\ heard[k] < chain[k]
    /\ heard' = [heard EXCEPT ![k] = @ + 1]
    /\ mem' = [mem EXCEPT ![k] = IF @ = 0 THEN 0 ELSE heard'[k]]
    /\ UNCHANGED <<env, phase, link, cancelled, paging, left, subs, since, dropped>>

Break ==
    /\ phase \notin {"down", "connect"}
    /\ link = "up"
    /\ link' = "broken"
    /\ UNCHANGED <<env, phase, cancelled, mem, paging, left, feeds, dropped>>

\* A wrong variant of Abort: the receiver only returns.
Abort_Return ==
    /\ link = "broken" /\ subs # {}
    /\ subs' = {}
    /\ UNCHANGED <<env, phase, link, cancelled, mem, paging, left, since, heard, dropped>>

\* Recv returns an error: the receiver sends SIGABRT to its own process, and
\* shutdown cancels the context.
Abort ==
    /\ link = "broken" /\ subs # {}
    /\ ~cancelled
    /\ cancelled' = TRUE
    /\ UNCHANGED <<env, phase, link, mem, paging, left, feeds, dropped>>

\* The operator interrupts the process.  A second signal does nothing.
Interrupt ==
    /\ phase \notin {"down", "connect"}
    /\ ~cancelled
    /\ cancelled' = TRUE
    /\ UNCHANGED <<env, phase, link, mem, paging, left, feeds, dropped>>

-------------------------------------------------------------------------------
Start ==
    \/ Connect \/ LoadAccounts \/ LoadFails
    \/ LoadPage \/ PageFails \/ BuildPrices
    \/ Subscribe("slots", slot) \/ SubscribeFails("slots")
    \/ Subscribe("program", program) \/ SubscribeFails("program")
    \/ \E o \in Oracles : SubscribeAccount(o)
    \/ Started

Next ==
    \/ Launch \/ Start \/ Stop
    \/ \E k \in Keys : ChainUpdate(k) \/ Deliver(k)
    \/ Break \/ Abort \/ Interrupt

Spec == Init /\ [][Next]_vars

\* monitor.sh looks every 30 seconds; the calls of Start return, for the RPC
\* client has a timeout; receivers and main run.
Fairness ==
    /\ WF_vars(Launch) /\ WF_vars(Start) /\ WF_vars(Stop) /\ WF_vars(Abort)
    /\ \A k \in Keys : WF_vars(Deliver(k))

FairSpec == Spec /\ Fairness

-------------------------------------------------------------------------------
TypeOK ==
    /\ chain \in [Keys -> Version] /\ updates \in 0..MaxUpdates
    /\ phase \in {"down", "connect"} \cup {Phases[n] : n \in DOMAIN Phases}
    /\ link \in {"up", "broken"} /\ cancelled \in BOOLEAN
    /\ mem \in [Keys -> Version]
    /\ keys \in Seq(Oracles) /\ index \in 0..Len(keys) /\ read \in [Keys -> Version]
    /\ left \in SUBSET Oracles
    /\ subs \in SUBSET ({slot, program} \cup Oracles)
    /\ since \in [Keys -> Version] /\ heard \in [Keys -> Version]
    /\ dropped \in BOOLEAN

\* What is loaded is never newer than the subscription behind it, and what is
\* delivered replaces it: an account the bot knows is the one delivered last,
\* or it has not changed since it was subscribed, and only then may a change
\* between the load and the subscription be missing.
MemoryFollows ==
    \A k \in Keys :
        mem[k] # 0 /\ Follows(k) =>
            /\ mem[k] = heard[k] \/ (mem[k] < heard[k] /\ heard[k] = since[k])
            /\ heard[k] <= chain[k]

Named == {OracleOf[r] : r \in {r \in Reserves : mem[r] # 0}} \cap PriceAccounts
Priced == {o \in Oracles : mem[o] # 0}

\* The pages of a load are used together: when the prices are subscribed, the
\* bot has each price its reserves name, or none at all.
AllPricesOrNone ==
    phase \in {"slots", "program", "oracles", "run"} => Priced \in {{}, Named}

\* A Start without an error listens to the slots, to the program, and to the
\* oracle of every reserve.
CleanStartHearsAll ==
    phase = "run" /\ ~dropped =>
        subs = {slot, program} \cup Named /\ Priced = Named

\* A broken connection is noticed as long as one subscription succeeded, and
\* the process makes way for a new one.  (Without any it would stay deaf.)
BrokenIsRestarted == link = "broken" /\ subs # {} ~> phase = "connect"

\* A change of an account that is known and subscribed arrives, unless the
\* connection or the process goes down before.
EveryUpdateHeard ==
    \A k \in Keys, v \in 2..MaxUpdates + 1 :
        mem[k] # 0 /\ Follows(k) /\ chain[k] = v /\ since[k] < v
            ~> mem[k] >= v \/ link = "broken" \/ phase = "down"
===============================================================================
