# solana-liquidate in TLA+

A verification development of the Solend liquidation bot in this repository:
TLA+ models of its goroutines, TLC configurations that check them on small
instances, and TLAPS proofs of their main properties for all instances.

Run in this directory:

    tlc -config MCPriceTrigger.cfg MCPriceTrigger     # any run of PROJECT.json
    tlapm LiquidatorProofs.tla                        # any *Proofs module

`PROJECT.json` lists the runs, the mutant of the code that each property
detects, the source lines behind every definition, the hazards and the theorems.

## 1. The system

`liquidator` is one process. It loads the accounts of the Solend program and of
the Pyth oracles, subscribes to their changes over a websocket, and evaluates
all obligations whenever a price changes. An obligation that can be liquidated
becomes a transaction, which is sent to several RPC endpoints and to the TPU
ports of the leaders. `liquidatelistener` is another process: it polls an
explorer for liquidations by anybody and reports them to a chat.

    oracle accounts --RecvAccount*--> updateAccountChan --> pyth worker
                                                              | prices, updated
    Solend accounts --RecvProgramAccounts--> updateAccountChan --> solend worker
                                                              | obligations, ignore
                                        Calculate  <----------+
                                            | Commit (reads cachedBH)
                         +------------------+------------------+
                    transactions                         txChans[i]
                         |                                     |
              SendTransactions, one goroutine     Executor x 8 per endpoint
              per transaction (reads tpuConns)
    slots --RecvSlot--> updateBH --> CacheRecentBlockHash --> cachedBH
               \------> latestSlots --> newSlot <-> Refresh --> tpuConns

### Components, their state, and what makes them correct

| component | source | state | what must hold |
|---|---|---|---|
| price pipeline | `backend/accountsubscribe.go`, `pyth/program.go`, `solend/program.go` 290-329 | two bounded channels, `prices`, the pass of `Calculate` | coalescing signals loses no price; prices are applied and evaluated in order; nothing is dropped on a full channel |
| obligation book-keeping | `solend/program.go` 81-348, 866-888 | maps of accounts, a `Status` for each, `cached`, `needCheck`, `fireCounter` | no nil `Status`; the unlocked maps stay frozen; only informed ignoring; only healthy obligations are passed over; the rate limit |
| liquidation | `solend/program.go` 349-890, `env/users.go`, `env/markets.go` | the shared `*KeyedObligation`, selected indexes, instructions built | the transaction refreshes what it uses; an index is in range |
| transaction delivery | `backend/execute.go`, `backend/tpu/tpu_proxy.go` 114-168 | channels, executors, spawned goroutines | each committed transaction is handed to the TPU goroutine once and settled once at each endpoint, nearly in order; a dropped one closes the past |
| block hash cache | `backend/blockhash.go`, `backend/slotsubscribe.go` | `cachedBH`, `index`, `updateBH` | transactions do not go back in time, unless a failover does; levels differ; failover asks every source |
| TPU connections | `backend/tpu/*` | `latestSlots`, `newFresh`, `leaders`, `firstSlot`, `availableNodes`, `tpuConns` | no leader of the window is forgotten; connections follow the window; the two goroutines do not stop each other |
| listener | `liquidatelistener/main.go` | `Position`, the queue | each liquidation is reported once; shutdown ends the process |
| lifecycle | `liquidator/main.go`, `liquidator/liquidate/liquidate.go`, `script/monitor.sh`, `backend/programsubscribe.go` | what was loaded and subscribed, the context, the connection | what the bot knows follows what it hears; the prices are there together or not at all; a broken connection leads to a restart |
| account fetch | `backend/fetch.go` | the cursor of a paged load | the pages are used together |
| valuation | `solend/program.go` 349-622, `solend/layout.go` | the cursor of `unpack`, totals, selections | what is unhealthy is fired at, and little else; the reads stay inside |
| layouts | `solend/layout.go`, `pyth/layout.go` | none | each layout ends where its declared size does |
| the rest | `store`, `tokenlending`, `apricot`, `dingsdk`, `config`, `utils`, `env`, wallets, instruction encoding | | stubs, tables, formatting and I/O |

### What is hard about it

* Goroutines share maps and structures without locks (`p.obligations`,
  `p.ignore`, `*KeyedObligation`, `firstSlot`); some are protected only by the
  fact that no key is ever added after start.
* Signals are coalesced by draining a channel, in three places; each is correct
  only because of the order of draining and working.
* Channels are bounded and block their sender, so that a slow consumer stops
  the goroutine before it: `Commit` stops `Calculate`, the cache's RPC call stops
  `RecvSlot`.
* Time is the wall clock, in unsigned subtractions; amounts are unsigned and
  converted to signed.
* Requests fail and are not repeated, `Start` drops the errors of its steps, and
  panics and `SIGABRT` leave recovery to a restart.

`hazards` of `PROJECT.json` has them one by one, with line and property.

## 2. The modules

| module | models | refinement, proofs |
|---|---|---|
| `CoalescedTrigger` | abstract: a dirty flag, and passes over the obligations | |
| `PriceTrigger` | `RecvAccount`, the pyth worker, `updated`, `Calculate` | implements `CoalescedTrigger` (run, and theorem `Implements`); `LiquidatorProofs` |
| `Obligations` | `Start`, `updateAccount`, `calculate`, the head of `calculateRefreshedObligation`, the stamps of `liquidateObligation` | `ObligationsProofs` |
| `Liquidation` | the rest of `calculateRefreshedObligation`, and `liquidateObligation`, against concurrent assignments to the layout | `LiquidationProofs` |
| `Layouts` | where the `unpack` functions of `solend` and `pyth` read | |
| `Valuation` | the numbers: unpacking an obligation, rates, market values, totals, selections, verdict; extends `Layouts` | `ValuationProofs` |
| `TxDelivery` | abstract: what committing promises | |
| `Executor` | `Commit`, `Executor`, `execute`, `SendTransactions`, `SendTransaction` | implements `TxDelivery` (run, and theorem `DeliveryImplemented`); `LiquidatorProofs` |
| `Liquidator` | composition: extends `PriceTrigger` and `Executor`; `Calculate` is the goroutine they share | keeps the promises of both (theorem `PromisesKept`); `LiquidatorProofs` |
| `BlockHash` | `RecvSlot` up to its signal, `CacheRecentBlockHash`, `GetRecentBlockHash` | `BlockHashProofs` |
| `TpuProxy` | `CommitSlot`, `newSlot`, `RefreshConnection`, `LeaderScheduleService`, `AvailableNodesService` | `TpuProxyProofs` |
| `Listener` | the paging, the details, the queue, `Notify` and `shutdown` of `liquidatelistener/main.go`, with 200 answers that lack the page or the detail | `ListenerProofs` |
| `Lifecycle` | `main`, `liquidate.Start` and `Stop`, `getAccountsFromChain`, the subscriptions, `shutdown`, `monitor.sh` | `LifecycleProofs` |

`MC*.tla` give constants that need an expression, `MC*.cfg` are the runs.

### From code to model

* A goroutine has a variable `...pc`; an action is the code between two points
  where another goroutine can observe or disturb it: a channel operation, an
  access to unlocked shared data, an RPC call, a lock.
* A channel of structures is a sequence with a capacity, a channel whose items
  are only counted (`updated`, `updateBH`) a number. A send waits for room.
* Prices and account data are versions; a block hash is the number of its block
  with its source; a command is the number of its `Commit`; a transaction of the
  listener is its place in the history of Solend.
* The evaluation of an obligation is modelled three times, each with what one
  question needs. In `Obligations` it is a verdict out of all possible ones, with
  all that surrounds it. In `Liquidation` it is the order of reads and the
  indexes, with comparisons that go either way, under a concurrent update. In
  `Valuation` it is the numbers, undisturbed; its verdicts are those that
  `Obligations` chooses from.
* Numbers in `Valuation` are integers: dollars in units of `1/Scale`, rounded
  down. `big.Float` rounds at 53 bits or more, which is finer. Amounts are
  modulo `Modulus`, and `Signed` is the conversion to `int64`.
* Assigning a layout is not atomic in Go. `Liquidation` copies it field by field
  in any order, and lets a reader see a slice whose length is new while its
  array is old or the other way round (`Tear`, `Slice`).
* The clock of `Obligations` advances and may be set back; differences are
  modulo `Modulus`, as `uint64` arithmetic is modulo 2^64. So is the clock of
  `Executor`: a command is stamped with it (`ids`), and dropped when the unsigned
  difference exceeds `MaxAge`, which it also does when the clock is set back
  behind the stamp.
* `SendTransaction` writes a transaction 1 + 100 times to every connection of the
  TPU proxy. The model has one step for all of them: "once" in the properties is
  about handing over and settling, not about the writes.
* The history variables `shaken` (`Executor`), `raced` and `overtaken`
  (`Liquidation`), `lost` (`TpuProxy`), `skipped` (`Listener`) and `dropped`
  (`Lifecycle`) record that something happened from which the code does not
  recover; the properties name them where they make an exception.
* In `Lifecycle` a load may be behind the chain (it asks for finalized data), a
  subscription delivers each change from its beginning on, and every step of
  `Start` may fail. `dropped` remembers whether one did.
* `Fail`, `FetchFails`, `PageFails`, `SubscribeFails`, `EmptyPage`, `Panic` are
  the RPC and HTTP errors. What is logged is not modelled.
* Operators named `X_Something` are not part of a specification. They are the
  ways in which `X` could plausibly be wrong; each property is shown to reject
  one of them.

Configuration is as in production: `flashloan` FALSE, `noreturn` TRUE,
`simulate` FALSE, `sendTx` 3, `Try` 0 (its retry loops are dead code).

## 3. The runs

| run | question | instance | distinct states |
|---|---|---|---|
| `price_trigger` | Is a price lost, applied late or out of order? Does the pipeline implement the dirty flag? | 2 oracles, 2 obligations (one reads both oracles, one reads one twice), capacities 2 and 1, 3 versions | 250 000 |
| `liquidator` | Does back-pressure from the endpoints lose a price, or stop the receivers for good? | 1 oracle with 6 versions of its account, read twice by 1 obligation, 1 endpoint with 1 executor, all capacities 1, 2 transactions, a clock that stands still | 137 000 |
| `obligations` | Status flags, rate limit, frozen maps; is only a healthy obligation passed over, even when the clock is set back? | 1 obligation, 1 reserve, 1 other account, `Rate` and `Window` 2 units, time up to 4, `Modulus` 16 | 800 000 |
| `liquidation` | What holds although the layout changes underneath, and which stores make a transaction miss a reserve? | 4 reserves of which one is unknown, 8 layouts, 2 updates | 4 560 000 |
| `liquidation_race` | Does the transaction refresh what it liquidates? It does not | 1 update | violation |
| `executor` | Is a transaction lost, settled twice, overtaken by too many, or never settled? Does a drop close the past, even when the clock is set back? | the TPU and 1 endpoint with 2 executors, capacity 2, 3 transactions, `MaxAge` 0, time up to 1, `Modulus` 4 | 159 000 |
| `block_hash` | Order of hashes, failover; is `RecvSlot` ever stuck? | 2 sources, 3 blocks, a signal every 2nd slot, 8 slots, capacity 2 | 31 000 |
| `tpu_proxy` | Is a leader overlooked? Can the two goroutines stop each other? | window of 3 slots (`Past` 1, `Upcoming` 2), slots 5 to 8 with gaps, capacities 1, 1 failed fetch | 416 000 |
| `listener` | Is a liquidation missed or reported twice? Is each reported in the end, and does the process end? | pages of 2, 4 transactions of every kind of which one may be no liquidation, queue of 1, 1 blank page or detail | 257 000 |
| `lifecycle` | What does the bot know and hear after a start of which every step may fail? Does it restart? | 3 reserves, 3 oracles of which one cannot be built, pages of 2, 1 change on the chain | 51 000 |
| `valuation` | What is fired at, what is never missed, where may the code panic? | 4 reserves, 777 accounts at 16 price vectors, `Modulus` 64, fullest accounts included | 147 000 |
| `valuation_units` | Is what is fired at worth the threshold? It is not | as above | violation |

The bounds are chosen so that every channel fills and empties, every sender
blocks, every counter passes its threshold and returns, and at least two of
everything that can be reordered are under way: two updates behind each other
(`price_trigger`), a pass while an account update is between its two steps
(`obligations`), two updates within one evaluation (`liquidation`), a third
transaction while both executors hold one and the clock on either side of its
stamp (`executor`), a `Commit` that waits for room with the signal queue full, the
worker waiting to notify, the account channel full and the receiver waiting in
front of it, which takes five accounts behind the one that started the pass
(`liquidator`), a scan that overlaps a fetch, a request that waits for room while
the check point moves over its slot, and a fetch that moves it back (`tpu_proxy`), a
poll of two pages with new transactions in between (`listener`), a load of two
pages with a change between load and subscription (`lifecycle`), amounts on both
sides of half the modulus and accounts that are as long as the chain admits
(`valuation`). The proofs remove the bounds for all that is safety.

`CHECK_DEADLOCK FALSE` stands where the system really may stop: the runs bound
what the outside world does, and some programs end. `MCValuation` also evaluates
`LayoutsFit` and `ComponentsFit` of `Layouts`, as an assumption: they are about
constants.

### The findings

**`RefreshesAllReserves`** fails in `liquidation_race`. `liquidateObligation` says
"refresh all reserves" (`src/solend/program.go:741`) of its two loops, but then
looks the repay and the withdraw reserve up again, by index, in the shared
layout. When `updateAccount` replaces the layout between the loops and those
lookups, the transaction liquidates with a reserve that it does not refresh, and
the program rejects it. `UndisturbedIsConsistent` shows that this is due to the
race alone. `MissesAreRaced` says which stores it takes: the withdraw reserve is
missed only if the deposits were stored to between the loop over the deposits and
its lookup, the repay reserve only if the borrows were stored to between theirs;
an update at any other time of the evaluation does no such harm.

**`WorthTheThreshold`** fails in `valuation_units`. The last check of
`calculateRefreshedObligation`, whose error is "too small borrowed value"
(`src/solend/program.go:615`), compares `BorrowedAmount`, base units of the
token, with the threshold that line 546 uses for dollars. An obligation whose
USDC borrow is worth next to nothing is fired at when another borrow makes its
total large enough.

### What properties say beyond that

* `NoLostUpdate` is the reason to drain `updated` before calculating: the
  mutant that drains after it fails, alone and in `Liquidator`.
* `EveryPriceConsideredWhileSending` and `EveryAccountAppliedWhileSending`: a
  chain of full channels from an endpoint back to the websocket delays, and
  unwinds without a loss. They except the end of the context, after which the
  executors may leave and `Commit` may wait for good.
* `PassedOverWasHealthy` holds with a clock that steps back because the unsigned
  difference becomes huge; the mutant with a signed one fails. `RateLimit`, in
  contrast, holds only until the clock is set back.
* `NothingSentBehindADrop`: an executor checks the age of a command and sends it
  later, so an older command may still be sent when a newer one was dropped; but
  from a drop on, no executor decides to send anything that old. This holds as far
  as the clock was not set back since the older one was committed. When it is, the
  difference wraps for commands it has not reached again: the code drops a fresh
  command and still sends an older one. Without the exception for `shaken` the run
  finds just that.
* `NoHiddenSlot` has an exception, the slots that were asked for in vain. There
  are two ways to get there, and the proof found the second. `Refresh` merges the
  requests it finds into one fetch from the smallest of them: the fetch may fail,
  or the smallest may lie so far behind the others that three windows from it do
  not reach them. Either way, when a request for later slots is served while the
  same scan goes on, the check point moves over the forgotten slots and nobody
  asks for them again; they stay unknown unless a later fetch begins within
  `PAST_SLOT_SEARCH` of them. Apart from these, no slot between the scan and the
  check point is unknown, although `GetSlotLeader` reads the check point without
  the lock and may send the request long after it has moved.
* `RegressNeedsFailover`: transactions carry hashes in order, except after
  `index` moved to a source that lags; the zero hash never returns.
* `Complete` excepts what a blank answer hides, a 200 whose content nobody looks
  at: `Position` moves although the search was cut short, or a transaction without
  its detail passes for one that liquidates nothing. Only that one is lost.
* `ExitsUnlessFull`: after a signal, a poller that waits on a full queue whose
  reader has left never returns, and neither does `wg.Wait` in `main`.
* `MemoryFollows` says precisely what loading before subscribing costs: a known
  account is the one heard last, or nothing was heard of it since it was
  subscribed, and only then can a change be missing.
* `CleanStartHearsAll` needs a start without an error. With one, the bot may run
  without prices, or deaf; `BrokenIsRestarted` shows that a broken connection is
  noticed as long as a single subscription succeeded.
* `UnhealthyFires` computes with the rules of the chain, in unsigned numbers, and
  excepts amounts of 2^63 and more, which the code takes for negative.
* `SelectionLossBounded`: a candidate's fresh value is compared with the stored
  value of the one selected. The best deposit may be missed, but by no more than
  the largest drift of a stored value for each further deposit.
* `PanicNeedsTwoUSDC`: `src/solend/program.go:523` indexes the deposits with the
  index of a borrow; that takes two USDC borrows and too few deposits. Whether
  the chain admits such an account is decided outside this repository.

### Fairness

Weak fairness of a goroutine's steps: Go's scheduler runs what is runnable, and
a goroutine blocked on a channel gets its turn when there is room. RPC and HTTP
calls return, with an answer or an error: the RPC client has a timeout. The
client of the listener has none, so that for `Listener` this is an assumption
about the explorer: a server that keeps a connection open and says nothing stops
the poller for good. Strong fairness is assumed only in `Listener`, for leaving
at cancellation, because `select` chooses at random among the ready cases.
Where several receivers compete for one channel (`OnAccountUpdate`), the queue
of waiting senders of a Go channel is first in, first out, and each is weakly
fair. In `Liquidator` the executors serve their channels only while the context
is not done. In `Lifecycle` the script looks again every 30 seconds (`Launch`),
the calls of `Start` return, and receivers deliver while the connection is up.
Nothing is assumed of the outside: no oracle has to publish, nobody has to
commit, to cancel, to interrupt, to use Solend, or to answer with success.

## 4. The proofs

For every value of the constants that the assumptions of the modules allow. Each
proof module has type correctness as `TypeCorrect`; the other theorems are listed
in `PROJECT.json` with the properties they state.

**`LiquidatorProofs`** has three parts. The first is about `PriceTrigger` (any
oracles, obligations, capacities): `NoUpdateIsLost`, `PricesNeverRegress`,
`Implements`. The inductive invariant `IInv` adds to `TypeOK` and `NoLostUpdate`:

* `CurInv`: the obligation visited is no longer to be visited in this pass;
* `VisitInv`: the visit under way has seen current prices up to `pos`, or a signal
  is in flight. `NoLostUpdate` alone is not inductive: without this, a price that
  changes behind `pos` could go unnoticed when the visit ends;
* `Ordered`: what waits for the worker is in order, for each oracle, and lies
  between what was applied and what was received last;
* `SeenInv`: nothing was evaluated with a price from the future.

The second is about `Executor` (any endpoints, executors, capacity, transactions):
`NothingIsLost`, `DropsCloseThePast`, `DeliveryImplemented`, `OvertakingBounded`.
The inductive invariant `DeliveryInv` says that a channel holds, in order, what
follows the last command that left it (`InOrder`), that what left it is held by
someone or has its outcome, but not both (`Placed`), that no executor has two
commands and no command two executors (`OneEach`, `Distinct`), and that since the
clock was last set back the stamps are ordered and have been passed, and what was
dropped is too old and stays so (`TimeInv`). For the refinement, `Status` maps
the channels and locals to `TxDelivery`. Its bound on overtaking follows from
counting: the earlier commands an endpoint has not settled are all held by other
executors of it, so that they inject into the set of workers without the one that
settles. `OvertakingBounded` turns this into an invariant: at any time, an
endpoint that settled a command has fewer than `ExecutorSize` earlier ones that it
has not.

The third is about the composition. Every step of `Liquidator` is a step of the
pipeline or leaves it alone (`PipelineInside`), and the same for the delivery
(`DeliveryInside`), so that what was proved of the parts holds of the whole:
`PromisesKept` carries `NoLostUpdate`, `NoRegress`, both refinements, `Accounted`,
`NearlyInOrder` and `NothingSentBehindADrop` over. `CommitInForce` is about both
at once: a transaction enters a channel, be it after a long wait for room, only
while the prices its evaluation read are in force, or while a later pass is
certain. It needs `JointInv`, that a `Commit` under way belongs to a visit which
has read all its prices.

**`ObligationsProofs`** (any accounts, window, rate, clock): `NoNilDereference`,
`MapsStayFrozen`, `SurvivorsStay`, `OnlyHealthyPassedOver`, `RateIsLimited`,
`IgnoringIsInformed`. `IInv` adds `KindInv` (an account enters only the map of its
kind), `IdleInv` and `StampInv` (what the locals hold at each pc), `BackupInv`
(`Backup` is set only with the time of a healthy verdict) and `CounterInv`. Two
theorems need more: `Rates` (until the clock is set back every stamp lies in the
past, and what passed the rate check stays beyond it) and `InformedInv` (a visit
that may still mark its obligation judged the data that is there, or was
overtaken).

**`LiquidationProofs`** (any reserves, layouts, updates): `OnlyRacesMiss`,
`UndisturbedConsistent`, `PanicIsOvertaken`. The first follows a list from the loop that refreshes its
reserves to the lookup: as long as nobody stores to it, all its reserves are
refreshed, and so is the one looked up in it (`Misses`). For the second,
`Consistent` says that an evaluation that nothing overlapped has a whole layout
before it (`Copied`: what of an assignment is done is in place), that its range
slice is that of the layout (`Looping`), that what it selected is of the right
kind and in range (`Selected`), and what its instructions hold at each step
(`Building`). The third adds the hypothesis `OneUsdcBorrow`: no layout has two
borrows of USDC. Without it line 523 panics undisturbed, as `Valuation` shows.

**`ValuationProofs`** (any accounts, prices, threshold): `ReadsInside`,
`PanicIsTwoUSDC`, `SelectionLoss`, `UnhealthyIsFiredAt`, `FiredAtIsNear`. `CursorInv` gives the cursor of `unpack` as a
function of the entries behind it; with `ChainAssumption` (ten entries, no borrow
without a deposit) it stays inside. `SelectionInv` places the selections before
the loop's index, and `LossInv` bounds the loss after each deposit. On top of
these, `SumsInv` says that the running totals are the sums of the entries before
the index, `FoundInv` that a USDC entry among them was selected, and `VerdictInv`
that an account of known reserves is judged by the full sums, or panics. The
verdict then follows from the totals, which are those of the chain as long as no
amount reaches 2^63 (`SolendLists`). A sum is a recursive function (`Sums`), for
which the prover has no induction theorem that it can instantiate; the facts
about it are proved by the least index at which they would fail.

**`BlockHashProofs`** (any number of sources): `AllErrIsHonest`, `LevelsDiffer`,
`RegressIsFailover`. `AskedInv` says which sources are still to be asked, as an
interval modulo the number of sources: the loop starts at any `index`. `OrderInv`
says that the last hash used, the newest cached one and the one about to be
stored are ordered if they share a source, and that no node is behind a hash it
has given.

**`TpuProxyProofs`** (any schedule, window, capacities, slots, failed fetches):
`NoSlotIsHidden`, `ConnectionsOfTheWindow`. The inductive invariant follows a slot
from the subscription to the connection: slots are taken in order (`SlotsInv`),
the scan stays in its window (`WindowInv`), a fetch begins at the smallest slot
of its batch (`BatchInv`), before any slot asked for the scan has passed all of
its window (`MarksInv`; this holds of a request whenever it is sent, so that the
stale check point does no harm), what a fetch stores is without a gap (`MapInv`), what the
scan passed is known, asked for, or forgotten (`PassedInv`), and a promised leader
is found already or lies ahead of the scan (`ConnInv`).

**`ListenerProofs`** (any page size, queue, history): `NothingIsMissed`,
`NothingIsRepeated`. `Complete` and `ToldOnce` become inductive with `Bounded`
(all that was found is up to `Position`), `EmptyHanded` (nothing is at hand while
paging), `AtHandOnce` and `Unsure` (what a detail is asked for is not known yet), `Paging` (what was collected so far reaches from the newest of
the first page down to `before` without a gap, although the history grows) and
`Gathered` (in the end down to `Position`, but for what is skipped).

**`LifecycleProofs`** (any reserves, oracles, page size, changes):
`MemoryIsFollowed`, `PricesAllOrNone`, `HearsAllOracles`. The invariant has what
is known before and during the load (`Early`, `Behind`, `Loading`), what a start
without an error has subscribed at each phase (`Clean`), and what a subscription
guarantees (`Heard`).

Assumptions are those named in the modules, all about constants: capacities and
page sizes are positive, sets of keys are disjoint, there is a source of block
hashes, the clock's range fits into its modulus, the chain holds no account
beyond its size.

Every invariant and every safety property of the passing runs is a theorem, and
so are both refinements. Only model-checked is what needs fairness or `ENABLED`,
which are beyond the prover: `EveryPriceConsideredWhileSending`,
`EveryAccountAppliedWhileSending`, `EveryCommandSettled`, `EverySlotFollowed`,
`SlotsKeepComing`, `EveryLiquidationTold`, `ExitsUnlessFull`, `BrokenIsRestarted`
and `EveryUpdateHeard`. `Layouts` has only constants, which TLC evaluates.

## 5. What is not modelled

* **Encodings.** The bytes of instructions, base58, keys. `Layouts` has where
  accounts are read, not what the bytes become.
* **Floating point.** `pyth` prices and `big.Float`: `Valuation` rounds to a unit,
  and the borderline it draws is the one of exact arithmetic up to that.
  `allowedBorrowValue` and the selections that only the flash loan reads are left
  out.
* **Cancellation** in `Executor`, `BlockHash` and `TpuProxy`, whose goroutines
  are not waited for; `Liquidator` has it for the executors.
* **The flash loan,** `simulate`, the retry loops: switched off or dead.
  `store` is never set, the callback of `AdditionalSlot` is nil, the token lending
  and apricot packages are stubs no executable uses.
* **Lending markets** as state: all that `Liquidation` has of them is that the one
  an obligation names may be unknown. Their updates are skipped by `updateAccount`.
* **Files.** The configuration is read once; the cache files that `Stop` writes
  are read by nothing. The selection of validators takes one more than configured
  (`src/liquidator/main.go:80`); the models hold for any number.
* **Two instances at once.** `monitor.sh` counts processes by name; the listener
  has no state on disk, so that a restart reports the newest transaction only.
* **Dialing** of TPU addresses, wallets, the chat client: I/O without state.

## 6. Plan

All of the modules planned exist. In this order, what would add most:

1. `BlockHash` and `TpuProxy` composed over `RecvSlot`, which feeds both
2. The flash loan variant of `Liquidation`, should it be switched on
