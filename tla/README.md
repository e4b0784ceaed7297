# A TLA+ model of silver-lynx

`silver-lynx` is a bot that trades equity options at Tastytrade: it wakes up
when the market is open, looks at the positions of the managed accounts, closes
what its exit rules tell it to close, moves each position group towards its
target size, and seeds new positions, some of them on signals of a "secret"
socket.  It is one Node process.  There are no threads; what makes it hard is
that every broker call is an `await`, that several activities (a scheduled
cycle, a cycle requested over IPC, a socket update, a signal handler) are under
way at once, that their state lives in module variables and in JSON files which
are read, changed in memory and rewritten, and that the broker fills, refuses,
cancels and expires orders whenever it likes.

This directory holds TLA+ modules that model the parts where that matters, TLC
configurations that check them on small instances, and TLAPS proofs of what
holds for every instance.

* [1. The system](#1-the-system)
* [2. The modules](#2-the-modules)
* [3. The runs](#3-the-runs)
* [4. The proofs](#4-the-proofs)
* [5. What the model found](#5-what-the-model-found)
* [6. What is not modelled](#6-what-is-not-modelled)
* [7. Plan](#7-plan)

Paths below are relative to `src/src/` unless they say otherwise.

## 1. The system

| component | source | state it keeps | operations |
|---|---|---|---|
| Market-open scheduler | `bot/market-open-scheduler.ts` | one timer, the `inFlight` flag, mode, time of the last run | start, stop, tick |
| Run cycle | `bot/run-cycle.ts`, `bot/run-cycle-context.ts` | none of its own; a context passed from step to step | cancel sweep, evaluate, close, allocate, seed, report |
| Cancel sweep | `bot/execute-position-evaluations.ts` | a cache of ids known to be terminal | `cancelAllLiveOrders` |
| Close tick-chase | `bot/actions/close-position.ts`, `order-utils.ts` | the working order of the leg being closed | `closePosition`, `runCloseTickChase` |
| Spray-buy executor | `bot/actions/spray-buy.ts`, `spray-store.ts`, `spray-ramp.ts` | `spray-buys.json`: one record per spray | `startSprayBuy`, `advanceSprays`, `abortSprayBuy` |
| Stop persistence | `bot/actions/stop-persistence-store.ts`, `strategy/stop-persistence.ts` | `stop-persistence-state.json`: a streak per group; a promise chain as its lock | read and record a streak |
| Position evaluation | `bot/evaluate-position.ts`, `get-position-evaluations.ts` | none | evaluate every group of an account |
| Allocation management | `bot/actions/manage-allocation.ts`, `bot/allocation-*.ts` | the budget left in this cycle | gate a group, split over routes, chase them |
| Seeding | `bot/seed-symbol.ts`, `run-cycle-seed.ts`, `purchase-symbol.ts` | outcome store | seed a symbol in one account or across accounts |
| Secret auto-seed | `strategy/secret/secret-auto-seed.ts` | four cooldown maps | handle a feed update |
| Secret socket | `strategy/secret/secret-socket-state.ts` | connection, authentication, queue of pending logs, the feed's cache and its file | connect, authenticate, flush, rehydrate |
| Quote streamer | `core/quote-streamer-session.ts`, `quote-streamer-recovery.ts` | the open session, the reconnect round, the exit timer | open, close, reconnect, restart |
| Position registry | `bot/position-registry.ts` | a JSON file: provenance of every position | record open/close, sync, reconcile |
| Scale-out store | `bot/actions/scale-out-store.ts` | a JSON file: the groups whose remainder is a runner | read, record |
| Process lifecycle | `index.ts` | none | start everything, `gracefulShutdown` |
| IPC server | `ipc-server.ts` | connections | frame requests, run commands, exit on a signal |
| Overnight reductions | `bot/overnight-position-reduction.ts` | none; finds its earlier orders in the sweep's result | reduce what is held overnight |
| Trading strategy | `strategy/evaluate-trading-strategy.ts` | none | decide on a group, at evaluation and again at execution |
| Filters, sizing | `strategy/*.ts` | none | answer a gate, size a seed |
| Broker client | `core/*.ts` | a session token | HTTP calls |
| History and reports | `bot/run-history.ts`, ... | append-only logs | append, derive |

How they interact.  The scheduler calls `runBotCycle`, and so does the IPC
server; nothing excludes one while the other runs.  A cycle cancels the live
orders it does not protect, asks the evaluation for what to do with each group,
closes, allocates and seeds; seeding may start a spray that later cycles
advance.  The secret socket seeds on its own, beside any cycle.  The stores are
shared by all of them.  `gracefulShutdown` stops the scheduler and sweeps while
a cycle may still be placing orders.  The broker's book is the one state that
everybody reads late and nobody owns.

What makes each component correct, in a sentence:

* scheduler: it never sleeps for ever, and one tick runs at a time;
* shutdown: the process ends, and no order is left that could be cancelled;
* spray: it never buys more than its ramp allows, with one order at a time, and
  it is over at its deadline;
* close chase: it never sells a contract twice, nor more than it was asked to;
* auto-seed: one stake per account and symbol, unless two attempts at it overlap, and
  no symbol is benched for ever;
* stop persistence: a stop fires on `Required` distinct cycles, not earlier, and
  not never;
* quote streamer: one session with the server at a time, one recovery at a time,
  restarts that back off, and no fault that leaves it deaf for ever;
* position registry: the overnight override closes what was held overnight and
  nothing else; no entry outlives its position, no position stays untracked;
* run cycle: nothing is decided on a book that was not swept; no cycle buys what
  it sells or sells what it does not hold; a runner has sold its first tranche;
* allocation: money is neither lost nor spent twice between the groups of a
  cycle, and no group or account grows beyond its ceiling;
* seeding: an attempt, whatever passes it nests, ends in at most one order that
  suits its account and its caps;
* exit rules: a close for profit books none but profit, a close for risk is
  carried out, and nothing that puts a stop off puts it off for ever;
* secret socket: no log line is lost but to the queue's cap, none overtakes
  another, and the cache never looks newer than it is;
* IPC server: every request runs once, however its line is cut into chunks.

`PROJECT.json` lists the hazards of the code, each at its line and with the
properties that would catch it.

## 2. The modules

All modules follow the same conventions.  An asynchronous function is split into
one action per `await`: between two of them anything else may happen.  Names of
variables and actions are those of the source where TLA+ allows it.  Failure
modes of the environment are Boolean constants (`LostReplies`: `createOrder` may
throw although the broker took the order; `AnswersLackId`: its answer may name no
order, which a spray treats like a lost reply, and a seed does not look at; `CancelIsFinal`: an accepted cancel
has already happened; `StatusErrors`, `StoreErrors`, ...), so that a run can say
under which of them a property holds.  Names that begin with a capital are the
model's own.  A definition under the comment "Mutant" is a plausible bug: the
specification does not use it, it documents what the properties would notice.

### SprayBuy

`store` is the content of `spray-buys.json`; `orders`, `placed` and `bought` are
the broker's; the rest are the local variables of the three activities (`cycle`,
`start`, `abort`) and where each of them waits (`pc`).

| action | code |
|---|---|
| `advanceSprays`, `NextSpray`, `CycleEnds` | `advanceSprays` and its loop |
| `startSprayBuy`, `abortSprayBuy` | the same, with `registerSpray`, `abortSpray` |
| `ReconcileOrder` | `reconcileWorkingOrder` and the deadline check of `advanceOneSpray` |
| `UsableQuote`, `NoQuote` | `resolveChaseContext`, the decision in `driveWorkingOrder` |
| `RetireOrder`, `CancelAccepted`, `CancelFailed`, `RecheckOrder` | `retireWorkingOrder` |
| `PlaceAccepted`, `PlaceRejected` | `placeChase` |
| `ReadForSave`, `TruncateFile`, `writeStore` | `saveSpray`, and `fs.writeFile`, which truncates first |
| `AdvanceThrows` | an exception that leaves `advanceOneSpray` |
| `FillOne`, `OrderDies`, `Tick`, `Crash` | the broker, the clock, the process |

Abstracted: prices (whether the working order is re-priced is a free choice,
except that a size mismatch forces it), the tick clock, the arithmetic of
the ramp, which enters as a non-decreasing function of time.

### Purchase

What buying in instalments promises, without the executor: an allowance that only
grows, one order at a time, placed for no more than the allowance leaves, and what an
order has filled counts when the next one is sized.  `SprayBuy!Promise` is the
refinement mapping: the allowance is what the ramp has unlocked (`Unlocked`), open is what
the orders of the spray in the book may still fill (`OpenOrders`), bought is what the
broker has sold.  A tick is an `Unlock`, an accepted placement an `Order`, a fill a
`Fill`, an accepted cancel and the death of an order a `Withdraw`.  Everything else, the
store, the copies of the record, status calls and quotes, is a stutter.

### MarketOpenScheduler, GracefulShutdown

`MarketOpenScheduler` has `schedulerState` and, for each tick under way, what it
awaits.  Stopping does not stop a tick, as in the code.  Time is kept as
countdowns and ages, so behaviours are infinite over finitely many states.
`GracefulShutdown` extends it with the orders the cycles place, the cancel sweep
and the two handlers of one signal (`index.ts`, `ipc-server.ts`).  The wait loop
has no action: it polls the flag that `stopMarketOpenScheduler` has just
cleared, so it is left in the step that enters it.

### IpcServer

One connection, at the grain of the data handler's awaits.  `buffer` is the
handler's, `newlineIndex` that of the handler which runs right now, `waiting` the
handlers that have taken a line and await its command; each keeps the index it
found, as the code's `let` does, while the next chunk changes the buffer under
it.  `DataArrives`, `TakeLine` and `Answers` are the handler up to, around and
after `await handleRequest`.  A line is three pieces and a newline, and a chunk
may end anywhere.  What commands do is in the modules that have them as actions
from outside the cycle (`Outside`, `Overlap`, a second cycle, a seed with no
account).

### AutoSeed

`stamp` holds the four cooldown maps as ages; a handler is one call for a feed
update.  `hasOpenUnderlyingPosition` reads positions (`held`), not working
orders (`live`), as the source's own comment says.  Handlers overlap as they do in
`secret-socket-state.ts:174` and `:192`, where each is started with `void`; `raced` is a
history variable that names the keys at which two attempts did.

### Seeding

What happens inside one attempt, which `AutoSeed` has as one call.  `pass` is
the recursion of `seedSymbol`: the first pass, the cheaper pick it tries when the
first is unaffordable, and the contract margin holds, which a cash seed may fall
back to.

| action | code |
|---|---|
| `SeedAsked`, `ResolvesAccount` | callers by feed and IPC; `resolveSeedAccountNumber` |
| `maybeSeedMarginAccountFromCashAccount`, `maybeSeedCashAccountFromMarginAccount` | the cross-account seeders of `run-cycle-seed.ts` |
| `ChecksBench`, `ChecksPosition` | the closing-only cache; `hasOpenUnderlyingPosition` |
| `Selects` | `getTopOptionCandidateForSymbol`, the in-the-money and the wider-window retry, `checkCashSeedDte` |
| `Quotes`, `ReadsPower`, `Sizes` | limit price, buying power, `resolveSeedQuantity` under the caps |
| `DryRuns`, `OrderSeed`, `trySpraySeed`, `PlaceThrows` | preflight, `createOrder`, the spray |
| `OrderFills`, `OrderDies`, `PositionCloses`, `RestrictionChanges`, `BenchExpires` | the broker and the clock |

Abstracted: the walk through a chain is its possible answers; the size a model
wants is any up to the band's ceiling; prices are small integers.

### SecretSocket

`pending` is `pendingSecretLogs` with its cap, `cached` and `disk` the feed's cache
in memory and in its file, of which an update is named by the time it came.
Restarts, broken links, refused and lost acknowledgements are steps of their own.
Reception of a data update has a choice at each write of the file, which may fail.

### CloseChase

One call of `closePosition`: legs, rungs, budget, edge and re-quote, with the
price arithmetic of the source on integers.  `orders` is the broker's book, `active`
the order whose id the chase has in hand and `response` whether a placement was answered
at all.  The two differ when an answer names no order (`AnswersLackId`, `PlaceUnnamed`):
the chase has nothing to poll and nothing to cancel then, and goes on to the next rung
beside whatever the broker took.  `answer` is a history variable that says of each order how
its placement was answered; the properties are about the orders that were not
answered without an id (`Counted`), and have to hold of them whatever else is in the book.
With all orders counted the code breaks every one of them (section 5).

### Sale

What a close promises, without the chase: of each leg one quantity at a time is on
offer, what sold is not offered again, no leg is offered beyond what is held, and all
legs together sell and offer within `maxQuantityToClose`.  `CloseChase!Promise` is the
refinement mapping: on offer is what the working orders of a leg may still sell
(`OnOffer`), sold is what its orders have filled (`SoldBy`).  An accepted placement is
an `Offer`; a fill is a `Sell`; an accepted cancel and an expiry are a `Withdraw`; a
quote, a poll, a refused cancel, a move and a report are stutters.

### RunCycle

`orders` is every order the account ever had (its index is its id), `held` what
the broker holds, `terminal` the sweep's cache `terminalOrderIdsByAccount`,
`scaled` the scale-out store, and `cycle` the locals of each cycle under way.

| action | code |
|---|---|
| `SweepLists`, `SweepCancels`, `SweepCancelFails`, `SweepEnds` | `cancelAllLiveOrders`, twice in a cycle |
| `Snapshot` | `buildRunCycleContext`, `withOvernightCloseOverrides` |
| `Select` | the guards and the selection of `executePositionEvaluations` |
| `CloseGroup`, `ClosesDone`, `RecordCloses` | the concurrent closes and the scale-out rows after them |
| `ManageGroup`, `ManageDone` | allocations, one group after the other |
| `ReduceGroup`, `ReducesDone` | `executeOvernightReductions` |
| `SeedChecks`, `SeedPlaces` | the cross-account seed of the cycle |
| `CycleBegins`, `CycleEnds`, `CycleThrows` | `runBotCycle` |
| `OrderFills`, `OrderExpires`, `OrderStalls`, `TimePasses` | the broker and the clock |

What a close, an allocation or a seed does inside is in `CloseChase`, `Allocation`
and `Seeding`; here each leaves an order in the book or does not.  What the
strategy answers is any answer it has for such a group.

### Allocation

One cycle's allocations on one account: `buying` and `exposed` are the budget that
the groups hand on, `in` what the group being served looks like, `qty` the split
over the routes, `route`, `price`, `ticks`, `live`, `filled` the chase.

| action | code |
|---|---|
| `SkipGroup`, `SizeGroup` | the gates of `manageAllocationForGroup`, up to the capital of the group |
| `FloorShares`, `GiveOneMore`, `NothingMore` | `allocateContractsByWeight` |
| `TrimOne` | `clampRouteOrdersToMaxTotalQuantity` |
| `RetryOnHeld`, `GiveUp` | the held-contract fallback at the sizing step |
| `StartBuying`, `EmptyRoute`, `PlaceOrder`, `PlaceBeside`, `OrderRefused` | `placeRouteOrders` and a rung of `chaseRouteOrderFill` |
| `BrokerFills`, `SeesFill`, `WaitEnds`, `CancelAccepted`, `CancelRefused` | the wait, the cancel, the next rung |

`taken` counts the contracts of a group that are bought or may still be: it is
what the cap has to hold against.

### ExitRules

One group of positions over stretches of a day: `Evaluate` is
`evaluatePositionGroup` with `evaluateTradingStrategy` and the overrides of the
cycle; `Gate` the morning spread gate; `SellLeg` one turn of `closePosition`'s loop
up to the order, with `hasStrategyRecoveredAtExecution`, at a later minute than
the decision; `RecordScaled` the scale-out row; `Manage` an addition, which renews
`lastAction` and with it the cooldown.  Prices are returns in percent, so that all
thresholds are those of the source.  `position` is the group an evaluation is about --
account type, legs and what each holds, the quotes and minutes it can meet -- chosen in
the initial state, so that one instance covers many.

### StopPersistence

`file` is the JSON file, `chain` the promise chain that serialises recordings,
`eval` the evaluations in flight.  The history variables `sighted` and `counted`
count the distinct cycles that saw a position's trigger hold.

### QuoteStreamer

`active` is `activeClient` (the feed is set and cleared with it), `link` what the
server thinks of each client the process ever opened, `round` the reconnect
rounds under way.  A second client and a second round are there to be seen if
the code let them exist.  `recentRoundsAt`, `restarts` and `exits` are ages, so
behaviours go on for ever over finitely many states.

| action | code |
|---|---|
| `RequestQuotes` | `ensureQuoteStreamerSessionConnected`, asked by anybody |
| `OpenSucceeds`, `OpenFails` | the rest of `openQuoteStreamerSession`, after the token |
| `ZeroEvents`, `FatalMessage` | the callers of `triggerQuoteStreamerRestart` |
| `WakeUp`, `Authorized`, `NotAuthorized` | an attempt of `runQuoteStreamerReconnectRound` |
| `BeginExit`, `BeginShutdown`, `Exit` | the exit timer, the end of `gracefulShutdown`, `process.exit` |
| `ServerAnswers`, `Restart`, `Tick` | the server, the process manager, the clock |

Abstracted: which messages are fatal (any moment may bring one), the delays
between attempts (a round sleeps as long as it likes), feeds and listeners.

### PositionRegistry

`file` is `position-registry.json`, or `Torn` between `fs.writeFile`'s truncation
and its end; `write` is what the cycle and the secret auto-seed are about to
write.  `rows` are the broker's position rows, `buying` and `selling` the working
orders.  A cycle takes the steps of `runBotCycle` around the registry, one per
`await`: `CycleBegins` (sweep, `pruneOldEntries`), `TakeSnapshot`, `Reconcile`,
`Sync`, `ReadOvernight`, `PlaceClose`, `RecordClose`, `PlaceSeed`, `RecordOpen`.
`SeederPlaces` and `SeederRecords` are `maybeAutoSeedSymbol` as the registry sees
it.  A tick is the grace of reconciliation, half an hour; a day is a few ticks of
trading, and the night is the step to the next day.

### MC modules

A module `MC...` instantiates its component several times, once per *world*.  A
world is a choice of the constants; it is made in the initial state and never
changes, so that one run covers all of them.  Where two components meet at one
call, their worlds share a run: `MCGracefulShutdown` has what lives as long as the
process, which is the scheduler, the shutdown, the connections of `IpcServer` and the
session of `QuoteStreamer` that the shutdown closes; `MCAutoSeed` the auto-seed, what one
of its attempts does (`Seeding`) and the socket it listens to (`SecretSocket`); `MCRunCycle`
the cycle and the `PositionRegistry` it keeps;
`MCCloseChase` the decision to close (`ExitRules`) and the order that carries it out.  A
property that needs an assumption on the environment names the worlds in which it holds.
A second configuration of the module does the same where a property is about the
component itself: `UrgentClose` and `MarginCycle` check under other constants the very
definitions that the theorems are about.

## 3. The runs

| run | module | what it shows |
|---|---|---|
| `SprayBuy` | `MCSprayBuy` | The spray executor in five worlds: with overlapping activities, with every failure and a crash, with failing status calls only, with a reliable broker, and for liveness with a store that can be written: no record ever claims more than was bought, one order works at a time, a spray whose status calls are answered implements the abstract Purchase (every order is sized by what the ramp has unlocked and was not bought yet), and every spray leaves the file. |
| `Scheduler` | `MCGracefulShutdown` | What lives as long as the process. The scheduler undisturbed, stopped and started under its ticks, and ended by a signal: it never stays started and asleep, cycles keep their distance and keep coming, and the shutdown ends with no order left but those it could not cancel or could not know. The lines of an IPC connection, cut into any chunks, of which each runs once. And the quote streamer, in a process that only recovers and in one that is asked for quotes, signalled and has an unreliable file: no session is ever left open beside the active one or behind an exit, and a streamer gone deaf is authorized again or the process restarts. |
| `AutoSeed` | `MCAutoSeed` | The auto-seed with prompt orders and two handlers at once, and with lost replies; what one attempt does, alone and beside another; and the feed's socket over restarts and broken links: one stake per account and symbol unless two attempts at it overlap, one order per attempt whatever pass it takes, no seed unsuited to its account or beyond a cap, a benched symbol tried again, no log line overtaken, no cache that looks newer than it is. |
| `CloseChase` | `MCCloseChase` | The two halves of a close. The order: a patient close of two legs with refused cancels, failing status reads, expiring orders and answers without an id, which implements the abstract Sale with the orders that were not answered so: of each leg one quantity at a time is on offer, none is sold twice, and all legs together stay within the budget. The decision: the exit rules of one position, from quote to placed close, on a cash and a margin account and of two legs; a take-profit never books a loss, a close for risk is carried out by the re-check, and a slide ends in a close or a stop that waits for its streak. |
| `UrgentClose` | `MCCloseChase` | An urgent close of two legs with cancels that take effect late, refused orders, lost replies, answers without an id and a book that is quoted anew: of the orders it knows none rests above the edge when a leg ends. |
| `StopPersistence` | `MCStopPersistence` | The store of stop streaks, with groups that share the file, cycles that take time, evaluations that overlap and recordings that fail: a stop fires only on distinct cycles, and a lasting trigger does fire. |
| `Allocation` | `MCAllocation` | Two groups that share a cycle's budget, each with its gates, its choice of contract and its route chase, on cash and margin, with orders that fill late, partly or without an id: money is neither lost nor spent twice, the exposure target is a ceiling, a group's cap holds whenever the broker's answers show what filled, and few groups are done before the cutoff. |
| `RunCycle` | `MCRunCycle` | A whole cycle of a cash account, from the cancel sweep through reductions, closes, scale-outs and allocations to cross-account seeds, alone through the day, beside a second cycle asked for over IPC, and with a broker that holds orders and fails cancels: nothing is reduced twice, bought back or flipped in the cycle that trades it. And the registry such cycles keep: where they alone trade, the overnight override closes exactly what was held overnight; under sweep failures, the auto-seed, manual trades, overlapping writes and a crash, an entry of something no longer held is closed in the end. |
| `MarginCycle` | `MCRunCycle` | The cycles of a margin account that holds shares not to be touched beside a group it trades, with an order of the operator in the book: nothing is decided on a book that was not swept, and no more is on offer than is held. |
| `OvernightReentry` (violated) | `PositionRegistry` | An auto-seed order registered late in the day that never fills leaves an open entry of that day; a re-entry that fills before the next day's first snapshot inherits it and is closed as an overnight position. |
| `AllocationExpiring` (violated) | `MCAllocation` | The retry with the held contract, after the chain's pick turned out unaffordable, comes after the check of the days to expiry: a contract about to expire is bought. |
| `ZeroDte` (violated) | `MCCloseChase` | The zero-DTE breaker decides to close, and the re-check at execution asks the strategy again and keeps the position. |

### Bounds, and why they are enough

* **SprayBuy.** One contract, three units, a window of two ticks unlocking 1, 2,
  3 contracts, at most four orders, one restart.  Every hazard of the executor
  concerns one spray and two activities; a ramp of three values is the smallest
  with a first, a partial and a full allowance, and four orders let a spray be
  re-placed at each of them and once more.  The clock runs to the deadline, so
  that the abort there is reached.
* **Scheduler.** Two ticks (enough for "at most one"), an interval of three
  times the closed-market poll (enough for a wake-up that is early, due and
  late), two stops.  The signalled world uses an interval of one and two orders:
  one listed by the sweep, one placed behind it.
* **AutoSeed.** Two accounts and one symbol.  In the world `prompt` two handlers, so that
  attempts overlap at one key and at two; in the world `lossy` one, since what is checked
  there is that a key is tried again.  The shortest cooldown (a retry's) is one tick and the
  others are two: a stamp can be fresh, on its last tick and expired.  Two stakes at most,
  one more than the property allows.
* **CloseChase.** Legs of 1 and 3 contracts and a budget of 3, so that the
  last leg is cut by the budget; two moves, so that there is a first, a middle
  and a last rung, and an answer without an id can come before, between and after
  orders that are known; bids above and below the edge for the re-quote.  The urgent close has
  legs of 2 and 1: what it promises is about the end of one leg's walk, and the second leg
  is there to start from a book that the first one left behind.
* **StopPersistence.** Two groups in one file; two required cycles, the fewest that
  make a streak; cycles that last none or one of four ticks of the interval; a gap of
  up to one and a half intervals between cycles.  The worlds `shared` and `slow` are
  the module itself with some of its steps left out; the other two, in which
  evaluations of a group overlap, are instances.
* **QuoteStreamer.** Two clients and two rounds, one more than the properties allow.
  The world `busy` has two attempts per round and two rounds per window, so that there
  is a first and a last of each.  The world `alone`, which only recovers, has one round
  and one attempt, a window of 8 ticks and exit delays of 0, 1, 2, 4, 4 ...: enough
  restarts fit into the window for every delay up to the cap.
* **PositionRegistry.** The quiet world has two symbols and three days of a tick
  each: a position can be opened, kept overnight, closed and opened again.  The
  disturbed world has one symbol over five ticks in three days (the grace can end
  within a day) and one crash.  Nothing opens in the last tick, so that
  what happens "in the end" has a cycle after it.
* **IpcServer.** Three requests of three pieces: a chunk can hold the end of one
  line, the whole of the next and the beginning of the third, which is what the
  handler's index gets wrong or right.
* **Seeding.** A cash and a margin account worth 4 and 6 of the cheapest contract,
  prices of 1 to 3, contracts of 3, 5, 20, 45 and 90 days: too short, for the held
  contract only, in the window, in the wider window, beyond both.  One attempt at a
  time with a settled book (`Settled`), and two at once that find one contract at one
  price, which is where they get into each other's way.  TLC settles these; the theorems of
  section 4 are about every choice of contracts and prices, and any number of attempts.
* **SecretSocket.** A queue of two and four lines, so that the oldest are dropped
  more than once; an age limit of one over three units of time.
* **RunCycle.** One symbol held in two contracts (a tranche and a runner), the five
  phases of the day that the code tells apart, three orders on cash and five on
  margin: a close, an addition, a reduction and what rested before.  The overlap has two cycles
  and two orders.  On margin the symbol has a second group, of shares that are not to be
  touched, since a margin account is swept only where it has exclusions or trades.
* **Allocation.** Two groups before the cutoff and three on cash, so that the
  budget is divided and handed on; 13 groups that pass every gate and 8 that each
  fail one; three rungs of the mid route as in the code, and on the ask route five that
  wait 30 seconds for the code's ten that wait 15: how long a chase may take is the
  product, which is the same.  The ceiling on a position's value
  (`MaxNotional`) is retired in the code, where it is infinite; the model keeps a
  finite one, of which the code's is a special case in which the terms that name
  it drop out.
* **ExitRules.** Twelve quotes, one on either side of each threshold; the stretches
  of the day around each change of rule (the open, the cutoff of margin accounts,
  the end of the day); cycles of four minutes that may take eight, a cooldown of
  ten as in the code.  A group has one leg or two of equal size; what more legs and
  margin do to the promise of a profit is in section 5.

### Fairness, and why the code justifies it

* Spray: the cycle keeps running (the scheduler's `CyclesRecur`), awaited calls
  return (the HTTP client has timeouts) and time passes.  Nothing is assumed of
  fills, cancels, quotes or crashes.
* Scheduler: timers fire, awaited calls return, time passes; strong fairness for
  the session service's answer says that it does not throw every single time.
* Shutdown: only the shutdown's own awaited calls return.  Nothing is assumed of
  IPC connections, which a client may hold open for ever.
* Auto-seed: handlers go on, orders leave the book in the end, time passes.
* Stop persistence: evaluations go on, a cycle evaluates each group and ends, the
  scheduler begins the next one.  The market owes nothing.
* Quote streamer: timers fire, awaited calls return or throw, and a deaf session
  is asked for quotes, which every cycle does.  The server owes nothing.
* Position registry: cycles go on, file operations return, and the market closes
  (strong fairness of the clock: the night waits for a moment when nothing runs).

`CHECK_DEADLOCK FALSE` is set in three runs.  In `Scheduler` the shutdown is meant to
end the process, and the requests of a connection come to an end.  In `RunCycle` and
`MarginCycle` a day is over when its last cycle has ended and the bound on orders is used
up.  (The registry, in the former, never stops.)

### Stated, and not part of a run

Some definitions of the modules are no property of a run, since another says more
about the same hazard: the type invariants (proved where there is a proof module),
`SprayBuy!LiveOrderIsKnown`, `ObservedForward` and `NeverAheadOfRamp` (proved), `CloseChase!SingleWorkingClose`
and `NeverClimbs`, `StopPersistence!StreakIsEarned` (proved), `QuoteStreamer!RestartsBackOff`,
`Allocation!PlacesWithinQuote`, and those of section 5 that the code breaks.

## 4. The proofs

`SprayBuyProofs` proves, for every set of contracts, ramp, bound and choice of
failures,

* `TypeCorrect`: `Spec => []TypeOK`;
* `FillsNeverOvercounted`: `Spec => []NeverOvercounts` -- no copy of a record, in
  the file, in memory, loaded or about to be written, claims more contracts than
  the broker sold for that spray;
* `ResolvedSpraysLeave`: `Spec => []OnlyActiveStored` -- the file keeps no resolved
  spray.  This is why `advanceSprays` has no action for its pruning write.  The
  invariant adds that whatever is about to become the file is pruned, too.

The assumptions are those of `SprayBuy`: `RampAssumption` (the ramp is a
non-decreasing function into `1 .. Total`; the bounds are natural numbers),
`SwitchAssumption` (the failure switches are Booleans) and that the two "null"
values are not records and sprays.  `NeverOvercounts` is not inductive: a copy
could be right today and name an order whose fills, added to its own snapshot,
overtake what was bought.  The invariant `IInv` strengthens it with `GoodRecord`
for *every* copy: the working order it names was placed for this very spray, and
what had been observed when it was placed (`filledBefore`) is at most what had
been bought by then; and with `FillsAccounted`: what an order has filled since
is contained in what the spray bought.  Each action then either copies a good
record, or folds in a fill through `Reconciled`, where the two facts give the
bound.

Where activities take turns, nobody aborts a spray or dies, every reply arrives, the
file can be written and an accepted cancel is final (`InOrder`), it proves further

* `OneOrderAtATime`: `Spec => []SingleLiveOrder` -- however often status calls,
  cancels and placements fail, a spray has one order in the book at most;
* `PurchasesFollowTheRamp`: `Spec => []NeverAheadOfRamp`, if status calls are
  answered, too -- what is bought and what may still fill is within the ramp;
* `SprayImplementsPurchase`: `Spec => ImplementsPurchase`, under the same assumption -- a
  spray is a `Purchase`;
* `OneOrderInOrder` and `PurchaseIfAnswered`, the first and the last of these of the
  worlds of `MCSprayBuy` that the run checks.  The sequential world is the module itself; for
  the reliable one, an instance, `ReliableAdvances` and `ReliableSteps` show that its
  steps are steps of the sequential world.

No part of `InOrder` can be spared: with any one of its constants changed, TLC finds
`SingleLiveOrder` and `NeverAheadOfRamp` violated (section 5; for `AbortCalls` and `AbortAfter = 0` with
`MaxStarts = 2`).  The copies of a record disagree while it is advanced, so the
invariant `OrderInv` says which copy counts.  At most one activity is under way.
Between sprays the file counts (`Between`), from the retirement of an order on the
record in hand (`Advances`), and before a write what is about to be written
(`Writes`); what the cycle has loaded and not advanced counts throughout.
A copy that counts *knows*: it names the order of its spray that is in the book, if
there is one.  Where it is dropped, there is none, or the spray cannot be begun
again.  `Exact`, with the fills of the order it names the record tells precisely
what was bought, needs that a slot is freed only on an answer (`Answered`), and
`AheadInv` follows from it: a new order asks for the difference between
the ramp and that record.

The refinement needs no invariant of its own.  `SingleLiveOrder` makes the order that fills
or dies all its spray has open (`OrderFills`, `OrderLeaves`), and before a placement
nothing, since it holds of the state after it, too (`OrderPlaced`).  `AheadInv` gives the
bound of a new order and that one in the book has something left to fill; a tick unlocks
(`TickUnlocks`), because the ramp does not decrease.

`StopPersistenceProofs` proves, for every set of groups and evaluators, every count of
required cycles and every interval, with torn reads or without,

* `StopsFireOnDistinctCycles` (`FiresOnDistinctCycles`), `StopsFireOnDistinctCyclesInTurn`,
  the same as the run states it, and `StreaksAreEarned` (`[]StreakIsEarned`).

They assume `InTurn` (evaluations of a group come one after another and from the run
cycle, writes succeed, a re-entry moves the cost basis) and `ShortCycles` (a cycle takes
less than half an interval).  Where writes fail, a basis is inherited or a cycle is longer
the property is false (section 5).  What fires is decided on the stored streak, what
is promised is about cycles, and the two agree only between evaluations: within one, the
cycle is counted first and recorded later, through the chain.  `GateInv` therefore speaks
of a row's age.  In a cycle that has not counted a group yet the group's row is *old*
(it belongs to an earlier cycle and may be advanced); after the recording it is *fresh*
(too young to be advanced again, however often the cycle evaluates the group); in between
a recording is under way and the old row still lacks one cycle.  `EvalInv` adds what an
evaluation may rely on over its awaits: it is alone in its group, and what its recording
read is still the file, since recordings take turns.

`AllocationProofs` proves, for every set of groups that may arrive, every capital,
ceiling and price,

* `BudgetIsKept` (`[]BudgetBalances`): what is left and what was taken make up what
  there was, and what a group is being bought for was in the budget;
* `TargetIsRespected` (`[]TargetRespected`);
* `CapIsKept`: `GroupWithinCap`, under `~LateFills` and `~AnswersLackId`;
* `OrdersKeepTheCutoff` (`[]BuysBeforeCutoff`), where all groups can be chased within two
  intervals (`CloseTime + groups * ChaseTime <= 2 * RunInterval`, `ChaseTime` being what
  the rungs of one group can take);
* `EveryWorldKeepsItsBudget`, `CapIsKeptIfSeen` and `CutoffIsKeptIfFew`, the same of the
  worlds of `MCAllocation` that the run checks.

The assumptions are `AllocationAssumption` (types; at least one rung).  The core is
arithmetic: a floored share costs no more than its part of the capital
(`ShareFits`), so the floored shares together stay within it, each greedy contract
is given only while it fits, and trimming makes the total cheaper.  The
invariant says so at every stage, and adds for `CapIsKept` how many contracts the
routes done so far, the live order and the routes to come account for.  `TimeInv` is the
cutoff's: the guard was passed two intervals ahead, and what has gone by since is no more
than the rungs of the groups begun, those of the present one counted singly.  The limit
is sharp in the sense that three groups break it in the run's timing (section 5).

`GracefulShutdownProofs` proves, for every set of ticks and interval, of the scheduler

* `TypeCorrect` and `SchedulerStaysAwake` (`[]NeverAsleep`), with stops allowed at
  any moment.  The strengthening, `AwakeInv`, adds that the in-flight flag of a
  started scheduler is held by a tick that is really under way;
* `TicksExclude` (`[]OneTickInFlight`), `ModeIsReliable` (`[]ModeIsTrue`) and
  `CyclesKeepTheirDistance` (`CyclesSpaced`, an action property), under the
  assumption `~StopInFlight`.  The strengthening, `QuietInv`, adds that a
  tick under way owns the scheduler: flag set, no timer pending.  For the distance
  `SpacedInv` adds that the history variable and the scheduler's own record of its
  last run tell the same time, unless the last cycle failed.
  `UndisturbedCyclesKeepTheirDistance` is the same as the run states it;

of the shutdown `RemainingOrdersAreExcused` (`[]OnlyExcusedOrdersRemain`) for
any orders, ticks and stops.  That property speaks of the end of the sweep;
`OrdersAccounted` adds that between listing and cancelling whatever is live is
listed or came later;

and of the connections `RequestsRunOnce` (`[]EachRunsOnceIfApart`), for any number of
requests of any number of pieces: where a client waits for an answer before it sends the
next request, or a chunk never joins two writes, every line is run once and in its turn.
`LinesInv` says what makes it so: the buffer and the wire together are exactly what was
written and not yet run, in order, and the buffer holds at most the one line whose turn
it is, so that a handler that waits finds the buffer as it left it.  The assumption is
`LinesAssumption`: there are requests, and each has at least one piece.

Of the quote streamer `GracefulShutdownProofs` proves, for every set of clients and
rounds, every limit and every choice of failures,

* `SessionsNeverPileUp` (`[]OneSession`) and `RecoveriesExclude` (`[]OneRecovery`);
* `RoundsEndWithASession` (`SuccessIsAuthorized`);
* `ExitsLeaveNoSession` (`ExitLeavesNoSessionAlone`), of the run's world `alone` and under
  `~Callers` and `~Signals`: either of them makes it false (section 5).

The first two need each other: an open in flight is safe because no session is active
when one is asked for, and a round may close and reopen the session because no
other round does.  The invariant is `RecoveryInv`, the two together with
`MemoryTypeOK`, the types of what the process keeps in memory.  `ExitInv` adds, for a
process that only recovers, that an open in flight is a round's, that an exit is
scheduled before it begins, and that once it has begun there is no session and nobody
left to open one.  None of this says anything of times: the
delay is a power of two, and that `2 ^ n` is a natural number is an induction
over `n`.  `TypeOK` and `RestartsBackOff` stay with TLC for that reason.

`CloseChaseProofs` proves, for any number of legs and rungs, every position, limit and
price,

* `TypeCorrect`: `Spec => []TypeOK`;
* `CloseImplementsSale` (`Spec => ImplementsSale`), where an accepted cancel is final,
  orders fill whole and no reply is lost: the chase implements the abstract `Sale`;
* of the same property in terms of the book, `CloseStaysPartial` (`BudgetKept`) under the
  same three assumptions, `NothingIsSoldTwice` (`NeverDoubleSells`) under the first two and
  `OneRungWorks` (`SingleWorkingClose`) under the first alone.  Section 5
  says which of the three breaks which property;
* `UrgentCloseCrosses` (`UrgentEndsAtEdge`), where orders fill whole and cancels do not
  fail, on at least one move.

All of them are about the orders that were not answered without an id, and none assumes that
there are no others: `AnswersLackId` is left open.  The last one is about the orders whose id
the chase was given, which leaves out those whose reply was lost, too.

`CallInv` ties the rungs to the program counter (`RungsInStep`: the order in hand is the last
one of its leg that counts, a leg not reached yet has none).  What the theorems need is that
of those orders at most one can still do a thing, and that it is the one in hand.
`OneAtMost` says so of any predicate on orders and is shown once to be kept by every step
(`OneAtMostKept`): `RungInv` is the instance for orders that work, `SellInv` for those that
work or have sold (`OneSale`), beside which all orders fill whole (`WholeOrders`).
`SaleInv` adds to `SellInv` that the rungs of a leg are of one size
(`SameSize`) and that what the legs done so far asked for and what remains are
within the limit (`WithinBudget`).  `EdgeInv` is the instance for orders that rest above the
edge, with where the price stands when the chase ends.

The refinement uses `SaleInv` as it stands.  `StepsOfTheSale` goes through the actions.  An
order that leaves the book alone in its leg is a `Sell` if it filled and a `Withdraw` if
not (`OrderLeavesAsSale`), since `OneSale` makes it the whole of what the leg had on offer
or sold; an order that does not count leaves as a stutter.  A placement is an `Offer` (`PlacingIsAnOffer`): nothing of the leg works or has
sold when it is made, since the chase goes on only from a rung it has cancelled or seen
die.  That the offer fits the allowance is where the book and the call have to agree
(`CommitsAreWithinBudget`): by `SameSize` a leg commits no more than it was asked for, and
what all legs were asked for is within the limit (`AskedWithinBudget`).

Of the decision that precedes the order (`ExitRules`, the second world of `MCCloseChase`)
it proves, for every set of positions, their quotes and minutes, and every length of a cycle,

* `DecisionsAreTyped`, the type invariant;
* `SlidesAreCutShort` (`[]SlideIsCutShortInWorld`), with no further assumption: while a
  position stays under its stop without being closed, no more cycles pass than its cooldown
  and the streak take together.  `SlideInv` counts the cycles under
  the floor against the minutes since the last fill, and against the streak with one more;
* `RiskClosesAreCarriedOut` (`[]RiskCloseIsCarriedOutIfOne`): a group of one contract that
  is to be closed for risk is closed.  `RiskInv` needs that such a reason is `Certain`:
  whichever later minute of the cycle the re-check asks at, it answers with a close;
* `ProfitsAreNoLosses` (`[]ProfitBooksNoLossInWorld`), for groups of one leg, or of two legs
  of one contract each on cash, and cycles of no more than 40 minutes (`FewContracts`).
  `ProfitInv` says of each leg that it was sent or kept back at some
  minute of the cycle, and `KeptBackIsNoWinner` that a leg kept
  back would not have paid for a loss of the other.  Beyond `FewContracts` the property
  fails (section 5).

`PositionsAssumption` types the positions: a return is at least -100, a group has legs and
each of them contracts.

`RunCycleProofs` proves, for every set of groups, symbols, cycles and orders,

* `TypeCorrect`: `Spec => []TypeOK`;
* `OnlyTheBreakerRoundTrips`, with no assumption: a cycle that both closes and adds to
  a group does so for options that expire today on a cash account.  The definition it
  proves, `RoundTripsExpireToday`, is weaker than `NoRoundTrip`, and exactly what the
  code keeps (section 5).  `NeverSellsAndBuys` (`[]NoRoundTrip`) follows where
  nothing expires today and a margin account has its exclusions;
* `NeverFlipFlops` (`[]NoFlipFlop`), with no assumption: the definition itself is about
  decisions within the window;
* `RunnersSoldTheirTranche` (`[]RunnerSoldItsTranche`), where one cycle runs at a time
  and a symbol is held on one side;
* `SweepsBeforeItActs` (`[]SweptBeforeActing`) and `TerminalOrdersAreOver`
  (`[]TerminalIsOver`), where cancels are taken (`~Flaky`), for any number of cycles
  beside each other;
* `OneReductionAtATime` (`[]OneReductionIfAlone`), where cancels are taken and one cycle
  runs at a time;
* `MarginNeverOversells` (`[]NeverOversells`), under the same assumptions on a margin
  account;
* `OvernightOverrideIsTrue` (`[]OvernightIsTrueIfQuiet`), about the registry: where nobody
  but cycles trades and the sweep leaves no order, what the override closes is exactly
  what the broker opened on an earlier day, whatever the process loses in crashes.

None of these is inductive.  `Typed` says what a cycle's local state can be: `Sound`
relates the step to the lists it works off -- a group is decided upon because it was
seen to be held, candidates come from decisions (`FromCandidates`), what was closed
and what will be bought are apart except for what expires (`OnlyExpiringBoth`), inside the
window a cash account adds to an overnight position only on a strong signal, and
reduces only those without one (`WindowIsKept`, `ReductionsAreOvernight`), and seeds
avoid the closed symbols (`SeedsAreFresh`).
`RunnerInv` adds that, until the closes are recorded, a partial close counts as one only
if it was placed.  `PromptBook` says that the cache
holds only orders that are over and that the sweep's list holds all others;
`SweptInv` adds how far the sweep has come, `ReductionInv` that from
the second sweep on the cycle knows the symbol of every reduction in the book, and
`SellInv` that a group has at most one working sell, a close for no more than is
held, and none from the end of the first sweep to the closes.

`RegistryInv` follows the registry through a cycle.  The override is right if the one
open entry of a held symbol is of the day of its position, and that is lost as soon as an
entry outlives the order it was made for.  `Truthful` says it of two copies, of what the
file reads as and of what the cycle is about to write (`Latest`); a torn file reads as an
empty one, about which it says nothing false.  `StageInv` is what each step has added for
the next: after `Reconcile` only entries of today are left for what is not held, after
`Sync` every held symbol has one, and so what is seeded later in the cycle, or filled
before the next one, starts without an old entry.  `TradesInv` is where the assumption
enters: an order of the cycle works only in steps that no longer use the snapshot.

`CloseChaseProofs` begins with sums over finite sets: `SumOf` is defined by a
recursion along the strict subset relation, which the library's theorems know to be
well founded, and its laws (removal of an element, change of one term, addition,
union, monotony) follow by induction over the set.

`AutoSeedProofs` proves, of the worlds of `MCAutoSeed` and for every set of accounts,
symbols, attempts and contracts, and all cooldowns, prices, account values and caps,

* `OneOrderPerAttempt` (`[]OneOrderPerAttemptInWorld`) and `SeedsAreSuitable`
  (`[]SeedIsSuitableInWorld`), with any number of attempts at once;
* `SeedsKeepTheCaps` (`[]WithinCapsIfAlone`): attempts that come one after the other,
  each with no order working, keep the caps, what they ordered included;
* `OneStakeWhereOrderly` (`Spec => []OneStake`) and `OneStakeInPromptWorld`, the same as
  the run states it, for any number of handlers at once, where an order is gone
  before its cooldown and every reply arrives (`Orderly`).  What `OneStake` excepts is a key
  at which attempts overlapped (`raced`), until one begins alone and meets no order of
  theirs: that race is not assumed away, and is the only way to a second stake.  With any
  part of `Orderly` given up there are others (section 5);
* `OnlyOwnAttemptsBench`, with no assumption on how handlers interleave: what suppresses an
  attempt is a recent one of the same account at the same symbol;
* `CacheNeverLooksNewer` (`[]CacheAgeIsTrue`) and `LinesGoOut` (`[]LogsGoOut`), over any
  restarts and broken links.

`SeedInv` is what an attempt carries over its awaits: a contract once picked is within a
window of its account or is the held one with the days it needs, a price once quoted is
within the caller's limit, and nothing was placed while the attempt lasts.  `AloneInv` adds
to it, for attempts that come one at a time, the guarantee the sizing step gives and no
later one disturbs: from there on the caps have room for what is about to be ordered
(`Clears`).  The arithmetic behind it (`SizedFits`) is that a rail of at least one contract
times the price is within its headroom, and that the lift to one contract asks every rail.
Both are proved for the instance `Seeds`; `RacingIsSeeding` shows that where less is on offer
every step is one of it.  `StakeInv` says of each key
without a race (`StakeAt`) that one attempt at most is under way, and none beside an order,
and relates a stamp to the order it stands for: the cooldown of what was placed outlives
the order, so that whoever begins after it finds the stamp, or the position.  `BenchInv` says that no stamp is younger
than the last attempt at its key.  `CacheInv` adds that what is on disk is stamped as truly
as what is in memory, since a process that starts takes it from there.  `LogInv` says what
the queue is: the end of what was said, without gaps; the link adds that a process can be
authenticated only while it is connected.

Model-checked only:

* everything about liveness, since the prover has no `ENABLED`: `SprayResolvedIfWritable`,
  `CyclesRecurUndisturbed`, `SignalEndsProcess`, `DeafIsRecoveredIfBusy`, `TriedAgainIfFair`,
  `PersistentTriggerFiresInTheEnd` and `StaleIsClosedIfDisturbed`;
* whatever needs the value of a power (the back-off of the quote streamer).

Every safety property of a passing run is stated by a theorem.

## 5. What the model found

A run that is expected to be violated states what a comment or the documentation
says and finds a behaviour of the code that disagrees.

| run | the code | the words |
|---|---|---|
| `OvernightReentry` | recordPositionOpened returns when the symbol has an open entry, however old, and reconciliation keeps the entry of any held symbol: the entry of a seed order that never filled, recorded on an earlier day, is taken over by a position that fills before the next snapshot, isOvernightPosition says yes and the fresh position is closed. | src/src/bot/run-cycle.ts:241-245 says: "Reconcile the registry against what the broker actually holds before anything reads it this cycle. Tracked-but-not-held OPEN entries otherwise persist indefinitely and poison isOvernightPosition / position-age reads for any re-entry of the symbol (a stale margin entry force-closes fresh re-entries via the overnight override below)." |
| `AllocationExpiring` | When the chain's pick turns out unaffordable, the held contract is taken in its place at the sizing step, after the minimum-DTE check (lines 1116-1124) was made of the pick; the order goes out for a contract whose expiry is below the minimum. | src/src/bot/actions/manage-allocation.ts:1109-1112 says: "The held-contract fallback can surface an expiring contract the chain pick would have filtered, so this check runs after ALL fallbacks are resolved (chain pick → margin ITM → held-contract) but before any order is dispatched". |
| `ZeroDte` | The zero-DTE breaker turns the group's decision into CLOSE_POSITION, but closePosition's re-check (hasStrategyRecoveredAtExecution) evaluates the strategy again on the same prices and skips the close when the strategy would hold. Only from EOD_FORCED_CLOSE_MINUTE (12:55) on is the re-check passed over. | src/src/bot/execute-position-evaluations.ts:379-380 says: "The gate is intentionally independent of evaluateTradingStrategy so the strategy cannot suppress it once armed." |

Other promises hold only in some worlds.  The passing runs check them there; the
constants that make them fail are:

| property | fails with | because |
|---|---|---|
| `SprayBuy!SingleLiveOrder` | `MaxCrashes = 1` | a crash between `createOrder` and `saveSpray` leaves an order no record names |
| | `Overlap` | a start's advance and a cycle's both place an order for the spray |
| | `LostReplies`, `StoreErrors` | the order is in the book and the record in the file does not name it |
| | `~CancelIsFinal` | the successor is placed while the cancelled order may still fill |
| | `AbortCalls` or `AbortAfter = 0`, `MaxStarts = 2` | the record goes while its order works, and within the tick of its start the same id is begun again |
| `SprayBuy!OneOrderPerContract` | `MaxStarts = 2` | the spray's id has its start time; a second seed of the contract starts a second spray |
| `SprayBuy!ObservedForward` | `Overlap` | `saveSpray` writes an older copy over a newer one |
| `SprayBuy!NeverAheadOfRamp`, `ImplementsPurchase` | `StatusErrors` | the result of the second re-read in `retireWorkingOrder` is ignored |
| | `~CancelIsFinal` | a fill after the accepted cancel is never seen |
| `MarketOpenScheduler!OneTickInFlight` | `StopInFlight` | a stop clears `inFlight` under a running tick |
| `MarketOpenScheduler!ModeIsTrue` | `StopInFlight` | the tick goes on and sets the mode |
| `GracefulShutdown!SweptBeforeExit` | always | the IPC server's handler of the signal exits when it has no connection |
| `AutoSeed!OneStake`, of all keys | two handlers | handlers are started without being waited for (`secret-socket-state.ts:174`, `:192`); the cooldown is checked before the attempt's awaits and stamped after them, so two attempts at once each place an order |
| | `~PromptOrders` | an order that rests longer than its cooldown is invisible to the position check |
| | `LostReplies` | the order is in the book and nothing is stamped |
| `AutoSeed!NoCandidateBenchesBoth` | always | the cooldown is keyed by account and symbol, the comment says by symbol |
| `CloseChase!NeverDoubleSells`, `BudgetKept`, `SingleWorkingClose`, `ImplementsSale`, `UrgentEndsAtEdge`, of all orders | `AnswersLackId` | without an id a rung is neither polled nor cancelled (`bot/actions/close-position.ts:613`, `:638`, `:648`): the next one goes beside it, and if that one is refused the chase ends above the edge |
| `CloseChase!NeverDoubleSells`, `BudgetKept`, `ImplementsSale` | `PartialFills` | every rung is placed with the full quantity |
| | `~CancelIsFinal` | the cancelled rung fills beside its successor, or after it |
| `CloseChase!SingleWorkingClose` | `~CancelIsFinal` | an accepted cancel is taken for a confirmed one |
| `CloseChase!BudgetKept`, `ImplementsSale` | `LostReplies` | an order whose reply was lost counts as rejected, and the next legs are given its quantity |
| `CloseChase!UrgentEndsAtEdge` | `PartialFills` | a partial fill ends the chase above the edge |
| | `CancelErrors` | a cancel that fails ends the chase at the rung it was at |
| `StopPersistence!FiresOnDistinctCycles` | `NearBasis` | a position re-entered within 5% inherits the streak |
| | `StoreErrors` | a failed write keeps a streak that should be gone |
| `SprayBuy!NoStrandedOrder` | `AbortCalls` | `abortSpray` prunes the record with the id of its working order; `bot/actions/spray-store.ts:173-175` says that the id stays |
| `GracefulShutdown!CycleAllowedToFinish` | always | `gracefulShutdown` (`index.ts:27-29`) stops the scheduler first, which clears the flag its wait loop polls |
| `CloseChase!ClaimedCloseIsReal` | a rung rejected | the response of the cancelled rung before it is reported as the close (`bot/actions/close-position.ts:920-923`) |
| `StopPersistence!FiresOnDistinctCycles` | `CycleSpan = 2` | a cycle that takes half an interval sees a group twice, and counts two (`bot/get-position-evaluations.ts:21`) |
| `RunCycle!TerminalIsOver`, `SweptBeforeActing` | `Flaky` | an order that is not cancellable for a moment is cached with those that are over (`bot/execute-position-evaluations.ts:165`) |
| `RunCycle!RunnerSoldItsTranche` | both sides of a symbol | the row is written for every close of the symbol, whichever of them was placed (`:515`) |
| `RunCycle!NeverOversells` | `AccountType = "cash"` | a reduction that the sweep protects and a close of a later cycle offer the same contracts |
| `RunCycle!OneReduction` | `Flaky`, two cycles | the guard finds a reduction only through the sweep's result, from which cached ids are missing; two cycles do not see each other's |
| `RunCycle!NoRoundTrip` | `ExpiringToday`, a cash account | the zero-DTE breaker closes a group after noon whose decision is to add, and the list of groups to manage keeps it (`:342-412`, `:568-579`); the runs have no such group, the theorem says that there is no other way |
| | `~HasExclusions` | on a margin account without exclusions the closed symbols are not taken from the list |
| `RunCycle!NoFlipFlop` without its premise | a decision after 11:30 | the gate on additions ends with the window, the reductions go on to the cutoff |
| `Allocation!GroupWithinCap` | `LateFills` | contracts that fill between the last poll and the cancel are bought again in the next rung |
| | `AnswersLackId` | an order without an id is neither polled nor cancelled, and the next rung goes beside it |
| `Allocation!BuysBeforeCutoff` | three groups | each may chase for up to an interval, the guard looks two ahead |
| `Seeding!WithinCaps` | attempts at once | both read positions before either's order fills |
| `SecretSocket!LogsGoOut` | `~HasKey` | what was queued before a connection is flushed by the acknowledgement only, which never comes |
| `IpcServer!EachRunsOnce` | `Pipelined` and `Coalesced` | the handler that waits goes on with the index it found in a buffer that has changed (`ipc-server.ts:270-280`); the repository's own client uses a connection per request |
| `ExitRules!RiskCloseIsCarriedOut` | two legs | the re-check asks for one leg what was decided for the group, and keeps the better one |
| `ExitRules!ProfitBooksNoLoss` | a partial close of two legs | the tranche is taken from the first leg, whatever it is worth |
| | three legs | a take-profit decided on the midpoint closes, after 12:55, the losing leg by force, while the re-check keeps the winners |
| | two legs on margin | one leg is kept back before the forced close begins, the other one is sent after it, at a loss |
| `QuoteStreamer!ExitLeavesNoSession` | `Callers` | a request during the pause before the exit opens a new session, and one whose open is pending when the session is closed installs it afterwards; the comment at `core/quote-streamer-recovery.ts:24-26` says that the restart does not inherit an orphaned session |
| | `Signals` | a reconnect round goes on during the pause before the shutdown's exit and opens a session |
| `PositionRegistry!OvernightIsTrue` | `Outside`, `SweepFails` | the entry of an order that did not fill is taken over by a later position |
| | `Manual` | a position closed and opened again by hand between two cycles keeps the old entry |

Further things that reading the code for the model turned up, and that no property
states:

* the re-check before a close (`bot/actions/close-position.ts:684-689`) says that it
  uses the prices the order is made from; those are the snapshot's of the
  evaluation, so only the clock and the missing streak can change the answer;
* a margin account's override for what is held overnight
  (`withOvernightCloseOverrides`, `bot/run-cycle.ts:72-92`; `docs/OPERATIONS.md:18`)
  passes through the same re-check, which suppresses it whenever the strategy would
  hold;
* the answer for a position in its cooldown (`strategy/evaluate-trading-strategy.ts:784`)
  does not suppress additions, the others that put a stop off do;
* an IV gate that blocks a cash seed is passed by the contract margin holds
  (`bot/seed-symbol.ts:149-150`), and the bench for a missing chain never applies on cash,
  where the window is checked first;
* of the two cross-account seeds only the one into margin is protected from the
  sweep;
* `cachedRegime` of the secret socket is not in its cache file, and what is cached
  in memory does not age while the link is down.

## 6. What is not modelled

* **Spray ramp mathematics** (partly): The ramp enters as a non-decreasing function of elapsed time; tick size, dwell and ceiling are arithmetic that unit tests reach.
* **Secret signal targets** (not modelled): Stateless readings of a feed payload: which fields raise or lower a target. Allocation takes their result as an input.
* **Trading strategy** (partly): The order of the exit rules with their thresholds, time windows, cooldown, persistence and floor, and the re-check at execution, on integer prices. Signals that move a threshold (secret targets, stabilization) stand at their neutral value; exit-decision-log.ts only logs.
* **Position evaluation** (partly): The part of evaluatePositionGroup around the stop streak and the strategy; the assembly of quotes and metrics is arithmetic.
* **Scale-out store** (partly): What the store says after the closes of a cycle, its pruning and who reads it; the stored prices and the torn file are left out: a file that cannot be read is one without flags.
* **Seeding** (partly): seedSymbol with its passes, both cross-account seeders, the caps, the dry run and the order; AutoSeed has the same attempt as the feed sees it. purchase-symbol.ts (the operator's purchase) and the outcome log are left out.
* **Entry filters and sizing** (partly): The windows, the selection's answers, the caps and the resolution of a quantity are in Seeding, the gates of a group in Allocation; the gates' own arithmetic on quotes is a free choice of their answers.
* **Position registry** (partly): Every operation that writes the file, in the order of the cycle and beside the auto-seed, with truncating writes, manual trades and a crash. Entry context, sides and the derived reads (age in days, opened or closed today, the day report) are left out, and an account's symbol is one symbol.
* **IPC server** (partly): The framing of a connection's lines, the handlers that wait beside each other, the signal handlers and the connections at the end. Of the command table only that a command runs and answers: what commands do is what the other modules' actions are, from outside the cycle.
* **Instrument guards and symbols** (partly): Which groups can be traded and which source an order has are in RunCycle; close-symbol-position.ts appears in StopPersistence as the caller outside the cycle. The parsing of symbols is stateless.
* **Broker client and market data** (not modelled): Thin wrappers over HTTP; their failures are the errors the other modules let every call have.
* **History and reports** (not modelled): Append-only logs and derived reports; nothing that trades reads them.
* **Configuration and tools** (not modelled): Environment parsing and operator scripts; no state of their own.

## 7. Plan

The order is by what an error would cost.  Components that share a process share
a run where they can: a further component becomes a world of the run it belongs
to, not a run of its own.

| | module | state | next to model | next to prove |
|---|---|---|---|---|
| 1 | `SprayBuy`, `Purchase` | done | tick size, dwell and ceiling of the ramp | done, except for liveness |
| 2 | `MarketOpenScheduler`, `GracefulShutdown`, `IpcServer` | done | the command table, as far as commands change state by themselves | done, except for liveness |
| 3 | `AutoSeed`, `Seeding`, `SecretSocket` | done | `purchase-symbol.ts`, the outcome log | done, except for liveness |
| 4 | `CloseChase`, `Sale` | done | | done, except that every leg ends |
| 5 | `StopPersistence`, `ExitRules` | done, with signals at their neutral value | thresholds moved by secret targets and stabilization | done, except for liveness |
| 6 | `QuoteStreamer` | done | | done, except for the back-off and liveness |
| 7 | `PositionRegistry` | done, except for derived reads | the sides of a symbol | done for the quiet world, except for liveness |
| 8 | `RunCycle` | done | `CloseChase` and `Allocation` inside a cycle, by refinement | the two sides of a cross-account seed |
| 9 | `Allocation` | done | the order in which groups are served | done, except for prices |
| 10 | `BrokerClient` | not begun | the session token, the cached account list and the retry of calls | a failed first call is not for ever, once the code has it so |

Of the abstract specifications worth stating `Sale` and `Purchase` are written;
`CloseChase` implements the one, `SprayBuy` the other.  A route of `Allocation` is a
purchase, too, but its chase is one action there and its orders have no book of their own.
Left are a *consecutive-cycle counter*, implemented by `StopPersistence`; a *single-session
pool*, implemented by the session half of `QuoteStreamer`.  Each goes into a
module of its own, with the refinement mapping in the MC module of the component
and the abstract specification as a property of the component's run.

