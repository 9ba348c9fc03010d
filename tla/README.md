# LumenLink: a TLA+ model of the trading bot

LumenLink is a TypeScript bot that trades cryptocurrencies on Coinbase: timers
run loops that fetch prices, decide, place market orders, keep books of what is
held, and stop everything when a limit is reached. This directory models the
parts of it whose correctness depends on *order*: what happens while an order
is in flight, when two runs of a loop overlap, when a request is repeated, when
the process stops; and, in modules of their own, the decisions it takes: the
strategies, the guards, the backtester, the settings. Indicators are verdicts,
messages are abstracted away.

Every module is written from the code at this commit. `PROJECT.json` maps each
definition to the lines it models, names the runs, the theorems, and the
disagreements found.

## 1. The system

The program is one Node process: what runs between two `await`s is atomic, and
concurrency is the interleaving of asynchronous functions. `src/src` is the
bot, `src/backend/src` its HTTP/WebSocket server (the same process),
`src/frontend` a browser client. `src/agents/coinbase/lumenlink-livebot` is a
program of its own, a Telegram bot that keeps wallets for its users.

| Component | State it keeps | Operations | Talks to |
|---|---|---|---|
| Scheduler (`jobs/scheduler.ts`) | timers | start, stop; a tick starts a loop without waiting for the last one | the loops |
| Trading loops (`jobs/loops.ts`) | snapshot (cash, open positions), cooldowns, last runs | `strategyLoop`, `processTrailingStops`, `marketDataLoop`, hydration, `applyOrderToSnapshot` | everything below |
| OrderManager (`execution/orderManager.ts`) | none of its own | `submitSignal`, `cancelAllOrders` | kill switch, risk engine, RetryExecutor, OrderState, PositionStateMachine |
| RetryExecutor, CircuitBreaker, HTTP client | failure count, time of the last failure | `placeOrder`; `recordFailure`, `recordSuccess`, `isOpen`; `fetchJson` | exchange adapter |
| InventoryManager | cash, available, reserved, positions | hydrate, `canSell`, `clampSellQty`, reserve, release, confirmFill, resync | loops, FillReconciler, HealthReport, exchange |
| KillSwitch | triggered, reason, time, losing streak, spread violations; an SQLite row | trigger, reset, `recordTradeResult`, `recordSpreadViolation`, drawdown and API-error checks, hydrate | loops, OrderManager, HTTP API |
| TrailingStopManager | entry, high, stop, per symbol | openPosition, update, closePosition | loops |
| OrderState, Reconciler | a table of orders | `upsert`; `run` | exchange, OrderManager |
| PositionStateMachine | lifecycle per symbol | transition, hydrate, persist | OrderManager |
| RiskEngine, EventLockout, TradeGatekeeper | events; last sell | evaluate, record | loops, OrderManager |
| VolatilityGuard, AnomalyDetector | last ATR; times of the last candles | check | RiskEngine |
| Market data, sentiment, on-chain | caches, table of candles | fetch with fallbacks and defaults | exchange, public APIs, loops |
| Legacy strategies | grid index, time of the last DCA buy | `onCandle` | loops, which trade on their signal |
| Strategy engine: alpha models, edge, overlay, plan, governance | decisions, parameters, change log | cycle; update, rollback; its decisions are only published | EventBus, API |
| PaperBroker | orders | place, fill at once | OrderManager |
| FillReconciler, trade journal, signal log, HealthReport | SQLite tables; counters of the day | compare fills, record, rotate, summarise | exchange, InventoryManager, API |
| NotificationRouter, AlertStore, preferences | ring buffer; a row and its copy | notify, patch | Telegram, Discord, pages |
| EventBus, WebSocket server, HTTP API | clients, subscriptions, running configuration | publish, subscribe, heartbeat; routes | browser |
| Dashboard | copy of `/api/data`, forms, requests in flight | refresh, save, trigger, reset | HTTP API |
| Configuration, secrets, start-up, shutdown | settings, degraded or not | load, hydrate, start timers; stop | everything above |
| Backtester | capital, position, trades; archive of results | replay, walk forward, sweep, save | files |
| Telegram wallet bot | conversations; a file of encrypted wallets | start, deposit, withdraw, buy, sell, export, PIN | Telegram, chain |
| SignalQueue, AuditLog, EventLockout | a queue, a table, a calendar | | nobody yet |

### What is hard

* **Interleaving.** `Scheduler` uses `setInterval`: a `strategyLoop` that waits
  for an order longer than the interval overlaps with the next one. Both read
  cash, positions and cooldowns before they wait and change them afterwards.
* **Two sets of books.** The inventory and the snapshot record the same fills
  through different calls, and after start-up share position objects.
* **Repeated requests.** An order request is repeated by the HTTP client (four
  tries) inside each attempt of the RetryExecutor; a time-out says nothing
  about whether the exchange has executed it.
* **Exits besides the main path.** Trailing-stop sells go through the same
  reservations as strategy sells and are settled differently.
* **Crashes.** Only the kill switch, the order table and the journals survive.
* **Stale answers.** Reconciliation stores answers of the exchange whenever
  they come, and re-syncs apply balances read earlier. So does the browser,
  whose refreshes overlap.
* **Answers that are made up.** Candles, tickers and sentiment fall back to
  defaults that look like data.
* **Rules that add up.** A decision is the sum of dozens of adjustments, caps
  and vetoes; what each does to the others no unit test covers.
* **Memory that outlives its purpose.** One grid for all symbols, one
  conversation state for all questions, pages with copies of settings.

### What makes each part correct

* KillSwitch: a halt lasts until a reset, through crashes; no counter passes
  its limit unnoticed; what is on disk is what is in memory.
* InventoryManager: amounts stay non-negative; reserving moves an amount and
  creates none; the three guards of a sell agree.
* Loops: with nothing in flight the books equal the exchange's; no run releases
  what another holds; sells never exceed the holding; runs end, and a halt that
  lasts leaves none under way and no order open.
* Retries: one call, at most one order; a returned order exists; calls end; the
  breaker closes again.
* Trailing stop: the high is the peak since entry; a stop never falls; no exit
  at the peak.
* Limits: positions and exposure exceed their limits by no more than what the
  overlapping runs have on its way; a loss beyond the limit stops trading; ages
  and cooldowns belong to the position they were set for.
* Alerts: a subscriber gets each once; no handler outlives its connection; a
  silent client is given up, and a shutdown ends.
* Order records: never ahead of the exchange; a closed record is final; records
  converge.
* Strategies: both sides are judged alike; more trouble never means a larger
  loss at the stop nor (errors of the API apart) a laxer mode; a bullish reading
  drops no buy; a level bought at is not bought at again before a sell, and
  regular buys are an interval apart.
* Data: a made-up candle gives way to a real one; the mood acted on is recent.
* Books: what they tell of a day's results, of the exchange and of the past is
  so; counters are of the last day on which there were any.
* Dashboard: it never goes back to an older state; timers run as configured;
  no page undoes what another saved.
* Start: no order leaves a process that was not cleared for it.
* Backtests: metrics are those of the trades; what is archived is what was run.
* Wallet bot: no wallet changes, nor is lost but by a write that is cut off;
  money moves as its owner was asked.
* What is left out of each part: see section 7.

## 2. The modules

| Module | Models | Used by |
|---|---|---|
| `KillSwitch` | `killSwitch.ts` and the SQLite row | instantiated by `TradingLoops` |
| `HoldingsLedger` | abstract: what is held and what is paid, without reservations | implemented by `InventoryManager` |
| `InventoryManager` | `inventoryManager.ts`, the re-sync split at its await | instantiated by `TradingLoops` |
| `TradingLoops` | live-mode loops, `submitSignal`, inventory, kill switch, snapshot, exchange | composition |
| `OrderPlacing` | abstract: what a caller of `placeOrder()` may rely on | implemented by `OrderRetries` |
| `OrderRetries` | `retryExecutor.ts`, `guards.ts` (CircuitBreaker), `http.ts`, and a network that loses, delays and repeats | |
| `Sums` | a sum over a finite set and one along a sequence, for totals that are proved about | `TradingLoops`, `Backtest`, `TradeBooks` |
| `TrailingStop` | `trailingStop.ts`, one symbol | `Parts` |
| `OrderRecords` | `orderState.ts`, `reconciler.ts`, the polls of the Coinbase adapter, restarts | |
| `TradeLimits` | the gates of `riskEngine.ts` and `tradeGatekeeper.ts` that read the account, the sizing in `orderManager.ts`, what fills do to the snapshot | |
| `EventFeed` | `eventBus.ts`, `websocket/server.ts`, `alertStore.ts`, what `notificationRouter.ts` does to them, the shutdown of `index.ts` | |
| `AlphaEnsemble` | `strategy/alpha/*.ts`, the regimes of `marketState.ts` | `Parts` |
| `TradePlanning` | what the engine makes of a direction: `marketState.ts`, `edgeScorer.ts`, `riskOverlay.ts`, `tradePlan.ts` | `StrategyEngine`, `Parts` |
| `StrategyEngine` | `strategy/engine.ts`, `governance.ts` | `Parts` |
| `CompositeSignals` | the legacy strategies without memory: advanced and regime-aware composite, multi-timeframe, EMA crossover, RSI | `Parts`, `MCStrongTrend` |
| `SteppedSignals` | the two with memory: `gridTrading.ts`, `smartDCA.ts` | `Parts` |
| `MarketGuards` | `volatilityGuard.ts`, `anomalyDetector.ts` and the gates that read them | `Parts` |
| `MarketFeed` | `marketDataService.ts`, `fetchHistory.ts`, the candle table | `Parts` |
| `MoodFeed` | `sentimentService.ts`, `onchainService.ts` and their loop | `Parts` |
| `PaperTrading` | `paperBroker.ts`, `positionStateMachine.ts`, what OrderManager does between them | `Parts` |
| `TradeBooks` | `tradeJournal.ts`, `fillReconciler.ts`, `healthReport.ts` | `Parts` |
| `EventHistory` | `signalLog.ts`, the rows of `tradeJournal.ts`, the ring of alerts and the time line of `routes.ts` | `Parts` |
| `Startup` | `main()` of `index.ts`, `config/`, `secrets/`, up to an order that leaves | `Parts` |
| `Dashboard` | the routes that change the program, `dashboardStore.ts`, the control pages | `Parts`, `MCKillShown` |
| `AlertPrefs` | `notificationPrefsStore.ts`, its route and page, `notificationRouter.ts` | `Parts` |
| `Backtest`, `RunArchive` | `backtester/`: the replay, walk forward and metrics; the sweep and what is kept on disk | `Parts` |
| `LiveBot` | the Telegram wallet bot, `lumenlink-livebot/index.js` | `Parts` |
| `Parts` | `TrailingStop` and the modules from `AlphaEnsemble` on, which share no state: a behaviour of it is one of the part it has drawn; the properties of the parts | `MCParts` |
| other `MC…` | values of the constants that a `.cfg` cannot express | |
| `OrderProofs` | the theorems about `OrderRecords` and `OrderRetries` | |
| `PartsProofs`, `BooksProofs` | the theorems about the parts: the second those of `Backtest`, `RunArchive`, `TradeBooks` and `EventHistory` | |
| other `…Proofs` | the theorems about the module they are named after | |

How state and actions correspond to the code:

* **KillSwitch.** `state` is `this.state`, `row` the SQLite row, `up` whether a
  process runs. Each public method is one action and includes its persisting.
  `Crash` loses memory, `Restart` is construction and `init()`. Drawdown and
  API-error checks are a choice of verdict. Spread violations are a set of
  numbered time stamps, pruned as the code does.
* **InventoryManager.** Amounts are lots; `available`, `reserved`, `cashUsd`
  and `positions` are the fields of `this.state`. `resync` is a reading and an
  applying action, because an await separates them and other loops run in it.
  `hydrateFromExchange` has awaits too, but is called once, before any loop is
  started, so that nothing comes between: it is one action, and the readings
  that fail for one symbol are a choice.
* **TradingLoops.** `run[r]` is one invocation of `strategyLoop` in progress:
  the await it is at, the symbols to do, its order and its reservation. Code
  between awaits is one step, so the checks, the reservation and the sending of one
  order are one action (`Sell`, `Buy`, `TrailSell`). The strategy's, risk
  engine's and gatekeeper's answers are free choices (`NothingPlaced` is a no
  of any of them). The exchange accepts, rejects, fills and cancels as its own
  process. Prices are 1 and fees 0.
* **OrderRetries.** `call[c]` is one `placeOrder`: attempt, HTTP try, where it
  waits. `transit`, `accepted`, `rejected`, `orders` are the network and the
  exchange; a request stays in transit after its sender timed out. The breaker
  counts failures and the time since the last one. `Dedup` says whether the
  exchange recognises a client order id (Coinbase adapter: yes; CCXT adapter:
  it sends none). Its specification is `CallsSpec`, since `OrderProofs` extends
  it beside `OrderRecords`.
* **TrailingStop.** Percentages are of an integer price, and each update reads
  any price and any ATR, zero included.
* **OrderRecords.** `remote` is the exchange, `local` the order table,
  `placing[o]` the polling inside `placeOrder`, `run[r]` one reconciliation in
  progress, at a symbol of `SymbolSeq` and an order of its list.
* **TradeLimits.** `position`, `realized`, `openTimes`, `stopped` are the
  snapshot and the maps beside it; `run[r]` is the order a run waits for, so
  that the decision (`Buy`, `Sell`, `TrailSell`) and its effect (`Returned`)
  are steps of their own. `nan` marks a number that JavaScript has turned to
  NaN. A position carries the number of the order that opened it. Market gates
  only say no, and so need no action.

* **EventFeed.** `clients`, `alive`, `subs`, `unsubs` are the server's map and
  the `ClientState` in it, `handlers` the listeners on the bus (a count, so that
  a handler that can no longer be taken off shows), `sock` the connection:
  `"closing"` is ended by either side with its close event still to come, and
  messages received before may be handled until then. `mute` is the client's
  own silence. `got` and `since` record what each subscriber received.
* **AlphaEnsemble, CompositeSignals.** Strategies read indicators only by
  comparing them, so an indicator is its place among the limits the code has
  for it; scores, confidences and weights are the code's own, scaled to
  integers. In the first each model adds its vote, in the order of
  the code; in the second one reading of `setup` changes at a time.
* **TradePlanning, StrategyEngine.** `conditions` are what the pipeline reads.
  The functions are the pipeline's, from market state to plan, and one
  condition changes at a time. The engine runs that same pipeline on a few
  cases while parameters are updated and rolled back under it.
* **SteppedSignals, MarketGuards.** The last candles of the symbols are judged
  in any order and again and again, as the loop does, by the one instance there
  is; for the guards the newest candle trades (volume and range grow, the close
  goes where it will, high and low follow it) and ages between two judgements.
* **MarketFeed, MoodFeed.** A request is answered or fails, with all the
  fallbacks the code then takes; the clock is explicit. What is read carries
  the time it was true at.
* **PaperTrading.** `Submit` to `Answer` is one order in flight; orders of
  overlapping runs of a symbol interleave, and a restart forgets positions.
* **TradeBooks, EventHistory.** Rows, in the order they were written. Between
  an order's fill and its row lies the request for its fees, and midnight may
  fall anywhere. What is told (summary, pass, time line) is computed from the
  rows as the code does and compared with what happened.
* **Startup.** `phase` is the await `main()` is at; the environment is drawn
  once, each await may fail. Settings that nothing here reads are left out.
* **Dashboard, AlertPrefs.** A fetch and a button's request are each a record
  with the answer, once the server has served it, so that answers land in any
  order; a lost one is served or not. Pages hold copies, as React state does.
* **Backtest, RunArchive.** Bars are replayed on any price path; signals are a
  choice of each bar. In the archive every read and write of a file is a step.
* **LiveBot.** A button, a reply or a stop of the program; `file` is what
  `wallets.json` would be read as, `cut` says that a write was cut off.

Refinement: `InventoryManager` implements `HoldingsLedger` with
`held <- available + reserved`. Reserving, releasing and refused operations
are stutters; fills, hydration and re-syncs are the ledger's steps. What the
ledger adds is that no sequence of reservations, early releases and fills
larger than the reservation creates or loses a unit.

`OrderRetries` implements `OrderPlacing`, with the breaker, the attempts, the
requests on their way and the answers hidden: a call waits from its first request
until it returns or throws, and has the orders created for it. Requests, time-outs
and retries are stutters. What the abstract module says is that a call begins only
while trading is not halted, gets one order at most, has it when it returns, and
may get it after it has thrown, which is why the caller of a failed call does not know
whether it has an order.

## 3. Runs

Passing runs:

| Run | Checks | Shows |
|---|---|---|
| `kill_switch` | RowIsState, LimitsTrip, HaltUntilReset | a halt is durable; limits trip |
| `inventory` | GuardsAgree, ImplementsLedger | reservations create nothing; guards agree; refinement |
| `loops` | BooksBalance, SnapshotFollows, SellsCovered, EveryRunEnds, HaltDrains | two overlapping runs of the strategy path over two symbols, one held at the start and one not, with rejected and canceled orders and halts: the inventory ends as the exchange's account; so does the snapshot of the symbol not held before, while it shows the other's fills twice; runs end, and a halt that lasts drains |
| `loops_faults` | HeldStaysReserved | the same with trailing stops, partial fills, orders returned open, ambiguous time-outs and re-syncs |
| `retries` | AtMostOneOrder, ImplementsPlacing, CallsEnd, BreakerCloses | retries are idempotent with client order ids; refinement; calls end; an open breaker closes |
| `limits` | OpenPositionsBound, ExposureBound, AgeIsOfThisPosition | what the limits come to when two runs overlap; a position's age is its own |
| `records` | ClosedIsFinal, Converges | late answers of overlapping reconciliations do no harm; an ended order's record becomes right and stays so |
| `feed` | HandlersOwned, EachAlertOnce, SilentGivenUp, ShutdownEnds | clients that come, subscribe, fall silent and leave in any order lose and repeat no alert and leave nothing behind; the process ends when those left are silent |
| `parts` | see below | eighteen parts that share no state, each explored in full |

The `TypeOK` of `KillSwitch`, `InventoryManager`, `TradingLoops`, `OrderRetries`
and `TrailingStop` is proved for all values of the constants and not repeated in
the runs; so are `NoExitAtPeak` and `DoneHasOrder`. The proofs about the other
modules carry the shape of the state in their inductive invariants.

What `parts` checks, part by part:

| Property | Part | Shows |
|---|---|---|
| VotesFair | AlphaEnsemble | a market turned upside down makes each model vote the other way; sentiment never turns round what a model of the regime says and none contradicts |
| TroubleNeverRisksMore | TradePlanning, MarketGuards | more of any trouble, alone or on top of others, never makes a plan lose more at its stop, and none but errors of the API relaxes the mode; a signal stopped for the volume, gap or age of the newest candle or for volatility is not let through by what that candle still trades, and one stopped for its wicks only once its body has grown or is gone |
| HistoryComplete | StrategyEngine | the change log replays to the configuration through updates, rollbacks and refused ones; the latest decisions are there without a gap |
| BullishNeverTurnsAway | CompositeSignals | an indicator that turns in favour of buying never makes any strategy drop a buy or start to sell, whatever veto or consensus it changes on its way; only a change of regime may cost the regime-aware strategy a signal, and never turns one round |
| SignalsSpaced | SteppedSignals | in whatever order the candles of two symbols are judged, again or not: a grid signal is for a move away from the level of the one before, below it to buy and above it to sell; DCA buys are an interval apart |
| TestSound | Backtest, RunArchive | drawdown, streaks and exposure are those of the trades; no trade loses more than its stop; the index lists only what can be loaded, once, and no combination beats the one kept |
| FakeGivesWay | MarketFeed | a made-up candle is followed by the real one of the next interval; a download has no hole |
| MoodFresh | MoodFeed | the mood acted on was true lately or is the default |
| OnePosition | PaperTrading | overlapping orders of a symbol share one position |
| BooksTold | TradeBooks, EventHistory | the counters told are all of the last day with any; drawdown and result of a day are those of what happened on it; a pass of the reconciler misses no orphan it sees; the time line leaves nothing out for something older |
| PanelSound | Dashboard | the page never goes back to an older state; the timer runs at the interval configured |
| PrefsKept | AlertPrefs | memory and row agree through restarts; a page that saves a channel undoes nothing of another |
| OrdersCleared | Startup | no order leaves a process that any switch, failed step or missing balance should have kept from trading |
| HighIsPeak, StopRisesPerEntry | TrailingStop | on all price paths, with percentage and ATR stops mixed, the high is the peak since the entry and the stop of an entry never falls |
| BotSound | LiveBot | a wallet that a user was told of is in the file; what is moved was asked for in the flow that moves it |

Violated runs, each against a sentence of the repository (quoted in
`PROJECT.json`, "findings"):

| Run | The code does | The repository says |
|---|---|---|
| `limits_loss` | two buys without a fill make the entry price NaN, which switches the loss limit off | "Stop trading if daily loss exceeds" |
| `strong_trend` | a strong trend asks a score of 1.0, any other 0.8, so that a sell given in a trend is withheld when the trend is strong | "strong trend needs less confirmation" |
| `kill_shown` | the dashboard is told of the kill switch what `KILL_SWITCH` was at the start, also once it has triggered | "Trading is active. All systems operational." |

The passing runs leave out, by their constants or their properties, what would
break. These
consequences follow from the actions as written; they were met as
counterexamples while the bounds were chosen and are not kept as runs:

* a fill of a position held at start-up is applied twice to the snapshot, since
  it then shares the position object with the inventory, and the position is
  removed while some of it is still held: `SnapshotFollows` says by how much the
  snapshot is wrong, and that it is right of a symbol not held at the start
  (`loops.ts:128`, against "remove position if fully closed" in
  `architecture.md:144`);
* a second buy replaces a tracked position, so that an active stop falls to
  nothing (`trailingStop.ts:84`, against "Only moves stop prices UP, never
  down" in `IMPLEMENTATION_SUMMARY.md:31`): `StopRisesPerEntry` is of one entry;
* `hydrateFromExchange` takes the free balance as available and the locked one
  as reserved, and then reserves each open sell again out of the first
  (`inventoryManager.ts:109`, against the comment at line 77);
* a trailing-stop sell confirms no fill and leaves its reservation behind
  (`loops.ts:1006`, against `inventoryManager.ts:7`);
* the size the risk engine caps to the capacity left is not handed to
  `submitSignal`, so that even a single run may exceed `maxPositionUsd`
  (`loops.ts:686`, `riskEngine.ts:103`; `ExposureBound` says by how much);
* the loss limit is one of the process's lifetime (`realizedPnlUsd` is never
  reset) and blocks exits too (`riskEngine.ts:91`; `riskAllows`);
* the deployed share is computed with all positions valued at the price of the
  symbol in question (`riskEngine.ts:113`; `totalNotional`);
* a trailing stop reserves the clamped amount but orders the whole size, so
  that with another sell in flight `SellsCovered` fails (`loops.ts:990`,
  `orderManager.ts:115`);
* an order returned open, or canceled after a partial fill, has its whole
  reservation released, so that `BooksBalance` fails with "late" or "partial"
  among the features (`loops.ts:758`);
* a re-sync applies a balance that counts a buy in flight as paid, and the fill
  is then debited again: `BooksBalance` fails with "resync" (`inventoryManager.ts:306`),
  nor does a re-sync repair a wrong split with the right total (line 319);
* two overlapping runs send the same signal within the cooldown, since it is
  set only after the order returned (`loops.ts:724`), and two overlapping buys
  are capped by the same cash (`orderManager.ts:134`);
* a sell that filled nothing counts as a profitable trade and ends a losing
  streak (`loops.ts:1112`; `recordsTrade`);
* without a client order id (the CCXT adapter, `ccxt/adapter.ts:112`)
  `AtMostOneOrder` fails: a retry after a lost answer buys twice;
* a retry is sent although the switch was triggered during the back-off
  (`retryExecutor.ts:43`; `Resend` has no such guard), so that orders are placed
  after a halt: what `HaltDrains` and `CallsEnd` say is that they come to an end;
* a size is never below 25 dollars, also where `maxPositionUsd` is
  (`positionSizing.ts:14`; `FloorUsd`, which `ExposureBound` counts with);
* an order whose placing was cut short by a restart or a failed poll is never
  recorded: the reconciler looks up recorded orders only (`reconciler.ts:20`,
  against "Local ↔ Exchange sync" in `architecture.md:186`);
* a dashboard client that keeps answering pings keeps a shutdown from ever
  ending, since the WebSocket server is not closed (`index.ts:566`):
  `ShutdownEnds` needs its second premise. When the exit does come, it cuts off a
  run that still waits for its order;
* an order that failed or expired is recorded as pending for ever: `Converges`
  fails with "failed" among `Ends` (`coinbase/adapter.ts:20`).

What the modules of `parts` make visible beyond their properties, met the same
way; the comment at a property says what it leaves out for it:

* *Engine.* A rising API error rate turns `flatten_only` back into
  `no_new_entries` (`riskOverlay.ts:134`); a smallest position overrides the cap
  of the exposure, and costs count twice (`tradePlan.ts`); the breakout model
  adds half a point for a squeeze whatever the side; sentiment alone can carry
  the ensemble, against "tilt" (`sentimentTilt.ts:5`). The loop gives the overlay
  no shift of volatility, correlation, event or operational risk
  (`loops.ts:424`), nothing calls `recordExecution`, `promoteStage` or `toggleFeature`,
  and the engine's plan is only published: orders follow the legacy strategy.
* *Legacy strategies.* A disagreement of the timeframes makes a bearish score
  more bearish (`advancedComposite.ts:352`); a greed of 81 to 86 dampens less
  than 75 to 80; one grid and one DCA serve all symbols, so that with another
  symbol judged in between the grid signals the same candles again, a sell of the
  one and a buy of the other at every run of the loop while their levels differ,
  and the DCA's buy of the symbol that is judged first puts off that of every
  other one; a DCA buy counts when signalled, not when filled.
* *Market guards.* The first check after a start never finds stale data; the
  interval expected is the distance of the last two candles, so that after a hole
  staleness is judged leniently; a candle without a body has no wick ratio, so
  that a stop for wicks ends when the price is back at the open, or far enough
  away from it, while the candle is still the newest.
* *Data.* The TTL of the sentiment caches is a third of the loop's interval, so
  that they never answer; a failed fetch reads as 50; within its interval a fake
  candle stays the latest although the exchange answers again.
* *Paper and positions.* After its first filled buy a position stays `filled` for
  ever; a sell's fill can fill a pending entry; `toBasicOrderRequest` drops the
  stop price, and a stop-limit order fills at its limit wherever the market is.
* *Books.* The counters are reset by the first record of a day and not at
  midnight (against "Counters reset at midnight UTC" in `healthReport.ts:7`): up to
  it `getCounters()` answers with those of an earlier day (line 226), and
  `printSummary()` prints them under today's date (lines 143, 157). A pass during the
  request for an order's fees counts it as an orphan;
  the same mismatches are counted at every pass; summaries over several days
  skip days without an exit and with them their commissions
  (`tradeJournal.ts:216`); the profit written down excludes fees; trailing-stop
  sells are not journalled. A blocked signal that as many holds follow as the
  limit allows is missing from a time line with room (`routes.ts:563`).
* *Dashboard and API.* A poll interval is reported as applied and the timer keeps
  the old one; values are not validated, so that an interval may be 0; changes are
  lost at a restart; pausing and closing a session answer 501, although the page
  offers them; changing the strategy changes only what is shown; the page sends no
  API key, so that with one configured all its calls are refused. A preference
  once overridden cannot be cleared from the page.
* *Start.* A degraded live start stays blocked until a restart; differences that
  the first re-sync finds block nothing; `SECRETS_PROVIDER=aws` does nothing by
  itself; a mistyped boolean reads as false.
* *Backtester.* Walk-forward tests of 10 to 49 candles are let through and make the
  whole pass throw (`walkForward.ts:40`, `engine.ts:69`); a stop is filled at its price even over a gap; an entry's
  commission appears in the equity at the exit; the walk forward drops open
  positions; a sweep ignores the costs configured and saves them as if used
  (`paramSweep.ts:58`, `run.ts:76`); concurrent runs lose entries of the index, and
  a cut-off index makes every later save throw.
* *Wallet bot.* A flow begun in the middle of another does not end it: with a
  withdrawal's amount given, pressing Buy and answering its question with an
  address sends the ether there (`index.js:440`). `MovedAsAsked` says nothing of a
  user who ever did that (`muddled`), only of those who finish what they begin. A
  write of `wallets.json` that is cut off loses all wallets, and `WalletKept` says
  nothing from then on (`cut`). A transfer whose success message fails is told as
  an error.
* *Preferences.* A page that saves all channels, or the same one, undoes what another
  page saved since it was loaded: `OthersStay` is of saving a channel and the others.
* *Order records.* A cancellation that is only queued would be recorded as done
  (`coinbase/adapter.ts:17`), but the program cancels no order once it trades.

Hazards that `PROJECT.json` has no room for: the cash a buy is capped by is read
before the buys in flight are debited (`loops.ts:691`); the process may stop
between the exchange's acceptance and the record (`orderManager.ts:208`); the kill
switch is read before the awaits of the retry loop (`orderManager.ts:178`); after a
restart holdings have no trailing stop (`trailingStop.ts:17`). The bullets above
that name a line say what the models show of them.

## 4. Bounds

| Run | Bounds | Why they are enough |
|---|---|---|
| `kill_switch` | limits 2, window 2, time 4, counters 4 and 3 | each limit is passed, pruning removes some violations and keeps others, several triggers and resets fit |
| `inventory` | one symbol, dust 1, lots 0..2, holding 3, cash 2, fees 0..1 | symbols do not interact; amounts below, at and above the dust, and fills larger than the reservation |
| `loops` | 2 symbols (4 lots held of one, none of the other), 2 runs, 2 orders, cash 4, three quarters of a position per sell | two sells of three lots: the second is refused only thanks to the first's reservation; a buy of the shared position, a sell that makes it nothing in the snapshot, and an order after either; a buy of the other symbol; a halt before, between and after them |
| `loops_faults` | 2 symbols (one held, one flat), 2 runs, 2 orders, 3 of 5 lots a sell | each fault meets an order of the other run on the same symbol, and a run goes on to the next symbol after it; a trailing stop can clamp to what the other run left |
| `retries` | 1 call, 2 attempts of 2 tries, any number of earlier failures up to the threshold | a request is repeated in both loops, four requests may be in transit at once, and the breaker opens by the call's own failures or was open before |
| `limits` | 3 symbols, one of them twice as dear, 2 runs, 4 orders, limits of 1 open position and 3 units in each, orders of 2 units at least | a third symbol is what the bound on positions excludes; two buys of one symbol meet the bound on exposure; a position is closed, reopened and closed again |
| `limits_loss` | 1 symbol, 1 run, 5 orders | two empty buys, a buy, a losing sell and the order after it |
| `records` | 1 order, of the second of 2 symbols, quantity 2, 2 runs, 1 restart | two answers for the order overtake each other, a failing list of the first symbol keeps a run from the second, a restart meets each await; orders are independent, and `ClosedIsFinal` is proved for any number |
| `feed` | 2 clients, 1 channel, store of 2, 3 alerts | one client is ended while the other goes on; the store overflows; channels share nothing, and `HandlersOwned` is proved for any number of them |
| `strong_trend` | 1 base setup, 2 readings off | a falling market at an ADX just below a strong trend |
| `kill_shown` | 2 changes, 1 fetch | a trigger and a fetch after it |
| `parts`: alpha | 3 markets, at most 2 models that vote for a side at a time, oscillators on three places | two models may agree or contradict each other, with sentiment as a third voice kept neutral or one of them; a regime for and one against each model |
| … planning, engine | at most 3 conditions off calm, each with a value on both sides of every limit; 3 cases, 4 cycles, 3 changes | every pair of troubles meets a third; the history is trimmed (3 kept to 2); an update is rolled back and updated again |
| … composite | 4 base setups, 2 readings off; moods on every side of each limit | every pair of the indicators around a bullish market, a bearish one with and without fear, and an overheated one |
| … stepped | 2 symbols, 3 levels, an interval of 2 hours, 5 hours | two buys, and a late candle of the other symbol between them; candles of two symbols at different levels judged in turn |
| … guards | 2 to 4 values of each measure, on both sides of each limit; closes far below the open, at it, and one and two steps above | each limit is passed alone and with another; wicks come and go, to a body that shrinks, grows and vanishes |
| … feed, mood | 8 and 12 units of time, intervals of 3, time to live 1 | several polls, failures between them, a cache that ends between two runs |
| … paper | 3 orders of 1 symbol, 2 prices | two buys overlap, a sell between them; symbols share nothing |
| … books, history | 2 orders, 2 days, pages of 2 fills and 1 entry; 3 rows of a source, ring of 2, limits 1 and 2 | pages are too short and are not; midnight falls between fill and entry; each source is longer than the limit |
| … panel, prefs | 2 changes, 2 fetches; 2 channels, 2 pages, 2 edits, 2 alerts | answers overtake each other; two pages save both channels |
| … startup | 7 environments, 2 starts, 1 order | each switch alone keeps the process from trading; what a first process left meets the second |
| … backtest, archive | 2 windows of 3 and 4 bars, 3 prices; 2 processes, 2 by 2 parameters | stop, target and time may be due in one bar; every interleaving of two saves |
| … trailing | prices 8..14, ATR 0..2, activation 10%, trail 15% | below, at and above activation and both kinds of stop, which round differently |
| … bot | 2 users, 5 updates, replies that are an address, a name, ETH, an amount the user has or more | a trade takes three updates: two of another user, or of the same, fit between |

Symmetry of the runs is used in `loops_faults` and `limits`, and of the symbols
of one price in `limits`. Both check only invariants and action properties, and
no property or action tells the permuted values apart.

Bounds in guards are constants named in the module (`MaxOrders`, `MaxTime`,
`LossBound`, `ViolationBound`, `MaxHolding`, `MaxCash`, `MaxRestarts`, and others
marked as bounds at their declaration). `parts` allows deadlock, since several of
its parts end with their bounds.

## 5. Fairness

* `TradingLoops`: weak fairness of each run's steps, since every awaited call
  returns or throws (the HTTP client has a time limit, the adapter polls ten
  times), and of the exchange deciding each market order. Nothing is assumed of
  the scheduler, the operator or the cooldown.
* `OrderRetries`: weak fairness of the timers (time-outs, pauses, back-offs)
  and of the clock. The network owes nothing: a request may never arrive.
* `OrderRecords`: weak fairness of scheduler ticks (a slot that is free is used)
  and of synchronous code; strong fairness of the success of a list call for
  each symbol and of a look-up for each order, since calls repeated at every
  tick sometimes succeed; weak fairness of the exchange ending an order.
  Without the strong fairness an exchange that never answers would refute
  `Converges`, which says nothing about the code.
* `EventFeed`: weak fairness of the heartbeat's interval, of the close event of
  a socket that is closing (the library ends a handshake that is not answered)
  and of the callback of `server.close()`. Clients owe nothing: they may never
  answer, leave or close.
* All others, those of `Parts` among them: safety only.

## 6. Proofs

All theorems are checked by TLAPS for every value of the constants that the
named assumptions admit (`KSAssumption` and so on: limits and bounds
are natural numbers, positive where the code needs them to be).

* `KillSwitchProofs`: TypeOK, then `RowIsState` and `LimitsTrip` by one
  inductive invariant. `LimitsTrip` alone is not inductive: a crash and a
  restart read the counters from the row, so `RowIsState` is part of it.
  `HaltIsDurable` (an action property) follows from it: a restart keeps a halt
  only because the row has it.
* `InventoryManagerProofs`: TypeOK (no amount negative, with any number of
  symbols), `GuardsAgree`, and the refinement of `HoldingsLedger`: each action
  is a ledger step or a stutter under `held <- available + reserved`.
* `OrderProofs`, of the retries: `AtMostOneOrder` needs that two orders of one call with
  the same client order id cannot both be created, under any loss, delay and
  repetition, so the proof is by the exchange's steps alone, with `Dedup` as its
  hypothesis; `DoneIsReal` needs that an accepted request has an order of its
  call, whichever request created it. `RetriesImplementPlacing` is the refinement of
  `OrderPlacing`, with the same hypothesis: each step of a call is one promise or
  a stutter (`CallShows`), and a delivery creates an order of a call that waits or
  has failed, since only calls that have begun have requests on their way
  (`RequestsSent`) and one that returned has its order already (`DoneHasOrder`).
* `OrderProofs`, of the records: `ClosedIsFinal` is not inductive: an answer on its way
  (in `placing` or in a reconciliation) must also be a past state of the order,
  and the order's own progress must keep all of them past. The invariant says
  so of every holder of an answer; each action then adds a holder whose answer
  is current, or moves one.
* `TradeLimitsProofs`: `OpenPositionsBound` is inductive with the shape of the
  state because of the moment a slot is taken: a buy of a new symbol finds fewer
  than the limit filled, whatever is on its way is one symbol a run, and every
  other step claims no further symbol. `AgeIsOfThisPosition` goes through since
  a buy keeps the identity of a position and every end of one forgets its time.
  `ExposureBound` (`EInv`) is a sum over the runs that buy: what is held and on
  its way of a symbol grows only when a run decides, and then by at most one
  largest size, while a return moves an amount from the one to the other.
* `EventFeedProofs`: `HandlersOwned` needs that `unsubscribers` and
  `subscriptions` name the same channels at every step, also of a client that the
  heartbeat has already given up and whose last messages subscribe it again.
  `EachAlertOnce` (`AInv`) adds what the ring holds (consecutive numbers that end
  with the last) and that whoever listens has received all since it began, which
  one push to every handler keeps because a listener has one handler.
* `TradingLoopsProofs`: `TInv` (types, what each waiting run waits for, no fill
  beyond its order, the locked balance is that of the live sells) carries
  `TypeOK` and `HeldStaysReserved` with every feature on, for
  any runs, symbols and holdings. `CalmInv` adds the ledger: each reservation is
  the sum of the awaited sells, each holding the exchange's balance less what has
  filled and is not confirmed, and so for cash. From it follow `BooksBalance` and
  `SellsCovered`, with `Features = {}` as hypothesis, and `SnapshotFollows`
  (`SnapshotShows`): at every moment the position shown differs from what the
  inventory holds by exactly the fills that are counted twice, as long as the two
  share it, and never exceeds it afterwards (`Shows`). These are the settings of
  the run `loops`, with any holdings, symbols, runs and orders; with a feature on the
  properties fail, as section 3 tells. What is summed are
  orders, by the units of `Sums`, so that a sum is the cardinality of a set.
* `PartsProofs`: a behaviour of `Parts` is one of the part it has drawn, so each
  invariant is guarded by the name of the part and each proof is that of its
  module.
  - `HighIsPeak` is inductive with the types; `NoExitAtPeak` needs that an active
    stop lies below the high, because the stop of an earlier update is kept when
    the new one is lower. `StopRisesPerEntry` follows from the maximum taken.
  - `OrdersCleared`, for any environments and number of starts: the order's own
    guards read only what `main()` has left behind, so `StartupInv` follows it
    phase by phase: a live start is verified so far or blocked, the switch in
    memory is that of the row once it has been read, and no run is under way
    before the process serves.
  - `OnePosition`: a begun position is pending or filled and an entry only begins one
    where its symbol has none. `MoodFresh`: the stamp of a cached value is no later than
    its reading, so that what a run takes is younger than a time to live at its start,
    and what it leaves than a period and a time to live when the next one begins.
    `PrefsKept`: memory is the row, and both have every channel, through patches and
    restarts.
  - `PanelSound`: at most one fetch is under way, since the page's flag admits no second,
    and its answer is no older than what is shown. `SignalsSpaced`: the grid moves
    only with a signal once it has begun, so that it stands at the level of the last one
    whichever symbol that was for, and the time of the last buy is that of its candle.
  - `FakeGivesWay`: a real candle that is the newest stays so for its interval, and a
    download has all the history up to its cursor, since a page with two candles or
    more moves it on.
  - `HistoryComplete`: each change starts from the value the one before it left,
    so that the log replays to the configuration, and the decisions kept are the
    last of a sequence without a gap.
  - `BotSound`: unless a write was cut off, memory and file agree and every wallet told
    of is on them; the conversation of a user who finishes what he begins is in the
    flow he is in.
  - `TroubleNeverRisksMore` and `BullishNeverTurnsAway` are monotonicity: for every
    step of the pipeline (liquidity, score, overlay, size, stop) a lemma says that
    a worse condition yields no more, rounding included, and for every term of the
    score that a more bullish reading yields no less. For the mode, `ModeKeeps` says it of
    each trouble but the errors of the API. For the guards: volume and range are
    also in the median they are compared with, and wicks that were too long for a body
    are too long for one that is smaller and still there (`WicksGiveWay`).
  - `VotesFair`: turning a market upside down turns round each vote (that of the
    breakout model may fall silent); a model that speaks in its own regime weighs at
    least 225000 (weight by confidence), sentiment at most 300000, and a side that
    leads must do so by more than 15 in a hundred of the sum: what the regime's models
    say is left without a majority at worst, never turned round.
* `BooksProofs`: the parts that keep and tell what has happened. Their properties
  compare what a loop of the code computes with what it is meant to be, so besides
  the invariants of the steps there is one along each loop. A loop is a recursive
  function on its index; `Climb` and `LoopRuns` say that what holds before the first
  turn and is kept by each holds after the last (a least index at which it failed
  would have a predecessor), for sets of indices, without an operator as parameter.
  - `TestSound`. Trades: a stop is looked at before all that closes at the bar's
    close, so that where none is reached the close is above it, and a position that
    is kept is not overdue in the next bar. Drawdown: after `i` points the peak is
    the largest so far, the maximum the deepest fall between two of them; a fall from
    an earlier point to the new one is no deeper than that from the peak, which is
    monotonicity of a rounded quotient. Streak: the current row is the longest that
    ends here. Exposure: `MarketInv` counts each bar once, in a trade or in the
    position still open, through the windows.
  - The archive's half of it. `ArchiveInv`: what a process has read of the index
    are runs that have ended, itself not among them, so that writing it back adds
    one and may lose some but lists none twice. `MeasuredInv` and the loops
    of the sweep: `cartesian` gives combinations of all keys, `results` those of
    them that ran, and the reduction leaves the best.
  - `BooksTold`, of a day. `CountersInv`: the counters are those of the day they were
    reset for, and nothing is recorded yet of a later one. Along the loop of a day's summary the running result
    is that of the exits so far, the peak its largest value and the drawdown its deepest
    fall. The total of the days equals the sum over the exits in them because each
    entry has one date, not in the future (`Dated`): sums over days and over entries
    are exchanged, one entry at a time.
  - `BooksTold`, of a pass. `PassInv`: the orders are numbered without a gap,
    and an entry is only of a confirmed order, one each, and
    says how much was filled. So an order that a pass sees whole has the amount of
    its fills, counted by `byOrder`'s sums, and its entry differs in its fee
    only; with both pages long enough the pass counts the orders without an entry
    that agrees, each once.
  - `BooksTold`, of the time line. `HistoryInv`: rows of a source are numbered in the
    order of their times. In a finite set with a linear order the elements have the
    ranks from 0 on, each one of them, so that `newest` keeps the last rows and
    `timeline` lists the first of what was merged; what either leaves out is older
    than all it keeps.

The assumptions are those stated in `Parts`: amounts and times are natural numbers,
times to live and intervals positive, prices positive and larger than the slippage,
the initial settings complete, candles at least a step apart, each swept parameter has
a value to try.

`DrawdownMatches` is of curves that begin above zero and never fall below it: the
code divides by the peak, and below zero its percentage is not one of a fall. In every
state of the run the curves are such.

All safety properties of the runs have a theorem. Only model-checked are the seven
liveness properties (`EveryRunEnds`, `HaltDrains`, `CallsEnd`, `BreakerCloses`,
`Converges`, `SilentGivenUp`, `ShutdownEnds`), since TLAPS does not prove liveness under fairness.
Violated properties are TLC counterexamples.

## 7. Not modelled, and the plan

`PROJECT.json` says of each component what is left out and why. In short:

* *Has no effect in this program.* `SignalQueue`, `AuditLog` and `EventLockout` (nobody
  fills them), attribution and explanations (their inputs have no caller),
  `checkTicker`, the persistence of positions.
* *Out of TLC's reach.* Floating-point arithmetic of the indicators and of the
  ratios among the backtester's metrics: the models start from verdicts, and
  from any of them.
* *Wrappers.* The CCXT adapter (what differs of it is a constant of
  `OrderRetries`), the Coinbase agents other than the wallet bot, the posts to
  Telegram and Discord, SQL.
* *Display.* Pages that change nothing, routes that only read, printed reports,
  the DeFi and trending data.

What would come next: paper mode as a composition of `PaperTrading` with
`InventoryManager`, as `TradingLoops` is for live mode; `OrderRecords` and the
loops over `OrderPlacing`, as one exchange that all of them see.
