# Verification of moreney

TLA+ modules, TLC configurations and machine-checked proofs for moreney, a
paper-trading bot for cross-exchange arbitrage (`src/bot`).  Every definition
is translated from the code; `PROJECT.json` names the lines each one stands
for, the runs, the theorems, the hazards of the code and what was found.

Contents: [1 The system](#1-the-system) ·
[2 Modules and their correspondence to the code](#2-modules) ·
[3 Runs, bounds and what they show](#3-runs) ·
[4 Fairness](#4-fairness) · [5 Proofs](#5-proofs) ·
[6 Findings](#6-findings) · [7 Observations](#7-observations) ·
[8 Not modelled](#8-not-modelled) · [9 Plan](#9-plan)

## 1 The system

Everything runs in one asyncio process per paper instance, optionally with one
more process that connects to the exchanges and publishes through Redis.
Control changes hands only at an `await`: between two of them a handler is
atomic, and the modules make one action of the code from one suspension to
the next.

| component | state it keeps | operations | talks to | hard part |
|---|---|---|---|---|
| WebSocket manager (`websocket_manager.py`) | socket, connected flag, run and heartbeat tasks, backoff delay, last-message time, recent frames | start, run loop, heartbeat, stop | exchange adapters, market-data service | two tasks, a socket that may go at any `await`, cancellation |
| Feed adapters (`adapters/*.py`) | none | parse a frame to an event | manager, service | which frames are snapshots |
| Local order book (`local_order_book.py`) | levels, sequence, synchronized flag, cached view | apply_snapshot, apply_delta, mark_desynchronized, get_book | service | lost, repeated and reordered deltas; trimming |
| Market-data service (`service.py`) | books, connection states | handle_event, snapshots, build_risk_context, hydration | book, publisher, cache, engine | promotion of deltas, staleness at the time of use |
| Publisher and cache (`publisher.py`, `cache.py`) | last write per exchange; Redis keys with expiry | on_event, publish_health; get | service of the publisher, service of the consumer | throttle, expiry, outages, two hydrations at once |
| Arbitrage strategy and profitability | counters | evaluate_markets, estimate | engine | prices averaged over depth, executed later |
| Trading engine (`orchestrator.py`) | none between runs | run_once | all of the above, risk, executor | opportunities found at one time and executed at another |
| Risk engine and kill switch (`risk_engine.py`, `kill_switch.py`) | trade window, switch state, failures, conditions, event trail | evaluate; pause, stop, recover, record_* | engine, runner, API | a state machine fed by cycles and by an operator |
| Position limits (`position_limits.py`) | none | evaluate | risk engine | checks against a snapshot of the portfolio |
| Paper executor and portfolio (`paper_executor.py`, `order_manager.py`, `fill_tracker.py`, `accounting.py`, `portfolio.py`, `persistence.py`) | orders, fills, processed fill ids, balances, positions | execute, cancel, apply fill, persist, load | engine, store | a sleep in the middle of execute, reservations, restarts |
| Paper session runner (`runner.py`, `store.py`) | running flag, loop task, engine, tracker, portfolio, session file | start, stop, reset, shutdown, loop | API, engine | API calls racing each other and the loop |
| Performance tracker (`tracker.py`) | opportunities, counters, statistics | record_*, sync, snapshot, restore | runner | agreeing with the portfolio |
| Exchange clients (`ccxt_adapter.py`, `retry.py`) | a connection | place_order, cancel_order, fetch_*; retries | exchanges | an answer lost after the order was accepted |
| REST API (`main.py`) | singletons | start, stop, reset, kill-switch endpoints, queries | runner, risk engine | calls at any time |
| Dashboards, login, database models, recorder, backtesting, scripts | none that decides anything | | | |

What makes each component correct, in a line:

* book: its levels are those the venue had at the version it names; it is
  never crossed; nobody is shown a view older than the book;
* shared market data: no copy of a book passes for fresher than it is; every
  book is written again while its feed is up; an invalid book is hidden;
* manager: what counts as connected is being read; stop leaves nothing behind;
  a feed that was lost comes back, with backoff;
* strategy: quotes are the best there are and of one quantity; never both
  directions at once; what is executed still pays;
* engine: an order is placed on a valid book (which the code does not keep to, see
  [Observations](#7-observations)), and on none older than the limit plus the time the run has taken;
* risk engine: no approval with the switch blocked or a probe bad; a block ends
  by an honest recovery only; the rate limit holds in every window;
* executor: no balance below zero, positions agree with balances, cash with
  fills, reservations with open orders, prices with limits; a restart loses
  nothing but what was not saved;
* limits: no more positions and exposure than allowed, no order in a drawdown from
  a peak that outlives the process;
* session: one loop, nothing filled once stopped, the tracker records what was
  filled and nothing else, calls return, a process that dies loses no session at
  rest and none goes back behind a reset.

The hazards this code is exposed to are listed in `PROJECT.json` at the line
where each bites, with the properties that would catch it going wrong.

## 2 Modules

A component module has the state as variables, Init, an action for each
operation or handler, Next and Spec, and its properties at the end.
`MC_<module>.tla` gives the values that a configuration cannot spell;
`<module>.cfg` is the run of the module; `RiskEngine_stuck.cfg` is another one of `RiskEngine`,
which ends in a counterexample. The theorems are in modules of their own, some of
them about several components, which have names of their own for their Init, Next
and Spec so that they can be extended together:

| proofs | about |
|---|---|
| `Sums` | sums over finite sets and folds of sequences, which the others rest on |
| `PaperExecution_proofs`, `RiskEngine_proofs`, `Arbitrage_proofs`, `ExposureLimits_proofs` | the module of that name |
| `MarketData_proofs` | `LocalOrderBook`, `BookFeed`, `WebSocketManager` (`Manager...`), `SharedMarketData` (`Shared...`) |
| `Trading_proofs` | `TradingCycle` (`Cycle...`), `ExchangeClient` |
| `Session_proofs` | `PaperSession`, `PerformanceTracker` (`Tracker...`) |

Definitions marked `Mutant:` are plausible bugs, listed in `PROJECT.json` with
the property that finds each of them. `PROJECT.json` "map" has the source lines
of every definition.

| module | models | how state and steps correspond |
|---|---|---|
| `PaperExecution` | `PaperExecutor.execute` and `cancel`, `OrderManager`, `FillTracker`, `AccountingEngine`, `PaperPortfolio`, `PaperPersistence` | variables are the dictionaries of those classes and the saved file; each way through `execute` is an action (RejectUnfunded, Rest, RejectIlliquid, FillBuy, FillSell), with Cancel, Redeliver (a fill submitted again), Persist and Restart. Money is counted in the smallest unit |
| `FillLedger` | what the executor promises | a cash total and positions, changed by one fill at a time, and put back to a saved point by a restart. `PaperExecution` implements it (`ImplementsLedger`) |
| `KillSwitch` | `kill_switch.py` | one operator per method, as the process wires it |
| `RiskEngine` (extends `KillSwitch`) | `RiskEngine.evaluate`, the runner's gate before a cycle, the operator's calls | the checks in their order; `market` says which probes are good, `faults` what one opportunity fails |
| `ExposureLimits` | `PositionLimitCalculator`, the drawdown check of `RiskEngine.evaluate`, the portfolio snapshots of `run_once`, marks, fills, the peak of the equity and what a restart keeps of it | a run holds the snapshot it decides on; Begin, Evaluate, Fill, Recover, Restart. `highest` is a history variable: the highest equity there ever was |
| `LocalOrderBook` | `local_order_book.py` | the venue's book by version, next to the levels the process has; three kinds of feed, as the adapters know them: ranges (Binance), nonces (Bitvavo), bare (Coinbase, Kraken). Which kind it is, is a variable that Init chooses and nothing changes, so that one run covers all three |
| `BookFeed` (extends `LocalOrderBook`) | `MarketDataService.handle_event` in front of the book | deltas that are promoted to snapshots when the book has no base |
| `SharedMarketData` | publisher, Redis, consumer | a book is its age; handlers with suspensions have a place where they are suspended; ticks of time |
| `WebSocketManager` | `websocket_manager.py` | where the run loop, `stop` and the heartbeat tasks are suspended; Drop is the other side |
| `TradingCycle` | `orchestrator.py`, with `get_venue_snapshots` and `_resolve_execution_book` | one action from a suspension of `run_once` to the next; books change in between |
| `Arbitrage` | `strategies/arbitrage.py`, `profitability/`, `_walk_book` | the walk through levels as steps; prices averaged over depth are kept as the cost they come from |
| `PaperSession` | `runner.py`, the calls of `main.py`, the session file of `store.py` | API calls and loop tasks with the place each is suspended at; portfolios and trackers by generation; `disk` is the file, or that there is none. Crash ends the process at a suspension, CrashInReset between the removal of the file and its rewriting; the next process loads the file or begins afresh. `overlapped` is a history variable: two calls have been under way together |
| `ExchangeClient` | `ccxt_adapter.py` orders, `retry.py`, `live.py` | a call per request, with requests and answers that may be lost; an order is put into words by any of the names of its status and with any field left out (`Payloads`), and `Status`, `Returned` are what `_normalize_order` makes of that. The exchange is external: it is not relied on to refuse a client order id it has seen, which the engine's requests do not carry |
| `PerformanceTracker` | `tracker.py`, `_estimate_realized`, the portfolio's fee total | opportunities of the runs of the engine from record to result; counters, statistics by pair and day, equity, peak and worst drawdown, each beside the portfolio's; `Tasks` are the loops, `file` the session file; SaveSession, Restart (which imports the tracker field by field and syncs it), Reset, Midnight, and a run whose results are lost (LoseRun) |

How they compose. `RiskEngine` extends `KillSwitch` and `BookFeed` extends
`LocalOrderBook`; the others meet in what one takes from another:
`TradingCycle` takes a book as an age and a validity, which is what
`LocalOrderBook` (its levels are right when it is synchronized) and
`SharedMarketData` (its age is not less than it says) establish; `Arbitrage`
takes the levels; `ExposureLimits` and `PaperSession` take a fill as what
`PaperExecution` makes of an order; `PaperSession` takes the switch as a flag
that blocks, which `RiskEngine` is about.

Abstractions that are not in the code: prices and quantities are small
integers (the code uses `Decimal`, which does not round in the sums that
matter here; the floor of a quantity in `ExposureLimits` and the shares of a
cost basis in `PaperExecution` round explicitly), ids are model values or
indices, time is a count of ticks or an age that stops at the bound `Oldest`,
which is beyond every age that a limit allows.

## 3 Runs

Every run below ends with no error. The run that refutes something is in
[Findings](#6-findings); what else was refuted while the modules were written
is in [Observations](#7-observations).

| run | properties | what it shows |
|---|---|---|
| `PaperExecution` | Solvent, HoldingsMatchPositions, ReservationsBacked, CashConserved, ImplementsLedger | The executor as the trading engine uses it, with sells, cancels, saves, redelivered fills and a crash, over two symbols: balances, positions, reservations and the cost basis agree after every interleaving, and the portfolio implements the ledger of fills. |
| `RiskEngine` | FailuresStop, RateLimited, NoSilentResume, ApprovedInGoodMarket | Cycles, an operator, a drifting market, failures and a clock: an approval never passes a blocked switch or a bad probe, failures at the limit stop, a block ends by a recovery only, and no window holds more approvals than the limit. |
| `BookFeed` | LevelsReal, NotCrossed, CacheAgrees | The book as the service feeds it, for the three kinds of feed, with messages lost, repeated and reordered where the feed numbers them, and deltas taken for snapshots: its levels are those of one version of the venue, nothing crosses, no stale view is returned. |
| `PaperSession` | NeverFabricates, TradesOwnPortfolio, BlockDrains, RestSurvives, ResetSticks, StoppedEnds, KeepsCycling | Two API calls under way together, the loops they create, a reset, the kill switch and a process that dies at any suspension or in the middle of a reset, on a fair event loop: while calls do not overlap only the running session trades, nothing is recorded that was not filled, and what was stopped survives; in any case a block lets only orders in flight through, no process goes back behind a reset, a session left running goes on, and one left stopped has no loop in the end. |
| `SharedMarketData` | NeverFresher, OnlyForward, DisconnectionReported | A publisher, Redis with expiry and outages, and a consumer whose start hydrates beside its loop: no copy of a book passes for fresher than the venue's last update, no hydration that has the consumer for itself takes a book back, and a connection that stays lost is reported to the consumer. |
| `TradingCycle` | AgeBounded | Runs of the engine over two symbols at two venues, whose books change while it is suspended: no order holds a book that was invalid when its run began. |
| `WebSocketManager` | ConnectedIsServed, StoppedIsClean, Reconnects | The manager's run loop, heartbeats and stop against a socket that is dropped at any time: what is reported as connected is being read, a stopped manager holds nothing, and one left running gets its feed back again and again. |
| `Arbitrage` | NeverAboveQuote, FilledStillPays, NeverBothWays | Three venues whose asks move while orders are executed: an order never pays more than its opportunity was found profitable at, one filled whole still clears the thresholds, and a scan never emits both directions. |
| `ExchangeClient` | ReportsHold, NoMoreThanAttempts, CallsReturn | A request and a dry run over a connection that loses requests and answers, and answers that leave fields out: what was reported of an order stays true, a request is at the exchange as often as it was tried at most, and every call ends. |
| `ExposureLimits` | OpenWithinLimit, ApprovedWhole, DrawdownObeyed, ExposureWithinLimit | Three symbols whose marks move between the steps of runs, pauses, recoveries and restarts: two positions at most, approvals for the whole request only, no fill beyond the exposure limit while the portfolio is the one the run decided on, and no order from a portfolio that has drawn down from its peak in any process. |
| `PerformanceTracker` | TotalsAgree, DaysAddUp, FeesAgree, DrawdownsAgree | Runs of the engine that end or are lost, over two pairs of venues, with an equity that moves within them, saves, resets, restarts and a midnight: totals, statistics by pair and trades tell of the same opportunities, the fees and the worst drawdown are the portfolio's, and the days add up to the session. |

Bounds, and why they are enough. The bounds are constants of the modules,
named there as such and set in the configurations.

* `PaperExecution`: three orders over two symbols that share the cash, prices 1
  and 2, two books, one restart, and 110 units of cash, which funds one order and not
  a second: rejections, partial fills, a second fill against a position, cancels and
  a crash with an order resting all occur. Requests are those of the trading engine
  (limit orders against a book) and sells, which the executor accepts. Ids of
  orders are symmetric.
* `RiskEngine`: all probes, which are the branches of `evaluate`; a limit of two failures
  and one beyond it; approvals at up to three times with a window of one, so that a
  window fills, slides and empties; cycles of two opportunities, each of
  which fails one of the later checks or none. `RiskEngine_stuck` sets `MaxFailures = 0`,
  because `record_execution_failure` has no caller in `src/bot`: what it shows
  does not depend on it. The run is about one process; the switch of the next one has
  forgotten what blocked the last (`BlockSurvives` under [Observations](#7-observations)).
* `BookFeed`: three prices and a depth of one are the least with a crossed book, a level
  outside the kept depth and one that comes back into it; three versions
  the least with a message that skips, repeats or overtakes one. A delta
  spans up to two versions where a feed sends ranges.
* `SharedMarketData`: one exchange (exchanges share nothing) and one symbol (symbols
  share the throttle, which is an observation, and nothing else); two hydrations, as the
  code starts them, the loop's and the one of start; two ages, new and not so (`Oldest = 1`), which is
  what it takes for a copy to be fresher or older than another; the two safety properties are
  proved for any number of ages. `MaxAge` is used by observations only.
* `TradingCycle`: two venues with the two symbols of the default configuration, ages up to three
  with a limit of one. Connections count as up: what an unconnected venue changes is in
  `SharedMarketData`.
* `WebSocketManager`: three heartbeat tasks, one more than can be alive if the
  code is right; a delay that doubles once before its cap.
* `Arbitrage`: three venues, so that there is a choice of pair, two levels a side, five
  prices; asks move under orders. `FewBooks` begins from a few books that trade.
  `MinLiquidity` is not above `MaxQuantity`, so that the
  branch of insufficient overlapping liquidity is never taken: with a
  threshold that trades can reach the code cannot take it either.
* `PaperSession`: two calls under way together, with two loops for each process, two fills
  per portfolio, so that one can be saved and one lost, one reset and one process that dies.
* `ExchangeClient`: a request of two units with three attempts, so that an answer can be
  lost twice and an order filled in part, and a dry run. Calls end, so that the system may stop (`CHECK_DEADLOCK FALSE`).
* `ExposureLimits`: three symbols for two positions, prices 1 and 2, and limits of which each is the
  tightest for some opportunity. A drawdown of 5 % is what fees and one fall of a
  price reach.
* `PerformanceTracker`: two pairs of venues, two tracked opportunities, up to two units
  of fees, two days. Pairs are symmetric. The equity is at the start or one above it, so that it
  rises, falls back by half, and recovers, within a run or across runs; what an equity below the start
  would add is a session with a loss: the days have losses anyway, and drawdowns are from
  the peak. `DaysAddUp` and `DrawdownsAgree` are proved for any equities and any number of days.

Only `ExchangeClient` may stop; every other run checks for deadlock.

The modules define more than the runs check. These hold on the same instances
and are left out of the configurations because a listed property says more:
`TypeOK` of every module, `CashFollowsFills` and
`ConservingSteps` (PaperExecution), `AuditAgrees` (RiskEngine), `OneLoop`, `RunningHasLoop` and `StopReturns`
(PaperSession), `DelayFallsOnSuccess` and `BeatsEnd`
(WebSocketManager), `QuotesAreBest` and `QuotesAreWhole` (Arbitrage).
`FilledWithinLimit` (PaperExecution) holds where books are walked, by the guard of the walk, and is
refuted under fixed slippage ([Observations](#7-observations)).

## 4 Fairness

Fairness is assumed of what asyncio schedules and of what the outside must do
for the property to make sense, and no more.

* `RiskEngine_stuck`: the runner's loop goes on and the operator asks for a
  recovery again and again. The property fails even so.
* `PaperSession`: the event loop resumes a loop task that is ready
  and a call whose awaited task is done (WF of `Loop` and `Join`). Nothing
  makes a caller call.
* `SharedMarketData`: the publisher's health loop and the consumer's loop go on (WF of what the
  event loops resume), and nothing is assumed of the feed, of Redis or of time. The
  observation about the throttle assumes more (`FeedFairSpec`): that handlers end, that time goes on, and that a feed that is up
  again and again brings events of every book (SF of `BookEvent`: the connection may go and come back).
* `WebSocketManager`: WF of the tasks; SF of `Opened` and `Subscribed`: a
  connection that is tried for ever is accepted at some time. The code
  retries without limit, so that SF is what "reconnects" can mean.
* `ExchangeClient`: WF of the request reaching or failing, of the
  answer and of the retry, since the HTTP client has a timeout.

## 5 Proofs

Checked by TLAPS for every value of the constants that satisfies the module's
ASSUME (finite sets, natural numbers, rates whose denominators are positive).

| module | theorem | property | |
|---|---|---|---|
| `PaperExecution_proofs` | TypeCorrect |  | Type correctness of the executor and portfolio, for any instance. |
| `PaperExecution_proofs` | NeverOverdrawn | Solvent | No balance is ever negative, in any mode, for any requests, cancels and restarts. |
| `PaperExecution_proofs` | HoldingsAgree | HoldingsMatchPositions | The base balance of a symbol and its position agree in every reachable state. |
| `PaperExecution_proofs` | LedgerImplemented | ImplementsLedger | The executor with its reservations, duplicated fills, saves and crashes implements the ledger of fills. |
| `PaperExecution_proofs` | MoneyConserved |  | Used as the engine uses it, every step but a restart conserves money. |
| `PaperExecution_proofs` | ReservedIsNeeded | ReservationsBacked | Used as the engine uses it, what is reserved covers what the open orders need, and is exactly that before the first restart. |
| `PaperExecution_proofs` | CashIsOfFills |  | Used as the engine uses it, cash is the starting capital plus what each processed fill moved, once, also after a crash that rolled the portfolio back. |
| `PaperExecution_proofs` | ProfitExplainsCash | CashConserved | Used as the engine uses it, cash and the cost basis of what is held add up to the starting capital and the realised profit. |
| `RiskEngine_proofs` | TypeCorrect |  | Type correctness of evaluate, the switch and the trade window. |
| `RiskEngine_proofs` | AuditComplete |  | The audit trail ends with an activation exactly while orders are blocked. |
| `RiskEngine_proofs` | FailuresKeepStopped | FailuresStop | The limit of consecutive failures keeps the switch in EMERGENCY_STOP. |
| `RiskEngine_proofs` | ResumesOnlyByRecovery | NoSilentResume | A block ends by a recovery on a full snapshot of conditions only. |
| `RiskEngine_proofs` | ApprovalsAreSafe | ApprovedInGoodMarket | Every approval is given with good probes and an open switch. |
| `RiskEngine_proofs` | RateIsLimited | RateLimited | No window holds more approvals than the limit, for any limit, window and clock. |
| `MarketData_proofs` | TypeCorrect |  | Type correctness of the local book. |
| `MarketData_proofs` | LevelsAreReal | LevelsReal | The levels of a synchronized book are the venue's of the one version it names, for any feed, depth and loss, repetition and reordering of messages. |
| `MarketData_proofs` | NeverCrossed | NotCrossed | A synchronized book is never crossed. |
| `MarketData_proofs` | CacheIsCurrent | CacheAgrees | A view made before a change is never returned after it. |
| `MarketData_proofs` | FedNeverCrossed | NotCrossed | A book fed with promoted deltas is never crossed while synchronized. |
| `MarketData_proofs` | FedCacheIsCurrent | CacheAgrees | No stale view is returned by a book fed with promoted deltas either. |
| `MarketData_proofs` | FedLevelsAreReal | LevelsReal | Deltas taken for snapshots leave a book incomplete but never wrong. |
| `Session_proofs` | FlagHasLoop |  | While the session says it is running, a loop of it is there, for any callers and any orders of them. |
| `Session_proofs` | NoTwoLoops |  | Without starts that overlap across an await, there is never a second loop beside the one the runner knows of. |
| `Session_proofs` | TrackerNeverFabricates | NeverFabricates | While calls do not overlap, the tracker of no session has more fills than its portfolio, whatever runs are lost, saved, reset or crashed. |
| `Session_proofs` | OwnPortfolioOnly | TradesOwnPortfolio | Without overlapping calls only a running session trades, and only the portfolio it shows. |
| `Session_proofs` | ResetsStick | ResetSticks | Nothing of a session that was reset comes back, by a later save, a load or a restart. |
| `Session_proofs` | BlockedDrains | BlockDrains | Once the switch blocks, only orders already in their latency are filled, one of each loop, and none is added, however calls overlap. |
| `Session_proofs` | RestIsSurvived | RestSurvives | After calls that did not overlap, a session at rest comes back from a crash outside a reset as it was left. |
| `MarketData_proofs` | SharedTypeCorrect |  | Every variable has its type, for any symbols, limits and number of hydrators. |
| `MarketData_proofs` | CopiesNeverFresher | NeverFresher | For any number of hydrations at once, no copy of a book passes for fresher than the venue's last update, through writes, outages, expiry, restarts and late answers. |
| `MarketData_proofs` | BooksOnlyForward | OnlyForward | For any number of hydrations, one that has the consumer for itself never replaces a book by an older one, whatever is lost, delayed, written or expires meanwhile. |
| `Trading_proofs` | CycleTypeCorrect |  | Type correctness of the run and the books, for any venues, symbols and limits. |
| `Trading_proofs` | OrdersAgeBounded | AgeBounded | No order holds a book older than the limit and the time its run has taken, for any venues and symbols. |
| `MarketData_proofs` | ManagerTypeCorrect |  | Every variable has its type, for any backoff and any number of heartbeats; the delay stays within its maximum. |
| `MarketData_proofs` | ConnectedMeansServed | ConnectedIsServed | A feed that a running manager reports as connected is being read, wherever the socket is dropped and whatever fails. |
| `MarketData_proofs` | StopCleans | StoppedIsClean | Wherever stop cancels the run loop, no socket, heartbeat or run loop of it is left in the end. |
| `Arbitrage_proofs` | TypeCorrect |  | Type correctness of scan, walk and order, for any venues, books, fees and thresholds. |
| `Arbitrage_proofs` | QuoteIsCeiling | NeverAboveQuote | Whatever became of the books, an order never pays more on average than its opportunity was quoted. |
| `Arbitrage_proofs` | WholeFillClears | FilledStillPays | An order filled entirely clears the NET thresholds at what it really cost, for any fees and thresholds. |
| `Arbitrage_proofs` | OneWayOnly | NeverBothWays | A scan never emits an opportunity and its opposite, for any number of venues whose books are not crossed. |
| `Trading_proofs` | TypeCorrect |  | Type correctness: no call is tried too often, no order filled beyond its amount. |
| `Trading_proofs` | ReportsStayTrue | ReportsHold | What was reported of an order stays true whatever the answer left out and whatever is lost, repeated and traded later. |
| `Trading_proofs` | AttemptsBoundOrders | NoMoreThanAttempts | A request is at the exchange as often as with_retries may try at most, later calls included, and never while trading is disabled, for any number of attempts and whatever answers are lost. |
| `ExposureLimits_proofs` | UnbreachedIsWhole |  | An opportunity that breaches no limit is allowed whole, whatever the snapshot, so that what is approved is what was asked for. |
| `ExposureLimits_proofs` | DrawdownIsObeyed | DrawdownObeyed | No order is placed from a portfolio that was, when last looked at, at the maximum drawdown below the highest equity of this process and of those that were shut down before it. |
| `ExposureLimits_proofs` | OpenStaysWithinLimit | OpenWithinLimit | With one run at a time no more positions are open than max_simultaneous_positions. |
| `ExposureLimits_proofs` | TypeCorrect |  | Type correctness of the portfolio, its snapshots and marks, and the shutdown they are kept over, for any limits. |
| `ExposureLimits_proofs` | ApprovalsAreWhole | ApprovedWhole | What the risk engine approves is the whole of what was asked for, never a part cut to a limit and never a size of zero that falls back to the request. |
| `ExposureLimits_proofs` | ExposureStaysWithin | ExposureWithinLimit | With one run at a time no fill takes the exposure, at the marks the run has seen, beyond its part of the equity. |
| `Session_proofs` | TotalsStayInAgreement | TotalsAgree | Totals, statistics by pair of exchanges and trades tell of the same opportunities, for any number of loops, opportunities and exchanges, whatever runs are lost, saved, reset or reloaded. |
| `Session_proofs` | DaysTellAll | DaysAddUp | The results of the days add up to the result of the session, for any equities, over nights, empty days and restarts. |
| `Session_proofs` | DrawdownsStayInAgreement | DrawdownsAgree | The tracker never reports a worse drawdown than the portfolio has been through, and just the worst one whenever a run is ingested, for any equities and number of loops, over lost runs, saves and restarts. |
| `Session_proofs` | FeesStayInAgreement | FeesAgree | With one loop, the tracker never knows of more fees than the portfolio has paid, and of all of them whenever a run is ingested, whatever runs were lost before. |

The arguments:

* **Sums and folds** (`Sums`). The community modules define a sum over a set, and the
  fold of a sequence, by a choice among the functions that satisfy a recursive
  equation. That there is one (`SumsExist`, `FoldsExist`), and that it is the only one
  (`SumsUnique`), are inductions over the size of a set and over its subsets. The induction
  theorems of the library take an operator and are of no use here; that the subsets
  of a finite set are well-founded is about sets alone, and gives the same. From these
  follow how a sum changes with one value, with one element, and that it splits.
* **PaperExecution.** `IInv` is the type invariant, `SoundPortfolio` of the
  portfolio in memory *and* of the one on disk (a restart brings the second
  back, so that it has to be sound at all times), and that every fill of an
  order that memory knows is processed, which makes a redelivery
  change nothing. One lemma per way through `execute`, each from a lemma on the
  booking of one fill. The ledger follows because what a booking does to
  the total of a balance does not depend on what is reserved. `MoneyConserved`
  assumes requests as the trading engine sends them (limit orders, against a book: `EngineUse`): a walk costs at
  most limit times quantity (`PlanWithinLimit`), so that the reservation at the limit covers the
  cost; without that assumption it is false (see the first of the [observations](#7-observations)).
  `ReservedIsNeeded` is one more invariant, `Backed`: what is reserved is the sum over the open
  orders, or more once a restart has lost some of them; each way through `execute` changes one term
  of the sum. `CashIsOfFills` and `ProfitExplainsCash` are about sums of what the processed
  fills moved (`Follows`) and of the cost of what is held (`Conserved`), in memory
  and on disk.
* **RiskEngine.** `TypeOK`, the audit trail and the failure stop are inductive
  together. The rate limit needs that the pruned window is a suffix of
  the history of approvals and that what has left it is older than the window
  (`WindowIsRecent`).
* **LocalOrderBook and BookFeed.** An applied delta starts from the version the book stands
  for, whatever kind of feed it came from (`AppliedFromVersion`); with the venue's book
  uncrossed in all its versions, the levels stay those of one version. `NeverCrossed` follows from
  that. `FedLevelsAreReal`
  reuses the invariant for `BookFeed`.
* **WebSocketManager.** Only `stop` ends the running (`EndsByStop`), and where the
  loop has nothing to read from, the state or the socket says so (`Unconnected`).
  A cancellation can arrive at each suspension of the loop; the two
  theorems are what remains after any of them.
* **SharedMarketData.** All copies of a book grow older together, a write
  copies the venue's book, and an answer of Redis that is under way is no
  fresher than the book either (`AnswersNeverFresher`): the conjunct that is needed because updates
  arrive between the read and its use. Both theorems are for any set of
  hydrators. For `BooksOnlyForward`: the answer of a hydration that has had the consumer for itself is no older
  than the consumer's copy, and Redis holds nothing older than either (`Forward`), so that taking the answer
  over never takes a book back. A hydration that had company may do so, which is
  an [observation](#7-observations) (`NeverBack`); `alone` is a history field that tells the two apart.
* **TradingCycle.** Every snapshot of a cycle was valid when it was taken, and its
  age then plus the time since is at most the limit plus what the cycle takes;
  an order exists only while a cycle is placing it, so that what holds of the snapshots
  holds of the order.
* **ExchangeClient.** Once placed an order only goes on (its fills grow, a state that
  is final stays), so that an answer that is under way and a report that was given
  stay true of it. What is reported is what `_normalize_order` makes of an answer with any of its fields left out: an
  amount that is missing is taken for the amount filled, so that a closed order is reported FILLED that was filled in part; a
  status that is missing, or "filled", which `_STATUS_MAP` does not have, is PENDING; an id that is missing is made up, and
  that order can be neither cancelled nor fetched. `ReportsStayTrue` is what is left to rely on.
  `AttemptsBoundOrders`: an order that `place_order` may have left at the exchange was counted as an attempt
  before it was repeated (`Counted`), and once the call is over nothing places it again.
* **Arbitrage.** Levels are sorted, so that what a walk has spent is no less than the best
  price for each unit, and what it has earned no more (`Buying`, `Selling`): a pair whose
  estimate is positive buys where asks are below the other's bids (`Spread`), which
  cannot be so both ways (`OneWayOnly`). An order in its latency takes no level above
  the average price it was quoted (`Filling`), whatever the books do meanwhile: `QuoteIsCeiling`,
  and, since costs below the quoted one leave at least the profit that was found, `WholeFillClears`.
  These inequalities are between products, which the SMT solver multiplies only when told what by;
  they are lemmas about four or five natural numbers each.
* **ExposureLimits.** `DInv` is that the peak is the highest equity there ever
  was, in the portfolio and in each snapshot a run holds, and that an order being placed
  comes from a snapshot that has not drawn down; a restart keeps the first and drops
  the others. `OInv`, for one run, is that the snapshot it decides on
  counts the positions there are, and leaves room for one more where an order is
  placed. `UnbreachedIsWhole` is arithmetic with a floor: what an opportunity
  asks for, divided by its price, is its quantity. `WInv` has all types, of which that of the cash
  is the one that is not obvious, and that what is placed was allowed in whole:
  `ApprovalsAreWhole`, for any number of runs. With one run its snapshot also has the exposure
  there is (`EInv`), a fill adds what it paid, and that is within what was allowed
  (`ExposureStaysWithin`). With two runs this and `OpenStaysWithinLimit` are false: the limits
  check a snapshot that the other run's fills have overtaken; the paper runner has one.
* **PaperSession.** `SessionInv` says that the file is about the session there is and not ahead
  of it, with the resets that wait counted (`FileIsBehind`); and, unless calls have overlapped,
  that one call at most is under way, and none while the session runs, that no loop but `task`
  goes on (`OneAtATime`), and that no tracker has more than its
  portfolio, not even with what its loop has yet to record (`OwnBooks`). A loop that was cancelled may
  still trade for an instant, and a call is suspended while it does: the conjunct on loops that
  are placing is needed for what they record after that. The steps are reduced to a few kinds
  first (a loop goes on, a loop fills, a call goes on, a crash), each of which keeps the invariant.
  `FlagHasLoop`, `ResetsStick` and `BlockedDrains` hold of overlapping calls as well.
* **PerformanceTracker.** Recording a run is a fold of `Record`, so that any set of trackers that is
  closed under `Record` is closed under recording a run (`RecordedWithin`): here those whose
  counters are the counts over their list of opportunities (`TotalsOf`), since one opportunity
  more changes each counter and its count alike (`RecordEffect`, `RecordKeepsTotals`).
  `DaysTellAll` needs besides the sum that the last day ends with the equity known last
  (`DaysOf`), which makes a new day begin where that one ended. Both, and `DrawdownsStayInAgreement`, hold of the file as well, as a
  restart brings it back, and for any number of loops. `FeesStayInAgreement` is for one loop:
  the fees recorded, with those of the run under way, are no more than the portfolio's (`FeesInv`);
  with two it is false (see [observations](#7-observations)).
  `DrawdownsStayInAgreement`: the portfolio has passed through the drawdown it is at (`Passed`), and the tracker knows of no higher
  peak and no worse drawdown than the portfolio (`Knows`), in memory and on disk; the drawdown the tracker computes
  itself is then no worse than the portfolio's (`DrawdownGrows`), and it takes the portfolio's over.

Every safety and action property that a run checks is the conclusion of one of these theorems.
Model-checked only: liveness (`StoppedEnds`, `KeepsCycling`, `DisconnectionReported`, `Reconnects`,
`CallsReturn`, and `RecoversOnceGood`, which is refuted), as it needs ENABLED, which is out
of the prover's reach.

What a theorem assumes beyond its module's ASSUME is in its statement: requests as the
engine sends them (`EngineUse`, `EngineCancels`; the engine is the executor's only caller), one run at a
time (`Runs = {one}`, `Tasks = {one}`: the runner awaits each cycle).

## 6 Findings

A finding is a run that ends in a counterexample to something the repository says.

* **RiskEngine_stuck** (`RecoversOnceGood`, bot/paper/runner.py:249). kill_switch.py:3-4 promises recovery on satisfied conditions "and an explicit recover() call". Only RiskEngine.evaluate refreshes the conditions and the runner evaluates nothing while the switch blocks, so after a pause by a failed probe (or a stop before the first evaluation) every recover is denied for ever, however good the conditions are.

## 7 Observations

Properties the modules state, from a line of the repository, and that TLC
refutes. They are not runs of their own. To see one: take the module's
configuration, replace its properties by the one named, and change the
constants given.

* **CashConserved** (bot/portfolio/accounting.py:89). apply_fill clamps a buy's cost to the balance there is (accounting.py:89-91, "caller should have checked; clamp to available+reserved"), and still credits the whole quantity and the whole cost basis. Under PAPER_SLIPPAGE_MODE=fixed the caller does not check: execute reserves at the limit price, fills above it, tries to reserve the difference and ignores the failure (paper_executor.py:327-330). To see it: `PaperExecution.cfg`, INVARIANT `CashConserved`, with `SlippageMode = "fixed"`, `StartQuote = 100`.
* **FilledWithinLimit** (bot/execution/paper_executor.py:371). paper_executor.py:396 says "Limit orders cannot cross beyond limit", which only _walk_book observes; the fixed slippage branch fills a limit buy at the limit times (1 + slippage). To see it: `PaperExecution.cfg`, INVARIANT `FilledWithinLimit`, with `SlippageMode = "fixed"`.
* **ReservationsBacked** (bot/execution/paper_executor.py:232). models.py:92 describes a balance as "Per-asset cash balance with reserved (open-order) amount" and cancel says "Release unused reservation" (paper_executor.py:231), but a partially filled order has no reservation left and a cancelled one neither: cancelling either releases what other open orders reserved. To see it: `PaperExecution.cfg`, INVARIANT `ReservationsBacked`, with `CancelFrom = {"OPEN", "PARTIALLY_FILLED", "CANCELLED"}`, `StartQuote = 200`.
* **ReservedIsReleasable** (bot/paper/store.py:117). store.py:4 says "A JSON file store guarantees restart survival". load restores the reserved balances and not the orders, so the reservation of an order that rested at the crash can never be released. To see it: `PaperExecution.cfg`, INVARIANT `ReservedIsReleasable`.
* **RecoveryIsHonest** (bot/risk/kill_switch.py:126). kill_switch.py:3 says "Recovery requires configured conditions to be satisfied"; recover looks at the snapshot the last evaluation left, so it lets orders flow again when the conditions have failed since. To see it: `RiskEngine.cfg`, PROPERTY `RecoveryIsHonest`.
* **BestHeld** (bot/market_data/local_order_book.py:147). local_order_book.py:166 says "Keep only the nearest ``max_depth`` levels on each side." Levels beyond max_depth are forgotten for good: when the kept ones are removed by later deltas, the venue's next levels are missing and the book's best price is not the venue's, while the book stays synchronized. To see it: `BookFeed.cfg`, INVARIANT `BestHeld`.
* **DuplicatesIgnored** (bot/market_data/local_order_book.py:112). local_order_book.py:135 says "Ignore duplicates / already-applied sequences". With a prev_sequence the check of line 112 runs first and takes a repeated delta for a gap: the book is desynchronized and the duplicate branch is never reached. To see it: `BookFeed.cfg`, PROPERTY `DuplicatesIgnored`.
* **ExposedBookIsComplete** (bot/market_data/service.py:252). local_order_book.py:3 says "Never exposes a book to strategies when synchronization is invalid." handle_event promotes any update with levels on both sides to a snapshot while the book waits for one, so a delta becomes the whole book and the book is exposed as synchronized. To see it: `BookFeed.cfg`, INVARIANT `ExposedBookIsComplete`, with `MaxDepth = 3`.
* **ExposedBookIsComplete** (bot/market_data/adapters/bitvavo.py:73). bitvavo.py:74 says "Bitvavo sends full sides on snapshot-like messages; deltas otherwise." Line 73 labels every numbered message with bids and asks a snapshot, also a delta that changes one level of each side, which then replaces the book. To see it: `BookFeed.cfg`, INVARIANT `ExposedBookIsComplete`, with `MaxDepth = 3`.
* **FillsWhileRunning** (bot/paper/runner.py:149). runner.py:225 says "Graceful shutdown: stop loop and persist state." start tests _running before it awaits the hydration and never again, so two starts create two loops, of which _task remembers one: after stop the other goes on until its next look at the flag and fills the order it was placing. To see it: `PaperSession.cfg`, PROPERTY `FillsWhileRunning`.
* **BlockObeyed** (bot/execution/paper_executor.py:93). runner.py:12 says "Skips new trades when RiskEngine is PAUSED or EMERGENCY_STOP". The switch is looked at before the executor sleeps its latency and not after it, so that an order approved before an emergency stop is filled during it. To see it: `PaperSession.cfg`, PROPERTY `BlockObeyed`.
* **AllRecorded** (bot/paper/runner.py:274). tracker.py:3 says "Records every opportunity, including rejects." The results of run_once exist in its return value only: when stop cancels it, or it raises, after an order was filled, the portfolio has the fill and the tracker, the order and the fill table never see it. To see it: `PaperSession.cfg`, INVARIANT `AllRecorded`.
* **SavedRowsStay** (bot/paper/store.py:98). store.py:65 says "Write full paper session state to disk (survives restart)." load reads portfolio and tracker back and leaves memory.orders and memory.fills empty, so that the first save of the next process replaces the file by one without the orders and fills of the session that goes on. To see it: `PaperSession.cfg`, PROPERTY `SavedRowsStay`.
* **BlockSurvives** (bot/main.py:55). kill_switch.py:3 says "Does not automatically resume." Nothing of the switch is saved: the process after one that died in an EMERGENCY_STOP has a new switch that is RUNNING, and with paper_auto_start (main.py:172) it trades on without any call. To see it: `PaperSession.cfg`, PROPERTY `BlockSurvives`.
* **NeverBack** (bot/market_data/service.py:158). service.py:192 says of hydrate_from_redis "Pull latest published books/ticks/health into local memory." start_shared_consumer hydrates once itself (service.py:158) beside the loop it has just created: an answer one of the two was given before a later write may be applied after the other's, and puts the older book, with its older timestamp, back over the newer one until the next poll. To see it: `SharedMarketData.cfg`, PROPERTY `NeverBack`, with `SPECIFICATION SharedSpec`.
* **EveryBookWritten** (bot/market_data/service.py:243). publisher.py:34 says "Publisher writes often enough for paper cycles (~1s) without drowning Redis." The interval is counted per exchange and restarted by any event, so that quotes, or events of another symbol, that arrive when it is over take the slot, and books that arrive within it are not written: the book of a symbol may never be written again while its feed is up. To see it: `SharedMarketData.cfg`, PROPERTY `EveryBookWritten`, with `SPECIFICATION FeedFairSpec`.
* **ConnectedAsPublished** (bot/market_data/service.py:420). service.py:419 says "Shared consumers: use publisher health for connection/rate, local books for age." The connection is also taken for up when any local book is synchronized, and a consumer's book is never desynchronized once it was hydrated. To see it: `SharedMarketData.cfg`, INVARIANT `ConnectedAsPublished`.
* **InvalidHidden** (bot/market_data/service.py:271). service.py:492 says "Stale or unsynchronized books are omitted — strategies never see invalid data." After a gap the publisher neither writes nor removes the book: the one in Redis stays until it expires and the consumer shows it, as synchronized, until its age is over, also when it has read that nothing is synchronized. To see it: `SharedMarketData.cfg`, INVARIANT `InvalidHidden`.
* **BuysOnValidBook** (bot/engine/orchestrator.py:221). runner.py:11 says "Skips new trades when market data is stale/unsynchronized". When the book of the venue to buy at has become invalid since the run began, _resolve_execution_book falls back to the snapshot; the risk engine does not object, because the health it is given is the freshest book's of the venue, whatever its symbol. To see it: `TradingCycle.cfg`, PROPERTY `BuysOnValidBook`.
* **SellsOnValidBook** (bot/engine/orchestrator.py:151). runner.py:11 says "Skips new trades when market data is stale/unsynchronized". The risk engine is told the freshness and health of the venue to buy at only: an opportunity evaluated after the latency of another is executed although the book it counts on selling into is not valid any more. To see it: `TradingCycle.cfg`, PROPERTY `SellsOnValidBook`.
* **BacksOff** (bot/market_data/websocket_manager.py:219). websocket_manager.py:36 says "Manages a single public WebSocket feed with exponential backoff." When the socket is found closed by the condition of the read loop, _read_loop returns without an exception and the run loop connects again at once; neither the backoff nor the closing of the old socket and heartbeat happens. To see it: `WebSocketManager.cfg`, PROPERTY `BacksOff`.
* **AgeIsOfLastFrame** (bot/market_data/websocket_manager.py:147). service.py:237 says "Heartbeats / acks: cheap path — refresh connection age only." A small frame that equals one of the last ones, which heartbeats do, is dropped by note_message before _last_message_at is set. To see it: `WebSocketManager.cfg`, INVARIANT `AgeIsOfLastFrame`.
* **QuoteIsExecutable** (bot/strategies/arbitrage.py:3). arbitrage.py:3 says the strategy "derives executable VWAP prices" and walk_book (arbitrage.py:412) that it computes an "executable VWAP for ``quantity``". The engine makes that average the limit of the order, and the executor stops at the first level above its limit: a quantity that spans two price levels is never bought whole, even on the very book it was quoted on. To see it: `Arbitrage.cfg`, PROPERTY `QuoteIsExecutable`, with `Venues <- TwoVenues`, `Opening <- Books`, `MinReturnPct = 10`.
* **PlacedOnce** (bot/exchanges/ccxt_adapter.py:288). interfaces.py:115 says of place_order "Place a trading order". It repeats create_order after a timeout, which does not tell whether the exchange has accepted the order, and passes a client order id only if the request has one; the requests of the trading engine (orchestrator.py:253) have none, so one request can become several orders. To see it: `ExchangeClient.cfg`, INVARIANT `PlacedOnce`.
* **TransientIsTransient** (bot/exchanges/retry.py:88). exceptions.py:49 says ExchangeTransientError is "Raised for retryable network / temporary exchange failures." with_retries gives up at once on an error that is not retryable, and raises that as an ExchangeTransientError "failed after 5 attempts": an ExchangeAuthError never reaches a caller. To see it: `ExchangeClient.cfg`, INVARIANT `TransientIsTransient`.
* **PositionWithinPercent** (bot/risk/position_limits.py:78). risk_engine.py:375 rejects with "Position ... exceeds ...% of portfolio". What is compared is the notional of the one trade: buys of a symbol that each keep within the percentage add up to a position of any size that max_total_exposure_percent leaves. To see it: `ExposureLimits.cfg`, PROPERTY `PositionWithinPercent`, with `Symbols <- TwoSymbols`, `FeePct = 0`.
* **OpenWithinLimit** (bot/engine/orchestrator.py:98). ARCHITECTURE.md:96 says "`RiskEngine` evaluates position size, portfolio %, total exposure, daily loss," and next "drawdown, open positions". The snapshot it evaluates is from before the executor's latency: with the second loop of `PaperSession` (FillsWhileRunning), a run that decides while the other's order waits there counts the positions without it, and one more than max_simultaneous_positions is open. To see it: `ExposureLimits.cfg`, INVARIANT `OpenWithinLimit`, with `Symbols <- TwoSymbols`, `Runs <- TwoRuns`, `MaxFound = 1`, `MaxOpen = 1`.
* **DrawdownObeyedAtMarks** (bot/engine/orchestrator.py:104). risk_engine.py:310 rejects with "Drawdown ...% exceeds max ...%". The engine moves the mark of the opportunity's symbol just before the risk engine looks, and the equity of the snapshot it looks at is from before: the first order after a fall of the price through the limit is placed. To see it: `ExposureLimits.cfg`, PROPERTY `DrawdownObeyedAtMarks`.
* **DaysCountTheirTrades** (bot/paper/tracker.py:348). bot/paper/models.py:143 calls DailyStats a "Persisted daily rollup". Of a day, only the equities and the net result are its own: trades, wins, losses, fees, slippage and gross result are the totals of the session at the day's last cycle, so the days do not add up to the session. To see it: `PerformanceTracker.cfg`, INVARIANT `DaysCountTheirTrades`.
* **DaysStartAfresh** (bot/paper/tracker.py:333). tracker.py:331 says "New day: seed from current equity." _roll_daily seeds a new day with what the last one ended with, and the first with the session's starting equity: what the first cycle of a day finds the equity to have changed overnight, or in days without a cycle, is a result of the new day. This is what makes the days add up to the session (DaysAddUp), so that the comment is what is wrong. To see it: `PerformanceTracker.cfg`, PROPERTY `DaysStartAfresh`.
* **RealizedIsReal** (bot/paper/tracker.py:244). tracker.py:4 says "Never fabricates values." _estimate_realized books, as realized, the proceeds of a sale at the quoted price that nothing in the engine executes (and takes the slippage off a fill price that contains it); the portfolio's own realized profit is zero. To see it: `PerformanceTracker.cfg`, INVARIANT `RealizedIsReal`.
* **FeesAgree** (bot/paper/tracker.py:308). tracker.py:307 says "Prefer portfolio accounting for fees/volume when available." The larger of the two is taken: with the second loop of PaperSession, a run that another's ingestion has overtaken adds its fees once more to a total taken from the portfolio, and nothing takes them off again. To see it: `PerformanceTracker.cfg`, PROPERTY `FeesAgree`, with `Tasks <- TwoTasks`.
* **A loop that never saves** (bot/paper/runner.py:294, seen in the code and not
  stated as a property). A cycle that raises does not reach the count of cycles, so
  that a loop whose cycles all raise, after filling orders in them, never gets to
  the save of every fifth one; what it filled is on disk at the next stop or start only.

## 8 Not modelled

* **Shared market data** (partly modelled): Publisher, Redis with expiry and outages, and a consumer with one or two hydrations under way, for one exchange; books are represented by their ages. Top-of-book ticks (which decide nothing), message rates, the recorder and the JSON conversions are left out.
* **Trading engine** (partly modelled): run_once against books that change while it is suspended: snapshots, the opportunities taken from them, the health and freshness given to the risk engine, the book chosen for execution. Prices, quantities, and the other checks of the risk engine (RiskEngine) and the executor (PaperExecution) are open here; execute_approved has no caller.
* **Arbitrage strategy and profitability** (partly modelled): The scan of every ordered pair of venues, the walk through both sides, fees, slippage and buffer of a taker buy and sale, the NET gate, and the execution of what was found against a moving book. Not modelled: funding, maker rates, the impact model on a book (the strategy strips the book before it asks), the latency and age filters (TradingCycle), and the counters of rejections.
* **REST API and process wiring** (partly modelled): The calls start, stop, reset and the shutdown of the lifespan are PaperSession's Call and Loop; the singletons, the queries, the health endpoint and the JSON they return are not modelled: they read state and change none.
* **Dashboards and fleet overview** (not modelled): Pure rendering and read-only aggregation of other instances' answers: no state.
* **Dashboard login** (not modelled): Stateless signed cookies; what could go wrong is cryptographic, not a matter of steps and orders.
* **Database models and sessions** (not modelled): Table declarations and an engine factory that nothing in bot/ calls: the paper session is stored in a file.
* **Configuration and shared types** (not modelled): Declarations. Settings appear as the constants of the modules that read them.
* **Exchange feed adapters** (partly modelled): What they decide about a message (snapshot or delta, its numbers) is in BookFeed and in the three kinds of feed of LocalOrderBook; the parsing of the venues' JSON and of timestamps is not modelled.
* **Event recorder** (not modelled): Appends events to files: pure output.
* **Backtesting** (not modelled): A sequential loop over recorded snapshots without execution; its parts (strategy, profitability, risk) are modelled where they are used live.
* **Scripts and deployment** (not modelled): Demonstrations and unit files.
* **Portfolio service and portfolio reports** (not modelled): Declarations of report types and an in-memory snapshot holder used by tests.
* **Strategy base and stub** (not modelled): An abstract class and a strategy that finds nothing.
* **Snapshot provider and Redis client** (not modelled): A wrapper around one call, and the construction of a client.
* **Exchange clients and live executor** (partly modelled): Placing, cancelling and fetching an order through with_retries, with lost requests and answers, the statuses and errors they are turned into, and LiveExecutor. Market-data and balance queries go through the same retries and change nothing; the conversion of JSON, close, and the stub client are not modelled. The live executor is disabled unless a caller opts in.
* **Performance tracker and statistics** (partly modelled): The life of a tracked opportunity with the totals, the statistics by pair and by day, the figures taken from the portfolio, saves, loads and resets. The statistics by strategy and by hour are kept by the same statements as those by pair; the funnel counters of the strategy's scans are copied and not modelled.

Hazards without a property:

none.

## 9 Plan

Done, in this order, the behaviour that moves money first: the executor and
portfolio with their ledger; the risk gate; the book; the session; shared market data;
the engine's cycle; the connection manager; pricing; the exchange clients;
position limits; the tracker; crashes of a session and the drawdown across
restarts. Proofs of the safety properties of all of them, with the sums and folds they rest on.

Left:

1. **Composition**: `PaperSession` over `PaperExecution`'s portfolio and file
   instead of counts of fills; `SharedMarketData` with several loops of hydration over
   `LocalOrderBook`'s levels.
2. **Daily loss and exchange health**: `daily_realized_pnl_usd` once the model
   has a seller.
3. **Proofs**: step simulation of `FillLedger` by a composition of session and executor.
