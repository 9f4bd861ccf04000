# SIIS, a verification project

SIIS is a trading bot: watchers receive the market data and the execution
reports of an exchange, strategies decide, traders send the orders.  This
directory holds TLA+ models of the parts that carry the decisions, checked with
TLC on small instances and proved with TLAPS where a statement matters for every
instance.  Paths below are relative to `src/`; `strategyassettrade.py` and
`strategytrade.py` are in `strategy/trade/`, `strategytraderbase.py` and
`strategy.py` in `strategy/`.

## 1. The system

Threads.  One *strategy thread* (`Strategy.update`) waits on a queue of signals
and delivers them.  A *worker pool* (`common/workerpool.py`) runs the strategy
traders, one per market.  The *watchers* receive websockets and post signals.
The terminal and the HTTP server run *commands* in their own threads.  Each
strategy trader has two re-entrant locks: `_mutex`, for its states, and
`_trade_mutex`, for its trades.

| component | state | operations | what is hard | what makes it correct |
|---|---|---|---|---|
| spot trade (`StrategyAssetTrade`) | entry and exit state, ordered, entered and exited quantities, an identifier, a reference, a quantity and an executed quantity per order, `_closing`, `_dirty` | `open`, `reopen`, `remove`, `cancel_open`, `close`, `modify_take_profit`, `modify_stop_loss`, `update_dirty`, `order_signal`, `check`, `fix_by_order`, `dumps`, `loads` | the exchange acts between two REST calls, reports arrive late, twice or never, calls fail half way | books equal to the executions, never more sold than bought, one exit order, no order without a trade, the end of a closing |
| strategy trader (`StrategyTraderBase`) | the list of trades, `_initialized`, `_checked`, `_bootstrapping`, `_processing`, handlers, regions, alerts | `order_signal`, `position_signal`, `update_trades`, `cleanup_trades`, `finalize_trade`, `check_trades`, `terminate`, `save`, `loads` | three kinds of threads on one list; a recheck that runs while it is asked for again | a trade leaves the list only when nothing remains to do, nothing is missed by a recheck |
| commands (`strategy/command/`) | none | entry, exit, modify, check, clean, assign, restart, recheck, ... | some take `_trade_mutex`, some `_mutex`, some neither | the same as for the trade |
| trader and watcher of Binance spot | connection, caches of orders and balances | `create_order`, `cancel_order`, `order_info`, `__on_user_data` | lost replies, integer identifiers, a `cumulative-commission` that is always zero | an answer never contradicts the exchange |
| strategy thread (`Strategy.update`) | the queue of signals | dispatch, `add_job` | a queue filled by every other thread | signals in order |
| strategy process (`alphaprocess.py`) | `WAITING`, `PROGRESSING`, `NORMAL` states, `_processing` | `update`, `async_update`, `initiate_strategy_trader`, `bootstrap` | flags tested and set without a lock, requests written while they are served | one initialization at a time, every request served |
| worker pool (`common/workerpool.py`) | queue of jobs, `_running`, `_ping`, `CountDown` | `add_job`, `next_job`, `done`, `wait`, `ping`, `pong`, `stop` | wake-ups, a stop during a wait, jobs that hang | a step of a backtest ends before the next begins, every wait ends |
| services and watchdog (`strategy/service.py`, `common/watchdog.py`) | play, abort, `_pending` pids, a timer | time step thread, `terminate`, `run_watchdog`, `service_pong` | a ping written while the previous is answered; a timer that re-arms itself | a hung thread is reported, `terminate` ends |
| indivisible margin trade | as the spot trade, with an entry, a stop and a limit order | as the spot trade, and `position_signal` | a position shared by several trades, quantities learnt from two sources | exact books, no trade survives its position |
| position trade | an entry order, the quantity of its position | `open`, `cancel_open`, `close`, `reduce`, `order_signal`, `position_signal` | deltas computed from signals of two threads | the trade knows the quantity of its position |
| trade operations, alerts, regions | conditions and counters | `test_and_operate`, `test` | call the operations above at a tick | they end |
| handlers: daily limit, reinvestment of gains | the traders they are installed on, the quantities they replaced | `install`, `uninstall`, `process`, `on_trade_exited` | one handler shared by the traders of several workers, two orders of locks | the quantities come back, the accounting follows the tables, no interlock |
| paper trader | orders, positions, assets | `create_order`, `cancel_order`, `update`, `close_position`, `modify_position` | works on a copy of its orders, signals after the lock | an order is executed at most once and answered |
| database | a pending queue per kind of request | `load_*`, `store_*`, `clear_*`, `process_*`, `close` | clear and store in two queues, wake-ups, queries that fail | what is saved is loaded once |
| watchers, feeds, bar generators, indicators | caches and bars | numerical | floats | outside of these models |
| monitor, notifiers, terminal, views, tools | output | - | - | outside of these models |

A signal goes `watcher -> service.notify -> Strategy._add_signal ->
Strategy.update -> StrategyTraderBase.order_signal -> StrategyAssetTrade.order_signal`;
an order goes `StrategyAssetTrade -> Trader.create_order` (REST) and its reports
come back by the signals.  The hazards of each part, at their lines, are in
`PROJECT.json`.

## 2. Modules

| module | what it is |
|---|---|
| `AssetTradeOps` | the spot trade as pure operators: what a signal or an answer of `order_info` does to its fields |
| `AssetTrade` | the trade, its orders on the exchange, the stream of reports and the threads that operate on it |
| `AssetTradeProofs` | lemmas on the operators, `TypeCorrect` and `NoSellFollowsClosing`; the books: `OneExitOrder`, `LiveOrdersTracked`; then the sums: `ExactQuantities`, `NothingOversold`; then what the states tell of the orders: `NoOrphanLeft` |
| `StrategyProcess` | one strategy trader in live mode: the strategy thread, the queue of jobs, the workers that initialize, check, bootstrap and process it |
| `StrategyProcessProofs` | `ProcessTyped`, `FlagIsReleased`, `NothingIsForgotten`, `WarmUpFirst`, `OneWorkerAtATime` |
| `WorkerPool` | the pool between its users: the workers, the thread that posts the jobs of a backtest or of live, the thread that terminates the service, the watchdog |
| `BacktestSteps` | the abstract clock of a backtest; `WorkerPool` implements it |
| `WorkerPoolProofs` | `PoolTyped`, and that refinement, `PoolStepsInOrder` |
| `MarginTrades` | the trades of a market of a futures exchange, their orders and the one position they share |
| `MarginTradesProofs` | sums over finite sets, lemmas on the operators, `MarginTyped`, `MarginBooks`, `MarginNeverMore`, `MarginExitsCover`, `NoGhostLeft` |
| `PaperTrader` | the orders, the position and the asset of the paper trader, changed by its own thread and those of the strategies |
| `PaperTraderProofs` | `PaperTyped`, `ExecutesOnce`, `OrdersAnswered`; sums over finite sets, and `PositionsAddUp` |
| `PositionTrades` | the trades that have a position each, with the paper trader that holds them |
| `PositionTradesProofs` | `PositionsTyped`, `TradesAgree` |
| `TradeStore` | the trades of a strategy over several sessions of the program, and the thread of the database |
| `TradeStoreProofs` | `StoreTyped`, `ClearedOnceLoaded`, `TradesManagedOnce` |
| `SharedHandlers` | the daily limit and the reinvestment of gains, shared by several strategy traders, with the mutexes of all |
| `SharedHandlersProofs` | `HandlersTyped`, `QuantityIsKept`, `HandlersAccounted` |
| `MCAssetTrade`, `MCStrategyProcess`, `MCMarginTrades`, `MCPaperTrader`, `MCPositionTrades`, `MCTradeStore`, `MCSharedHandlers` | the instances for TLC |

The modules meet where the components do.  What `process` does to a trade in
`StrategyProcess` is `AssetTrade`; the jobs of `WorkerPool` are the updates of
`StrategyProcess`; the quantities that `SharedHandlers` writes are those of the
next `open` of `AssetTrade`; `PositionTrades` holds the part of the paper trader
that acts on its trades, the other part being `PaperTrader`; the trades
`TradeStore` loads are checked by the recheck of `AssetTrade`.

### 2.1 The state of AssetTrade and the code

| variable | code |
|---|---|
| `trade` | the fields of one `StrategyAssetTrade`.  `oid`, `ref`, `qty`, `exec` are indexed by leg: `entry_oid`, `stop_ref_oid`, `limit_order_qty`, `stop_order_exec`, ...  `managed` is `trade_type == TRADE_BUY_SELL`, which `loads` forgets |
| `listed` | the trade is in `StrategyTraderBase._trades` |
| `orders` | external: the orders as the exchange holds them, in the order of their creation |
| `account` | external: what their executions brought to and took from the account |
| `channel` | the execution reports between the exchange and `order_signal`: websocket, `Signal` bus and the queue of the strategy, which keep their order |
| `op["mutex"]` | the operation of the thread that holds `_trade_mutex` |
| `op["command"]` | the operation of the thread that runs the entry or the clean command, without `_trade_mutex` |
| `connected` | the user stream is up |
| `checked` | `_checked` |
| `outages` | counts the lost streams and the restarts, a bound |

Quantities are lots (naturals), prices are left out: a take-profit or a
stop-loss is there or not (`tp`, `sl`), and a market that reaches it is a free
choice (`SoftClose`).  An order identifier is the rank of the order; a client
reference is its negation; the integer identifier `create_order` stores, that
`order_info` does not recognise (`binance/trader.py:306, 453`), is the rank plus
`MaxOrders`.

An operation that makes several REST calls is a sequence of steps, one call
each, so that the exchange executes orders in between: `op[th].todo` is the legs
it still has to cancel or check, and when none is left the operation ends
(`CreateExit`, `SoftPrice`, `Reopen`, `Unlist`, `Finish`).  The first guards of
a method are the guard of the action that starts it.  A cancel that succeeds is
followed by `order_info` in the same step: the order is over, nothing can happen
to it in between.  A call fails in every way the code distinguishes, when
`ApiFaults` says so: the cancel (`cancel`), `order_info` (`info`), the creation
(`create`, `funds`) and a reply lost after the exchange obeyed (`lost_reply`).

`WatcherConnected` takes `_mutex` in the code, which the user's commands hold
too (not the strategy thread, nor `update_trades` nor `check_trades`): the model
lets it go on during a command, a few more interleavings than the code has.

### 2.2 The state of StrategyProcess and the code

| variable | code |
|---|---|
| `initialized`, `checked`, `bootstrapping` | the three states of `StrategyTraderBase`: `WAITING`, `PROGRESSING`, `NORMAL` |
| `processing` | `_processing` |
| `waitingData` | `_waiting_initial_data` of the analyser, which `ready` reads |
| `bulks` | external: the queries of history the database has not answered (`_pending_ohlc_select`) |
| `awake` | a signal that puts the strategy trader in `do_update` is queued |
| `jobs` | its jobs in the queue of the worker pool, bounded by `MaxJobs` |
| `pc` | the statement each worker stops at |
| `restarts`, `rechecks`, `failures` | counters, bounded by `MaxRestarts`, `MaxRechecks`, `MaxFailures` |

Each statement of `alpha_async_update_strategy` that reads or writes a shared
flag without a lock is a step of its own; a test made without the mutex and
again with it is one step, as the second decides.  `initiate_strategy_trader`,
`check_trades` and `alpha_bootstrap` are a beginning, under the mutex, and an
end, which sets the state to `NORMAL` whatever it became meanwhile.  The recheck
command and the connection of a watcher write the same, and are one action.  The
strategy trader has one analyser; what `process` does to the trades is
`AssetTrade`.  A signal that follows a write (`send_update_strategy_trader`) is
queued with it: nothing can be missed in between, as the signal still comes.
The database answers a query at least once (`DataRepeated`: a round of selects
that fails is tried again, `database/pgsql.py:1180`).

### 2.3 The state of WorkerPool and the code

| variable | code |
|---|---|
| `live` | the service runs live, not a backtest |
| `queue`, `at`, `job`, `running`, `ping`, `long` | `WorkerPool._queue`; where each thread is in `Worker.run`; its job, `_running`, `_ping`, `_long_process` |
| `count` | `CountDown._count` of the current step |
| `driver`, `step`, `left`, `play`, `abort` | the `TimeStepThread` of a backtest, or the strategy thread in live: where it is, its step, the jobs it has yet to add, `_backtesting_play`, `abort` |
| `clock` | the last step each strategy trader was updated for |
| `stopper` | where the main thread is in `StrategyService.terminate` |
| `watchdog`, `pending` | the timer thread of `WatchdogService`, and its pids that no worker answered, by age |

A critical section of the pool's condition is one action; `_running` and `_ping`,
read and written outside of it, have an action per access.  A wake-up is
explicit: a worker or a waiting backtest that sleeps goes on only when notified.
A worker may hang in a job (`hung`), for a time or for ever.

### 2.4 The state of MarginTrades and the code

| variable | code |
|---|---|
| `dir` | the direction of the trades and of the position |
| `trade` | the fields of each `StrategyIndMarginTrade`, its three legs `create`, `stop`, `limit` |
| `listed` | `StrategyTraderBase._trades` |
| `orders`, `position`, `outside` | external: the orders of the exchange, the quantity of the position, and whether the user has closed it by other means |
| `known` | `_last_positions` of the watcher of Binance futures |
| `channel` | the reports on their way: orders and positions in one stream |

The field `blind` of a trade is history: one of its legs was reset without an answer
of `order_info` on its order (below).  No action reads it.

An operation, with all its calls, is one step: each operation looks at an order
once, when it cancels it, so that an execution between two of its calls has the
effect of one before the first.  What remains are the interleavings of operations,
executions and reports, and the calls that fail.

Each call has an answer of its own, and `ApiFaults` names those that go wrong.  An
operation then stops where the code stops: the leg is kept and the operation ends
with `ERROR`, or it is reset and the operation goes on.

| answer | cancel_order | order_info, after it | what the trade does |
|---|---|---|---|
| `counted` | succeeds, or the exchange has the order no more (-2011) | tells what was executed | counts it, resets the leg |
| `blind` | succeeds | no answer, or does not find the order | resets the leg without counting (`strategyindmargintrade.py:1262-1294`) |
| `refused` | fails, the order is live | no answer, or finds it | keeps the leg, gives up |
| `lost` | fails, but the exchange canceled | no answer, or finds it | keeps the leg, gives up |
| `unknown` | fails, the order is live | finds no such order | resets the leg, goes on |

`order_info` finds no order when the connector has no session
(`connector/binance/connector.py:265`).  An order that was canceled with its reply
lost, and that `order_info` then does not find, is left as after `blind`.  A creation
is `rejected` (`REASON_ERROR`, any refusal of the exchange), or refused for want of
`margin`, which sets the exit to `STATE_ERROR`: of the traders, only the paper one
gives that answer (`papertraderindmargin.py:52, 277`), Binance futures gives
`REASON_ERROR`.  The reply of a creation that succeeds is not lost here (section 7).

### 2.5 The state of PaperTrader and the code

| variable | code |
|---|---|
| `price` | below or above the levels of the orders |
| `orders`, `book` | the orders created; the identifiers in `_orders` |
| `objects`, `current` | the `Position` objects created, and the one in `_positions` |
| `asset` | the quantity of the spot asset |
| `executed`, `told` | how often each order was executed, the signals sent about it (history) |
| `work` | the signals, and the test for an empty position, that a thread does after it released the lock |
| `phase`, `todo`, `rm_list` | the local variables of `update`: a copy of `_orders` made under the lock, walked without it, the oldest order first |

A step is a hold of the lock, or what is between two holds.  An order the other
thread canceled after the copy was made may still be executed.

### 2.6 The state of PositionTrades and the code

| variable | code |
|---|---|
| `trade` | the fields of each `StrategyPositionTrade`; an order or a position is named by its trade, so that an identifier is there or not |
| `listed`, `opening` | the list of trades; how far `open`, which does not hold the mutex of the trades, is |
| `book`, `bracket`, `position` | `_orders`, the levels of take-profit and stop-loss, `_positions` of the paper trader |
| `phase`, `todo`, `rm_list` | the local variables of its `update` |
| `sending`, `channel` | the signals a thread has yet to send after the lock; those the strategy thread has yet to serve |

Two threads send signals about one position, each after it released the lock:
their order is not that of the changes.

### 2.7 The state of TradeStore and the code

| variable | code |
|---|---|
| `table` | external: the rows of `user_trade` |
| `inserts`, `selects`, `deletes` | `_pending_user_trade_insert`, `_select`, `_delete` |
| `db`, `running` | where the thread of the database is, and its flag |
| `main`, `loaded` | where the main thread is in a session; `_loaded` |
| `unsaved`, `storing` | the markets `save` has yet to visit, and the trades it has yet to store of the one it visits, which it began by a clear |
| `signal` | the answer of a load on its way to the strategy thread |
| `mem`, `nextId`, `over` | the trades of the strategy traders, `_next_trade_id`, the trades that ended |
| `sessions`, `failures`, `saved` | counters (bounds), and whether the session ended with a save |

A query is one step with its commit, or fails and stays pending.  A crash ends
the session where `CrashAt` says and keeps the table alone.

### 2.8 The state of SharedHandlers and the code

| variable | code |
|---|---|
| `at` | where each thread is, for which strategy trader and handler, and the traders it still visits |
| `mutex`, `trade_mutex`, `daily_mutex` | the owners of `_mutex` and `_trade_mutex` of each strategy trader and of the mutex of the daily limit |
| `installed`, `handled` | the traders whose tables hold the handler; `_installed_strategy_traders` of the handler |
| `need_update` | `_need_update` of the reinvestment |
| `markets`, `quantity` | `_markets` of the daily limit, the quantities it replaced by zero; the trade quantity of each instrument |
| `day`, `begin`, `exceeded` | the day, `begin_timestamp`, and what exceeds the limit |
| `wanted` | the quantity the user gave while the trader was not locked (history) |

A step is what a thread does between two acquisitions of a mutex.  Whether a
limit is exceeded and whether a gain is worth a resize are free choices.

## 3. Runs

| run | instance | checks |
|---|---|---|
| `trade_books` | 3 orders, 3 lots; cancel, create and insufficient funds may fail; the exchange expires and rejects; fairness | `TypeOK`, `NoOversell`, `SingleExit`, `ExactBooks`, `Tracked`, `NoOrphan`, `ClosingEnds` |
| `trade_recovery` | 3 orders, 2 lots; cancel may fail; the check command; one outage or restart | `NothingMissed` |
| `trade_outages` | 3 orders, 1 lot; every operation; `order_info` fails, replies are lost; integer identifiers; one outage or restart | `NoSellAfterClosing` |
| `process_flow` | 2 workers, 2 jobs, one restart, one recheck, one failing initialization; fairness | `TypeOK`, `OneAtATime`, `WarmUp`, `NothingForgotten`, `Bootstrapped` |
| `pool_flow` | 2 workers, 2 traders, 2 steps of a backtest; or live with a queue of one job, one trader that receives data, one worker the watchdog follows; fairness | `TypeOK`, `StepsInOrder`, `JobsServed`, `TerminateEnds`, `HungIsReported` |
| `margin_books` | 2 short trades of 2 lots and 1, 3 orders, 2 reports under way, a user who also acts on the exchange; `refused`, `lost`, `blind`, `unknown`, `rejected`; fairness | `TypeOK`, `BooksMatch`, `NeverMore`, `NoGhost`, `ExitCovers`, `CloseEnds` |
| `paper_flow` | the thread of one strategy and that of the trader, 3 orders out of five offers (market, limit and stop on margin, `stop_limit` and market on spot, both directions); fairness | `TypeOK`, `ExecutedOnce`, `NetPosition`, `Answered`, `TriggeredServed` |
| `position_flow` | one trade of 4 lots, market or limit entry, take-profit or stop-loss on a limit entry; fairness | `TypeOK`, `Agreed`, `CloseEnds` |
| `store_flow` | 3 sessions, 3 trades of 2 markets, crashes while the strategy runs, two inserts or selects that fail; fairness | `TypeOK`, `ManagedOnce`, `ClearedWhenLoaded`, `LoadAnswered` |
| `handlers_flow` | 2 traders, 2 workers, the strategy thread, the user, quantities 1 and 2, a new day; symmetric workers | `TypeOK`, `QuantityKept`, `Accounted` |
| `saved_kept` | one session, one trade, no failure | `SavedKept` is violated |
| `handlers_interlock` | the daily limit alone, 2 traders, 2 workers; fairness | `UpdateEnds` is violated |

The bounds, and why they are enough.

* `AssetTrade`: three orders are an entry, an exit order and its replacement or
  the closing order, which is where the legs meet; an operation is only enabled
  with room for the orders it may place (`Room`), so that the bound never cuts
  one short.  Quantities of 2 or 3 lots with executions of 1 or 2 make every
  order partially executed and allow an exit order placed before the entry is
  complete.
* `StrategyProcess`: two workers are enough for one to overtake the other between
  any two statements, and a second job for the one that is dropped.
* `WorkerPool`: two workers and two jobs per step make one job wait for the
  other's worker, and one worker sleep while the other empties the queue; two
  steps show a job that would come late.  `CountDown` is used by the code with
  more than three strategy traders only (`strategy.py:1438`), with the same
  statements.
* `MarginTrades`: two trades are the fewest that share a position; three orders
  give the first trade an exit beside the entry of the second, its closing, or an
  exit that `update_dirty` replaces.  Each call of each operation fails in every way
  the run names.  `margin`, an answer Binance futures never gives, is left out for the
  cost of it; the theorems cover it.
* `PaperTrader`: three orders open, increase, reduce or reverse a position, and
  the next one acts on what is left.
* `PositionTrades`: the trades share nothing but the thread of the paper trader,
  so that one of four lots, reduced twice and closed, is the case that matters.
* `TradeStore`: a trade saved in one session and loaded in the second may be
  loaded again in the third; two markets make `save` ask for two lists.
* `SharedHandlers`: two traders are the fewest a handler visits besides the one
  it is called from.

What the passing runs show, and under which limits:

* `ExactBooks`, `NoOversell`, `SingleExit`, `NoOrphan` and `Tracked` hold when
  calls fail cleanly, whatever ends the exchange gives to orders.  They do not
  hold when `order_info` fails just after a cancel (`info`: executions are
  dropped), when the reply of a creation is lost (`lost_reply`: the order is
  live and unknown), or with integer identifiers for the time between
  `create_order` and the first report (`IntIds`: an existing order is taken for
  unknown).  Each is a choice of the code, listed as a hazard; these runs leave
  the faults out.  `NoOrphan` alone also holds, in the instance of the run, with
  `info` added to its faults.
* `NoOrphan` excludes an order whose cancel just failed inside `finalize_trade`,
  which ignores the result of `remove` (`strategytraderbase.py:1772`).
* With a commission in the bought asset (`BaseFee` positive, for instance
  `[k \in FillSizes |-> 1]` with executions of 2 lots) `ExactBooks` fails: `e`
  is the cumulative quantity less the last commission only
  (`strategyassettrade.py:1028`).
* `NothingMissed` holds for one outage and not for two (section 5).  It
  says nothing while the entry has not been acknowledged (state `new`): `check`
  has no identifier to ask for.
* `NoSellAfterClosing` holds under every fault: it rests on `_closing` alone.
* `ClosingEnds` lets the exchange end the closing order: `_closing` is never
  reset, so that a trade whose closing order is expired or rejected is never
  closed again.

Of `StrategyProcess`, where two workers are enough for one to overtake the other
between any two statements, and a second job for the one that is dropped:

* `OneAtATime` and `TypeOK` hold without a condition.
* `WarmUp` holds until the first restart: a worker that passed the tests before
  the restart bootstraps on the old history (`alphaprocess.py:257`).
* `NothingForgotten` and `Bootstrapped` say nothing of the initialization once
  one raised (it stays `PROGRESSING` until a restart), nor of the bootstrap once
  a restart was asked for: a restart written during the bootstrap is overwritten
  by `NORMAL`, and the job that brings the history of a restart is dropped when
  the previous processing still holds the flag, so that the strategy trader waits
  for the next tick.

Of `WorkerPool`, `StepsInOrder` is a refinement: with `now` the step and `owed`
the traders whose clock is behind it, every behaviour of the pool is one of
`BacktestSteps`.

Of the others:

* `HungIsReported` needs the worker to hang for ever.  The converse is false: a
  `ping` written between `pong` and `_ping = None` (`workerpool.py:105`) is lost,
  its pid stays pending and a worker that answers is reported as not reachable.
* `BooksMatch` holds for every trade all of whose canceled orders `order_info` answered
  for, whatever cancel or creation fails, whichever cancel's reply is lost, and
  whatever happens to the trade it shares the position with.  For a trade with a
  `blind` or `unknown` answer it is false: the leg is reset and the reports of what its
  order executed, when they come, match no leg (`strategyindmargintrade.py:1262-1294`), so
  that `e` or `x` misses it for ever.  `BooksMatch` leaves those trades out by their
  field `blind`.  What holds of them too is that nothing is counted twice
  (`NeverMore`), that the position's end is known (`NoGhost`), and that an exit order
  covers what the trade counts it still holds (`ExitCovers`), which then may be less
  than what it holds on the exchange.
* `NoGhost` and `CloseEnds` of `MarginTrades` hold for shorts.  For longs they do
  not: the watcher reads an empty position as a short one
  (`connector/binancefutures/watcher.py:1119` in `watcher/`), so that
  `POSITION_DELETED` is never sent for a long position.
* `NetPosition` counts the positions dropped by `exit`, which tests for an empty
  position without the lock (`papertraderindmargin.py:256`): it does not catch a
  position that is dropped with the quantity another order added meanwhile.  Its other half,
  the asset, and the part of `TypeOK` that says the asset is never negative are
  about the default mode: `unlimited` is left out (section 7).
* Nothing says that one worker at a time holds the flag `_processing`: two may (section
  5).  That it is always reset is proved (`FlagIsReleased`).
* `Answered` leaves out `stop_limit`, `take_profit` and `take_profit_limit`, which
  leave the book at the first update even when they are not triggered, without a
  signal (`papertrader/trader.py:455, 472, 497`).
* `Agreed` leaves out a trade whose entry was canceled while the paper trader
  executed it: the trade forgets its references, and the position stays without a
  trade.  A take-profit or stop-loss on a market order is left out of the run: its
  `POSITION_DELETED` may overtake its `POSITION_OPENED`, and the trade lives on
  without a position.
* `ManagedOnce` fails when the delete of a round fails after `save` queued its
  rows (`FailAt` with `"delete"`): a trade is left under two identifiers, loaded
  and managed twice.  `SavedKept` is the case without any failure.
* `ClearedWhenLoaded` speaks of a session under way.  After the rows are deleted,
  a crash loses every trade until the next save.
* `QuantityKept` takes as wanted what the user gave while the trader was not
  locked: what is given during a lock enables trading again, and is overwritten at
  the unlock.

`CHECK_DEADLOCK` is off where the system may stop: a trade that left the list, a
service that was terminated, sessions that are spent, a strategy trader with
nothing left to do.  In `handlers_flow` it is off because the threads may
interlock, which is what `handlers_interlock`, where it is on, shows.  In
`paper_flow` it is on: an update is always possible.

## 4. Fairness

Weak fairness is given to what a running program does by itself, one condition
per thread, and never to the user, to the market, or to a failure.

| run | fair |
|---|---|
| `trade_books` | the strategy thread (its queue is drained), the worker that runs `update_trades` and `check_trades` at each tick, the return of the call in the command thread, the next step of the operation that holds the mutex, and the executions of the closing order, a market order |
| `process_flow` | the strategy thread, the database that answers each query, a free worker that takes a job and goes on with it (`check_trades`, `process` and the bootstrap return).  The ticks of the market, the restart and the recheck have none: `Bootstrapped` holds in a market that sleeps |
| `pool_flow` | each worker, the driving thread, the main thread in `terminate`, the timer of the watchdog.  A job that hangs is not obliged to end, hence the disjuncts on `Hung` |
| `margin_books` | the strategy thread, which empties its queue of reports again and again, and the exchange on market orders, which it executes or expires.  The orders are bounded, so that the reports are finitely many: the condition `[]<>(channel = <<>>)` then says what weak fairness of the deliveries does, at a lower cost |
| `paper_flow` | the thread of the trader, which runs `update` in a loop |
| `position_flow` | the strategy thread |
| `store_flow` | the thread of the database; and the other requests it receives (market data), which wake it up: a wake-up given while it is busy is lost, and a load waits for the next one (`database/database.py:979`) |
| `handlers_interlock` | each thread, strongly: a mutex that is free again and again is obtained |

## 5. Disagreements

The runs `saved_kept` and `handlers_interlock` are disagreements between the code
and what it says of itself, each a finding in `PROJECT.json` with the quoted
line.  Met on the way, without a run:

Spot trade and its threads

* `update_trades` removes a trade that can be deleted without `finalize_trade`
  (the call is commented out in `cleanup_trades`): no statistics, no record.
* `terminate` drops a trade whose cancel revealed an execution.
* A `REJECTED` signal reaches no trade: `signal.py:49` gives it a reference in
  the place of the identifier, `is_target_order` compares it with identifiers.
* `check_trade_timeout` compares the loss with `take_profit.timeout_distance`
  (`strategytraderbase.py:2457`).
* `cancel_close` asks `order_info` for `entry_oid` when the cancel of the stop
  fails.
* `Strategy.watchdog` returns when `_preset` is true, "not during preset"
  (`strategy.py:452`), and `_preset` becomes true when the preset is over: the
  strategy thread is never watched.
* `StrategyService.terminate` saves the trades before it stops the worker pool
  (`strategy/service.py:444, 454`): a job may still change what was saved.
* Only the paper trader and Kraken answer `REASON_INSUFFICIENT_FUNDS`, the fault
  `funds` of `AssetTrade`: a refusal by Binance is always the fault `create`.
* A trade whose exit order is for less than the entry is deleted once that order
  is filled: `can_delete` tests the two states only (`strategytrade.py:469`,
  `strategyassettrade.py:892`).
* The report of an execution that `check` has already counted is counted again
  (`strategyassettrade.py:850`).
* `close` on a partially filled entry never sets the entry filled, and the trade
  is never removed (`strategyassettrade.py:645`, `strategytraderbase.py:1739`).
* `open` runs outside of `_trade_mutex` and writes, when it returns, the
  identifier of an order whose end was already reported
  (`command/strategycmdtradeentry.py:351`; `doc/organisation/tradeprocess.md:32`).
* `check_trades` writes `NORMAL` over a recheck asked for meanwhile
  (`strategytraderbase.py:1144`): `NothingMissed` fails with `MaxOutages = 2`.
* With an execution missed during the outage, and an order the user of the
  exchange cancels after the reconnection and before the recheck, the report
  resets the leg and the recheck has no identifier to ask for: `NothingMissed`
  fails with `ExchangeEvents = {"canceled"}`.
* The flag of the bootstrap is tested and set without a lock
  (`process/alphaprocess.py:250`): `process` may run during a bootstrap, which the
  comment at line 45 excludes.

Margin and position trades

* The margin trade ignores `ORDER_REJECTED`, and so does the position trade: the
  trade stays pending until it is canceled.
* An entry canceled after a part was filled stays `partially_filled`, and
  `update_exit_state` then marks the exit filled on any partial exit
  (`strategyindmargintrade.py:690`): the next position signal ends the trade with
  a residue.
* The timestamp of `POSITION_DELETED` is in milliseconds, and compared with
  seconds.
* A stop and a limit order that are both live may exit more than the trade holds.
* An execution that `order_info` cannot tell after a cancel is lost for the trade: the
  leg is reset, and its report then matches no trade
  (`strategyindmargintrade.py:1262-1294`).
* `update_dirty` takes a replacement that was refused for done: `REJECTED` is 0, not
  below zero (`strategytrade.py:77`, `strategyindmargintrade.py:554, 559`).  The old order
  is canceled, the flag is cleared, and the trade has no exit order on that side.
* `finalize_trade` drops the trade although `remove` could not cancel its orders, as
  for the spot trade.
* `update_dirty` replaces the limit order, then the stop order.  When it finds the
  limit order executed to its last lot, the exit passes for filled,
  `modify_stop_loss` has nothing to do (`strategyindmargintrade.py:336`), and the
  dirty flag is cleared with the stop order as small as before
  (`strategyindmargintrade.py:566`: "clean dirty flag if all the order have been
  updated").  The entry is not complete, so that the next execution of an exit
  order reopens the exit (`update_exit_state`).  It takes an entry of four lots
  or more; `ExitCovers` leaves out the trades with an exit order that was
  executed to its last lot.
* `cleanup_trades` drops a trade without `finalize_trade`
  (`strategytraderbase.py:1745`), which leaves a live stop behind a take-profit
  found executed by a modification.
* `close` and `reduce` of a position trade set the entry canceled without a test
  of what was entered: a reduced trade whose order was still in the book of the
  paper trader is no longer active.
* `check` of a pending position trade marks it filled, filled, and drops it with
  its order live; `check_trades` skips paper mode.

Paper trader

* `reduce_only` is ignored; the margin of a reversal is computed after the
  quantity changed (`papertraderindmargin.py:127`); the
  `stop-loss` is written into the limit of a position that opens
  (`strategypositiontrade.py:490`).
* The signals of a position are sent after the lock was released, and may be
  stale or arrive in another order.

Database

* `close` does not wait for the queues of the trades (`database/database.py:277`),
  and its last wake-up may come between the test of `_running` and the wait: the
  join hangs (`database/database.py:979, 301`).
* A list on its way when the program saves and quits is dropped, and its rows are
  cleared; so are the rows of a market that is no longer configured.
* A crash in the middle of a save may leave a trade under two identifiers.

Handlers

* `uninstall_handler` compares the name of the daily limit with the method the
  command gave it (`command/strategycmddailylimit.py:48`,
  `strategytraderbase.py:2280`): the daily limit is never removed.
* `new_session` unlocks the traders only when no limit is exceeded at that
  instant; otherwise they stay locked until a later day
  (docstring of `handler/dailylimithandler.py:37`: "until a new day begin").
* A handler removed between the test and the call raises `KeyError`
  (`strategytraderbase.py:3197`), and `order_signal` then skips the removal of the
  trade.
* A second cycle of locks: `order_signal` holds `_trade_mutex` and takes `_mutex`
  for the handlers (`strategytraderbase.py:1458, 3140`), `process_handlers` holds
  `_mutex` and takes `_trade_mutex` (`reinvestgainhandler.py:210`).

Pool, strategy process and watchdog

* `WatchdogService.terminate` during `run_watchdog` cancels a timer that has
  fired, and `run_watchdog` arms the next one (`common/watchdog.py:80-94`).
* Live jobs still in the queue when the pool stops are abandoned.

## 6. Proofs

`TypeCorrect == Spec => []TypeOK` (`AssetTradeProofs`).  `TypeOK` is not
inductive: `OrderOf(trade.oid[l])` indexes `orders`, and the reports carry
identifiers that must be those of orders.  The invariant `TypeInv` adds that at
most `MaxOrders` orders exist, that every identifier and reference a leg holds,
or a report carries, names an existing order (`Names`, `Told`), and that an open
that succeeded has an order.  `Room` before each creation keeps the bound.  One
lemma per action proves that it keeps `TypeInv`; lemmas before them give the
type and the names of the result of each operator on a trade.

`NoSellFollowsClosing == Spec => NoSellAfterClosing`, at the end of that module.
The inductive invariant `ClosingInv` says that while `closing` holds no operation
that may place a sell order is under way: the guards of `close`,
`modify_take_profit` and `modify_stop_loss` read `_closing` once, at their
start, and place their order several calls later, so that it is the mutex, not
the guard, that makes it right; the invariant ties the two.

Those two hold for any quantity, any number of orders, any set of faults and any
number of outages.  They assume only `ConstantsAssumption` and
`MaxOrdersAssumption`.

`AssetTradeProofs` then proves `SingleExit` and `Tracked` under `Undisturbed`,
`ExactBooks` and `NoOversell` under `Counting`, and `NoOrphan` under `Counting` and
without the clean command, for any quantity, steps of execution and number of orders.
None is inductive: each speaks of the orders and the trade,
and what makes it true is in the reports on their way and in the operation under way.

* `BooksInv` relates the trade, the orders and the channel.  The reports of an order
  come in the order of its executions, and its end last (`Reports`, `Follows`).  An
  exit leg is free, or names one sell order and has counted less than any report
  still to come, and either all the order executed or the report of the last
  execution is on its way (`LegOf`, `LastComing`); the two exit legs are not busy
  together, and a live sell order has its leg (`Exits`).
* `OpInv` says what a thread between two calls of `close`, `modify_take_profit` or
  `modify_stop_loss` has to do: a leg that still has an order is on its list, so
  that the order it places last finds the legs free.
* `SumsInv` is the arithmetic: what was sold is `x` plus what the exit leg has not
  counted yet (`Sold`), what was bought is `e`, or the report that sets it is
  coming (`Bought`), and the sold quantity plus the rest of the live exit order is
  covered by the bought one (`Covered`).  It holds through the steps because an
  answer of `order_info` after a cancel counts what no report counted, and a report
  that is late then finds the leg free or the quantity already counted.

* `OrphanInv`, for `NoOrphan`, says what the states the trade is dropped on tell of its
  orders.  An entry `filled`, `rejected` or `canceled` is not live any more and `e` is all
  it bought (`EntryEnds`); the exit is not `filled` while the entry is live
  (`ExitAfterEntry`), because a live entry has reported its opening before it executes
  (`EntryComes`) and what a live sell order may still sell never exceeds what the trade
  has counted of the entry (`EntryCovers`).  A trade `filled` on both sides has no live
  sell order once `finalize_trade` is done with it (`FilledQuiet`): an operation that
  would place one finds nothing to sell (`FilledExits`).  And as long as no cancel
  failed, `finalize_trade` and `terminate` still have every live order on their list
  (`Clearing`).

The three ways out of the list are then one case each.  `cleanup_trades` sees final
states, and the orders are over by `EntryEnds`, `FilledQuiet` or, when nothing was
bought, by the sums.  `finalize_trade` and `terminate` have emptied their list.  The
entry command drops a trade whose order was refused, which has none.

`NoOversell` is a sum over the set of live sell orders.  `OneExitOrder` makes it a
set of at most one element, and there the fold can be unfolded (`CommittedNone`,
`CommittedOne`), which is why no induction is needed.

The assumptions leave out the constants for which the properties are false (for
`NoOrphan` an `order_info` that fails is left out because the proof uses the sums), and
`trade_books` satisfies them all:

| left out | because |
|---|---|
| `IntIds` | between `create_order` and the first report an existing order is taken for unknown (`trader.py:453`) |
| outages and restarts | reports are lost until `check_trades`; `NothingMissed` is about them |
| a lost reply of `create_order` | the order is live and unknown (`trader.py:293`) |
| the operation `resize` | it may cancel and reopen the entry before the first `open` has its reply, which then overwrites the identifier of the second order: `Tracked` is false |
| the operation `check` | it counts an execution whose report arrives afterwards and is added again (`strategyassettrade.py:850`) |
| for the sums, an `order_info` that fails | what executed before the cancel is dropped |
| for the sums, a commission in lots | `e` is the cumulative quantity less the last commission only (`strategyassettrade.py:1028`) |
| for `NoOrphan`, the clean command | it drops the trade whether its cancels succeeded or not, and an exit placed while it cancels without `_trade_mutex` stays behind |

`StrategyProcessProofs` proves `TypeOK`, that the flag is reset (`FlagReleased`, which
no run checks: it follows from the same invariant), `NothingForgotten`,
`WarmUp` and `OneAtATime` for any number of workers and any bounds, from
`BoundsAssumption` alone.
`NothingForgotten` speaks of the quiet states only; the invariant `ComesInv` says
of every state who will do what is not done yet: a signal or a job (`Called`), an
answer of the database, a worker before the test, or the worker in the middle of
the work.  It is kept because a job dropped by a test names, by the very state it
found, the worker that owns it, and because the end of each work is followed by
the worker's own tests (`CheckComes`, `InitializationComes`, `BootstrapComes`).
`WarmUp` needs besides that a single worker initializes until a restart
(`Tested`).  `OneAtATime` bounds a number of workers by the number of commands;
the invariant `Allowed` counts, with the workers that are in, the one that may
still enter while the state is `waiting`: a command adds one to both sides, and
the test and set under the mutex exchanges one for the other.

`WorkerPoolProofs` proves `TypeOK` and `StepsInOrder`, that is `Spec =>
BacktestSteps!Spec` under the mapping of section 3, for any number of workers,
traders and steps.  What a step has left to do is the set `Outstanding`: the
traders whose job is yet to be added, in the queue, or taken by a worker that has
not called `done`.  The invariant `PoolInv` says that each job is in one of these
places only (`JobsApart`), that it is for the current step (`JobsCurrent`), and
that the count down is the cardinality of `Outstanding` (`CountExact`), so that
the driver, which goes on at zero, finds every trader up to date.

`SharedHandlersProofs` proves `TypeOK`, `QuantityKept` and `Accounted` for any
traders, workers and quantities.  The invariant `HandlersInv` is about ownership:
a worker in a handler holds the mutex of its trader (`WorkersHold`), one that is
in the daily limit holds the mutex of that one too (`DailyHeld`), the traders a
lock has still to reach are not locked (`LockAhead`), which is why a quantity is
saved once and never overwritten by the zero that replaces it; and the user holds
the mutex of the trader whose table it changes (`UserHolds`), between the two
writes that make the table and the list of the handler agree (`TablesAgree`).
`HandlersAssumption` says besides that the value for a free mutex is no thread.

`TradeStoreProofs` proves `TypeOK`, the action property `ClearedWhenLoaded`, also
under crashes and failed queries, and `ManagedOnce`.  For the first two, the
invariant `StoreInv` says that between two sessions nothing is pending
(`OutQuiet`), and that a row of the table is held by the strategy or in the list
on its way to it while that list is pending, and held when the clear is
(`RowsHeld`).  `ManagedOnce` assumes `Orderly`: no crash during a save and no
clear that fails, the two cases of section 3 where it is false.  Its invariant
`OnceInv` follows a trade that has two rows, an old and a new one, through the
save: the clear comes before, or in the round that inserts the new
(`StoredHeld`, `RowsOnce`); and the list of rows comes once in a session
(`LoadedOnce`).

`PaperTraderProofs` proves `TypeOK`, `ExecutedOnce`, `Answered` and `NetPosition`
for any threads, offers and number of orders.  The difficulty is the copy of the book an
update walks while the other threads create and cancel: `NotYet` says that what
it has still to look at was not executed, which holds when the copy is made
because `rm_list` is empty then and an executed order that is still in the book
is in `rm_list`.  `EndKnown` says of an order out of the book that its end was
told or is in the hands of a thread, which a further thread cannot disturb.
`NetPosition` is inductive with these two: an execution is one element more in the
sum of the orders (`NetServed`), because it was not executed before, and one
position more (`HeldAppended`) or another value of one (`HeldReplaced`) in the sum
of the positions.  That a sum, a fold that chooses the element it counts first,
changes by what one element changes is not given by the library.
`SubsetInduction` is an induction over the subsets of one finite set that takes no
operator as parameter: the sets that do not have the property are a set, a minimal
one of which is looked at.  It gives a function that has the sums of all subsets
(`SumsExist`), hence that the fold is that function (`SumIs`) and that any element
may be counted first (`SumElement`).

`PositionTradesProofs` proves `TypeOK` and `Agreed` for any trades and quantities.
What a trade knows, what is on its way and what a thread has still to send are
three pieces of one script, and `PositionInv` ties them for each trade.  `Signals`
speaks of the position and the channel: the quantities told fall, down to that of
the position, the opening comes before the end of the order, and nothing of the
position is told while its opening is still to be sent.  `Known` speaks of the
trade: one that does not know its entry will be told of it unless it was canceled
(`Waiting`), and one that does will only be told less than it knows, the last time
what the position holds (`Entered`); it leaves the list with nothing under way.
`Sends` says that what a thread has left is the end of the script of one trade,
of which no other thread holds a part.  `Agreed` is that invariant when nothing is
left.  Both theorems assume `Brackets \subseteq {"limit"}`, as the run does: with a
level on a market order the paper trader may close the position before `open` has
sent its `POSITION_OPENED`, the case of section 3 where `Agreed` is false.

`MarginTradesProofs` proves `TypeOK`, `BooksMatch`, `NeverMore` and `ExitCovers` for any
trades, quantities, directions, faults and bounds; and `NoGhost`, whatever fails, when `Directions \subseteq {"short"}`: for longs it is false (section 3).  A
handler of the trade is a chain of steps on three things, the trade, the orders and
the reports on their way; each operator has lemmas that say what it leaves as it was
(`Evolves`, `SameOthers`, `Dropped`), and the handlers are chains of them.  The
invariant is `MarginInv`:

* `Placed`: the orders and the reports have the fields the exchange gives them, and
  a reference a trade keeps is to an order of that leg of that trade;
* `ListedBooks`: for each trade of the list, each leg counts the last execution it
  was told of, and the report of a later one is on its way with the cumulative
  quantity of the exchange (`LegOK`); `e` is at most what the one entry order
  executed (`Entered`); `x` and what the two current exit orders have still to tell is
  at most the sum over all exit orders, the replaced ones included (`Exited`); the
  states follow the quantities (`States`); and an exit order covers the rest unless
  one of them has emptied the trade (`Covering`).  As long as the trade is not `blind`,
  every live order is referenced besides (`Held`), and both bounds are equalities once
  the leg has nothing to tell;
* `Announced`: for shorts, the watcher knows of the position as long as there is one,
  and once there is none the report of its end follows the last execution of
  every entry.

`NeverMore` and `BooksMatch` need `Exited`, which no state of the trade alone
implies: a replaced order leaves the trade with what it executed, and `order_info`
and a late report may tell the same execution twice.  The bound survives an order
that is given up without an answer of `order_info`, the equality does not: `blind`
tells the two apart, trade by trade.  A trade that leaves the list takes its books with it, so nothing is claimed of
its orders but `Placed`.

Left to TLC: liveness (`CloseEnds`, `ClosingEnds` and the others), which this prover
does not reach, and `NothingMissed` of `AssetTrade`.  The latter is about the instances
`Undisturbed` leaves out: reports are lost, so that neither `LegOf` nor `LastComing`
holds between an outage and the end of `check_trades`, and an execution may be counted
twice.  It is false for two outages (section 5), so that a proof would need an
invariant of its own for at most one outage, and the check under way in it.

## 7. Not modelled

* The REST and websocket clients of the exchanges, the conversions of their
  formats, and the watchers of market data: input and output.  They are most of
  the lines of the program, which is why the modules cover a small part of it.
* Indicators, bar generators and the strategies of the examples: floating-point
  arithmetic on series, without a state two threads could disturb.
* For the margin trade, a creation the exchange accepted with its reply lost
  (`binancefutures/trader.py:293`): the order is live and no trade knows it, as with
  `lost_reply` in `AssetTrade`, and its books would miss it.
* The paper-mode option `unlimited`, off by default (`papertrader/trader.py:59-66`):
  the paper trader then executes a sale beyond the asset and clamps the asset at zero
  (`papertraderspot.py:150, 335`), so that the asset is no longer the sum of the
  executions.
* Prices, fees and statistics of the trades; margins and balances of the paper
  trader.  Properties speak of quantities; a price is a condition left free.
* The process `beta`, an older one; the deprecated margin trade
  (`strategymargintrade.py`); OCO orders, which no trade
  ever has.
* The DCA handler, mostly a `@todo` (`dcahandler.py:225`); the trade operations,
  which call the operations modelled here on conditions the models leave free;
  alerts and regions, conditions on prices.
* The command line, the terminal, the monitor, the notifiers and the tools:
  output, or one-shot programs.

## 8. Plan

Every invariant and action property of the passing runs but `NothingMissed` is stated by a
theorem.  What is left:

1. `AssetTrade`: `NothingMissed` for at most one outage, with an invariant that
   follows the check leg by leg.
2. `AssetTrade`: `NoOrphan` when `order_info` fails, without the sums.
3. `MarginTrades`: a lost reply of a creation, and what still holds of the books then.
4. `PaperTrader`: a property that catches a position dropped with a quantity.
