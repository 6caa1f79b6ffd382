# A formal model of the ETF paper-trading and backtest system

The repository is one Python package, `etf_backtest`, with two programs on top of it: a
backtest (`run_backtest.py`) and a paper-trading service for a MiniQMT broker
(`run_paper_trading.py`). This directory holds TLA+ modules translated from that source, the
TLC configurations that check them on small instances, and theorems about them checked by
TLAPS. The paper-trading service is where threads, crashes, retries and money meet, so most of the
modules are about it; the others follow a decision back to where it comes from: the data of a date,
the model and the portfolio, the rules of a security, the day loop of the backtest, and the directory
a run ends in.

## 1. Inventory

### The paper-trading service (`etf_backtest/live`)

| part | state it keeps | operations | talks to |
|---|---|---|---|
| engine `engine.py` | the MySQL connection holding the account lock, `_broker_connected`, the unhealthy flag | `start`, `run_forever`, `_run_broker_job`, `_heartbeat_account_lock`, `stop` | scheduler, jobs, broker, consumer |
| scheduler `scheduler.py` | `_handled`: jobs tried today | `tick` | jobs, engine |
| daily jobs `jobs.py` | none of its own, everything is in the database | `prepare_signal`, `startup_reconcile`, `execute_pending_target` (SELL phase, BUY phase), `eod`, the wrapper `_run_job` | repository, reconciliation, planner, risk, broker |
| persistence `persistence/repository.py` | account, strategy, positions, decisions, targets, intents, broker orders, trades, job runs, snapshots; advisory locks | one transaction per method | MySQL |
| reconciliation `reconciliation.py` | none | `reconcile` | repository |
| callback consumer `broker/callbacks.py` | the event queue, a thread | `process` | repository, engine's unhealthy flag |
| broker gateway `broker/miniqmt.py`, `mapper.py` | the trader session | connect, query, submit, cancel | the vendor's SDK |
| planner and risk `execution/`, `risk.py` | none | pure functions | |
| signals `signals.py`, `application/daily_decision.py` | none | the decision for a date | strategies, data |
| quotes `market/xtdata.py` | instrument details, cached | the quotes of a phase | vendor's data SDK |
| assembly `service.py`, `config.py` | none | build the runtime, load the bundle | strategies, training |

Two threads write the database: the engine thread, which runs the jobs, and the consumer
thread, which books what the broker calls back. A job talks to the broker inside a session
that starts with a reconciliation; what survives a crash is the database and the broker's own
state. The hard behaviours are therefore: an order whose submission nobody knows the result
of; reports that come late, twice, out of order or never; the race between the two threads on
the ledger; a restart at any hour of the day; and two processes started for one account.

What makes each part correct:

* jobs, persistence and reconciliation: an intent reaches the broker at most once; a recorded
  outcome is the broker's and its trades are booked; buys start when the sells are closed; a
  successful day leaves nothing open or unexplained; every submission is settled or the account
  stops.
* strategy ledger: cash and lots are those of the trades, each once; T+1 lots are not sold on
  the day they were bought; plans never use the same cash or lot twice; the daily snapshot is
  the ledger of one moment.
* engine, scheduler, job runs: a job completes once a day; only the holder of the account lock
  trades; a process that lost the lock stops.
* session and consumer: every trader that was started is stopped; an alarm of the callback thread
  reaches the job of its own session and no other, and stops its orders.
* transactions of the two threads: the cash is the sum of the trades whatever they wait for; each ends.
* planner and risk: no order passes the target or the limits, none leaves affordable lots behind.
* decisions: what an evening saved is what the next session executes, on that day or never.

### The backtest and what both programs share

| part | state it keeps | operations |
|---|---|---|
| backtest engine `core/engine.py`, `core/order_generator.py` | the pending target, the day | the day loop: settle, execute, mark to market, decide |
| account and fills `core/account.py`, `position.py`, `fill.py`, `order.py`, `fee.py`, `sizing.py`, `pricing.py` | cash, positions with frozen lots, orders | buy, sell, settle, match against a bar |
| exchange rules `core/etf_rules.py`, `effective_rules.py`, `market.py` | rule records with validity dates | which rule is effective for a security on a day |
| market data `data/*` | bars, the trading calendar | point-in-time reads |
| universe `universe/resolver.py` | membership records | the securities of a date |
| strategies `strategy/*` | none of a rule, the bundle and its records of a model | a target from a context |
| training `strategy/model_training.py`, `xgboost_training.py`, `model_data.py`, `model_contracts.py` | samples, the best state, the bundle | build, fit, save, load, predict |
| output, evaluation, experiments | the run's directory | write, publish, measure |

Its correctness is about accounting (cash never negative, lots conserved), about time (nothing
of a later day is visible when a decision is made, and a day looks the same to the service and to a
backtest made later), about pure algorithms (weights, rule periods, limit prices), and about the
record of a run (complete, of what ran, never a failure that looks like a success).

`PROJECT.json` lists every component with what is modelled of it, and every hazard with the
line where it bites and the properties that watch it.

## 2. The modules

| module | models | kind |
|---|---|---|
| `OrderStore` | status transitions of an intent, the merge of a report into a saved order | operators used by `LiveTrading` |
| `LiveTrading` | one trading day: engine thread, consumer thread, database, broker, crashes | state machine |
| `OrderPromise` | what the service promises about each intent | abstract specification |
| `StrategyLedger` | the strategy's cash and positions over days, planning from stale reads, settlement, snapshot | state machine |
| `JobRuns` | the day's jobs over two processes: locks, heartbeat, job rows | state machine |
| `BacktestDay` | the day loop of the backtest: account, orders, approval, fills | state machine |
| `BrokerSession` | engine, SDK and consumer threads over broker sessions: traders, the event queue, alarms | state machine |
| `RowLocks` | row locks of the two threads' transactions and the deadlocks between them | state machine |
| `ExecutionPlan` | quotes, frozen quantities, planner, risk check, over two phases, restarts and days | state machine |
| `SignalStore` | a decision from the evening it is made to the session that executes it | state machine |
| `DailyData` | universe, loading and showing of daily quotes, for signals and backtests | state machine |
| `FundamentalData` | shares, holder ratios and index quotes, and the context's checks of them | state machine |
| `EffectiveRules` | price limit periods of every security and the rule of a date | state machine |
| `ModelTraining` | samples, early stopping, the bundle, predictions of backtest and service | state machine |
| `ModelAllocation` | scores to weights to a target, with the roundings | state machine |
| `BacktestRun` | a backtest process from its source files to its directory | state machine |
| `HuijinRule` | the decisions of the example strategy over days | state machine |
| `MCLiveTrading`, `MCStrategyLedger`, `MCJobRuns` | finite instances of one module each | model checking |
| `MCThreads` | `BrokerSession` and `RowLocks`, which it extends | model checking |
| `MCDecisions` | `SignalStore` and `ExecutionPlan`, which it extends | model checking |
| `MCMarketData` | `EffectiveRules`, `DailyData` and `FundamentalData` | model checking |
| `MCResearch` | `BacktestRun`, `BacktestDay`, `ModelTraining` and `HuijinRule`, which it extends, and `ModelAllocation` | model checking |
| `LiveTradingProofs` | theorems about `LiveTrading` | proofs |
| `StrategyLedgerProofs` | theorems about `StrategyLedger` | proofs |
| `ThreadsProofs` | theorems about `BrokerSession` and `RowLocks` | proofs |
| `MarketDataProofs` | theorems about `EffectiveRules`, `DailyData` and `FundamentalData` | proofs |
| `DecisionProofs` | theorems about `SignalStore` and `ExecutionPlan` | proofs |
| `ResearchProofs` | theorems about `BacktestRun`, `BacktestDay`, `ModelTraining` and `HuijinRule` | proofs |
| `JobRunsProofs` | theorems about `JobRuns` | proofs |
| `Sums` | sums over finite sets, what a fold of the library has to do with them, and integer quotients | lemmas |

### `LiveTrading` and `OrderStore`

The engine thread is a program counter (`pc`, `at`) that walks the jobs statement by statement,
with a step of its own for each database transaction and for each broker call, so that a crash,
a callback or a fill may come between any two. `StartReconcile`, `QueryOrders`, `QueryTrades`, `Reconcile` are
`_reconcile_or_pause`, used from the five places the code calls it from (`at` says which).
`Plan`, `ResumePhase`, `MarkSubmitting`, `Send`, `Accepted`, `Refused`, `ResultUnknown` are the two ways into a
phase and `_submit_intent`; `WaitForPhase`, `PollAgain`, `WaitExpires` are the wait;
`ListOpenOrders`, `CancelOrder`, `AwaitCancels` the cancellation.

The consumer is modelled without its queue: `ConsumeOrder` may process any state the broker's
order has ever been in, `ConsumeTrade` any trade, at any time, again, or never. This contains
every order of delivery. `query_trades` may lag by the last trade. `Restart` starts the
process with an empty `_handled`; `Crash` loses everything that is not in the database or at
the broker.

Abstractions. The clock has six values, the windows of the schedule. A quantity is a number of
fills. Cash is reduced to whether the ledger is overdrawn; only the second and later fills of a buy
can overdraw it, because the plan reserved the first fee (`StrategyLedger` justifies this:
`OverdraftIsExtraFees`). An intent has one broker order. Health checks with no database or
broker call between them are merged. Orders of other programs, identity mismatches and database
failures are left out; one process is running (`JobRuns` covers two). The day may start with
the account ACTIVE or PAUSED and the ledger overdrawn, as an earlier day can leave them.

### `StrategyLedger`

Orders are `<<day, side, symbol>>`; a fill is one lot at one price; the fee of a trade is the
minimum commission, the part of the fee that depends on how an order is split. The engine
settles, reads cash, reads positions and acts in separate steps while `Book`, which is
`record_strategy_trade_if_absent`, runs between them for either thread. `Reserved` and
`ReservedLots` are `strategy_reservations`, read when the plan is made. A plan is any set of orders
the planner's cash and position bounds allow. Trades of an earlier day are neither delivered nor queried
(the broker's queries are for the current day); the ledger may therefore start a day without them.
The account's status is left out, which only allows more behaviours. Average cost is left out.

### `JobRuns`

Two processes for one account. A lock belongs to a connection and is lost with it, without the process
noticing (`LoseConnection`). `Tick` is `scheduler.tick`, `TakeJobLock`, `CheckTerminal`, `Finish` are `_run_job`;
the broker jobs lock on the account-lock connection, the others on one of their own. The rebalance is reduced
to one intent and its conditional status update. Skip reasons that mean "too early" cannot come
from the scheduler and are left out.

### `BacktestDay`

One frame is `Open` (release of T+1 shares, orders of the pending target), one `Approve` per order
(`approve_batch`), one `Fill` per order (`create_fill` and `apply_fill`), and `Close` (`evaluate_daily_decision`).
The two loops are separate because they walk the orders differently: approval takes the sells by symbol and
then the buys by descending gap, the engine applies sells and then buys by symbol. A place where the code
raises is the `step` `Failed` (`step`, `frame`, `DayInit` and so on keep this module apart from the ones it is checked and proved with). The input of a decision is any of
`Targets` or none, that of a day a frame out of `Frames`, cut down to the ETFs that live on that day (`Listing`, `FramesOn`): the portal delivers the bars of
these and of no others. A run therefore raises when an ETF that is held has no bar (`Priced`: the snapshot before the orders, and that at the end of every day), when
the target names one without a bar (`Generated`), and when an order finds no quote, its close being outside its limits or slipping to zero (`Quoted`). Portal and loader
refuse a close outside explicit limits before the run begins; one outside limits derived from `pre_close` is found here only. A target of
the model runtime names every registered ETF (`model_runtime.py:132`), so with one member whose life does not cover the run a model's backtest stops at the first target outside that
life, and nothing in the engine sells an ETF before its life ends. `RaisesForData` says that these are the only causes, and that a day which raises has no fill.
Left out: exceptions of the strategy, the resolution of the day's rules, explicit limits off the tick. Prices and money are integers of 0.001 yuan and every formula keeps its rounding
(`HalfUp` for fees and derived limits, ceiling and floor for slippage, floor for lots); with such prices
the rounding of snapshots to 0.001 changes nothing. The order generator and the rules share one `Lot`, as
they do in `experiment.py`. A batch has one order per symbol, because targets are a mapping, so `used_volume` and
`projected_available` of a symbol are untouched when its order is looked at. `Bisect` is the search of
`max_affordable_buy_quantity` over numbers of lots, for any set of payable ones, so that its result can be stated apart from prices. Reasons of the common precheck
are one reason, `PRECHECK`.

### `BrokerSession`

One process with three threads. The engine's `pc` walks `_run_broker_job`, `connect`, `disconnect` and `stop`
statement by statement wherever another thread may look in between: `Clear` and `Forget` are the two
assignments that open a session, `Disarm`, `Unsubscribe`, `StopTrader`, `Leave`, `Wipe` the way out of it.
`OnDisconnected` and `OnCallback` are the SDK's calls, `Put` their arrival in the queue; the consumer takes an
event (`Take`), processes it (`Process`, which may raise) and reports an alarm in three steps
(`NotifyConnected`, `NotifyReason`, `NotifyFlag`). Five connection attempts are one choice of outcome; what an
event does to the database is in `LiveTrading` and `RowLocks`. A callback may come after its trader was
stopped, since nothing in the code waits for the SDK.

### `RowLocks`

A transaction is the sequence of lock requests its statements make (`SyncAccount`, `StartStep`, `SettlePositions`,
`PauseAccount`, `BindOrder`, `BookTrade`, `UnknownReport`), taken one per `Step`. The reconciliation is one transaction over the
broker's answers in any order: `ahead` holds the orders and trades its loops have not come to, `NextAnswer` takes the next one.
A request that would close a cycle of waits rolls its transaction back, as InnoDB does. The model of InnoDB is external: shared, exclusive and gap
locks of the default isolation, a foreign key's shared lock on the index entry of the parent that the key refers to. The parents of a job row are
referred to by their primary keys, which an update locks too; an order's intent by an index of its own (`schema.py:209-234`), which a
change of the intent's status does not touch. The effects kept are those that the
properties compare: rows inserted, and the virtual cash, read and written. `OpenSecond` is the second connection on which
`pause_account` runs inside a callback's transaction.

### `ExecutionPlan`

A phase plans in one step from one snapshot (`ExecuteSide`): the quotes of the moment (`QuotesMissing` is the refusal),
the frozen quantities, the orders still open, the quantities by gap and cash, the limit prices by tick, the risk check.
The planner takes the buys in sorted order, each from the cash that the one before it left (`Bought`, `Previous`); the risk check adds up
the day's notional in the same order (`Passes`), and the largest affordable number of lots is what the code's loop of subtractions ends with.
Between plans `Fill`, `Close` and `Submit` move the orders, `LoseCache` and `ResumeLate` the process, `NextDay` the market.
The names `Etfs`, `target`, `funds`, `position` and `stage` keep this module apart from `SignalStore`, which has symbols, weights and cash of
its own in the same proofs.
Money is in ticks and fees keep their rounding. The model shows that an intent left PLANNED or SUBMITTED by an earlier
day is counted as an order for ever: `NeverPastTarget` therefore speaks of days without one.

### `SignalStore`

`StartSignal`, `Evaluate`, `Save`, `FinishSignalStep` and `FinishSignal` are `prepare_signal`, one step per transaction;
`StartRebalance` to `FinishRebalance` the execution. A stored weight is rounded to the column's scale. `Crash` loses the program
counter and the result in hand, `Revise` is the data vendor changing what the strategy would answer.
The plan of a side is reduced to orders towards the frozen quantities; `ExecutionPlan` has their arithmetic.

### `DailyData`

The tables grow by a day at a time (`NextDay`). `BuildService` is the start of the service, `Signal` one evaluation of
`SignalService`, `ClosePrices` the valuation at the end of a day, `Backtest` a later backtest's view of a day. Each loads a range, is
refused as a whole (`Refusal` names the first reason) or keeps what it would show: bars by the day whose close they carry, since
a price needs no other identity here. A cell of the table tells full, partial and missing raw rows apart, the
adjusted quote, the trading status and the explicit price limits.

### `FundamentalData`

`Digest` and `ReadRows` are the two readings of the holders' file, with `ReplaceFile` between them; the portal that results
answers `Ask` for a date as the context would be built. Tables of shares and index quotes have gaps and
quotes on closed days. A ratio that adds up rows is a sum of the library (`SumFunction`). The names `Funds`, `date`, `dataset`, `given` and
`raised` keep this module apart from `DailyData`, which has securities, a clock and tables of its own in the same run and proofs.

### `EffectiveRules`

`load_effective_rule_resolver` security by security (`BuildGold`, `RefuseOther`, `StartStock`) and exception by exception
(`PassOver`, `AddException`, `FinishStock`) with its cursor, then the resolver's own overlap check (`MakeResolver`) and its answers
(`Resolve`). A rule is 10% or 20%.

### `ModelTraining`

`Prepare` and `Build` make the samples, `Epoch` one round of either back end (the losses are arbitrary, NaN included), `Keep`,
`Evaluate`, `Backtest`, `Publish` the rest of a run; `Deploy` is an operator's copy of a published bundle,
`StartLive` and `Signal` the service. `EditSource` replaces `model.py` or `experiment.yaml` between any two. Features are identified by the
rows they were computed from and the code that did it. A change of the feature code under unchanged feature names is not detected by
the loader (the digest of the source is recorded and not compared), so `ServedAsTrained` speaks of names, order, history and policy.

### `ModelAllocation`

`Predict` chooses scores for the securities that have a record, `Allocate` is the policy with `_normalized_weights`,
`_validated_weights` and the completion to a target. Decimal's 50 digits of a quotient are three here and the 28 of a sum two:
what matters is that the sum has fewer. With three or more securities the code may refuse a correct division, so
`SmallAllocationsAreMade` claims acceptance for two and `BudgetIsSpent` is about what was accepted.

### `BacktestRun`

Two processes that may draw the same run id. `Parse`, `Execute`, `Digest`, `Identify` read the sources, in the order each case does;
`Work` and `Unwind` are the run and its `ExitStack`, `Stage`, `Populate`, `Rename`, `Abort` are `_commit`, used for the results and
again for the record of a failure. Any step may raise within `MaxFaults`, and `Kill` is a process ended from outside.
`recorded` holds the versions of the sources that the digests of `run.json` are of; no property is about it.

### `HuijinRule`

`EndOfDay` is a day's data reduced to what the thresholds make of it, `DecideWeights` is `generate_weights` with its streaks, stages and caps,
`Trade` the next day's execution at any prices, in which the target of each ETF is traded in full or not at all (an order filled in part is left out). The median of an even number of shares is rounded down where the code keeps the half. Weights are exact fractions, brought to a common denominator (`den`),
and a value that may be missing is a set of at most one (`Known`). `Ranked` and `Median` say what sorting the known values and taking the
middle gives.

## 3. The runs

| run | instance | shows |
|---|---|---|
| `day` | one sell of 2 fills, one buy of 1; 1 crash, 1 fault; fair | at most one submission, outcomes are the broker's, sells close before buys, saved orders never run ahead, the end of day is complete, success means resolved, the refinement of `OrderPromise`; every submission is settled and every open order dealt with, or the account stops |
| `buys` | two buys; one trouble, a crash or a fault | two intents planned and submitted in turn: `SendInv`, with which every proof about a day begins; an overdraft stops the next buy until a restart |
| `ledger` | T+1 and T+0 symbols, two days, two lots an order | the ledger is the trades, nothing is sold short, plans do not overspend, the snapshot is of one moment |
| `jobs` | two processes, two crashes or a crash and a lost connection; fair | a job completes once a day, orders leave under the account lock, a lost lock stops its process |
| `threads` | two sessions, two callbacks, two orders, Ctrl-C; two engine transactions, three reports; fair | traders are stopped, alarms are kept and obeyed, a deliberate disconnect is none; the cash is the trades, only two kinds of deadlock; sessions, queue and transactions end |
| `decisions` | three securities, three sessions, a crash, a revision; a stock and a gold ETF, two days, two accounts, three targets | decisions and frozen quantities stay, orders follow them on their day; plans stay within target, cash and limits, no lot is forgotten |
| `data` | 7 days, 3 calendars, up to two odd days of ten kinds, four lives; two stock ETFs and one other, all pairs of 8 exceptions; two holders, three periods, a growing file | no look-ahead, stable history, agreement of service and backtest; one rule on each day of a life, the right one; ratios of one period |
| `research` | two runs, two ids, an edit, three faults; two securities, 4 epochs, 3 losses and NaN; four securities, ten policies; nine kinds of market day, four days; five days out of four frames (quiet, limit up, suspended, hardly traded with a close outside its limits), an ETF delisted before the last day, six targets | directories are complete and recorded; the best state is kept, predictions are out of sample and as trained; budget, rank, explicit exits; the caps of the example strategy; a backtest raises only for its data and before the first fill of the day, targets are met to the lot, cash goes to the largest gap |
| `open`, `plans`, `breach`, `lostlock` | small | the first four disagreements below |

**Several modules in one run.** The modules of `MCThreads`, `MCDecisions`, `MCMarketData` and `MCResearch` share no state,
in the code or here: they meet in the database or in the files, and each has the other's part as its input. Their MC module
EXTENDS one of them, or those that theorems are about together, INSTANCEs the others on variables of its own, and chooses in the initial state which `part` runs; the
others rest, and a property of an instantiated module is stated of the states in which its part runs. The states are therefore the
disjoint union of the modules' own, and nothing is interleaved that does not interact. A component's invariants are named one by one in
its module, next to the code they are about, and checked together: `RulesInv`, `SlicesInv`, `RunInv` and so on are their conjunctions.

**Bounds.** One crash reaches every pair "what the crashed process had done / at what hour the next one
starts"; a second crash only repeats a restart from a database that one crash already produces. In `buys` a crash and a fault
together are left to `day` (`OneTrouble`). Two intents are enough for an order between sides and between two submissions of a phase; two
fills make a partial fill, one more fee and an out-of-order report. Two days and both turnover rules make the T+1 roll-over,
the reservations of an earlier day and the trades nobody booked. In `jobs` two troubles are two hand-overs of the lock, back to the
first process, or a process that goes on without its lock while another crashes.
In `threads` two sessions make every pair of an event and a later session that it may disturb, and the second order is
the one that must not leave; two transactions of the engine and three of the consumer make every cycle of two and the longer ones
through the second connection. In `data` a week with three calendars has a gap between two quoted days, two gaps in a row, and a
holiday longer than the range loaded; the exceptions lie before, across, within and after a life, adjacent, overlapping and open. In
`research` patience 2 and four epochs make an improvement after a stale epoch, and the padding of one day makes the first sample short of
history; allocations have ties, more eligible securities than `top_k`, and totals on both sides of a power of ten; three faults are an error in
the work, one in the cleanup after it, and one in recording it; a lot costs between a twentieth and a fifth of the cash and the
least commission is that of a trade of a third of it, so that both branches of the fee are taken and cash, fee, volume and lot limits all
cut orders, and five days are four rounds of decide and execute, enough to build, turn over and clear holdings. The delisting meets an ETF held, named by the
target, both, or neither, and then the day goes on with the others; the close outside derived limits meets an ordered ETF or one left alone.
The four days of the example strategy reach one counted reduction; how several add up rests on `CapsHold`.
`CHECK_DEADLOCK FALSE` in the live runs: a day ends; in the others the bounded inputs run out. `BacktestDay` ends in a stuttering `Finished`.

**Fairness** (`FairSpec` in `LiveTrading`): weak fairness of the process's restart (the operator or a
supervisor restarts it), of the engine thread, of the report of a breach (the next statement of the
consumer), of the clock; strong fairness of the expiry of the cancellation wait, since polling interrupts it again
and again while real time runs. None for the broker, which may never fill, close or answer with anything
but "still open". The two liveness properties have an escape once a connection or a session failed (`faults > 0`): the job that
failed is not tried again before a restart (`scheduler.py:95`). In `BrokerSession`: weak fairness of each of the three threads' next step;
the SDK need not call back. In `RowLocks`: weak fairness of each connection's next request, which is a thread that keeps running. In
`JobRuns`: weak fairness of each engine loop and of the clock. In `MCThreads` each is the fairness of a part, while it runs.

### What disagrees with the documentation

Four disagreements have a run that finds them:

* `open`: after a crash with a buy out and a restart after `stop_new_orders`, the rebalance skips the whole
  BUY phase and succeeds; the open order is neither waited for nor cancelled (`jobs.py:496`,
  against `README_DEVELOPER.md:169`).
* `plans`: the same skip leaves buy intents PLANNED for ever, reserving cash on later days
  (`jobs.py:512`, against `jobs.py:818`).
* `breach`: the startup reconciliation resumes an account that was paused for a negative cash
  balance, and the resumed BUY phase submits the next plan without a cash check (`jobs.py:333`, against `repository.py:524`).
* `lostlock`: a process that loses its lock connection inside the rebalance goes on, and the second process
  submits the same intent: `mark_intent_submitting` is a conditional update whose effect is not
  looked at (`jobs.py:900`, against `engine.py:87` and `engine.py:199`).

The models of the other parts behave in ways that a reader of the documents would not expect either. No run states these; the
properties above are worded so that they do not deny them:

* `stop` waits two seconds for the consumer, then releases the account lock; a slow transaction of the consumer ends after
  that (`callbacks.py:161`). Ctrl-C within the connection attempts is no `Exception`, so the started trader stays (`miniqmt.py:118`):
  `NoStrayTrader` is about sessions without an interrupt.
* Two threads that report a new order at once lock the same gap and then insert: one is rolled back, its report lost
  (`repository.py:1084`); it is one of the two deadlocks that `DeadlocksAreKnown` allows.
* The price limits of a day are cached for the life of the process (`xtdata.py:54`): `PricedToTrade` is about the limits the quote carries,
  and about the quote a plan was made from: a resumed submission sends the stored price without a new one (`jobs.py:843`).
* Weights lose digits in their column: a repeated evening is refused, and weights rounded up cannot be
  read back (`repository.py:649`, `jobs.py:550`); `RefusalsAreExplained` allows both.
* A live rule signal asks for quotes of the ten days to come, and any signal for a session within ten days (`signals.py:175`, `:185`):
  `ModelSignalsAreMade` is about models, and days whose next session is near.
* The holders' file is hashed and parsed in two readings (`mysql.py:949`, `:956`). `Replaceable` lets it change between them; the run sets it
  to FALSE, an assumption about the operator without which `RatiosAreFrozen` fails. The combined ratio of a period is first checked when it is
  asked for (`portal.py:279`).
* An exception of a gold ETF refuses the whole resource instead of being passed over (`effective_rules.py:693`).
* The sum of three equal shares can exceed the budget they were cut from, and the day is then refused (`portfolio.py:121`):
  `SmallAllocationsAreMade` claims acceptance for two.
* The last validation labels end within the test range (`model_data.py:94`); a bundle replaced by another of the same
  model is loaded (`service.py:128`).
* A member whose life ends inside a run is admitted by the resolver (`resolver.py:294`); the day after, a backtest that holds it or names it ends with an
  exception (`account.py:81`, `order_generator.py:57`), as it does at a close outside limits derived from an unadjusted `pre_close` (`order.py:133`).
* A run that fails after publication leaves a success directory (`experiment.py:294`); a source file is
  executed and digested in two readings (`strategy_source.py:64`).
* A purchase of the example strategy restates every weight, and its execution may sell (`rule.py:601`): `PurchasesAreBounded` is about the decision.

## 4. What is proved

For every value of the constants that the assumptions named in each module allow. An invariant of a run is seldom
inductive; what follows says for each theorem what had to be added, and why.

### A trading day (`LiveTradingProofs`)

Any set of intents and quantities, any number of crashes and faults. Four layers, each inductive with the ones before it:

1. `TypeOK` and `SendInv` (`TypeCorrect`, `SendSafety`, `AtMostOnce`: `SubmittedAtMostOnce`). That the engine may send `i`
   does not say it never did. `SendInv` adds that an intent which is ABSENT or PLANNED was not sent, that the queue of a
   phase holds only unsent intents, that the phase which plans finds its side absent, and that the status left PLANNED before
   the call. The last three carry the argument through a crash: a restart forgets the queue, and the database alone decides
   what may be queued again.
2. `OutcomeInv` (`ConfirmedOutcomes`: `OutcomeIsConfirmed`; `TruthfulOrders`: `SavedOrderIsTruthful`). A report may come late,
   twice or out of order, so the argument is about the past: a query result, a report and a booked trade are each
   about an earlier state of the broker's order and fall short of it at most (`SnapshotInv`, `LedgerInv`), a final status at the
   broker stays (`BrokerInv`), a rejected intent never gets an order (`RejectedInv`). `BoundIsTruthful` is the merge itself.
   `ImplementsPromise` (`KeepsPromise`) is the refinement: the initial states are those of `OrderPromise`, and
   every step is, for each intent, a step of it or a stutter. It rests on the step form of this layer,
   that what the broker and the ledger know of an intent only grows (`Grows`).
3. `PhasesInv` (`SellsFirst`: `SellsCloseBeforeBuys`; `CompleteEod`: `EodIsComplete`; `ResolvedSuccess`: `SuccessIsResolved`).
   What the engine may rely on at each statement while callbacks go on: which job a session is in (`JobInv`), that from the end
   of the startup reconciliation no submission but the present one is in doubt (`ResolvedInv`), that a reconciliation with no
   submission under way has missed no order and booked every trade it was shown (`AfterInv`), and that the sells
   are closed from the wait on (`PhaseInv`).
4. `CashInv` (`BuysFunded`: `BuysNeedCashUntilRestart`, an action property). Until a crash there is one rebalance session, so a buy is
   submitted by the phase that planned it on a ledger that was not overdrawn.

### The ledger (`StrategyLedgerProofs`, `Sums`)

Any finite set of orders over any days, symbols, rules, lots, prices and fee. That `Orders` is finite is assumed (a
day has finitely many intents); without it the sums mean nothing. Layers again:

* `LedgerIsSound`: `LedgerInv`, that is `TypeOK` and `BucketsPartition`. Sold lots come from the sellable bucket, bought ones enter that of their rule,
  settlement empties today's.
* `FlowInv`: fills are within lots and limit and all booked when an outcome is recorded (`OrdersInv`); no trade of the day is missing while
  the engine plans or takes its snapshot (`QuietInv`), so what it has read is still what the ledger says (`ReadInv`); a day with a
  snapshot is over (`ClosedInv`). The reads are separate transactions with the callback thread in between: this is why they agree.
* `CountInv` (`LedgerCounts`: `LedgerIsTheTrades`): cash and lots are the opening ones plus the sum of the booked trades.
* `SnapInv` (`SnapshotsAreConsistent`: `SnapshotIsConsistent`): the snapshot of a day is the sum of the trades through that day.
* `ReserveInv` (`TradesCanBeBooked`: `EveryTradeBookable`): the lots still to be sold by live orders are sellable. The property alone, about fills
  not yet booked, is not inductive: the next fill uses a lot that was reserved.
* `TodayInv` and `PastInv` (`AccountNeverShort`: `NeverShort`): what a T+1 position bought today is in today's bucket, and no day before was
  short even when its last trades never reached the ledger.
* `CoverInv` (`NothingOversold`: `NothingIsOversold`): the cash covers what every live buy may still need at its limit, but for one fee for every
  booked fill beyond the first. This theorem has a hypothesis, `FeesBelowPrices`: a sale brings in its minimum
  commission at least. The proof needed it, and TLC confirms that it is needed: with a fee of 3, lots at 1 or 2 and two lots
  to sell it finds a sale that costs more than it brings in and takes the cash a buy had reserved. The minimum commission is a
  few yuan and a lot of an ETF is some tens of yuan at least, so the hypothesis is about odd lots and partial fills of a few shares,
  for which `strategy_reservations` reserves nothing.

The sums of the model are folds of the community modules. `Sums` defines `Total` as the value of such a fold, shows that it exists and does
not depend on the order in which elements are taken, and how it behaves under unions, restrictions, scaling and a change of one term.
Where a proof needs an induction over finite sets it takes a smallest counterexample (`LeastNumber`, `SmallestSet`), since the
library's induction theorems take an operator that no installed prover can instantiate. For the same reason each sum of the model has a lemma of
its own that says its fold is a `Total`.

### Processes and jobs (`JobRunsProofs`)

Any set of processes and any number of crashes. `TypeCorrect` (`TypeOK`) is not obvious, since finishing a job takes back the RUNNING row its
process wrote and a count could fall below zero: `RowsCover` says that there are at least as many such rows as processes executing the
job (a crash leaves its row behind). `OneTerminalRun` (`CompletedOnce`), `OneSubmission` (`SentOnce`) and `LockedTrades` (`TradesUnderLock`) follow from
`SafeInv`: the process that is on holds the account lock, a job is executed when no earlier run is terminal, an order that left is no longer
PLANNED. All of it is under the condition `losses = 0`, and must be: the run `lostlock` shows the submission that a lost lock connection repeats.

### Sessions, alarms and transactions (`ThreadsProofs`)

`SessionsSafe` (`SessionInv`), for any sessions, callbacks and interrupts. `AlarmedInv` follows an alarm from the SDK through the queue and the consumer's
three assignments to the engine's flag: a disconnection to be reported is a real one (`ReportInv`, `ExpectInv`), an alarm raised after the session's flag was
cleared keeps that flag (`AlarmInv`), at most one order leaves under an alarm and the check after it finds it (`OrderInv`), and a started trader
is the one the gateway will stop (`TraderInv`).

`LocksSafe` (`LocksInv`), for any number of transactions, any orders and any finite set of trades. `TransactionsInv` says of each connection which
transaction it is in, which requests are left of it and what it may hold by then (`Fine`, a stage for each kind of transaction), and of
the lock table that exclusive locks exclude (`Exclusive`) and that a locked row is there or is being inserted by its locker (`Backed`).

* The cash: a transaction that inserted trades holds the strategy row, and the cash it will write is the committed cash plus the worth of
  its own trades (`Settled`), which nobody else has booked meanwhile: the duplicate check and the read of the cash come after that lock
  (`BookStage`). A commit then adds both at once, a rollback neither.
* The deadlocks: the second connection asks for the account alone and holds nothing while it waits, so a cycle is one of the engine and the consumer.
  Orders are locked before their intents and the strategy before trades, positions and account (`Keeps`); so two that wait for each other's
  orders both insert, and a booking is only caught by the jobs that take the account before the strategy, when the trade pauses the account
  after everything else. Nothing of this depends on the order of the broker's answers.

### Rules and market data (`MarketDataProofs`)

`RulesComplete` (`RulesInv`), for any resource, lives and categories: sorted periods without gap or overlap, one rule on every date of a life, never refused by the
resolver's own check. `WalkInv` is the loop invariant of the cursor: exceptions behind it end before it or begin after the life, those ahead begin at it or
later, and every date before it has exactly one rule. The proof found that `ResourceAssumption` must exclude a period that ends on the
last date there is: the code adds a day to its end (`effective_rules.py:628`).

`NothingAhead` (`NoLookAhead`) and `SlicesSafe` (`SlicesInv`), for any calendar, master, tables, ranges and horizon. The properties compare what
two callers were shown on different days over tables of different length, and none of them is inductive. `DataInv` says of each context alone that its bars are
`HistoryOf` its securities, its date and its first loaded day: a function of the complete tables in which `today` does not
occur. Two contexts of a date then agree on what both have loaded. What makes it a function is that a carried price is taken only over a gap whose
next open day has come (`Sound`), and that the end of a life which the loader invents for a delisted security without a date is no earlier than the
quote after such a gap. A refusal is traced to a gap, a life or a calendar (`Caused`), never to the portal or the resolver that look at
the same rows again. Two errors of the model came out in the proof: a range without an open day is refused by
the portal, a reason the model had not told apart ("no open day"), and the first reason of several must be an IF chain, since the arms of
a CASE have no order.

`FundsSafe` (`FundsInv`), for any file, tables, windows and days, under the condition `Replaceable = FALSE`: nobody replaces the holders' file between the
reading that is hashed and the one that is parsed. The condition is needed, since the code does not look at the digest again. `FundInv` says of each
portal that it is its range of the complete tables and the ratios of the file it names (`Portal`), and of each context that it is the selection of
some such portal (`SelectedFrom`), even when a restart has since dropped that portal; the properties, which compare two contexts or two
selections of one, follow.

* The newest period among the holders' latest rows is the newest of all rows before the date (`NewestPeriod`): the holder of the newest row has its latest
  there. So the context and the combined ratio, which select in different ways, agree.
* A sum over the rows of a holder and period is a `Total` of `Sums`, so it is no less than any two of its rows (`RatioCounts`).
* Two index histories agree on what both loaded (`SelectionsAgree`), because the quotes counted from a day are later than it and both
  loaded those.

### Decisions and plans (`DecisionProofs`)

`StoreSafe` (`StoreInv`) and `StoreKeeps` (`StoredIsKept`, an action property), for any finite universe, any outputs a target portfolio accepts, any trading
days, prices, crashes and revisions. That a refused retry has a cause is not about one state: `DecisionInv` adds that, while no data was revised,
the row of a day and the result that a retry holds are the same function of that day's answer (`StatusOf`, `Answer`), so a
difference can only be a weight that lost digits in its column. That a stored target can be read back needs that rounding each weight to
a multiple of the column's step keeps the sum within one when no weight lost digits; the sum itself is a `Total` of `Sums`. A
plan is made once, because the freeze looks for the rows of its own signal.

`PlansSafe` (`PlansInv`) and `PlansPaid` (`PlansArePaidFor`, an action property), for any finite universe, details and ticks, targets, accounts,
lots, commissions and limits, and any number of days. The parts of the invariant need each other: that no position passes its goal
(`NeverPastTarget`) needs that a phase plans once and buys only when the sells are closed (`TurnInv`), that an order is never filled
beyond its quantity (`IntentInv`), and that the lots open for sale are free and held (`HoldingInv`), which the first plan of a day keeps because it frees
what is held. All are about four sums over the intents: lots open on each side, reserved cash, a day's notional.

* Every step but a plan replaces intents by others of the same order that count for no more (`Succeeds`, `ReplacedSums`). A fill moves lots from
  the open ones to the position, so what the two make together stays.
* A plan adds one order for each security, nothing of this side being planned today, so each sum grows by the sum along the securities
  (`PlanAdds`, `TotalAlong`). That the purchases together are within the cash, and the approved orders within the day's notional, is a loop
  invariant of two recursions over the sorted securities. Without an induction theorem, `Accumulates` shows that such a recursion
  has a solution, and `Sweep` that what passes from each security to the next holds of all, both by the least security that would fail.
* A limit price is a multiple of the tick inside the day's limits and meets the other side unless the limit forbids it (`LimitType`), by
  the bounds of an integer quotient.

The assumptions are what the configuration's validation and the column types give: positive lots and units, target weights between zero and
one, opening accounts with no negative cash or position.

### The record of a run, its model and its days (`ResearchProofs`)

`RunsAreRecorded` (`RunInv`), for any number of processes, run ids, edits and faults. A directory being staged is incomplete at every moment but the
last: the proof says what each stage has written so far, with `run.json` last (`StagedInv`), that a name once published belongs to the run
that renamed to it (`OwnedInv`), which another run with the same id cannot take, and at each point of the code what is left to delete (`CleanInv`), as
long as no deletion failed.

`TrainingSafe` (`TrainingInv`), for any losses, ranges, lives, sources and any number of runs, edits and starts. `LossesInv` is the loop invariant of both
back ends: `stale` is the number of epochs since `best`, and no epoch so far beats the best by more than `min_delta`, unless the first loss of
XGBoost was not a number, in which case nothing improves on it and the run is refused at its end. A bundle is made of what the loop leaves (`Sound`). That a sample's
features are those the strategy is shown (`SamplesAgree`) rests on the rows of a security being an interval of days. That a prediction
is of features as trained rests on `Compatible`: the session keeps the `model.py` it was started with, whatever is edited afterwards, and the bundle names the same one.

`FillsSafe` (`FillsInv`), `SizesFollow` (`SizesFollowTheTarget`) and `MarketIsPaid` (`TradingNeverPays`, an action property), for any finite set of
securities, bars, targets, prices and fees and any number of days. The properties look at a day when it closes; `DayInv` says what ties its three passes:

* An order fits the gap to its target to less than a lot, on its own side (`Fits`), so `Order` never refuses it: the side comes from whole lots
  and the gap from values, and the proof is that rounding down keeps their signs together.
* The verdicts given so far are those of the first orders by approval (`ApprovalsInv`), and the fills are applied in another order. `CashInv` ties the two:
  what is projected is the cash plus the worth of the fills to come, and along the sales to come the cash stays above zero. The second part is needed because
  a sale may cost more than it brings in when the minimum commission is larger; it is then approved only if the cash covers it, and the sales that
  are filled before it are those approved before it. Purchases only take, so the last of them finds the cash that is projected for the end of the day, or more.
* A purchase that was cut for cash left less than one more lot of it would have cost (`CutsInv`). The purchases approved after it took their money from
  that remainder, so what they took and what is left at the close are still less. That the search ends at a payable number whose successor is not
  payable, whatever numbers are payable as long as zero is, is `BisectEnds`, by a smallest counterexample on the length of the interval: cost need
  not be monotone for it.
* A day that raises does so before its first fill (`RaisesForData`). Orders are made only when every holding and every named ETF has a bar, and only named ones are
  bought, so a day with orders can be valued at its close (`HeldInv`); the orders themselves are consistent by the first point, and once quoted the approval
  never projects less than zero and the account never lacks what was projected, by the second.
* `FrameAssumption` says of the bars only what portal and loader check: explicit limits are finite in number and have the close between them. `ListingAssumption`: some ETF lives on every day.

`CapsHold` (`HuijinInv`), for any finite set of ETFs, any markets, prices, caps and delays and any number of days. A decision is bounded when it is made
and the bounds are read when it is executed, so `RuleInv` keeps that what waits for execution is the decision of the day the state is in. What
a purchase or a reduction adds up to is in `PurchaseSums` and `ReductionSums`: the targets share one denominator, so the total of the weights is a
total of products, of which a sum over all ETFs is the same multiple. The gaps are divided in proportion to what is lacking, so no ETF is
raised past its own and the total rises by the capacity of the day or by all gaps, whichever is less. `RuleInv` carries `ReductionsAddUp` through the
whole day although the property speaks of the closes: a row of reductions is counted only when nothing but executed reductions came between, at the prices
of the decision. `ReductionArrives` is the step that counts one: rounding each ETF's shares down leaves a value no greater than the weight
asked for, hence a total no greater than the floor of that day, one daily cap below the last or at the base position.

### What stays with TLC

* Liveness under fairness, which is out of the prover's reach.
* `NoLotForgotten`: it compares the fee reserved for an order with the fees of its fills, which are rounded one by one. A fill in two parts whose
  fees are both rounded down leaves cash that the plan did not have, so it is false for some commissions: with 4.5 %,
  no minimum and lots of one TLC finds 33 in cash, two lots bought at 11 in two fills, and a third that is paid for. TLC checks it with the fees of the instance.
* `AllocationInv`, the invariants of `ModelAllocation`. They rest on sums along a ranking with a rounding at every step, by a fold over data, and are not true of
  all constants: the code checks the budget on a sum rounded to fewer digits than its quotients have, so with enough securities what
  passes the check may be over the budget by the last digit. TLC checks them with the instance's securities, scores and policies.

## 5. The plan

A next step would take up identity mismatches and orders of other programs in the reconciliation, and the account's position snapshot.

### Not modelled

* SQL text, schema creation, connection pools, the vendor's SDK: modelled from how the code uses them, as external definitions.
* The learning itself, scaling, metrics and plots: floating-point arithmetic whose result no property here could tell apart.
* File formats (parquet, csv, json, the bundle's container) and the wording of errors and logs.
* Validation of configuration fields, and the command lines: single-step checks that tests cover.
* `beginner_example`: a few lines of user code without state.
