# Verification of lazytrade

lazytrade is a trading agent: strategies turn market data into signals, a risk
gate allows or rejects them, allowed signals become orders on an exchange
(T-Invest), and the fills come back into positions and profit. Everything that
must survive a crash is in one SQLite database. This directory holds TLA+
models of that program, the TLC runs that check them and the theorems TLAPS
proves about them. Paths below are relative to `src/`.

## 1. Inventory

| part | code | state it keeps | operations | what is hard | what makes it correct |
|---|---|---|---|---|---|
| order submission | `internal/agent/{runtime,startup,market_loop,signal_pipeline,order_submission,lifecycle}.go`, `internal/storage/sqlite/execution.go` | tables signals, risk_decisions, order_intents, exchange_orders, strategy_lifecycle; in memory: failed strategies, pending observers | Run, startup, market loop, submitIntent, isolation | crash around the API call, lost and late answers, failed writes, one strategy failing among several | at most one order per signal; what is concluded is true and final; trading never resumes over an open question |
| strategy worker | `internal/strategy/{worker,durable}.go`, `internal/storage/sqlite/strategy.go` | strategy state, revision, last event cursor, outbox of signals | Process, Load, Commit | redelivery, commit with lost acknowledgement, cursor precision | every event is applied at most once and in order; signals are emitted with the state that caused them |
| execution ingress | `internal/agent/execution_ingress.go`, `execution_attribution.go`, `internal/storage/sqlite/{inbox,fill,execution_owner}.go` | inbox, executions, positions, daily statistics | pump, history, stage, drain | two producers, duplicates, order of application, crash between staging and applying | every fill is applied exactly once; the position is the sum of the fills |
| commission ledger | `internal/storage/sqlite/commission.go` | cumulative commission per order, charged commission per day | apply cumulative, synchronize with a fill | the same charge seen from stream and history | orders and days hold the same amount, and no more than was charged |
| history checkpoint | `internal/storage/sqlite/history_checkpoint.go`, `internal/exchange/tinvest/history.go` | watermark per account and source | load, advance | crash before advancing, visibility delay | monotonic; nothing below it is missing |
| reconciliation | `internal/agent/reconcile.go` | none | compare positions and open orders | snapshot against a moving exchange | agreement before trading |
| risk gate | `internal/agent/risk.go`, `internal/risk/` | status, mark price, clock (memory) | ObserveMarket, Evaluate | stale price or position, restart of a paused gate, day boundary | no order is allowed beyond a limit; a pause ends trading |
| statistics | `internal/statistics/` | none (reducer) | Apply | average price, partial closes | realised P&L agrees with the fills |
| market data stream | `internal/exchange/tinvest/marketdata.go`, `internal/agent/market_loop.go` | two channels, a goroutine | subscribe, receive, select, close | end, cancellation and events at the same time; full channel; sequence numbers that restart | events in order; the cause of the end is reported; everything is released |
| agent lock and migrations | `internal/storage/sqlite/{lock,migrate,store}.go`, `internal/cli/agent.go` | flock on a file beside the database, schema_migrations | Open, Migrate, Acquire, Release, Close | several processes, crash of the owner, migrating before the lock is held | at most one agent per database, on the schema of its binary |
| T-Invest adapter | `internal/exchange/tinvest/` | instrument cache, stream goroutines | place, look up, cancel, subscribe, history | error classification, retries, stream end | an error is "not applied" only if it is |
| backtest | `internal/backtest/` | simulated orders and cash, the books of risk and report | event loop, broker, managed risk, report | three books over the same fills, look-ahead, gaps | the books agree; a fill uses no information of its own past; a loss pauses in time |
| backtest runs and datasets | `internal/app/`, `internal/storage/sqlite/backtest.go` | rows of runs and artifacts, output directory, dataset and manifest | prepare, run, publish, finish, download | two processes, one directory; cancellation and failed steps; a download meanwhile | an outcome is final; artifacts are complete and belong to their run |
| smoke test | `internal/cli/account_smoke.go` | none | place, observe, cancel once, confirm | timeouts with unknown outcome | what it reports of the account is true |
| strategies | `internal/strategy/{movingaverage,periodicinvestment}/` | window of prices, last period | OnEvent | boundary of window and period | one signal per crossing or period |
| fake exchange, CLI, configuration, logging, domain values, clock | `internal/exchange/fake`, `internal/cli`, `internal/config`, `internal/logging`, `internal/domain`, `internal/clock` | -- | -- | -- | not protocols; see `PROJECT.json` |

How they interact. `Runtime.Run` is one goroutine: it runs startup, then a
`select` loop over the market stream, the execution notifications and the
stream errors. A second goroutine (the execution pump) stages fills in the
inbox and shares one mutex with history recovery and the drain; a third one
receives market data and owns the channels the loop reads. Everything else is a
call. The agent and the exchange interact through `PlaceOrder`,
`GetOrderByClientID`, the portfolio and open-order snapshots, and two streams.
The risk gate reads what the drain wrote (positions, daily statistics); the
worker writes the outbox the submission path reads. Other processes meet the
agent in the database file only: a second agent, which the lock turns away, and
backtests, which migrate and write rows of their own without it.

What has to be true of each part, and where it can go wrong, is listed line by
line under `hazards` in `PROJECT.json`.

## 2. How the project is split

One module per component; a component that others share is a module they
extend or instantiate.

| modules | models | builds on |
|---|---|---|
| `OrderSubmission`, `OrderSubmissionProofs`, `MCOrderSubmission` | order submission, startup, isolation | implements `OrderOnce` |
| `StrategyWorker`, `StrategyWorkerProofs`, `MCStrategyWorker` | strategy worker and state port | -- |
| `ExecutionInbox`, `ExecutionInboxProofs`, `MCExecutionInbox` | pump, history window, staging, drain, positions, checkpoint, reconciliation | implements `ExecutionLedger` |
| `CommissionLedger`, `DailyStatisticsProofs`, `MCCommissionLedger` | cumulative commission from the stream and from history | -- |
| `Statistics`, `RiskLimits` | the pure parts: profit and loss of a book, the limits | shared by the next two |
| `RiskGate`, `DailyStatisticsProofs`, `MCRiskGate` | the agent's risk gate over stored positions and daily statistics | `RiskLimits` |
| `Backtest`, `BacktestProofs`, `MCBacktest` | the event loop of a backtest, its broker, managed risk and report | `RiskLimits` |
| `BacktestRun`, `BacktestProofs`, `MCBacktestRun` | backtest processes around one database and one dataset | -- |
| `MarketStream`, `MarketStreamProofs`, `MCMarketStream` | the receiving goroutine, its channels and the market loop | -- |
| `AgentLock`, `CommandProofs`, `MCAgentLock` | opening, migrating, locking and closing one database | -- |
| `SmokeTest`, `CommandProofs`, `MCSmokeTest` | the account smoke test | -- |
| `FiniteSums` | nothing of the code: the laws of sums over finite sets of trades, orders or days | used by `ExecutionInboxProofs`, `DailyStatisticsProofs` and `BacktestProofs` |

Three modules of proofs are about two components each: `DailyStatisticsProofs`
about the two writers of `daily_statistics`, `CommandProofs` about the two
commands of `internal/cli`, `BacktestProofs` about one run and the processes
around it. Because they extend both specifications, those do not share names:
the formulas of `CommissionLedger`, `SmokeTest` and `Backtest` are `LedgerSpec`,
`LedgerTypeOK`, `SmokeSpec`, `SmokeTypeOK`, `LoopSpec`, `LoopTypeOK` and so on,
and what is no content of a file is `Nothing` in `BacktestRun`.

Components meet at these places. `ExecutionInbox` has the part of submission
that matters to fills (the intent before the call, the order row after it, the
ready intents submitted between the two reconciliations), and `OrderSubmission`
has ingress as a step that succeeds or ends the run. `MarketStream` has the
cursor of the worker, because what it shows is that no candle is refused;
`OrderSubmission` has the worker's outcome (signals or an error) and what a
crash after it leaves, relying on what `StrategyWorker` shows: the outbox agrees
with the state. `RiskGate` works on positions and daily statistics that
`ExecutionInbox` and `CommissionLedger` show to be right. `BacktestRun` takes an
execution of `Backtest` as a function of its dataset.

## 3. What is modelled

### OrderOnce: the promise

One signal is decided once, only an allowed signal becomes an order, it becomes
at most one, and the verdict the agent writes down is final and true. Three
variables: the decision, the number of orders the exchange executed, the
verdict.

### OrderSubmission: the agent

| variables | in the code |
|---|---|
| `decision`, `intent`, `lifecycle` | rows of `signals` with `risk_decisions`, `order_intents`, `strategy_lifecycle`; survive a crash |
| `requests`, `orders` | the exchange: requests on the wire, executed orders |
| `pc`, `queue`, `outcome` | where `Runtime.Run` is, the signals `Process` returned, how the run ends |
| `current`, `stage`, `reply` | the call of `submitIntent` in progress |
| `event`, `observed`, `recovered`, `failed` | locals of `runMarketLoop`: the event at hand, `pendingObservers`, `signalsRecovered`, `failedStrategies` |

Actions follow the code in order: `Start`, `RepairSignal`, `EnterReconciling`
(`runtime.go`, `lifecycle.go`); `ResolveFound`, `ResolveInconclusive`,
`ResolveDone`, `IngressDone`, `SubmitReadyDone`, `EnterRunning` (`startup.go`);
`ObserveMarket`, `ObserveFails`, `RecoverDone`, `WorkerCommits`, `WorkerFails`,
`SignalsDone`, `RejectSignal`, `AllowSignal` (`market_loop.go`,
`signal_pipeline.go`); `BeginSubmission`, `PlaceOrder` and the six ways a call
ends (`order_submission.go`); `TerminalizeSignal`, `FinishIsolation`
(`lifecycle.go`). `Crash` may happen between any two transactions, `Cancel`,
`PlainError` and `BlockingError` are the error returns; `WriteTerminal` is the
deferred terminal write, which may fail for any strategy.

The exchange is external and as unkind as the code has to expect: a request may
be executed after its caller has given up or died, its answer may be lost, a
lookup may miss an order that exists, and it does **not** deduplicate client
order IDs. At most one order is therefore the agent's own achievement.

Abstractions. Execution stream, history, drain and reconciliation succeed
(`IngressDone`) or end the run (`BlockingError`, `PlainError`). The risk
decision is either one. A strategy emits any set of fresh signals. Every risk
gate the agent builds observes the market, so the startup path for gates that do
not (startup.go:104) is not taken. There is one strategy per instrument, as the
table `strategy_instances` enforces. Events of an isolated strategy change
nothing and are not enumerated.

### StrategyWorker: from an event to state and signals

| variables | in the code |
|---|---|
| `seen`, `cursor`, `revision` | the row of `strategy_states`: its state as the sequence of events it was made of, the stored cursor, the revision |
| `outbox` | rows of `signals`, one per event that signalled |
| `job`, `next` | the event `Worker.Process` works on and the state `OnEvent` computed |
| `base` | `DurableStatePort.revisions` of a port |
| `acked` | events `Process` returned without an error for |

`Load`, `Refuse`, `Abandon` are `Process` up to the commit, with what the port
loads: a refused event has moved the port's revision too, and one with the stored
cursor is acknowledged without signals. `Commit`, `CommitUnobserved` (the transaction is committed but the caller
gets an error or dies) and `CommitRepeated` (revision moved on, same cursor and
checksum) are `Commit` and `CommitEvent`. A cursor keeps a time and one number
for priority and sequence. `Micros` is what a time becomes in the database;
`Digest` is the checksum of a state, which need not tell two histories apart;
`Emits` is any deterministic strategy, one signal per event. Any event may be
delivered to any worker at any time, again and out of order. Workers may share a
port (`PortOf`); the agent builds one port per worker (`internal/cli/agent.go:155`).

### ExecutionLedger and ExecutionInbox: from a trade to a position

`ExecutionLedger` is the promise: a trade the exchange executed is applied once,
and nothing else is ever applied.

| variables of `ExecutionInbox` | in the code |
|---|---|
| `now`, `executedAt`, `accepted`, `listed` | the exchange: its clock, executed trades, known orders, trades its operation history shows already |
| `connected`, `stream` | the execution stream of this run |
| `intent`, `filled`, `inbox`, `receivedAt`, `position`, `checkpoint` | tables order_intents with exchange_orders, execution_inbox, positions, the history checkpoint |
| `pump`, `hand`, `lastReceived`, `notified` | the pump goroutine, its reception clock, the notification channel of one element |
| `pc`, `recoveryTo`, `toRead`, `recovered`, `unstaged` | the main goroutine and its history scan |

Startup is in the order of `startup.go`: resolve intents, subscribe, open the
window, read the orders it names, stage, drain, apply the commissions it read,
drain again, compare positions and orders, advance the checkpoint, submit ready
intents, compare again, loop. The pump runs from `Subscribe` on. The mutex is
held from the first to the last row of a drain and free between the two drains. `Crash` and `CallFails` may hit every step, `LoseConnection`
every moment. A trade reaches the stream of the connection open when it is
executed, or none, and the history up to `Lag` ticks later; `LagAssumption` says
that overlap and visibility delay outlast that lag, as their documentation
intends.

Two things the model shows about the code. Reconciliation compares what was
read, not what was executed: a round trip whose two fills are both missed and
still unlisted passes it, because the positions agree; the next window finds
both. And rows of the history are dated with the end of the window, so a sell
can be stored before the buy it closes; the drain then fails on it at every
start until someone intervenes. This is why the liveness run has buys only.

### CommissionLedger: what an order costs

`share` is the commission a fill of the stream carries (the order's cumulative
amount split by quantity, rounded half up), `snapshot` what a history scan read,
`cumulative` the row of `order_commissions`, `daily` what the trading days were
charged. `SynchronizeExecution` advances the amount to the sum of the shares when it
exceeds it; `ApplyCumulative` to what the scan read, `RefuseCumulative` when it
is lower. The instances start with trades of a database older than the table.

A share that the stream splits off while prices differ can exceed what the
exchange charges in the end; the scan then refuses and startup is blocked. After
a scan booked an order whose staged fill carries no share, a later fill's share
is not booked until the next scan: the sum of the shares is still below the
amount.

### Statistics, RiskLimits and RiskGate: may this signal be traded

`Statistics` is the reducer (average, realised and unrealised result of a book),
`RiskLimits` the decisions of `risk.Manager` on a snapshot: pause, reject, allow,
the projected position and the amount the daily limit is compared with.
`RiskGate` puts them between a market event, a signal and the fills. Status and
mark price are memory; positions, averages and daily statistics are rows; `cash`
and `opening` are what the broker did, kept to state the properties.

As in the code: the snapshot lists no open orders, so two orders that wait at
the same time can exceed the position limit together; `DailyPnL` adds the
unrealised result since entry, so a position kept overnight brings the whole of
it into the new day; a `close` is projected to a flat position but sold with the
quantity of its signal (signal_pipeline.go:139); `NewDailySnapshot` and
`ObservePnL` exist but the agent does not use them.

### Backtest: one run

The loop of `runner.go`, step by step: read a row, mark or refuse a gap, let the
broker fill what waits, observe the event in risk and report, give it to the
strategy, evaluate each signal and submit it. `broker`, `book` with `baseline`,
and `report` are the three books over the same executions. Datasets and
strategies are arbitrary: any candle after any step, any signals. An order's id
is a hash, so any free id, and open orders are served in the order of ids:
`Fills(n)` is the broker after the first n of them. `opening` is not in the code:
it is the equity after the fills of a day's first event, kept to state
`LossEndsTrading`, because the baseline is taken after them
(managed_risk.go:55-59).

As in the code: a limit order is filled at its limit with slippage against it
and orders of a paused run stay open and may still be filled (both against the
documents, section 5); the percentage of the drawdown is that of the largest
absolute one.

### BacktestRun: processes around a database

A process copies the dataset, reads the manifest as it is by then, inserts its
row, executes on the copy, writes each artifact to a temporary file that takes
the final name, removes its copy, hashes what is under the final names, and
closes the row together with its artifacts in one transaction. Each of these is
a step that may fail (`used.fault`), be cancelled (the context of the run; the
one of the last transaction lives on) or be the last before the process dies.
Processes share one output directory, and a download replaces the CSV and then
its manifest. A failed run is closed as `cancelled` or `failed`, whichever its
error is. A failing removal of the copy is not modelled, nor the size of an
artifact, which is read after its hash and may be that of a later file.

As in the code: an id that is taken is taken over if the stored start is equal,
which it is for times without nanoseconds (`Exact`), and refused otherwise;
processes that share a directory overwrite each other's artifacts, so a stored
hash may be that of another process's complete file; a second execution with
the same outcome meets the key of the first one's artifacts and its row stays
`running`, as does the row of a process that dies.

### MarketStream: from the broker to the strategy

| variables | in the code |
|---|---|
| `reader`, `rpc`, `sequence`, `offer`, `failure` | the goroutine of `SubscribeMarketData`: where it is, the context of the RPC, the event counter, the event it offers, why `receive` returned |
| `events`, `errors`, `closed` | the buffered channel, the channel of one error, which of them are closed |
| `context`, `loop`, `outcome`, `active` | the run's context, `runMarketLoop`, how it ended, whether the strategy is still active |
| `cursor`, `applied`, `sent` | the worker's row, the candles `OnEvent` saw, the last candle of the broker |
| `received`, `taken`, `run` | what this run received and took, for the properties |

Every `select` is one action per ready case. The goroutine's deferred calls are
separate steps, in their order: report, cancel the RPC, close errors, close
events. An event that is still buffered may be lost when the loop takes the
error first; the durable cursor and the next start make up for it
(docs/architecture/trading-runtime.md:166-172). The broker is external: it may
stop, fail or skip candles, but does not send a closed candle again.

### AgentLock: one database, one agent

`ledger` and `schema` are the migrations recorded and executed, `inode` and
`holder` the lock files and their owners, `pc`, `seen` and `file` the
processes. A version is migrated in one transaction guarded by its primary key;
a conflict ends the process, and so does a database that another one keeps busy
for longer than the busy timeout (`DatabaseBusy`). `LockPath[p]` is the name `p` derives from its
database path, `Version[p]` the schema its binary knows. Two agents that name
one file differently (a symbolic link to the file, which the path of the lock
does not resolve) would lock different files, and a newer binary may migrate
under a running older one; the run has one name and one version.

### SmokeTest: buy, sell, clean up

`order` and `view` are the account's orders and what `GetOrder` shows of them,
which lags. `RunSandboxSmokeTest` is the round trip, `CleanupSmokePosition` what
follows any failure after the buy was sent. Every wait ends at its deadline
(`Fail`, `CleanupFails`). `Resting` says which orders need not fill at once,
`Unreliable` that `GetOrder` may fail. The cleanup does not look at the sell of
the round trip: if that one is still open, a clean report says less and the
cleanup may sell twice. `CleanReportIsFlat` and `NothingIsDoneTwice` state what
holds without that case.

## 4. What the runs check

| run | instance | properties |
|---|---|---|
| `order_safety` | 2 strategies, 3 signals, `LiveSpec` | `AtMostOneOrder`, `ReadyNeverCrossedTheAPI`, `ConclusionsAreTrue`, `OneOpenIntent`, `NothingOpenWhileTrading`, `IsolatedStrategySendsNothing`, the refinement of `OrderOnce` (`ImplementsPromise`), and `ExecutedOrderIsRecorded` (liveness) |
| `strategy_safety` | 2 workers with own ports, 4 events, exact times | `AppliedOnceInOrder`, `OutboxMatchesState`, `AcknowledgedIsApplied`, `NoLostUpdate` |
| `inbox_safety` | a buy and the sell that closes it, 5 ticks, 2 faults | the refinement of `ExecutionLedger` (`KeepsTheLedger`), `NoExecutionIsForgotten`, `TradingOnTheTruePosition`, `CheckpointFollowsTheScan` |
| `inbox_liveness` | a buy in two trades, 4 ticks, 1 fault, `LiveSpec` | `EveryExecutionIsApplied` |
| `commission_safety` | 2 orders of 2 trades, 2 days, 2 restarts | `BooksAgree`, `BookedAsCharged`, `AmountIsReported` |
| `risk_safety` | 2 days, 2 prices, a fee, 4 fills, 2 orders at a time, 1 restart | `ProfitIsMoney`, `PauseEndsTrading`, `NoOrderBeyondTheLimits` |
| `risk_restart` | 1 order at a time, no fee | finding 1 |
| `backtest_safety` | 3 rows, up to 3 days, 4 kinds of candles, 5 drafts, 2 signals an event, 2 orders | `LedgersAgree`, `TouchedMeansFilled`, `LossEndsTrading` |
| `backtestrun_safety` | 2 processes, 2 runs, 1 download, 1 fault, 1 crash, 1 cancellation | `ArtifactsWithTheirRun`, `RunsEndCleanly`, `CompletedOnDescribedData`, `TerminalIsFinal` |
| `smoke_safety` | 2 units, everything rests, unreliable reads, `SmokeLiveSpec` | `CleanReportIsFlat`, `NothingIsDoneTwice`, `Ends` (liveness) |
| `market_safety` | 5 candles, channel of 2, 4 responses a run, 3 runs, `LiveSpec` | `InOrder`, `CauseIsReported`, `EveryCandleTakenIsApplied`, `RunAndStreamEndTogether` (liveness) |
| `lock_safety` | 2 agents and a backtest, 2 migrations, `LiveSpec` | `OneAgent`, `MigratedOnce`, `StartsOrFails` (liveness) |

Each module has a type invariant. In `OrderSubmission` and `StrategyWorker` it is
proved and not run; in every other module it is proved too (section 6); but for the first two it is a conjunct of an invariant of their run
(`MigratedOnce` in `AgentLock`, the first one elsewhere).

### Bounds, and why they are enough

* `order_safety` has no counters to cap: every signal is emitted once, so the
  number of signals bounds everything, while crashes, restarts and refusals are
  unbounded. Two strategies are needed to isolate one while the other trades;
  two signals of one strategy for one to be open while the other waits, and for
  isolation to find a decided and a pending one. No symmetry is declared, as the
  run checks liveness.
* `strategy_safety`: `MaxRevision` is the number of events; the state holds each
  at most once, so it excludes nothing. Four events at two times, two to a time,
  exercise both parts of a cursor; two workers give every interleaving of two
  commits. `MCEmits` is silent on one event and depends on its history, and
  `MCDigest` keeps only the period of the last event, so that different events
  leave equal states, as they do in a strategy that remembers a month.
* `inbox_safety`: a lag of two ticks with an overlap and a delay of one make
  trades that a window misses and the next one must find; five ticks leave room
  for a trade that is missed, a restart and the window that finds it. The trade of the sell has the lower key, so rows of equal
  time come in the wrong order. Two faults are a crash and a lost connection, or
  two crashes.
* `commission_safety`: one order whose price falls between its trades (the share
  may exceed the charge) over two days, and one whose lots cost the same. Any
  set of trades may belong to the older database.
* `risk_safety`: prices 16 and 32 and up to two lots keep averages exact; the
  loss limit of 16 is one lot's fall and is reached, missed and, with the fee,
  exceeded; the position limit of 48 admits one lot at 32 and two at 16.
* `backtest_safety`: prices, fee and slippage are chosen so that amounts are
  whole; candles rise, fall and cast a shadow to a limit, steps follow, leave a
  gap and miss the interval; cash pays one purchase and not always two; the
  loss limit of 104 is what two purchases at the low price cost at once, and is
  missed and exceeded by others. The second row is still in the first day or, after a
  gap, begins the next one with orders that fill there; the third is in the day
  of the second or in a new one. Four rows (18 million states) were checked
  once and showed nothing else.
* `backtestrun_safety`: one process does two runs, the other one of them, in one
  directory; each kind of trouble happens once, at any step.
* `smoke_safety`: two units, so that a buy can be filled in part. Fewer resting
  orders and reliable reads are subsets of its behaviours.
* `market_safety`: the channel of two fills up with four responses; three runs
  restart the sequence twice over one cursor.
* `lock_safety`: two agents compete, a backtest migrates without the lock; files
  are as many as names and two more.

Deadlock is not checked where a run is bounded or the program ends by itself
(`inbox_*`, `commission_safety`, `risk_*`, `backtest_safety`,
`backtestrun_safety`, `smoke_safety`, `market_safety`, which bounds its runs).
It is checked in the others: an agent can always crash or be started, a worker
can always be offered an event.

### Fairness

* `OrderSubmission`: the operator starts the agent again whenever it is down; an
  error return always reaches the deferred terminal write (`runtime.go:133`);
  the call in `submitIntent` ends, because the adapter runs it under a context
  with a timeout (`internal/exchange/tinvest/client.go:94`). Strong fairness is
  assumed of `EnterReconciling`, `RepairSignal` and `ResolveFound`: crashes do
  not hit the same transaction for ever, and a lookup finds an existing order
  sooner or later (each miss ends the run blocked). Nothing is assumed of
  strategies, market or risk gate, and no progress of signals is claimed.
* `ExecutionInbox`: both goroutines go on, the agent is started again after it
  stopped (`Main` contains `Exit` and `Start`), requests that were sent arrive,
  and the history lists a trade within its lag. Faults are bounded by
  `MaxFaults`, so they end.
* `MarketStream`: weak fairness of what the goroutine and the `select` do and of
  the deferred `stop()` of the command; strong fairness of `ReceiveCanceled`
  only, as a cancelled RPC does not deliver for ever. The broker may be silent.
* `AgentLock`: a process that is opening, locking or closing goes on; nothing is
  assumed of how long an agent runs.
* `SmokeTest`: the test itself goes on, because each wait has a deadline;
  nothing is assumed of the account.

## 5. Findings

1. `risk_restart`: `internal/risk/status.go:27` says that resume is the only
   transition from `risk_paused` to `running`. The status is kept in memory, and
   the gate a new process builds is running (`internal/agent/risk.go:43`): a
   restart ends the pause although nobody resumed. The next signal of
   the same day pauses it again if the loss is still at the limit; on the next
   day what was realised the day before no longer counts.

Met while modelling, in the modules and without a run of their own:

* docs/architecture/trading-runtime.md:163 says that a critical ambiguity puts
  the runtime into the blocked state. A submission with an unknown outcome
  returns a plain error, and the strategies are recorded as `failed`; the next
  start rejects their pending signals before it stops (`RecordUnknown`,
  `RepairSignal`).
* Signals left by an earlier run are evaluated once every gate has seen a price
  (market_loop.go:97); one silent instrument holds them back while the other
  strategies trade (`ObserveMarket`).
* A crash inside the isolation of a strategy leaves some signals rejected, the
  rest pending and the durable status unchanged (lifecycle.go:184-190): the
  restart trades the rest (`TerminalizeSignal`, `FinishIsolation`, `Crash`).
* Cursors are stored in microseconds and compared in nanoseconds (mapper.go:21):
  an event with the last committed cursor (worker.go:56 calls it a retry) is
  processed again unless its time is a whole number of microseconds, and a stored
  cursor can move back within its microsecond, against
  docs/specs/storage-contracts.md:189. Candle ends are whole seconds and meet
  neither.
* durable.go:16 says that accidental concurrent use of a port fails instead of
  losing updates. `Commit` uses the revision the port holds, not the one its own
  `Load` read (durable.go:77), so a second worker on the port can have its state
  overwritten. The agent never shares a port.
* docs/specs/implementation-plan.md:747 defines the result of a day as the change
  of equity since the start of the day. The backtest takes the day's baseline
  after it has applied the first event's fills and its close
  (managed_risk.go:41-59): what a gap overnight and the fills at the open cost
  counts for no day. `LossEndsTrading` therefore counts from that event on.
* docs/specs/strategy-backtest-contracts.md:458-463 caps the slipped price of a
  limit order at its limit ("buy fill  = min(Limit, raw fill + slippage)"). The
  simulated broker adds slippage and rounds after it has looked at the limit
  (broker.go:209-218; `Slipped`): in the instance of `backtest_safety` a buy with
  limit 100, touched by a candle that opens at 100, is filled at 150. The document
  calls itself a proposal; the alternative it names, a fill exactly at the limit,
  is not what the code does either. No property speaks of that price.
* The pipeline of docs/specs/strategy-backtest-contracts.md:601 applies pause and
  cancellations before the strategy sees the event, and
  docs/specs/implementation-plan.md:777 (FR-RISK-007) cancels the orders that open
  a position when the limit is reached, if that is safe and supported. The
  backtest only sets the status (runner.go:73, managed_risk.go:89-92;
  `RiskObserve`) and its broker cannot cancel. With a loss limit of 50 in that
  instance: a market purchase at 200 is filled at 250 and pauses the run, while a
  buy with limit 100 goes on waiting and may be filled. The agent cancels nothing
  either, as docs/architecture/trading-runtime.md:189 says.
* A sell of the history can be drained before the buy it closes (fill.go:223) and
  then stays first in the inbox (section 3).

## 6. What is proved

All theorems hold for every value of the constants; TLAPS checks them to the
last leaf.

`OrderSubmissionProofs`: `TypeCorrect`, `OneOrderPerSignal`,
`ReadyIsSafeToSubmit`, `ConclusionsHold`, `OneIntentAtATime`,
`NothingIsOpenWhileTrading`, `IsolationHolds` and `KeepsThePromise` (every step of the agent is a step of `OrderOnce` or a
stutter, and the initial states map). Assumed: `OwnerAssumption`,
`NoneAssumption`. None of the invariants is inductive alone. That there is one
order per signal rests on what an intent row says of the wire (`LedgerInv`: a row
that is `ready`, `rejected` or `not_submitted` has nothing on the wire and no
order, `submitted` has exactly one order, and never more than one request or
order exists); that in turn rests on what the call in progress knows at each
stage (`CallInv`: the compare-and-set to `submitting` comes before the request,
an answer implies what the exchange did). The rest says where in a run an intent
may be open (`FlowInv`), that intents exist exactly for allowed signals
(`DecisionInv`), that an isolated strategy has no pending signal and no call
(`IsolationInv`), and that a run that is stopping has an outcome (`EndInv`).
`IInv` is their conjunction with `TypeOK`; each part has a lemma with one step
per group of actions.

`StrategyWorkerProofs`, for workers with ports of their own (`OwnPorts`):
`TypeCorrect`, `StateAndOutboxAgree`, `NobodyOverwrites`,
`AcknowledgedEventsSurvive` and `EventsAppliedOnceInOrder` (if times
survive storage, `TimesAreExact`). The invariant says that the revision counts
the events of the state and the cursor is that of the last one (`RowInv`), that
no port is ahead of the row (`PortInv`), and that a worker whose revision is
still current holds the current state plus its event, which is newer (`JobInv`).
Order then follows from the transitivity of cursors. What is
acknowledged is applied because the stored cursor is always that of the last
event of the state, and an acknowledgement without a commit compares cursors.
Without `TimesAreExact` order fails, and without `OwnPorts` updates are lost
(section 5). Nothing is assumed of the checksum. What it cannot tell is whether
the event of a repeated commit signalled: a second worker that has seen another
history, but reaches an equal state with the same event, is told that its commit
was made and returns its own signals, stored or not. The agent lock keeps a
second worker away from the database.

`ExecutionInboxProofs`: `TypeCorrect`; `LedgerKept` (every step is a step of
`ExecutionLedger` or a stutter); `NothingForgotten`, `CheckpointIsEarned` and
`TradesOnTruth`. Assumed: `TradeAssumption` (the trades are finite in number and
no hash is shared), `TimeAssumption`, and `LagAssumption`, without which the
first trade listed late enough is lost for good.

* Nothing is forgotten because a window reaches back far enough. `CoverInv`
  says that a trade older than the overlap before the checkpoint is in the
  inbox, and that the history lists what is `Lag` old; `WindowInv` says the same
  of the end of the window in hand, for what is staged or still to be staged;
  `IntentInv` that nothing is submitted before the first checkpoint is set. That a
  window opened on these premises covers what was not staged is the lemma
  `WindowReaches`: this is where the lag meets overlap and delay. `AnnounceInv`
  says that every way to a staged row passes the notification channel.
* The position is true because the two comparisons of startup, at different
  moments, are of different things. Equal open orders leave no room for a trade
  still on its way: its order would be open on the exchange with more filled than
  is stored (`EqualOrdersMeanNoneToCome`, from `FillInv`: what is stored as filled
  and what is on its way fits into the order). Equal positions are about the books.
  `ExactInv` carries the equation from there through the running loop, where each
  execution adds to the stream what it adds to the exchange.

`FiniteSums` has the laws of the sum these equations are made of (`Total`,
`Net`; `SumOf` in `RiskGate`; `SumOfAll` in `CommissionLedger`): a sum moves by
what one member moves by, does not depend on the order of summation
(`SumByGroups`), keeps an order that holds member by member (`SumAtMost`). The sum is a recursive function on sets; a law is proved by taking a
smallest set for which it fails, which the well-foundedness of the numbers
provides without an induction over operators.

`CommandProofs`, for any number of processes: `LockExcludes`, if all derive
the same name of the lock file (`OneName`; two names would be two files and two
locks), and `MigratesOnce`, if in addition all are one
version (`OneVersion`). The invariant of the lock (`LockInv`) says that an open
lock file is the file that has the name, as nothing removes it (`FileInv`), and
that exactly the process between its lock and its release is the holder
(`HolderInv`). That of the schema (`MigrationInv`) says that the migrations done
are a prefix of the binary's, that a process which plans to migrate has seen no
more than there is, and that nobody gets past opening before all are done.

`CommandProofs`, for any quantity and whatever rests, is lost or lags:
`CleanMeansFlat` and `NothingTwice`. `SmokeInv` says of the orders (`OrderInv`)
that no more is filled than was asked for, that a final state which `GetOrder`
shows is the order's state, however late, and that what the cleanup sells fits
into what was bought as long as the test's own sell was not sent; of each call
(`SentInv`), which orders cannot have been sent before it and that the buy's
cancellation was not; and (`SeenInv`), what has been seen when the test gets
there: once the cleanup has read a final state of the buy, nothing it counts can
move the position any more except its own sell, which it goes on from only when
filled. This is why the position read before `verifyOrders` is still the
position when the report is written, two calls later (`PositionStays`). The
exceptions in the properties (`unread`, a sell that was sent) are those of the
code; without them neither holds.

`MarketStreamProofs`, for any capacity of the channel: `TheCauseIsReported`,
`NoEventIsLost` and `NoCandleIsRefused`. That a closed channel is never
reported as the reason depends on the order of the goroutine's deferred calls:
`EndInv` says that once it is past the report, either a reason is buffered, or
the run is cancelled, or the loop is over; that a channel is closed only then;
and that the loop looks for the reason only when there is one. The other two
rest on `StreamInv`: what the loop took and the channel holds is a prefix of what
was received, one event short of it while the goroutine waits to send
(`FlowInv`), and what is not yet taken is newer than the cursor, in the broker's
order (`OrderInv`). That is why the restarting sequence numbers of the stream do
no harm: the time of a candle decides before they are compared.

`BacktestProofs`, for any candles, signals, distances of rows, prices, limits and
numbers of rows, signals and orders: `NoOrderIsMissed`, `BooksAlwaysMatch`,
`LedgersAddUp` and `LossesEndTrading`.

* The event is three folds: of the broker over the orders, of the risk's book and
  of the report over the executions. The library has no theorem about folds, and
  an induction over operators is out of reach; but a fold of a *function* can be
  reasoned about: its recursion has a solution as far as the function is defined
  (`FoldExists`, by taking the shortest part for which it has none), only one
  (`FoldUnique`), and so one more element is one more application (`FoldAppend`).
  Each of the three is the fold of a function on well-typed states
  (`BookFolded`, `ReportFolded`, `FillsFolded`).
* `After(n)` is what holds after n orders: the books of what is filled so far
  agree (`Carried`), an order that still waits is as it was, and of the first n
  it waits because the candle came too early or missed its price
  (`OrdersLeft`). `NextOrder` has one case for each way an order is served.
* `LoopInv` puts the events together. An order has been missed by every candle
  since its signal (`TouchInv`; starts of candles only grow, `CandleInv`); the
  books agree, between the broker and the observation as far as they will agree
  when the fills are booked (`BooksInv`); a running strategy has not reached
  its limit, so that no signal pauses and the pause is counted once
  (`StatusInv`).
* `MoneyInv` says that the broker's cash is what went in plus the realized
  result, less commissions and less what the position cost. A fill keeps this if
  the average it leaves is whole (`BalanceOfAFill`). `LedgersAddUp` and
  `LossesEndTrading` are therefore about the behaviours in which every average is
  (`AveragesWhole`): the model divides whole numbers, the code decimals, and what
  it rounds off is no part of the claim. Every behaviour of `backtest_safety` is
  one of these. `BooksAlwaysMatch` needs no such premise: it is the rest of
  `LedgersAgree`. `LossesEndTrading` is about a limit on the total result
  (`Mode = "total"`): equity says nothing about a limit on the realized one.

`BacktestProofs`, for any number of processes, plans and directories:
`RunsOnDescribedData`, `ArtifactsAndRunAgree`, `EndsAreClean` and
`ClosedRowsStay`. `BacktestRunAssumption` says that what stands for nothing, or
for half a file, is no content of a file. `RunInv` says of each process
(`WorkerInv`) that it holds its copy of the dataset as long as it uses it and at
most the temporary file it is about to rename, that the row it opened is there
and, while it is running, has the revision the process knows (`RowInv`), that a
completed run with a manifest was compared with it (`DescribedInv`), and that
what is written is whole (`OutputInv`); and of the database that artifacts belong
to completed rows and are all there (`StoredInv`). What a step of one process
leaves true of the others is one lemma (`OthersKeep`): rows are only added or
closed, described contents and whole files only become more. A
row that is taken over has two processes that want to close it; the second one
finds it closed, because the status is part of the condition.

`DailyStatisticsProofs`, for any limits, mode, prices and days: `PausedMeansStopped`,
`LimitsAreKept` and `ProfitIsWhatMoved`. Only a decision to allow makes the orders more
(`OnlyAllowPlaces`), such a decision is taken on a running gate, and the position
it values is the one the order leads to (`ProjectedIsTheOutcome`). The latter
holds for buys and sells (`NoClose`): a close is valued at zero and sold with
the quantity of its signal. No strategy of the repository closes; in `risk_safety`, where closes are one
lot, the property holds with them.
`GateInv` says that amounts are numbers and the current day is one of the days.
That profit is money rests on `MoneyInv`: what was realised over all days, less
commissions and less what the position has cost, is the cash; a purchase moves
cost, a sale moves cost and result, and both charge the fee to the day they fall
on. It is proved of the behaviours in which no average leaves a remainder
(`WholeAverages`), as the model divides whole numbers; the code divides decimals,
and what it rounds off is not part of the claim. In `risk_safety` every
behaviour is one of these.

`DailyStatisticsProofs`, for any finite sets of orders, trades and days and any
rates: `DaysAndOrdersAgree`, `NoMoreThanCharged` and `AmountsAreReported`
(`LedgerAssumption`: a trade has one order and one day, and costs no less than
nothing). Every step that moves an amount moves one order and one day by the
same, and that is never negative (`Books`, from `SynchronizeBooks` and
`CumulativeBooks`); the other steps leave all amounts alone. The row an order of
an older database gets starts with what its applied fills were booked with
(`Current`), which is also why the two sums agree at the start: both group the
applied trades, by order or by day. That a scan's amount is booked
on a day at all needs `ScanInv`: an order whose commission is still to be
applied has a fill in the window. `ScanInv` also carries what the scan read
until it is booked. `RateInv` is what bounds an amount: a share of an order with
one rate is that rate (rounding a whole number does nothing, `ShareNow`), so the sum
of the shares of applied trades is at most the charge for the executed ones. With
several rates it does not hold (section 3).

Only model-checked:

* liveness (`ExecutedOrderIsRecorded`, `EveryExecutionIsApplied`, `Ends`,
  `RunAndStreamEndTogether`, `StartsOrFails`), which under fairness is out of the
  prover's reach.

Every other property a passing run checks is stated by a theorem.

## 7. What is not modelled

* The built-in strategies: pure functions from a state and a candle, without
  concurrency or I/O; worker, gate and backtest are modelled for any strategy.
* The command line, configuration and logging; parsing of datasets; decimal
  arithmetic as such; protobuf mapping; time zones of the trading day.
* The bounded retry of reads (`internal/exchange/tinvest/retry.go`): one call to
  its callers, whose result is all they see. The paging of the operation history
  and of the download are one read each; the checks of `data_validate.go` are
  left out.
* The fake exchange, a test double, and the state port in memory.
* Inside the modelled parts: audit rows, strategy registration, funding of the
  daily statistics (nothing writes it), SQLite's busy timeout (a transaction is
  a step, whenever it is; only opening a busy database is in `AgentLock`), what
  the pump may still stage after `Run` has returned, and inputs the adapters
  reject before any state is touched.
