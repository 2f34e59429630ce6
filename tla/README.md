# Formal model of Chansey's trading core

Chansey validates trading strategies and trades with them. A strategy passes
through a *pipeline* of four stages (optimization, historical backtest, live
replay, paper trading) that ends with a recommendation; a deployed one is
executed by two live-trading paths that place orders and guard them with exit
orders. Everything is driven by BullMQ workers, cron jobs, in-process events and
REST calls that share rows in Postgres and keys in Redis, mostly without locks.
This directory models that core in TLA+, checks it with TLC and proves the main
safety properties of every modelled part with TLAPS.

All paths below are relative to `src/apps/api/src/`.

## 1. Inventory

| Part | State | Operations | Talks to |
| --- | --- | --- | --- |
| Pipeline (`pipeline/`) | `pipelines` row: status, current stage, run ids, stage results, recommendation; stage jobs in the `pipeline` queue | create, start, pause, resume, cancel, skip, delete; `executeStage`; six event handlers | starts runs; receives their events |
| Optimization (`optimization/`) | run row, heartbeat; job with 3 attempts | start, execute, cancel, recover | emits `optimization.completed/failed` |
| Backtest run (`order/backtest/`) | run row, results, checkpoint, auto-resume count; job and pause flag in Redis | create, start, pause, resume, cancel, process, recover at boot | emits `backtest.completed/failed` |
| Backtest engine (`order/backtest/shared/`) | cash, positions, exit tracker, cooldowns, next-bar queue | bar loop, trades, forced exits, exits, opportunity selling, checkpoint, restore | the run's checkpoints |
| Paper trading (`order/paper-trading/`) | session row, tick scheduler, retry job, start/stop/notify jobs | create, start, pause, resume, stop, update, tick, retry, recover, stale watchdog | emits `paper-trading.completed/failed`; asks for prices |
| Prices (`exchange/ticker-batcher`, `order/paper-trading/paper-trading-market-data`, `shared/circuit-breaker`) | batches, timers, a memory cache, a circuit per exchange | getTicker, flush, response, error, fall back to other exchanges | exchanges |
| Live trading (`strategy/live-trading`, `order/tasks/trade-execution`, `admin/trading-state`, `shared/`) | deployments, positions; lock and cooldown keys in Redis; kill switch in Postgres and in a cache | cron cycle under a lock, queue job, claim, place, clear, halt, resume, sweep at boot | orders, exchanges |
| Orders (`order/services/`) | order rows, exchange orders, position exits | attach exits, hourly synchronisation, position monitor, clean-up, OCO, liquidation | exchanges |
| Watchdogs (`tasks/backtest-watchdog.service.ts`) | none | cron checks every 15 minutes: stale runs, broken and orphaned pipelines | updates runs and pipelines |
| Others | caches, statistics, notifications, audit chain, OTP, Angular pages | see `PROJECT.json` | - |

What is hard in this code:

- **Lost updates.** `repository.save(entity)` writes the entity a handler read
  before its awaits. Worker, handlers, REST calls and watchdog do this at once.
- **Two stores.** Postgres and Redis change in separate steps: row before job
  (pipeline) or job before row (a paper-trading transaction).
- **Events in memory.** `EventEmitter2` events are gone after a crash; BullMQ
  jobs are delivered again.
- **Runs outlive decisions about them.** A run that was cancelled or declared
  dead may still finish and report.
- **Watchdogs and retries that reset each other's counters.**
- **The exchange is a third store.** Orders trade and are cancelled there while
  the database learns of it an hour later, from a query with a window.
- **Leases and caches outlive their reason.** A lock expires under its holder, a
  key survives the process that set it, a cached switch is changed before it is
  saved.

`PROJECT.json` lists the hazards one by one with their line and the properties
that cover each.

What makes each part correct: a pipeline only advances on evidence, its
recommendation rests on real results, it reaches a verdict, and the user's
pause and cancel hold. A session that says ACTIVE ticks, ends when its exchange
is gone, and tells the pipeline. A backtest's record is a gapless prefix of its
bars without duplicates, and its books balance. Every price lookup is answered
and a circuit closes on evidence only. Trading cycles exclude each other, a
trade is placed once, a halt stops trading and nothing else does for good. A
triggered exit has traded, its other leg is gone, and a trailing stop only
tightens.

## 2. Modules

| Module | What it is |
| --- | --- |
| `Pipeline` | one pipeline row with worker, handlers, user, watchdog, runs and crashes |
| `PipelineProofs` | types and evidence: theorems about `Pipeline` for all values of its constants |
| `PipelineOrderProofs` | order and progress: theorems about `Pipeline` without crashes, restarts, resumes and skips |
| `PaperSession` | one paper-trading session with worker, user, watchdog, boot recovery |
| `PaperSessionProofs` | its types, retry counter included, and that no end is lost |
| `CircuitBreaker` | operators on one circuit: check, success, failure, ageing |
| `TickerFeed` | callers, batches, requests in flight and fallbacks; composes circuits, one per exchange |
| `TickerFeedProofs` | nobody is forgotten, circuits close on evidence |
| `MCTickerFeed` | the constants of `TickerFeed` that a `.cfg` cannot write |
| `DistributedLock` | operators on one Redis lock: acquire, release, sweep, expiry |
| `LiveTrading` | two trading paths, lock, cooldown, kill switch; composes the lock |
| `LiveTradingProofs` | leases, single trades, halts |
| `ExitOrders` | the exit of one position: exchange, sync, monitor, clean-up |
| `ExitOrdersProofs` | exits trade, their other leg goes, stops do not loosen |
| `RecordKeeping` | what a backtest promises about its record (abstract) |
| `BacktestRun` | one backtest run with workers, user, recovery, watchdog; implements `RecordKeeping` |
| `BacktestRunProofs` | the refinement of `RecordKeeping`, checkpoints |
| `BacktestBook` | cash, positions and exit tracker of a simulated run, bar by bar |
| `BacktestBookProofs` | cash, tracker, cooldowns, and that the books balance |

In every module a step is what the code does between two awaits of one process.

### Pipeline

An actor between two awaits keeps a `pc` and the `copy` of the row it read. A
save assigns the copy to `row`; an `update` assigns one column.

| TLA+ | Code |
| --- | --- |
| `WorkerRead/Create/Link/Ack/Fail` | `PipelineProcessor.process`, `executeStage` and the three `execute...Stage` |
| `CompleteFind/Store/Refuse/Defer/Advance/Enqueue/Finish` | `handleOptimizationComplete`, `handleBacktestComplete`, `handlePaperTradingComplete`, `advanceToNextStage`, `completePipeline` |
| `FailedFind/Save` | `handle...Failed`, `failPipeline` |
| `UserRead` ... `UserUnqueue` | `startPipeline`, `pausePipeline`, `resumePipeline`, `cancelPipeline`, `skipStage` and the stage operations they call |
| `WatchdogFind/Update` | the pipeline detectors of `BacktestWatchdogService` |
| `Run...`, `StaleKill`, `NotifyPipeline` | the runs as the pipeline sees them |
| `Crash` | process death and what boot recovery and BullMQ restore |

Abstractions, and why they are sound:

- Metrics become the *outcome* their gate distinguishes (`pass`, `review`,
  `fail`, `empty`, `starved`). The historical stage has no threshold, only the
  zero-trade check, so it reports `pass` or `empty`.
- `WorkerRead` merges the reads of the processor and of `executeStage`; the
  second one checks the status again.
- The worker executes one job at a time. `@Processor('pipeline')` sets no
  concurrency and nothing reads `PIPELINE_CONCURRENCY`.
- The processor's retry for a PENDING row is left out: `startPipeline` saves
  RUNNING before it enqueues.
- The job id is deterministic, and `enqueueStageJob` first removes an earlier job
  with that id, by force if a worker holds it (`forceRemoveJob`); so a stage has
  at most one job and `jobs` is a set. An unacknowledged job is delivered again
  after a crash, in the model also when it was removed by force meanwhile.
- Whether a backtest can be cancelled depends on its job's lock, which is a
  nondeterministic choice.
- A handler whose enqueue throws stops there, as a crash at that step would.
- One REST call is in progress at a time. `deletePipeline` is not modelled.
- An optimization may be attempted more than three times: more behaviours than
  the code has.

### PaperSession

| TLA+ | Code |
| --- | --- |
| `TakeStart`, `StartSave`, `Schedule`, `StartThrows` | `handleStartSession` |
| `TakeTick`, `TickSucceeds`, `TickFails`, `TickIsFatal` | `handleTick`, `handleRetryTick` |
| `Backoff`, `BackoffRemove`, `BackoffRetry` | `handleConsecutiveErrors` |
| `WorkerMarkFailed/MarkCompleted/Tell` | `markFailed`, `markCompleted` |
| `TakeStop`, `Finalize`, `TakeNotify` | `handleStopSession`, `handleNotifyPipeline` |
| `UserRead/Transaction/Commit/Rollback` | `start`, `pause`, `resume`, `stop`, `update` |
| `WatchdogPeriod` ... `WatchdogTell` | `detectStaleSessions` |
| `Boot`, `Crash` | `recoverActiveSessions`, process death |

- A user call changes Redis inside its transaction and commits later. While the
  transaction holds the row, other writers wait (`RowFree`), as they do on the
  row lock in Postgres.
- Time is counted in watchdog periods. A period is longer than a user call, so
  none passes during one. Ages beyond `FailAfter` are all the same.
- The exchange may go away for good (`Outage`); single ticks may fail at any
  time.
- `markCompleted` reads the row and saves it with nothing in between but the
  read: one step.
- Postgres and Redis are assumed to answer in the worker's own steps, except
  where a catch block is modelled. A tick job left waiting after its scheduler
  was removed, `delete`, `cleanupOrphanedSchedulers` and the duplicate check of
  `startFromPipeline` are not modelled.

### CircuitBreaker and TickerFeed

`CircuitBreaker` has no variables: a circuit is a record, and `Blocks`,
`CheckCircuit`, `RecordSuccess`, `RecordFailure` map a circuit to the next.
`TickerFeed` keeps one per exchange.

| TLA+ | Code |
| --- | --- |
| `GetCurrentPrice`, `Ask`, `Return`, `Recover` | `PaperTradingMarketDataService.getCurrentPrice` with stale cache, fallback exchanges and database price |
| `GetTicker`, `Enqueue`, `Flush`, `TimerFires` | `TickerBatcherService.getTicker`, `enqueue`, `flush` and the batch timer |
| `Response`, `BatchError` | `resolveFromResponse`, `handleBatchError` |
| `OnModuleDestroy` | `onModuleDestroy` |
| `ExpireTicker`, `Tick`, `Outage` | cache lifetime, the clock of the circuits, an exchange that comes and goes |

- A price is left out: a lookup is answered or it is not.
- Failures carry ages, not times; an age beyond the window is dropped, as the
  code does when it filters.
- `streak` is a history variable: consecutive successes of a circuit.

### DistributedLock and LiveTrading

| TLA+ | Code |
| --- | --- |
| `CronFires`, `Acquire`, `AcquireError`, `LoadUsers`, `UserError`, `Release`, `ReleaseError`, `Clear` | `LiveTradingService.executeLiveTrading`, with `acquire` and `release` of the lock |
| `JobStarts`, `UserDone`, `JobEnds` | `TradeExecutionTask.process`, `TradeOrchestratorService.executeTrades` |
| `NoTrade`, `Claim`, `ClaimError`, `PlaceOrder`, `OrderFails`, `Track`, `TrackingFails` | entry gates, cooldown, order, record of the order, on both paths |
| `Begin`, `Check`, `Save`, `SaveFails`, `RefreshRead`, `RefreshAssign` | `haltTrading`, `resumeTrading`, `refreshCache` |
| `Crash`, `Shutdown`, `Boot` | process death, release at shutdown, sweep and load at boot |
| `CooldownEnds`, `Tick`, `Enrol` | expiry of the keys; a user who joins or leaves algo trading |

- A trade is one cooldown key (user, symbol, direction), written as its user.
- `CycleLimit` bounds how long a cycle takes. The code has no such bound: it is
  an assumption of `LeaseHonoured`, and section 5 says what happens without it.
- An admin who halts or resumes while another one does is a fault (`overlap`),
  since it makes the cache differ from the record: see section 5. In the run
  there is one admin; two were explored (680,000 states).
- The users of the queue job are processed one after the other; the code handles
  them in parallel batches. The count of errors before a user is suspended, and
  the optional `pauseDeployments` and `cancelOpenOrders` of `haltTrading`, are
  left out.

### ExitOrders

| TLA+ | Code |
| --- | --- |
| `PlaceStopLoss`, `PlaceTakeProfit`, `AttachCommits`, `AttachFails` | `attachExitOrders`: one leg after the other, then rows and exit in a transaction |
| `SyncStarts`, `SyncOrders`, `SyncTrades`, `SyncEnds` | `OrderSyncService`: the newest order on record, the orders since then, the trades since then mapped to orders |
| `UpdateOrder`, `UpdateCopy`, `UpdateOrderFails` | `saveExchangeOrders`, `updateExistingOrder`, `createNewOrder` for each order fetched |
| `HandleOcoFill`, `CancelOther`, `CancelFails`, `SaveExit`, `HandleOcoFillFails` | `handleOcoFill`, `cancelOrderById` |
| `MonitorLoads`, `MonitorUpdates`, `MonitorSkips` | `PositionMonitorService` |
| `Cleanup` | `OrderCleanupService` |
| `Trade`, `NewerOrder`, `Crash` | the exchange, another order of the user that moves the sync window, a dying job |

- One long position with none, one or both of its legs; a short is its mirror
  image. The trailing stop lives in the database only, since no caller sets
  `trailingStopOrderId`.
- An exit is *linked* if it has both legs, `useOco` and an exchange key.
  `handleOcoFill` returns early for any other (`position-management.service.ts:359`).
- A query asks for what is younger than the user's newest order on record.
  `recent` are the legs that have traded since that order, `window` the same at
  the start of the sync in progress, and `Listed` says which legs the orders pass
  still returns. The rows of the legs are made after the legs, so once they are
  committed the orders pass returns neither, and only the trades pass can notice
  a fill. How old the newest row is, compared with the trades made during
  `attachExitOrders`, is a nondeterministic choice. The clocks of exchange and
  database are taken to agree.
- A sync during the transaction of `attachExitOrders` finds no row and creates
  one, and `orderId` is not unique: such a second row is in `copies`.
- A leg whose answer was lost is on the exchange under an id the database does not
  know (`lost`). That a retry then places another order is left out: the model has
  one order per leg. The exchange is taken to offer `fetchOrders` and
  `fetchMyTrades`.

### RecordKeeping and BacktestRun

`RecordKeeping` says that the stored results are at all times those of an
initial segment of the bars, each once; that a resumption may cut them back; and
that a COMPLETED run has all of them. `BacktestRun!Implements` is that
specification with

    ledger <- results,  intact <- ~tainted,  complete <- status = COMPLETED

`tainted` is a history variable, set where the code gives results up, starts over
rows that are there, or takes a run that another worker still executes: the
promise is conditional on it, and section 5 lists when it is set.

| TLA+ | Code |
| --- | --- |
| `Take`, `Start`, `EnterLoop` | `process` of the two processors, up to the engine |
| `ProcessBar`, `PersistIncremental`, `SaveCheckpoint` | the bar loop and its checkpoints |
| `Finish`, `Pause`, `PauseEnds`, `Fail` | the ends of `process` |
| `CancelBacktest`, `PauseBacktest`, `ResumeBacktest`, `Enqueue` | `BacktestLifecycleService` |
| `RecoveryFinds/Acts/Adds` | `BacktestRecoveryService` |
| `Watchdog` | `detectStaleBacktests` |
| `Crash`, `Shutdown`, `Exit`, `Boot`, `Redeliver`, `FlagExpires` | process and BullMQ |

- A bar yields one row. The five kinds of rows of the code are stored and
  cleaned up together. Rows are counted in the order of their bars.
- `update()` and `save()` of TypeORM skip `undefined`; so "clearing" a
  checkpoint by assigning `undefined` leaves the column as it was.

### BacktestBook

| TLA+ | Code |
| --- | --- |
| `FillBuy`, `FillSell`, `FillOpenShort`, `FillCloseShort`, `Skip` | `TradeExecutorService`, `processSignalTrade`, the exit tracker's hooks |
| `OpportunitySell` | `OpportunitySellService` |
| `ForcedExit`, `ForcedExitsEnd` | liquidations and delistings |
| `ExitFires`, `ExitsEnd` | the exit tracker and `processExitSignals` |
| `Decide`, `BarEnds`, `FlushEnds` | the strategy's signals, the next-bar queue |
| `Resume` | `buildCheckpointState` and `restoreState` |

- Amounts are whole numbers and prices divide by the leverage, so margins are
  exact; fees are a fraction rounded down. Prices, fills and filters are
  arbitrary, which covers what strategy and slippage may do.
- `oddities` records which of the situations of section 5 a behaviour has met;
  `BooksBalance` and `NeverOverdrawn` are stated for behaviours without the ones
  that break them, and name them.
- The books are those of the portfolio in memory and in the checkpoint. Which of
  its trades are rows of the database is the matter of `BacktestRun`; section 5
  says where the two differ.

## 3. Runs

Passing runs:

| Run | Bounds | Shows |
| --- | --- | --- |
| `pipeline_auto` | 4 runs, no user, no crash, any failure and outcome | `OneRunOfCurrentStage`, `NeverAbandoned`, `Forward`, and under fairness `Finishes` |
| `pipeline_races` | 3 runs, one pause or cancel anywhere, one run wrongly declared dead, runs that end before the worker's save | `EvidenceBacked`, `VerdictBacked`, `FailedNotDeploy`, `PausedHolds` |
| `pipeline_user` | 2 runs, any two of restart, pause, resume, skip and a crash anywhere (446,293 states) | `TypeOK`, `ResultsReal`, `DeploySound`, `RejectedNotDeploy` |
| `paper_session` | one error before backoff, one retry, any two of a user call of five kinds, a crash and an outage anywhere (170,971) | `TypeOK`, `EndNotLost`, `ActiveTicks`, `OutageEnds`, `EndIsTold` |
| `ticker_feed` | 2 callers, 2 symbols, 2 exchanges of which the first comes and goes, thresholds 2, batches of 2 (43,056) | `NobodyForgotten`, `ClosesOnEvidence`, `Settles`, `Recovers` |
| `live_trading` | 2 cycles, the job, 1 user, 1 admin, a lease of 2, cycles of at most 1, one kind of fault of five as often as it likes (205,896) | `LeaseHonoured`, `SavedHaltIsSeen`, `RecordedTradedOnce`, `HaltStops`, `TradingGoesOn` |
| `exit_orders` | prices 2 and 6 around an entry at 4, distance 2, activated at once, any set of legs, linked or not, one kind of fault of five as often as it likes (677,617) | `TypeOK`, `TriggeredHasTraded`, `OtherLegGone`, `StopNeverLoosens`, `FillIsHandled` |
| `backtest_run` | 4 bars, a checkpoint every 2, both types, 2 workers, 1 resume, 2 user calls, 2 faults of six kinds (375,595) | `TypeOK`, `CheckpointBacked`, `Implements`, `Settles` |
| `backtest_book` | 2 coins, 4 bars, prices 2 and 4, lots 1 and 2, leverage 2, capital 9, fee 1/4, cooldown of 2 bars, one signal per bar (1,136,477) | `TypeOK`, `BooksBalance`, `NeverOverdrawn`, `HeldIsTracked`, `CooldownHolds` |

Runs that end in a violation each show a disagreement between the code and its
own documents (`findings` in `PROJECT.json` quotes the lines):

| Run | Property | What happens |
| --- | --- | --- |
| `pipeline_cancelled` | `CancelledStays` | cancel completes while the worker creates the run; the worker's save makes the pipeline RUNNING again |
| `double_trade` | `TradedOnce` | an order is placed, its record fails, the cooldown is cleared, the next job places the trade again |
| `exit_partial` | `ReportedIsFilled` | a partly filled leg is synchronised from its trades as closed: the exit is announced and the other leg cancelled |

**Bounds.** Four runs are one per stage, enough for a complete pipeline
(`pipeline_auto`). A pipeline that starts at HISTORICAL (the creation task's
choice when there is nothing to optimize) needs three for a verdict; so
`pipeline_races` sees whole pipelines from there, and the optimization with its
two following stages otherwise. With two runs, `pipeline_user` sees a duplicate
run of one stage, or two consecutive stages, and skip takes them to a verdict.
One crash or one stale kill can hit every step. Larger instances of these (two
operations *and* a crash, four runs in the races) were explored too, with up to
2.3 million states and the same result, and so was `NeverAbandoned` with one pause
or cancel and one stale kill (3 runs, 343,290 states); the theorems of section 4
have no bound.

In `PaperSession`, `MaxErrors = 1` and `MaxRetries = 1` reach every branch of
the backoff, and `RecoverAfter = 0`, `FailAfter = 1` keep the two tiers of the
watchdog apart. In `TickerFeed` two callers share a batch, fill it, or sit in
two flights of one exchange; thresholds of 2 tell a streak from a single answer;
one symbol is listed on both exchanges and one is not. In `LiveTrading` two
cycles are what the cron can overlap, and a single cooldown key is what both
paths compete for. In `ExitOrders` the prices are at the first stop and above
the peak, so the stop is raised and hit; that the trailing stop may also be
activated later is left to the theorems, which have any `ActivationPrice`. In
`BacktestRun`
two intervals of two bars give a checkpoint in the middle with rows before and
after it, the resume limit is reached, and a second worker takes a run whose
first worker is still in it; with two resumes and three calls the result is the
same (1,528,738 states). In `BacktestBook` four bars are enough
to buy, be stopped out, wait for the cooldown and buy again, and two coins to
sell one for the other.

**Deadlock** is checked for `PaperSession`, `TickerFeed`, `LiveTrading` and
`ExitOrders`, whose crons and callers never stop; a pipeline, a backtest run and
a book end at some point, so it is not checked for them.

**Fairness.** Nothing is assumed of user calls, errors, outages or crashes.

- `Pipeline`, `PaperSession`: weak fairness of the worker (BullMQ executes queued
  jobs), of calls in progress, of handlers (the event loop runs them), of the
  cron watchdogs, and of runs: a run ends, since its data is finite, its budget
  limited, and the stale detectors fail one that hangs. `WF(WorkerStep)` leaves
  out the steps that throw.
- `TickerFeed`: timers fire, the continuations of a caller run, a request ends
  (the clients have timeouts), cached tickers expire, the clock goes on, and new
  lookups keep coming, as the sessions' ticks do (`Recovers` needs traffic: an
  open circuit is only tested by a request).
- `LiveTrading`: the cron fires, the steps of a cycle and of a job run, the
  process is started again, the clock of Redis goes on. `TradingGoesOn` has one
  more premise: from some point on no cycle that asks for the lock gets an error
  for an answer. Where Redis never answers that question, no cycle trades, as
  the code intends (`shared/distributed-lock.service.ts:101-105`).
- `ExitOrders`: the hourly sync, which is a repeatable job. Nothing is assumed
  of the monitor, of the market, or that `attachExitOrders` ever ends.
- `BacktestRun`: workers, the enqueue of a request, the exit of a process told
  to stop, boot, redelivery of a stalled job, recovery and the watchdog.

**Coverage by mutants.** Beside some operators stands a variant, marked as a
mutant, that makes a plausible mistake (a dropped guard, an off-by-one). Each
checked property is violated by one of them.

**Expectations the code does not meet.** Some definitions state what one would
expect and are not in a run, since the code refutes them; section 5 says how:
`PauseHolds` (PaperSession), `CompletedSessionHandled` (Pipeline), `HaltIsSeen`
(LiveTrading), `ActiveIsProtected` (ExitOrders), `RecordedOnce` and
`CountsArePersisted` (BacktestRun).

## 4. Proofs

Every theorem holds for all values of the constants that satisfy the `ASSUME` of
its module: any numbers of runs, calls, crashes and faults, any sets of callers,
cycles, users or workers, any lease, threshold, price or number of bars. What a
theorem assumes beyond that stands in its statement and below. Each proof has a
lemma per actor or group of actions and a step per action; an inductive
invariant was checked by TLC before it was proved.

### Pipeline: evidence (`PipelineProofs`)

| Theorem | States |
| --- | --- |
| `TypeCorrect` | `Spec => []TypeOK` |
| `ResultsAreReal` | `Spec => []ResultsReal`: a stage result, in the row or in any copy that may still be saved, was reported by a finished run of that stage |
| `DeployIsSound` | `Spec => []DeploySound`: DEPLOY needs a live replay that finished with the score for it |
| `RejectedIsNotDeploy` | `Spec => []RejectedNotDeploy` |

*Type correctness* is not inductive alone: `advanceToNextStage` on an entity at
the last stage would leave the type. `TypeInv` adds `UserNotDone`: the user's
copy is not at the last stage when the call advances it.

*Evidence* strengthens `TypeInv` with three parts.

- `AllHonest`: **every copy**, not only the row, has real results, a
  recommendation they justify, and DO_NOT_DEPLOY when rejected. That is needed
  since any copy may be saved later over anything.
- `RunsSettle`: a run that has completed or stopped has an outcome and no
  process, so it cannot report again and invalidate a stored result.
- `HandlersWait`: a completed handler that still has to store a result belongs
  to a run that is over.

`StillHonest` says that a step which leaves finished runs alone keeps honest
copies honest.

### Pipeline: order (`PipelineOrderProofs`)

| Theorem | States, under `Quiet` |
| --- | --- |
| `StagesAreBacked` | `Spec => []EvidenceBacked` |
| `VerdictsAreBacked` | `Spec => []VerdictBacked` |
| `FailedIsNotDeploy` | `Spec => []FailedNotDeploy` |
| `OneRunAtATime` | `Spec => []OneRunOfCurrentStage` |
| `PausedStandsStill` | `Spec => PausedHolds` |
| `RunningIsPursued` | `Spec => []NeverAbandoned`, assuming also `FastRuns = FALSE` |
| `OnlyForward` | `Spec => Forward`, under the stronger `LeftAlone` |

`Quiet` is `UserOps \subseteq {"pause", "cancel"} /\ MaxCrashes = 0`. It is needed:
a crash (a stage job delivered again), a resume, a restart or a skip refutes
these properties, as section 5 describes. The constants of `pipeline_auto`
and `pipeline_races` satisfy it. Any number of pauses and
cancels, of stale kills and of runs is allowed, and, where nothing else is said,
runs may end before the worker has saved their id.

The idea of `Order`: the pipeline has a *baton*, the right to start the next run.
It is a queued job, a worker about to create a run, a call or a handler about to
enqueue. The parts are

- `Sequential`: the events of all runs but the last created one are over;
- `OneBaton`: there is one baton at most, and it exists only when the last run
  has been handed on; `Front` is the stage it is for;
- `Linking`: the worker that links a run does so for the last run, and its copy
  is at that run's stage;
- `Calls`, `Links`, `Failures`: what user calls and failed handlers in progress
  have read, and that no copy knows a run that does not exist yet;
- `Standing`: while RUNNING, the row and the copies of handlers at work stand at
  the stage of the last run, or of the baton;
- `AllBacked`: every copy that may still be saved stands at `Top` or before, with
  the gates behind it passed, and has a verdict only after the last stage.

None of these is inductive without the others: a stale copy is harmless only
because no second run can have advanced the pipeline meanwhile, and there is no
second run only because stale copies do not enqueue. `PausedHolds` further needs
`Pausing`: the save of `pausePipeline` never meets a paused row, and a handler
that read the row PAUSED finds it where it was, or over.

`NeverAbandoned` is the safety half of `Finishes`, with pauses and cancels: a
RUNNING pipeline has a baton, a call that is about to cancel it, or a run it is
linked to that works or whose event is being handled. `FastRuns = FALSE` is
needed: the completed event of a run that ends before its id is saved finds no
pipeline and is dropped, and TLC shows the pipeline RUNNING with nothing left
(section 5). The invariant `Pursuit` says beyond `Order` that

- `LinkIsFresh`: the run about to be linked still works, so no event of it was
  dropped;
- `RowLinked`, `CopiesLinked`: a RUNNING row, and a RUNNING copy that a handler
  will save over it, carry the id of the last run, so its events find the
  pipeline; and a handler that read the row not RUNNING, and will not advance it,
  does so only while the row is still not RUNNING;
- `Awaited`: the statement itself, for the last run;
- `UnqueuesBehind`: a cancel that is still to remove its stage's job, while the
  worker's late save made the pipeline RUNNING again, removes no job of the stage
  that is next;
- `PausesTogether`: the last run is pausing or paused, or about to be, only
  while the row is not RUNNING.

`Forward` needs `LeftAlone`: no call after the start, no crash and no stale
kill. A pause may undo an advance, and the failure of a run that was wrongly
declared dead may be saved over the verdict the same run leads to. Fast runs are
allowed. `InPlace` says that while a run is under way, or a baton exists, the row
stands at its stage without a verdict (`RowInPlace`), that the copies of the
handlers at work stand there too (`EventsInPlace`, `FailuresInPlace`), and that a
run whose failure is being handled does not work, so that its completed event
cannot overtake that failure.

### Paper-trading session (`PaperSessionProofs`)

`TypeCorrect`: `Spec => []TypeOK`. The part that is not obvious is the counters:
an entity is read, its `retryAttempts` is increased, and it is saved over the row
of another writer; the counter stays within `MaxRetries`. `TypeInv` adds that a
call in progress has an operation.

`NoEndIsLost`: `Spec => []EndNotLost`. A row that shows COMPLETED or FAILED has
been announced or its announcer is at work, unless a crash silenced it; one that
shows STOPPED has been announced or has its notification in Redis, with any
number of crashes. An end may reach the row by the save of an older entity, so
`EndsKnown` says it of the status of the row, of the worker's and of the call's
copy; `AnnouncedStays` that an announcement, once due, is not taken back.

### Live trading (`LiveTradingProofs`)

| Theorem | States |
| --- | --- |
| `TypeCorrect` | `Spec => []TypeOK` |
| `LeaseIsHonoured` | `Spec => []LeaseHonoured`, assuming `CycleLimit < LeaseTtl` |
| `TradesAreMadeOnce` | `Spec => RecordedTradedOnce` |
| `HaltsAreSeen` | `Spec => []SavedHaltIsSeen` |

- `Lease`: a cycle that trades has the key with its token, the key's remaining
  life and the cycle's age add up to the lease, and the shared
  `currentLockToken` is its token or none. The assumption cannot be dropped: a
  cycle as long as its lease loses `Lease`, and section 5 says what follows.
- `Claims`: while Redis answers and orders are recorded, every trade made or about
  to be made is covered by a cooldown key, and no two traders are engaged in one.
- `Switch`: while saves succeed and admins do not overlap, one admin at most is
  at work, what it has read is what is stored, and the cache is behind only
  during its call. `Dead` says a process that is down has nothing in progress.

### Backtest run (`BacktestRunProofs`)

| Theorem | States |
| --- | --- |
| `TypeCorrect` | `Spec => []TypeOK` |
| `CheckpointsAreBacked` | `Spec => []CheckpointBacked` |
| `ImplementsRecord`, `FairImplementsRecord` | `Spec => Implements`, and so does the fair specification: initial states map to initial states, and every step to `Work`, `Complete`, `Reopen`, `GiveUp` or a stutter |

`RecordInv` says that of a run which is not tainted the results are an initial
segment of the bars that the checkpoint lies within (`Backed`); that one worker
at most executes it (`Alone`); that this worker's idea of what is stored is right
(`InTouch`), so that what it stores next extends the segment without gap or
duplicate; and that what recovery found at boot is not ahead of the row
(`NotAhead`). The lemmas on `Cleaned` count rows: cutting a segment back to `k`
rows gives the segment of the first `k` bars.

### Exit orders (`ExitOrdersProofs`)

| Theorem | States |
| --- | --- |
| `TypeCorrect` | `Spec => []TypeOK` |
| `StopsNeverLoosen` | `Spec => StopNeverLoosens` |
| `TriggeredHaveTraded` | `Spec => []TriggeredHasTraded` |
| `OtherLegsAreGone` | `Spec => []OtherLegGone` |

`Copies`: the monitor's copy equals the row as long as that is ACTIVE, in every
copy the stop is below the peak, and at its initial place until activated, and
only a linked exit is handled. `Sent`: a leg is sent once, a linked exit has both,
and unless an answer was lost their ids are known. `Evidence`: whatever says a leg
was filled, a fetched status or a handler in progress included, has a trade
behind it. `Gone`: whatever says a leg is gone is right, unless a cancel did not
get through or an answer was lost.

### Prices (`TickerFeedProofs`)

| Theorem | States |
| --- | --- |
| `TypeCorrect` | `Spec => []TypeOK` |
| `ClosingNeedsEvidence` | `Spec => ClosesOnEvidence`: from `Counted`, the successes a half-open circuit has counted are successes in a row |
| `NobodyIsForgotten` | `Spec => []NobodyForgotten`: from `Waits`, which says of batches and flights whom they hold, and that no two hold the same caller |

### Books of a backtest (`BacktestBookProofs`)

| Theorem | States |
| --- | --- |
| `TypeCorrect` | `Spec => []TypeOK` |
| `CashIsNotOverdrawn` | `Spec => []NeverOverdrawn` |
| `HeldPositionsAreTracked` | `Spec => []HeldIsTracked` |
| `CooldownsHold` | `Spec => CooldownHolds`: from `Queued`, a purchase in the queue was queued after its coin's cooldown, and nothing is queued while exits start cooldowns |
| `BooksAlwaysBalance` | `Spec => []BooksBalance`, for any finite set of coins |

`NumBars` is at least 1: the engine refuses a run without price data
(`backtest-context-factory.service.ts:252`). `BooksBalance` sums the stakes of all
coins. A sum by recursion or by a fold would need an induction over the coins,
which is out of this prover's reach; so `AtStake` counts the units of all stakes
as one finite set, and the proof splits it: a step changes the stake in one coin
by what cash and results change the other way (`Balances`), and the units of the
other coins are a set of their own, which stays the same.

### Only model-checked

- All liveness: `Finishes`, `ActiveTicks`, `OutageEnds`, `EndIsTold`, `Settles`
  (twice), `Recovers`, `HaltStops`, `TradingGoesOn`, `FillIsHandled`. This prover
  handles neither fairness nor ENABLED.

Every invariant and every action property of a passing run is also proved. Type
correctness of `TickerFeed` and `LiveTrading` is proved and in no run.

## 5. Observations not stated as findings

Pipeline:

- A run is started before its id is saved (`pipeline-stage-execution.service.ts:233`):
  the completed event of one that ends at once finds no pipeline and is dropped.
  With `FastRuns = TRUE`, `NeverAbandoned` fails; the watchdog has no detector for
  a completed run, so such a pipeline stays RUNNING.
- `pausePipeline` saves the entity it read: it may undo an advance or a verdict.
- The worker's catch block and the paper-trading completed handler do not look
  at the status they overwrite: CANCELLED may become FAILED or REJECTED.
- `resumeCurrentStage` (`pipeline-stage-execution.service.ts:332`) advances past
  a backtest that ended during the pause without its gate, even if it failed;
  `src/docs/PIPELINE_ARCHITECTURE.md:127` has "Evaluate gate" there. With `resume`
  among the operations, `EvidenceBacked` fails.
- A stage job delivered again is executed although the pipeline is at a later
  stage (line 78 of that file), and its completion advances that stage;
  `pipeline/docs/stage-flow-sequence.md:340` says "Duplicate events are safely
  ignored". With a crash, `VerdictBacked` fails (`MaxOps = 1`, `UserOps = {}`).
- A crash between a session's end and its event: no path emits the event again,
  though `backtest-watchdog.service.ts:447-448` speaks of "a recovery path that
  re-emits paper-trading.completed". `CompletedSessionHandled` fails.
- A crash between the save and the enqueue of `startPipeline` at HISTORICAL
  leaves the pipeline RUNNING without run or job; only the other two stages
  without a run have an orphan detector.
- A live replay paused and resumed before it noticed the pause makes the resume
  throw, and then pauses: the pipeline is RUNNING and waits.
- `executeOptimization` sets RUNNING whatever the status was
  (`optimization-orchestrator.service.ts:194-199`).

Paper trading:

- A tick in flight saves the entity it read, and a session paused meanwhile is
  ACTIVE again (`paper-trading.processor.ts:207`; `paper-trading/README.md:27`).
  `PauseHolds` fails with one user call.
- `resume` of a session paused for over 20 minutes leaves an old `lastTickAt`;
  the watchdog fails the session before its first tick. And the watchdog's
  recovery itself resets `lastTickAt`, so that its second tier is reached only
  when the recovery fails.
- `startFromPipeline` looks for another session of the pipeline and creates one
  later, without a constraint that keeps two apart.

Live trading:

- `resumeTrading` changes the cached object before it saves it
  (`trading-state.service.ts:152` and `161`): when the save fails, trading goes
  on although the database says it is halted. `HaltIsSeen` fails with the fault
  `save`; `SavedHaltIsSeen` holds.
- All calls change one cached object, and `refreshCache` assigns what its query
  read, perhaps before another admin's save (`trading-state.service.ts:299`).
  With two admins at once trading may go on while the record says halted.
- A cycle slower than its lease shares `currentLockToken` with its successor and
  releases with whatever token is there (`live-trading.service.ts:129`). With
  three cycles and `CycleLimit >= LeaseTtl`, a cycle in its lease loses the lock
  and `LeaseHonoured` fails. The five-minute lease is thus an assumption about
  how long a cycle takes.

Exit orders:

- The monitor saves the exit it loaded and undoes a fill recorded meanwhile
  (`position-monitor.service.ts:261`): the exit is ACTIVE, its other leg
  cancelled. `ActiveIsProtected` fails.
- The fill of a leg of an exit that is not linked (one leg, `useOco` off, no
  exchange key) is never recorded in the exit, which stays ACTIVE
  (`position-management.service.ts:359`). `FillIsHandled` is about linked exits
  for this reason, and fails without that premise.
- The fetch window starts at the user's newest order, so a fill of an older exit
  order is not seen after another order was placed (`order-sync.service.ts:437-455`).
  The newest order may be the exit's own take profit: a stop loss that fills
  while the take profit is being placed is never noticed. `FillIsHandled`
  asks for a trade in `recent`, and fails for trades in general.
- A sync that runs while `attachExitOrders` is in its transaction creates a second
  row for the leg. `findExistingOrder` may then find that one, which belongs to
  no exit, and the fill is lost; hence `copies` in `FillIsHandled`.
- An answer lost while a leg is placed leaves an order on the exchange that the
  exit does not know: it is neither noticed when it fills nor cancelled when the
  other one does.
- `cancelOrderById` marks a row CANCELED also when the exchange refused, and
  swallows an error of the database (`exit-order-placement.service.ts:340-343`):
  the exit is saved as triggered while its other leg may be open and its row NEW.
  `handleOcoFill` is not tried again after an error.
- A failing history row fails the status change, though its comment says it
  should not block it (`order-state-machine.service.ts:167-169`).
- When both legs fill, the second one rewrites the exit's status.
- The order call of a retry may place a second order; the rollback of
  `attachExitOrders` leaves its exchange orders.
- A trailing stop that triggers places no order. `cancelExitOrders` and
  `updateStopOrderOnExchange` are not reached by any caller.

Backtests:

- `RecordedOnce` fails: a crash after rows were stored and before the first
  checkpoint makes the next attempt store them again; for LIVE_REPLAY a pause
  that drops held rows suffices. A job that stalls, or that recovery removes and
  adds again, is taken by a second worker while the first one goes on, and both
  store rows (the processors set a concurrency of 2). These situations set
  `tainted`.
- A paused LIVE_REPLAY drops the rows it holds since the last checkpoint
  (`live-replay.processor.ts:254-259`), while the portfolio it resumes with
  includes them: the trades on record need not add up to the final value, though
  the books of the portfolio (`BooksBalance`) do.
- `CountsArePersisted` fails for LIVE_REPLAY without any fault: the checkpoint
  counts rows that are only in memory.
- Recovery at boot runs while workers already take jobs, and queues PAUSED runs
  again. At the auto-resume limit a run is FAILED without an event.
- The pause flag is cleared after RUNNING is saved; cancelling a RUNNING run
  throws when its job is locked; `persistSuccess` completes a run whatever its
  status has become; `validateCheckpoint` is never called.
- OPEN_SHORT over an open short forgets the first one's margin. A SELL on a short
  (from an exit or an opportunity sale) is executed as the sale of a long
  position, and a delisted short is credited its quantity at the penalty price.
- A checkpoint has neither side nor leverage nor margin of a position: a short
  resumes as a long position, though `checkpoint.service.ts:187-188` says it
  "Includes all state needed to resume execution from this point".
- The fee of CLOSE_SHORT may make cash negative. A partly filled exit removes
  the tracker's entry for the rest. Opportunity sales bypass the tracker and are
  also made for a BUY that failed because the coin is held already.

Elsewhere: the audit chain reads the last hash and appends later
(`audit.service.ts:74-98`); the deployment limits are checked at creation and
not at activation (`deployment.service.ts:97-113`); the count of wrong OTPs is
read, increased and saved (`otp.service.ts:62-78`).

## 6. Not modelled, and why

Most of the repository's lines have no state of their own to check: the Angular
application, entities, DTOs and interfaces, request handlers around one query,
wrappers of CCXT, e-mail, storage, health and metrics. Another large part is
floating-point computation that TLC cannot explore and whose properties are
numerical: strategies, indicators, scoring, regime, drift and risk statistics,
Monte-Carlo and walk-forward analysis, portfolio aggregation. Where such code
decides something the modelled protocol depends on, the decision is a
nondeterministic choice. `PROJECT.json` gives the reason for each component.

Left out of modelled parts: deletion of pipelines, runs and sessions; the
administrator's `reset`, `trip` and `configure` of a circuit; the manual
OCO order and the liquidation monitor; the batches inside an optimization; the
retries and `extend` of the lock, which the trading cycle does not use; the
repair of orphaned tick schedulers.

## 7. What could come next

1. What crashes leave of the pipeline's order: the strongest property that a
   stage job delivered again does not break.
2. A session whose status is final is not written by a later tick, in the
   absence of user calls.
3. The safety halves of the other liveness properties, as `NeverAbandoned` is of
   `Finishes`: an ACTIVE session has a scheduler, a retry or somebody who will
   set one, and a backtest that is not settled has a job or a worker.

Further candidates for modelling: the digest buffer of notifications, the
listing tracker's orders, the batches of an optimization run.
