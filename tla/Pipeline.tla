------------------------------ MODULE Pipeline ------------------------------
(***************************************************************************)
(* One strategy pipeline of apps/api/src/pipeline: a database row that     *)
(* moves through OPTIMIZE, HISTORICAL, LIVE_REPLAY and PAPER_TRADE.        *)
(*                                                                         *)
(* Five kinds of actor work on the row, and none of them holds a lock:     *)
(*   - the BullMQ worker, which executes stage jobs and starts downstream  *)
(*     runs (optimization runs, backtests, paper-trading sessions);        *)
(*   - the event handlers, one per optimization / backtest / paper-trading *)
(*     completed or failed event;                                          *)
(*   - the user (or the orchestration task) calling the REST operations;   *)
(*   - the watchdog, which fails pipelines whose run is broken;            *)
(*   - the downstream runs themselves.                                     *)
(*                                                                         *)
(* Every actor reads the row, awaits something, and then either saves the  *)
(* whole entity it read (repository.save, which overwrites what changed in *)
(* between) or updates single columns.  An actor therefore carries the     *)
(* copy of the row it read, and each await is a step boundary.             *)
(***************************************************************************)
EXTENDS Naturals

CONSTANTS
  MaxRuns,      \* bound on downstream runs created
  MaxOps,       \* bound on user operations after the first start, with crashes
  MaxCrashes,   \* bound on process crashes
  MaxStale,     \* bound on live runs the watchdogs wrongly declare dead
  FastRuns,     \* may a run end before the worker is through with its job?
  UserOps,      \* the user operations of this instance
  FirstStages   \* stages createPipeline may be asked to start at

OPTIMIZE    == 1
HISTORICAL  == 2
LIVE_REPLAY == 3
PAPER_TRADE == 4
DONE        == 5          \* PipelineStage.COMPLETED

Stages   == OPTIMIZE..PAPER_TRADE
RunIds   == 1..MaxRuns
NoRun    == 0

AllOps   == {"restart", "pause", "resume", "cancel", "skip"}
Active   == {"RUNNING", "PAUSED"}
Terminal == {"COMPLETED", "FAILED", "CANCELLED", "REJECTED"}
Statuses == {"PENDING"} \cup Active \cup Terminal

ASSUME ConstantsAssumption ==
  /\ MaxRuns \in Nat
  /\ MaxOps \in Nat
  /\ MaxCrashes \in Nat
  /\ MaxStale \in Nat
  /\ FastRuns \in BOOLEAN
  /\ UserOps \subseteq AllOps
  /\ FirstStages \subseteq {OPTIMIZE, HISTORICAL}

(***************************************************************************)
(* What a finished run reports, seen through the progression gates:        *)
(*   "pass"    - every threshold met (LIVE_REPLAY: score >= 70)            *)
(*   "review"  - LIVE_REPLAY only: minimum score met, but below 70         *)
(*   "fail"    - a threshold missed                                        *)
(*   "empty"   - backtests only: zero trades                               *)
(*   "starved" - PAPER_TRADE only: stopped for insufficient signals        *)
(***************************************************************************)
Outcomes  == {"pass", "review", "fail", "empty", "starved"}
OutcomesOf(s) ==
  CASE s = OPTIMIZE    -> {"pass", "fail"}
    [] s = HISTORICAL  -> {"pass", "empty"}
    [] s = LIVE_REPLAY -> {"pass", "review", "fail", "empty"}
    [] s = PAPER_TRADE -> {"pass", "fail", "starved"}

\* evaluateOptimizationProgression, the zero-trade check, the minimum score
\* and evaluateStageProgression, each on the outcome it separates.
GatePassed(o) == o \in {"pass", "review"}

Results         == {"none", "skipped"} \cup Outcomes
Recommendations == {"none", "DEPLOY", "NEEDS_REVIEW", "DO_NOT_DEPLOY",
                    "INCONCLUSIVE_RETRY"}

Rows == [status : Statuses, stage : Stages \cup {DONE},
         link   : [Stages -> RunIds \cup {NoRun}],
         result : [Stages -> Results],
         rec    : Recommendations]

\* The copy an idle actor holds.
Blank == [status |-> "PENDING", stage |-> OPTIMIZE,
          link   |-> [s \in Stages |-> NoRun],
          result |-> [s \in Stages |-> "none"],
          rec    |-> "none"]

(***************************************************************************)
(* Status of a downstream run as its own table shows it.  "alive" says     *)
(* whether a process still works on it, which the table does not: a run    *)
(* marked FAILED or CANCELLED by somebody else may still finish.           *)
(***************************************************************************)
RunStatuses == {"unused", "active", "pausing", "paused", "completed",
                "failed", "cancelled", "stopped"}
Runs == [stage : Stages, status : RunStatuses, alive : BOOLEAN,
         outcome : Outcomes \cup {"none"}]

Kinds      == {"completed", "failed"}
HandlerPcs == {"none", "notify", "emitted", "store", "decide", "enqueue",
               "complete", "fail", "over"}
WorkerPcs  == {"idle", "create", "link", "ack"}
UserPcs    == {"idle", "save", "enqueue", "stage", "advance", "complete",
               "final", "unqueue"}

VARIABLES
  row,       \* the pipelines row
  jobs,      \* stages with a job waiting in the pipeline queue (jobId dedup)
  worker,    \* the PipelineProcessor worker
  runs,      \* downstream runs
  created,   \* number of runs created
  handler,   \* event handlers: one per kind of event and run
  user,      \* the REST call in progress
  watchdog,  \* the watchdog's candidate between its find() and its update()
  ops, crashes, stales

vars == <<row, jobs, worker, runs, created, handler, user, watchdog,
          ops, crashes, stales>>

IdleWorker   == [pc |-> "idle", stage |-> OPTIMIZE, copy |-> Blank, run |-> NoRun]
IdleUser     == [pc |-> "idle", op |-> "none", copy |-> Blank]
IdleWatchdog == [pc |-> "idle", stage |-> OPTIMIZE]
NewHandler   == [pc |-> "none", copy |-> Blank]
Over         == [pc |-> "over", copy |-> Blank]

TypeOK ==
  /\ row \in Rows
  /\ jobs \subseteq Stages \cup {DONE}
  /\ worker \in [pc : WorkerPcs, stage : Stages \cup {DONE}, copy : Rows,
                 run : RunIds \cup {NoRun}]
  /\ runs \in [RunIds -> Runs]
  /\ created \in 0..MaxRuns
  /\ handler \in [Kinds -> [RunIds -> [pc : HandlerPcs, copy : Rows]]]
  /\ user \in [pc : UserPcs, op : AllOps \cup {"start", "none"}, copy : Rows]
  /\ watchdog \in [pc : {"idle", "update"}, stage : Stages]
  /\ ops \in 0..MaxOps
  /\ crashes \in 0..MaxCrashes
  /\ stales \in 0..MaxStale

\* createPipeline; the orchestration task records a skipped optimization on
\* pipelines it starts at HISTORICAL.
Init ==
  /\ \E s \in FirstStages :
       row = [Blank EXCEPT !.stage = s,
                !.result[OPTIMIZE] = IF s = OPTIMIZE THEN "none" ELSE "skipped"]
  /\ jobs = {}
  /\ worker = IdleWorker
  /\ runs = [r \in RunIds |-> [stage |-> OPTIMIZE, status |-> "unused",
                               alive |-> FALSE, outcome |-> "none"]]
  /\ created = 0
  /\ handler = [k \in Kinds |-> [r \in RunIds |-> NewHandler]]
  /\ user = IdleUser
  /\ watchdog = IdleWatchdog
  /\ ops = 0
  /\ crashes = 0
  /\ stales = 0

-----------------------------------------------------------------------------
(* What PipelineProgressionService writes onto the entity it was given.    *)

\* Mutant: a pipeline without a live replay result is not held back.
RecommendWithoutReplay(result) ==
  CASE result[LIVE_REPLAY] \in {"pass", "none"} -> "DEPLOY"
    [] result[LIVE_REPLAY] = "review"          -> "NEEDS_REVIEW"
    [] OTHER                                   -> "DO_NOT_DEPLOY"

\* generateRecommendation.  The score is stored together with the live
\* replay result; without it the fallback needs a live replay result too.
Recommend(result) ==
  CASE result[LIVE_REPLAY] = "pass"   -> "DEPLOY"
    [] result[LIVE_REPLAY] = "review" -> "NEEDS_REVIEW"
    [] OTHER                          -> "DO_NOT_DEPLOY"

completePipeline(c) ==
  [c EXCEPT !.status = "COMPLETED", !.stage = DONE, !.rec = Recommend(c.result)]

failPipeline(c) ==
  [c EXCEPT !.status = "FAILED", !.rec = "DO_NOT_DEPLOY"]

\* Mutants: the recommendation forgotten; the stage reset for another try.
rejectWithoutRecommendation(c) == [c EXCEPT !.status = "REJECTED"]
rejectAndRewind(c) ==
  [c EXCEPT !.status = "REJECTED", !.stage = OPTIMIZE, !.rec = "DO_NOT_DEPLOY"]

rejectPipeline(c) ==
  [c EXCEPT !.status = "REJECTED", !.rec = "DO_NOT_DEPLOY"]

markInconclusiveAndComplete(c) ==
  [c EXCEPT !.status = "COMPLETED", !.stage = DONE, !.rec = "INCONCLUSIVE_RETRY"]

\* Mutant: the index of the next stage is one too far.
advanceTwoStages(c) == [c EXCEPT !.stage = @ + 2]

\* The save of advanceToNextStage; it throws at the last stage.
CanAdvance(c)         == c.stage # DONE
advanceToNextStage(c) == [c EXCEPT !.stage = @ + 1]

\* What follows that save: completion, a stage job, or nothing when the
\* entity is not RUNNING ("will enqueue on resume").
AfterAdvance(c) ==
  IF c.stage = DONE THEN "complete"
  ELSE IF c.status = "RUNNING" THEN "enqueue" ELSE "over"

\* pipelineRepository.update(...): only the status column is written.
UpdateStatus(st) == row' = [row EXCEPT !.status = st]

SetRun(r, x) == runs' = [runs EXCEPT ![r] = x]

\* Mutants: add() of a job id still in Redis is ignored; the job carries the
\* stage just left.
enqueueIgnored(s)       == s \in Stages \cup {DONE} /\ UNCHANGED jobs
enqueuePreviousStage(s) == jobs' = jobs \cup {IF s = OPTIMIZE THEN s ELSE s - 1}

enqueueStageJob(s) == jobs' = jobs \cup {s}

-----------------------------------------------------------------------------
(* The worker: PipelineProcessor.process and PipelineStageExecutionService. *)

\* A job is taken and the row read.  Anything but RUNNING is skipped.  The
\* stage to execute comes from the job and is not compared with the row's
\* currentStage.
WorkerRead(s) ==
  /\ worker.pc = "idle"
  /\ s \in jobs
  /\ jobs' = jobs \ {s}
  /\ worker' = IF row.status = "RUNNING"
               THEN [pc |-> "create", stage |-> s, copy |-> row, run |-> NoRun]
               ELSE worker
  /\ UNCHANGED <<row, runs, created, handler, user, watchdog, ops, crashes, stales>>

\* startOptimization, createBacktest or startFromPipeline: the run exists
\* and may be picked up, but the row does not know it yet.
WorkerCreate ==
  /\ worker.pc = "create"
  /\ worker.stage # DONE
  /\ created < MaxRuns
  /\ created' = created + 1
  /\ SetRun(created + 1, [stage |-> worker.stage, status |-> "active",
                          alive |-> TRUE, outcome |-> "none"])
  /\ worker' = [worker EXCEPT !.pc = "link", !.run = created + 1]
  /\ UNCHANGED <<row, jobs, handler, user, watchdog, ops, crashes, stales>>

\* The run's id is set on the entity read at the start, and all of it saved.
WorkerLink ==
  /\ worker.pc = "link"
  /\ row' = [worker.copy EXCEPT !.link[worker.stage] = worker.run]
  /\ worker' = [worker EXCEPT !.pc = "ack", !.copy = Blank]
  /\ UNCHANGED <<jobs, runs, created, handler, user, watchdog, ops, crashes, stales>>

\* The job is acknowledged; until then a crash makes BullMQ deliver it again.
WorkerAck ==
  /\ worker.pc = "ack"
  /\ worker' = IdleWorker
  /\ UNCHANGED <<row, jobs, runs, created, handler, user, watchdog, ops, crashes, stales>>

\* Any exception while executing the stage (no dataset, no exchange key, a
\* non-executable stage, a failing save): the catch block fails the row
\* whatever its status is by now.
WorkerFail ==
  /\ worker.pc \in {"create", "link"}
  /\ UpdateStatus("FAILED")
  /\ worker' = IdleWorker
  /\ UNCHANGED <<jobs, runs, created, handler, user, watchdog, ops, crashes, stales>>

-----------------------------------------------------------------------------
(* The event handlers: PipelineEventListener, PipelineEventHandlerService.  *)

SetHandler(r, k, h) == handler' = [handler EXCEPT ![k][r] = h]

\* The findOne of each handler.
FindForOptimizationComplete(r) ==
  row.link[OPTIMIZE] = r /\ row.stage = OPTIMIZE /\ row.status \in Active
FindForBacktestComplete(r) ==
  row.link[runs[r].stage] = r /\ row.status \in Active
FindForPaperTradingComplete == TRUE
FindForComplete(r) ==
  CASE runs[r].stage = OPTIMIZE    -> FindForOptimizationComplete(r)
    [] runs[r].stage = PAPER_TRADE -> FindForPaperTradingComplete
    [] OTHER                       -> FindForBacktestComplete(r)

FindForOptimizationFailed(r) ==
  row.link[OPTIMIZE] = r /\ row.stage = OPTIMIZE /\ row.status \in Active
FindForBacktestFailed(r) ==
  row.link[runs[r].stage] = r /\ row.stage = runs[r].stage /\ row.status \in Active
FindForPaperTradingFailed ==
  row.stage = PAPER_TRADE /\ row.status \in Active
FindForFailed(r) ==
  CASE runs[r].stage = OPTIMIZE    -> FindForOptimizationFailed(r)
    [] runs[r].stage = PAPER_TRADE -> FindForPaperTradingFailed
    [] OTHER                       -> FindForBacktestFailed(r)

\* The completed handler reads the row; an event nobody waits for is dropped.
\* Zero trades go straight to rejection, without storing a result.
CompleteFind(r) ==
  /\ handler["completed"][r].pc = "emitted"
  /\ SetHandler(r, "completed",
       IF ~FindForComplete(r) THEN Over
       ELSE [pc   |-> IF runs[r].outcome = "empty" THEN "decide" ELSE "store",
             copy |-> row])
  /\ UNCHANGED <<row, jobs, worker, runs, created, user, watchdog, ops, crashes, stales>>

\* Mutant: the result is filed under the stage the row is at.
StoreUnderCurrentStage(c, r) ==
  IF c.stage = DONE THEN c ELSE [c EXCEPT !.result[c.stage] = runs[r].outcome]

\* The stage result is set on the entity (the optimization handler also
\* writes the run id) and the entity saved.
StoreResult(c, r) ==
  LET s == runs[r].stage
  IN  [c EXCEPT !.result[s] = runs[r].outcome,
                !.link[OPTIMIZE] = IF s = OPTIMIZE THEN r ELSE @]

CompleteStore(r) ==
  /\ handler["completed"][r].pc = "store"
  /\ LET c == StoreResult(handler["completed"][r].copy, r)
     IN  /\ row' = c
         /\ SetHandler(r, "completed", [pc |-> "decide", copy |-> c])
  /\ UNCHANGED <<jobs, worker, runs, created, user, watchdog, ops, crashes, stales>>

\* The gate.  "starved" sessions end inconclusive, a missed gate rejects.
CompleteRefuse(r) ==
  /\ handler["completed"][r].pc = "decide"
  /\ ~GatePassed(runs[r].outcome)
  /\ row' = IF runs[r].outcome = "starved"
            THEN markInconclusiveAndComplete(handler["completed"][r].copy)
            ELSE rejectPipeline(handler["completed"][r].copy)
  /\ SetHandler(r, "completed", Over)
  /\ UNCHANGED <<jobs, worker, runs, created, user, watchdog, ops, crashes, stales>>

\* The gate is passed, but the entity that was read is not RUNNING:
\* "advancement deferred until resume".
CompleteDefer(r) ==
  /\ handler["completed"][r].pc = "decide"
  /\ GatePassed(runs[r].outcome)
  /\ handler["completed"][r].copy.status # "RUNNING"
  /\ SetHandler(r, "completed", Over)
  /\ UNCHANGED <<row, jobs, worker, runs, created, user, watchdog, ops, crashes, stales>>

\* Mutants: no gate; no look at the status.
MayAdvanceUngated(r)    == handler["completed"][r].copy.status = "RUNNING"
MayAdvanceWhenPaused(r) == GatePassed(runs[r].outcome)

\* The gate is passed and the entity that was read is RUNNING.
MayAdvance(r) ==
  GatePassed(runs[r].outcome) /\ handler["completed"][r].copy.status = "RUNNING"

\* The gate is passed: the paper-trading handler completes the pipeline, the
\* others advance the stage the entity is at (and throw at the last one).
CompleteAdvance(r) ==
  LET c == handler["completed"][r].copy
      paper == runs[r].stage = PAPER_TRADE
      n == IF paper THEN completePipeline(c)
           ELSE IF CanAdvance(c) THEN advanceToNextStage(c) ELSE c
  IN  /\ handler["completed"][r].pc = "decide"
      /\ MayAdvance(r)
      /\ row' = IF paper \/ CanAdvance(c) THEN n ELSE row
      /\ SetHandler(r, "completed",
           IF paper \/ ~CanAdvance(c) THEN Over ELSE [pc |-> AfterAdvance(n), copy |-> n])
      /\ UNCHANGED <<jobs, worker, runs, created, user, watchdog, ops, crashes, stales>>

CompleteEnqueue(r) ==
  /\ handler["completed"][r].pc = "enqueue"
  /\ enqueueStageJob(handler["completed"][r].copy.stage)
  /\ SetHandler(r, "completed", Over)
  /\ UNCHANGED <<row, worker, runs, created, user, watchdog, ops, crashes, stales>>

\* An unguarded backtest handler that found the row at PAPER_TRADE.
CompleteFinish(r) ==
  /\ handler["completed"][r].pc = "complete"
  /\ row' = completePipeline(handler["completed"][r].copy)
  /\ SetHandler(r, "completed", Over)
  /\ UNCHANGED <<jobs, worker, runs, created, user, watchdog, ops, crashes, stales>>

FailedFind(r) ==
  /\ handler["failed"][r].pc = "emitted"
  /\ SetHandler(r, "failed",
       IF FindForFailed(r) THEN [pc |-> "fail", copy |-> row] ELSE Over)
  /\ UNCHANGED <<row, jobs, worker, runs, created, user, watchdog, ops, crashes, stales>>

FailedSave(r) ==
  /\ handler["failed"][r].pc = "fail"
  /\ row' = failPipeline(handler["failed"][r].copy)
  /\ SetHandler(r, "failed", Over)
  /\ UNCHANGED <<jobs, worker, runs, created, user, watchdog, ops, crashes, stales>>

-----------------------------------------------------------------------------
(* The downstream runs, as far as the pipeline can tell.                    *)

Emit(r, k) == SetHandler(r, k, [pc |-> "emitted", copy |-> Blank])

\* createBacktest queues the run before executeBacktestStage saves its id, so
\* a run may end first; a paper-trading session needs at least one tick.
Linked(r) == worker.run # r

\* A process works on r.  A run that a watchdog failed or a user cancelled
\* goes on in its worker, which never looks at the status column again.
Working(r) ==
  runs[r].alive /\ runs[r].status \in {"active", "pausing", "failed", "cancelled"}

\* finalizeOptimization, persistSuccess, markCompleted: the status is
\* overwritten, whatever it is by now, and the completed event emitted.
RunFinish(r) ==
  /\ Working(r)
  /\ Linked(r) \/ (FastRuns /\ runs[r].stage # PAPER_TRADE)
  /\ handler["completed"][r].pc = "none"
  /\ \E o \in OutcomesOf(runs[r].stage) :
       SetRun(r, [runs[r] EXCEPT !.status = "completed", !.alive = FALSE, !.outcome = o])
  /\ Emit(r, "completed")
  /\ UNCHANGED <<row, jobs, worker, created, user, watchdog, ops, crashes, stales>>

\* The catch blocks: FAILED and the failed event.
RunFail(r) ==
  /\ Working(r)
  /\ Linked(r) \/ FastRuns
  /\ handler["failed"][r].pc \in {"none", "over"}
  /\ SetRun(r, [runs[r] EXCEPT !.status = "failed", !.alive = FALSE])
  /\ Emit(r, "failed")
  /\ UNCHANGED <<row, jobs, worker, created, user, watchdog, ops, crashes, stales>>

\* executeOptimization on the job's next attempt: RUNNING again.  The backoff
\* of a minute outlasts the handler of the failed event.
RunRetry(r) ==
  /\ runs[r].stage = OPTIMIZE
  /\ runs[r].status = "failed" /\ ~runs[r].alive
  /\ handler["failed"][r].pc = "over"
  /\ SetRun(r, [runs[r] EXCEPT !.status = "active", !.alive = TRUE])
  /\ UNCHANGED <<row, jobs, worker, created, handler, user, watchdog, ops, crashes, stales>>

\* A live replay finds the pause flag at its next checkpoint.
RunPauses(r) ==
  /\ runs[r].status = "pausing"
  /\ SetRun(r, [runs[r] EXCEPT !.status = "paused"])
  /\ UNCHANGED <<row, jobs, worker, created, handler, user, watchdog, ops, crashes, stales>>

\* detectStaleBacktests, detectStaleOptimizationRuns, detectStaleSessions: no
\* heartbeat for too long.  The worker of the run is not told.
StaleKill(r) ==
  /\ stales < MaxStale
  /\ runs[r].status \in {"active", "pausing"}
  /\ handler["failed"][r].pc \in {"none", "over"}
  /\ stales' = stales + 1
  /\ SetRun(r, [runs[r] EXCEPT !.status = "failed"])
  /\ Emit(r, "failed")
  /\ UNCHANGED <<row, jobs, worker, created, user, watchdog, ops, crashes>>

\* handleNotifyPipeline: the job stop() queued emits paper-trading.completed.
NotifyPipeline(r) ==
  /\ handler["completed"][r].pc = "notify"
  /\ Emit(r, "completed")
  /\ UNCHANGED <<row, jobs, worker, runs, created, user, watchdog, ops, crashes, stales>>

-----------------------------------------------------------------------------
(* The user: PipelineOrchestratorService, one REST call at a time.          *)

\* Statuses each operation accepts, and the operation's first await after the
\* row is read.
Accepts(op) ==
  CASE op = "start"   -> {"PENDING"}
    [] op = "restart" -> {"PAUSED", "FAILED"}
    [] op = "pause"   -> {"RUNNING"}
    [] op = "resume"  -> {"PAUSED"}
    [] op = "cancel"  -> {"PENDING", "RUNNING", "PAUSED"}
    [] op = "skip"    -> {"RUNNING", "PAUSED"}

UserRead(op) ==
  /\ user.pc = "idle"
  /\ row.status \in Accepts(op)
  /\ op = "skip" => row.stage # DONE
  /\ user' = [pc |-> IF op \in {"cancel", "skip"} THEN "stage" ELSE "save",
              op |-> op, copy |-> row]
  /\ UNCHANGED <<row, jobs, worker, runs, created, handler, watchdog, crashes, stales>>

UserStart == UserRead("start") /\ UNCHANGED ops

\* startPipeline of a paused or failed pipeline is the "restart" operation.
UserCall(op) ==
  /\ ops + crashes < MaxOps
  /\ ops' = ops + 1
  /\ UserRead(op)

\* The status is set on the entity read before, and all of it saved.
UserSave ==
  LET c == [user.copy EXCEPT !.status = IF user.op = "pause" THEN "PAUSED" ELSE "RUNNING"]
  IN  /\ user.pc = "save"
      /\ row' = c
      /\ user' = [user EXCEPT !.copy = c,
                    !.pc = IF user.op \in {"pause", "resume"} THEN "stage" ELSE "enqueue"]
      /\ UNCHANGED <<jobs, worker, runs, created, handler, watchdog, ops, crashes, stales>>

UserEnqueue ==
  /\ user.pc = "enqueue"
  /\ enqueueStageJob(user.copy.stage)
  /\ user' = IdleUser
  /\ UNCHANGED <<row, worker, runs, created, handler, watchdog, ops, crashes, stales>>

\* Redis refuses the job; startPipeline fails the pipeline.
UserEnqueueFails ==
  /\ user.pc = "enqueue"
  /\ user.op \in {"start", "restart"}
  /\ UpdateStatus("FAILED")
  /\ user' = IdleUser
  /\ UNCHANGED <<jobs, worker, runs, created, handler, watchdog, ops, crashes, stales>>

\* The run the stage operation acts on, and its status.
StageRun == IF user.copy.stage = DONE THEN NoRun ELSE user.copy.link[user.copy.stage]
StageRunStatus == IF StageRun = NoRun THEN "unused" ELSE runs[StageRun].status

\* pauseCurrentStage.  Optimizations and historical backtests run on; a
\* backtest still in its queue, or an ended run, makes the call throw.  Either
\* way the pipeline stays PAUSED.
UserPauseStage ==
  /\ user.pc = "stage"
  /\ user.op = "pause"
  /\ \/ /\ ~(user.copy.stage = PAPER_TRADE /\ StageRunStatus = "active")
        /\ UNCHANGED runs
     \/ /\ user.copy.stage = LIVE_REPLAY
        /\ StageRunStatus = "active"
        /\ SetRun(StageRun, [runs[StageRun] EXCEPT !.status = "pausing"])
     \/ /\ user.copy.stage = PAPER_TRADE
        /\ StageRunStatus = "active"
        /\ SetRun(StageRun, [runs[StageRun] EXCEPT !.status = "paused"])
  /\ user' = IdleUser
  /\ UNCHANGED <<row, jobs, worker, created, handler, watchdog, ops, crashes, stales>>

\* resumeCurrentStage: enqueue when the stage has no run, advance when the run
\* is already over, resume it when it is paused.  Anything else returns or
\* throws, and the pipeline stays RUNNING.
OverOnResume ==
  \/ user.copy.stage = OPTIMIZE /\ user.copy.result[OPTIMIZE] \notin {"none", "skipped"}
  \/ /\ user.copy.stage \in {HISTORICAL, LIVE_REPLAY}
     /\ StageRunStatus \in {"completed", "failed", "cancelled"}

UserResumeStage ==
  /\ user.pc = "stage"
  /\ user.op = "resume"
  /\ IF StageRun # NoRun /\ ~OverOnResume /\ user.copy.stage # OPTIMIZE /\ StageRunStatus = "paused"
     THEN SetRun(StageRun, [runs[StageRun] EXCEPT !.status = "active"])
     ELSE UNCHANGED runs
  /\ user' = IF StageRun = NoRun THEN [user EXCEPT !.pc = "enqueue"]
             ELSE IF OverOnResume THEN [user EXCEPT !.pc = "advance"]
             ELSE IdleUser
  /\ UNCHANGED <<row, jobs, worker, created, handler, watchdog, ops, crashes, stales>>

\* After cancelCurrentStage: cancel goes on to its save, skip advances.
AfterCancel == [user EXCEPT !.pc = IF user.op = "cancel" THEN "final" ELSE "advance"]

\* cancelCurrentStage succeeds.  An optimization in progress is only marked; a
\* backtest is cancelled when its job still waits; stop() ends a session and
\* queues the notification of the pipeline.
UserCancelStage ==
  /\ user.pc = "stage"
  /\ user.op \in {"cancel", "skip"}
  /\ user' = AfterCancel
  /\ \/ /\ StageRun = NoRun
        /\ UNCHANGED <<runs, handler>>
     \/ /\ StageRunStatus = "active"
        /\ user.copy.stage = OPTIMIZE
        /\ \E working \in BOOLEAN :
             SetRun(StageRun, [runs[StageRun] EXCEPT !.status = "cancelled", !.alive = working])
        /\ UNCHANGED handler
     \/ /\ StageRunStatus = "active"
        /\ user.copy.stage \in {HISTORICAL, LIVE_REPLAY}
        /\ SetRun(StageRun, [runs[StageRun] EXCEPT !.status = "cancelled", !.alive = FALSE])
        /\ UNCHANGED handler
     \/ /\ StageRunStatus \in {"active", "paused"}
        /\ user.copy.stage = PAPER_TRADE
        /\ \E o \in {"pass", "fail"} :
             SetRun(StageRun, [runs[StageRun] EXCEPT !.status = "stopped", !.alive = FALSE, !.outcome = o])
        /\ SetHandler(StageRun, "completed", [pc |-> "notify", copy |-> Blank])
  /\ UNCHANGED <<row, jobs, worker, created, watchdog, ops, crashes, stales>>

\* cancelCurrentStage throws: the run is over, or its job is locked by a
\* worker.  cancelPipeline logs that and goes on, skipStage gives up.
UserCancelStageThrows ==
  /\ user.pc = "stage"
  /\ user.op \in {"cancel", "skip"}
  /\ StageRun # NoRun
  /\ CASE user.copy.stage = OPTIMIZE    -> StageRunStatus # "active"
       [] user.copy.stage = PAPER_TRADE -> StageRunStatus \notin {"active", "paused"}
       [] OTHER                         -> TRUE
  /\ user' = IF user.op = "cancel" THEN AfterCancel ELSE IdleUser
  /\ UNCHANGED <<row, jobs, worker, runs, created, handler, watchdog, ops, crashes, stales>>

UserAdvance ==
  LET n == advanceToNextStage(user.copy)
  IN  /\ user.pc = "advance"
      /\ row' = n
      /\ user' = IF AfterAdvance(n) = "over" THEN IdleUser
                 ELSE [user EXCEPT !.pc = AfterAdvance(n), !.copy = n]
      /\ UNCHANGED <<jobs, worker, runs, created, handler, watchdog, ops, crashes, stales>>

UserComplete ==
  /\ user.pc = "complete"
  /\ row' = completePipeline(user.copy)
  /\ user' = IdleUser
  /\ UNCHANGED <<jobs, worker, runs, created, handler, watchdog, ops, crashes, stales>>

\* cancelPipelineInternal: the save, then removeStageJob.
UserFinal ==
  /\ user.pc = "final"
  /\ row' = [user.copy EXCEPT !.status = "CANCELLED"]
  /\ user' = [user EXCEPT !.pc = "unqueue"]
  /\ UNCHANGED <<jobs, worker, runs, created, handler, watchdog, ops, crashes, stales>>

UserUnqueue ==
  /\ user.pc = "unqueue"
  /\ jobs' = jobs \ {user.copy.stage}
  /\ user' = IdleUser
  /\ UNCHANGED <<row, worker, runs, created, handler, watchdog, ops, crashes, stales>>

-----------------------------------------------------------------------------
(* The watchdog: BacktestWatchdogService, the pipeline detectors.           *)

\* detectFailed...Pipelines: the run of the current stage is broken.
BrokenRun(s) ==
  /\ row.link[s] # NoRun
  /\ \/ runs[row.link[s]].status = "failed"
     \/ s = PAPER_TRADE /\ runs[row.link[s]].status = "stopped"

\* detectOrphaned...Pipelines: no run for longer than the threshold, which no
\* wait in the queue, no stage execution and no request lasts.
Orphaned(s) ==
  /\ s \in {OPTIMIZE, PAPER_TRADE}
  /\ row.link[s] = NoRun
  /\ s \notin jobs
  /\ worker.pc = "idle" /\ user.pc = "idle"
  /\ \A k \in Kinds, r \in RunIds : handler[k][r].pc \in {"none", "notify", "over"}

WatchdogFind(s) ==
  /\ watchdog.pc = "idle"
  /\ row.status = "RUNNING"
  /\ row.stage = s
  /\ BrokenRun(s) \/ Orphaned(s)
  /\ watchdog' = [pc |-> "update", stage |-> s]
  /\ UNCHANGED <<row, jobs, worker, runs, created, handler, user, ops, crashes, stales>>

\* Mutant: an update by id alone.
WatchdogHitAlways == watchdog.pc = "update"

\* The predicate of the conditional update; the optimization detectors leave
\* out currentStage.
WatchdogHit ==
  row.status = "RUNNING" /\ (watchdog.stage = OPTIMIZE \/ row.stage = watchdog.stage)

WatchdogUpdate ==
  /\ watchdog.pc = "update"
  /\ watchdog' = IdleWatchdog
  /\ IF WatchdogHit THEN UpdateStatus("FAILED") ELSE UNCHANGED row
  /\ UNCHANGED <<jobs, worker, runs, created, handler, user, ops, crashes, stales>>

-----------------------------------------------------------------------------
\* The process dies.  What lives in memory is gone: calls in progress and the
\* events already emitted.  What lives in Redis and Postgres stays: an
\* unacknowledged stage job is delivered again, queued notifications remain,
\* and the recovery services put interrupted runs back to work, paused
\* backtests included; an optimization job is redelivered whatever its run's
\* status says.
Crash ==
  /\ crashes < MaxCrashes /\ ops + crashes < MaxOps
  /\ crashes' = crashes + 1
  /\ jobs' = IF worker.pc = "idle" THEN jobs ELSE jobs \cup {worker.stage}
  /\ worker' = IdleWorker
  /\ user' = IdleUser
  /\ watchdog' = IdleWatchdog
  /\ handler' = [k \in Kinds |-> [r \in RunIds |->
                   IF handler[k][r].pc \in {"none", "notify"} THEN handler[k][r] ELSE Over]]
  /\ runs' = [r \in RunIds |->
       IF \/ runs[r].status = "pausing"
          \/ runs[r].status = "paused" /\ runs[r].stage = LIVE_REPLAY
          \/ runs[r].stage = OPTIMIZE /\ runs[r].alive
       THEN [runs[r] EXCEPT !.status = "active"]
       ELSE [runs[r] EXCEPT !.alive = @ /\ runs[r].status \in {"active", "paused"}]]
  /\ UNCHANGED <<row, created, ops, stales>>

WorkerStep  == (\E s \in Stages \cup {DONE} : WorkerRead(s)) \/ WorkerCreate \/ WorkerLink \/ WorkerAck
CompleteStep(r) ==
  \/ CompleteFind(r) \/ CompleteStore(r) \/ CompleteRefuse(r) \/ CompleteDefer(r)
  \/ CompleteAdvance(r) \/ CompleteEnqueue(r) \/ CompleteFinish(r)
FailedStep(r) == FailedFind(r) \/ FailedSave(r)
RunStep(r) ==
  \/ RunFinish(r) \/ RunFail(r) \/ RunRetry(r) \/ RunPauses(r) \/ StaleKill(r)
  \/ NotifyPipeline(r)
UserStep ==
  \/ UserSave \/ UserEnqueue \/ UserEnqueueFails \/ UserPauseStage \/ UserResumeStage
  \/ UserCancelStage \/ UserCancelStageThrows \/ UserAdvance \/ UserComplete
  \/ UserFinal \/ UserUnqueue
WatchdogStep == (\E s \in Stages : WatchdogFind(s)) \/ WatchdogUpdate

Next ==
  \/ WorkerStep \/ WorkerFail
  \/ \E r \in RunIds : CompleteStep(r) \/ FailedStep(r) \/ RunStep(r)
  \/ UserStart \/ (\E op \in UserOps : UserCall(op)) \/ UserStep
  \/ WatchdogStep
  \/ Crash

Spec == Init /\ [][Next]_vars

(***************************************************************************)
(* What is bound to happen: BullMQ and the event loop run what is pending, *)
(* the cron watchdogs fire again and again, and a working run ends, since  *)
(* it is finite and the stale detectors fail one that hangs.  Nothing is   *)
(* assumed of the user, of failures or of crashes.                         *)
(***************************************************************************)
Fairness ==
  /\ WF_vars(WorkerStep) /\ WF_vars(UserStep) /\ WF_vars(WatchdogStep)
  /\ \A r \in RunIds :
       /\ WF_vars(CompleteStep(r)) /\ WF_vars(FailedStep(r))
       /\ WF_vars(NotifyPipeline(r))
       /\ WF_vars(RunFinish(r) \/ RunFail(r) \/ RunPauses(r))

FairSpec == Spec /\ Fairness

-----------------------------------------------------------------------------
(* Properties.                                                             *)

\* Every entity some part of the code holds in memory or in the table.
Copies ==
  {row, worker.copy, user.copy} \cup {handler[k][r].copy : k \in Kinds, r \in RunIds}

Reported(s, o) ==
  \E r \in RunIds : /\ runs[r].stage = s
                    /\ runs[r].status \in {"completed", "stopped"}
                    /\ runs[r].outcome = o

Satisfied(c, s) == c.result[s] = "skipped" \/ GatePassed(c.result[s])

\* A stage result, in the row or in any entity about to be saved over it, is
\* what a finished run of that very stage reported, whatever operations, lost
\* updates, redeliveries and crashes came in between.
ResultsReal ==
  \A c \in Copies : \A s \in Stages :
    \/ c.result[s] = "none"
    \/ c.result[s] = "skipped" /\ s = OPTIMIZE
    \/ Reported(s, c.result[s])

\* DEPLOY is only ever recommended after a live replay finished with a score
\* that warrants it.
DeploySound == row.rec = "DEPLOY" => Reported(LIVE_REPLAY, "pass")

\* A rejected pipeline says DO_NOT_DEPLOY, whatever stale entity was saved
\* last.
RejectedNotDeploy == row.status = "REJECTED" => row.rec = "DO_NOT_DEPLOY"

\* The pipeline stands at a stage only if every stage before it ran and passed
\* its gate (or was skipped when the pipeline was created).  An inconclusive
\* end jumps to the last stage and is excepted.
EvidenceBacked ==
  row.rec # "INCONCLUSIVE_RETRY" => \A s \in Stages : s < row.stage => Satisfied(row, s)

\* A recommendation to deploy or to review rests on all four stages.
VerdictBacked ==
  row.rec \in {"DEPLOY", "NEEDS_REVIEW"} => \A s \in Stages : Satisfied(row, s)

\* A failed pipeline does not recommend deployment, though the worker and the
\* watchdog fail it by writing the status column alone.
FailedNotDeploy == row.status = "FAILED" => row.rec \notin {"DEPLOY", "NEEDS_REVIEW"}

\* While the pipeline is RUNNING at most one run is active, and it is a run of
\* the current stage.
OneRunOfCurrentStage ==
  \A r, q \in RunIds :
    row.status = "RUNNING" /\ runs[r].status = "active" /\ runs[q].status = "active"
      => r = q /\ runs[r].stage = row.stage

\* A RUNNING pipeline is never abandoned: its stage job waits, is executed or is
\* about to be queued, a call is about to cancel it, or the very run it is
\* linked to works or has an event that is still being handled.
NeverAbandoned ==
  row.status = "RUNNING" =>
    \/ jobs # {} \/ worker.pc \in {"create", "link"} \/ user.pc = "enqueue"
    \/ user.op = "cancel" /\ user.pc \in {"stage", "final"}
    \/ \E r \in RunIds :
         \/ handler["completed"][r].pc = "enqueue"
         \/ /\ row.stage = runs[r].stage /\ row.link[row.stage] = r
            /\ Working(r) \/ \E k \in Kinds : handler[k][r].pc \notin {"none", "over"}

\* Left alone, a pipeline only moves forward: its stage never decreases and a
\* verdict is never withdrawn.
Forward ==
  [][/\ row'.stage >= row.stage
     /\ row.status \in {"COMPLETED", "REJECTED"} => row'.status = row.status]_vars

\* A step that finds and leaves the pipeline PAUSED does not move its stage:
\* handlers of runs that end during the pause store results and stop there.
PausedHolds ==
  [][row.status = "PAUSED" /\ row'.status = "PAUSED" => row'.stage = row.stage]_vars

\* A cancelled pipeline does not run again.
CancelledStays == [][row.status = "CANCELLED" => row'.status # "RUNNING"]_vars

\* A RUNNING pipeline whose paper-trading session is COMPLETED gets past
\* PAPER_TRADE, even if the event that said so was lost.
CompletedSessionHandled ==
  (/\ row.status = "RUNNING" /\ row.stage = PAPER_TRADE
   /\ \E r \in RunIds : row.link[PAPER_TRADE] = r /\ runs[r].status = "completed")
  ~> row.status # "RUNNING"

\* A RUNNING pipeline reaches a terminal status.
Finishes == row.status = "RUNNING" ~> row.status \in Terminal
====
