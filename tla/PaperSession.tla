---------------------------- MODULE PaperSession ----------------------------
(***************************************************************************)
(* One paper-trading session of apps/api/src/order/paper-trading: a row in *)
(* Postgres, and in Redis the scheduler that produces its ticks, a delayed *)
(* retry and the start, stop and notify jobs.  Four actors work on it:     *)
(*   - the queue's only worker, executing one job at a time;               *)
(*   - the user (or the pipeline) calling start, pause, resume, stop and   *)
(*     update;                                                             *)
(*   - the watchdog, a cron job that looks for sessions without a          *)
(*     heartbeat;                                                          *)
(*   - the recovery at boot.                                               *)
(* The worker and the user save the entity they read earlier.  A user call *)
(* changes Redis inside the database transaction, so the jobs are visible  *)
(* before the row is.                                                      *)
(***************************************************************************)
EXTENDS Naturals

CONSTANTS
  MaxErrors,     \* maxConsecutiveErrors
  MaxRetries,    \* maxRetryAttempts
  RecoverAfter,  \* STALE_RECOVERY_THRESHOLD_MS, in watchdog periods
  FailAfter,     \* STALE_FAIL_THRESHOLD_MS, in watchdog periods
  UserOps,       \* the user operations of this instance
  MaxOps,        \* bound on user operations
  MaxCrashes,    \* bound on process crashes
  MaxEvents      \* bound on calls, crashes and the outage together

AllOps   == {"start", "pause", "resume", "stop", "update"}
Statuses == {"PAUSED", "ACTIVE", "STOPPED", "COMPLETED", "FAILED"}

ASSUME SessionAssumption ==
  /\ MaxErrors \in Nat \ {0} /\ MaxRetries \in Nat
  /\ RecoverAfter \in Nat /\ FailAfter \in Nat /\ RecoverAfter < FailAfter
  /\ UserOps \subseteq AllOps /\ MaxOps \in Nat /\ MaxCrashes \in Nat /\ MaxEvents \in Nat

\* An age in watchdog periods; older than FailAfter is all the same.
Oldest == FailAfter + 1
Ages   == 0..Oldest
Older(a) == IF a = Oldest THEN a ELSE a + 1

Never == Oldest + 1       \* lastTickAt is null

\* beat is the age of lastTickAt.  The code only asks whether errors have
\* reached MaxErrors, so they are counted up to there.
Sessions == [status : Statuses, errors : 0..MaxErrors, retries : 0..MaxRetries,
             beat : Ages \cup {Never}]

Jobs        == {"start", "stop", "notify"}
WorkerPcs   == {"idle", "start", "tick", "finalize", "schedule", "complete", "backoff",
                "rebook", "retry", "fail", "tell"}
WatchdogPcs == {"idle", "fail", "tell", "recover", "beat"}

VARIABLES
  session,   \* the row
  touched,   \* age of its updatedAt, counted while lastTickAt is null
  ticking,   \* does the tick scheduler exist?
  retry,     \* is a retry tick queued?
  queue,     \* start, stop and notify jobs waiting
  worker,    \* the job in execution, and the entity it read
  user,      \* the call in progress: the entity it read, the columns it writes
  watchdog,  \* the watchdog (or the recovery at boot) between two awaits
  booting,   \* the process restarted and recoverActiveSessions has not run
  told,      \* was the pipeline sent an event?
  outage,    \* the exchange no longer answers
  ops, crashes

vars == <<session, touched, ticking, retry, queue, worker, user, watchdog, booting,
          told, outage, ops, crashes>>
redis  == <<ticking, retry, queue>>
others == <<booting, outage, ops, crashes>>

New == [status |-> "PAUSED", errors |-> 0, retries |-> 0, beat |-> Never]
IdleWorker == [pc |-> "idle", job |-> "none", copy |-> New]
IdleUser   == [pc |-> "idle", op |-> "none", copy |-> New, cols |-> {}]

Columns == {"status", "errors", "retries", "beat"}

TypeOK ==
  /\ session \in Sessions
  /\ touched \in Ages
  /\ ticking \in BOOLEAN /\ retry \in BOOLEAN /\ queue \subseteq Jobs
  /\ worker \in [pc : WorkerPcs, job : Jobs \cup {"tick", "retry", "none"}, copy : Sessions]
  /\ user \in [pc : {"idle", "read", "tx"}, op : AllOps \cup {"none"}, copy : Sessions,
               cols : SUBSET Columns]
  /\ watchdog \in WatchdogPcs
  /\ booting \in BOOLEAN /\ outage \in BOOLEAN
  /\ told \in BOOLEAN
  /\ ops \in 0..MaxOps /\ crashes \in 0..MaxCrashes

\* A session just created, or one that runs.
Init ==
  /\ session \in {New, [New EXCEPT !.status = "ACTIVE", !.beat = 0]}
  /\ touched = 0
  /\ ticking = (session.status = "ACTIVE")
  /\ retry = FALSE /\ queue = {}
  /\ worker = IdleWorker /\ user = IdleUser /\ watchdog = "idle"
  /\ booting = FALSE /\ outage = FALSE
  /\ told = FALSE /\ ops = 0 /\ crashes = 0

-----------------------------------------------------------------------------
(* Writes.                                                                 *)

\* A transaction that has written the row keeps other writers waiting.
RowFree == user.pc = "tx" => user.cols = {}

\* repository.save: the row becomes the entity; @UpdateDateColumn is set.
Save(c) == RowFree /\ session' = c /\ touched' = 0

\* repository.update of one column, lastTickAt or the status.
UpdateLastTickAt == RowFree /\ session' = [session EXCEPT !.beat = 0] /\ touched' = 0
UpdateStatus(st) == RowFree /\ session' = [session EXCEPT !.status = st] /\ touched' = 0

removeTickJobs  == ticking' = FALSE /\ retry' = FALSE
scheduleTickJob == ticking' = TRUE

\* Mutant: the event is left out.
CleanupOnly == removeTickJobs /\ UNCHANGED <<told, queue>>

\* The end of markFailed and of markCompleted: cleanupSession, then the event.
CleanupAndTell == removeTickJobs /\ told' = TRUE /\ UNCHANGED queue

-----------------------------------------------------------------------------
(* The worker: PaperTradingProcessor, PaperTradingRetryService.            *)

Idle == worker' = IdleWorker
\* An entity no longer used is forgotten (New).
Goto(pc, c) == worker' = [worker EXCEPT !.pc = pc, !.copy = c]
Take(job, pc) == worker' = [pc |-> pc, job |-> job, copy |-> session]

\* A start job for a session that is not ACTIVE (yet) is dropped.
TakeStart ==
  /\ worker.pc = "idle" /\ "start" \in queue
  /\ queue' = queue \ {"start"}
  /\ IF session.status = "ACTIVE" THEN Take("start", "start") ELSE UNCHANGED worker
  /\ UNCHANGED <<session, touched, ticking, retry, user, watchdog, told, others>>

\* handleStartSession: initial metrics are saved, then ticks scheduled.
StartSave ==
  /\ worker.pc = "start"
  /\ Save(worker.copy)
  /\ Goto("schedule", New)
  /\ UNCHANGED <<redis, user, watchdog, told, others>>

\* Of handleStartSession and of a successful retry.
Schedule ==
  /\ worker.pc = "schedule"
  /\ scheduleTickJob
  /\ Idle
  /\ UNCHANGED <<session, touched, retry, queue, user, watchdog, told, others>>

\* Anything throws in handleStartSession: its catch block calls markFailed.
StartThrows ==
  /\ worker.pc \in {"start", "schedule"} /\ worker.job = "start"
  /\ Goto("fail", New)
  /\ UNCHANGED <<session, touched, redis, user, watchdog, told, others>>

\* handleTick reads the session.  A FAILED session loses its scheduler (what
\* cleanedUpSessions remembers only spares repeating that); the ticks of other
\* sessions that are not ACTIVE do nothing.
TakeTick ==
  /\ worker.pc = "idle" /\ ticking
  /\ session.status \in {"ACTIVE", "FAILED"}
  /\ IF session.status = "ACTIVE"
     THEN Take("tick", "tick") /\ UNCHANGED <<ticking, retry>>
     ELSE removeTickJobs /\ UNCHANGED worker
  /\ UNCHANGED <<session, touched, queue, user, watchdog, told, others>>

TakeRetry ==
  /\ worker.pc = "idle" /\ retry
  /\ retry' = FALSE
  /\ IF session.status = "ACTIVE" THEN Take("retry", "tick") ELSE UNCHANGED worker
  /\ UNCHANGED <<session, touched, ticking, queue, user, watchdog, told, others>>

\* processTick succeeded: applySuccessfulTickResult and the save.  Then a stop
\* condition completes the session; a retry restores the scheduler.
TickSucceeds ==
  LET c == [worker.copy EXCEPT !.errors = 0, !.retries = 0, !.beat = 0]
  IN  /\ worker.pc = "tick" /\ ~outage
      /\ Save(c)
      /\ \/ Goto("complete", New)
         \/ IF worker.job = "retry" THEN Goto("schedule", New) ELSE Idle
      /\ UNCHANGED <<redis, user, watchdog, told, others>>

\* processTick failed and may succeed later.  A tick counts the error and saves;
\* a retry goes on to the next backoff at once.
TickFails ==
  LET c == [worker.copy EXCEPT !.errors = IF @ = MaxErrors THEN @ ELSE @ + 1]
  IN  /\ worker.pc = "tick"
      /\ IF worker.job = "tick"
         THEN /\ Save(c)
              /\ IF c.errors >= MaxErrors THEN Goto("backoff", c) ELSE Idle
         ELSE Goto("backoff", worker.copy) /\ UNCHANGED <<session, touched>>
      /\ UNCHANGED <<redis, user, watchdog, told, others>>

\* An UnrecoverableError.
TickIsFatal ==
  /\ worker.pc = "tick"
  /\ Goto("fail", New)
  /\ UNCHANGED <<session, touched, redis, user, watchdog, told, others>>

\* Mutant: the attempt is not counted.
backoffUncounted(c) == [c EXCEPT !.errors = 0]

backoff(c) == [c EXCEPT !.errors = 0, !.retries = @ + 1]

\* Mutant: off by one.
RetryOneMore(c) == c.retries <= MaxRetries

RetryLeft(c) == c.retries < MaxRetries

\* handleConsecutiveErrors: the save, the removal of the scheduler, the retry
\* job.  With no attempt left the session fails.
Backoff ==
  /\ worker.pc = "backoff"
  /\ IF RetryLeft(worker.copy)
     THEN Save(backoff(worker.copy)) /\ Goto("rebook", New)
     ELSE Goto("fail", New) /\ UNCHANGED <<session, touched>>
  /\ UNCHANGED <<redis, user, watchdog, told, others>>

BackoffRemove ==
  /\ worker.pc = "rebook"
  /\ removeTickJobs
  /\ Goto("retry", New)
  /\ UNCHANGED <<session, touched, queue, user, watchdog, told, others>>

BackoffRetry ==
  /\ worker.pc = "retry"
  /\ retry' = TRUE
  /\ Idle
  /\ UNCHANGED <<session, touched, ticking, queue, user, watchdog, told, others>>

\* markFailed does not look at the status it overwrites.
WorkerMarkFailed ==
  /\ worker.pc = "fail"
  /\ UpdateStatus("FAILED")
  /\ Goto("tell", New)
  /\ UNCHANGED <<redis, user, watchdog, told, others>>

\* markCompleted reads the row again before it saves.
WorkerMarkCompleted ==
  /\ worker.pc = "complete"
  /\ UpdateStatus("COMPLETED")
  /\ Goto("tell", New)
  /\ UNCHANGED <<redis, user, watchdog, told, others>>

WorkerTell ==
  /\ worker.pc = "tell"
  /\ CleanupAndTell
  /\ Idle
  /\ UNCHANGED <<session, touched, user, watchdog, others>>

\* handleStopSession: final metrics are computed and the entity saved.
TakeStop ==
  /\ worker.pc = "idle" /\ "stop" \in queue
  /\ queue' = queue \ {"stop"}
  /\ Take("stop", "finalize")
  /\ UNCHANGED <<session, touched, ticking, retry, user, watchdog, told, others>>

Finalize ==
  /\ worker.pc = "finalize"
  /\ Save(worker.copy)
  /\ Idle
  /\ UNCHANGED <<redis, user, watchdog, told, others>>

\* handleNotifyPipeline.
TakeNotify ==
  /\ worker.pc = "idle" /\ "notify" \in queue
  /\ queue' = queue \ {"notify"}
  /\ told' = TRUE
  /\ UNCHANGED <<session, touched, ticking, retry, worker, user, watchdog, others>>

WorkerStep ==
  \/ TakeStart \/ StartSave \/ Schedule
  \/ TakeTick \/ TakeRetry \/ TickSucceeds \/ TickFails
  \/ Backoff \/ BackoffRemove \/ BackoffRetry
  \/ WorkerMarkFailed \/ WorkerMarkCompleted \/ WorkerTell
  \/ TakeStop \/ Finalize \/ TakeNotify

-----------------------------------------------------------------------------
(* The user: PaperTradingService, one call at a time.                      *)

Accepts(op) ==
  CASE op = "start"  -> {"PAUSED", "STOPPED"}
    [] op = "pause"  -> {"ACTIVE"}
    [] op = "resume" -> {"PAUSED"}
    [] op = "stop"   -> {"ACTIVE", "PAUSED"}
    [] op = "update" -> Statuses \ {"ACTIVE"}

\* The calls, crashes and outages of a behaviour are bounded together too.
EventsLeft == ops + crashes + (IF outage THEN 1 ELSE 0) < MaxEvents

UserRead(op) ==
  /\ user.pc = "idle" /\ ops < MaxOps /\ EventsLeft
  /\ session.status \in Accepts(op)
  /\ user' = [pc |-> "read", op |-> op, copy |-> session, cols |-> {}]
  /\ ops' = ops + 1
  /\ UNCHANGED <<session, touched, redis, worker, watchdog, told, booting, outage, crashes>>

\* What each operation assigns.
Assign(op, c) ==
  CASE op \in {"start", "resume"} -> [c EXCEPT !.status = "ACTIVE", !.errors = 0, !.retries = 0]
    [] op = "pause"  -> [c EXCEPT !.status = "PAUSED"]
    [] op = "stop"   -> [c EXCEPT !.status = "STOPPED"]
    [] op = "update" -> c

\* The columns cols of one entity, and the others of another.
Merge(cols, c, d) ==
  [status  |-> IF "status" \in cols THEN c.status ELSE d.status,
   errors  |-> IF "errors" \in cols THEN c.errors ELSE d.errors,
   retries |-> IF "retries" \in cols THEN c.retries ELSE d.retries,
   beat    |-> IF "beat" \in cols THEN c.beat ELSE d.beat]

\* Mutant: the pipeline's notification is left to the worker's memory.
StopJobOnly == removeTickJobs /\ queue' = queue \cup {"stop"}

\* What stop() does to the jobs.
StopJobs == removeTickJobs /\ queue' = queue \cup {"stop", "notify"}

\* The save inside the transaction writes the columns in which the entity
\* differs from the row; the jobs change before the transaction commits.
UserTransaction ==
  LET c == Assign(user.op, user.copy)
  IN  /\ user.pc = "read"
      /\ LET cols == {f \in Columns : c[f] # session[f]}
         IN  user' = [user EXCEPT !.pc = "tx", !.cols = cols,
                        !.copy = Merge(cols, c, New)]
      /\ CASE user.op = "start"  -> queue' = queue \cup {"start"} /\ UNCHANGED <<ticking, retry>>
           [] user.op = "pause"  -> removeTickJobs /\ UNCHANGED queue
           [] user.op = "resume" -> scheduleTickJob /\ UNCHANGED <<retry, queue>>
           [] user.op = "stop"   -> StopJobs
           [] user.op = "update" -> UNCHANGED redis
      /\ UNCHANGED <<session, touched, worker, watchdog, told, others>>

UserCommit ==
  /\ user.pc = "tx"
  /\ session' = Merge(user.cols, user.copy, session)
  /\ touched' = 0
  /\ user' = IdleUser
  /\ UNCHANGED <<redis, worker, watchdog, told, others>>

\* A job operation throws and the transaction is rolled back; jobs already
\* changed stay changed.
UserRollback ==
  /\ user.pc = "tx" /\ user.op # "update"
  /\ user' = IdleUser
  /\ UNCHANGED <<session, touched, redis, worker, watchdog, told, others>>

-----------------------------------------------------------------------------
(* The watchdog and the recovery at boot: PaperTradingRecoveryService.     *)

\* A period of five minutes passes, more than a call takes, and
\* detectStaleSessions looks at the row.
Heartbeat(s, t) == IF s.beat = Never THEN t ELSE s.beat
OlderCopy(c) == [c EXCEPT !.beat = IF @ = Never THEN @ ELSE Older(@)]

WatchdogPeriod ==
  /\ watchdog = "idle" /\ ~booting /\ user.pc = "idle"
  /\ session' = OlderCopy(session)
  /\ touched' = IF session.beat = Never THEN Older(touched) ELSE 0
  /\ worker' = [worker EXCEPT !.copy = OlderCopy(@)]
  /\ LET h == Heartbeat(session, touched)'
     IN  watchdog' = CASE session.status # "ACTIVE" -> "idle"
                       [] session.status = "ACTIVE" /\ h > FailAfter -> "fail"
                       [] session.status = "ACTIVE" /\ h > RecoverAfter /\ h <= FailAfter -> "recover"
                       [] OTHER -> "idle"
  /\ UNCHANGED <<redis, user, told, others>>

\* Mutant: the scheduler is removed and not put back.
recoverWithoutScheduling == removeTickJobs

recover == ticking' = TRUE /\ retry' = FALSE

\* removeTickJobs and scheduleTickJob, then lastTickAt.
WatchdogRecover ==
  /\ watchdog = "recover"
  /\ recover
  /\ watchdog' = "beat"
  /\ UNCHANGED <<session, touched, queue, worker, user, told, others>>

WatchdogBeat ==
  /\ watchdog = "beat"
  /\ UpdateLastTickAt
  /\ watchdog' = "idle"
  /\ UNCHANGED <<redis, worker, user, told, others>>

WatchdogMarkFailed ==
  /\ watchdog = "fail"
  /\ UpdateStatus("FAILED")
  /\ watchdog' = "tell"
  /\ UNCHANGED <<redis, worker, user, told, others>>

WatchdogTell ==
  /\ watchdog = "tell"
  /\ CleanupAndTell
  /\ watchdog' = "idle"
  /\ UNCHANGED <<session, touched, worker, user, others>>

\* recoverActiveSessions; a session that cannot be recovered is failed.
Boot ==
  /\ booting /\ watchdog = "idle"
  /\ booting' = FALSE
  /\ watchdog' \in IF session.status = "ACTIVE" THEN {"recover", "fail"} ELSE {"idle"}
  /\ UNCHANGED <<session, touched, redis, worker, user, told, outage, ops, crashes>>

\* The process dies.  BullMQ delivers the unfinished job again.
Crash ==
  /\ crashes < MaxCrashes /\ EventsLeft
  /\ crashes' = crashes + 1
  /\ queue' = queue \cup ({worker.job} \cap Jobs)
  /\ retry' = (retry \/ worker.job = "retry")
  /\ worker' = IdleWorker /\ user' = IdleUser /\ watchdog' = "idle"
  /\ booting' = TRUE
  /\ UNCHANGED <<session, touched, ticking, told, outage, ops>>

\* The exchange goes away for good: no tick succeeds any more.
Outage ==
  /\ ~outage /\ EventsLeft
  /\ outage' = TRUE
  /\ UNCHANGED <<session, touched, redis, worker, user, watchdog, told, booting, ops, crashes>>

WatchdogStep ==
  WatchdogPeriod \/ WatchdogRecover \/ WatchdogBeat \/ WatchdogMarkFailed \/ WatchdogTell \/ Boot
UserStep == UserTransaction \/ UserCommit

Next ==
  \/ WorkerStep \/ StartThrows \/ TickIsFatal
  \/ (\E op \in UserOps : UserRead(op)) \/ UserStep \/ UserRollback
  \/ WatchdogStep
  \/ Crash \/ Outage

Spec == Init /\ [][Next]_vars

\* The worker keeps executing jobs, calls end, and the cron job fires.
FairSpec ==
  /\ Spec
  /\ WF_vars(WorkerStep) /\ WF_vars(UserStep) /\ WF_vars(WatchdogStep)

-----------------------------------------------------------------------------
(* Properties.                                                             *)

\* An ACTIVE session does not fall silent: whatever start job was dropped,
\* transaction rolled back or scheduler removed, it is ticking again (or about
\* to retry) before long, or is no longer ACTIVE.
ActiveTicks == session.status = "ACTIVE" ~> (ticking \/ retry \/ session.status # "ACTIVE")

\* When the exchange is gone for good, the error count, the retries and the
\* watchdog between them end the session, although each resets the others'
\* schedule.
OutageEnds == (outage /\ session.status = "ACTIVE") ~> session.status # "ACTIVE"

\* The pipeline learns of an end, unless the process crashed.
EndIsTold ==
  session.status \in {"COMPLETED", "FAILED"} ~> (told \/ crashes > 0)

\* No end gets past the pipeline.  Whichever entity is saved over the row, a
\* session that shows COMPLETED or FAILED has been announced or the announcer
\* is at work (a crash may silence it), and a STOPPED one has been announced or
\* has its notification in Redis, crash or not ("persisted even if the process
\* crashes", stop()).
EndNotLost ==
  /\ session.status \in {"COMPLETED", "FAILED"} =>
       told \/ worker.pc = "tell" \/ watchdog = "tell" \/ crashes > 0
  /\ session.status = "STOPPED" => told \/ "notify" \in queue

\* A paused session becomes ACTIVE only through start() or resume().
PauseHolds ==
  [][session.status = "PAUSED" /\ session'.status = "ACTIVE" => user.op \in {"start", "resume"}]_vars
====
