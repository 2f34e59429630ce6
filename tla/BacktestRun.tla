---------------------------- MODULE BacktestRun ----------------------------
(***************************************************************************)
(* One backtest of apps/api/src/order/backtest: its row and its results in *)
(* Postgres, its job and its pause flag in Redis, and those who work on    *)
(* them: the queue workers that execute it bar by bar and save a           *)
(* checkpoint every Interval bars, the user who pauses, cancels and        *)
(* resumes it, the recovery at boot, which runs while the workers already  *)
(* take jobs, and the watchdog.  The process may stop in order or crash.   *)
(*                                                                         *)
(* Every bar yields one row of results.  A worker keeps the rows of the    *)
(* bars start .. next-1 in memory; base counts the rows before them.       *)
(* update() and save() skip undefined, so "checkpointState = undefined"    *)
(* (clearCheckpoint, a checkpoint that is too old) leaves the column as it *)
(* is.                                                                     *)
(***************************************************************************)
EXTENDS Integers, FiniteSets

CONSTANTS
  NumBars,      \* bars of the data set
  Interval,     \* bars between two checkpoints
  Types,        \* the types of backtest of this instance
  Workers,      \* the slots of the queue worker: its concurrency
  MaxResumes,   \* MAX_AUTO_RESUME_COUNT
  MaxOps,       \* bound on user operations
  Faults,       \* the kinds of fault that may happen
  MaxFaults     \* bound on the faults that do

\* The process dies, it is told to stop, the engine or a query throws, so does
\* the query that reports it, Redis refuses a job, a live run stands still.
FaultKinds == {"crash", "stop", "error", "db", "redis", "stall"}

BacktestTypes == {"HISTORICAL", "LIVE_REPLAY"}

ASSUME BacktestAssumption ==
  /\ NumBars \in Nat \ {0} /\ Interval \in Nat \ {0}
  /\ Types \subseteq BacktestTypes
  /\ MaxResumes \in Nat /\ MaxOps \in Nat
  /\ Faults \subseteq FaultKinds /\ MaxFaults \in Nat

Bars == 0 .. NumBars - 1

BacktestStatus == {"PENDING", "RUNNING", "PAUSED", "COMPLETED", "FAILED", "CANCELLED"}

\* lastProcessedIndex and persistedCounts; NoCheckpoint is null.
Checkpoints  == [at : -1 .. NumBars - 1, counts : Nat]
NoCheckpoint == [at |-> -1, counts |-> 0, none |-> TRUE]

VARIABLES
  backtest,  \* the row
  results,   \* the rows of results, per bar
  job,       \* the run's job: none, waiting, stalled, or the worker that holds it
  flag,      \* the pause flag
  worker,    \* per slot: where it is, and its loop context
  process,   \* up, stopping (the abort signal is set) or down
  recovery,  \* the recovery at boot, and the row it found
  request,   \* a create or resume call between its save and its queue.add
  ops,       \* user operations so far
  faults,    \* faults so far
  tainted    \* did a run start with rows it does not know, or next to another, or drop rows it made?

vars == <<backtest, results, job, flag, worker, process, recovery, request, ops, faults, tainted>>

Rows == [type : BacktestTypes, status : BacktestStatus, resumes : 0 .. MaxResumes,
         checkpoint : Checkpoints \cup {NoCheckpoint}]

Idle == [pc |-> "idle", start |-> 0, next |-> 0, base |-> 0]

\* begin: PENDING was read; clear: RUNNING is saved; save: the rows are stored
\* and the checkpoint is not; paused: PAUSED is saved.
WorkerPcs == {"idle", "begin", "clear", "loop", "save", "paused"}

NotRecovering == [pc |-> "idle", status |-> "PENDING", checkpoint |-> NoCheckpoint]

\* Every variable holds a value the code can store, and a worker never holds
\* the rows of more bars than lie between two checkpoints.
TypeOK ==
  /\ backtest \in Rows
  /\ results \in [Bars -> Nat]
  /\ job \in {"none", "waiting", "stalled"} \cup Workers
  /\ flag \in BOOLEAN /\ request \in BOOLEAN /\ tainted \in BOOLEAN
  /\ worker \in [Workers -> [pc : WorkerPcs, start : 0 .. NumBars, next : 0 .. NumBars, base : Nat]]
  /\ \A w \in Workers : worker[w].next - worker[w].start \in 0 .. Interval
  /\ process \in {"up", "stopping", "down"}
  /\ recovery \in [pc : {"idle", "find", "act", "add"}, status : BacktestStatus,
                   checkpoint : Checkpoints \cup {NoCheckpoint}]
  /\ ops \in 0 .. MaxOps /\ faults \in 0 .. MaxFaults

\* createBacktest has saved the row.
Init ==
  /\ backtest \in [type : Types, status : {"PENDING"}, resumes : {0}, checkpoint : {NoCheckpoint}]
  /\ results = [b \in Bars |-> 0]
  /\ job = "none" /\ flag = FALSE /\ request = TRUE /\ tainted = FALSE
  /\ worker = [w \in Workers |-> Idle]
  /\ process = "up" /\ recovery = NotRecovering
  /\ ops = 0 /\ faults = 0

-----------------------------------------------------------------------------
Fault(kind) ==
  /\ kind \in Faults /\ faults < MaxFaults
  /\ faults' = faults + 1

At(w, pc) == worker[w].pc = pc

Executing(w) == worker[w].pc \in {"begin", "clear", "loop", "save"}

Saved(status) == backtest' = [backtest EXCEPT !.status = status]

\* The rows a worker holds in memory, and how many there are.
Held(w) == worker[w].start .. worker[w].next - 1

Due(w) == worker[w].next - worker[w].start

WithHeld(w) == [b \in Bars |-> results[b] + IF b \in Held(w) THEN 1 ELSE 0]

\* The rows of the bars before n: how many are stored.
RowsBefore(n) == Cardinality(UNION {{b} \X (1 .. results[b]) : b \in 0 .. n - 1})

Stored == RowsBefore(NumBars)

\* process() returns: BullMQ removes the job if the worker still holds it.
JobDone(w) ==
  /\ worker' = [worker EXCEPT ![w] = Idle]
  /\ job' = IF job = w THEN "none" ELSE job

-----------------------------------------------------------------------------
(* The results.                                                            *)

\* Mutant: the oldest rows go.
CleanedFromTheStart(expected) ==
  [b \in Bars |-> Cardinality({i \in 1 .. results[b] : Stored - (RowsBefore(b) + i) < expected})]

\* cleanupOrphanedForEntity: the newest rows above the expected count go.
Cleaned(expected) ==
  [b \in Bars |-> Cardinality({i \in 1 .. results[b] : RowsBefore(b) + i <= expected})]

\* The snapshot of a run's state: how far it is, and how many rows there are.
buildSnapshot(w) == [at |-> worker[w].next - 1, counts |-> worker[w].base + Due(w)]

-----------------------------------------------------------------------------
(* The worker.                                                             *)

Take(w) ==
  /\ process = "up" /\ At(w, "idle") /\ job = "waiting"
  /\ IF backtest.status = "PENDING"
     THEN \E c \in {backtest.checkpoint} :
            /\ job' = w
            /\ results' = IF c = NoCheckpoint THEN results ELSE Cleaned(c.counts)
            /\ worker' = [worker EXCEPT ![w] = [pc |-> "begin", start |-> c.at + 1,
                                                next |-> c.at + 1, base |-> c.counts]]
            /\ tainted' = (tainted \/ (c = NoCheckpoint /\ Stored > 0)
                               \/ \E v \in Workers : Executing(v))
     ELSE job' = "none" /\ UNCHANGED <<results, worker, tainted>>
  /\ UNCHANGED <<backtest, flag, process, recovery, request, ops, faults>>

Start(w) ==
  /\ At(w, "begin")
  /\ Saved("RUNNING")
  /\ worker' = [worker EXCEPT ![w].pc = "clear"]
  /\ UNCHANGED <<results, job, flag, process, recovery, request, ops, faults, tainted>>

\* A live replay clears the flag; then the coins are resolved, and a warning
\* saves the entity once more, RUNNING.
EnterLoop(w) ==
  /\ At(w, "clear")
  /\ flag' = (flag /\ backtest.type = "HISTORICAL")
  /\ Saved("RUNNING") \/ UNCHANGED backtest
  /\ worker' = [worker EXCEPT ![w].pc = "loop"]
  /\ UNCHANGED <<results, job, process, recovery, request, ops, faults, tainted>>

\* The abort signal is looked at after every bar.
Aborting(w) == process = "stopping" /\ Due(w) > 0

Paused == backtest.type = "LIVE_REPLAY" /\ flag

\* Mutant: the pace of the checkpoints is one bar behind.
ProcessBarLate(w) ==
  /\ At(w, "loop") /\ worker[w].next < NumBars
  /\ Due(w) <= Interval /\ ~Aborting(w) /\ ~Paused
  /\ worker' = [worker EXCEPT ![w].next = @ + 1]
  /\ UNCHANGED <<backtest, results, job, flag, process, recovery, request, ops, faults, tainted>>

ProcessBar(w) ==
  /\ At(w, "loop") /\ worker[w].next < NumBars
  /\ Due(w) < Interval /\ ~Aborting(w) /\ ~Paused
  /\ worker' = [worker EXCEPT ![w].next = @ + 1]
  /\ UNCHANGED <<backtest, results, job, flag, process, recovery, request, ops, faults, tainted>>

\* onCheckpoint, its first half; writeEmergencyAndAbort calls it as well.
PersistIncremental(w) ==
  /\ At(w, "loop") /\ (Due(w) = Interval \/ Aborting(w))
  /\ results' = WithHeld(w)
  /\ worker' = [worker EXCEPT ![w].pc = "save"]
  /\ UNCHANGED <<backtest, job, flag, process, recovery, request, ops, faults, tainted>>

\* Mutant: the counts of a checkpoint leave out the rows it was saved with.
SaveCheckpointOfLast(w) ==
  /\ At(w, "save")
  /\ backtest' = [backtest EXCEPT !.checkpoint = [buildSnapshot(w) EXCEPT !.counts = worker[w].base]]
  /\ \/ /\ process = "up" \/ Due(w) = Interval
        /\ worker' = [worker EXCEPT ![w] = [pc |-> "loop", start |-> @.next, next |-> @.next,
                                            base |-> @.base + Due(w)]]
        /\ UNCHANGED job
     \/ process = "stopping" /\ JobDone(w)
  /\ UNCHANGED <<results, flag, process, recovery, request, ops, faults, tainted>>

\* Its second half.  The emergency checkpoint ends the execution and leaves
\* the row RUNNING.
SaveCheckpoint(w) ==
  /\ At(w, "save")
  /\ backtest' = [backtest EXCEPT !.checkpoint = buildSnapshot(w)]
  /\ \/ /\ process = "up" \/ Due(w) = Interval
        /\ worker' = [worker EXCEPT ![w] = [pc |-> "loop", start |-> @.next, next |-> @.next,
                                            base |-> @.base + Due(w)]]
        /\ UNCHANGED job
     \/ process = "stopping" /\ JobDone(w)
  /\ UNCHANGED <<results, flag, process, recovery, request, ops, faults, tainted>>

\* The loop is over: persistSuccess, whatever the status is by now.
Finish(w) ==
  /\ At(w, "loop") /\ worker[w].next = NumBars
  /\ Due(w) < Interval /\ ~Aborting(w)
  /\ results' = WithHeld(w)
  /\ Saved("COMPLETED")
  /\ flag' = (flag /\ backtest.type = "HISTORICAL")
  /\ JobDone(w)
  /\ UNCHANGED <<process, recovery, request, ops, faults, tainted>>

\* buildPauseResult and onPaused: a checkpoint, and the rows held are dropped.
Pause(w) ==
  /\ At(w, "loop") /\ worker[w].next < NumBars
  /\ Due(w) < Interval /\ ~Aborting(w) /\ Paused
  /\ backtest' = [backtest EXCEPT !.status = "PAUSED", !.checkpoint = buildSnapshot(w)]
  /\ worker' = [worker EXCEPT ![w] = [Idle EXCEPT !.pc = "paused"]]
  /\ tainted' = (tainted \/ Due(w) > 0)
  /\ UNCHANGED <<results, job, flag, process, recovery, request, ops, faults>>

PauseEnds(w) ==
  /\ At(w, "paused")
  /\ flag' = FALSE
  /\ JobDone(w)
  /\ UNCHANGED <<backtest, results, process, recovery, request, ops, faults, tainted>>

\* Something throws, and the catch block marks the run FAILED, or cannot; or a
\* heartbeat finds it FAILED already.
Fail(w) ==
  /\ Executing(w)
  /\ \/ Fault("error") /\ Saved("FAILED")
     \/ Fault("db") /\ UNCHANGED backtest
     \/ At(w, "loop") /\ backtest.status = "FAILED" /\ UNCHANGED <<backtest, faults>>
  /\ JobDone(w)
  /\ UNCHANGED <<results, flag, process, recovery, request, ops, tainted>>

-----------------------------------------------------------------------------
(* The user.                                                               *)

UserOp ==
  /\ process = "up" /\ ops < MaxOps /\ ~request
  /\ ops' = ops + 1

\* job.remove() throws when a worker holds the job, or held it and died.
CancelBacktest ==
  /\ UserOp /\ backtest.status \in {"RUNNING", "PENDING"}
  /\ job \in {"none", "waiting"}
  /\ job' = "none"
  /\ Saved("CANCELLED")
  /\ UNCHANGED <<results, flag, worker, process, recovery, request, faults, tainted>>

PauseBacktest ==
  /\ UserOp /\ backtest.status = "RUNNING" /\ backtest.type = "LIVE_REPLAY"
  /\ flag' = TRUE
  /\ UNCHANGED <<backtest, results, job, worker, process, recovery, request, faults, tainted>>

ResumeBacktest ==
  /\ UserOp /\ backtest.status \in {"PAUSED", "CANCELLED", "FAILED"}
  /\ Saved("PENDING")
  /\ request' = TRUE
  /\ UNCHANGED <<results, job, flag, worker, process, recovery, faults, tainted>>

\* forceRemoveJob takes the job even from a worker that is executing it.
Enqueue ==
  /\ request /\ request' = FALSE
  /\ \/ job' = "waiting" /\ UNCHANGED faults
     \/ Fault("redis") /\ UNCHANGED job
  /\ UNCHANGED <<backtest, results, flag, worker, process, recovery, ops, tainted>>

-----------------------------------------------------------------------------
(* The process.                                                            *)

Down ==
  /\ process' = "down"
  /\ worker' = [w \in Workers |-> Idle]
  /\ job' = IF job \in Workers THEN "stalled" ELSE job
  /\ recovery' = NotRecovering /\ request' = FALSE
  /\ UNCHANGED <<backtest, results, flag, ops, tainted>>

Crash == process # "down" /\ Fault("crash") /\ Down

Shutdown ==
  /\ process = "up" /\ Fault("stop") /\ process' = "stopping"
  /\ UNCHANGED <<backtest, results, job, flag, worker, recovery, request, ops, tainted>>

Exit ==
  /\ process = "stopping" /\ ~request
  /\ \A w \in Workers : At(w, "idle")
  /\ Down /\ UNCHANGED faults

\* The workers start before onApplicationBootstrap.
Boot ==
  /\ process = "down"
  /\ process' = "up" /\ recovery' = [NotRecovering EXCEPT !.pc = "find"]
  /\ UNCHANGED <<backtest, results, job, flag, worker, request, ops, faults, tainted>>

\* The lock of a dead worker lapses and BullMQ hands the job out again; a pause
\* flag nobody asks for expires.
Redeliver ==
  /\ process = "up" /\ job = "stalled" /\ job' = "waiting"
  /\ UNCHANGED <<backtest, results, flag, worker, process, recovery, request, ops, faults, tainted>>

FlagExpires ==
  /\ flag /\ flag' = FALSE /\ \A w \in Workers : ~At(w, "loop")
  /\ UNCHANGED <<backtest, results, job, worker, process, recovery, request, ops, faults, tainted>>

-----------------------------------------------------------------------------
(* The recovery at boot, and the watchdog.                                 *)

RecoveryFinds ==
  /\ recovery.pc = "find"
  /\ recovery' = IF backtest.status \in {"RUNNING", "PAUSED", "PENDING"}
                 THEN [pc |-> "act", status |-> backtest.status, checkpoint |-> backtest.checkpoint]
                 ELSE NotRecovering
  /\ UNCHANGED <<backtest, results, job, flag, worker, process, request, ops, faults, tainted>>

\* recoverSingleBacktest up to its update(), which writes what was found.
RecoveryActs ==
  /\ recovery.pc = "act"
  /\ \/ /\ recovery.status = "PENDING" /\ job = "waiting"
        /\ recovery' = NotRecovering
        /\ UNCHANGED <<backtest, job>>
     \/ /\ ~(recovery.status = "PENDING" /\ job = "waiting")
        /\ backtest.resumes >= MaxResumes
        /\ Saved("FAILED")
        /\ recovery' = NotRecovering
        /\ UNCHANGED job
     \/ /\ ~(recovery.status = "PENDING" /\ job = "waiting")
        /\ backtest.resumes < MaxResumes
        /\ job' = "none"
        /\ backtest' = [backtest EXCEPT !.status = "PENDING", !.resumes = backtest.resumes + 1,
                          !.checkpoint = IF recovery.checkpoint = NoCheckpoint THEN backtest.checkpoint
                                         ELSE recovery.checkpoint]
        /\ recovery' = [recovery EXCEPT !.pc = "add"]
  /\ UNCHANGED <<results, flag, worker, process, request, ops, faults, tainted>>

RecoveryAdds ==
  /\ recovery.pc = "add"
  /\ recovery' = NotRecovering
  /\ \/ job' = "waiting" /\ UNCHANGED <<backtest, faults>>
     \/ Fault("redis") /\ Saved("FAILED") /\ UNCHANGED job
  /\ UNCHANGED <<results, flag, worker, process, request, ops, tainted>>

\* Mutant: a run that was never started is not looked at.
WatchdogOfRunning ==
  /\ process = "up" /\ recovery.pc = "idle" /\ ~request
  /\ backtest.status = "RUNNING"
  /\ \/ (\A w \in Workers : At(w, "idle")) /\ UNCHANGED faults
     \/ (\E w \in Workers : At(w, "loop")) /\ Fault("stall")
  /\ Saved("FAILED")
  /\ UNCHANGED <<results, job, flag, worker, process, recovery, request, ops, tainted>>

\* detectStaleBacktests and markFailed: no heartbeat, or PENDING without a job.
\* A stall makes it take a live run for dead.
Watchdog ==
  /\ process = "up" /\ recovery.pc = "idle" /\ ~request
  /\ \/ /\ backtest.status = "RUNNING"
        /\ \/ (\A w \in Workers : At(w, "idle")) /\ UNCHANGED faults
           \/ (\E w \in Workers : At(w, "loop")) /\ Fault("stall")
     \/ backtest.status = "PENDING" /\ job = "none" /\ UNCHANGED faults
  /\ Saved("FAILED")
  /\ UNCHANGED <<results, job, flag, worker, process, recovery, request, ops, tainted>>

-----------------------------------------------------------------------------
Work(w) ==
  \/ Take(w) \/ Start(w) \/ EnterLoop(w) \/ ProcessBar(w) \/ PersistIncremental(w)
  \/ SaveCheckpoint(w) \/ Finish(w) \/ Pause(w) \/ PauseEnds(w)

System == Enqueue \/ Exit \/ Boot \/ Redeliver \/ RecoveryFinds \/ RecoveryActs \/ RecoveryAdds \/ Watchdog

Next ==
  \/ \E w \in Workers : Work(w) \/ Fail(w)
  \/ System
  \/ CancelBacktest \/ PauseBacktest \/ ResumeBacktest
  \/ Crash \/ Shutdown \/ FlagExpires

Spec == Init /\ [][Next]_vars

\* The workers execute, the process is started again, the recovery and the
\* watchdog's cron run.
FairSpec ==
  /\ Spec
  /\ \A w \in Workers : WF_vars(Work(w))
  /\ WF_vars(Enqueue) /\ WF_vars(Exit) /\ WF_vars(Boot) /\ WF_vars(Redeliver)
  /\ WF_vars(RecoveryFinds) /\ WF_vars(RecoveryActs) /\ WF_vars(RecoveryAdds)
  /\ WF_vars(Watchdog)

-----------------------------------------------------------------------------
(* Properties.                                                             *)

\* A run that neither dropped rows nor started over some keeps the record that
\* RecordKeeping promises, through checkpoints, crashes and resumptions.
Record == INSTANCE RecordKeeping
            WITH ledger <- results, intact <- ~tainted,
                 complete <- backtest.status = "COMPLETED"

Implements == Record!Spec

\* What saveCheckpoint says is stored is stored: of an untainted run every bar
\* up to the checkpoint is recorded once, and the checkpoint counts those bars.
CheckpointBacked ==
  backtest.checkpoint # NoCheckpoint /\ ~tainted =>
    /\ backtest.checkpoint.counts = backtest.checkpoint.at + 1
    /\ \A b \in 0 .. backtest.checkpoint.at : results[b] = 1

\* A run that is waiting or running ends, is paused or is given up, whatever
\* happened to its job and its process.
Settles == backtest.status \in {"PENDING", "RUNNING"} ~> backtest.status \notin {"PENDING", "RUNNING"}

\* What cleanupOrphanedResults is for: the results of a completed run are those
\* of every bar, once.
RecordedOnce == backtest.status = "COMPLETED" => \A b \in Bars : results[b] = 1

\* What persistedCounts is said to be: rows that are in the database when the
\* checkpoint is saved.
CountsArePersisted ==
  [][backtest'.checkpoint # backtest.checkpoint => backtest'.checkpoint.counts <= Stored']_vars
=============================================================================
