--------------------------- MODULE PipelineProofs ---------------------------
(***************************************************************************)
(* Theorems about Pipeline for every value of its constants: any number of *)
(* runs, user operations, crashes and stale kills.                         *)
(***************************************************************************)
EXTENDS Pipeline, TLAPS

AllStages == Stages \cup {DONE}

\* The stages are the numbers 1 to 4, and DONE is 5.
LEMMA StageValues ==
  /\ Stages = {1, 2, 3, 4}
  /\ AllStages = {1, 2, 3, 4, 5}
  /\ OPTIMIZE = 1 /\ HISTORICAL = 2 /\ LIVE_REPLAY = 3 /\ PAPER_TRADE = 4 /\ DONE = 5
BY DEF Stages, AllStages, OPTIMIZE, HISTORICAL, LIVE_REPLAY, PAPER_TRADE, DONE

\* The copy an idle actor holds has the type of a row.
LEMMA BlankRow == Blank \in Rows
BY StageValues DEF Blank, Rows, Statuses, Results, Recommendations, AllStages

\* What the services write onto an entity is an entity.
LEMMA RowWrites ==
  ASSUME NEW c \in Rows
  PROVE  /\ completePipeline(c) \in Rows
         /\ failPipeline(c) \in Rows
         /\ rejectPipeline(c) \in Rows
         /\ markInconclusiveAndComplete(c) \in Rows
         /\ \A st \in Statuses : [c EXCEPT !.status = st] \in Rows
         /\ c.stage # DONE => advanceToNextStage(c) \in Rows
         /\ \A s \in AllStages, r \in RunIds \cup {NoRun} : [c EXCEPT !.link[s] = r] \in Rows
<1>1. completePipeline(c) \in Rows
  BY DEF completePipeline, Recommend, Rows, Statuses, Terminal, Recommendations
<1>2. failPipeline(c) \in Rows
  BY DEF failPipeline, Rows, Statuses, Terminal, Recommendations
<1>3. rejectPipeline(c) \in Rows
  BY DEF rejectPipeline, Rows, Statuses, Terminal, Recommendations
<1>4. markInconclusiveAndComplete(c) \in Rows
  BY DEF markInconclusiveAndComplete, Rows, Statuses, Terminal, Recommendations
<1>5. \A st \in Statuses : [c EXCEPT !.status = st] \in Rows
  BY DEF Rows
<1>6. c.stage # DONE => advanceToNextStage(c) \in Rows
  BY StageValues DEF advanceToNextStage, Rows, AllStages
<1>7. \A s \in AllStages, r \in RunIds \cup {NoRun} : [c EXCEPT !.link[s] = r] \in Rows
  BY DEF Rows
<1> QED BY <1>1, <1>2, <1>3, <1>4, <1>5, <1>6, <1>7

\* The result of a finished run, stored on an entity.
LEMMA RowStores ==
  ASSUME NEW c \in Rows, NEW r \in RunIds, runs \in [RunIds -> Runs]
  PROVE  StoreResult(c, r) \in Rows
<1>1. runs[r].stage \in Stages /\ runs[r].outcome \in Results
  BY DEF Runs, Results
<1> DEFINE s == runs[r].stage
           d == [c EXCEPT !.result[s] = runs[r].outcome]
<1>2. d \in Rows
  BY <1>1 DEF Rows
<1>3. [d EXCEPT !.link[OPTIMIZE] = IF s = OPTIMIZE THEN r ELSE @] \in Rows
  BY <1>2, StageValues DEF Rows
<1> QED BY <1>3 DEF StoreResult

-----------------------------------------------------------------------------
(***************************************************************************)
(* Type correctness.  advanceToNextStage would leave the stages if it were *)
(* called on an entity at the last one; the handlers test that, and the    *)
(* user's calls reach it only from the stages before.                      *)
(***************************************************************************)
UserNotDone ==
  /\ user.pc = "advance" => user.copy.stage # DONE
  /\ user.pc = "stage" /\ user.op = "skip" => user.copy.stage # DONE

TypeInv == TypeOK /\ UserNotDone

\* createPipeline leaves well-typed variables.
LEMMA TypeInit == Init => TypeInv
<1> SUFFICES ASSUME Init PROVE TypeInv
  OBVIOUS
<1> USE DEF Init
<1>1. PICK s \in FirstStages :
        row = [Blank EXCEPT !.stage = s,
                 !.result[OPTIMIZE] = IF s = OPTIMIZE THEN "none" ELSE "skipped"]
  OBVIOUS
<1>2. s \in Stages
  BY ConstantsAssumption, StageValues
<1>3. row \in Rows
  BY <1>1, <1>2, BlankRow, StageValues DEF Rows, Results
<1>4. worker \in [pc : WorkerPcs, stage : AllStages, copy : Rows, run : RunIds \cup {NoRun}]
  BY BlankRow, StageValues DEF IdleWorker, WorkerPcs
<1>5. runs \in [RunIds -> Runs]
  BY StageValues DEF Runs, RunStatuses
<1>6. handler \in [Kinds -> [RunIds -> [pc : HandlerPcs, copy : Rows]]]
  BY BlankRow DEF NewHandler, HandlerPcs
<1>7. user \in [pc : UserPcs, op : AllOps \cup {"start", "none"}, copy : Rows] /\ UserNotDone
  BY BlankRow DEF IdleUser, UserPcs, UserNotDone
<1>8. watchdog \in [pc : {"idle", "update"}, stage : Stages]
  BY StageValues DEF IdleWatchdog
<1>9. created \in 0..MaxRuns /\ ops \in 0..MaxOps /\ crashes \in 0..MaxCrashes
      /\ stales \in 0..MaxStale /\ jobs \subseteq AllStages
  BY ConstantsAssumption
<1> QED BY <1>3, <1>4, <1>5, <1>6, <1>7, <1>8, <1>9 DEF TypeInv, TypeOK, AllStages

\* Each step keeps the types; one lemma per actor.
LEMMA TypeWorker ==
  ASSUME TypeInv, WorkerStep \/ WorkerFail
  PROVE  TypeInv'
<1> USE DEF TypeInv, TypeOK, UserNotDone
<1>1. ASSUME NEW s \in Stages \cup {DONE}, WorkerRead(s) PROVE TypeInv'
  BY <1>1 DEF WorkerRead, WorkerPcs
<1>2. CASE WorkerCreate
  <2>1. created + 1 \in RunIds /\ created' \in 0..MaxRuns
    BY <1>2, ConstantsAssumption DEF WorkerCreate, RunIds
  <2>2. worker.stage \in Stages
    BY <1>2 DEF WorkerCreate
  <2>3. runs' \in [RunIds -> Runs]
    BY <1>2, <2>1, <2>2 DEF WorkerCreate, SetRun, Runs, RunStatuses
  <2>4. worker' \in [pc : WorkerPcs, stage : Stages \cup {DONE}, copy : Rows,
                     run : RunIds \cup {NoRun}]
    BY <1>2, <2>1 DEF WorkerCreate, WorkerPcs
  <2> QED BY <1>2, <2>1, <2>3, <2>4 DEF WorkerCreate
<1>3. CASE WorkerLink
  <2>1. row' \in Rows
    BY <1>3, RowWrites DEF WorkerLink, AllStages
  <2>2. worker' \in [pc : WorkerPcs, stage : Stages \cup {DONE}, copy : Rows,
                     run : RunIds \cup {NoRun}]
    BY <1>3, BlankRow DEF WorkerLink, WorkerPcs
  <2> QED BY <1>3, <2>1, <2>2 DEF WorkerLink
<1>4. IdleWorker \in [pc : WorkerPcs, stage : Stages \cup {DONE}, copy : Rows,
                      run : RunIds \cup {NoRun}]
  BY BlankRow, StageValues DEF IdleWorker, WorkerPcs
<1>5. CASE WorkerAck
  BY <1>4, <1>5 DEF WorkerAck
<1>6. CASE WorkerFail
  <2>1. row' \in Rows
    BY <1>6, RowWrites DEF WorkerFail, UpdateStatus, Statuses, Terminal
  <2> QED BY <1>4, <1>6, <2>1 DEF WorkerFail
<1> QED BY <1>1, <1>2, <1>3, <1>5, <1>6 DEF WorkerStep

Handlers == [pc : HandlerPcs, copy : Rows]

\* The handler table keeps its type when one handler is set.
LEMMA SetHandlerType ==
  ASSUME NEW r \in RunIds, NEW k \in Kinds, NEW h \in Handlers,
         handler \in [Kinds -> [RunIds -> Handlers]], SetHandler(r, k, h)
  PROVE  handler' \in [Kinds -> [RunIds -> Handlers]]
BY DEF SetHandler

\* The table of runs keeps its type when one run is set.
LEMMA SetRunType ==
  ASSUME NEW r \in RunIds, NEW x \in Runs, runs \in [RunIds -> Runs], SetRun(r, x)
  PROVE  runs' \in [RunIds -> Runs]
BY DEF SetRun

\* What becomes of a run is a run.
LEMMA RunWrites ==
  ASSUME NEW x \in Runs, NEW st \in RunStatuses, NEW b \in BOOLEAN, NEW o \in Outcomes
  PROVE  /\ [x EXCEPT !.status = st] \in Runs
         /\ [x EXCEPT !.alive = b] \in Runs
         /\ [x EXCEPT !.status = st, !.alive = b] \in Runs
         /\ [x EXCEPT !.status = st, !.alive = b, !.outcome = o] \in Runs
BY DEF Runs

\* Every state the handler steps set is a handler state.
LEMMA HandlerValues ==
  /\ NewHandler \in Handlers /\ Over \in Handlers
  /\ \A c \in Rows : /\ [pc |-> "store", copy |-> c] \in Handlers
                     /\ [pc |-> "decide", copy |-> c] \in Handlers
                     /\ [pc |-> "fail", copy |-> c] \in Handlers
                     /\ [pc |-> AfterAdvance(c), copy |-> c] \in Handlers
  /\ [pc |-> "emitted", copy |-> Blank] \in Handlers
  /\ [pc |-> "notify", copy |-> Blank] \in Handlers
BY BlankRow DEF NewHandler, Over, Handlers, HandlerPcs, AfterAdvance

\* Steps of the completed and failed handlers keep the types.
LEMMA TypeHandlers ==
  ASSUME TypeInv, NEW r \in RunIds, CompleteStep(r) \/ FailedStep(r)
  PROVE  TypeInv'
<1> USE DEF TypeInv, TypeOK, UserNotDone
<1>k. "completed" \in Kinds /\ "failed" \in Kinds
  BY DEF Kinds
<1>h. handler \in [Kinds -> [RunIds -> Handlers]]
  BY DEF Handlers
<1>c. handler["completed"][r].copy \in Rows /\ handler["failed"][r].copy \in Rows
  BY <1>k, <1>h DEF Handlers
<1>1. CASE CompleteFind(r)
  <2>1. handler' \in [Kinds -> [RunIds -> Handlers]]
    BY <1>1, <1>k, <1>h, HandlerValues, SetHandlerType DEF CompleteFind
  <2> QED BY <1>1, <2>1 DEF CompleteFind, Handlers
<1>2. CASE CompleteStore(r)
  <2> DEFINE d == StoreResult(handler["completed"][r].copy, r)
  <2>1. d \in Rows
    BY <1>c, RowStores
  <2>2. handler' \in [Kinds -> [RunIds -> Handlers]]
    BY <1>2, <1>k, <1>h, <2>1, HandlerValues, SetHandlerType DEF CompleteStore
  <2> QED BY <1>2, <2>1, <2>2 DEF CompleteStore, Handlers
<1>3. CASE CompleteRefuse(r)
  <2>1. row' \in Rows
    BY <1>3, <1>c, RowWrites DEF CompleteRefuse
  <2>2. handler' \in [Kinds -> [RunIds -> Handlers]]
    BY <1>3, <1>k, <1>h, HandlerValues, SetHandlerType DEF CompleteRefuse
  <2> QED BY <1>3, <2>1, <2>2 DEF CompleteRefuse, Handlers
<1>4. CASE CompleteDefer(r)
  <2>2. handler' \in [Kinds -> [RunIds -> Handlers]]
    BY <1>4, <1>k, <1>h, HandlerValues, SetHandlerType DEF CompleteDefer
  <2> QED BY <1>4, <2>2 DEF CompleteDefer, Handlers
<1>5. CASE CompleteAdvance(r)
  <2> DEFINE c == handler["completed"][r].copy
  <2>1. completePipeline(c) \in Rows /\ (CanAdvance(c) => advanceToNextStage(c) \in Rows)
    BY <1>c, RowWrites DEF CanAdvance
  <2>2. row' \in Rows
    BY <1>5, <2>1 DEF CompleteAdvance
  <2>3. handler' \in [Kinds -> [RunIds -> Handlers]]
    <3>1. CASE runs[r].stage = PAPER_TRADE \/ ~CanAdvance(c)
      BY <1>5, <1>k, <1>h, <3>1, HandlerValues, SetHandlerType DEF CompleteAdvance
    <3>2. CASE runs[r].stage # PAPER_TRADE /\ CanAdvance(c)
      <4> DEFINE n == advanceToNextStage(c)
      <4>1. SetHandler(r, "completed", [pc |-> AfterAdvance(n), copy |-> n])
        BY <1>5, <3>2 DEF CompleteAdvance
      <4>2. [pc |-> AfterAdvance(n), copy |-> n] \in Handlers
        BY <2>1, <3>2, HandlerValues
      <4> QED BY <4>1, <4>2, <1>k, <1>h, SetHandlerType
    <3> QED BY <3>1, <3>2
  <2> QED BY <1>5, <2>2, <2>3 DEF CompleteAdvance, Handlers
<1>6. CASE CompleteEnqueue(r)
  <2>1. jobs' \subseteq Stages \cup {DONE}
    BY <1>6, <1>c DEF CompleteEnqueue, enqueueStageJob, Rows
  <2>2. handler' \in [Kinds -> [RunIds -> Handlers]]
    BY <1>6, <1>k, <1>h, HandlerValues, SetHandlerType DEF CompleteEnqueue
  <2> QED BY <1>6, <2>1, <2>2 DEF CompleteEnqueue, Handlers
<1>7. CASE CompleteFinish(r)
  <2>1. row' \in Rows
    BY <1>7, <1>c, RowWrites DEF CompleteFinish
  <2>2. handler' \in [Kinds -> [RunIds -> Handlers]]
    BY <1>7, <1>k, <1>h, HandlerValues, SetHandlerType DEF CompleteFinish
  <2> QED BY <1>7, <2>1, <2>2 DEF CompleteFinish, Handlers
<1>8. CASE FailedFind(r)
  <2>2. handler' \in [Kinds -> [RunIds -> Handlers]]
    BY <1>8, <1>k, <1>h, HandlerValues, SetHandlerType DEF FailedFind
  <2> QED BY <1>8, <2>2 DEF FailedFind, Handlers
<1>9. CASE FailedSave(r)
  <2>1. row' \in Rows
    BY <1>9, <1>c, RowWrites DEF FailedSave
  <2>2. handler' \in [Kinds -> [RunIds -> Handlers]]
    BY <1>9, <1>k, <1>h, HandlerValues, SetHandlerType DEF FailedSave
  <2> QED BY <1>9, <2>1, <2>2 DEF FailedSave, Handlers
<1> QED BY <1>1, <1>2, <1>3, <1>4, <1>5, <1>6, <1>7, <1>8, <1>9 DEF CompleteStep, FailedStep

\* Steps of the downstream runs keep the types.
LEMMA TypeRuns ==
  ASSUME TypeInv, NEW r \in RunIds, RunStep(r)
  PROVE  TypeInv'
<1> USE DEF TypeInv, TypeOK, UserNotDone
<1>k. "completed" \in Kinds /\ "failed" \in Kinds
  BY DEF Kinds
<1>h. handler \in [Kinds -> [RunIds -> Handlers]]
  BY DEF Handlers
<1>s. {"completed", "failed", "active", "paused"} \subseteq RunStatuses
  BY DEF RunStatuses
<1>r. runs[r] \in Runs
  OBVIOUS
<1>1. CASE RunFinish(r)
  <2>1. \A s \in Stages : OutcomesOf(s) \subseteq Outcomes
    BY StageValues DEF OutcomesOf, Outcomes
  <2>2. PICK o \in OutcomesOf(runs[r].stage) :
          SetRun(r, [runs[r] EXCEPT !.status = "completed", !.alive = FALSE, !.outcome = o])
    BY <1>1 DEF RunFinish
  <2>3. o \in Outcomes
    BY <1>r, <2>1, <2>2 DEF Runs
  <2>4. runs' \in [RunIds -> Runs]
    BY <1>r, <1>s, <2>2, <2>3, RunWrites, SetRunType
  <2>5. handler' \in [Kinds -> [RunIds -> Handlers]]
    BY <1>1, <1>k, <1>h, HandlerValues, SetHandlerType DEF RunFinish, Emit
  <2> QED BY <1>1, <2>4, <2>5 DEF RunFinish, Handlers
<1>2. CASE RunFail(r)
  <2>2. [runs[r] EXCEPT !.status = "failed", !.alive = FALSE] \in Runs
    BY <1>r DEF Runs, RunStatuses
  <2>3. runs' \in [RunIds -> Runs]
    BY <1>2, <2>2, SetRunType DEF RunFail
  <2>4. handler' \in [Kinds -> [RunIds -> Handlers]]
    BY <1>2, <1>k, <1>h, HandlerValues, SetHandlerType DEF RunFail, Emit
  <2> QED BY <1>2, <2>3, <2>4 DEF RunFail, Handlers
<1>3. CASE RunRetry(r)
  <2>1. [runs[r] EXCEPT !.status = "active", !.alive = TRUE] \in Runs
    BY <1>r DEF Runs, RunStatuses
  <2>2. runs' \in [RunIds -> Runs]
    BY <1>3, <2>1, SetRunType DEF RunRetry
  <2> QED BY <1>3, <2>2 DEF RunRetry
<1>4. CASE RunPauses(r)
  <2>1. [runs[r] EXCEPT !.status = "paused"] \in Runs
    BY <1>r DEF Runs, RunStatuses
  <2>2. runs' \in [RunIds -> Runs]
    BY <1>4, <2>1, SetRunType DEF RunPauses
  <2> QED BY <1>4, <2>2 DEF RunPauses
<1>5. CASE StaleKill(r)
  <2>1. stales' \in 0..MaxStale
    BY <1>5, ConstantsAssumption DEF StaleKill
  <2>2. [runs[r] EXCEPT !.status = "failed"] \in Runs
    BY <1>r DEF Runs, RunStatuses
  <2>3. runs' \in [RunIds -> Runs]
    BY <1>5, <2>2, SetRunType DEF StaleKill
  <2>4. handler' \in [Kinds -> [RunIds -> Handlers]]
    BY <1>5, <1>k, <1>h, HandlerValues, SetHandlerType DEF StaleKill, Emit
  <2> QED BY <1>5, <2>1, <2>3, <2>4 DEF StaleKill, Handlers
<1>6. CASE NotifyPipeline(r)
  <2>1. handler' \in [Kinds -> [RunIds -> Handlers]]
    BY <1>6, <1>k, <1>h, HandlerValues, SetHandlerType DEF NotifyPipeline, Emit
  <2> QED BY <1>6, <2>1 DEF NotifyPipeline, Handlers
<1> QED BY <1>1, <1>2, <1>3, <1>4, <1>5, <1>6 DEF RunStep

Users == [pc : UserPcs, op : AllOps \cup {"start", "none"}, copy : Rows]

\* Steps of a REST call in progress keep the types.
LEMMA TypeUser ==
  ASSUME TypeInv, UserStep
  PROVE  TypeInv'
<1> USE DEF TypeInv, TypeOK, UserNotDone
<1>u. user \in Users /\ user.copy \in Rows /\ user.copy.stage \in AllStages
  BY DEF Users, Rows, AllStages
<1>i. IdleUser \in Users /\ IdleUser.pc = "idle"
  BY BlankRow DEF IdleUser, Users, UserPcs
<1>h. handler \in [Kinds -> [RunIds -> Handlers]]
  BY DEF Handlers
<1>r. StageRun # NoRun => StageRun \in RunIds /\ runs[StageRun] \in Runs
  BY <1>u, StageValues DEF StageRun, Rows, AllStages
<1>s. StageRunStatus \in {"active", "paused"} => StageRun # NoRun
  BY DEF StageRunStatus
<1>1. CASE UserSave
  <2> DEFINE c == [user.copy EXCEPT !.status = IF user.op = "pause" THEN "PAUSED" ELSE "RUNNING"]
  <2>1. c \in Rows
    BY <1>u, RowWrites DEF Statuses, Active
  <2>2. user' \in Users /\ user'.pc \in {"stage", "enqueue"} /\ user'.op = user.op
        /\ (user'.pc = "stage" => user.op \in {"pause", "resume"})
    BY <1>1, <1>u, <2>1 DEF UserSave, Users, UserPcs
  <2> QED BY <1>1, <2>1, <2>2 DEF UserSave, Users
<1>2. CASE UserEnqueue
  BY <1>2, <1>i, <1>u DEF UserEnqueue, enqueueStageJob, Users, AllStages
<1>3. CASE UserEnqueueFails
  <2>1. row' \in Rows
    BY <1>3, RowWrites DEF UserEnqueueFails, UpdateStatus, Statuses, Terminal
  <2> QED BY <1>3, <1>i, <2>1 DEF UserEnqueueFails, Users
<1>4. CASE UserPauseStage
  <2>1. runs' \in [RunIds -> Runs]
    <3>1. CASE UNCHANGED runs
      BY <3>1
    <3>2. CASE StageRunStatus = "active" /\ SetRun(StageRun, [runs[StageRun] EXCEPT !.status = "pausing"])
      <4>1. [runs[StageRun] EXCEPT !.status = "pausing"] \in Runs
        BY <1>r, <1>s, <3>2 DEF Runs, RunStatuses
      <4> QED BY <1>r, <1>s, <3>2, <4>1, SetRunType
    <3>3. CASE StageRunStatus = "active" /\ SetRun(StageRun, [runs[StageRun] EXCEPT !.status = "paused"])
      <4>1. [runs[StageRun] EXCEPT !.status = "paused"] \in Runs
        BY <1>r, <1>s, <3>3 DEF Runs, RunStatuses
      <4> QED BY <1>r, <1>s, <3>3, <4>1, SetRunType
    <3> QED BY <1>4, <3>1, <3>2, <3>3 DEF UserPauseStage
  <2> QED BY <1>4, <1>i, <2>1 DEF UserPauseStage, Users
<1>5. CASE UserResumeStage
  <2>1. runs' \in [RunIds -> Runs]
    <3>1. CASE UNCHANGED runs
      BY <3>1
    <3>2. CASE StageRun # NoRun /\ SetRun(StageRun, [runs[StageRun] EXCEPT !.status = "active"])
      <4>1. [runs[StageRun] EXCEPT !.status = "active"] \in Runs
        BY <1>r, <3>2 DEF Runs, RunStatuses
      <4> QED BY <1>r, <3>2, <4>1, SetRunType
    <3> QED BY <1>5, <3>1, <3>2 DEF UserResumeStage
  <2>2. user' \in Users
    BY <1>5, <1>i, <1>u DEF UserResumeStage, Users, UserPcs
  <2>3. UserNotDone'
    BY <1>5, <1>i, <1>u, StageValues DEF UserResumeStage, OverOnResume, Users
  <2> QED BY <1>5, <2>1, <2>2, <2>3 DEF UserResumeStage, Users
<1>6. CASE UserCancelStage
  <2>1. user' \in Users /\ UserNotDone'
    BY <1>6, <1>u DEF UserCancelStage, AfterCancel, Users, UserPcs
  <2>2. runs' \in [RunIds -> Runs] /\ handler' \in [Kinds -> [RunIds -> Handlers]]
    <3>1. CASE UNCHANGED <<runs, handler>>
      BY <3>1, <1>h
    <3>2. ASSUME StageRunStatus = "active", NEW w \in BOOLEAN, UNCHANGED handler,
                 SetRun(StageRun, [runs[StageRun] EXCEPT !.status = "cancelled", !.alive = w])
          PROVE  runs' \in [RunIds -> Runs] /\ handler' \in [Kinds -> [RunIds -> Handlers]]
      <4>1. [runs[StageRun] EXCEPT !.status = "cancelled", !.alive = w] \in Runs
        BY <1>r, <1>s, <3>2 DEF Runs, RunStatuses
      <4> QED BY <1>h, <1>r, <1>s, <3>2, <4>1, SetRunType
    <3>3. ASSUME StageRunStatus \in {"active", "paused"}, NEW o \in {"pass", "fail"},
                 SetRun(StageRun, [runs[StageRun] EXCEPT !.status = "stopped", !.alive = FALSE,
                                                         !.outcome = o]),
                 SetHandler(StageRun, "completed", [pc |-> "notify", copy |-> Blank])
          PROVE  runs' \in [RunIds -> Runs] /\ handler' \in [Kinds -> [RunIds -> Handlers]]
      <4>1. [runs[StageRun] EXCEPT !.status = "stopped", !.alive = FALSE, !.outcome = o] \in Runs
        BY <1>r, <1>s, <3>3 DEF Runs, RunStatuses, Outcomes
      <4>2. runs' \in [RunIds -> Runs]
        BY <1>r, <1>s, <3>3, <4>1, SetRunType
      <4>3. handler' \in [Kinds -> [RunIds -> Handlers]]
        BY <1>h, <1>r, <1>s, <3>3, HandlerValues, SetHandlerType DEF Kinds
      <4> QED BY <4>2, <4>3
    <3> QED BY <1>6, <3>1, <3>2, <3>3 DEF UserCancelStage
  <2> QED BY <1>6, <2>1, <2>2 DEF UserCancelStage, Users, Handlers
<1>7. CASE UserCancelStageThrows
  <2>1. user' \in Users /\ UserNotDone'
    BY <1>7, <1>i, <1>u DEF UserCancelStageThrows, AfterCancel, Users, UserPcs
  <2> QED BY <1>7, <2>1 DEF UserCancelStageThrows, Users
<1>8. CASE UserAdvance
  <2> DEFINE n == advanceToNextStage(user.copy)
  <2>1. n \in Rows
    BY <1>8, <1>u, RowWrites DEF UserAdvance
  <2>2. AfterAdvance(n) \in {"complete", "enqueue", "over"}
    BY DEF AfterAdvance
  <2>3. user' \in Users /\ user'.pc \notin {"advance", "stage"}
    BY <1>8, <1>i, <1>u, <2>1, <2>2 DEF UserAdvance, Users, UserPcs
  <2> QED BY <1>8, <2>1, <2>3 DEF UserAdvance, Users
<1>9. CASE UserComplete
  <2>1. row' \in Rows
    BY <1>9, <1>u, RowWrites DEF UserComplete
  <2> QED BY <1>9, <1>i, <2>1 DEF UserComplete, Users
<1>10. CASE UserFinal
  <2>1. row' \in Rows
    BY <1>10, <1>u, RowWrites DEF UserFinal, Statuses, Terminal
  <2>2. user' \in Users /\ user'.pc = "unqueue"
    BY <1>10, <1>u DEF UserFinal, Users, UserPcs
  <2> QED BY <1>10, <2>1, <2>2 DEF UserFinal, Users
<1>11. CASE UserUnqueue
  BY <1>11, <1>i DEF UserUnqueue, Users
<1> QED BY <1>1, <1>2, <1>3, <1>4, <1>5, <1>6, <1>7, <1>8, <1>9, <1>10, <1>11 DEF UserStep

\* The read that begins a REST call keeps the types.
LEMMA TypeUserRead ==
  ASSUME TypeInv, NEW op \in AllOps \cup {"start"}, UserRead(op), ops' \in 0..MaxOps
  PROVE  TypeInv'
<1> USE DEF TypeInv, TypeOK, UserNotDone
<1>1. user' \in Users /\ UserNotDone'
  BY DEF UserRead, Users, UserPcs
<1> QED BY <1>1 DEF UserRead, Users

\* Steps of the watchdog keep the types.
LEMMA TypeWatchdog ==
  ASSUME TypeInv, WatchdogStep
  PROVE  TypeInv'
<1> USE DEF TypeInv, TypeOK, UserNotDone
<1>1. ASSUME NEW s \in Stages, WatchdogFind(s) PROVE TypeInv'
  BY <1>1 DEF WatchdogFind
<1>2. CASE WatchdogUpdate
  <2>1. row' \in Rows
    <3>1. [row EXCEPT !.status = "FAILED"] \in Rows
      BY RowWrites DEF Statuses, Terminal
    <3> QED BY <1>2, <3>1 DEF WatchdogUpdate, UpdateStatus
  <2>2. watchdog' \in [pc : {"idle", "update"}, stage : Stages]
    BY <1>2, StageValues DEF WatchdogUpdate, IdleWatchdog
  <2> QED BY <1>2, <2>1, <2>2 DEF WatchdogUpdate
<1> QED BY <1>1, <1>2 DEF WatchdogStep

\* A crash, with the recovery at boot, keeps the types.
LEMMA TypeCrash ==
  ASSUME TypeInv, Crash
  PROVE  TypeInv'
<1> USE DEF TypeInv, TypeOK, UserNotDone
<1>1. crashes' \in 0..MaxCrashes /\ jobs' \subseteq Stages \cup {DONE}
  BY ConstantsAssumption DEF Crash
<1>2. worker' \in [pc : WorkerPcs, stage : Stages \cup {DONE}, copy : Rows,
                   run : RunIds \cup {NoRun}]
  BY BlankRow, StageValues DEF Crash, IdleWorker, WorkerPcs
<1>3. user' \in Users /\ UserNotDone'
  BY BlankRow DEF Crash, IdleUser, Users, UserPcs
<1>4. watchdog' \in [pc : {"idle", "update"}, stage : Stages]
  BY StageValues DEF Crash, IdleWatchdog
<1>5. handler' \in [Kinds -> [RunIds -> Handlers]]
  BY HandlerValues DEF Crash, Handlers
<1>6. runs' \in [RunIds -> Runs]
  <2>1. ASSUME NEW x \in Runs, NEW b \in BOOLEAN
        PROVE  [x EXCEPT !.status = "active"] \in Runs /\ [x EXCEPT !.alive = @ /\ b] \in Runs
    BY DEF Runs, RunStatuses
  <2> QED BY <2>1 DEF Crash
<1> QED BY <1>1, <1>2, <1>3, <1>4, <1>5, <1>6 DEF Crash, Users, Handlers

\* TypeInv is inductive.
LEMMA TypeNext == TypeInv /\ [Next]_vars => TypeInv'
<1> SUFFICES ASSUME TypeInv, [Next]_vars PROVE TypeInv'
  OBVIOUS
<1>1. CASE WorkerStep \/ WorkerFail
  BY <1>1, TypeWorker
<1>2. CASE \E r \in RunIds : CompleteStep(r) \/ FailedStep(r) \/ RunStep(r)
  BY <1>2, TypeHandlers, TypeRuns
<1>3. CASE UserStart
  BY <1>3, TypeUserRead DEF UserStart, TypeInv, TypeOK
<1>4. CASE \E op \in UserOps : UserCall(op)
  <2>1. PICK op \in UserOps : UserCall(op)
    BY <1>4
  <2>2. ops' \in 0..MaxOps /\ op \in AllOps
    BY <2>1, ConstantsAssumption DEF UserCall, TypeInv, TypeOK
  <2> QED BY <2>1, <2>2, TypeUserRead DEF UserCall
<1>5. CASE UserStep
  BY <1>5, TypeUser
<1>6. CASE WatchdogStep
  BY <1>6, TypeWatchdog
<1>7. CASE Crash
  BY <1>7, TypeCrash
<1>8. CASE UNCHANGED vars
  BY <1>8 DEF vars, TypeInv, TypeOK, UserNotDone
<1> QED BY <1>1, <1>2, <1>3, <1>4, <1>5, <1>6, <1>7, <1>8 DEF Next

\* Every reachable state of the pipeline, its actors and its runs is well
\* typed; in particular no interleaving takes currentStage beyond COMPLETED.
THEOREM TypeCorrect == Spec => []TypeOK
<1>1. TypeInv => TypeOK
  BY DEF TypeInv
<1> QED BY <1>1, TypeInit, TypeNext, PTL DEF Spec

-----------------------------------------------------------------------------
(***************************************************************************)
(* Results and recommendations.  ResultsReal is not inductive: a handler   *)
(* about to store a result must be known to hold a finished run, and a     *)
(* finished run must be known to stay as it is.  Evidence adds both.       *)
(***************************************************************************)
Finished == {"completed", "stopped"}

\* An entity is honest with respect to the run table R.
Vouched(R, s, o) ==
  \E r \in RunIds : R[r].stage = s /\ R[r].status \in Finished /\ R[r].outcome = o

Honest(R, c) ==
  /\ \A s \in Stages : \/ c.result[s] = "none"
                       \/ c.result[s] = "skipped" /\ s = OPTIMIZE
                       \/ Vouched(R, s, c.result[s])
  /\ c.rec = "DEPLOY" => Vouched(R, LIVE_REPLAY, "pass")
  /\ c.status = "REJECTED" => c.rec = "DO_NOT_DEPLOY"

\* Finished runs of R are the same in Q.
Keeps(R, Q) == \A r \in RunIds : R[r].status \in Finished => Q[r] = R[r]

RunsSettle ==
  /\ \A r \in RunIds : r > created => runs[r].status = "unused"
  /\ \A r \in RunIds : runs[r].alive => runs[r].status \notin Finished \cup {"unused"}

HandlersWait ==
  \A r \in RunIds :
    handler["completed"][r].pc \notin {"none", "over"} => runs[r].status \in Finished

AllHonest ==
  /\ Honest(runs, row) /\ Honest(runs, worker.copy) /\ Honest(runs, user.copy)
  /\ \A k \in Kinds, r \in RunIds : Honest(runs, handler[k][r].copy)

Evidence == TypeInv /\ RunsSettle /\ HandlersWait /\ AllHonest

\* An honest entity stays honest when the runs that vouch for it are kept.
LEMMA KeepsHonest ==
  ASSUME NEW R, NEW Q, NEW c, Keeps(R, Q), Honest(R, c)
  PROVE  Honest(Q, c)
<1>1. \A s, o : Vouched(R, s, o) => Vouched(Q, s, o)
  BY DEF Keeps, Vouched
<1> QED BY <1>1 DEF Honest

\* An idle actor's copy is honest whatever the runs are.
LEMMA BlankHonest == \A R : Honest(R, Blank)
BY DEF Honest, Blank

\* What the services write onto an honest entity is honest.
LEMMA HonestWrites ==
  ASSUME NEW R, NEW c \in Rows, Honest(R, c)
  PROVE  /\ Honest(R, completePipeline(c))
         /\ Honest(R, failPipeline(c))
         /\ Honest(R, rejectPipeline(c))
         /\ Honest(R, markInconclusiveAndComplete(c))
         /\ Honest(R, advanceToNextStage(c))
         /\ \A st \in Statuses \ {"REJECTED"} : Honest(R, [c EXCEPT !.status = st])
         /\ \A s, r : Honest(R, [c EXCEPT !.link[s] = r])
<1> USE DEF Honest, Rows
<1>1. Honest(R, completePipeline(c))
  BY StageValues DEF completePipeline, Recommend
<1>2. Honest(R, failPipeline(c))
  BY DEF failPipeline
<1>3. Honest(R, rejectPipeline(c))
  BY DEF rejectPipeline
<1>4. Honest(R, markInconclusiveAndComplete(c))
  BY DEF markInconclusiveAndComplete
<1>5. Honest(R, advanceToNextStage(c))
  BY DEF advanceToNextStage
<1>6. \A st \in Statuses \ {"REJECTED"} : Honest(R, [c EXCEPT !.status = st])
  OBVIOUS
<1>7. \A s, r : Honest(R, [c EXCEPT !.link[s] = r])
  OBVIOUS
<1> QED BY <1>1, <1>2, <1>3, <1>4, <1>5, <1>6, <1>7

\* Storing the result of a run that is over keeps an entity honest.
LEMMA HonestStore ==
  ASSUME NEW c \in Rows, NEW r \in RunIds, runs \in [RunIds -> Runs],
         Honest(runs, c), runs[r].status \in Finished
  PROVE  Honest(runs, StoreResult(c, r))
<1> DEFINE d == StoreResult(c, r)
<1>1. runs[r].stage \in Stages /\ Vouched(runs, runs[r].stage, runs[r].outcome)
  BY DEF Runs, Vouched
<1>2. d.rec = c.rec /\ d.status = c.status
      /\ d.result = [c.result EXCEPT ![runs[r].stage] = runs[r].outcome]
  BY DEF StoreResult, Rows
<1>3. \A s \in Stages : d.result[s] = IF s = runs[r].stage THEN runs[r].outcome ELSE c.result[s]
  BY <1>1, <1>2 DEF Rows
<1> QED BY <1>1, <1>2, <1>3 DEF Honest

\* Setting a run that is in use and not finished touches no finished run.
LEMMA SetRunSettles ==
  ASSUME runs \in [RunIds -> Runs], RunsSettle, NEW r \in RunIds, NEW x \in Runs,
         runs[r].status \notin Finished \cup {"unused"},
         x.alive => x.status \notin Finished \cup {"unused"},
         SetRun(r, x), created' = created, created \in Nat
  PROVE  /\ RunsSettle' /\ Keeps(runs, runs')
         /\ runs'[r] = x
<1>1. ~(r > created)
  BY DEF RunsSettle
<1>2. \A q \in RunIds : runs'[q] = IF q = r THEN x ELSE runs[q]
  BY DEF SetRun
<1>3. Keeps(runs, runs')
  BY <1>2 DEF Keeps
<1>4. RunsSettle'
  BY <1>1, <1>2 DEF RunsSettle
<1> QED BY <1>2, <1>3, <1>4

\* With the run table untouched, so is everything said about it.
LEMMA SameRuns ==
  ASSUME RunsSettle, UNCHANGED <<runs, created>>
  PROVE  RunsSettle' /\ Keeps(runs, runs')
BY DEF RunsSettle, Keeps

\* Setting one handler keeps HandlersWait and the honesty of the handlers'
\* entities, if the handler that is set agrees with both.
LEMMA SetHandlerWaits ==
  ASSUME NEW r \in RunIds, NEW k \in Kinds, NEW h \in Handlers,
         handler \in [Kinds -> [RunIds -> Handlers]], SetHandler(r, k, h),
         Keeps(runs, runs'), HandlersWait,
         k = "completed" /\ h.pc \notin {"none", "over"} => runs'[r].status \in Finished
  PROVE  HandlersWait'
<1>1. \A j \in Kinds, q \in RunIds :
        handler'[j][q] = IF j = k /\ q = r THEN h ELSE handler[j][q]
  BY DEF SetHandler
<1>2. "completed" \in Kinds
  BY DEF Kinds
<1>3. \A q \in RunIds : runs[q].status \in Finished => runs'[q].status \in Finished
  BY DEF Keeps
<1> QED BY <1>1, <1>2, <1>3 DEF HandlersWait

\* All copies stay honest when one handler gets an honest copy.
LEMMA SetHandlerHonest ==
  ASSUME NEW r \in RunIds, NEW k \in Kinds, NEW h \in Handlers, NEW R,
         handler \in [Kinds -> [RunIds -> Handlers]], SetHandler(r, k, h),
         \A j \in Kinds, q \in RunIds : Honest(R, handler[j][q].copy),
         Honest(R, h.copy)
  PROVE  \A j \in Kinds, q \in RunIds : Honest(R, handler'[j][q].copy)
<1>1. \A j \in Kinds, q \in RunIds :
        handler'[j][q] = IF j = k /\ q = r THEN h ELSE handler[j][q]
  BY DEF SetHandler
<1> QED BY <1>1

\* Handlers still wait for runs that are over when only the run table changes.
LEMMA SameWaits ==
  ASSUME HandlersWait, Keeps(runs, runs'), UNCHANGED handler
  PROVE  HandlersWait'
<1>1. \A q \in RunIds : runs[q].status \in Finished => runs'[q].status \in Finished
  BY DEF Keeps
<1> QED BY <1>1 DEF HandlersWait

\* Every entity held before a step is honest with respect to the runs after.
LEMMA StillHonest ==
  ASSUME AllHonest, Keeps(runs, runs')
  PROVE  /\ Honest(runs', row) /\ Honest(runs', worker.copy) /\ Honest(runs', user.copy)
         /\ \A k \in Kinds, r \in RunIds : Honest(runs', handler[k][r].copy)
BY KeepsHonest DEF AllHonest

\* Evidence holds of a pipeline just created.
LEMMA EvidenceInit == Init => Evidence
<1> SUFFICES ASSUME Init PROVE Evidence
  OBVIOUS
<1>1. TypeInv
  BY TypeInit
<1>2. RunsSettle
  BY DEF Init, RunsSettle, Finished
<1>3. HandlersWait
  BY DEF Init, HandlersWait, NewHandler, Kinds
<1>4. Honest(runs, row)
  <2>1. PICK s \in FirstStages :
          row = [Blank EXCEPT !.stage = s,
                   !.result[OPTIMIZE] = IF s = OPTIMIZE THEN "none" ELSE "skipped"]
    BY DEF Init
  <2>2. row.rec = "none" /\ row.status = "PENDING"
        /\ \A t \in Stages : row.result[t] = "none" \/ (row.result[t] = "skipped" /\ t = OPTIMIZE)
    BY <2>1, StageValues DEF Blank
  <2> QED BY <2>2 DEF Honest
<1>5. AllHonest
  BY <1>4, BlankHonest DEF Init, AllHonest, IdleWorker, IdleUser, NewHandler
<1> QED BY <1>1, <1>2, <1>3, <1>5 DEF Evidence

\* The worker: it saves the entity it read, with the run's id set on it.
LEMMA EvidenceWorker ==
  ASSUME Evidence, WorkerStep \/ WorkerFail
  PROVE  RunsSettle' /\ HandlersWait' /\ AllHonest'
<1> USE DEF Evidence
<1>t. TypeInv /\ worker.copy \in Rows /\ row \in Rows
  BY DEF TypeInv, TypeOK
<1>1. ASSUME NEW s \in Stages \cup {DONE}, WorkerRead(s)
      PROVE  RunsSettle' /\ HandlersWait' /\ AllHonest'
  BY <1>1 DEF WorkerRead, RunsSettle, HandlersWait, AllHonest
<1>2. CASE WorkerCreate
  <2>1. created \in Nat /\ created + 1 \in RunIds /\ worker.stage \in Stages
    BY <1>2, ConstantsAssumption DEF WorkerCreate, RunIds, TypeInv, TypeOK
  <2>2. runs[created + 1].status = "unused"
    BY <2>1 DEF RunsSettle
  <2>3. \A q \in RunIds :
          runs'[q] = IF q = created + 1
                     THEN [stage |-> worker.stage, status |-> "active", alive |-> TRUE,
                           outcome |-> "none"]
                     ELSE runs[q]
    BY <1>2, <2>1 DEF WorkerCreate, SetRun, TypeInv, TypeOK
  <2>4. Keeps(runs, runs')
    BY <2>2, <2>3 DEF Keeps, Finished
  <2>5. RunsSettle'
    <3>1. \A q \in RunIds : q \in Nat
      BY DEF RunIds
    <3> QED BY <1>2, <2>1, <2>3, <3>1 DEF WorkerCreate, RunsSettle, Finished
  <2>6. HandlersWait'
    BY <1>2, <2>4, SameWaits DEF WorkerCreate
  <2>7. AllHonest'
    BY <1>2, <2>4, StillHonest DEF WorkerCreate, AllHonest, TypeInv, TypeOK
  <2> QED BY <2>5, <2>6, <2>7
<1>3. CASE WorkerLink
  <2>1. Honest(runs, row')
    BY <1>3, <1>t, HonestWrites DEF WorkerLink, AllHonest
  <2>2. worker'.copy = Blank
    BY <1>3 DEF WorkerLink, TypeInv, TypeOK
  <2> QED BY <1>3, <2>1, <2>2, BlankHonest DEF WorkerLink, RunsSettle, HandlersWait, AllHonest
<1>4. CASE WorkerAck
  BY <1>4, BlankHonest DEF WorkerAck, IdleWorker, RunsSettle, HandlersWait, AllHonest
<1>5. CASE WorkerFail
  <2>1. Honest(runs, row')
    BY <1>5, <1>t, HonestWrites DEF WorkerFail, UpdateStatus, AllHonest, Statuses, Terminal
  <2> QED BY <1>5, <2>1, BlankHonest DEF WorkerFail, IdleWorker, RunsSettle, HandlersWait, AllHonest
<1> QED BY <1>1, <1>2, <1>3, <1>4, <1>5 DEF WorkerStep

\* The event handlers: they act on the entity they read, on a finished run.
LEMMA EvidenceHandlers ==
  ASSUME Evidence, NEW r \in RunIds, CompleteStep(r) \/ FailedStep(r)
  PROVE  RunsSettle' /\ HandlersWait' /\ AllHonest'
<1> USE DEF Evidence
<1>k. "completed" \in Kinds /\ "failed" \in Kinds
  BY DEF Kinds
<1>h. handler \in [Kinds -> [RunIds -> Handlers]] /\ runs \in [RunIds -> Runs] /\ row \in Rows
  BY DEF Handlers, TypeInv, TypeOK
<1>u. UNCHANGED <<runs, created, worker, user>>
  BY DEF CompleteStep, FailedStep, CompleteFind, CompleteStore, CompleteRefuse, CompleteDefer,
         CompleteAdvance, CompleteEnqueue, CompleteFinish, FailedFind, FailedSave
<1>s. RunsSettle' /\ Keeps(runs, runs')
  BY <1>u, SameRuns
<1> DEFINE c == handler["completed"][r].copy
           d == handler["failed"][r].copy
           w == handler["completed"][r].pc
<1>c. /\ c \in Rows /\ Honest(runs, c)
      /\ d \in Rows /\ Honest(runs, d)
      /\ Honest(runs, row) /\ Honest(runs, Blank)
      /\ w \notin {"none", "over"} => runs[r].status \in Finished
  BY <1>h, <1>k, BlankHonest DEF Handlers, AllHonest, HandlersWait
\* It is enough to name the handler that is set and to show the row honest.
<1>q. ASSUME NEW k \in Kinds, NEW h \in Handlers, SetHandler(r, k, h), Honest(runs, h.copy),
             k = "completed" /\ h.pc \notin {"none", "over"} => runs[r].status \in Finished,
             Honest(runs, row')
      PROVE  RunsSettle' /\ HandlersWait' /\ AllHonest'
  <2>1. HandlersWait'
    BY <1>q, <1>h, <1>s, <1>u, SetHandlerWaits
  <2>2. \A j \in Kinds, q \in RunIds : Honest(runs, handler[j][q].copy)
    BY DEF AllHonest
  <2>3. \A j \in Kinds, q \in RunIds : Honest(runs, handler'[j][q].copy)
    BY <1>q, <1>h, <2>2, SetHandlerHonest
  <2>4. AllHonest'
    BY <1>q, <1>u, <2>3 DEF AllHonest
  <2> QED BY <1>s, <2>1, <2>4
<1>o. Over \in Handlers /\ Over.pc = "over" /\ Honest(runs, Over.copy)
  BY HandlerValues, BlankHonest DEF Over
<1>1. CASE CompleteFind(r)
  <2> DEFINE h == IF ~FindForComplete(r) THEN Over
                  ELSE [pc   |-> IF runs[r].outcome = "empty" THEN "decide" ELSE "store",
                        copy |-> row]
  <2>1. SetHandler(r, "completed", h) /\ row' = row /\ w = "emitted"
    BY <1>1 DEF CompleteFind
  <2>2. h \in Handlers /\ Honest(runs, h.copy)
    BY <1>c, <1>h, <1>o, HandlerValues
  <2> QED BY <1>c, <1>k, <1>q, <2>1, <2>2
<1>2. CASE CompleteStore(r)
  <2> DEFINE e == StoreResult(c, r)
  <2>1. SetHandler(r, "completed", [pc |-> "decide", copy |-> e]) /\ row' = e /\ w = "store"
    BY <1>2 DEF CompleteStore
  <2>2. Honest(runs, e)
    BY <1>c, <1>h, <2>1, HonestStore
  <2>3. [pc |-> "decide", copy |-> e] \in Handlers
    BY <1>c, <1>h, RowStores, HandlerValues
  <2> QED BY <1>c, <1>k, <1>q, <2>1, <2>2, <2>3
<1>3. CASE CompleteRefuse(r)
  <2>1. SetHandler(r, "completed", Over)
    BY <1>3 DEF CompleteRefuse
  <2>2. Honest(runs, row')
    BY <1>3, <1>c, HonestWrites DEF CompleteRefuse
  <2> QED BY <1>k, <1>o, <1>q, <2>1, <2>2
<1>4. CASE CompleteDefer(r)
  <2>1. SetHandler(r, "completed", Over) /\ row' = row
    BY <1>4 DEF CompleteDefer
  <2> QED BY <1>c, <1>k, <1>o, <1>q, <2>1
<1>5. CASE CompleteAdvance(r)
  <2>1. CASE runs[r].stage = PAPER_TRADE \/ ~CanAdvance(c)
    <3>1. SetHandler(r, "completed", Over) /\ row' \in {row, completePipeline(c)}
      BY <1>5, <2>1 DEF CompleteAdvance
    <3>2. Honest(runs, row')
      BY <1>c, <3>1, HonestWrites
    <3> QED BY <1>k, <1>o, <1>q, <3>1, <3>2
  <2>2. CASE runs[r].stage # PAPER_TRADE /\ CanAdvance(c)
    <3> DEFINE n == advanceToNextStage(c)
               h == [pc |-> AfterAdvance(n), copy |-> n]
    <3>1. SetHandler(r, "completed", h) /\ row' = n /\ w = "decide"
      BY <1>5, <2>2 DEF CompleteAdvance
    <3>2. Honest(runs, n) /\ h \in Handlers
      BY <1>c, <2>2, HonestWrites, RowWrites, HandlerValues DEF CanAdvance
    <3> QED BY <1>c, <1>k, <1>q, <3>1, <3>2
  <2> QED BY <2>1, <2>2
<1>6. CASE CompleteEnqueue(r)
  <2>1. SetHandler(r, "completed", Over) /\ row' = row
    BY <1>6 DEF CompleteEnqueue
  <2> QED BY <1>c, <1>k, <1>o, <1>q, <2>1
<1>7. CASE CompleteFinish(r)
  <2>1. SetHandler(r, "completed", Over) /\ row' = completePipeline(c)
    BY <1>7 DEF CompleteFinish
  <2>2. Honest(runs, row')
    BY <1>c, <2>1, HonestWrites
  <2> QED BY <1>k, <1>o, <1>q, <2>1, <2>2
<1>8. CASE FailedFind(r)
  <2> DEFINE h == IF FindForFailed(r) THEN [pc |-> "fail", copy |-> row] ELSE Over
  <2>1. SetHandler(r, "failed", h) /\ row' = row
    BY <1>8 DEF FailedFind
  <2>2. h \in Handlers /\ Honest(runs, h.copy)
    BY <1>c, <1>h, <1>o, HandlerValues
  <2> QED BY <1>c, <1>k, <1>q, <2>1, <2>2
<1>9. CASE FailedSave(r)
  <2>1. SetHandler(r, "failed", Over) /\ row' = failPipeline(d)
    BY <1>9 DEF FailedSave
  <2>2. Honest(runs, row')
    BY <1>c, <2>1, HonestWrites
  <2> QED BY <1>k, <1>o, <1>q, <2>1, <2>2
<1> QED BY <1>1, <1>2, <1>3, <1>4, <1>5, <1>6, <1>7, <1>8, <1>9 DEF CompleteStep, FailedStep

\* The runs: none that is finished changes again.
LEMMA EvidenceRuns ==
  ASSUME Evidence, NEW r \in RunIds, RunStep(r)
  PROVE  RunsSettle' /\ HandlersWait' /\ AllHonest'
<1> USE DEF Evidence
<1>k. "completed" \in Kinds /\ "failed" \in Kinds
  BY DEF Kinds
<1>h. /\ handler \in [Kinds -> [RunIds -> Handlers]] /\ runs \in [RunIds -> Runs]
      /\ created \in Nat /\ runs[r] \in Runs
  BY DEF Handlers, TypeInv, TypeOK
<1>u. UNCHANGED <<created, row, worker, user>>
  BY DEF RunStep, RunFinish, RunFail, RunRetry, RunPauses, StaleKill, NotifyPipeline
<1>e. [pc |-> "emitted", copy |-> Blank] \in Handlers
  BY HandlerValues
\* The run table changes as SetRunSettles says, and one event may be emitted.
<1>q. ASSUME RunsSettle', Keeps(runs, runs'),
             \/ UNCHANGED handler
             \/ Emit(r, "failed")
             \/ Emit(r, "completed") /\ runs'[r].status \in Finished
      PROVE  RunsSettle' /\ HandlersWait' /\ AllHonest'
  <2>1. HandlersWait'
    BY <1>q, <1>e, <1>h, <1>k, SameWaits, SetHandlerWaits DEF Emit
  <2>2. /\ Honest(runs', row) /\ Honest(runs', worker.copy) /\ Honest(runs', user.copy)
        /\ \A j \in Kinds, q \in RunIds : Honest(runs', handler[j][q].copy)
    BY <1>q, StillHonest
  <2>3. \A j \in Kinds, q \in RunIds : Honest(runs', handler'[j][q].copy)
    <3>1. CASE UNCHANGED handler
      BY <2>2, <3>1
    <3>2. CASE Emit(r, "failed") \/ Emit(r, "completed")
      <4>1. Honest(runs', [pc |-> "emitted", copy |-> Blank].copy)
        BY BlankHonest
      <4> QED BY <1>e, <1>h, <1>k, <2>2, <3>2, <4>1, SetHandlerHonest DEF Emit
    <3> QED BY <1>q, <3>1, <3>2
  <2>4. AllHonest'
    BY <1>u, <2>2, <2>3 DEF AllHonest
  <2> QED BY <1>q, <2>1, <2>4
<1>1. CASE RunFinish(r)
  <2>1. PICK o \in OutcomesOf(runs[r].stage) :
          SetRun(r, [runs[r] EXCEPT !.status = "completed", !.alive = FALSE, !.outcome = o])
    BY <1>1 DEF RunFinish
  <2> DEFINE x == [runs[r] EXCEPT !.status = "completed", !.alive = FALSE, !.outcome = o]
  <2>2. \A s \in Stages : OutcomesOf(s) \subseteq Outcomes
    BY StageValues DEF OutcomesOf, Outcomes
  <2>3. x \in Runs /\ ~x.alive /\ x.status = "completed"
    BY <1>h, <2>1, <2>2 DEF Runs, RunStatuses
  <2>4. runs[r].status \notin Finished \cup {"unused"}
    BY <1>1 DEF RunFinish, Working, Finished
  <2>5. RunsSettle' /\ Keeps(runs, runs') /\ runs'[r] = x
    BY <1>h, <1>u, <2>1, <2>3, <2>4, SetRunSettles
  <2>6. runs'[r].status \in Finished
    BY <2>3, <2>5 DEF Finished
  <2> QED BY <1>1, <1>q, <2>5, <2>6 DEF RunFinish
<1>2. CASE RunFail(r)
  <2> DEFINE x == [runs[r] EXCEPT !.status = "failed", !.alive = FALSE]
  <2>1. SetRun(r, x) /\ x \in Runs /\ ~x.alive /\ runs[r].status \notin Finished \cup {"unused"}
    BY <1>2, <1>h DEF RunFail, Working, Finished, Runs, RunStatuses
  <2>2. RunsSettle' /\ Keeps(runs, runs')
    BY <1>h, <1>u, <2>1, SetRunSettles
  <2> QED BY <1>2, <1>q, <2>2 DEF RunFail
<1>3. CASE RunRetry(r)
  <2> DEFINE x == [runs[r] EXCEPT !.status = "active", !.alive = TRUE]
  <2>1. /\ SetRun(r, x) /\ x \in Runs /\ x.status \notin Finished \cup {"unused"}
        /\ runs[r].status \notin Finished \cup {"unused"}
    BY <1>3, <1>h DEF RunRetry, Finished, Runs, RunStatuses
  <2>2. RunsSettle' /\ Keeps(runs, runs')
    BY <1>h, <1>u, <2>1, SetRunSettles
  <2> QED BY <1>3, <1>q, <2>2 DEF RunRetry
<1>4. CASE RunPauses(r)
  <2> DEFINE x == [runs[r] EXCEPT !.status = "paused"]
  <2>1. /\ SetRun(r, x) /\ x \in Runs /\ x.status \notin Finished \cup {"unused"}
        /\ runs[r].status \notin Finished \cup {"unused"}
    BY <1>4, <1>h DEF RunPauses, Finished, Runs, RunStatuses
  <2>2. RunsSettle' /\ Keeps(runs, runs')
    BY <1>h, <1>u, <2>1, SetRunSettles
  <2> QED BY <1>4, <1>q, <2>2 DEF RunPauses
<1>5. CASE StaleKill(r)
  <2> DEFINE x == [runs[r] EXCEPT !.status = "failed"]
  <2>1. /\ SetRun(r, x) /\ x \in Runs /\ x.status \notin Finished \cup {"unused"}
        /\ runs[r].status \notin Finished \cup {"unused"}
    BY <1>5, <1>h DEF StaleKill, Finished, Runs, RunStatuses
  <2>2. RunsSettle' /\ Keeps(runs, runs')
    BY <1>h, <1>u, <2>1, SetRunSettles
  <2> QED BY <1>5, <1>q, <2>2 DEF StaleKill
<1>6. CASE NotifyPipeline(r)
  <2>1. UNCHANGED <<runs, created>> /\ Emit(r, "completed") /\ runs[r].status \in Finished
    BY <1>6, <1>u DEF NotifyPipeline, HandlersWait
  <2>2. RunsSettle' /\ Keeps(runs, runs')
    BY <2>1, SameRuns
  <2> QED BY <1>q, <2>1, <2>2
<1> QED BY <1>1, <1>2, <1>3, <1>4, <1>5, <1>6 DEF RunStep

\* The user's call: it saves the entity it read, and acts on the stage's run.
LEMMA EvidenceUser ==
  ASSUME Evidence, UserStep
  PROVE  RunsSettle' /\ HandlersWait' /\ AllHonest'
<1> USE DEF Evidence
<1>h. /\ handler \in [Kinds -> [RunIds -> Handlers]] /\ runs \in [RunIds -> Runs]
      /\ created \in Nat /\ row \in Rows /\ user \in Users /\ user.copy \in Rows
      /\ user.copy.stage \in AllStages
  BY DEF Handlers, Users, TypeInv, TypeOK, Rows, AllStages
<1>c. Honest(runs, user.copy) /\ Honest(runs, row)
  BY DEF AllHonest
<1>i. \A R : Honest(R, IdleUser.copy)
  BY BlankHonest DEF IdleUser
<1>u. UNCHANGED <<created, worker>>
  BY DEF UserStep, UserSave, UserEnqueue, UserEnqueueFails, UserPauseStage, UserResumeStage,
         UserCancelStage, UserCancelStageThrows, UserAdvance, UserComplete, UserFinal, UserUnqueue
<1>r. StageRun # NoRun => StageRun \in RunIds /\ runs[StageRun] \in Runs
  BY <1>h, StageValues DEF StageRun, Rows, AllStages
<1>s. StageRunStatus # "unused" => StageRun # NoRun /\ runs[StageRun].status = StageRunStatus
  BY DEF StageRunStatus
\* Steps that leave the runs and the handlers alone.
<1>p. ASSUME UNCHANGED <<runs, handler>>, Honest(runs, row'), Honest(runs, user'.copy)
      PROVE  RunsSettle' /\ HandlersWait' /\ AllHonest'
  BY <1>p, <1>u DEF RunsSettle, HandlersWait, AllHonest
\* Steps that act on the stage's run, which is not finished.
<1>q. ASSUME NEW x \in Runs, SetRun(StageRun, x), StageRunStatus \in {"active", "paused"},
             x.alive => x.status \notin Finished \cup {"unused"}, row' = row,
             user'.copy = user.copy \/ user' = IdleUser,
             \/ UNCHANGED handler
             \/ /\ SetHandler(StageRun, "completed", [pc |-> "notify", copy |-> Blank])
                /\ x.status \in Finished
      PROVE  RunsSettle' /\ HandlersWait' /\ AllHonest'
  <2>1. StageRun \in RunIds /\ runs[StageRun].status \notin Finished \cup {"unused"}
    BY <1>q, <1>r, <1>s DEF Finished
  <2>2. RunsSettle' /\ Keeps(runs, runs') /\ runs'[StageRun] = x
    BY <1>q, <1>h, <1>u, <2>1, SetRunSettles
  <2>3. /\ Honest(runs', row) /\ Honest(runs', worker.copy) /\ Honest(runs', user.copy)
        /\ \A j \in Kinds, q \in RunIds : Honest(runs', handler[j][q].copy)
    BY <2>2, StillHonest
  <2>4. CASE UNCHANGED handler
    <3>1. HandlersWait'
      BY <2>2, <2>4, SameWaits
    <3>2. AllHonest'
      BY <1>q, <1>i, <1>u, <2>3, <2>4 DEF AllHonest
    <3> QED BY <2>2, <3>1, <3>2
  <2>5. CASE /\ SetHandler(StageRun, "completed", [pc |-> "notify", copy |-> Blank])
             /\ x.status \in Finished
    <3>1. "completed" \in Kinds /\ [pc |-> "notify", copy |-> Blank] \in Handlers
      BY HandlerValues DEF Kinds
    <3>2. HandlersWait'
      BY <1>h, <2>1, <2>2, <2>5, <3>1, SetHandlerWaits
    <3>3. Honest(runs', [pc |-> "notify", copy |-> Blank].copy)
      BY BlankHonest
    <3>4. \A j \in Kinds, q \in RunIds : Honest(runs', handler'[j][q].copy)
      BY <1>h, <2>1, <2>3, <2>5, <3>1, <3>3, SetHandlerHonest
    <3>5. AllHonest'
      BY <1>q, <1>i, <1>u, <2>3, <3>4 DEF AllHonest
    <3> QED BY <2>2, <3>2, <3>5
  <2> QED BY <1>q, <2>4, <2>5
<1>1. CASE UserSave
  <2> DEFINE c == [user.copy EXCEPT !.status = IF user.op = "pause" THEN "PAUSED" ELSE "RUNNING"]
  <2>1. Honest(runs, c)
    BY <1>c, <1>h, HonestWrites DEF Statuses, Active
  <2>2. UNCHANGED <<runs, handler>> /\ row' = c /\ user'.copy = c
    BY <1>1, <1>h DEF UserSave, Users
  <2> QED BY <1>p, <2>1, <2>2
<1>2. CASE UserEnqueue
  BY <1>2, <1>c, <1>i, <1>p DEF UserEnqueue
<1>3. CASE UserEnqueueFails
  <2>1. Honest(runs, row')
    BY <1>3, <1>c, <1>h, HonestWrites DEF UserEnqueueFails, UpdateStatus, Statuses, Terminal
  <2> QED BY <1>3, <1>i, <1>p, <2>1 DEF UserEnqueueFails
<1>4. CASE UserPauseStage
  <2>1. UNCHANGED <<row, handler>> /\ user' = IdleUser
    BY <1>4 DEF UserPauseStage
  <2>2. CASE UNCHANGED runs
    BY <1>c, <1>i, <1>p, <2>1, <2>2
  <2>3. ASSUME NEW st \in {"pausing", "paused"}, StageRunStatus = "active",
               SetRun(StageRun, [runs[StageRun] EXCEPT !.status = st])
        PROVE  RunsSettle' /\ HandlersWait' /\ AllHonest'
    <3>1. /\ [runs[StageRun] EXCEPT !.status = st] \in Runs
          /\ [runs[StageRun] EXCEPT !.status = st].status \notin Finished \cup {"unused"}
      BY <1>r, <1>s, <2>3 DEF Runs, RunStatuses, Finished
    <3> QED BY <1>q, <2>1, <2>3, <3>1
  <2> QED BY <1>4, <2>2, <2>3 DEF UserPauseStage
<1>5. CASE UserResumeStage
  <2>1. UNCHANGED <<row, handler>> /\ (user'.copy = user.copy \/ user' = IdleUser)
    BY <1>5, <1>h DEF UserResumeStage, Users
  <2>2. CASE UNCHANGED runs
    BY <1>c, <1>i, <1>p, <2>1, <2>2
  <2>3. CASE StageRunStatus = "paused" /\ SetRun(StageRun, [runs[StageRun] EXCEPT !.status = "active"])
    <3>1. /\ [runs[StageRun] EXCEPT !.status = "active"] \in Runs
          /\ [runs[StageRun] EXCEPT !.status = "active"].status \notin Finished \cup {"unused"}
      BY <1>r, <1>s, <2>3 DEF Runs, RunStatuses, Finished
    <3> QED BY <1>q, <2>1, <2>3, <3>1
  <2> QED BY <1>5, <2>2, <2>3 DEF UserResumeStage
<1>6. CASE UserCancelStage
  <2>1. UNCHANGED row /\ user'.copy = user.copy
    BY <1>6, <1>h DEF UserCancelStage, AfterCancel, Users
  <2>2. CASE UNCHANGED <<runs, handler>>
    BY <1>c, <1>p, <2>1, <2>2
  <2>3. ASSUME StageRunStatus = "active", NEW b \in BOOLEAN, UNCHANGED handler,
               SetRun(StageRun, [runs[StageRun] EXCEPT !.status = "cancelled", !.alive = b])
        PROVE  RunsSettle' /\ HandlersWait' /\ AllHonest'
    <3>1. /\ [runs[StageRun] EXCEPT !.status = "cancelled", !.alive = b] \in Runs
          /\ [runs[StageRun] EXCEPT !.status = "cancelled", !.alive = b].status \notin Finished \cup {"unused"}
      BY <1>r, <1>s, <2>3 DEF Runs, RunStatuses, Finished
    <3> QED BY <1>q, <2>1, <2>3, <3>1
  <2>4. ASSUME StageRunStatus \in {"active", "paused"}, NEW o \in {"pass", "fail"},
               SetRun(StageRun, [runs[StageRun] EXCEPT !.status = "stopped", !.alive = FALSE,
                                                       !.outcome = o]),
               SetHandler(StageRun, "completed", [pc |-> "notify", copy |-> Blank])
        PROVE  RunsSettle' /\ HandlersWait' /\ AllHonest'
    <3> DEFINE x == [runs[StageRun] EXCEPT !.status = "stopped", !.alive = FALSE, !.outcome = o]
    <3>1. x \in Runs /\ ~x.alive /\ x.status \in Finished
      BY <1>r, <1>s, <2>4 DEF Runs, RunStatuses, Outcomes, Finished
    <3> QED BY <1>q, <2>1, <2>4, <3>1
  <2> QED BY <1>6, <2>2, <2>3, <2>4 DEF UserCancelStage
<1>7. CASE UserCancelStageThrows
  <2>1. UNCHANGED <<row, runs, handler>> /\ (user'.copy = user.copy \/ user' = IdleUser)
    BY <1>7, <1>h DEF UserCancelStageThrows, AfterCancel, Users
  <2> QED BY <1>c, <1>i, <1>p, <2>1
<1>8. CASE UserAdvance
  <2> DEFINE n == advanceToNextStage(user.copy)
  <2>1. Honest(runs, n)
    BY <1>c, <1>h, HonestWrites
  <2>2. UNCHANGED <<runs, handler>> /\ row' = n /\ (user'.copy = n \/ user' = IdleUser)
    BY <1>8, <1>h DEF UserAdvance, Users
  <2> QED BY <1>i, <1>p, <2>1, <2>2
<1>9. CASE UserComplete
  <2>1. Honest(runs, row')
    BY <1>9, <1>c, <1>h, HonestWrites DEF UserComplete
  <2> QED BY <1>9, <1>i, <1>p, <2>1 DEF UserComplete
<1>10. CASE UserFinal
  <2>1. Honest(runs, row')
    BY <1>10, <1>c, <1>h, HonestWrites DEF UserFinal, Statuses, Terminal
  <2>2. user'.copy = user.copy
    BY <1>10, <1>h DEF UserFinal, Users
  <2> QED BY <1>10, <1>c, <1>p, <2>1, <2>2 DEF UserFinal
<1>11. CASE UserUnqueue
  BY <1>11, <1>c, <1>i, <1>p DEF UserUnqueue
<1> QED BY <1>1, <1>2, <1>3, <1>4, <1>5, <1>6, <1>7, <1>8, <1>9, <1>10, <1>11 DEF UserStep

\* The first step of a call takes a copy of the row.
LEMMA EvidenceUserRead ==
  ASSUME Evidence, NEW op, UserRead(op)
  PROVE  RunsSettle' /\ HandlersWait' /\ AllHonest'
BY DEF Evidence, UserRead, RunsSettle, HandlersWait, AllHonest

\* The watchdog writes a status that claims nothing.
LEMMA EvidenceWatchdog ==
  ASSUME Evidence, WatchdogStep
  PROVE  RunsSettle' /\ HandlersWait' /\ AllHonest'
<1> USE DEF Evidence
<1>1. ASSUME NEW s \in Stages, WatchdogFind(s)
      PROVE  RunsSettle' /\ HandlersWait' /\ AllHonest'
  BY <1>1 DEF WatchdogFind, RunsSettle, HandlersWait, AllHonest
<1>2. CASE WatchdogUpdate
  <2>1. row \in Rows /\ Honest(runs, row)
    BY DEF TypeInv, TypeOK, AllHonest
  <2>2. Honest(runs, [row EXCEPT !.status = "FAILED"])
    BY <2>1, HonestWrites DEF Statuses, Terminal
  <2>3. Honest(runs, row')
    BY <1>2, <2>1, <2>2 DEF WatchdogUpdate, UpdateStatus
  <2> QED BY <1>2, <2>3 DEF WatchdogUpdate, RunsSettle, HandlersWait, AllHonest
<1> QED BY <1>1, <1>2 DEF WatchdogStep

\* A crash forgets copies and handlers; the runs recovery puts back to work
\* were not finished.
LEMMA EvidenceCrash ==
  ASSUME Evidence, Crash
  PROVE  RunsSettle' /\ HandlersWait' /\ AllHonest'
<1> USE DEF Evidence
<1>t. runs \in [RunIds -> Runs]
  BY DEF TypeInv, TypeOK
<1>1. ASSUME NEW r \in RunIds
      PROVE  /\ runs[r].status \in Finished => runs'[r] = runs[r]
             /\ runs[r].status = "unused" => runs'[r].status = "unused"
             /\ runs'[r].alive => runs'[r].status \notin Finished \cup {"unused"}
  <2>1. runs[r] \in Runs /\ (runs[r].alive => runs[r].status \notin Finished \cup {"unused"})
    BY <1>t DEF RunsSettle
  <2> DEFINE again == \/ runs[r].status = "pausing"
                      \/ runs[r].status = "paused" /\ runs[r].stage = LIVE_REPLAY
                      \/ runs[r].stage = OPTIMIZE /\ runs[r].alive
             b == runs[r].status \in {"active", "paused"}
  <2>2. runs'[r] = IF again THEN [runs[r] EXCEPT !.status = "active"]
                   ELSE [runs[r] EXCEPT !.alive = @ /\ b]
    BY DEF Crash
  <2>3. CASE again
    <3>1. runs[r].status # "unused"
      BY <2>1, <2>3 DEF RunsSettle
    <3> QED BY <2>1, <2>2, <2>3, <3>1 DEF Finished, Runs
  <2>4. CASE ~again
    BY <2>1, <2>2, <2>4 DEF Finished, Runs
  <2> QED BY <2>3, <2>4
<1>2. Keeps(runs, runs')
  BY <1>1 DEF Keeps
<1>3. RunsSettle'
  BY <1>1 DEF Crash, RunsSettle
<1>4. ASSUME NEW k \in Kinds, NEW r \in RunIds
      PROVE  handler'[k][r] = handler[k][r] \/ handler'[k][r] = Over
  BY DEF Crash
<1>5. HandlersWait'
  <2>1. "completed" \in Kinds
    BY DEF Kinds
  <2>2. ASSUME NEW r \in RunIds, handler'["completed"][r].pc \notin {"none", "over"}
        PROVE  runs'[r].status \in Finished
    BY <1>1, <1>4, <2>1, <2>2 DEF HandlersWait, Over
  <2> QED BY <2>2 DEF HandlersWait
<1>6. AllHonest'
  <2>1. Honest(runs', row) /\ \A k \in Kinds, r \in RunIds : Honest(runs', handler[k][r].copy)
    BY <1>2, StillHonest
  <2>2. Honest(runs', Over.copy)
    BY BlankHonest DEF Over
  <2>3. \A k \in Kinds, r \in RunIds : Honest(runs', handler'[k][r].copy)
    BY <1>4, <2>1, <2>2
  <2> QED BY <2>1, <2>3, BlankHonest DEF Crash, AllHonest, IdleWorker, IdleUser
<1> QED BY <1>3, <1>5, <1>6

\* Evidence is inductive.
LEMMA EvidenceNext == Evidence /\ [Next]_vars => Evidence'
<1> SUFFICES ASSUME Evidence, [Next]_vars PROVE Evidence'
  OBVIOUS
<1>t. TypeInv'
  BY TypeNext DEF Evidence
<1>s. SUFFICES RunsSettle' /\ HandlersWait' /\ AllHonest'
  BY <1>t DEF Evidence
<1>1. CASE WorkerStep \/ WorkerFail
  BY <1>1, EvidenceWorker
<1>2. CASE \E r \in RunIds : CompleteStep(r) \/ FailedStep(r) \/ RunStep(r)
  BY <1>2, EvidenceHandlers, EvidenceRuns
<1>3. CASE UserStart \/ \E op \in UserOps : UserCall(op)
  BY <1>3, EvidenceUserRead DEF UserStart, UserCall
<1>4. CASE UserStep
  BY <1>4, EvidenceUser
<1>5. CASE WatchdogStep
  BY <1>5, EvidenceWatchdog
<1>6. CASE Crash
  BY <1>6, EvidenceCrash
<1>7. CASE UNCHANGED vars
  BY <1>7 DEF vars, Evidence, RunsSettle, HandlersWait, AllHonest
<1> QED BY <1>1, <1>2, <1>3, <1>4, <1>5, <1>6, <1>7 DEF Next

\* Whatever operations, lost updates, redeliveries and crashes come in between,
\* every stage result in the row, or in an entity about to overwrite the row,
\* was reported by a finished run of that very stage.
THEOREM ResultsAreReal == Spec => []ResultsReal
<1>1. Evidence => ResultsReal
  BY DEF Evidence, AllHonest, Honest, Vouched, Finished, ResultsReal, Reported, Copies
<1> QED BY <1>1, EvidenceInit, EvidenceNext, PTL DEF Spec

\* completePipeline and the stale saves after it never leave a DEPLOY in the row
\* that no live replay with a score of at least 70 backs.
THEOREM DeployIsSound == Spec => []DeploySound
<1>1. Evidence => DeploySound
  BY DEF Evidence, AllHonest, Honest, Vouched, Finished, DeploySound, Reported
<1> QED BY <1>1, EvidenceInit, EvidenceNext, PTL DEF Spec

\* rejectPipeline's verdict is never mixed up by column updates or stale saves:
\* a REJECTED row always recommends DO_NOT_DEPLOY.
THEOREM RejectedIsNotDeploy == Spec => []RejectedNotDeploy
<1>1. Evidence => RejectedNotDeploy
  BY DEF Evidence, AllHonest, Honest, RejectedNotDeploy
<1> QED BY <1>1, EvidenceInit, EvidenceNext, PTL DEF Spec
====
