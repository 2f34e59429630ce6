------------------------- MODULE PaperSessionProofs -------------------------
(***************************************************************************)
(* Type correctness of a paper-trading session, for any limits on errors   *)
(* and retries, any watchdog thresholds and any number of calls, crashes   *)
(* and outages.  What is not obvious of it are the counters: an entity is  *)
(* read, its retries are counted up and it is saved much later, over the   *)
(* row of another writer.  Then, that the pipeline is told of every end,   *)
(* whichever entity wrote it.                                              *)
(***************************************************************************)
EXTENDS PaperSession, TLAPS

Workers == [pc : WorkerPcs, job : Jobs \cup {"tick", "retry", "none"}, copy : Sessions]
Users   == [pc : {"idle", "read", "tx"}, op : AllOps \cup {"none"}, copy : Sessions,
            cols : SUBSET Columns]

LEMMA AgeTypes ==
  /\ MaxErrors \in Nat \ {0} /\ MaxRetries \in Nat /\ FailAfter \in Nat
  /\ 0 \in 0..MaxErrors /\ 0 \in 0..MaxRetries
  /\ Oldest \in Nat /\ 0 \in Ages /\ Never \notin Ages
  /\ \A a \in Ages : Older(a) \in Ages
BY SessionAssumption DEF Oldest, Ages, Older, Never

LEMMA NewSession == New \in Sessions /\ [New EXCEPT !.status = "ACTIVE", !.beat = 0] \in Sessions
<1>1. New \in Sessions
  BY AgeTypes DEF New, Sessions, Statuses
<1>2. [New EXCEPT !.status = "ACTIVE", !.beat = 0] \in Sessions
  BY <1>1, AgeTypes DEF Sessions, Statuses
<1> QED BY <1>1, <1>2

\* What the services write onto an entity is an entity.
LEMMA SessionWrites ==
  ASSUME NEW c \in Sessions
  PROVE  /\ \A st \in Statuses : [c EXCEPT !.status = st] \in Sessions
         /\ [c EXCEPT !.beat = 0] \in Sessions
         /\ [c EXCEPT !.errors = 0, !.retries = 0, !.beat = 0] \in Sessions
         /\ [c EXCEPT !.errors = IF @ = MaxErrors THEN @ ELSE @ + 1] \in Sessions
         /\ RetryLeft(c) => backoff(c) \in Sessions
         /\ \A op \in AllOps : Assign(op, c) \in Sessions
         /\ OlderCopy(c) \in Sessions
<1>1. c.errors \in 0..MaxErrors /\ c.retries \in 0..MaxRetries /\ c.beat \in Ages \cup {Never}
  BY DEF Sessions
<1>2. \A st \in Statuses : [c EXCEPT !.status = st] \in Sessions
  BY DEF Sessions
<1>3. /\ [c EXCEPT !.beat = 0] \in Sessions
      /\ [c EXCEPT !.errors = 0, !.retries = 0, !.beat = 0] \in Sessions
  <2>1. [c EXCEPT !.beat = 0] \in Sessions
    BY AgeTypes DEF Sessions
  <2> DEFINE d == [c EXCEPT !.errors = 0, !.retries = 0]
  <2>2. d \in Sessions
    BY AgeTypes DEF Sessions
  <2>3. [d EXCEPT !.beat = 0] \in Sessions
    BY <2>2, AgeTypes DEF Sessions
  <2> QED BY <2>1, <2>3
<1>4. [c EXCEPT !.errors = IF @ = MaxErrors THEN @ ELSE @ + 1] \in Sessions
  <2>1. (IF c.errors = MaxErrors THEN c.errors ELSE c.errors + 1) \in 0..MaxErrors
    BY <1>1, AgeTypes
  <2> QED BY <2>1 DEF Sessions
<1>5. RetryLeft(c) => backoff(c) \in Sessions
  <2>1. RetryLeft(c) => c.retries + 1 \in 0..MaxRetries
    BY <1>1, AgeTypes DEF RetryLeft
  <2>2. 0 \in 0..MaxErrors
    BY AgeTypes
  <2> QED BY <2>1, <2>2 DEF backoff, Sessions
<1>6. \A op \in AllOps : Assign(op, c) \in Sessions
  <2>1. [c EXCEPT !.status = "ACTIVE", !.errors = 0, !.retries = 0] \in Sessions
    <3> DEFINE d == [c EXCEPT !.status = "ACTIVE", !.errors = 0]
    <3>1. d \in Sessions
      BY AgeTypes DEF Sessions, Statuses
    <3>2. [d EXCEPT !.retries = 0] \in Sessions
      BY <3>1, AgeTypes DEF Sessions
    <3> QED BY <3>2
  <2>2. [c EXCEPT !.status = "PAUSED"] \in Sessions /\ [c EXCEPT !.status = "STOPPED"] \in Sessions
    BY <1>2 DEF Statuses
  <2> QED BY <2>1, <2>2 DEF Assign, AllOps
<1>7. OlderCopy(c) \in Sessions
  <2>1. (IF c.beat = Never THEN c.beat ELSE Older(c.beat)) \in Ages \cup {Never}
    BY <1>1, AgeTypes
  <2> QED BY <2>1 DEF OlderCopy, Sessions
<1> QED BY <1>2, <1>3, <1>4, <1>5, <1>6, <1>7

\* Columns of two entities make an entity.
LEMMA MergeType ==
  ASSUME NEW cols, NEW c \in Sessions, NEW d \in Sessions
  PROVE  Merge(cols, c, d) \in Sessions
BY DEF Merge, Sessions

LEMMA IdleTypes == IdleWorker \in Workers /\ IdleUser \in Users
BY NewSession DEF IdleWorker, IdleUser, Workers, Users, WorkerPcs

\* The worker's next step, and the job it takes.
LEMMA WorkerMoves ==
  ASSUME worker \in Workers, session \in Sessions, NEW pc \in WorkerPcs, NEW c \in Sessions,
         NEW job \in Jobs \cup {"tick", "retry", "none"}
  PROVE  /\ Goto(pc, c) => worker' \in Workers
         /\ Take(job, pc) => worker' \in Workers
         /\ Idle => worker' \in Workers
<1>1. Goto(pc, c) => worker' \in Workers
  BY DEF Goto, Workers
<1>2. Take(job, pc) => worker' \in Workers
  BY DEF Take, Workers
<1>3. Idle => worker' \in Workers
  BY IdleTypes DEF Idle
<1> QED BY <1>1, <1>2, <1>3

LEMMA SaveType ==
  ASSUME NEW c \in Sessions, Save(c)
  PROVE  session' \in Sessions /\ touched' \in Ages
BY AgeTypes DEF Save

LEMMA UpdateType ==
  ASSUME session \in Sessions, UpdateLastTickAt \/ UpdateStatus("FAILED") \/ UpdateStatus("COMPLETED")
  PROVE  session' \in Sessions /\ touched' \in Ages
BY AgeTypes, SessionWrites DEF UpdateLastTickAt, UpdateStatus, Statuses
-----------------------------------------------------------------------------
\* A call in progress has an operation; Assign would be undefined otherwise.
Called == user.pc # "idle" => user.op \in AllOps

TypeInv == TypeOK /\ Called

\* Everything but the row, the worker and the call has a finite type.
Rest ==
  /\ ticking \in BOOLEAN /\ retry \in BOOLEAN /\ queue \subseteq Jobs
  /\ watchdog \in WatchdogPcs
  /\ booting \in BOOLEAN /\ outage \in BOOLEAN /\ told \in BOOLEAN
  /\ ops \in 0..MaxOps /\ crashes \in 0..MaxCrashes

LEMMA Parts ==
  TypeInv <=> /\ session \in Sessions /\ touched \in Ages
              /\ worker \in Workers /\ user \in Users /\ Called /\ Rest
BY DEF TypeInv, TypeOK, Workers, Users, Rest

LEMMA TypeInit == Init => TypeInv
<1> SUFFICES ASSUME Init PROVE TypeInv
  OBVIOUS
<1>1. session \in Sessions /\ touched \in Ages
  BY NewSession, AgeTypes DEF Init
<1>2. worker \in Workers /\ user \in Users
  BY IdleTypes DEF Init
<1>3. Called
  BY DEF Init, Called, IdleUser
<1>4. Rest
  <2>1. ticking \in BOOLEAN
    <3>1. ticking = (session.status = "ACTIVE")
      BY DEF Init
    <3> QED BY <3>1, Zenon
  <2>2. ops \in 0..MaxOps /\ crashes \in 0..MaxCrashes
    BY SessionAssumption DEF Init
  <2> QED BY <2>1, <2>2 DEF Init, Rest, WatchdogPcs
<1> QED BY <1>1, <1>2, <1>3, <1>4, Parts

\* A step of the worker: it moves on, and the row stays or is written.
LEMMA TypeWorker ==
  ASSUME TypeInv, WorkerStep \/ StartThrows \/ TickIsFatal
  PROVE  TypeInv'
<1>1. /\ session \in Sessions /\ touched \in Ages /\ worker \in Workers /\ user \in Users
      /\ Called /\ Rest
  BY Parts
<1>2. worker.copy \in Sessions /\ New \in Sessions
  BY <1>1, NewSession DEF Workers
<1>3. /\ {"start", "tick", "finalize", "schedule", "complete", "backoff", "rebook", "retry",
          "fail", "tell"} \subseteq WorkerPcs
      /\ {"start", "stop", "tick", "retry"} \subseteq Jobs \cup {"tick", "retry", "none"}
  BY DEF WorkerPcs, Jobs
<1>4. user' = user
  BY DEF WorkerStep, StartThrows, TickIsFatal, TakeStart, StartSave, Schedule, TakeTick,
     TakeRetry, TickSucceeds, TickFails, Backoff, BackoffRemove, BackoffRetry, WorkerMarkFailed,
     WorkerMarkCompleted, WorkerTell, TakeStop, Finalize, TakeNotify
<1>5. user' \in Users /\ Called'
  BY <1>1, <1>4 DEF Called
<1>6. Rest'
  <2> USE DEF Rest, redis, others
  <2>1. CASE TakeStart \/ TakeStop \/ TakeNotify
    BY <1>1, <2>1 DEF TakeStart, TakeStop, TakeNotify
  <2>2. CASE Schedule \/ TakeTick \/ TakeRetry \/ BackoffRemove \/ BackoffRetry \/ WorkerTell
    BY <1>1, <2>2 DEF Schedule, TakeTick, TakeRetry, BackoffRemove, BackoffRetry, WorkerTell,
       scheduleTickJob, removeTickJobs, CleanupAndTell
  <2>3. CASE \/ StartSave \/ TickSucceeds \/ TickFails \/ Backoff \/ WorkerMarkFailed
             \/ WorkerMarkCompleted \/ Finalize \/ StartThrows \/ TickIsFatal
    BY <1>1, <2>3 DEF StartSave, TickSucceeds, TickFails, Backoff, WorkerMarkFailed,
       WorkerMarkCompleted, Finalize, StartThrows, TickIsFatal
  <2> QED BY <2>1, <2>2, <2>3 DEF WorkerStep
<1>7. session' \in Sessions /\ touched' \in Ages
  <2>1. CASE UNCHANGED <<session, touched>>
    BY <1>1, <2>1
  <2>2. CASE StartSave \/ Finalize
    BY <1>2, <2>2, SaveType DEF StartSave, Finalize
  <2>3. CASE TickSucceeds
    BY <1>2, <2>3, SessionWrites, SaveType DEF TickSucceeds
  <2>4. CASE TickFails
    BY <1>1, <1>2, <2>4, SessionWrites, SaveType DEF TickFails
  <2>5. CASE Backoff
    BY <1>1, <1>2, <2>5, SessionWrites, SaveType DEF Backoff
  <2>6. CASE WorkerMarkFailed \/ WorkerMarkCompleted
    BY <1>1, <2>6, UpdateType DEF WorkerMarkFailed, WorkerMarkCompleted
  <2> QED BY <2>1, <2>2, <2>3, <2>4, <2>5, <2>6
          DEF WorkerStep, TakeStart, Schedule, TakeTick, TakeRetry, BackoffRemove, BackoffRetry,
              WorkerTell, TakeStop, TakeNotify, StartThrows, TickIsFatal
<1>8. worker' \in Workers
  <2>1. \A pc \in WorkerPcs : Goto(pc, New) => worker' \in Workers
    BY <1>1, <1>2, WorkerMoves
  <2>2. \A pc \in WorkerPcs, job \in Jobs \cup {"tick", "retry", "none"} :
          Take(job, pc) => worker' \in Workers
    BY <1>1, <1>2, WorkerMoves
  <2>3. Idle => worker' \in Workers
    BY IdleTypes DEF Idle
  <2>4. CASE TakeStart \/ TakeTick \/ TakeRetry \/ TakeStop \/ TakeNotify
    BY <1>1, <1>3, <2>2, <2>4 DEF TakeStart, TakeTick, TakeRetry, TakeStop, TakeNotify
  <2>5. CASE \/ StartSave \/ Schedule \/ TickSucceeds \/ Backoff \/ BackoffRemove \/ BackoffRetry
             \/ WorkerMarkFailed \/ WorkerMarkCompleted \/ WorkerTell \/ Finalize
             \/ StartThrows \/ TickIsFatal
    BY <1>3, <2>1, <2>3, <2>5 DEF StartSave, Schedule, TickSucceeds, Backoff, BackoffRemove,
       BackoffRetry, WorkerMarkFailed, WorkerMarkCompleted, WorkerTell, Finalize, StartThrows,
       TickIsFatal
  <2>6. CASE TickFails
    <3> DEFINE c == [worker.copy EXCEPT !.errors = IF @ = MaxErrors THEN @ ELSE @ + 1]
    <3>1. c \in Sessions
      BY <1>2, SessionWrites
    <3>2. Goto("backoff", c) \/ Goto("backoff", worker.copy) \/ Idle
      BY <2>6 DEF TickFails
    <3> HIDE DEF c
    <3> QED BY <1>1, <1>2, <1>3, <2>3, <3>1, <3>2, WorkerMoves
  <2> QED BY <2>4, <2>5, <2>6 DEF WorkerStep
<1>9. (session \in Sessions /\ touched \in Ages /\ worker \in Workers /\ user \in Users
       /\ Called /\ Rest)'
  BY <1>5, <1>6, <1>7, <1>8
<1> QED BY <1>9 DEF TypeInv, TypeOK, Workers, Users, Rest

\* A call of the user.
LEMMA TypeUser ==
  ASSUME TypeInv, (\E op \in UserOps : UserRead(op)) \/ UserStep \/ UserRollback
  PROVE  TypeInv'
<1>1. /\ session \in Sessions /\ touched \in Ages /\ worker \in Workers /\ user \in Users
      /\ Called /\ Rest
  BY Parts
<1>2. CASE \E op \in UserOps : UserRead(op)
  <2>1. PICK op \in UserOps : UserRead(op)
    BY <1>2
  <2>2. op \in AllOps
    BY SessionAssumption
  <2>3. user' \in Users /\ Called'
    BY <1>1, <2>1, <2>2 DEF UserRead, Users, Called
  <2>4. ops' \in 0..MaxOps
    BY <1>1, <2>1, SessionAssumption DEF UserRead, Rest
  <2> QED BY <1>1, <2>1, <2>3, <2>4 DEF UserRead, TypeInv, TypeOK, Workers, Users, Rest, redis
<1>3. CASE UserTransaction
  <2> DEFINE c == Assign(user.op, user.copy)
             cols == {f \in Columns : c[f] # session[f]}
  <2>1. user.op \in AllOps /\ user.copy \in Sessions
    BY <1>1, <1>3 DEF UserTransaction, Called, Users
  <2>2. Merge(cols, c, New) \in Sessions
    BY <2>1, SessionWrites, NewSession, MergeType
  <2>3. user' = [user EXCEPT !.pc = "tx", !.cols = cols, !.copy = Merge(cols, c, New)]
    BY <1>3 DEF UserTransaction
  <2>4. cols \in SUBSET Columns
    OBVIOUS
  <2> HIDE DEF cols, c
  <2>5. user' \in Users /\ user'.op = user.op
    <3> DEFINE m == Merge(cols, c, New)
               u == [user EXCEPT !.pc = "tx", !.cols = cols]
    <3>1. u \in Users /\ u.op = user.op
      BY <1>1, <2>4 DEF Users
    <3>2. user' = [u EXCEPT !.copy = m]
      BY <2>3
    <3>3. m \in Sessions
      BY <2>2
    <3> HIDE DEF u, m
    <3> QED BY <3>1, <3>2, <3>3 DEF Users
  <2>6. Called'
    BY <2>1, <2>5 DEF Called
  <2>7. ticking' \in BOOLEAN /\ retry' \in BOOLEAN /\ queue' \subseteq Jobs
    BY <1>1, <1>3, <2>1 DEF UserTransaction, AllOps, Rest, Jobs, StopJobs, removeTickJobs,
       scheduleTickJob, redis
  <2> QED BY <1>1, <1>3, <2>5, <2>6, <2>7 DEF UserTransaction, TypeInv, TypeOK, Workers, Users, Rest, others
<1>4. CASE UserCommit
  <2>1. session' \in Sessions /\ touched' \in Ages
    BY <1>1, <1>4, MergeType, AgeTypes DEF UserCommit, Users
  <2>2. user' \in Users /\ Called'
    BY <1>4, IdleTypes DEF UserCommit, Called, IdleUser
  <2> QED BY <1>1, <1>4, <2>1, <2>2 DEF UserCommit, TypeInv, TypeOK, Workers, Users, Rest, redis, others
<1>5. CASE UserRollback
  <2>1. user' \in Users /\ Called'
    BY <1>5, IdleTypes DEF UserRollback, Called, IdleUser
  <2> QED BY <1>1, <1>5, <2>1 DEF UserRollback, TypeInv, TypeOK, Workers, Users, Rest, redis, others
<1> QED BY <1>2, <1>3, <1>4, <1>5 DEF UserStep

\* The watchdog, the recovery at boot, a crash and the outage.
LEMMA TypeOthers ==
  ASSUME TypeInv, WatchdogStep \/ Crash \/ Outage
  PROVE  TypeInv'
<1>1. /\ session \in Sessions /\ touched \in Ages /\ worker \in Workers /\ user \in Users
      /\ Called /\ Rest
  BY Parts
<1>2. CASE WatchdogPeriod
  <2>1. session' \in Sessions
    BY <1>1, <1>2, SessionWrites DEF WatchdogPeriod
  <2>2. touched' \in Ages
    BY <1>1, <1>2, AgeTypes DEF WatchdogPeriod
  <2>3. worker' \in Workers
    <3>1. OlderCopy(worker.copy) \in Sessions
      BY <1>1, SessionWrites DEF Workers
    <3> QED BY <1>1, <1>2, <3>1 DEF WatchdogPeriod, Workers
  <2>4. watchdog' \in WatchdogPcs
    BY <1>2 DEF WatchdogPeriod, WatchdogPcs
  <2> QED BY <1>1, <1>2, <2>1, <2>2, <2>3, <2>4
          DEF WatchdogPeriod, TypeInv, TypeOK, Workers, Users, Rest, Called, redis, others
<1>3. CASE WatchdogRecover
  BY <1>1, <1>3 DEF WatchdogRecover, recover, TypeInv, TypeOK, Workers, Users, Rest, Called, others,
     WatchdogPcs
<1>4. CASE WatchdogBeat \/ WatchdogMarkFailed
  <2>1. session' \in Sessions /\ touched' \in Ages
    BY <1>1, <1>4, UpdateType DEF WatchdogBeat, WatchdogMarkFailed
  <2>2. watchdog' \in WatchdogPcs
    BY <1>4 DEF WatchdogBeat, WatchdogMarkFailed, WatchdogPcs
  <2> QED BY <1>1, <1>4, <2>1, <2>2 DEF WatchdogBeat, WatchdogMarkFailed, TypeInv, TypeOK, Workers,
             Users, Rest, Called, redis, others
<1>5. CASE WatchdogTell
  BY <1>1, <1>5 DEF WatchdogTell, CleanupAndTell, removeTickJobs, TypeInv, TypeOK, Workers, Users,
     Rest, Called, others, WatchdogPcs
<1>6. CASE Boot
  BY <1>1, <1>6 DEF Boot, TypeInv, TypeOK, Workers, Users, Rest, Called, redis, WatchdogPcs
<1>7. CASE Crash
  <2>1. worker' \in Workers /\ user' \in Users /\ Called'
    BY <1>7, IdleTypes DEF Crash, Called, IdleUser
  <2>2. crashes' \in 0..MaxCrashes
    BY <1>1, <1>7, SessionAssumption DEF Crash, Rest
  <2>3. queue' \subseteq Jobs /\ retry' \in BOOLEAN /\ watchdog' \in WatchdogPcs
    BY <1>1, <1>7 DEF Crash, Rest, WatchdogPcs
  <2> QED BY <1>1, <1>7, <2>1, <2>2, <2>3 DEF Crash, TypeInv, TypeOK, Workers, Users, Rest
<1>8. CASE Outage
  BY <1>1, <1>8 DEF Outage, TypeInv, TypeOK, Workers, Users, Rest, Called, redis
<1> QED BY <1>2, <1>3, <1>4, <1>5, <1>6, <1>7, <1>8 DEF WatchdogStep

\* TypeInv is inductive.
LEMMA TypeNext == TypeInv /\ [Next]_vars => TypeInv'
<1> SUFFICES ASSUME TypeInv, [Next]_vars PROVE TypeInv'
  OBVIOUS
<1>1. CASE UNCHANGED vars
  BY <1>1 DEF vars, TypeInv, TypeOK, Called
<1> QED BY <1>1, TypeWorker, TypeUser, TypeOthers DEF Next

\* Every reachable state of a session is well typed: whichever stale entity a
\* tick, a retry, a stop or a call saves over the row, retryAttempts never
\* exceeds maxRetryAttempts (handleConsecutiveErrors), and every
\* call in progress knows its operation.
THEOREM TypeCorrect == Spec => []TypeOK
<1>1. TypeInv => TypeOK
  BY DEF TypeInv
<1> QED BY <1>1, TypeInit, TypeNext, PTL DEF Spec
-----------------------------------------------------------------------------
(***************************************************************************)
(* No end gets past the pipeline.  An end may be written long after it was *)
(* read, by the worker or by a call that saves an older entity; so what    *)
(* EndNotLost says of the row is shown of every entity held.               *)
(***************************************************************************)
Announced == told \/ worker.pc = "tell" \/ watchdog = "tell" \/ crashes > 0
Notified  == told \/ "notify" \in queue

Sound(st) ==
  /\ st \in {"COMPLETED", "FAILED"} => Announced
  /\ st = "STOPPED" => Notified

Held == {session.status, worker.copy.status, user.copy.status}

EndsKnown == \A st \in Held : Sound(st)

\* What is announced or notified remains so.
LEMMA AnnouncedStays ==
  ASSUME TypeInv, [Next]_vars
  PROVE  (Announced => Announced') /\ (Notified => Notified')
<1>1. worker \in Workers /\ Rest
  BY Parts
<1>2. crashes \in Nat
  BY <1>1, SessionAssumption DEF Rest
<1>3. CASE \/ TakeStart \/ StartSave \/ Schedule \/ TakeTick \/ TakeRetry \/ TickSucceeds
           \/ TickFails \/ Backoff \/ BackoffRemove \/ BackoffRetry \/ TakeStop \/ Finalize
           \/ StartThrows \/ TickIsFatal \/ WorkerMarkFailed \/ WorkerMarkCompleted
  <2>1. worker.pc # "tell" /\ UNCHANGED <<told, watchdog, crashes>>
    BY <1>3 DEF TakeStart, StartSave, Schedule, TakeTick, TakeRetry, TickSucceeds, TickFails,
       Backoff, BackoffRemove, BackoffRetry, TakeStop, Finalize, StartThrows, TickIsFatal,
       WorkerMarkFailed, WorkerMarkCompleted, others
  <2>2. "notify" \in queue => "notify" \in queue'
    BY <1>3 DEF TakeStart, StartSave, Schedule, TakeTick, TakeRetry, TickSucceeds, TickFails,
       Backoff, BackoffRemove, BackoffRetry, TakeStop, Finalize, StartThrows, TickIsFatal,
       WorkerMarkFailed, WorkerMarkCompleted, redis
  <2> QED BY <2>1, <2>2 DEF Announced, Notified
<1>4. CASE WorkerTell \/ TakeNotify \/ WatchdogTell
  BY <1>4 DEF WorkerTell, TakeNotify, WatchdogTell, CleanupAndTell, Announced, Notified
<1>5. CASE (\E op \in UserOps : UserRead(op)) \/ UserStep \/ UserRollback \/ Outage \/ Boot
           \/ UNCHANGED vars
  <2>1. UNCHANGED <<told, worker, crashes>>
    BY <1>5 DEF UserRead, UserStep, UserTransaction, UserCommit, UserRollback, Outage, Boot, vars,
       others
  <2>2. watchdog = "tell" => watchdog' = "tell"
    BY <1>5 DEF UserRead, UserStep, UserTransaction, UserCommit, UserRollback, Outage, Boot, vars
  <2>3. "notify" \in queue => "notify" \in queue'
    <3>1. CASE UserTransaction
      <4>1. user.op \in AllOps
        BY <3>1, Parts DEF UserTransaction, Called
      <4> QED BY <3>1, <4>1 DEF UserTransaction, AllOps, StopJobs, redis
    <3>2. CASE ~UserTransaction
      BY <1>5, <3>2 DEF UserRead, UserStep, UserCommit, UserRollback, Outage, Boot, vars, redis
    <3> QED BY <3>1, <3>2
  <2> QED BY <2>1, <2>2, <2>3 DEF Announced, Notified
<1>6. CASE WatchdogPeriod \/ WatchdogRecover \/ WatchdogBeat \/ WatchdogMarkFailed
  <2>1. UNCHANGED <<told, queue, crashes>> /\ watchdog # "tell" /\ worker'.pc = worker.pc
    BY <1>1, <1>6 DEF WatchdogPeriod, WatchdogRecover, WatchdogBeat, WatchdogMarkFailed, Workers,
       redis, others
  <2> QED BY <2>1 DEF Announced, Notified
<1>7. CASE Crash
  <2>1. crashes' > 0 /\ told' = told /\ queue \subseteq queue'
    BY <1>2, <1>7 DEF Crash
  <2> QED BY <2>1 DEF Announced, Notified
<1> QED BY <1>3, <1>4, <1>5, <1>6, <1>7 DEF Next, WorkerStep, WatchdogStep

\* The statuses of the entities after a step of the worker.
LEMMA HeldWorker ==
  ASSUME TypeInv, WorkerStep \/ StartThrows \/ TickIsFatal
  PROVE  /\ session'.status \in Held \/ (worker'.pc = "tell" /\ session'.status # "STOPPED")
         /\ worker'.copy.status \in Held \cup {"PAUSED"}
         /\ user' = user
<1>1. session \in Sessions /\ worker \in Workers /\ worker.copy \in Sessions
  BY Parts DEF Workers
<1>2. New.status = "PAUSED" /\ IdleWorker.copy = New
  BY DEF New, IdleWorker
<1>3. user' = user
  BY DEF WorkerStep, StartThrows, TickIsFatal, TakeStart, StartSave, Schedule, TakeTick,
     TakeRetry, TickSucceeds, TickFails, Backoff, BackoffRemove, BackoffRetry, WorkerMarkFailed,
     WorkerMarkCompleted, WorkerTell, TakeStop, Finalize, TakeNotify
<1> DEFINE c == worker.copy
<1>4. /\ [c EXCEPT !.errors = 0, !.retries = 0, !.beat = 0].status = c.status
      /\ [c EXCEPT !.errors = IF @ = MaxErrors THEN @ ELSE @ + 1].status = c.status
      /\ backoff(c).status = c.status
  BY <1>1 DEF Sessions, backoff
<1>5. \A pc, d : Goto(pc, d) => worker'.pc = pc /\ worker'.copy = d
  BY <1>1 DEF Goto, Workers
<1>6. \A job, pc : Take(job, pc) => worker'.copy = session
  BY DEF Take
<1>7. Idle => worker'.copy = New
  BY <1>2 DEF Idle
<1>8. /\ session.status \in Held /\ c.status \in Held
  BY DEF Held
<1>9. CASE TakeStart \/ TakeTick \/ TakeRetry \/ TakeStop \/ TakeNotify
  BY <1>3, <1>6, <1>8, <1>9 DEF TakeStart, TakeTick, TakeRetry, TakeStop, TakeNotify
<1>10. CASE WorkerMarkFailed \/ WorkerMarkCompleted
  <2>1. worker'.pc = "tell" /\ worker'.copy = New
    BY <1>5, <1>10 DEF WorkerMarkFailed, WorkerMarkCompleted
  <2>2. session'.status \in {"FAILED", "COMPLETED"}
    BY <1>1, <1>10 DEF WorkerMarkFailed, WorkerMarkCompleted, UpdateStatus, Sessions
  <2> QED BY <1>2, <1>3, <2>1, <2>2
<1>11. CASE StartSave \/ Finalize
  BY <1>2, <1>3, <1>5, <1>7, <1>8, <1>11 DEF StartSave, Finalize, Save
<1>12. CASE TickSucceeds
  BY <1>2, <1>3, <1>4, <1>5, <1>7, <1>8, <1>12 DEF TickSucceeds, Save
<1>13. CASE TickFails
  BY <1>2, <1>3, <1>4, <1>5, <1>7, <1>8, <1>13 DEF TickFails, Save
<1>14. CASE Backoff
  BY <1>2, <1>3, <1>4, <1>5, <1>8, <1>14 DEF Backoff, Save
<1>15. CASE \/ Schedule \/ BackoffRemove \/ BackoffRetry \/ WorkerTell \/ StartThrows \/ TickIsFatal
  BY <1>2, <1>3, <1>5, <1>7, <1>8, <1>15 DEF Schedule, BackoffRemove, BackoffRetry, WorkerTell,
     StartThrows, TickIsFatal
<1> QED BY <1>9, <1>10, <1>11, <1>12, <1>13, <1>14, <1>15 DEF WorkerStep

\* The statuses of the entities after any other step.
LEMMA HeldOthers ==
  ASSUME TypeInv,
         \/ (\E op \in UserOps : UserRead(op)) \/ UserStep \/ UserRollback
         \/ WatchdogStep \/ Crash \/ Outage \/ UNCHANGED vars
  PROVE  /\ session'.status \in Held \/ (watchdog' = "tell" /\ session'.status # "STOPPED")
         /\ worker'.copy.status \in Held \cup {"PAUSED"}
         /\ \/ user'.copy.status \in Held \cup {"PAUSED", "ACTIVE"}
            \/ user'.copy.status = "STOPPED" /\ "notify" \in queue'
<1>1. /\ session \in Sessions /\ worker \in Workers /\ worker.copy \in Sessions
      /\ user \in Users /\ user.copy \in Sessions /\ Called
  BY Parts DEF Workers, Users
<1>2. New.status = "PAUSED" /\ IdleWorker.copy = New /\ IdleUser.copy = New
  BY DEF New, IdleWorker, IdleUser
<1>3. session.status \in Held /\ worker.copy.status \in Held /\ user.copy.status \in Held
  BY DEF Held
<1>4. CASE \E op \in UserOps : UserRead(op)
  BY <1>3, <1>4 DEF UserRead
<1>5. CASE UserTransaction
  <2> DEFINE c == Assign(user.op, user.copy)
             cols == {f \in Columns : c[f] # session[f]}
             m == Merge(cols, c, New)
  <2>1. user.op \in AllOps /\ UNCHANGED <<session, worker>>
    BY <1>1, <1>5 DEF UserTransaction, Called
  <2>2. c.status \in {"ACTIVE", "PAUSED", user.copy.status} \/ (user.op = "stop" /\ c.status = "STOPPED")
    BY <1>1, <2>1 DEF Assign, AllOps, Sessions
  <2>3. user.op = "stop" => "notify" \in queue'
    BY <1>5 DEF UserTransaction, StopJobs
  <2>4. m.status \in {c.status, "PAUSED"}
    BY <1>2 DEF Merge
  <2>5. user'.copy = m
    <3>1. user' = [user EXCEPT !.pc = "tx", !.cols = cols, !.copy = m]
      BY <1>5 DEF UserTransaction
    <3> HIDE DEF m, cols
    <3> QED BY <1>1, <3>1 DEF Users
  <2> HIDE DEF m, c
  <2> QED BY <1>3, <2>1, <2>2, <2>3, <2>4, <2>5
<1>6. CASE UserCommit
  BY <1>2, <1>3, <1>6 DEF UserCommit, Merge
<1>7. CASE UserRollback \/ Outage \/ UNCHANGED vars \/ WatchdogRecover \/ WatchdogTell \/ Boot
  BY <1>2, <1>3, <1>7 DEF UserRollback, Outage, vars, WatchdogRecover, WatchdogTell, Boot
<1>8. CASE WatchdogPeriod
  <2>1. /\ OlderCopy(session).status = session.status
        /\ OlderCopy(worker.copy).status = worker.copy.status
    BY <1>1 DEF OlderCopy, Sessions
  <2>2. worker'.copy = OlderCopy(worker.copy) /\ session' = OlderCopy(session) /\ user' = user
    BY <1>1, <1>8 DEF WatchdogPeriod, Workers
  <2> QED BY <1>3, <2>1, <2>2
<1>9. CASE WatchdogBeat \/ WatchdogMarkFailed
  <2>1. UNCHANGED <<worker, user>>
    BY <1>9 DEF WatchdogBeat, WatchdogMarkFailed
  <2>2. session'.status = session.status \/ (watchdog' = "tell" /\ session'.status = "FAILED")
    BY <1>1, <1>9 DEF WatchdogBeat, WatchdogMarkFailed, UpdateLastTickAt, UpdateStatus, Sessions
  <2> QED BY <1>3, <2>1, <2>2
<1>10. CASE Crash
  BY <1>2, <1>3, <1>10 DEF Crash
<1> QED BY <1>4, <1>5, <1>6, <1>7, <1>8, <1>9, <1>10 DEF UserStep, WatchdogStep

LEMMA EndsNext == TypeInv /\ EndsKnown /\ [Next]_vars => EndsKnown'
<1> SUFFICES ASSUME TypeInv, EndsKnown, [Next]_vars PROVE EndsKnown'
  OBVIOUS
<1>1. \A st \in Held \cup {"PAUSED", "ACTIVE"} : Sound(st)'
  BY AnnouncedStays DEF EndsKnown, Sound
<1>2. /\ worker'.pc = "tell" \/ watchdog' = "tell" => Announced'
      /\ "notify" \in queue' => Notified'
  BY DEF Announced, Notified
<1>3. /\ session'.status \in Held
           \/ ((worker'.pc = "tell" \/ watchdog' = "tell") /\ session'.status # "STOPPED")
      /\ worker'.copy.status \in Held \cup {"PAUSED"}
      /\ \/ user'.copy.status \in Held \cup {"PAUSED", "ACTIVE"}
         \/ user'.copy.status = "STOPPED" /\ "notify" \in queue'
  <2>1. CASE WorkerStep \/ StartThrows \/ TickIsFatal
    BY <2>1, HeldWorker DEF Held
  <2>2. CASE ~(WorkerStep \/ StartThrows \/ TickIsFatal)
    BY <2>2, HeldOthers DEF Next
  <2> QED BY <2>1, <2>2
<1>4. Sound(session.status)' /\ Sound(worker.copy.status)' /\ Sound(user.copy.status)'
  BY <1>1, <1>2, <1>3 DEF Sound
<1> QED BY <1>4 DEF EndsKnown, Held, Sound

\* A COMPLETED or FAILED session has been announced to its pipeline or is about
\* to be, unless the process crashed, and a STOPPED one has its notification in
\* Redis until it is announced, even then: for any limits, calls, rollbacks,
\* crashes and stale saves (markFailed, markCompleted, stop,
\* handleNotifyPipeline).
THEOREM NoEndIsLost == Spec => []EndNotLost
<1>1. Init => EndsKnown
  <2>1. ASSUME Init PROVE session.status \in {"PAUSED", "ACTIVE"}
    <3>1. New \in Sessions /\ New.status = "PAUSED"
      BY NewSession DEF New
    <3>2. [New EXCEPT !.status = "ACTIVE", !.beat = 0].status = "ACTIVE"
      BY <3>1 DEF Sessions
    <3> QED BY <2>1, <3>1, <3>2 DEF Init
  <2>2. ASSUME Init PROVE worker.copy.status = "PAUSED" /\ user.copy.status = "PAUSED"
    BY <2>2 DEF Init, IdleWorker, IdleUser, New
  <2> QED BY <2>1, <2>2 DEF EndsKnown, Held, Sound
<1>2. EndsKnown => EndNotLost
  BY DEF EndsKnown, Held, Sound, Announced, Notified, EndNotLost
<1> QED BY <1>1, <1>2, TypeInit, TypeNext, EndsNext, PTL DEF Spec
=============================================================================
