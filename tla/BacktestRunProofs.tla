------------------------- MODULE BacktestRunProofs -------------------------
(***************************************************************************)
(* What holds of a backtest run for every number of bars, every checkpoint *)
(* interval and every number of worker slots: its types, that a checkpoint *)
(* is backed by the rows it counts, and that the run implements            *)
(* RecordKeeping.                                                          *)
(***************************************************************************)
EXTENDS BacktestRun, FiniteSetTheorems, TLAPS

Segment(n) == Record!Segment(n)

-----------------------------------------------------------------------------
(* The operators on results.                                               *)

\* Storing the rows a worker holds adds to the rows of a bar.
LEMMA WithHeldType ==
  ASSUME TypeOK, NEW w \in Workers
  PROVE  WithHeld(w) \in [Bars -> Nat]
BY DEF TypeOK, WithHeld

\* A cleanup leaves a number of rows per bar.
LEMMA CleanedType ==
  ASSUME TypeOK, NEW expected
  PROVE  Cleaned(expected) \in [Bars -> Nat]
<1> SUFFICES ASSUME NEW b \in Bars
             PROVE  Cardinality({i \in 1 .. results[b] : RowsBefore(b) + i <= expected}) \in Nat
  BY DEF Cleaned
<1>1. results[b] \in Nat
  BY DEF TypeOK
<1>2. IsFiniteSet(1 .. results[b])
  BY <1>1, FS_Interval
<1>3. {i \in 1 .. results[b] : RowsBefore(b) + i <= expected} \in SUBSET (1 .. results[b])
  OBVIOUS
<1> DEFINE S == {i \in 1 .. results[b] : RowsBefore(b) + i <= expected}
<1>4. IsFiniteSet(S)
  BY <1>2, <1>3, FS_Subset
<1> QED BY <1>4, FS_CardinalityType

\* When the first m bars are recorded once, the first n bars have as many rows
\* as bars of them are recorded.
LEMMA RowsOfSegment ==
  ASSUME NEW m \in 0 .. NumBars, NEW n \in 0 .. NumBars, results = Segment(m)
  PROVE  RowsBefore(n) = IF n < m THEN n ELSE m
<1> DEFINE k == IF n < m THEN n ELSE m
           R == UNION {{b} \X (1 .. results[b]) : b \in 0 .. n - 1}
<1>0. NumBars \in Nat /\ m \in Nat /\ n \in Nat /\ k \in Nat
  BY BacktestAssumption
<1>1. \A b \in 0 .. n - 1 : results[b] = IF b < m THEN 1 ELSE 0
  BY <1>0 DEF Segment, Record!Segment, Record!Bars
<1>2. R = (0 .. k - 1) \X {1}
  <2>1. \A x : x \in R <=> \E b \in 0 .. n - 1 : x \in {b} \X (1 .. results[b])
    OBVIOUS
  <2>2. \A b \in 0 .. n - 1 : b \in 0 .. k - 1 => 1 .. results[b] = {1}
    BY <1>0, <1>1
  <2>3. \A b \in 0 .. n - 1 : b \notin 0 .. k - 1 => 1 .. results[b] = {}
    BY <1>0, <1>1
  <2>4. 0 .. k - 1 \subseteq 0 .. n - 1
    BY <1>0
  <2> HIDE DEF k, R
  <2>5. ASSUME NEW x \in R PROVE x \in (0 .. k - 1) \X {1}
    <3>1. PICK b \in 0 .. n - 1 : x \in {b} \X (1 .. results[b])
      BY <2>1
    <3>2. CASE b \in 0 .. k - 1
      BY <2>2, <3>1, <3>2
    <3>3. CASE b \notin 0 .. k - 1
      BY <2>3, <3>1, <3>3
    <3> QED BY <3>2, <3>3
  <2>6. ASSUME NEW x \in (0 .. k - 1) \X {1} PROVE x \in R
    <3>1. PICK b \in 0 .. k - 1, c \in {1} : x = <<b, c>>
      OBVIOUS
    <3>2. c = 1 /\ b \in 0 .. n - 1 /\ 1 \in 1 .. results[b]
      BY <2>2, <2>4
    <3> QED BY <2>1, <3>1, <3>2
  <2> QED BY <2>5, <2>6
<1>3. IsFiniteSet(0 .. k - 1) /\ Cardinality(0 .. k - 1) = k
  <2> HIDE DEF k
  <2>1. 0 \in Int /\ k - 1 \in Int
    BY <1>0
  <2> QED BY <1>0, <2>1, FS_Interval
<1>4. IsFiniteSet({1}) /\ Cardinality({1}) = 1
  BY FS_Singleton
<1>5. Cardinality((0 .. k - 1) \X {1}) = k * 1
  <2> HIDE DEF k
  <2>1. Cardinality((0 .. k - 1) \X {1}) = Cardinality(0 .. k - 1) * Cardinality({1})
    BY <1>3, <1>4, FS_Product, Zenon
  <2> QED BY <1>3, <1>4, <2>1
<1>6. Cardinality(R) = k
  <2> HIDE DEF k, R
  <2> QED BY <1>0, <1>2, <1>5
<1> QED BY <1>6 DEF RowsBefore

\* A cleanup down to n rows cuts the record back to its first n bars.
LEMMA CleanedSegment ==
  ASSUME NEW m \in 0 .. NumBars, NEW n \in 0 .. NumBars, n <= m, results = Segment(m)
  PROVE  Cleaned(n) = Segment(n)
<1>0. NumBars \in Nat /\ m \in Nat /\ n \in Nat
  BY BacktestAssumption
<1> SUFFICES ASSUME NEW b \in Bars
             PROVE  Cardinality({i \in 1 .. results[b] : RowsBefore(b) + i <= n})
                      = IF b < n THEN 1 ELSE 0
  BY DEF Cleaned, Segment, Record!Segment, Record!Bars, Bars
<1>1. b \in Nat /\ b \in 0 .. NumBars
  BY <1>0 DEF Bars
<1>2. results[b] = IF b < m THEN 1 ELSE 0
  BY DEF Segment, Record!Segment, Record!Bars, Bars
<1>3. RowsBefore(b) = IF b < m THEN b ELSE m
  BY <1>1, RowsOfSegment
<1>4. CASE b < n
  <2>1. {i \in 1 .. results[b] : RowsBefore(b) + i <= n} = {1}
    BY <1>0, <1>1, <1>2, <1>3, <1>4
  <2> QED BY <1>4, <2>1, FS_Singleton
<1>5. CASE ~(b < n)
  <2>1. {i \in 1 .. results[b] : RowsBefore(b) + i <= n} = {}
    BY <1>0, <1>1, <1>2, <1>3, <1>5
  <2> QED BY <1>5, <2>1, FS_EmptySet
<1> QED BY <1>4, <1>5

-----------------------------------------------------------------------------
(* Types.                                                                  *)

WorkerRecord == [pc : WorkerPcs, start : 0 .. NumBars, next : 0 .. NumBars, base : Nat]

\* The part of TypeOK a worker's step is about.
WorkersOK ==
  /\ worker \in [Workers -> WorkerRecord]
  /\ \A w \in Workers : worker[w].next - worker[w].start \in 0 .. Interval

\* A slot that gets a record of the right shape keeps them.
LEMMA WorkersOneStep ==
  ASSUME TypeOK, NEW w \in Workers, NEW r \in WorkerRecord,
         r.next - r.start \in 0 .. Interval, worker' = [worker EXCEPT ![w] = r]
  PROVE  WorkersOK'
BY DEF TypeOK, WorkersOK, WorkerRecord

LEMMA IdleType ==
  /\ Idle \in WorkerRecord /\ Idle.next - Idle.start \in 0 .. Interval
  /\ Idle.pc = "idle"
BY BacktestAssumption DEF Idle, WorkerRecord, WorkerPcs

LEMMA JobDoneType ==
  ASSUME TypeOK, NEW w \in Workers, JobDone(w)
  PROVE  WorkersOK' /\ job' \in {"none", "waiting", "stalled"} \cup Workers
<1>1. WorkersOK'
  BY WorkersOneStep, IdleType DEF JobDone
<1> QED BY <1>1 DEF JobDone, TypeOK

LEMMA NoCheckpointFacts ==
  NoCheckpoint \notin Checkpoints /\ NoCheckpoint.at = -1 /\ NoCheckpoint.counts = 0
<1>1. "none" \in DOMAIN NoCheckpoint
  BY DEF NoCheckpoint
<1>2. \A c \in Checkpoints : DOMAIN c = {"at", "counts"}
  BY DEF Checkpoints
<1> QED BY <1>1, <1>2 DEF NoCheckpoint

\* A worker's snapshot is a checkpoint.
LEMMA SnapshotType ==
  ASSUME TypeOK, NEW w \in Workers
  PROVE  buildSnapshot(w) \in Checkpoints
<1>1. worker[w] \in WorkerRecord /\ Due(w) \in Nat
  BY BacktestAssumption DEF TypeOK, WorkerRecord, Due
<1> QED BY <1>1, BacktestAssumption DEF buildSnapshot, Checkpoints, WorkerRecord

\* The initial state is well typed.
LEMMA TypeInit == Init => TypeOK
<1> SUFFICES ASSUME Init PROVE TypeOK
  OBVIOUS
<1>1. backtest \in Rows
  <2>1. PICK t \in Types : backtest = [type |-> t, status |-> "PENDING", resumes |-> 0,
                                       checkpoint |-> NoCheckpoint]
    BY DEF Init
  <2>2. t \in BacktestTypes /\ "PENDING" \in BacktestStatus /\ 0 \in 0 .. MaxResumes
    BY BacktestAssumption DEF BacktestStatus
  <2> QED BY <2>1, <2>2 DEF Rows
<1>2. results \in [Bars -> Nat]
  BY DEF Init
<1>3. worker \in [Workers -> WorkerRecord] /\ \A w \in Workers : worker[w].next - worker[w].start \in 0 .. Interval
  BY IdleType DEF Init
<1>4. recovery \in [pc : {"idle", "find", "act", "add"}, status : BacktestStatus,
                   checkpoint : Checkpoints \cup {NoCheckpoint}]
  BY DEF Init, NotRecovering, BacktestStatus
<1>5. ops \in 0 .. MaxOps /\ faults \in 0 .. MaxFaults
  BY BacktestAssumption DEF Init
<1> QED BY <1>1, <1>2, <1>3, <1>4, <1>5 DEF Init, TypeOK, WorkerRecord

LEMMA SavedType ==
  ASSUME TypeOK, NEW status \in BacktestStatus, Saved(status)
  PROVE  backtest' \in Rows /\ backtest'.checkpoint = backtest.checkpoint /\ backtest'.status = status
BY DEF TypeOK, Rows, Saved

LEMMA FaultType ==
  ASSUME TypeOK, NEW kind, Fault(kind)
  PROVE  faults' \in 0 .. MaxFaults
BY BacktestAssumption DEF TypeOK, Fault

LEMMA StatusFacts ==
  /\ "PENDING" \in BacktestStatus /\ "RUNNING" \in BacktestStatus /\ "PAUSED" \in BacktestStatus
  /\ "COMPLETED" \in BacktestStatus /\ "FAILED" \in BacktestStatus /\ "CANCELLED" \in BacktestStatus
BY DEF BacktestStatus

\* A worker's steps keep the types.
LEMMA TypeWork ==
  ASSUME TypeOK, NEW w \in Workers, Work(w) \/ Fail(w)
  PROVE  TypeOK'
<1>0. /\ worker[w] \in WorkerRecord /\ Due(w) \in 0 .. Interval /\ Due(w) \in Nat
      /\ NumBars \in Nat /\ Interval \in Nat /\ Interval > 0
      /\ backtest \in Rows /\ worker[w].next \in Int /\ worker[w].start \in Int
  BY BacktestAssumption DEF TypeOK, WorkerRecord, Due
<1>w. TypeOK => WorkersOK
  BY DEF TypeOK, WorkersOK, WorkerRecord
<1> DEFINE Rest == UNCHANGED <<process, recovery, request, ops>>
<1>k. ASSUME WorkersOK', Rest, backtest' \in Rows, results' \in [Bars -> Nat],
             job' \in {"none", "waiting", "stalled"} \cup Workers, flag' \in BOOLEAN,
             faults' \in 0 .. MaxFaults, tainted' \in BOOLEAN
      PROVE  TypeOK'
  BY <1>k DEF TypeOK, WorkersOK, WorkerRecord
<1>1. CASE Take(w)
  <2>1. CASE backtest.status = "PENDING"
    <3> DEFINE c == backtest.checkpoint
               r == [pc |-> "begin", start |-> c.at + 1, next |-> c.at + 1, base |-> c.counts]
    <3>1. c.at \in -1 .. NumBars - 1 /\ c.counts \in Nat
      BY <1>0, NoCheckpointFacts DEF Rows, Checkpoints
    <3>2. r \in WorkerRecord /\ r.next - r.start \in 0 .. Interval
      BY <1>0, <3>1 DEF WorkerRecord, WorkerPcs
    <3>3. worker' = [worker EXCEPT ![w] = r]
      BY <1>1, <2>1 DEF Take
    <3> HIDE DEF r
    <3>4. WorkersOK'
      BY <3>2, <3>3, WorkersOneStep
    <3>5. results' \in [Bars -> Nat]
      <4>1. CASE c = NoCheckpoint
        BY <1>1, <2>1, <4>1 DEF Take, TypeOK
      <4>2. CASE c # NoCheckpoint
        <5>1. results' = Cleaned(c.counts)
          BY <1>1, <2>1, <4>2 DEF Take
        <5> QED BY <5>1, CleanedType
      <4> QED BY <4>1, <4>2
    <3>6. tainted' \in BOOLEAN
      BY <1>1, <2>1 DEF Take, TypeOK
    <3> QED BY <1>1, <2>1, <1>k, <3>4, <3>5, <3>6 DEF Take, TypeOK
  <2>2. CASE backtest.status # "PENDING"
    BY <1>1, <2>2, <1>k, <1>w DEF Take, TypeOK, WorkersOK
  <2> QED BY <2>1, <2>2
<1>2. CASE Start(w)
  <2>1. WorkersOK'
    <3> DEFINE r == [worker[w] EXCEPT !.pc = "clear"]
    <3>1. r \in WorkerRecord /\ r.next - r.start \in 0 .. Interval
      BY <1>0 DEF WorkerRecord, WorkerPcs, Due
    <3> QED BY <1>2, <3>1, WorkersOneStep DEF Start
  <2> QED BY <1>2, <1>k, <2>1, SavedType, StatusFacts DEF Start, TypeOK
<1>3. CASE EnterLoop(w)
  <2>1. WorkersOK'
    <3> DEFINE r == [worker[w] EXCEPT !.pc = "loop"]
    <3>1. r \in WorkerRecord /\ r.next - r.start \in 0 .. Interval
      BY <1>0 DEF WorkerRecord, WorkerPcs, Due
    <3> QED BY <1>3, <3>1, WorkersOneStep DEF EnterLoop
  <2>2. backtest' \in Rows
    BY <1>0, <1>3, SavedType, StatusFacts DEF EnterLoop
  <2>3. flag' \in BOOLEAN
    BY <1>3 DEF EnterLoop
  <2> QED BY <1>3, <1>k, <2>1, <2>2, <2>3 DEF EnterLoop, TypeOK
<1>4. CASE ProcessBar(w)
  <2>1. WorkersOK'
    <3> DEFINE r == [worker[w] EXCEPT !.next = @ + 1]
    <3>1. r \in WorkerRecord /\ r.next - r.start \in 0 .. Interval
      BY <1>0, <1>4 DEF WorkerRecord, WorkerPcs, Due, ProcessBar
    <3> QED BY <1>4, <3>1, WorkersOneStep DEF ProcessBar
  <2> QED BY <1>4, <1>k, <2>1 DEF ProcessBar, TypeOK
<1>5. CASE PersistIncremental(w)
  <2>1. WorkersOK'
    <3> DEFINE r == [worker[w] EXCEPT !.pc = "save"]
    <3>1. r \in WorkerRecord /\ r.next - r.start \in 0 .. Interval
      BY <1>0 DEF WorkerRecord, WorkerPcs, Due
    <3> QED BY <1>5, <3>1, WorkersOneStep DEF PersistIncremental
  <2> QED BY <1>5, <1>k, <2>1, WithHeldType DEF PersistIncremental, TypeOK
<1>6. CASE SaveCheckpoint(w)
  <2>1. backtest' \in Rows
    BY <1>0, <1>6, SnapshotType DEF SaveCheckpoint, Rows
  <2>2. CASE JobDone(w)
    BY <1>6, <1>k, <2>1, <2>2, JobDoneType DEF SaveCheckpoint, TypeOK
  <2>3. CASE ~JobDone(w)
    <3> DEFINE r == [pc |-> "loop", start |-> worker[w].next, next |-> worker[w].next,
                     base |-> worker[w].base + Due(w)]
    <3>1. r \in WorkerRecord /\ r.next - r.start \in 0 .. Interval
      BY <1>0 DEF WorkerRecord, WorkerPcs
    <3>2. worker' = [worker EXCEPT ![w] = r] /\ UNCHANGED job
      BY <1>6, <2>3 DEF SaveCheckpoint
    <3> HIDE DEF r
    <3> QED BY <1>6, <1>k, <2>1, <3>1, <3>2, WorkersOneStep DEF SaveCheckpoint, TypeOK
  <2> QED BY <2>2, <2>3
<1>7. CASE Finish(w)
  <2>1. flag' \in BOOLEAN
    BY <1>7 DEF Finish
  <2> QED BY <1>7, <1>k, <2>1, SavedType, StatusFacts, WithHeldType, JobDoneType DEF Finish, TypeOK
<1>8. CASE Pause(w)
  <2>1. backtest' \in Rows
    BY <1>0, <1>8, SnapshotType, StatusFacts DEF Pause, Rows
  <2>2. WorkersOK'
    <3> DEFINE r == [Idle EXCEPT !.pc = "paused"]
    <3>1. r \in WorkerRecord /\ r.next - r.start \in 0 .. Interval
      BY <1>0 DEF WorkerRecord, WorkerPcs, Idle
    <3> QED BY <1>8, <3>1, WorkersOneStep DEF Pause
  <2>3. tainted' \in BOOLEAN
    BY <1>8 DEF Pause, TypeOK
  <2> QED BY <1>8, <1>k, <2>1, <2>2, <2>3 DEF Pause, TypeOK
<1>9. CASE PauseEnds(w)
  BY <1>9, <1>k, JobDoneType DEF PauseEnds, TypeOK
<1>10. CASE Fail(w)
  <2>1. backtest' \in Rows
    BY <1>0, <1>10, SavedType, StatusFacts DEF Fail
  <2>2. faults' \in 0 .. MaxFaults
    BY <1>10, FaultType DEF Fail, TypeOK
  <2> QED BY <1>10, <1>k, <2>1, <2>2, JobDoneType DEF Fail, TypeOK
<1> QED BY <1>1, <1>2, <1>3, <1>4, <1>5, <1>6, <1>7, <1>8, <1>9, <1>10 DEF Work

\* So do those of the user, the process, the recovery and the watchdog.
LEMMA TypeRest ==
  ASSUME TypeOK,
         \/ System
         \/ CancelBacktest \/ PauseBacktest \/ ResumeBacktest
         \/ Crash \/ Shutdown \/ FlagExpires
  PROVE  TypeOK'
<1>0. /\ backtest \in Rows /\ recovery.status \in BacktestStatus
      /\ recovery.checkpoint \in Checkpoints \cup {NoCheckpoint}
      /\ MaxOps \in Nat /\ MaxFaults \in Nat /\ MaxResumes \in Nat
  BY BacktestAssumption DEF TypeOK
<1>1. CASE Enqueue
  <2>1. faults' \in 0 .. MaxFaults
    BY <1>1, FaultType DEF Enqueue, TypeOK
  <2> QED BY <1>1, <2>1 DEF Enqueue, TypeOK
<1>2. ASSUME Down PROVE /\ UNCHANGED <<backtest, results, flag, ops, tainted>>
                        /\ process' = "down" /\ request' = FALSE /\ recovery' = NotRecovering
                        /\ job' \in {"none", "waiting", "stalled"} \cup Workers
                        /\ WorkersOK'
  <2>1. worker' = [w \in Workers |-> Idle]
    BY <1>2 DEF Down
  <2>2. WorkersOK'
    BY <2>1, IdleType DEF WorkersOK
  <2> QED BY <1>2, <2>2 DEF Down, TypeOK
<1>3. NotRecovering \in [pc : {"idle", "find", "act", "add"}, status : BacktestStatus,
                         checkpoint : Checkpoints \cup {NoCheckpoint}]
  BY StatusFacts DEF NotRecovering
<1>4. CASE Crash \/ Exit
  <2>1. Down /\ faults' \in 0 .. MaxFaults
    BY <1>4, FaultType DEF Crash, Exit, TypeOK
  <2> QED BY <2>1, <1>2, <1>3 DEF TypeOK, WorkersOK, WorkerRecord
<1>5. CASE Boot
  BY <1>3, <1>5 DEF Boot, NotRecovering, TypeOK
<1>6. CASE Redeliver
  BY <1>6 DEF Redeliver, TypeOK
<1>7. CASE RecoveryFinds
  <2>1. [pc |-> "act", status |-> backtest.status, checkpoint |-> backtest.checkpoint]
           \in [pc : {"idle", "find", "act", "add"}, status : BacktestStatus,
                         checkpoint : Checkpoints \cup {NoCheckpoint}]
    BY <1>0 DEF Rows
  <2> QED BY <1>3, <1>7, <2>1 DEF RecoveryFinds, TypeOK
<1>8. CASE RecoveryActs
  <2>1. backtest' \in Rows
    <3>1. CASE Saved("FAILED") \/ UNCHANGED backtest
      BY <1>0, <3>1, SavedType, StatusFacts
    <3>2. CASE /\ backtest.resumes < MaxResumes
               /\ backtest' = [backtest EXCEPT !.status = "PENDING", !.resumes = backtest.resumes + 1,
                          !.checkpoint = IF recovery.checkpoint = NoCheckpoint THEN backtest.checkpoint
                                         ELSE recovery.checkpoint]
      <4> DEFINE c == IF recovery.checkpoint = NoCheckpoint THEN backtest.checkpoint
                      ELSE recovery.checkpoint
      <4>1. c \in Checkpoints \cup {NoCheckpoint} /\ backtest.resumes + 1 \in 0 .. MaxResumes
        BY <1>0, <3>2 DEF Rows
      <4> HIDE DEF c
      <4> QED BY <1>0, <3>2, <4>1, StatusFacts DEF Rows, c
    <3> QED BY <1>8, <3>1, <3>2 DEF RecoveryActs
  <2>2. recovery' \in [pc : {"idle", "find", "act", "add"}, status : BacktestStatus,
                         checkpoint : Checkpoints \cup {NoCheckpoint}]
    BY <1>3, <1>8 DEF RecoveryActs, TypeOK
  <2>3. job' \in {"none", "waiting", "stalled"} \cup Workers
    BY <1>8 DEF RecoveryActs, TypeOK
  <2> QED BY <1>8, <2>1, <2>2, <2>3 DEF RecoveryActs, TypeOK
<1>9. CASE RecoveryAdds
  <2>1. backtest' \in Rows /\ faults' \in 0 .. MaxFaults
    BY <1>0, <1>9, SavedType, FaultType, StatusFacts DEF RecoveryAdds, TypeOK
  <2> QED BY <1>3, <1>9, <2>1 DEF RecoveryAdds, TypeOK
<1>10. CASE Watchdog
  <2>1. backtest' \in Rows /\ faults' \in 0 .. MaxFaults
    BY <1>10, SavedType, FaultType, StatusFacts DEF Watchdog, TypeOK
  <2> QED BY <1>10, <2>1 DEF Watchdog, TypeOK
<1>11. ASSUME UserOp PROVE ops' \in 0 .. MaxOps
  BY <1>0, <1>11 DEF UserOp, TypeOK
<1>12. CASE CancelBacktest
  BY <1>11, <1>12, SavedType, StatusFacts DEF CancelBacktest, TypeOK
<1>13. CASE PauseBacktest
  BY <1>11, <1>13 DEF PauseBacktest, TypeOK
<1>14. CASE ResumeBacktest
  BY <1>11, <1>14, SavedType, StatusFacts DEF ResumeBacktest, TypeOK
<1>15. CASE Shutdown
  BY <1>15, FaultType DEF Shutdown, TypeOK
<1>16. CASE FlagExpires
  BY <1>16 DEF FlagExpires, TypeOK
<1> QED BY <1>1, <1>4, <1>5, <1>6, <1>7, <1>8, <1>9, <1>10, <1>12, <1>13, <1>14, <1>15, <1>16
        DEF System

LEMMA TypeStep == TypeOK /\ [Next]_vars => TypeOK'
<1>1. CASE UNCHANGED vars
  BY <1>1 DEF vars, TypeOK
<1>2. CASE Next
  BY <1>2, TypeWork, TypeRest DEF Next
<1> QED BY <1>1, <1>2

\* Every variable holds a value the code can store, and a worker never holds
\* more bars than lie between two checkpoints, whatever the interval.
THEOREM TypeCorrect == Spec => []TypeOK
BY TypeInit, TypeStep, PTL DEF Spec

-----------------------------------------------------------------------------
(* The record of an untainted run.  It is an initial segment of the bars,  *)
(* never shorter than the checkpoint; one worker at most executes the run, *)
(* and it knows how much is recorded; and the recovery never holds a       *)
(* checkpoint ahead of the one in the row.                                 *)

\* A checkpoint counts the bars up to it, and they are among the first n.
BackedBy(c, n) == c # NoCheckpoint => c.counts = c.at + 1 /\ c.at < n

Backed == \E n \in 0 .. NumBars : results = Segment(n) /\ BackedBy(backtest.checkpoint, n)

Alone == \A v, w \in Workers : Executing(v) /\ Executing(w) => v = w

\* The bars a worker knows to be recorded.
Known(w) == IF At(w, "save") THEN worker[w].next ELSE worker[w].start

InTouch(w) ==
  /\ worker[w].base = worker[w].start
  /\ results = Segment(Known(w))
  /\ BackedBy(backtest.checkpoint, worker[w].start)
  /\ backtest.status # "COMPLETED"

\* What the recovery found is not ahead of the row.
NotAhead ==
  recovery.pc = "act" /\ recovery.checkpoint # NoCheckpoint =>
    /\ backtest.checkpoint # NoCheckpoint
    /\ recovery.checkpoint.counts = recovery.checkpoint.at + 1
    /\ recovery.checkpoint.at <= backtest.checkpoint.at

Kept ==
  /\ Backed
  /\ Alone
  /\ \A w \in Workers : Executing(w) => InTouch(w)
  /\ NotAhead

RecordInv == ~tainted => Kept

-----------------------------------------------------------------------------
(* Most steps leave the record alone.                                      *)

Quiet ==
  /\ UNCHANGED <<results, tainted>>
  /\ backtest'.checkpoint = backtest.checkpoint
  /\ backtest'.status = "COMPLETED" => backtest.status = "COMPLETED"
  /\ \A w \in Workers : Executing(w)' =>
       /\ Executing(w) /\ Known(w)' = Known(w)
       /\ worker'[w].start = worker[w].start /\ worker'[w].base = worker[w].base
  /\ recovery'.pc = "act" => recovery' = recovery

\* The steps that do not are these.
Telling(w) ==
  \/ backtest.status = "PENDING" /\ Take(w)
  \/ PersistIncremental(w) \/ SaveCheckpoint(w) \/ Finish(w) \/ Pause(w)

LEMMA JobDoneExecuting ==
  ASSUME TypeOK, NEW w \in Workers, JobDone(w), NEW v \in Workers, Executing(v)'
  PROVE  v # w /\ worker'[v] = worker[v]
BY IdleType DEF JobDone, TypeOK, Executing

LEMMA QuietWork ==
  ASSUME TypeOK, NEW w \in Workers, Work(w) \/ Fail(w), ~Telling(w)
  PROVE  Quiet
<1> USE DEF Telling
<1>0. worker[w] \in WorkerRecord /\ backtest \in Rows
  BY DEF TypeOK, WorkerRecord
<1>1. CASE Take(w)
  BY <1>1 DEF Take, Quiet, Executing, Known, At
<1>2. ASSUME NEW pc \in {"clear", "loop"}, worker' = [worker EXCEPT ![w].pc = pc], Executing(w), ~At(w, "save")
      PROVE  \A v \in Workers : Executing(v)' =>
               /\ Executing(v) /\ Known(v)' = Known(v)
               /\ worker'[v].start = worker[v].start /\ worker'[v].base = worker[v].base
  <2> SUFFICES ASSUME NEW v \in Workers, Executing(v)'
               PROVE  /\ Executing(v) /\ Known(v)' = Known(v)
                      /\ worker'[v].start = worker[v].start /\ worker'[v].base = worker[v].base
    OBVIOUS
  <2>1. CASE v = w
    <3>1. worker'[w] = [worker[w] EXCEPT !.pc = pc]
      BY <1>2 DEF TypeOK
    <3>2. /\ worker'[w].pc = pc /\ worker'[w].start = worker[w].start
          /\ worker'[w].base = worker[w].base
      BY <1>0, <3>1 DEF WorkerRecord
    <3> QED BY <1>2, <2>1, <3>2 DEF Executing, Known, At
  <2>2. CASE v # w
    <3>1. worker'[v] = worker[v]
      BY <1>2, <2>2 DEF TypeOK
    <3> QED BY <3>1 DEF Executing, Known, At
  <2> QED BY <2>1, <2>2
<1>3. CASE Start(w)
  BY <1>2, <1>3, SavedType, StatusFacts DEF Start, Quiet, At, Executing
<1>4. CASE EnterLoop(w)
  <2>1. backtest'.checkpoint = backtest.checkpoint /\ (backtest'.status = "COMPLETED" => backtest.status = "COMPLETED")
    BY <1>4, SavedType, StatusFacts DEF EnterLoop
  <2> QED BY <1>2, <1>4, <2>1 DEF EnterLoop, Quiet, At, Executing
<1>5. CASE ProcessBar(w)
  <2> SUFFICES ASSUME NEW v \in Workers, Executing(v)'
               PROVE  /\ Executing(v) /\ Known(v)' = Known(v)
                      /\ worker'[v].start = worker[v].start /\ worker'[v].base = worker[v].base
    BY <1>5 DEF ProcessBar, Quiet
  <2>1. CASE v = w
    <3>1. worker'[w] = [worker[w] EXCEPT !.next = @ + 1] /\ worker[w].pc = "loop"
      BY <1>5 DEF ProcessBar, TypeOK, At
    <3>2. /\ worker'[w].pc = worker[w].pc /\ worker'[w].start = worker[w].start
          /\ worker'[w].base = worker[w].base
      BY <1>0, <3>1 DEF WorkerRecord
    <3> QED BY <2>1, <3>1, <3>2 DEF Executing, Known, At
  <2>2. CASE v # w
    <3>1. worker'[v] = worker[v]
      BY <1>5, <2>2 DEF ProcessBar, TypeOK
    <3> QED BY <3>1 DEF Executing, Known, At
  <2> QED BY <2>1, <2>2
<1>6. ASSUME JobDone(w), NEW v \in Workers, Executing(v)'
      PROVE  /\ Executing(v) /\ Known(v)' = Known(v)
             /\ worker'[v].start = worker[v].start /\ worker'[v].base = worker[v].base
  BY <1>6, JobDoneExecuting DEF Executing, Known, At
<1>7. CASE PauseEnds(w)
  BY <1>6, <1>7 DEF PauseEnds, Quiet
<1>8. CASE Fail(w)
  <2>1. backtest'.checkpoint = backtest.checkpoint /\ (backtest'.status = "COMPLETED" => backtest.status = "COMPLETED")
    BY <1>8, SavedType, StatusFacts DEF Fail
  <2> QED BY <1>6, <1>8, <2>1 DEF Fail, Quiet
<1> QED BY <1>1, <1>3, <1>4, <1>5, <1>7, <1>8 DEF Work

\* Whatever anyone but a worker does, except the recovery's find and rewrite.
LEMMA QuietRest ==
  ASSUME TypeOK,
         \/ System
         \/ CancelBacktest \/ PauseBacktest \/ ResumeBacktest
         \/ Crash \/ Shutdown \/ FlagExpires,
         ~RecoveryFinds, ~RecoveryActs
  PROVE  Quiet
<1>1. ASSUME UNCHANGED worker
      PROVE  \A v \in Workers : Executing(v)' =>
               /\ Executing(v) /\ Known(v)' = Known(v)
               /\ worker'[v].start = worker[v].start /\ worker'[v].base = worker[v].base
  BY <1>1 DEF Executing, Known, At
<1>2. NotRecovering.pc = "idle"
  BY DEF NotRecovering
<1>3. CASE Enqueue
  BY <1>1, <1>3 DEF Enqueue, Quiet
<1>4. CASE Crash \/ Exit
  <2>1. Down
    BY <1>4 DEF Crash, Exit
  <2>2. \A v \in Workers : ~Executing(v)'
    BY <2>1, IdleType DEF Down, Executing
  <2> QED BY <1>2, <2>1, <2>2 DEF Down, Quiet
<1>5. CASE Boot
  <2>1. recovery'.pc = "find"
    BY <1>5 DEF Boot, NotRecovering
  <2> QED BY <1>1, <1>5, <2>1 DEF Boot, Quiet
<1>6. CASE Redeliver
  BY <1>1, <1>6 DEF Redeliver, Quiet
<1>7. CASE RecoveryAdds
  <2>1. backtest'.checkpoint = backtest.checkpoint /\ (backtest'.status = "COMPLETED" => backtest.status = "COMPLETED")
    BY <1>7, SavedType, StatusFacts DEF RecoveryAdds
  <2> QED BY <1>1, <1>2, <1>7, <2>1 DEF RecoveryAdds, Quiet
<1>8. CASE Watchdog
  BY <1>1, <1>8, SavedType, StatusFacts DEF Watchdog, Quiet
<1>9. CASE CancelBacktest
  BY <1>1, <1>9, SavedType, StatusFacts DEF CancelBacktest, Quiet
<1>10. CASE PauseBacktest
  BY <1>1, <1>10 DEF PauseBacktest, Quiet
<1>11. CASE ResumeBacktest
  BY <1>1, <1>11, SavedType, StatusFacts DEF ResumeBacktest, Quiet
<1>12. CASE Shutdown
  BY <1>1, <1>12 DEF Shutdown, Quiet
<1>13. CASE FlagExpires
  BY <1>1, <1>13 DEF FlagExpires, Quiet
<1> QED BY <1>3, <1>4, <1>5, <1>6, <1>7, <1>8, <1>9, <1>10, <1>11, <1>12, <1>13 DEF System

LEMMA QuietKeeps ==
  ASSUME TypeOK, Kept, Quiet
  PROVE  Kept'
<1>1. Backed'
  BY DEF Kept, Quiet, Backed, BackedBy, Segment, Record!Segment
<1>2. Alone'
  BY DEF Kept, Quiet, Alone
<1>3. \A w \in Workers : Executing(w)' => InTouch(w)'
  BY DEF Kept, Quiet, InTouch, BackedBy, Segment, Record!Segment
<1>4. NotAhead'
  BY DEF Kept, Quiet, NotAhead
<1> QED BY <1>1, <1>2, <1>3, <1>4 DEF Kept

-----------------------------------------------------------------------------
(* The steps that change the record, one by one: what each does to it.     *)

\* Storing the rows a worker holds extends the record to where it is.
LEMMA HeldExtends ==
  ASSUME TypeOK, NEW w \in Workers, results = Segment(worker[w].start)
  PROVE  WithHeld(w) = Segment(worker[w].next)
<1>1. /\ worker[w].start \in 0 .. NumBars /\ worker[w].next \in 0 .. NumBars
      /\ worker[w].start <= worker[w].next /\ NumBars \in Nat
  BY BacktestAssumption DEF TypeOK
<1>2. \A b \in Bars : results[b] = IF b < worker[w].start THEN 1 ELSE 0
  BY DEF Segment, Record!Segment, Record!Bars, Bars
<1>3. \A b \in Bars : (results[b] + IF b \in Held(w) THEN 1 ELSE 0)
                        = IF b < worker[w].next THEN 1 ELSE 0
  BY <1>1, <1>2 DEF Held, Bars
<1> QED BY <1>3 DEF WithHeld, Segment, Record!Segment, Record!Bars, Bars

\* Taking a job cuts the record back to the checkpoint, if there is one; if
\* there is none the run is untainted only when nothing is recorded.
LEMMA TakeCuts ==
  ASSUME TypeOK, Kept, NEW w \in Workers, backtest.status = "PENDING", Take(w), ~tainted'
  PROVE  LET k == backtest.checkpoint.at + 1
         IN  /\ k \in 0 .. NumBars /\ results' = Segment(k)
             /\ \E m \in 0 .. NumBars : k <= m /\ results = Segment(m)
             /\ BackedBy(backtest.checkpoint, k) /\ backtest.checkpoint.counts = k
             /\ worker' = [worker EXCEPT ![w] = [pc |-> "begin", start |-> k, next |-> k, base |-> k]]
             /\ \A v \in Workers : ~Executing(v)
<1> DEFINE c == backtest.checkpoint
           k == c.at + 1
<1>0. NumBars \in Nat /\ c \in Checkpoints \cup {NoCheckpoint}
  BY BacktestAssumption DEF TypeOK, Rows
<1>1. PICK m \in 0 .. NumBars : results = Segment(m) /\ BackedBy(c, m)
  BY DEF Kept, Backed
<1>2. \A v \in Workers : ~Executing(v)
  BY DEF Take
<1>3. CASE c = NoCheckpoint
  <2>1. k = 0 /\ c.counts = 0
    BY <1>3, NoCheckpointFacts
  <2>2. results' = results /\ ~(Stored > 0)
    BY <1>3 DEF Take
  <2>3. Stored = m
    <3>1. NumBars \in 0 .. NumBars
      BY <1>0
    <3>2. RowsBefore(NumBars) = IF NumBars < m THEN NumBars ELSE m
      BY <1>1, <3>1, RowsOfSegment
    <3> QED BY <1>0, <3>2 DEF Stored
  <2>4. m = 0
    BY <1>0, <2>2, <2>3
  <2>5. worker' = [worker EXCEPT ![w] = [pc |-> "begin", start |-> k, next |-> k, base |-> k]]
    BY <2>1 DEF Take
  <2> HIDE DEF c, k
  <2>6. BackedBy(c, k)
    BY <1>3 DEF BackedBy
  <2> QED BY <1>0, <1>1, <1>2, <2>1, <2>2, <2>4, <2>5, <2>6 DEF c, k
<1>4. CASE c # NoCheckpoint
  <2>1. c.counts = k /\ k <= m /\ k \in 0 .. NumBars
    BY <1>0, <1>1, <1>4 DEF BackedBy, Checkpoints
  <2>2. results' = Cleaned(k)
    BY <1>4, <2>1 DEF Take
  <2>3. Cleaned(k) = Segment(k)
    BY <1>1, <2>1, CleanedSegment
  <2>4. worker' = [worker EXCEPT ![w] = [pc |-> "begin", start |-> k, next |-> k, base |-> k]]
    BY <2>1 DEF Take
  <2>5. BackedBy(c, k)
    BY <1>0, <1>4, <2>1 DEF BackedBy, Checkpoints
  <2> QED BY <1>1, <1>2, <2>1, <2>2, <2>3, <2>4, <2>5
<1> QED BY <1>3, <1>4

\* Persisting the rows of some bars extends the record by them.
LEMMA PersistExtends ==
  ASSUME TypeOK, Kept, NEW w \in Workers, PersistIncremental(w) \/ Finish(w)
  PROVE  /\ Executing(w) /\ InTouch(w)
         /\ results = Segment(worker[w].start) /\ results' = Segment(worker[w].next)
<1>1. At(w, "loop") /\ results' = WithHeld(w)
  BY DEF PersistIncremental, Finish
<1>2. Executing(w) /\ InTouch(w)
  BY <1>1 DEF At, Executing, Kept
<1>3. results = Segment(worker[w].start)
  BY <1>1, <1>2 DEF InTouch, Known, At
<1> QED BY <1>1, <1>2, <1>3, HeldExtends

-----------------------------------------------------------------------------
(* They keep the record.                                                   *)

LEMMA TakeKeeps ==
  ASSUME TypeOK, Kept, NEW w \in Workers, backtest.status = "PENDING", Take(w), ~tainted'
  PROVE  Kept'
<1> DEFINE k == backtest.checkpoint.at + 1
           r == [pc |-> "begin", start |-> k, next |-> k, base |-> k]
<1>1. /\ k \in 0 .. NumBars /\ results' = Segment(k) /\ BackedBy(backtest.checkpoint, k)
      /\ worker' = [worker EXCEPT ![w] = r] /\ \A v \in Workers : ~Executing(v)
  BY TakeCuts
<1>2. r.pc = "begin" /\ r.start = k /\ r.base = k
  OBVIOUS
<1>3. backtest' = backtest /\ recovery' = recovery
  BY DEF Take
<1> HIDE DEF k, r
<1>4. worker'[w] = r /\ \A v \in Workers \ {w} : worker'[v] = worker[v]
  BY <1>1 DEF TypeOK
<1>5. \A v \in Workers : Executing(v)' => v = w
  BY <1>1, <1>4 DEF Executing
<1>6. InTouch(w)'
  BY <1>1, <1>2, <1>3, <1>4 DEF InTouch, Known, At, BackedBy, Segment, Record!Segment, Record!Bars
<1>7. Backed'
  BY <1>1, <1>3 DEF Backed, BackedBy, Segment, Record!Segment, Record!Bars
<1>8. NotAhead'
  BY <1>3 DEF Kept, NotAhead
<1> QED BY <1>5, <1>6, <1>7, <1>8 DEF Kept, Alone

\* Nobody else is executing when one worker is.
LEMMA OthersIdle ==
  ASSUME TypeOK, Kept, NEW w \in Workers, Executing(w), NEW r, worker' = [worker EXCEPT ![w] = r]
  PROVE  \A v \in Workers : Executing(v)' => v = w /\ worker'[v] = r
BY DEF TypeOK, Kept, Alone, Executing

LEMMA PersistKeeps ==
  ASSUME TypeOK, Kept, NEW w \in Workers, PersistIncremental(w)
  PROVE  Kept'
<1> DEFINE r == [worker[w] EXCEPT !.pc = "save"]
<1>0. /\ worker[w] \in WorkerRecord /\ worker[w].next \in 0 .. NumBars /\ NumBars \in Nat
      /\ worker[w].start <= worker[w].next
      /\ backtest.checkpoint # NoCheckpoint => backtest.checkpoint.at \in Int
  BY BacktestAssumption DEF TypeOK, WorkerRecord, Rows, Checkpoints
<1>1. Executing(w) /\ InTouch(w) /\ results' = Segment(worker[w].next)
  BY PersistExtends
<1>2. worker' = [worker EXCEPT ![w] = r] /\ backtest' = backtest /\ recovery' = recovery
  BY DEF PersistIncremental
<1>3. /\ r.pc = "save" /\ r.start = worker[w].start /\ r.next = worker[w].next
      /\ r.base = worker[w].base
  BY <1>0 DEF WorkerRecord
<1> HIDE DEF r
<1>4. \A v \in Workers : Executing(v)' => v = w /\ worker'[v] = r
  BY <1>1, <1>2, OthersIdle
<1>5. ASSUME Executing(w)' PROVE InTouch(w)'
  BY <1>1, <1>2, <1>3, <1>4, <1>5
     DEF InTouch, Known, At, BackedBy, Segment, Record!Segment, Record!Bars
<1>6. BackedBy(backtest.checkpoint, worker[w].next)
  BY <1>0, <1>1 DEF InTouch, BackedBy, WorkerRecord
<1>7. Backed'
  BY <1>0, <1>1, <1>2, <1>6 DEF Backed, BackedBy, Segment, Record!Segment, Record!Bars
<1>8. NotAhead'
  BY <1>2 DEF Kept, NotAhead
<1> QED BY <1>4, <1>5, <1>7, <1>8 DEF Kept, Alone

\* A checkpoint saved by the worker in touch counts what is recorded, and is
\* not behind the one it replaces.
LEMMA SnapshotBacked ==
  ASSUME TypeOK, Kept, NEW w \in Workers, InTouch(w), results = Segment(worker[w].next),
         backtest'.checkpoint = buildSnapshot(w), results' = results, recovery' = recovery
  PROVE  BackedBy(backtest'.checkpoint, worker[w].next) /\ Backed' /\ NotAhead'
<1>0. /\ worker[w] \in WorkerRecord /\ NumBars \in Nat /\ worker[w].start <= worker[w].next
      /\ worker[w].next \in 0 .. NumBars /\ worker[w].start \in 0 .. NumBars
      /\ backtest.checkpoint \in Checkpoints \cup {NoCheckpoint}
      /\ recovery.checkpoint \in Checkpoints \cup {NoCheckpoint}
  BY BacktestAssumption DEF TypeOK, WorkerRecord, Rows
<1>1. /\ backtest'.checkpoint.at = worker[w].next - 1
      /\ backtest'.checkpoint.counts = worker[w].next
      /\ backtest'.checkpoint # NoCheckpoint
  <2>1. buildSnapshot(w) \in Checkpoints
    BY SnapshotType
  <2> QED BY <1>0, <2>1, NoCheckpointFacts DEF buildSnapshot, InTouch, Due
<1>2. BackedBy(backtest'.checkpoint, worker[w].next)
  BY <1>0, <1>1 DEF BackedBy
<1>3. Backed'
  BY <1>0, <1>2 DEF Backed, BackedBy, Segment, Record!Segment, Record!Bars
<1>4. NotAhead'
  <2> SUFFICES ASSUME recovery.pc = "act", recovery.checkpoint # NoCheckpoint
               PROVE  /\ recovery.checkpoint.counts = recovery.checkpoint.at + 1
                      /\ recovery.checkpoint.at <= backtest'.checkpoint.at
    BY <1>1 DEF NotAhead
  <2>1. /\ backtest.checkpoint # NoCheckpoint
        /\ recovery.checkpoint.counts = recovery.checkpoint.at + 1
        /\ recovery.checkpoint.at <= backtest.checkpoint.at
    BY DEF Kept, NotAhead
  <2>2. backtest.checkpoint.at < worker[w].start
    BY <2>1 DEF InTouch, BackedBy
  <2> QED BY <1>0, <1>1, <2>1, <2>2 DEF Checkpoints
<1> QED BY <1>2, <1>3, <1>4

LEMMA SaveKeeps ==
  ASSUME TypeOK, Kept, NEW w \in Workers, SaveCheckpoint(w)
  PROVE  Kept'
<1>0. worker[w] \in WorkerRecord /\ backtest \in Rows
  BY DEF TypeOK, WorkerRecord
<1>1. Executing(w) /\ InTouch(w) /\ At(w, "save")
  BY DEF SaveCheckpoint, At, Executing, Kept
<1>2. results = Segment(worker[w].next)
  BY <1>1 DEF InTouch, Known
<1>3. /\ backtest'.checkpoint = buildSnapshot(w) /\ backtest'.status = backtest.status
      /\ results' = results /\ recovery' = recovery
  BY <1>0 DEF SaveCheckpoint, Rows
<1>4. BackedBy(backtest'.checkpoint, worker[w].next) /\ Backed' /\ NotAhead'
  BY <1>1, <1>2, <1>3, SnapshotBacked
<1>5. CASE JobDone(w)
  <2>1. \A v \in Workers : ~Executing(v)'
    <3>1. worker' = [worker EXCEPT ![w] = Idle]
      BY <1>5 DEF JobDone
    <3> QED BY <1>1, <3>1, OthersIdle, IdleType DEF Executing
  <2> QED BY <1>4, <2>1 DEF Kept, Alone
<1>6. CASE ~JobDone(w)
  <2> DEFINE r == [pc |-> "loop", start |-> worker[w].next, next |-> worker[w].next,
                   base |-> worker[w].base + Due(w)]
  <2>1. worker' = [worker EXCEPT ![w] = r]
    BY <1>6 DEF SaveCheckpoint
  <2>2. r.pc = "loop" /\ r.start = worker[w].next /\ r.base = worker[w].next
    BY <1>0, <1>1 DEF Due, InTouch, WorkerRecord
  <2> HIDE DEF r
  <2>3. \A v \in Workers : Executing(v)' => v = w /\ worker'[v] = r
    BY <1>1, <2>1, OthersIdle
  <2>4. ASSUME Executing(w)' PROVE InTouch(w)'
    <3>1. backtest'.status # "COMPLETED"
      BY <1>1, <1>3 DEF InTouch
    <3> QED BY <1>2, <1>3, <1>4, <2>2, <2>3, <2>4, <3>1
            DEF InTouch, Known, At, BackedBy, Segment, Record!Segment, Record!Bars
  <2> QED BY <1>4, <2>3, <2>4 DEF Kept, Alone
<1> QED BY <1>5, <1>6

LEMMA FinishKeeps ==
  ASSUME TypeOK, Kept, NEW w \in Workers, Finish(w)
  PROVE  Kept'
<1>0. /\ worker[w].next \in 0 .. NumBars /\ NumBars \in Nat
      /\ worker[w].start \in 0 .. NumBars /\ worker[w].start <= worker[w].next
      /\ backtest.checkpoint # NoCheckpoint => backtest.checkpoint.at \in Int
  BY BacktestAssumption DEF TypeOK, Rows, Checkpoints
<1>1. Executing(w) /\ InTouch(w) /\ results' = Segment(worker[w].next)
  BY PersistExtends
<1>2. backtest'.checkpoint = backtest.checkpoint /\ recovery' = recovery
  BY SavedType, StatusFacts DEF Finish
<1>3. \A v \in Workers : ~Executing(v)'
  <2>1. worker' = [worker EXCEPT ![w] = Idle]
    BY DEF Finish, JobDone
  <2> QED BY <1>1, <2>1, OthersIdle, IdleType DEF Executing
<1>4. BackedBy(backtest.checkpoint, worker[w].next)
  BY <1>0, <1>1 DEF InTouch, BackedBy
<1>5. Backed'
  BY <1>0, <1>1, <1>2, <1>4 DEF Backed, BackedBy, Segment, Record!Segment, Record!Bars
<1>6. NotAhead'
  BY <1>2 DEF Kept, NotAhead
<1> QED BY <1>3, <1>5, <1>6 DEF Kept, Alone

LEMMA PauseKeeps ==
  ASSUME TypeOK, Kept, NEW w \in Workers, Pause(w), ~tainted'
  PROVE  Kept'
<1>0. worker[w] \in WorkerRecord /\ backtest \in Rows /\ Due(w) \in Nat
  BY BacktestAssumption DEF TypeOK, WorkerRecord, Due
<1>1. Executing(w) /\ InTouch(w) /\ At(w, "loop")
  BY DEF Pause, At, Executing, Kept
<1>2. worker[w].next = worker[w].start
  <2>1. ~(Due(w) > 0)
    BY DEF Pause
  <2>2. worker[w].next \in Int /\ worker[w].start \in Int
    BY <1>0, BacktestAssumption DEF WorkerRecord
  <2> QED BY <1>0, <2>1, <2>2 DEF Due
<1>3. results = Segment(worker[w].next)
  BY <1>1, <1>2 DEF InTouch, Known, At
<1>4. backtest'.checkpoint = buildSnapshot(w) /\ results' = results /\ recovery' = recovery
  BY <1>0 DEF Pause, Rows
<1>5. Backed' /\ NotAhead'
  BY <1>1, <1>3, <1>4, SnapshotBacked
<1>6. \A v \in Workers : ~Executing(v)'
  <2> DEFINE r == [Idle EXCEPT !.pc = "paused"]
  <2>1. worker' = [worker EXCEPT ![w] = r] /\ r.pc = "paused"
    BY DEF Pause, Idle
  <2> HIDE DEF r
  <2> QED BY <1>1, <2>1, OthersIdle DEF Executing
<1> QED BY <1>5, <1>6 DEF Kept, Alone

\* The recovery reads the row as it is, and may put the checkpoint it read
\* back later: back, never ahead.
LEMMA RecoveryKeeps ==
  ASSUME TypeOK, Kept, RecoveryFinds \/ RecoveryActs
  PROVE  Kept'
<1>0. /\ backtest \in Rows /\ NumBars \in Nat
      /\ recovery \in [pc : {"idle", "find", "act", "add"}, status : BacktestStatus,
                        checkpoint : Checkpoints \cup {NoCheckpoint}]
      /\ recovery.checkpoint \in Checkpoints \cup {NoCheckpoint}
      /\ backtest.checkpoint \in Checkpoints \cup {NoCheckpoint}
  BY BacktestAssumption DEF TypeOK, Rows
<1>1. NotRecovering.pc = "idle"
  BY DEF NotRecovering
<1>2. UNCHANGED <<results, worker>>
  BY DEF RecoveryFinds, RecoveryActs
<1>3. CASE RecoveryFinds
  <2>1. UNCHANGED backtest
    BY <1>3 DEF RecoveryFinds
  <2>2. NotAhead'
    <3>1. PICK n \in 0 .. NumBars : BackedBy(backtest.checkpoint, n)
      BY DEF Kept, Backed
    <3>2. recovery'.pc = "act" => recovery'.checkpoint = backtest.checkpoint
      BY <1>1, <1>3 DEF RecoveryFinds
    <3> QED BY <1>0, <2>1, <3>1, <3>2 DEF NotAhead, BackedBy, Checkpoints
  <2>3. Alone' /\ \A w \in Workers : Executing(w)' => InTouch(w)'
    BY <1>2, <2>1 DEF Kept, Alone, Executing, InTouch, Known, At, BackedBy, Segment, Record!Segment
  <2>4. Backed'
    BY <1>2, <2>1 DEF Kept, Backed, BackedBy, Segment, Record!Segment
  <2> QED BY <2>2, <2>3, <2>4 DEF Kept
<1>4. CASE RecoveryActs
  <2>1. recovery'.pc # "act"
    BY <1>0, <1>1, <1>4 DEF RecoveryActs
  <2>2. backtest'.status = "COMPLETED" => backtest.status = "COMPLETED"
    BY <1>0, <1>4, SavedType, StatusFacts DEF RecoveryActs, Rows
  <2>3. \/ backtest'.checkpoint = backtest.checkpoint
        \/ /\ recovery.checkpoint # NoCheckpoint /\ recovery.pc = "act"
           /\ backtest'.checkpoint = recovery.checkpoint
    BY <1>0, <1>4, SavedType, StatusFacts DEF RecoveryActs, Rows
  <2>4. ASSUME NEW n \in 0 .. NumBars, BackedBy(backtest.checkpoint, n)
        PROVE  BackedBy(backtest'.checkpoint, n)
    <3>1. CASE backtest'.checkpoint = backtest.checkpoint
      BY <2>4, <3>1
    <3>2. CASE /\ recovery.checkpoint # NoCheckpoint /\ recovery.pc = "act"
               /\ backtest'.checkpoint = recovery.checkpoint
      BY <1>0, <2>4, <3>2 DEF Kept, NotAhead, BackedBy, Checkpoints
    <3> QED BY <2>3, <3>1, <3>2
  <2>5. Backed'
    BY <1>2, <2>4 DEF Kept, Backed, BackedBy, Segment, Record!Segment
  <2>6. ASSUME NEW w \in Workers, Executing(w)' PROVE InTouch(w)'
    <3>1. Executing(w) /\ InTouch(w) /\ worker'[w] = worker[w] /\ worker[w].start \in 0 .. NumBars
      BY <1>2, <2>6 DEF Kept, Executing, TypeOK
    <3>2. BackedBy(backtest'.checkpoint, worker[w].start)
      BY <2>4, <3>1 DEF InTouch
    <3> QED BY <1>2, <2>2, <3>1, <3>2 DEF InTouch, Known, At, BackedBy, Segment, Record!Segment
  <2> QED BY <1>2, <2>1, <2>5, <2>6 DEF Kept, Alone, Executing, NotAhead
<1> QED BY <1>3, <1>4

-----------------------------------------------------------------------------
(* The theorems.                                                           *)

LEMMA TaintStays == [Next]_vars /\ ~tainted' /\ TypeOK => ~tainted
<1> SUFFICES ASSUME [Next]_vars, ~tainted', TypeOK, tainted PROVE FALSE
  OBVIOUS
<1>1. CASE UNCHANGED vars
  BY <1>1 DEF vars
<1>2. ASSUME NEW w \in Workers, Work(w) \/ Fail(w) PROVE FALSE
  <2>1. CASE Telling(w)
    BY <2>1 DEF Telling, Take, PersistIncremental, SaveCheckpoint, Finish, Pause
  <2>2. CASE ~Telling(w)
    BY <1>2, <2>2, QuietWork DEF Quiet
  <2> QED BY <2>1, <2>2
<1>3. CASE \/ System \/ CancelBacktest \/ PauseBacktest \/ ResumeBacktest
           \/ Crash \/ Shutdown \/ FlagExpires
  <2>1. CASE RecoveryFinds \/ RecoveryActs
    BY <2>1 DEF RecoveryFinds, RecoveryActs
  <2>2. CASE ~RecoveryFinds /\ ~RecoveryActs
    BY <1>3, <2>2, QuietRest DEF Quiet
  <2> QED BY <2>1, <2>2
<1> QED BY <1>1, <1>2, <1>3 DEF Next

LEMMA RecordInit == Init => RecordInv
<1> SUFFICES ASSUME Init PROVE Kept
  BY DEF RecordInv
<1>1. backtest.checkpoint = NoCheckpoint
  BY DEF Init
<1>2. results = Segment(0) /\ 0 \in 0 .. NumBars
  BY BacktestAssumption DEF Init, Segment, Record!Segment, Record!Bars, Bars
<1>3. Backed
  BY <1>1, <1>2 DEF Backed, BackedBy
<1>4. \A w \in Workers : ~Executing(w)
  BY IdleType DEF Init, Executing
<1>5. NotAhead
  BY DEF Init, NotAhead, NotRecovering
<1> QED BY <1>3, <1>4, <1>5 DEF Kept, Alone

LEMMA RecordStep == TypeOK /\ RecordInv /\ [Next]_vars => RecordInv'
<1> SUFFICES ASSUME TypeOK, Kept, [Next]_vars, ~tainted' PROVE Kept'
  BY TaintStays DEF RecordInv
<1>1. CASE UNCHANGED vars
  <2>1. Quiet
    BY <1>1 DEF vars, Quiet, Executing, Known, At
  <2> QED BY <2>1, QuietKeeps
<1>2. ASSUME NEW w \in Workers, Work(w) \/ Fail(w) PROVE Kept'
  <2>1. CASE Telling(w)
    BY <2>1, TakeKeeps, PersistKeeps, SaveKeeps, FinishKeeps, PauseKeeps DEF Telling
  <2>2. CASE ~Telling(w)
    BY <1>2, <2>2, QuietWork, QuietKeeps
  <2> QED BY <2>1, <2>2
<1>3. CASE \/ System \/ CancelBacktest \/ PauseBacktest \/ ResumeBacktest
           \/ Crash \/ Shutdown \/ FlagExpires
  <2>1. CASE RecoveryFinds \/ RecoveryActs
    BY <2>1, RecoveryKeeps
  <2>2. CASE ~RecoveryFinds /\ ~RecoveryActs
    BY <1>3, <2>2, QuietRest, QuietKeeps
  <2> QED BY <2>1, <2>2
<1> QED BY <1>1, <1>2, <1>3 DEF Next

\* What saveCheckpoint says is stored is stored, for any number of bars and of
\* workers: every bar up to the checkpoint is recorded once and counted.
THEOREM CheckpointsAreBacked == Spec => []CheckpointBacked
<1>1. TypeOK /\ RecordInv => CheckpointBacked
  <2> SUFFICES ASSUME TypeOK, RecordInv, backtest.checkpoint # NoCheckpoint, ~tainted
               PROVE  /\ backtest.checkpoint.counts = backtest.checkpoint.at + 1
                      /\ \A b \in 0 .. backtest.checkpoint.at : results[b] = 1
    BY DEF CheckpointBacked
  <2>1. PICK n \in 0 .. NumBars : results = Segment(n) /\ BackedBy(backtest.checkpoint, n)
    BY DEF RecordInv, Kept, Backed
  <2>2. backtest.checkpoint.at \in Int /\ NumBars \in Nat
    BY BacktestAssumption DEF TypeOK, Rows, Checkpoints
  <2> QED BY <2>1, <2>2 DEF BackedBy, Segment, Record!Segment, Record!Bars
<1> QED BY <1>1, TypeInit, TypeStep, RecordInit, RecordStep, PTL DEF Spec

\* The steps of the run, seen on the record: results of further bars are stored
\* or discarded, the run is completed or taken up again, or the record is given
\* up.
LEMMA RecordSteps ==
  ASSUME TypeOK, RecordInv, [Next]_vars
  PROVE  [Record!Next]_<<results, ~tainted, backtest.status = "COMPLETED">>
<1> DEFINE complete == backtest.status = "COMPLETED"
<1>1. CASE tainted'
  BY <1>1 DEF Record!Next, Record!GiveUp
<1>2. CASE ~tainted'
  <2>0. ~tainted /\ Kept
    BY <1>2, TaintStays DEF RecordInv
  <2>1. ASSUME UNCHANGED results, backtest'.status = "COMPLETED" => backtest.status = "COMPLETED"
        PROVE  [Record!Next]_<<results, ~tainted, complete>>
    BY <1>2, <2>0, <2>1 DEF Record!Next, Record!Reopen
  <2>2. ASSUME Quiet PROVE [Record!Next]_<<results, ~tainted, complete>>
    BY <2>1, <2>2 DEF Quiet
  <2>3. CASE UNCHANGED vars
    BY <2>1, <2>3 DEF vars
  <2>4. ASSUME ~complete, ~complete', NEW m \in 0 .. NumBars, NEW n \in 0 .. NumBars,
               results = Segment(m), results' = Segment(n)
        PROVE  [Record!Next]_<<results, ~tainted, complete>>
    <3>1. CASE m = n
      BY <1>2, <2>0, <2>4, <3>1 DEF Segment
    <3>2. CASE m < n
      BY <1>2, <2>0, <2>4, <3>2 DEF Segment, Record!Next, Record!Work, Record!Extend
    <3>3. CASE n < m
      BY <1>2, <2>0, <2>4, <3>3 DEF Segment, Record!Next, Record!Work, Record!CutBack
    <3> QED BY <3>1, <3>2, <3>3, BacktestAssumption
  <2>5. ASSUME NEW w \in Workers, Work(w) \/ Fail(w)
        PROVE  [Record!Next]_<<results, ~tainted, complete>>
    <3>0. worker[w].start \in 0 .. NumBars /\ worker[w].next \in 0 .. NumBars /\ backtest \in Rows
      BY DEF TypeOK
    <3>1. CASE backtest.status = "PENDING" /\ Take(w)
      <4>1. backtest' = backtest
        BY <3>1 DEF Take
      <4> QED BY <1>2, <2>0, <2>4, <3>1, <4>1, TakeCuts
    <3>2. CASE PersistIncremental(w)
      <4>1. backtest' = backtest
        BY <3>2 DEF PersistIncremental
      <4> QED BY <2>0, <2>4, <3>0, <3>2, <4>1, PersistExtends DEF InTouch
    <3>3. CASE SaveCheckpoint(w)
      <4>1. backtest'.status = backtest.status /\ results' = results
        BY <3>0, <3>3 DEF SaveCheckpoint, Rows
      <4> QED BY <2>1, <4>1
    <3>4. CASE Finish(w)
      <4>1. ~complete /\ results' = Segment(NumBars)
        BY <2>0, <3>4, PersistExtends DEF InTouch, Finish
      <4>2. complete'
        BY <3>4, SavedType, StatusFacts DEF Finish
      <4> QED BY <1>2, <2>0, <4>1, <4>2 DEF Segment, Record!Next, Record!Complete
    <3>5. CASE Pause(w)
      <4>1. backtest'.status = "PAUSED" /\ results' = results
        BY <3>0, <3>5 DEF Pause, Rows
      <4> QED BY <2>1, <4>1
    <3>6. CASE ~Telling(w)
      BY <2>2, <2>5, <3>6, QuietWork
    <3> QED BY <3>1, <3>2, <3>3, <3>4, <3>5, <3>6 DEF Telling
  <2>6. CASE \/ System \/ CancelBacktest \/ PauseBacktest \/ ResumeBacktest
             \/ Crash \/ Shutdown \/ FlagExpires
    <3>1. CASE RecoveryFinds
      BY <2>1, <3>1 DEF RecoveryFinds
    <3>2. CASE RecoveryActs
      <4>1. backtest \in Rows
        BY DEF TypeOK
      <4>2. results' = results /\ (backtest'.status = "COMPLETED" => backtest.status = "COMPLETED")
        BY <3>2, <4>1, SavedType, StatusFacts DEF RecoveryActs, Rows
      <4> QED BY <2>1, <4>2
    <3>3. CASE ~RecoveryFinds /\ ~RecoveryActs
      BY <2>2, <2>6, <3>3, QuietRest
    <3> QED BY <3>1, <3>2, <3>3
  <2> QED BY <2>3, <2>5, <2>6 DEF Next
<1> QED BY <1>1, <1>2

\* A backtest run keeps the record that RecordKeeping promises, through
\* checkpoints, crashes, resumptions and recoveries, for any number of workers.
THEOREM ImplementsRecord == Spec => Implements
<1>1. Init => Record!Init
  <2> SUFFICES ASSUME Init PROVE Record!Init
    OBVIOUS
  <2>1. results = Record!Segment(0)
    BY BacktestAssumption DEF Init, Record!Segment, Record!Bars, Bars
  <2>2. ~tainted /\ backtest.status = "PENDING"
    BY DEF Init
  <2> QED BY <2>1, <2>2 DEF Record!Init
<1>2. TypeOK /\ RecordInv /\ [Next]_vars
        => [Record!Next]_<<results, ~tainted, backtest.status = "COMPLETED">>
  BY RecordSteps
<1> QED BY <1>1, <1>2, TypeInit, TypeStep, RecordInit, RecordStep, PTL
        DEF Spec, Implements, Record!Spec

\* So does every fair run.
COROLLARY FairImplementsRecord == FairSpec => Implements
BY ImplementsRecord, PTL DEF FairSpec
=============================================================================
