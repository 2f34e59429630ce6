------------------------ MODULE PipelineOrderProofs ------------------------
(***************************************************************************)
(* What holds of a pipeline whose user may pause and cancel it at any step *)
(* but not restart, resume or skip, on a server that does not crash, for   *)
(* any number of runs, calls and stale kills and however fast the runs     *)
(* are: it starts one run at a time, stands at a stage only on evidence,   *)
(* and its verdict rests on all stages.  With the other operations or a    *)
(* crash these properties fail; PipelineProofs holds for all of them.      *)
(* Without any call after the start and without stale kills it moreover    *)
(* only moves forward; with all of them, but runs that end only after      *)
(* their id was saved, it is never abandoned while it is RUNNING.          *)
(***************************************************************************)
EXTENDS PipelineProofs

Event(r) == handler["completed"][r]
Verdicts == {"DEPLOY", "NEEDS_REVIEW", "INCONCLUSIVE_RETRY"}

\* The completed event of the last run has been dealt with.
Handed == created # NoRun /\ Event(created).pc \in {"over", "enqueue"}

\* The stage the next run is for, and the last one an entity may stand at.
Front == IF created = NoRun THEN row.stage ELSE runs[created].stage + 1
Top   == IF created = NoRun \/ Handed THEN Front ELSE runs[created].stage

\* Somebody is about to start a run.
Baton ==
  \/ jobs # {} \/ worker.pc = "create" \/ user.pc = "enqueue"
  \/ \E r \in RunIds : Event(r).pc = "enqueue"

Sequential ==
  /\ \A r \in RunIds : r > created => Event(r).pc = "none"
  /\ \A r \in RunIds : r < created => Event(r).pc = "over"
  /\ \A r \in RunIds : Event(r).pc # "none" => runs[r].status \in {"completed", "stopped"}
  /\ \A r \in RunIds : runs[r].outcome = "starved" => runs[r].stage = PAPER_TRADE
  /\ \A r \in RunIds : Event(r).pc # "complete"

OneBaton ==
  /\ jobs \subseteq {Front}
  /\ worker.pc = "create" =>
       /\ jobs = {} /\ worker.stage = Front
       /\ worker.copy.stage = Front /\ worker.copy.status = "RUNNING"
  /\ user.pc = "enqueue" => created = NoRun /\ jobs = {} /\ worker.pc = "idle"
  /\ \A r \in RunIds : Event(r).pc = "enqueue" =>
       r = created /\ jobs = {} /\ worker.pc \notin {"create", "link"} /\ Event(r).copy.stage = Front
  /\ Baton => /\ created # NoRun => Handed /\ runs[created].stage # PAPER_TRADE
              /\ worker.pc # "link"

Linking ==
  worker.pc = "link" =>
    /\ created # NoRun /\ worker.run = created /\ worker.stage = runs[created].stage
    /\ worker.copy.stage = worker.stage /\ worker.copy.status = "RUNNING"
    /\ Event(created).pc \in {"none", "emitted", "over"}
    /\ worker.stage = PAPER_TRADE => Event(created).pc = "none"

Unstarted == created = NoRun /\ jobs = {} /\ worker.pc = "idle" /\ user.pc # "enqueue"

Calls ==
  /\ user.pc \in {"idle", "save", "enqueue", "stage", "final", "unqueue"}
  /\ user.pc = "save" => /\ user.op \in {"start", "pause"} /\ user.copy.status \notin Terminal
                         /\ user.op = "start" => Unstarted
  /\ user.pc = "stage" => user.op \in {"pause", "cancel"}
  /\ row.status = "PENDING" => Unstarted
  /\ created = NoRun /\ user.pc # "idle" => user.copy.stage = row.stage

Links ==
  \A c \in Copies, s \in Stages : c.link[s] <= created /\ (worker.pc = "link" => c.link[s] # created)

Standing ==
  /\ row.status = "RUNNING" =>
       /\ created # NoRun /\ ~Handed => row.stage = runs[created].stage
       /\ Baton => row.stage = Front
  /\ \A r \in RunIds : Event(r).pc \in {"store", "decide"} =>
       /\ Event(r).copy.status # "PENDING"
       /\ Event(r).copy.status = "RUNNING" => Event(r).copy.stage = runs[r].stage
  /\ \A r \in RunIds :
       Event(r).pc = "decide" /\ GatePassed(runs[r].outcome)
         => GatePassed(Event(r).copy.result[runs[r].stage])

Backed(c) ==
  /\ c.rec # "INCONCLUSIVE_RETRY" => \A s \in Stages : s < c.stage => Satisfied(c, s)
  /\ c.rec \in {"DEPLOY", "NEEDS_REVIEW"} => \A s \in Stages : Satisfied(c, s)

AllBacked ==
  /\ \A c \in Copies :
       /\ c.stage <= Top
       /\ Backed(c)
       /\ c.rec \in Verdicts => /\ c.status \in Terminal
                                /\ Handed /\ runs[created].stage = PAPER_TRADE
  /\ FailedNotDeploy

\* The failed handlers found a pipeline that was neither fresh nor over.
Failures ==
  \A r \in RunIds :
    /\ r > created => handler["failed"][r].pc = "none"
    /\ handler["failed"][r].pc = "fail" => handler["failed"][r].copy.status \in Active

Order ==
  /\ Sequential /\ OneBaton /\ Linking /\ Calls /\ Links /\ Standing
  /\ AllBacked /\ Failures

Quiet == UserOps \subseteq {"pause", "cancel"} /\ MaxCrashes = 0

-----------------------------------------------------------------------------
(* Types, and what a step may do to the entities.                          *)

LEMMA Types ==
  ASSUME TypeOK
  PROVE  /\ created \in Nat /\ created <= MaxRuns /\ MaxRuns \in Nat
         /\ created # NoRun => created \in RunIds
         /\ \A r \in RunIds :
              /\ r \in Nat /\ r # NoRun
              /\ runs[r] \in Runs /\ runs[r].stage \in 1 .. 4
              /\ Event(r).pc \in HandlerPcs /\ Event(r).copy \in Rows
         /\ row \in Rows /\ user.copy \in Rows /\ worker.copy \in Rows
         /\ worker.stage \in 1 .. 5 /\ NoRun = 0
         /\ worker.pc \in WorkerPcs /\ user.pc \in UserPcs
         /\ handler \in [Kinds -> [RunIds -> Handlers]]
         /\ runs \in [RunIds -> Runs]
<1>1. created \in 0 .. MaxRuns /\ MaxRuns \in Nat
  BY ConstantsAssumption DEF TypeOK
<1>2. \A r \in RunIds : r \in Nat /\ r # NoRun
  BY <1>1 DEF RunIds, NoRun
<1>3. created # NoRun => created \in RunIds
  BY <1>1 DEF RunIds, NoRun
<1>4. \A r \in RunIds : runs[r] \in Runs /\ runs[r].stage \in 1 .. 4
  <2>1. Stages = 1 .. 4
    BY DEF Stages, OPTIMIZE, PAPER_TRADE
  <2> QED BY <2>1 DEF TypeOK, Runs
<1>5. \A r \in RunIds : Event(r).pc \in HandlerPcs /\ Event(r).copy \in Rows
  BY DEF TypeOK, Event, Kinds
<1>6. Stages \cup {DONE} = 1 .. 5
  BY DEF Stages, OPTIMIZE, PAPER_TRADE, DONE
<1>7. /\ worker.stage \in 1 .. 5 /\ row \in Rows /\ user.copy \in Rows /\ worker.copy \in Rows
      /\ worker.pc \in WorkerPcs /\ user.pc \in UserPcs
  BY <1>6 DEF TypeOK
<1>8. handler \in [Kinds -> [RunIds -> Handlers]] /\ runs \in [RunIds -> Runs]
  BY DEF TypeOK, Handlers
<1>9. created \in Nat /\ created <= MaxRuns /\ NoRun = 0
  BY <1>1 DEF NoRun
<1> QED BY <1>1, <1>2, <1>3, <1>4, <1>5, <1>7, <1>8, <1>9

LEMMA RowTypes ==
  ASSUME NEW c \in Rows
  PROVE  /\ c.stage \in 1 .. 5 /\ c.status \in Statuses
         /\ \A s \in Stages : c.link[s] \in Nat /\ c.result[s] \in Results
<1>1. Stages \cup {DONE} = 1 .. 5
  BY DEF Stages, OPTIMIZE, PAPER_TRADE, DONE
<1>2. RunIds \cup {NoRun} \subseteq Nat
  BY ConstantsAssumption DEF RunIds, NoRun
<1> QED BY <1>1, <1>2 DEF Rows

LEMMA CopyTypes ==
  ASSUME TypeOK
  PROVE  \A c \in Copies : c \in Rows
BY DEF TypeOK, Copies

LEMMA TopTypes ==
  ASSUME TypeOK
  PROVE  Front \in 1 .. 5 /\ Top \in 1 .. 5
<1>1. row.stage \in 1 .. 5
  BY Types, RowTypes
<1>2. created # NoRun => runs[created].stage \in 1 .. 4
  BY Types
<1> QED BY <1>1, <1>2 DEF Front, Top

Numbers == Front \in 1 .. 5 /\ Top \in 1 .. 5 /\ created \in Nat

LEMMA PrimedTypes == TypeOK' => Numbers'
<1>1. TypeOK => Numbers
  BY TopTypes, Types DEF Numbers
<1> QED BY <1>1, PTL

LEMMA BlankBacked ==
    /\ Blank.stage = 1 /\ Backed(Blank) /\ Blank.rec = "none"
    /\ \A s \in Stages : Blank.link[s] = NoRun
<1>1. Blank.stage = 1 /\ Blank.rec = "none" /\ \A s \in Stages : Blank.link[s] = NoRun
  BY DEF Blank, OPTIMIZE
<1>2. \A s \in Stages : ~(s < 1)
  BY StageValues
<1> QED BY <1>1, <1>2 DEF Backed

\* The setting of one completed event.
LEMMA EventSet ==
  ASSUME TypeOK, NEW r \in RunIds, NEW h, SetHandler(r, "completed", h)
  PROVE  \A q \in RunIds : Event(q)' = IF q = r THEN h ELSE Event(q)
<1>1. handler \in [Kinds -> [RunIds -> Handlers]]
  BY Types
<1> QED BY <1>1 DEF SetHandler, Event, Kinds

LEMMA EventsSame ==
  ASSUME TypeOK, NEW r \in RunIds, NEW h, SetHandler(r, "failed", h)
  PROVE  \A q \in RunIds : Event(q)' = Event(q)
<1>1. handler \in [Kinds -> [RunIds -> Handlers]]
  BY Types
<1> QED BY <1>1 DEF SetHandler, Event, Kinds

\* Where the entities come from.
LEMMA CopiesFrom ==
  ASSUME TypeOK, NEW S, Copies \subseteq S, row' \in S, worker'.copy \in S, user'.copy \in S,
         \/ UNCHANGED handler
         \/ \E k \in Kinds, r \in RunIds, h \in Handlers : SetHandler(r, k, h) /\ h.copy \in S
  PROVE  Copies' \subseteq S
<1>1. handler \in [Kinds -> [RunIds -> Handlers]]
  BY Types
<1>2. \A k \in Kinds, r \in RunIds : handler[k][r].copy \in S
  BY DEF Copies
<1>3. \A k \in Kinds, r \in RunIds : handler'[k][r].copy \in S
  <2>1. CASE UNCHANGED handler
    BY <1>2, <2>1
  <2>2. ASSUME NEW k \in Kinds, NEW r \in RunIds, NEW h \in Handlers, SetHandler(r, k, h), h.copy \in S
        PROVE  \A j \in Kinds, q \in RunIds : handler'[j][q].copy \in S
    <3> SUFFICES ASSUME NEW j \in Kinds, NEW q \in RunIds PROVE handler'[j][q].copy \in S
      OBVIOUS
    <3>1. handler'[j][q] = IF j = k /\ q = r THEN h ELSE handler[j][q]
      BY <1>1, <2>2 DEF SetHandler
    <3> QED BY <1>2, <2>2, <3>1
  <2> QED BY <2>1, <2>2
<1> QED BY <1>3 DEF Copies

\* What every entity satisfies, given where the runs are.
Fits(c) ==
  /\ c.stage <= Top
  /\ Backed(c)
  /\ c.rec \in Verdicts => /\ c.status \in Terminal
                           /\ Handed /\ runs[created].stage = PAPER_TRADE

Known(c) == \A s \in Stages : c.link[s] <= created /\ (worker.pc = "link" => c.link[s] # created)

LEMMA FitsAll == AllBacked <=> (\A c \in Copies : Fits(c)) /\ FailedNotDeploy
BY DEF AllBacked, Fits

LEMMA KnownAll == Links <=> \A c \in Copies : Known(c)
BY DEF Links, Known

\* When nothing falls back, the entities that were fit stay fit; a new row is
\* all there is to look at.
LEMMA CopiesKept ==
  ASSUME TypeOK, TypeOK', AllBacked, Links,
         Copies' \subseteq Copies \cup {Blank, row'},
         Top' >= Top, created' >= created,
         Handed /\ runs[created].stage = PAPER_TRADE
            => (Handed /\ runs[created].stage = PAPER_TRADE)',
         worker'.pc = "link" => created' # NoRun,
         worker'.pc = "link" => created' > created \/ worker.pc = "link",
         row' \in Copies \/ (Fits(row) /\ Known(row))'
  PROVE  Links' /\ \A c \in Copies' : Fits(c)'
<1>1. created \in Nat /\ created' \in Nat
  BY Types, PrimedTypes DEF Numbers
<1>2. Top \in 1 .. 5 /\ Top' \in 1 .. 5
  BY TopTypes, PrimedTypes DEF Numbers
<1>3. ASSUME NEW c \in Copies PROVE Fits(c)' /\ Known(c)'
  <2>1. Fits(c) /\ Known(c)
    BY FitsAll, KnownAll
  <2>2. c \in Rows
    BY CopyTypes
  <2>3. c.stage \in 1 .. 5 /\ \A s \in Stages : c.link[s] \in Nat
    BY <2>2, RowTypes
  <2>4. Fits(c)'
    BY <1>2, <2>1, <2>3 DEF Fits, Backed
  <2>5. Known(c)'
    BY <1>1, <2>1, <2>3 DEF Known
  <2> QED BY <2>4, <2>5
<1>4. Fits(Blank)' /\ Known(Blank)'
  BY <1>1, <1>2, BlankBacked DEF Fits, Known, Backed, Verdicts, NoRun
<1>5. \A c \in Copies' : Fits(c)' /\ Known(c)'
  BY <1>3, <1>4
<1> QED BY <1>5 DEF Links, Known
-----------------------------------------------------------------------------
(* Steps that leave queue, worker and completed events alone.              *)

SameRun(r) ==
  /\ runs'[r].stage = runs[r].stage /\ runs'[r].outcome = runs[r].outcome
  /\ runs[r].status \in {"completed", "stopped"} => runs'[r].status = runs[r].status

SameRunsAndEvents == \A r \in RunIds : SameRun(r) /\ Event(r)' = Event(r)

\* The position of the pipeline is then the same.
LEMMA SamePosition ==
  ASSUME TypeOK, SameRunsAndEvents, created' = created, created = NoRun => row'.stage = row.stage
  PROVE  Handed' = Handed /\ Front' = Front /\ Top' = Top
<1>1. created # NoRun => created \in RunIds
  BY Types
<1>2. Handed' = Handed
  BY <1>1 DEF Handed, SameRunsAndEvents
<1>3. Front' = Front
  BY <1>1 DEF Front, SameRunsAndEvents, SameRun
<1>4. created # NoRun => runs'[created].stage = runs[created].stage
  BY <1>1 DEF SameRunsAndEvents, SameRun
<1> HIDE DEF Handed, Front
<1> QED BY <1>2, <1>3, <1>4 DEF Top

LEMMA SteadyStep ==
  ASSUME TypeOK, TypeOK', Order, SameRunsAndEvents, UNCHANGED <<created, jobs, worker>>,
         user'.pc = "enqueue" => user.pc = "enqueue",
         created = NoRun => row'.stage = row.stage,
         Copies' \subseteq Copies \cup {Blank, row'},
         \/ row' = row
         \/ row'.status # "RUNNING" /\ (row' \in Copies \/ (Fits(row) /\ Known(row))'),
         FailedNotDeploy', Calls', Failures'
  PROVE  Order'
<1>1. created # NoRun => created \in RunIds
  BY Types
<1>2. Handed' = Handed /\ Front' = Front /\ Top' = Top
  BY SamePosition
<1>3. /\ Sequential /\ OneBaton /\ Linking /\ Links /\ Standing /\ AllBacked
  BY DEF Order
<1>4. /\ created # NoRun => SameRun(created) /\ Event(created)' = Event(created)
      /\ \A r \in RunIds : SameRun(r) /\ Event(r)' = Event(r)
  BY <1>1 DEF SameRunsAndEvents
<1>5. Sequential'
  BY <1>3, <1>4 DEF Sequential, SameRun
<1>6. Baton' => Baton
  BY <1>4 DEF Baton
<1>7. OneBaton'
  <2>1. created # NoRun => runs'[created].stage = runs[created].stage
    BY <1>4 DEF SameRun
  <2> HIDE DEF Handed, Front, Baton
  <2> QED BY <1>2, <1>3, <1>4, <1>6, <2>1 DEF OneBaton
<1>8. Linking'
  BY <1>3, <1>4 DEF Linking, SameRun
<1>9. Top \in 1 .. 5 /\ created \in Nat
  BY TopTypes, Types
<1>10. row \in Copies
  BY DEF Copies
<1>11. Links' /\ \A c \in Copies' : Fits(c)'
  <2>1. created # NoRun => runs'[created].stage = runs[created].stage
    BY <1>4 DEF SameRun
  <2>2. Top' >= Top /\ created' >= created
    BY <1>2, <1>9
  <2>3. Handed => created # NoRun
    BY DEF Handed
  <2>4. Handed /\ runs[created].stage = PAPER_TRADE
          => (Handed /\ runs[created].stage = PAPER_TRADE)'
    BY <1>2, <2>1, <2>3
  <2>5. worker'.pc = "link" => created' # NoRun /\ worker.pc = "link"
    BY <1>3 DEF Linking
  <2> QED BY <1>3, <1>10, <2>2, <2>4, <2>5, CopiesKept
<1>12. AllBacked'
  BY <1>11 DEF AllBacked, Fits
<1>13. Standing'
  <2>1. row'.status = "RUNNING" => row' = row
    OBVIOUS
  <2>2. row'.status = "RUNNING" =>
          /\ created' # NoRun /\ ~Handed' => row'.stage = runs'[created'].stage
          /\ Baton' => row'.stage = Front'
    BY <1>2, <1>3, <1>4, <1>6, <2>1 DEF Standing, SameRun
  <2>3. /\ \A r \in RunIds : Event(r)'.pc \in {"store", "decide"} =>
             /\ Event(r)'.copy.status # "PENDING"
             /\ Event(r)'.copy.status = "RUNNING" => Event(r)'.copy.stage = runs'[r].stage
        /\ \A r \in RunIds :
             Event(r)'.pc = "decide" /\ GatePassed(runs'[r].outcome)
               => GatePassed(Event(r)'.copy.result[runs'[r].stage])
    BY <1>3, <1>4 DEF Standing, SameRun
  <2> QED BY <2>2, <2>3 DEF Standing, GatePassed
<1> QED BY <1>5, <1>7, <1>8, <1>11, <1>12, <1>13 DEF Order
\* The entities after a step that sets at most one handler, to the row or to
\* nothing in particular.
LEMMA SameEntities ==
  ASSUME TypeOK, worker'.copy \in Copies \cup {Blank, row'},
         user'.copy \in Copies \cup {Blank, row'},
         \/ UNCHANGED handler
         \/ \E k \in Kinds, r \in RunIds, h \in Handlers :
              SetHandler(r, k, h) /\ h.copy \in Copies \cup {Blank, row'}
  PROVE  Copies' \subseteq Copies \cup {Blank, row'}
<1> DEFINE S == Copies \cup {Blank, row'}
<1>1. Copies \subseteq S /\ row' \in S
  OBVIOUS
<1> HIDE DEF S
<1> QED BY <1>1, CopiesFrom DEF S

\* A call in progress is not disturbed by others who leave queue, worker and
\* stage as they are.
LEMMA CallsKept ==
  ASSUME Calls, UNCHANGED <<user, created, jobs, worker>>,
         created = NoRun => row'.stage = row.stage,
         row'.status = "PENDING" => row.status = "PENDING"
  PROVE  Calls'
BY DEF Calls, Unstarted

LEMMA FailuresKept ==
  ASSUME TypeOK, Failures, created' = created,
         \/ UNCHANGED handler
         \/ \E h : \E r \in RunIds : SetHandler(r, "completed", h)
  PROVE  Failures'
<1>1. handler \in [Kinds -> [RunIds -> Handlers]]
  BY Types
<1>2. \A r \in RunIds : handler'["failed"][r] = handler["failed"][r]
  BY <1>1 DEF SetHandler, Kinds
<1> QED BY <1>2 DEF Failures

\* Setting the failed handler of a run that exists.
LEMMA FailureSet ==
  ASSUME TypeOK, Failures, created' = created, NEW r \in RunIds, NEW h \in Handlers,
         SetHandler(r, "failed", h), ~(r > created),
         h.pc = "fail" => h.copy.status \in Active
  PROVE  Failures'
<1>1. handler \in [Kinds -> [RunIds -> Handlers]]
  BY Types
<1>2. \A q \in RunIds : handler'["failed"][q] = IF q = r THEN h ELSE handler["failed"][q]
  BY <1>1 DEF SetHandler, Kinds
<1> QED BY <1>2 DEF Failures

\* Entities that are still open carry no verdict.
LEMMA OpenCopies ==
  ASSUME TypeOK, Order, NEW c \in Copies
  PROVE  /\ c \in Rows /\ Fits(c) /\ Known(c)
         /\ c.status \notin Terminal => c.rec \notin Verdicts
<1>1. Fits(c) /\ Known(c)
  BY FitsAll, KnownAll DEF Order
<1> QED BY <1>1, CopyTypes DEF Fits

LEMMA StepFailedFind ==
  ASSUME TypeOK, TypeOK', Order, NEW r \in RunIds, FailedFind(r)
  PROVE  Order'
<1> DEFINE h == IF FindForFailed(r) THEN [pc |-> "fail", copy |-> row] ELSE Over
<1>1. SetHandler(r, "failed", h) /\ UNCHANGED <<row, jobs, worker, runs, created, user>>
  BY DEF FailedFind
<1>2. row \in Rows /\ row \in Copies /\ user.copy \in Copies /\ worker.copy \in Copies
  BY Types DEF Copies
<1>3. h \in Handlers /\ h.copy \in {row, Blank}
  BY <1>2, HandlerValues DEF Over
<1>4. FindForFailed(r) => row.status \in Active
  BY Types, StageValues DEF FindForFailed, FindForOptimizationFailed, FindForBacktestFailed,
     FindForPaperTradingFailed
<1>5. Failures'
  <2>1. ~(r > created)
    BY DEF FailedFind, Order, Failures
  <2>2. h.pc = "fail" => h.copy.status \in Active
    BY <1>4 DEF Over
  <2> HIDE DEF h
  <2> QED BY <1>1, <1>3, <2>1, <2>2, FailureSet DEF Order
<1> HIDE DEF h
<1>6. SameRunsAndEvents
  BY <1>1, EventsSame DEF SameRunsAndEvents, SameRun
<1>7. Copies' \subseteq Copies \cup {Blank, row'}
  <2>1. "failed" \in Kinds
    BY DEF Kinds
  <2> QED BY <1>1, <1>2, <1>3, <2>1, SameEntities
<1>8. Calls'
  BY <1>1, CallsKept DEF Order
<1>9. FailedNotDeploy'
  BY <1>1 DEF Order, AllBacked, FailedNotDeploy
<1>10. user'.pc = "enqueue" => user.pc = "enqueue"
  BY <1>1
<1> QED BY <1>1, <1>5, <1>6, <1>7, <1>8, <1>9, <1>10, SteadyStep
LEMMA StepFailedSave ==
  ASSUME TypeOK, TypeOK', Order, NEW r \in RunIds, FailedSave(r)
  PROVE  Order'
<1> DEFINE c == handler["failed"][r].copy
<1>1. /\ row' = failPipeline(c) /\ SetHandler(r, "failed", Over)
      /\ UNCHANGED <<jobs, worker, runs, created, user>>
  BY DEF FailedSave
<1>2. "failed" \in Kinds
  BY DEF Kinds
<1>3. c \in Copies /\ user.copy \in Copies /\ worker.copy \in Copies
  BY <1>2 DEF Copies
<1>4. c.status \in Active
  BY DEF FailedSave, Order, Failures
<1>5. /\ c \in Rows /\ Fits(c) /\ Known(c) /\ c.rec \notin Verdicts
  BY <1>3, <1>4, OpenCopies DEF Active, Terminal
<1>6. created # NoRun
  <2>1. ~(r > created) /\ r \in Nat /\ r # NoRun /\ NoRun = 0
    BY Types DEF FailedSave, Order, Failures
  <2> QED BY <2>1
<1>7. /\ row'.stage = c.stage /\ row'.status = "FAILED" /\ row'.rec = "DO_NOT_DEPLOY"
      /\ row'.link = c.link /\ row'.result = c.result
  BY <1>1, <1>5 DEF failPipeline, Rows
<1> HIDE DEF c
<1>8. SameRunsAndEvents
  BY <1>1, EventsSame DEF SameRunsAndEvents, SameRun
<1>9. Top' = Top /\ Handed' = Handed
  BY <1>1, <1>6, <1>8, SamePosition
<1>10. Fits(row)'
  BY <1>5, <1>7, <1>9 DEF Fits, Backed, Satisfied, Verdicts
<1>11. Known(row)'
  BY <1>1, <1>5, <1>7 DEF Known
<1>12. Over \in Handlers /\ Over.copy = Blank /\ Over.pc # "fail"
  BY HandlerValues DEF Over
<1>13. Copies' \subseteq Copies \cup {Blank, row'}
  BY <1>1, <1>2, <1>3, <1>12, SameEntities
<1>14. Failures'
  <2>1. ~(r > created)
    BY DEF FailedSave, Order, Failures
  <2> QED BY <1>1, <1>12, <2>1, FailureSet DEF Order
<1>15. Calls'
  BY <1>1, <1>6, <1>7, CallsKept DEF Order
<1>16. FailedNotDeploy'
  BY <1>7 DEF FailedNotDeploy
<1> QED BY <1>1, <1>6, <1>7, <1>8, <1>10, <1>11, <1>13, <1>14, <1>15, <1>16, SteadyStep

\* A run that is not over and not out of the table changes its status.
LEMMA RunChanges ==
  ASSUME TypeOK, NEW r \in RunIds, NEW st, NEW b, 
         runs[r].status \notin {"completed", "stopped"},
         \/ SetRun(r, [runs[r] EXCEPT !.status = st])
         \/ SetRun(r, [runs[r] EXCEPT !.status = st, !.alive = b]),
         \A q \in RunIds : Event(q)' = Event(q)
  PROVE  SameRunsAndEvents
<1>1. runs \in [RunIds -> Runs] /\ runs[r] \in Runs
  BY Types
<1>2. \A q \in RunIds : q # r => runs'[q] = runs[q]
  BY <1>1 DEF SetRun
<1>3. runs'[r].stage = runs[r].stage /\ runs'[r].outcome = runs[r].outcome
  BY <1>1 DEF SetRun, Runs
<1> QED BY <1>2, <1>3 DEF SameRunsAndEvents, SameRun

\* The steps of the downstream runs that do not complete one.
LEMMA StepRun ==
  ASSUME TypeOK, TypeOK', Order, RunsSettle, NEW r \in RunIds,
         RunFail(r) \/ RunRetry(r) \/ RunPauses(r) \/ StaleKill(r)
  PROVE  Order'
<1>1. UNCHANGED <<row, jobs, worker, created, user>>
  BY DEF RunFail, RunRetry, RunPauses, StaleKill
<1>2. \/ UNCHANGED handler
      \/ SetHandler(r, "failed", [pc |-> "emitted", copy |-> Blank])
  BY DEF RunFail, RunRetry, RunPauses, StaleKill, Emit
<1>3. \A q \in RunIds : Event(q)' = Event(q)
  BY <1>2, EventsSame DEF Event
<1>4. runs[r].status \notin {"completed", "stopped", "unused"}
  BY DEF RunFail, RunRetry, RunPauses, StaleKill, Working
<1>5. SameRunsAndEvents
  BY <1>3, <1>4, RunChanges DEF RunFail, RunRetry, RunPauses, StaleKill
<1>6. ~(r > created)
  BY <1>4 DEF RunsSettle
<1> DEFINE h == [pc |-> "emitted", copy |-> Blank]
<1>7. h \in Handlers /\ h.copy = Blank /\ h.pc # "fail"
  BY HandlerValues
<1> HIDE DEF h
<1>8. Failures'
  <2>1. CASE UNCHANGED handler
    BY <1>1, <2>1, FailuresKept DEF Order
  <2>2. CASE SetHandler(r, "failed", h)
    BY <1>1, <1>6, <1>7, <2>2, FailureSet DEF Order
  <2> QED BY <1>2, <2>1, <2>2 DEF h
<1>9. Copies' \subseteq Copies \cup {Blank, row'}
  <2>1. "failed" \in Kinds
    BY DEF Kinds
  <2>2. user.copy \in Copies /\ worker.copy \in Copies
    BY DEF Copies
  <2> QED BY <1>1, <1>2, <1>7, <2>1, <2>2, SameEntities DEF h
<1>10. Calls'
  BY <1>1, CallsKept DEF Order
<1>11. FailedNotDeploy'
  BY <1>1 DEF Order, AllBacked, FailedNotDeploy
<1> QED BY <1>1, <1>5, <1>8, <1>9, <1>10, <1>11, SteadyStep

\* The watchdog fails a pipeline that is RUNNING, which carries no verdict.
LEMMA StepWatchdog ==
  ASSUME TypeOK, TypeOK', Order, WatchdogStep
  PROVE  Order'
<1>1. UNCHANGED <<jobs, worker, runs, created, handler, user>>
  BY DEF WatchdogStep, WatchdogFind, WatchdogUpdate
<1>2. \/ row' = row
      \/ row.status = "RUNNING" /\ row' = [row EXCEPT !.status = "FAILED"]
  BY DEF WatchdogStep, WatchdogFind, WatchdogUpdate, WatchdogHit, UpdateStatus
<1>3. row \in Copies /\ user.copy \in Copies /\ worker.copy \in Copies
  BY DEF Copies
<1>4. row \in Rows /\ Fits(row) /\ Known(row) /\ (row.status = "RUNNING" => row.rec \notin Verdicts)
  BY <1>3, OpenCopies DEF Terminal
<1>5. SameRunsAndEvents
  BY <1>1 DEF SameRunsAndEvents, SameRun, Event
<1>6. /\ row'.stage = row.stage /\ row'.rec = row.rec /\ row'.link = row.link
      /\ row'.result = row.result
      /\ row' # row => row.status = "RUNNING" /\ row'.status = "FAILED"
  BY <1>2, <1>4 DEF Rows
<1>7. Top' = Top /\ Handed' = Handed
  BY <1>1, <1>5, <1>6, SamePosition
<1>8. row' # row => (Fits(row) /\ Known(row))'
  BY <1>1, <1>4, <1>6, <1>7 DEF Fits, Known, Backed, Satisfied
<1>9. FailedNotDeploy'
  BY <1>2, <1>4, <1>6 DEF Order, AllBacked, FailedNotDeploy, Verdicts
<1>10. Calls'
  BY <1>1, <1>6, CallsKept DEF Order
<1>11. Failures'
  BY <1>1, FailuresKept DEF Order
<1>12. Copies' \subseteq Copies \cup {Blank, row'}
  BY <1>1, <1>3, SameEntities
<1> QED BY <1>1, <1>5, <1>6, <1>8, <1>9, <1>10, <1>11, <1>12, SteadyStep
-----------------------------------------------------------------------------
(* The user's calls.                                                       *)

LEMMA StepUserRead ==
  ASSUME TypeOK, TypeOK', Order, NEW op \in {"start", "pause", "cancel"}, UserRead(op)
  PROVE  Order'
<1>1. UNCHANGED <<row, jobs, worker, runs, created, handler>>
  BY DEF UserRead
<1>2. /\ user'.copy = row /\ user'.op = op
      /\ user'.pc = IF op = "cancel" THEN "stage" ELSE "save"
  BY DEF UserRead
<1>3. row.status \notin Terminal /\ (op = "start" => row.status = "PENDING")
  BY DEF UserRead, Accepts, Terminal
<1>4. Calls'
  <2>1. row.status = "PENDING" => Unstarted'
    BY <1>1, <1>2 DEF Order, Calls, Unstarted
  <2> QED BY <1>1, <1>2, <1>3, <2>1 DEF Calls
<1>5. SameRunsAndEvents
  BY <1>1 DEF SameRunsAndEvents, SameRun, Event
<1>6. Copies' \subseteq Copies \cup {Blank, row'}
  BY <1>1, <1>2, SameEntities DEF Copies
<1>7. Failures'
  BY <1>1, FailuresKept DEF Order
<1>8. FailedNotDeploy'
  BY <1>1 DEF Order, AllBacked, FailedNotDeploy
<1> QED BY <1>1, <1>2, <1>4, <1>5, <1>6, <1>7, <1>8, SteadyStep

\* pausePipeline and cancelPipeline save an entity they read while it was open.
LEMMA StepUserSaves ==
  ASSUME TypeOK, TypeOK', Order, (UserSave /\ user.op = "pause") \/ UserFinal
  PROVE  Order'
<1>1. UNCHANGED <<jobs, worker, runs, created, handler>>
  BY DEF UserSave, UserFinal
<1>2. user.copy \in Copies /\ worker.copy \in Copies
  BY DEF Copies
<1>3. user.copy \in Rows /\ Fits(user.copy) /\ Known(user.copy)
      /\ (user.copy.status \notin Terminal => user.copy.rec \notin Verdicts)
  BY <1>2, OpenCopies
<1>4. \/ /\ user.pc = "save" /\ user.op = "pause"
         /\ row' = [user.copy EXCEPT !.status = "PAUSED"]
         /\ user'.pc = "stage" /\ user'.op = user.op /\ user'.copy = row'
      \/ /\ user.pc = "final"
         /\ row' = [user.copy EXCEPT !.status = "CANCELLED"]
         /\ user'.pc = "unqueue" /\ user'.op = user.op /\ user'.copy = user.copy
  BY DEF UserSave, UserFinal, TypeOK
<1>5. /\ row'.stage = user.copy.stage /\ row'.rec = user.copy.rec /\ row'.link = user.copy.link
      /\ row'.result = user.copy.result
      /\ (row'.status = "PAUSED" /\ user.pc = "save") \/ row'.status = "CANCELLED"
  BY <1>3, <1>4 DEF Rows
<1>6. row'.status # "PAUSED" \/ row'.rec \notin Verdicts
  BY <1>3, <1>5 DEF Order, Calls
<1>7. created = NoRun => row'.stage = row.stage
  BY <1>4, <1>5 DEF Order, Calls
<1>8. SameRunsAndEvents
  BY <1>1 DEF SameRunsAndEvents, SameRun, Event
<1>9. Top' = Top /\ Handed' = Handed
  BY <1>1, <1>7, <1>8, SamePosition
<1>10. Fits(row)'
  BY <1>1, <1>3, <1>5, <1>6, <1>9 DEF Fits, Backed, Satisfied, Terminal
<1>11. Known(row)'
  BY <1>1, <1>3, <1>5 DEF Known
<1>12. Calls'
  BY <1>1, <1>4, <1>5 DEF Order, Calls
<1>13. Copies' \subseteq Copies \cup {Blank, row'}
  BY <1>1, <1>2, <1>4, SameEntities
<1>14. Failures'
  BY <1>1, FailuresKept DEF Order
<1>15. FailedNotDeploy'
  BY <1>5 DEF FailedNotDeploy
<1>16. user'.pc # "enqueue" /\ row'.status # "RUNNING"
  BY <1>4, <1>5
<1> QED BY <1>1, <1>7, <1>8, <1>10, <1>11, <1>12, <1>13, <1>14, <1>15, <1>16, SteadyStep

LEMMA StepUserEnqueueFails ==
  ASSUME TypeOK, TypeOK', Order, UserEnqueueFails
  PROVE  Order'
<1>1. UNCHANGED <<jobs, worker, runs, created, handler>> /\ user' = IdleUser
      /\ row' = [row EXCEPT !.status = "FAILED"] /\ user.pc = "enqueue"
  BY DEF UserEnqueueFails, UpdateStatus
<1>2. row \in Copies /\ worker.copy \in Copies
  BY DEF Copies
<1>3. row \in Rows /\ Fits(row) /\ Known(row)
  BY <1>2, OpenCopies
<1>4. created = NoRun
  BY <1>1 DEF Order, OneBaton
<1>5. row.rec \notin Verdicts
  BY <1>3, <1>4 DEF Fits, Handed
<1>6. /\ row'.stage = row.stage /\ row'.rec = row.rec /\ row'.link = row.link
      /\ row'.result = row.result /\ row'.status = "FAILED"
  BY <1>1, <1>3 DEF Rows
<1>7. SameRunsAndEvents
  BY <1>1 DEF SameRunsAndEvents, SameRun, Event
<1>8. Top' = Top /\ Handed' = Handed
  BY <1>1, <1>6, <1>7, SamePosition
<1>9. (Fits(row) /\ Known(row))'
  BY <1>1, <1>3, <1>5, <1>6, <1>8 DEF Fits, Known, Backed, Satisfied
<1>10. user'.pc = "idle" /\ user'.copy = Blank
  BY <1>1 DEF IdleUser
<1>11. Calls'
  BY <1>6, <1>10 DEF Calls
<1>12. Copies' \subseteq Copies \cup {Blank, row'}
  BY <1>1, <1>2, <1>10, SameEntities
<1>13. Failures'
  BY <1>1, FailuresKept DEF Order
<1>14. FailedNotDeploy'
  BY <1>5, <1>6 DEF FailedNotDeploy, Verdicts
<1> QED BY <1>1, <1>6, <1>7, <1>9, <1>10, <1>11, <1>12, <1>13, <1>14, SteadyStep

\* The run a stage operation acts on exists, and its status is in the table.
LEMMA StageRunKnown ==
  ASSUME TypeOK, StageRunStatus \in {"active", "paused"}
  PROVE  StageRun \in RunIds /\ StageRun = user.copy.link[user.copy.stage]
         /\ user.copy.stage \in Stages
         /\ runs[StageRun].status \in {"active", "paused"}
<1>1. StageRun # NoRun
  BY DEF StageRunStatus
<1>2. user.copy \in Rows
  BY Types
<1>3. user.copy.stage \in Stages
  BY <1>1, <1>2 DEF StageRun, Rows
<1>4. StageRun = user.copy.link[user.copy.stage] /\ StageRun \in RunIds
  BY <1>1, <1>2, <1>3 DEF StageRun, Rows
<1> QED BY <1>1, <1>3, <1>4 DEF StageRunStatus

\* What a pause or a cancellation of the current stage does, unless it stops
\* a paper-trading session.
LEMMA StepUserStage ==
  ASSUME TypeOK, TypeOK', Order, UNCHANGED handler,
         UserPauseStage \/ UserCancelStage \/ UserCancelStageThrows
  PROVE  Order'
<1>1. UNCHANGED <<row, jobs, worker, created>> /\ user.pc = "stage"
  BY DEF UserPauseStage, UserCancelStage, UserCancelStageThrows
<1>2. user.op \in {"pause", "cancel"}
  BY <1>1 DEF Order, Calls
<1>3. /\ user'.pc \in {"idle", "final"}
      /\ user'.copy \in {Blank, user.copy}
      /\ user'.pc = "final" => user'.copy = user.copy
  <2>1. user' = IdleUser \/ user' = AfterCancel
    BY DEF UserPauseStage, UserCancelStage, UserCancelStageThrows
  <2>2. user \in Users
    BY DEF TypeOK, Users
  <2>3. user' = AfterCancel => user.op = "cancel"
    <3>1. IdleUser.pc = "idle" /\ IdleUser.op = "none"
      BY DEF IdleUser
    <3>2. AfterCancel.op = user.op
      BY <2>2 DEF AfterCancel, Users
    <3> QED BY <1>2, <3>1, <3>2 DEF UserPauseStage, UserCancelStage, UserCancelStageThrows
  <2> QED BY <2>1, <2>2, <2>3 DEF AfterCancel, IdleUser, Users
<1>4. SameRunsAndEvents
  <2>1. \A q \in RunIds : Event(q)' = Event(q)
    BY DEF Event
  <2>2. CASE UNCHANGED runs
    BY <2>1, <2>2 DEF SameRunsAndEvents, SameRun
  <2>3. CASE runs' # runs
    <3>1. \/ /\ StageRunStatus \in {"active", "paused"}
             /\ \E st, b : \/ SetRun(StageRun, [runs[StageRun] EXCEPT !.status = st])
                           \/ SetRun(StageRun, [runs[StageRun] EXCEPT !.status = st, !.alive = b])
          \/ /\ StageRunStatus \in {"active", "paused"}
             /\ SetHandler(StageRun, "completed", [pc |-> "notify", copy |-> Blank])
      <4>1. CASE UserPauseStage
        <5>1. /\ StageRunStatus = "active"
              /\ \/ SetRun(StageRun, [runs[StageRun] EXCEPT !.status = "pausing"])
                 \/ SetRun(StageRun, [runs[StageRun] EXCEPT !.status = "paused"])
          BY <2>3, <4>1 DEF UserPauseStage
        <5> QED BY <5>1
      <4>2. CASE UserCancelStage
        <5>1. \/ /\ StageRunStatus = "active"
                 /\ \E b \in BOOLEAN :
                      SetRun(StageRun, [runs[StageRun] EXCEPT !.status = "cancelled", !.alive = b])
              \/ /\ StageRunStatus \in {"active", "paused"}
                 /\ SetHandler(StageRun, "completed", [pc |-> "notify", copy |-> Blank])
          BY <2>3, <4>2 DEF UserCancelStage
        <5> QED BY <5>1
      <4>3. CASE UserCancelStageThrows
        BY <2>3, <4>3 DEF UserCancelStageThrows
      <4> QED BY <4>1, <4>2, <4>3
    <3>2. /\ StageRun \in RunIds
          /\ runs[StageRun].status \in {"active", "paused"}
      BY <3>1, StageRunKnown
    <3>3. ~SetHandler(StageRun, "completed", [pc |-> "notify", copy |-> Blank])
      <4>1. SUFFICES ASSUME SetHandler(StageRun, "completed", [pc |-> "notify", copy |-> Blank])
                     PROVE  FALSE
        OBVIOUS
      <4>2. PICK q \in RunIds : q = StageRun
        BY <3>2
      <4>3. Event(q)'.pc = "notify"
        BY <4>1, <4>2, EventSet
      <4>4. Event(q).pc = "notify"
        BY <2>1, <4>3
      <4> QED BY <3>2, <4>2, <4>4 DEF Order, Sequential
    <3> QED BY <2>1, <3>1, <3>2, <3>3, RunChanges
  <2> QED BY <2>2, <2>3
<1>5. Calls'
  BY <1>1, <1>3 DEF Order, Calls, Unstarted
<1>6. Copies' \subseteq Copies \cup {Blank, row'}
  <2>1. user.copy \in Copies /\ worker.copy \in Copies
    BY DEF Copies
  <2> QED BY <1>1, <1>3, <2>1, SameEntities
<1>7. Failures'
  BY <1>1, FailuresKept DEF Order
<1>8. FailedNotDeploy'
  BY <1>1 DEF Order, AllBacked, FailedNotDeploy
<1> QED BY <1>1, <1>3, <1>4, <1>5, <1>6, <1>7, <1>8, SteadyStep
-----------------------------------------------------------------------------
(* The completed events.                                                   *)

\* A completed event that is being dealt with is the last run's; meanwhile
\* nobody starts a run, and there is no verdict yet.
LEMMA EventInProgress ==
  ASSUME TypeOK, Order, NEW r \in RunIds, Event(r).pc \notin {"none", "over", "enqueue"}
  PROVE  /\ r = created /\ created # NoRun /\ ~Handed /\ ~Baton /\ Top = runs[r].stage
         /\ Front = runs[r].stage + 1
         /\ \A c \in Copies : c.rec \notin Verdicts
         /\ row.status # "PENDING"
         /\ jobs = {} /\ worker.pc # "create" /\ user.pc # "enqueue"
         /\ \A q \in RunIds : Event(q).pc # "enqueue"
<1>1. r \in Nat /\ created \in Nat /\ r # NoRun
  BY Types
<1>2. r = created
  <2>1. ~(r > created) /\ ~(r < created)
    BY DEF Order, Sequential
  <2> QED BY <1>1, <2>1
<1>3. ~Handed
  BY <1>2 DEF Handed
<1>4. ~Baton
  BY <1>1, <1>2, <1>3 DEF Order, OneBaton
<1>5. \A c \in Copies : c.rec \notin Verdicts
  BY <1>3, OpenCopies DEF Fits
<1>6. row.status # "PENDING"
  BY <1>1, <1>2 DEF Order, Calls, Unstarted
<1> QED BY <1>1, <1>2, <1>3, <1>4, <1>5, <1>6 DEF Baton, Top, Front

LEMMA EventStep ==
  ASSUME TypeOK, TypeOK', Order, NEW r \in RunIds, NEW h \in Handlers,
         Event(r).pc \notin {"none", "over", "enqueue"}, SetHandler(r, "completed", h),
         UNCHANGED <<jobs, worker, runs, created, user>>,
         h.pc \notin {"none", "complete"}, row'.status # "PENDING",
         h.copy \in Copies \cup {Blank, row'},
         worker.pc = "link" => h.pc \in {"emitted", "over"} /\ row' = row,
         h.pc = "enqueue" => runs[r].stage # PAPER_TRADE /\ h.copy.stage = runs[r].stage + 1,
         row'.status = "RUNNING" =>
           /\ h.pc \notin {"over", "enqueue"} => row'.stage = runs[r].stage
           /\ h.pc = "enqueue" => row'.stage = runs[r].stage + 1,
         h.pc \in {"store", "decide"} =>
           /\ h.copy.status # "PENDING"
           /\ h.copy.status = "RUNNING" => h.copy.stage = runs[r].stage,
         h.pc = "decide" /\ GatePassed(runs[r].outcome) => GatePassed(h.copy.result[runs[r].stage]),
         row' \in Copies \/ (Fits(row) /\ Known(row))',
         FailedNotDeploy'
  PROVE  Order'
<1>1. /\ r = created /\ created # NoRun /\ ~Handed /\ ~Baton /\ Top = runs[r].stage
      /\ Front = runs[r].stage + 1
      /\ jobs = {} /\ worker.pc # "create" /\ user.pc # "enqueue"
      /\ \A q \in RunIds : Event(q).pc # "enqueue"
  BY EventInProgress
<1>2. \A q \in RunIds : Event(q)' = IF q = r THEN h ELSE Event(q)
  BY EventSet
<1>3. Event(created)' = h
  BY <1>1, <1>2
<1>4. Handed' <=> h.pc \in {"over", "enqueue"}
  BY <1>1, <1>3 DEF Handed
<1>5. Front' = runs[r].stage + 1
  BY <1>1 DEF Front
<1>6. Top' = IF h.pc \in {"over", "enqueue"} THEN runs[r].stage + 1 ELSE runs[r].stage
  BY <1>1, <1>4, <1>5 DEF Top
<1>7. Baton' <=> h.pc = "enqueue"
  BY <1>1, <1>2 DEF Baton
<1>8. Sequential /\ OneBaton /\ Linking /\ Calls /\ Links /\ Standing /\ AllBacked /\ Failures
  BY DEF Order
<1>9. runs[r].stage \in 1 .. 4
  BY Types
<1>10. Sequential'
  BY <1>1, <1>2, <1>8 DEF Sequential
<1>11. OneBaton'
  BY <1>1, <1>2, <1>4, <1>5, <1>7 DEF OneBaton
<1>12. Linking'
  BY <1>1, <1>2, <1>3, <1>8 DEF Linking
<1>13. Calls'
  BY <1>1, <1>8 DEF Calls, Unstarted
<1>14. Links' /\ \A c \in Copies' : Fits(c)'
  <2>1. Copies' \subseteq Copies \cup {Blank, row'}
    <3>1. "completed" \in Kinds
      BY DEF Kinds
    <3>2. user.copy \in Copies /\ worker.copy \in Copies
      BY DEF Copies
    <3> QED BY <3>1, <3>2, SameEntities
  <2>2. Top' >= Top
    BY <1>1, <1>6, <1>9
  <2>3. created' >= created
    BY Types
  <2> QED BY <1>1, <1>8, <2>1, <2>2, <2>3, CopiesKept
<1>15. AllBacked'
  BY <1>14 DEF AllBacked, Fits
<1>16. Standing'
  <2>1. row'.status = "RUNNING" =>
          /\ created' # NoRun /\ ~Handed' => row'.stage = runs'[created'].stage
          /\ Baton' => row'.stage = Front'
    BY <1>1, <1>4, <1>5, <1>7
  <2>2. \A q \in RunIds : Event(q)'.pc \in {"store", "decide"} =>
             /\ Event(q)'.copy.status # "PENDING"
             /\ Event(q)'.copy.status = "RUNNING" => Event(q)'.copy.stage = runs'[q].stage
    BY <1>2, <1>8 DEF Standing
  <2>3. \A q \in RunIds :
             Event(q)'.pc = "decide" /\ GatePassed(runs'[q].outcome)
               => GatePassed(Event(q)'.copy.result[runs'[q].stage])
    BY <1>2, <1>8 DEF Standing
  <2> QED BY <2>1, <2>2, <2>3 DEF Standing, GatePassed
<1>17. Failures'
  BY <1>8, FailuresKept
<1> QED BY <1>10, <1>11, <1>12, <1>13, <1>14, <1>15, <1>16, <1>17 DEF Order
\* An event that comes before the worker saved the run's id finds nothing.
LEMMA StepCompleteFind ==
  ASSUME TypeOK, TypeOK', Order, NEW r \in RunIds, CompleteFind(r)
  PROVE  Order'
<1> DEFINE h == IF ~FindForComplete(r) THEN Over
                ELSE [pc |-> IF runs[r].outcome = "empty" THEN "decide" ELSE "store", copy |-> row]
<1>1. /\ SetHandler(r, "completed", h) /\ Event(r).pc = "emitted"
      /\ UNCHANGED <<row, jobs, worker, runs, created, user>>
  BY DEF CompleteFind, Event
<1>2. /\ r = created /\ created # NoRun /\ ~Handed /\ row.status # "PENDING"
  BY <1>1, EventInProgress
<1>3. row \in Copies /\ row \in Rows
  BY Types DEF Copies
<1>4. worker.pc = "link" => ~FindForComplete(r)
  <2>1. SUFFICES ASSUME worker.pc = "link" PROVE ~FindForComplete(r)
    OBVIOUS
  <2>2. worker.stage = runs[r].stage /\ runs[r].stage \in Stages
    BY <1>2, <2>1, Types DEF Order, Linking, Runs
  <2>3. runs[r].stage # PAPER_TRADE
    BY <1>1, <1>2, <2>1, <2>2 DEF Order, Linking
  <2>4. row.link[runs[r].stage] # r
    BY <1>2, <1>3, <2>1, <2>2 DEF Order, Links
  <2> QED BY <2>3, <2>4 DEF FindForComplete, FindForOptimizationComplete, FindForBacktestComplete
<1>5. h \in Handlers /\ h.copy \in {row, Blank} /\ h.pc \in {"over", "store", "decide"}
  <2>1. \A c \in Rows : [pc |-> "store", copy |-> c] \in Handlers
                        /\ [pc |-> "decide", copy |-> c] \in Handlers
    BY HandlerValues
  <2> QED BY <1>3, <2>1, HandlerValues DEF Over
<1>6. h.pc # "over" => h.copy = row /\ FindForComplete(r)
  BY DEF Over
<1>7. h.pc = "decide" => ~GatePassed(runs[r].outcome)
  BY DEF GatePassed, Over
<1>8. row.status = "RUNNING" => row.stage = runs[r].stage
  BY <1>2 DEF Order, Standing
<1>9. FailedNotDeploy'
  BY <1>1 DEF Order, AllBacked, FailedNotDeploy
<1> HIDE DEF h
<1> QED BY <1>1, <1>2, <1>3, <1>4, <1>5, <1>6, <1>7, <1>8, <1>9, EventStep

LEMMA StepNotify ==
  ASSUME TypeOK, TypeOK', Order, NEW r \in RunIds, NotifyPipeline(r)
  PROVE  Order'
<1> DEFINE h == [pc |-> "emitted", copy |-> Blank]
<1>1. /\ SetHandler(r, "completed", h) /\ Event(r).pc = "notify"
      /\ UNCHANGED <<row, jobs, worker, runs, created, user>>
  BY DEF NotifyPipeline, Emit, Event
<1>2. /\ r = created /\ created # NoRun /\ ~Handed /\ row.status # "PENDING"
  BY <1>1, EventInProgress
<1>3. h \in Handlers /\ h.copy = Blank /\ h.pc = "emitted"
  BY HandlerValues
<1>4. row.status = "RUNNING" => row.stage = runs[r].stage
  BY <1>2 DEF Order, Standing
<1>5. FailedNotDeploy'
  BY <1>1 DEF Order, AllBacked, FailedNotDeploy
<1>6. row \in Copies
  BY DEF Copies
<1> HIDE DEF h
<1> QED BY <1>1, <1>2, <1>3, <1>4, <1>5, <1>6, EventStep

\* What a handler at "store" or "decide" knows.
LEMMA Deciding ==
  ASSUME TypeOK, Order, NEW r \in RunIds, Event(r).pc \in {"store", "decide"}
  PROVE  LET c == Event(r).copy
         IN  /\ c \in Copies /\ c \in Rows /\ Fits(c) /\ Known(c) /\ c.rec \notin Verdicts
             /\ c.stage <= runs[r].stage /\ c.status # "PENDING"
             /\ c.status = "RUNNING" => c.stage = runs[r].stage
             /\ worker.pc # "link"
<1>1. /\ r = created /\ Top = runs[r].stage /\ \A c \in Copies : c.rec \notin Verdicts
  BY EventInProgress
<1>2. Event(r).copy \in Copies
  BY DEF Event, Copies, Kinds
<1>3. /\ Event(r).copy \in Rows /\ Fits(Event(r).copy) /\ Known(Event(r).copy)
  BY <1>2, OpenCopies
<1>4. Event(r).copy.stage <= runs[r].stage
  BY <1>1, <1>3 DEF Fits
<1>5. worker.pc # "link"
  BY <1>1 DEF Order, Linking
<1> QED BY <1>1, <1>2, <1>3, <1>4, <1>5 DEF Order, Standing

LEMMA StepCompleteStore ==
  ASSUME TypeOK, TypeOK', Order, NEW r \in RunIds, CompleteStore(r)
  PROVE  Order'
<1> DEFINE c == Event(r).copy
           d == StoreResult(c, r)
           h == [pc |-> "decide", copy |-> d]
<1>1. /\ SetHandler(r, "completed", h) /\ Event(r).pc = "store" /\ row' = d
      /\ UNCHANGED <<jobs, worker, runs, created, user>>
  BY DEF CompleteStore, Event
<1>2. /\ r = created /\ created # NoRun /\ ~Handed /\ Top = runs[r].stage
  BY <1>1, EventInProgress
<1>3. /\ c \in Rows /\ Fits(c) /\ Known(c) /\ c.rec \notin Verdicts
      /\ c.stage <= runs[r].stage /\ c.status # "PENDING"
      /\ c.status = "RUNNING" => c.stage = runs[r].stage
      /\ worker.pc # "link"
  BY <1>1, Deciding
<1>4. runs[r] \in Runs /\ runs[r].stage \in Stages /\ runs \in [RunIds -> Runs] /\ created \in Nat
      /\ runs[r].stage \in 1 .. 4
  BY Types DEF Runs
<1>5. /\ d.stage = c.stage /\ d.status = c.status /\ d.rec = c.rec
      /\ d.result = [c.result EXCEPT ![runs[r].stage] = runs[r].outcome]
      /\ d.link = [c.link EXCEPT ![OPTIMIZE] = IF runs[r].stage = OPTIMIZE THEN r ELSE c.link[OPTIMIZE]]
  BY <1>3 DEF StoreResult, Rows
<1>6. /\ \A s \in Stages : d.result[s] = IF s = runs[r].stage THEN runs[r].outcome ELSE c.result[s]
      /\ \A s \in Stages : d.link[s] = c.link[s] \/ d.link[s] = created
  BY <1>2, <1>3, <1>4, <1>5 DEF Rows
<1>7. d \in Rows /\ h \in Handlers
  BY <1>3, <1>4, RowStores, HandlerValues
<1> HIDE DEF d, c
<1>8. h.copy = d /\ h.pc = "decide"
  OBVIOUS
<1> HIDE DEF h
<1>9. Event(created)' = h
  BY <1>1, <1>2, EventSet
<1>10. ~Handed' /\ Top' = Top
  <2>1. ~Handed'
    BY <1>8, <1>9 DEF Handed
  <2> QED BY <1>1, <1>2, <2>1 DEF Top
<1>11. Backed(d)
  <2>1. \A s \in Stages : s < d.stage => Satisfied(c, s)
    BY <1>3, <1>5 DEF Fits, Backed, Verdicts
  <2>2. \A s \in Stages : s < d.stage => s # runs[r].stage
    <3>1. \A s \in Stages : s \in Nat
      BY StageValues
    <3>2. c.stage \in 1 .. 5
      BY <1>3, RowTypes
    <3> QED BY <1>3, <1>4, <1>5, <3>1, <3>2
  <2>3. \A s \in Stages : s < d.stage => d.result[s] = c.result[s]
    BY <1>6, <2>2
  <2> QED BY <1>3, <1>5, <2>1, <2>3 DEF Backed, Satisfied, Verdicts
<1>12. Fits(row)'
  BY <1>1, <1>3, <1>5, <1>10, <1>11 DEF Fits, Backed
<1>13. Known(row)'
  BY <1>1, <1>3, <1>4, <1>6 DEF Known
<1>14. FailedNotDeploy'
  BY <1>1, <1>3, <1>5 DEF FailedNotDeploy, Verdicts
<1>15. GatePassed(runs[r].outcome) => GatePassed(d.result[runs[r].stage])
  BY <1>4, <1>6
<1> QED BY <1>1, <1>3, <1>5, <1>7, <1>8, <1>12, <1>13, <1>14, <1>15, EventStep

LEMMA StepCompleteRefuse ==
  ASSUME TypeOK, TypeOK', Order, NEW r \in RunIds, CompleteRefuse(r)
  PROVE  Order'
<1> DEFINE c == Event(r).copy
<1>1. /\ SetHandler(r, "completed", Over) /\ Event(r).pc = "decide"
      /\ row' = IF runs[r].outcome = "starved" THEN markInconclusiveAndComplete(c)
                ELSE rejectPipeline(c)
      /\ UNCHANGED <<jobs, worker, runs, created, user>>
  BY DEF CompleteRefuse, Event
<1>2. /\ r = created /\ created # NoRun /\ Top = runs[r].stage
  BY <1>1, EventInProgress
<1>3. /\ c \in Rows /\ Fits(c) /\ Known(c) /\ c.rec \notin Verdicts
      /\ c.stage <= runs[r].stage /\ worker.pc # "link"
  BY <1>1, Deciding
<1>4. Over \in Handlers /\ Over.pc = "over" /\ Over.copy = Blank
  BY HandlerValues DEF Over
<1>5. Event(created)' = Over
  BY <1>1, <1>2, EventSet
<1>6. Handed' /\ Top' = runs[r].stage + 1
  <2>1. Handed'
    BY <1>1, <1>2, <1>4, <1>5 DEF Handed
  <2> QED BY <1>1, <1>2, <2>1 DEF Top, Front
<1>7. runs[r].stage \in 1 .. 4 /\ c.stage \in 1 .. 5
  BY <1>3, Types, RowTypes
<1> HIDE DEF c
<1>8. (Fits(row) /\ Known(row))' /\ row'.status \in {"COMPLETED", "REJECTED"}
  <2>1. CASE runs[r].outcome = "starved"
    <3>1. /\ row'.status = "COMPLETED" /\ row'.stage = 5 /\ row'.rec = "INCONCLUSIVE_RETRY"
          /\ row'.link = c.link
      BY <1>1, <1>3, <2>1 DEF markInconclusiveAndComplete, Rows, DONE
    <3>2. runs[r].stage = PAPER_TRADE
      BY <2>1 DEF Order, Sequential
    <3>3. Top' = 5
      BY <1>6, <3>2 DEF PAPER_TRADE
    <3> QED BY <1>1, <1>2, <1>3, <1>6, <3>1, <3>2, <3>3 DEF Fits, Known, Backed, Terminal
  <2>2. CASE runs[r].outcome # "starved"
    <3>1. /\ row'.status = "REJECTED" /\ row'.stage = c.stage /\ row'.rec = "DO_NOT_DEPLOY"
          /\ row'.link = c.link /\ row'.result = c.result
      BY <1>1, <1>3, <2>2 DEF rejectPipeline, Rows
    <3>2. row'.stage <= Top'
      BY <1>3, <1>6, <1>7, <3>1
    <3>3. \A s \in Stages : s < row'.stage => Satisfied(row', s)
      BY <1>3, <3>1 DEF Fits, Backed, Satisfied, Verdicts
    <3>4. Known(row)'
      BY <1>1, <1>3, <3>1 DEF Known
    <3> QED BY <3>1, <3>2, <3>3, <3>4 DEF Fits, Backed, Verdicts, Satisfied, GatePassed
  <2> QED BY <2>1, <2>2
<1>9. FailedNotDeploy'
  BY <1>8 DEF FailedNotDeploy
<1> QED BY <1>1, <1>3, <1>4, <1>8, <1>9, EventStep

LEMMA StepCompleteDefer ==
  ASSUME TypeOK, TypeOK', Order, NEW r \in RunIds, CompleteDefer(r)
  PROVE  Order'
<1>1. /\ SetHandler(r, "completed", Over) /\ Event(r).pc = "decide"
      /\ UNCHANGED <<row, jobs, worker, runs, created, user>>
  BY DEF CompleteDefer, Event
<1>2. /\ r = created /\ created # NoRun /\ row.status # "PENDING"
  BY <1>1, EventInProgress
<1>3. worker.pc # "link"
  BY <1>1, Deciding
<1>4. Over \in Handlers /\ Over.pc = "over" /\ Over.copy = Blank
  BY HandlerValues DEF Over
<1>5. FailedNotDeploy'
  BY <1>1 DEF Order, AllBacked, FailedNotDeploy
<1>6. row \in Copies
  BY DEF Copies
<1> QED BY <1>1, <1>2, <1>3, <1>4, <1>5, <1>6, EventStep
\* Past the gate: the entity stands at the run's stage, on evidence, and the
\* run adds that of its own.
LEMMA StepCompleteAdvance ==
  ASSUME TypeOK, TypeOK', Order, NEW r \in RunIds, CompleteAdvance(r)
  PROVE  Order'
<1> DEFINE c == Event(r).copy
<1>1. /\ Event(r).pc = "decide" /\ UNCHANGED <<jobs, worker, runs, created, user>>
      /\ GatePassed(runs[r].outcome) /\ c.status = "RUNNING"
  BY DEF CompleteAdvance, MayAdvance, Event
<1>2. /\ r = created /\ created # NoRun /\ Top = runs[r].stage
  BY <1>1, EventInProgress
<1>3. /\ c \in Rows /\ Fits(c) /\ Known(c) /\ c.rec \notin Verdicts
      /\ c.stage = runs[r].stage /\ worker.pc # "link"
  BY <1>1, Deciding
<1>4. runs[r].stage \in 1 .. 4 /\ runs[r].stage \in Stages
  BY Types DEF Runs
<1>5. \A s \in Stages : s < c.stage + 1 => Satisfied(c, s)
  <2>1. \A s \in Stages : s < c.stage => Satisfied(c, s)
    BY <1>3 DEF Fits, Backed, Verdicts
  <2>2. Satisfied(c, c.stage)
    BY <1>1, <1>3 DEF Order, Standing, Satisfied
  <2>3. \A s \in Stages : s < c.stage + 1 => s < c.stage \/ s = c.stage
    BY <1>3, <1>4, StageValues
  <2> QED BY <2>1, <2>2, <2>3
<1>6. CASE runs[r].stage = PAPER_TRADE
  <2>1. row' = completePipeline(c) /\ SetHandler(r, "completed", Over)
    BY <1>6 DEF CompleteAdvance, Event
  <2>2. Over \in Handlers /\ Over.pc = "over" /\ Over.copy = Blank
    BY HandlerValues DEF Over
  <2>3. /\ row'.status = "COMPLETED" /\ row'.stage = 5 /\ row'.link = c.link
        /\ row'.result = c.result
    BY <1>3, <2>1 DEF completePipeline, Rows, DONE
  <2>4. row'.rec \in {"DEPLOY", "NEEDS_REVIEW", "DO_NOT_DEPLOY"}
    BY <1>3, <2>1 DEF completePipeline, Recommend, Rows
  <2>5. \A s \in Stages : s < c.stage + 1
    BY <1>3, <1>6, StageValues
  <2>6. \A s \in Stages : Satisfied(c, s)
    BY <1>5, <2>5
  <2>7. Event(created)' = Over
    BY <1>1, <1>2, <2>1, EventSet
  <2>8. Handed' /\ Top' = 5
    <3>1. Handed'
      BY <1>1, <1>2, <2>2, <2>7 DEF Handed
    <3> QED BY <1>1, <1>2, <1>6, <3>1 DEF Top, Front, PAPER_TRADE
  <2> HIDE DEF c
  <2>9. Fits(row)'
    BY <1>1, <1>2, <1>6, <2>3, <2>4, <2>6, <2>8 DEF Fits, Backed, Satisfied, Terminal
  <2>10. Known(row)'
    BY <1>1, <1>3, <2>3 DEF Known
  <2>11. FailedNotDeploy'
    BY <2>3 DEF FailedNotDeploy
  <2> QED BY <1>1, <1>3, <2>1, <2>2, <2>3, <2>9, <2>10, <2>11, EventStep
<1>7. CASE runs[r].stage # PAPER_TRADE
  <2> DEFINE n == advanceToNextStage(c)
             h == [pc |-> AfterAdvance(n), copy |-> n]
  <2>1. CanAdvance(c) /\ runs[r].stage \in 1 .. 3
    BY <1>3, <1>4, <1>7 DEF CanAdvance, DONE, PAPER_TRADE
  <2>2. row' = n /\ SetHandler(r, "completed", h)
    BY <1>7, <2>1 DEF CompleteAdvance, Event
  <2>3. /\ n.status = "RUNNING" /\ n.stage = runs[r].stage + 1 /\ n.link = c.link
        /\ n.result = c.result /\ n.rec = c.rec
    BY <1>1, <1>3 DEF advanceToNextStage, Rows
  <2>4. n \in Rows
    BY <1>3, <2>1, RowWrites DEF CanAdvance
  <2>5. h \in Handlers
    BY <2>4, HandlerValues
  <2> HIDE DEF n, c
  <2>6. h.copy = n /\ h.pc = "enqueue"
    BY <2>1, <2>3 DEF AfterAdvance, DONE
  <2> HIDE DEF h
  <2>7. Event(created)' = h
    BY <1>1, <1>2, <2>2, EventSet
  <2>8. Handed' /\ Top' = runs[r].stage + 1
    <3>1. Handed'
      BY <1>1, <1>2, <2>6, <2>7 DEF Handed
    <3> QED BY <1>1, <1>2, <3>1 DEF Top, Front
  <2>9. Backed(n)
    BY <1>3, <1>5, <2>3 DEF Backed, Satisfied, Verdicts
  <2>10. n.stage <= Top'
    BY <1>4, <2>3, <2>8
  <2>11. Fits(row)'
    BY <1>3, <2>2, <2>3, <2>9, <2>10 DEF Fits, Backed
  <2>12. Known(row)'
    BY <1>1, <1>3, <2>2, <2>3 DEF Known
  <2>13. FailedNotDeploy'
    BY <2>2, <2>3 DEF FailedNotDeploy
  <2> QED BY <1>1, <1>3, <1>7, <2>2, <2>3, <2>5, <2>6, <2>11, <2>12, <2>13, EventStep
<1> QED BY <1>6, <1>7

\* The job of the next stage is queued.
LEMMA StepCompleteEnqueue ==
  ASSUME TypeOK, TypeOK', Order, NEW r \in RunIds, CompleteEnqueue(r)
  PROVE  Order'
<1>1. /\ SetHandler(r, "completed", Over) /\ Event(r).pc = "enqueue"
      /\ jobs' = jobs \cup {Event(r).copy.stage}
      /\ UNCHANGED <<row, worker, runs, created, user>>
  BY DEF CompleteEnqueue, enqueueStageJob, Event
<1>2. Sequential /\ OneBaton /\ Linking /\ Calls /\ Links /\ Standing /\ AllBacked /\ Failures
  BY DEF Order
<1>3. Baton
  BY <1>1 DEF Baton
<1>4. /\ r = created /\ jobs = {} /\ worker.pc \notin {"create", "link"} /\ Event(r).copy.stage = Front
      /\ user.pc # "enqueue"
  <2>1. r = created /\ jobs = {} /\ worker.pc \notin {"create", "link"} /\ Event(r).copy.stage = Front
    BY <1>1, <1>2 DEF OneBaton
  <2> QED BY <1>2, <2>1, Types DEF OneBaton
<1>5. created # NoRun /\ Handed /\ runs[created].stage # PAPER_TRADE
  BY <1>2, <1>3, <1>4, Types DEF OneBaton
<1>6. Over \in Handlers /\ Over.pc = "over" /\ Over.copy = Blank
  BY HandlerValues DEF Over
<1>7. \A q \in RunIds : Event(q)' = IF q = r THEN Over ELSE Event(q)
  BY <1>1, EventSet
<1>8. Handed' /\ Front' = Front /\ Top' = Top
  <2>1. Handed'
    BY <1>1, <1>4, <1>5, <1>6, <1>7 DEF Handed
  <2>2. Front' = Front
    BY <1>1, <1>5 DEF Front
  <2> HIDE DEF Handed, Front
  <2> QED BY <1>1, <1>5, <2>1, <2>2 DEF Top
<1>9. Sequential'
  BY <1>1, <1>2, <1>4, <1>6, <1>7 DEF Sequential
<1>10. \A q \in RunIds : Event(q)'.pc # "enqueue"
  BY <1>2, <1>4, <1>6, <1>7 DEF OneBaton
<1>11. OneBaton'
  BY <1>1, <1>4, <1>5, <1>8, <1>10 DEF OneBaton
<1>12. Linking'
  BY <1>1, <1>4 DEF Linking
<1>13. Calls'
  BY <1>1, <1>2, <1>5 DEF Calls, Unstarted
<1>14. Links' /\ \A c \in Copies' : Fits(c)'
  <2>1. Copies' \subseteq Copies \cup {Blank, row'}
    <3>1. worker.copy \in Copies /\ user.copy \in Copies /\ "completed" \in Kinds
      BY DEF Copies, Kinds
    <3> QED BY <1>1, <1>6, <3>1, SameEntities
  <2>2. Top' >= Top /\ created' >= created
    BY <1>1, <1>8, TopTypes, Types
  <2>3. row' \in Copies
    BY <1>1 DEF Copies
  <2> QED BY <1>1, <1>2, <1>4, <1>5, <1>8, <2>1, <2>2, <2>3, CopiesKept
<1>15. AllBacked'
  BY <1>1, <1>2, <1>14 DEF AllBacked, Fits, FailedNotDeploy
<1>16. Standing'
  <2>1. row'.status = "RUNNING" =>
          /\ created' # NoRun /\ ~Handed' => row'.stage = runs'[created'].stage
          /\ Baton' => row'.stage = Front'
    BY <1>1, <1>2, <1>3, <1>8 DEF Standing
  <2>2. \A q \in RunIds : Event(q)'.pc \in {"store", "decide"} => Event(q)' = Event(q)
    BY <1>6, <1>7
  <2> QED BY <1>1, <1>2, <2>1, <2>2 DEF Standing, GatePassed
<1>17. Failures'
  BY <1>1, <1>2, FailuresKept
<1> QED BY <1>9, <1>11, <1>12, <1>13, <1>14, <1>15, <1>16, <1>17 DEF Order
-----------------------------------------------------------------------------
(* A run completes, or its session is stopped: the completed event begins. *)

\* A run whose completed event is still to come, and that is in use, is the
\* last one.
LEMMA EventToCome ==
  ASSUME TypeOK, Order, NEW r \in RunIds, Event(r).pc = "none", ~(r > created)
  PROVE  /\ r = created /\ created # NoRun /\ ~Handed /\ ~Baton
         /\ jobs = {} /\ worker.pc # "create" /\ user.pc # "enqueue"
         /\ \A q \in RunIds : Event(q).pc # "enqueue"
         /\ row.status # "PENDING"
<1>1. r \in Nat /\ created \in Nat /\ r # NoRun
  BY Types
<1>2. r = created
  <2>1. ~(r < created)
    BY DEF Order, Sequential
  <2> QED BY <1>1, <2>1
<1>3. ~Handed
  BY <1>2 DEF Handed
<1>4. ~Baton
  BY <1>1, <1>2, <1>3 DEF Order, OneBaton
<1>5. row.status # "PENDING"
  BY <1>1, <1>2 DEF Order, Calls, Unstarted
<1> QED BY <1>1, <1>2, <1>3, <1>4, <1>5 DEF Baton

LEMMA EventBegins ==
  ASSUME TypeOK, TypeOK', Order, NEW r \in RunIds, Event(r).pc = "none", ~(r > created),
         NEW h \in Handlers, SetHandler(r, "completed", h), h.copy = Blank,
         h.pc \in {"emitted", "notify"},
         UNCHANGED <<row, jobs, worker, created>>,
         user'.pc # "enqueue", user'.copy = user.copy, Calls',
         \A q \in RunIds : q # r => runs'[q] = runs[q],
         runs'[r].stage = runs[r].stage, runs'[r].status \in {"completed", "stopped"},
         runs'[r].outcome = "starved" => runs[r].stage = PAPER_TRADE,
         worker.pc = "link" => h.pc = "emitted" /\ runs[r].stage # PAPER_TRADE
  PROVE  Order'
<1>1. /\ r = created /\ created # NoRun /\ ~Handed /\ ~Baton
      /\ jobs = {} /\ worker.pc # "create" /\ user.pc # "enqueue"
      /\ \A q \in RunIds : Event(q).pc # "enqueue"
  BY EventToCome
<1>2. \A q \in RunIds : Event(q)' = IF q = r THEN h ELSE Event(q)
  BY EventSet
<1>3. Event(created)' = h /\ runs'[created].stage = runs[created].stage
  BY <1>1, <1>2
<1>4. ~Handed' /\ Front' = Front /\ Top' = Top
  BY <1>1, <1>3 DEF Handed, Front, Top
<1>5. ~Baton'
  BY <1>1, <1>2 DEF Baton
<1>6. Sequential /\ OneBaton /\ Linking /\ Calls /\ Links /\ Standing /\ AllBacked /\ Failures
  BY DEF Order
<1>7. Sequential'
  BY <1>2, <1>6 DEF Sequential
<1>8. OneBaton'
  BY <1>1, <1>2, <1>5 DEF OneBaton
<1>9. Linking'
  BY <1>1, <1>3, <1>6 DEF Linking
<1>10. Links' /\ \A c \in Copies' : Fits(c)'
  <2>1. Copies' \subseteq Copies \cup {Blank, row'}
    <3>1. worker.copy \in Copies /\ user.copy \in Copies /\ "completed" \in Kinds
      BY DEF Copies, Kinds
    <3> QED BY <3>1, SameEntities
  <2>2. Top' >= Top /\ created' >= created
    BY <1>4, TopTypes, Types
  <2>3. row' \in Copies
    BY DEF Copies
  <2> QED BY <1>1, <1>6, <2>1, <2>2, <2>3, CopiesKept
<1>11. AllBacked'
  BY <1>6, <1>10 DEF AllBacked, Fits, FailedNotDeploy
<1>12. Standing'
  <2>1. row'.status = "RUNNING" =>
          /\ created' # NoRun /\ ~Handed' => row'.stage = runs'[created'].stage
          /\ Baton' => row'.stage = Front'
    BY <1>1, <1>3, <1>5, <1>6 DEF Standing
  <2>2. \A q \in RunIds : Event(q)'.pc \in {"store", "decide"} =>
          Event(q)' = Event(q) /\ runs'[q] = runs[q]
    BY <1>2
  <2> QED BY <1>6, <2>1, <2>2 DEF Standing, GatePassed
<1>13. Failures'
  BY <1>6, FailuresKept
<1> QED BY <1>7, <1>8, <1>9, <1>10, <1>11, <1>12, <1>13 DEF Order

LEMMA StepRunFinish ==
  ASSUME TypeOK, TypeOK', Order, RunsSettle, NEW r \in RunIds, RunFinish(r)
  PROVE  Order'
<1> DEFINE h == [pc |-> "emitted", copy |-> Blank]
<1>1. /\ SetHandler(r, "completed", h) /\ Event(r).pc = "none"
      /\ UNCHANGED <<row, jobs, worker, created, user>>
      /\ Linked(r) \/ runs[r].stage # PAPER_TRADE
      /\ runs[r].status # "unused"
  BY DEF RunFinish, Emit, Event, Working
<1>2. ~(r > created)
  BY <1>1 DEF RunsSettle
<1>3. r = created /\ user.pc # "enqueue"
  BY <1>1, <1>2, EventToCome
<1>4. PICK o \in OutcomesOf(runs[r].stage) :
        SetRun(r, [runs[r] EXCEPT !.status = "completed", !.alive = FALSE, !.outcome = o])
  BY DEF RunFinish
<1>5. runs \in [RunIds -> Runs] /\ runs[r] \in Runs /\ runs[r].stage \in Stages
  BY Types DEF Runs
<1>6. /\ \A q \in RunIds : q # r => runs'[q] = runs[q]
      /\ runs'[r].stage = runs[r].stage /\ runs'[r].status = "completed" /\ runs'[r].outcome = o
  BY <1>4, <1>5 DEF SetRun, Runs
<1>7. o = "starved" => runs[r].stage = PAPER_TRADE
  BY <1>4, <1>5, StageValues DEF OutcomesOf
<1>8. worker.pc = "link" => runs[r].stage # PAPER_TRADE
  BY <1>1, <1>3 DEF Order, Linking, Linked
<1>9. Calls'
  BY <1>1, CallsKept DEF Order
<1>10. h \in Handlers /\ h.copy = Blank /\ h.pc = "emitted"
  BY HandlerValues
<1> HIDE DEF h
<1> QED BY <1>1, <1>2, <1>3, <1>6, <1>7, <1>8, <1>9, <1>10, EventBegins

\* stop() of the session of the current stage.
LEMMA StepUserStops ==
  ASSUME TypeOK, TypeOK', Order, UserCancelStage, handler' # handler
  PROVE  Order'
<1> DEFINE h == [pc |-> "notify", copy |-> Blank]
<1>1. /\ StageRunStatus \in {"active", "paused"} /\ user.copy.stage = PAPER_TRADE
      /\ \E o \in {"pass", "fail"} :
           SetRun(StageRun, [runs[StageRun] EXCEPT !.status = "stopped", !.alive = FALSE, !.outcome = o])
      /\ SetHandler(StageRun, "completed", h)
      /\ UNCHANGED <<row, jobs, worker, created>> /\ user' = AfterCancel /\ user.pc = "stage"
  BY DEF UserCancelStage
<1>2. PICK r \in RunIds : /\ r = StageRun /\ r = user.copy.link[PAPER_TRADE]
                          /\ runs[r].status \in {"active", "paused"}
  BY <1>1, StageRunKnown
<1>3. PICK o \in {"pass", "fail"} :
        SetRun(r, [runs[r] EXCEPT !.status = "stopped", !.alive = FALSE, !.outcome = o])
  BY <1>1, <1>2
<1>4. user.copy \in Copies /\ PAPER_TRADE \in Stages
  BY StageValues DEF Copies
<1>5. Event(r).pc = "none"
  BY <1>2 DEF Order, Sequential
<1>6. r <= created /\ (worker.pc = "link" => r # created)
  BY <1>2, <1>4 DEF Order, Links
<1>7. ~(r > created)
  BY <1>6, Types
<1>8. r = created
  BY <1>5, <1>7, EventToCome
<1>9. runs \in [RunIds -> Runs] /\ runs[r] \in Runs
  BY Types
<1>10. /\ \A q \in RunIds : q # r => runs'[q] = runs[q]
       /\ runs'[r].stage = runs[r].stage /\ runs'[r].status = "stopped" /\ runs'[r].outcome = o
  BY <1>3, <1>9 DEF SetRun, Runs
<1>11. user.op = "cancel"
  BY <1>1 DEF UserCancelStage, Order, Calls
<1>12. user'.pc = "final" /\ user'.copy = user.copy
  <2>1. user \in Users
    BY DEF TypeOK, Users
  <2> QED BY <1>1, <1>11, <2>1 DEF AfterCancel, Users
<1>13. Calls'
  BY <1>1, <1>12 DEF Order, Calls, Unstarted
<1>14. h \in Handlers /\ h.copy = Blank /\ h.pc = "notify"
  BY HandlerValues
<1>15. SetHandler(r, "completed", h)
  BY <1>1, <1>2
<1> HIDE DEF h
<1> QED BY <1>1, <1>5, <1>6, <1>7, <1>8, <1>10, <1>12, <1>13, <1>14, <1>15, EventBegins
-----------------------------------------------------------------------------
(* The worker, the queue, and the call that starts the pipeline.           *)

LEMMA QueueStep ==
  ASSUME TypeOK, TypeOK', Order, UNCHANGED <<runs, created, handler>>,
         created = NoRun => row'.stage = row.stage,
         worker'.copy \in Copies \cup {Blank, row'}, user'.copy \in Copies \cup {Blank, row'},
         row' \in Copies \/ (Fits(row) /\ Known(row))',
         worker'.pc = "link" => worker.pc = "link",
         row'.status = "RUNNING" =>
           /\ created # NoRun /\ ~Handed => row'.stage = runs[created].stage
           /\ Baton' => row'.stage = Front,
         OneBaton', Linking', Calls', FailedNotDeploy'
  PROVE  Order'
<1>1. SameRunsAndEvents
  BY DEF SameRunsAndEvents, SameRun, Event
<1>2. Handed' = Handed /\ Front' = Front /\ Top' = Top
  BY <1>1, SamePosition
<1>3. Sequential /\ OneBaton /\ Linking /\ Calls /\ Links /\ Standing /\ AllBacked /\ Failures
  BY DEF Order
<1>4. Sequential'
  BY <1>3 DEF Sequential, Event
<1>5. Links' /\ \A c \in Copies' : Fits(c)'
  <2>1. Copies' \subseteq Copies \cup {Blank, row'}
    BY SameEntities
  <2>2. Top' >= Top /\ created' >= created
    BY <1>2, TopTypes, Types
  <2>3. worker'.pc = "link" => created' # NoRun
    BY <1>3 DEF Linking
  <2> HIDE DEF Handed, Top
  <2> QED BY <1>2, <1>3, <2>1, <2>2, <2>3, CopiesKept
<1>6. AllBacked'
  BY <1>5 DEF AllBacked, Fits
<1>7. Standing'
  <2>1. row'.status = "RUNNING" =>
          /\ created' # NoRun /\ ~Handed' => row'.stage = runs'[created'].stage
          /\ Baton' => row'.stage = Front'
    BY <1>2
  <2> QED BY <1>3, <2>1 DEF Standing, Event, GatePassed
<1>8. Failures'
  BY <1>3, FailuresKept
<1> QED BY <1>4, <1>5, <1>6, <1>7, <1>8 DEF Order

\* Nothing else changes the position of the pipeline.
LEMMA SameEverything ==
  ASSUME TypeOK, UNCHANGED <<runs, created, handler>>, created = NoRun => row'.stage = row.stage
  PROVE  /\ Handed' = Handed /\ Front' = Front
         /\ \A r \in RunIds : Event(r)' = Event(r)
<1>1. SameRunsAndEvents
  BY DEF SameRunsAndEvents, SameRun, Event
<1> QED BY <1>1, SamePosition DEF Event

LEMMA StepWorkerRead ==
  ASSUME TypeOK, TypeOK', Order, NEW s \in Stages \cup {DONE}, WorkerRead(s)
  PROVE  Order'
<1>1. /\ worker.pc = "idle" /\ s \in jobs /\ jobs' = jobs \ {s}
      /\ UNCHANGED <<row, runs, created, handler, user>>
      /\ worker' = IF row.status = "RUNNING"
                   THEN [pc |-> "create", stage |-> s, copy |-> row, run |-> NoRun] ELSE worker
  BY DEF WorkerRead
<1>2. OneBaton /\ Calls /\ Standing /\ AllBacked
  BY DEF Order
<1>3. Baton /\ s = Front /\ jobs' = {}
  BY <1>1, <1>2 DEF Baton, OneBaton
<1>4. /\ user.pc # "enqueue" /\ \A r \in RunIds : Event(r).pc # "enqueue"
      /\ created # NoRun => Handed /\ runs[created].stage # PAPER_TRADE
  BY <1>1, <1>2, <1>3 DEF OneBaton
<1>5. row.status = "RUNNING" => row.stage = Front
  BY <1>2, <1>3 DEF Standing
<1>6. /\ Handed' = Handed /\ Front' = Front
      /\ \A r \in RunIds : Event(r)' = Event(r)
  BY <1>1, SameEverything
<1>7. /\ worker'.pc \in {"idle", "create"}
      /\ worker'.pc = "create" => worker'.stage = s /\ worker'.copy = row /\ row.status = "RUNNING"
  BY <1>1
<1>8. OneBaton'
  BY <1>1, <1>3, <1>4, <1>5, <1>6, <1>7 DEF OneBaton
<1>9. Linking'
  BY <1>7 DEF Linking
<1>10. Calls'
  BY <1>1, <1>2 DEF Calls, Unstarted
<1>11. FailedNotDeploy'
  BY <1>1, <1>2 DEF AllBacked, FailedNotDeploy
<1>12. row \in Copies /\ worker'.copy \in Copies /\ user.copy \in Copies
  BY <1>1 DEF Copies
<1> QED BY <1>1, <1>4, <1>5, <1>7, <1>8, <1>9, <1>10, <1>11, <1>12, QueueStep

\* The run's id is saved with the entity read at the start.
LEMMA StepWorkerLink ==
  ASSUME TypeOK, TypeOK', Order, WorkerLink
  PROVE  Order'
<1> DEFINE c == worker.copy
<1>1. /\ worker.pc = "link" /\ row' = [c EXCEPT !.link[worker.stage] = worker.run]
      /\ UNCHANGED <<jobs, runs, created, handler, user>>
      /\ worker' = [worker EXCEPT !.pc = "ack", !.copy = Blank]
  BY DEF WorkerLink
<1>2. OneBaton /\ Calls /\ Linking /\ AllBacked
  BY DEF Order
<1>3. /\ created # NoRun /\ worker.run = created /\ worker.stage = runs[created].stage
      /\ c.stage = worker.stage /\ c.status = "RUNNING"
  BY <1>1, <1>2 DEF Linking
<1>4. ~Baton
  BY <1>1, <1>2 DEF OneBaton
<1>5. /\ Handed' = Handed /\ Front' = Front
      /\ \A r \in RunIds : Event(r)' = Event(r)
  BY <1>1, <1>3, SameEverything
<1>6. worker'.pc = "ack" /\ worker'.copy = Blank
  BY <1>1 DEF TypeOK
<1>7. ~Baton'
  BY <1>1, <1>4, <1>5, <1>6 DEF Baton
<1>8. OneBaton'
  BY <1>1, <1>4, <1>5, <1>6, <1>7 DEF OneBaton, Baton
<1>9. Linking'
  BY <1>6 DEF Linking
<1>10. c \in Copies
  BY DEF Copies
<1>11. c \in Rows /\ Fits(c) /\ Known(c) /\ c.rec \notin Verdicts
  BY <1>3, <1>10, OpenCopies DEF Terminal
<1>12. worker.stage \in Stages /\ created \in Nat
  BY <1>3, Types DEF Runs
<1>13. /\ row'.stage = c.stage /\ row'.status = c.status /\ row'.rec = c.rec
       /\ row'.result = c.result
       /\ \A s \in Stages : row'.link[s] = IF s = worker.stage THEN created ELSE c.link[s]
  BY <1>1, <1>3, <1>11, <1>12 DEF Rows
<1> HIDE DEF c
<1>14. Calls'
  <2>1. row.status # "PENDING" /\ row'.status # "PENDING" /\ ~(user.pc = "save" /\ user.op = "start")
    BY <1>1, <1>2, <1>3, <1>13 DEF Calls, Unstarted
  <2> QED BY <1>1, <1>2, <1>3, <2>1 DEF Calls
<1>15. Top' = Top
  BY <1>1, <1>3, <1>5 DEF Top
<1>16. Fits(row)'
  BY <1>11, <1>13, <1>15 DEF Fits, Backed, Satisfied
<1>17. Known(row)'
  BY <1>1, <1>6, <1>11, <1>12, <1>13 DEF Known
<1>18. FailedNotDeploy'
  BY <1>3, <1>13 DEF FailedNotDeploy
<1>19. user'.copy \in Copies
  BY <1>1 DEF Copies
<1> QED BY <1>1, <1>3, <1>6, <1>7, <1>8, <1>9, <1>13, <1>14, <1>16, <1>17, <1>18, <1>19, QueueStep

LEMMA StepWorkerAck ==
  ASSUME TypeOK, TypeOK', Order, WorkerAck
  PROVE  Order'
<1>1. /\ worker.pc = "ack" /\ worker' = IdleWorker
      /\ UNCHANGED <<row, jobs, runs, created, handler, user>>
  BY DEF WorkerAck
<1>2. worker'.pc = "idle" /\ worker'.copy = Blank
  BY <1>1 DEF IdleWorker
<1>3. OneBaton /\ Calls /\ Standing /\ AllBacked
  BY DEF Order
<1>4. /\ Handed' = Handed /\ Front' = Front
      /\ \A r \in RunIds : Event(r)' = Event(r)
  BY <1>1, SameEverything
<1>5. Baton' => Baton
  BY <1>1, <1>2, <1>4 DEF Baton
<1>6. OneBaton'
  <2> HIDE DEF Baton, Handed, Front
  <2> QED BY <1>1, <1>2, <1>3, <1>4, <1>5 DEF OneBaton
<1>7. Linking'
  BY <1>2 DEF Linking
<1>8. Calls'
  BY <1>1, <1>2, <1>3 DEF Calls, Unstarted
<1>9. FailedNotDeploy'
  BY <1>1, <1>3 DEF AllBacked, FailedNotDeploy
<1>10. row' \in Copies /\ user'.copy \in Copies
  BY <1>1 DEF Copies
<1>11. row'.status = "RUNNING" =>
         /\ created # NoRun /\ ~Handed => row'.stage = runs[created].stage
         /\ Baton' => row'.stage = Front
  BY <1>1, <1>3, <1>5 DEF Standing
<1> QED BY <1>1, <1>2, <1>6, <1>7, <1>8, <1>9, <1>10, <1>11, QueueStep

\* The catch block writes FAILED over whatever status there is; no verdict
\* can have been given while a stage is executed.
LEMMA StepWorkerFail ==
  ASSUME TypeOK, TypeOK', Order, WorkerFail
  PROVE  Order'
<1>1. /\ worker.pc \in {"create", "link"} /\ worker' = IdleWorker
      /\ row' = [row EXCEPT !.status = "FAILED"]
      /\ UNCHANGED <<jobs, runs, created, handler, user>>
  BY DEF WorkerFail, UpdateStatus
<1>2. worker'.pc = "idle" /\ worker'.copy = Blank
  BY <1>1 DEF IdleWorker
<1>3. OneBaton /\ Linking /\ Calls /\ Standing /\ AllBacked
  BY DEF Order
<1>4. row \in Copies /\ user'.copy \in Copies
  BY <1>1 DEF Copies
<1>5. row \in Rows /\ Fits(row) /\ Known(row)
  BY <1>4, OpenCopies
<1>6. /\ row'.stage = row.stage /\ row'.rec = row.rec /\ row'.link = row.link
      /\ row'.result = row.result /\ row'.status = "FAILED"
  BY <1>1, <1>5 DEF Rows
<1>7. row.rec \notin Verdicts
  <2>1. ~(Handed /\ runs[created].stage = PAPER_TRADE)
    <3>1. CASE worker.pc = "create"
      BY <1>3, <3>1 DEF OneBaton, Baton, Handed
    <3>2. CASE worker.pc = "link"
      BY <1>3, <3>2 DEF Linking, Handed
    <3> QED BY <1>1, <3>1, <3>2
  <2> QED BY <1>5, <2>1 DEF Fits
<1>8. /\ Handed' = Handed /\ Front' = Front
      /\ \A r \in RunIds : Event(r)' = Event(r)
  BY <1>1, <1>6, SameEverything
<1>9. Baton' => Baton
  BY <1>1, <1>2, <1>8 DEF Baton
<1>10. OneBaton'
  <2> HIDE DEF Baton, Handed, Front
  <2> QED BY <1>1, <1>2, <1>3, <1>8, <1>9 DEF OneBaton
<1>11. Linking'
  BY <1>2 DEF Linking
<1>12. Calls'
  BY <1>1, <1>2, <1>3, <1>6 DEF Calls, Unstarted
<1>13. FailedNotDeploy'
  BY <1>6, <1>7 DEF FailedNotDeploy, Verdicts
<1>14. Top' = Top
  BY <1>1, <1>8 DEF Top
<1>15. (Fits(row) /\ Known(row))'
  BY <1>1, <1>2, <1>5, <1>6, <1>7, <1>14 DEF Fits, Known, Backed, Satisfied
<1> QED BY <1>1, <1>2, <1>4, <1>6, <1>10, <1>11, <1>12, <1>13, <1>15, QueueStep
\* startOptimization, createBacktest or startFromPipeline.
LEMMA StepWorkerCreate ==
  ASSUME TypeOK, TypeOK', Order, WorkerCreate
  PROVE  Order'
<1> DEFINE n == created + 1
<1>1. /\ worker.pc = "create" /\ worker.stage # DONE /\ created < MaxRuns /\ created' = n
      /\ SetRun(n, [stage |-> worker.stage, status |-> "active", alive |-> TRUE, outcome |-> "none"])
      /\ worker' = [worker EXCEPT !.pc = "link", !.run = n]
      /\ UNCHANGED <<row, jobs, handler, user>>
  BY DEF WorkerCreate
<1>2. Sequential /\ OneBaton /\ Calls /\ Links /\ Standing /\ AllBacked /\ Failures
  BY DEF Order
<1>3. created \in Nat /\ MaxRuns \in Nat /\ runs \in [RunIds -> Runs]
  BY Types
<1>4. n \in RunIds /\ n # NoRun /\ \A r \in RunIds : r \in Nat
  BY <1>1, <1>3 DEF RunIds, NoRun
<1>5. /\ \A r \in RunIds : r # n => runs'[r] = runs[r]
      /\ runs'[n].stage = worker.stage /\ runs'[n].status = "active" /\ runs'[n].outcome = "none"
  BY <1>1, <1>3, <1>4 DEF SetRun
<1>6. /\ worker'.pc = "link" /\ worker'.run = n /\ worker'.stage = worker.stage
      /\ worker'.copy = worker.copy
  BY <1>1 DEF TypeOK
<1>7. Baton
  BY <1>1 DEF Baton
<1>8. /\ jobs = {} /\ worker.stage = Front /\ worker.copy.stage = Front
      /\ worker.copy.status = "RUNNING" /\ user.pc # "enqueue"
      /\ \A r \in RunIds : Event(r).pc # "enqueue"
      /\ created # NoRun => Handed /\ runs[created].stage # PAPER_TRADE
  BY <1>1, <1>2, <1>7 DEF OneBaton
<1>9. \A r \in RunIds : Event(r)' = Event(r)
  BY <1>1 DEF Event
<1>10. \A r \in RunIds : r > created \/ Event(r).pc = "over"
  <2>1. ASSUME NEW r \in RunIds, ~(r > created) PROVE Event(r).pc = "over"
    <3>1. r < created \/ r = created
      BY <1>3, <1>4, <2>1
    <3>2. created \in RunIds => created # NoRun
      BY Types
    <3> QED BY <1>2, <1>8, <2>1, <3>1, <3>2 DEF Sequential, Handed
  <2> QED BY <2>1
<1>11. Event(n).pc = "none" /\ \A r \in RunIds : r > n => Event(r).pc = "none"
  BY <1>2, <1>3, <1>4 DEF Sequential
<1>12. \A r \in RunIds : r < n => Event(r).pc = "over"
  BY <1>3, <1>4, <1>10
<1> HIDE DEF n
<1>13. Event(created)' = Event(n)
  BY <1>1, <1>4, <1>9
<1>14. ~Handed'
  BY <1>11, <1>13 DEF Handed
<1>15. Top = Front /\ Top' = Front
  <2>1. Top = Front
    BY <1>8 DEF Top
  <2>2. runs'[created'].stage = Front
    BY <1>1, <1>5, <1>8
  <2>3. Top' = runs'[created'].stage
    BY <1>1, <1>4, <1>14 DEF Top
  <2> QED BY <2>1, <2>2, <2>3
<1>16. ~Baton'
  BY <1>1, <1>6, <1>8, <1>9 DEF Baton
<1>17. Sequential'
  <2>1. \A r \in RunIds : Event(r).pc # "none" => r # n
    BY <1>11
  <2> QED BY <1>1, <1>2, <1>5, <1>9, <1>11, <1>12, <2>1 DEF Sequential
<1>18. OneBaton'
  BY <1>1, <1>6, <1>8, <1>9, <1>16 DEF OneBaton
<1>19. Linking'
  BY <1>1, <1>4, <1>5, <1>6, <1>8, <1>11, <1>13 DEF Linking
<1>20. Calls'
  BY <1>1, <1>2, <1>4 DEF Calls, Unstarted
<1>21. Links' /\ \A c \in Copies' : Fits(c)'
  <2>1. Copies' \subseteq Copies \cup {Blank, row'}
    BY <1>1, <1>6 DEF Copies
  <2>2. Top' >= Top /\ created' > created /\ created' >= created
    <3>1. Front \in 1 .. 5
      BY TopTypes
    <3> QED BY <1>1, <1>3, <1>15, <3>1 DEF n
  <2>3. ~(Handed /\ runs[created].stage = PAPER_TRADE)
    BY <1>8 DEF Handed
  <2>4. row' \in Copies /\ created' # NoRun
    BY <1>1, <1>4 DEF Copies
  <2> QED BY <1>2, <2>1, <2>2, <2>3, <2>4, CopiesKept
<1>22. AllBacked'
  BY <1>1, <1>2, <1>21 DEF AllBacked, Fits, FailedNotDeploy
<1>23. Standing'
  <2>1. row'.status = "RUNNING" =>
          /\ created' # NoRun /\ ~Handed' => row'.stage = runs'[created'].stage
          /\ Baton' => row'.stage = Front'
    <3>1. row.status = "RUNNING" => row.stage = Front
      BY <1>2, <1>7 DEF Standing
    <3> QED BY <1>1, <1>5, <1>8, <1>16, <3>1
  <2>2. \A r \in RunIds : Event(r)'.pc \in {"store", "decide"} => runs'[r] = runs[r]
    BY <1>5, <1>9, <1>11
  <2> QED BY <1>2, <1>9, <2>1, <2>2 DEF Standing, GatePassed
<1>24. Failures'
  <2>1. \A r \in RunIds : r > n => r > created
    BY <1>3, <1>4 DEF n
  <2> QED BY <1>1, <1>2, <2>1 DEF Failures
<1> QED BY <1>17, <1>18, <1>19, <1>20, <1>21, <1>22, <1>23, <1>24 DEF Order

LEMMA StepUserStart ==
  ASSUME TypeOK, TypeOK', Order, UserSave, user.op # "pause"
  PROVE  Order'
<1>1. user.pc = "save" /\ user.op = "start" /\ Unstarted /\ user.copy.status \notin Terminal
  BY DEF UserSave, Order, Calls
<1>2. /\ UNCHANGED <<jobs, worker, runs, created, handler>>
      /\ row' = [user.copy EXCEPT !.status = "RUNNING"]
      /\ user'.copy = row' /\ user'.pc = "enqueue"
  BY <1>1 DEF UserSave, TypeOK
<1>3. created = NoRun /\ jobs = {} /\ worker.pc = "idle" /\ user.copy.stage = row.stage
  BY <1>1 DEF Unstarted, Order, Calls
<1>4. user.copy \in Copies /\ worker.copy \in Copies
  BY DEF Copies
<1>5. /\ user.copy \in Rows /\ Fits(user.copy) /\ Known(user.copy)
      /\ user.copy.rec \notin Verdicts
  BY <1>1, <1>4, OpenCopies
<1>6. /\ row'.stage = user.copy.stage /\ row'.rec = user.copy.rec /\ row'.link = user.copy.link
      /\ row'.result = user.copy.result /\ row'.status = "RUNNING"
  BY <1>2, <1>5 DEF Rows
<1>7. /\ Handed' = Handed /\ Front' = Front
      /\ \A r \in RunIds : Event(r)' = Event(r)
  BY <1>2, <1>3, <1>6, SameEverything
<1>8. Top' = Top /\ Front = row.stage
  <2>1. Top' = Front' /\ Top = Front
    BY <1>2, <1>3 DEF Top
  <2>2. Front = row.stage
    BY <1>3 DEF Front
  <2> QED BY <1>7, <2>1, <2>2
<1>9. \A r \in RunIds : Event(r).pc # "enqueue"
  BY <1>3, Types DEF Order, OneBaton
<1>10. OneBaton'
  BY <1>2, <1>3, <1>7, <1>9 DEF OneBaton
<1>11. Linking'
  BY <1>2, <1>3 DEF Linking
<1>12. Calls'
  BY <1>2, <1>6 DEF Calls
<1>13. (Fits(row) /\ Known(row))'
  BY <1>2, <1>3, <1>5, <1>6, <1>8 DEF Fits, Known, Backed, Satisfied
<1>14. FailedNotDeploy'
  BY <1>6 DEF FailedNotDeploy
<1> QED BY <1>2, <1>3, <1>4, <1>6, <1>8, <1>10, <1>11, <1>12, <1>13, <1>14, QueueStep

LEMMA StepUserEnqueue ==
  ASSUME TypeOK, TypeOK', Order, UserEnqueue
  PROVE  Order'
<1>1. /\ user.pc = "enqueue" /\ jobs' = jobs \cup {user.copy.stage} /\ user' = IdleUser
      /\ UNCHANGED <<row, worker, runs, created, handler>>
  BY DEF UserEnqueue, enqueueStageJob
<1>2. OneBaton /\ Calls /\ Standing /\ AllBacked
  BY DEF Order
<1>3. /\ created = NoRun /\ jobs = {} /\ worker.pc = "idle" /\ user.copy.stage = row.stage
      /\ row.status # "PENDING"
  BY <1>1, <1>2 DEF OneBaton, Calls, Unstarted
<1>4. user'.pc = "idle" /\ user'.copy = Blank
  BY <1>1 DEF IdleUser
<1>5. /\ Handed' = Handed /\ Front' = Front
      /\ \A r \in RunIds : Event(r)' = Event(r)
  BY <1>1, SameEverything
<1>6. Front = row.stage /\ Baton
  BY <1>1, <1>3 DEF Front, Baton
<1>7. \A r \in RunIds : Event(r).pc # "enqueue"
  BY <1>2, <1>3, Types DEF OneBaton
<1>8. OneBaton'
  BY <1>1, <1>3, <1>4, <1>5, <1>6, <1>7 DEF OneBaton
<1>9. Linking'
  BY <1>1, <1>3 DEF Linking
<1>10. Calls'
  BY <1>1, <1>3, <1>4 DEF Calls
<1>11. row' \in Copies /\ worker'.copy \in Copies
  BY <1>1 DEF Copies
<1>12. FailedNotDeploy'
  BY <1>1, <1>2 DEF AllBacked, FailedNotDeploy
<1> QED BY <1>1, <1>3, <1>4, <1>6, <1>8, <1>9, <1>10, <1>11, <1>12, QueueStep

\* removeStageJob.
LEMMA StepUserUnqueue ==
  ASSUME TypeOK, TypeOK', Order, UserUnqueue
  PROVE  Order'
<1>1. /\ jobs' \subseteq jobs /\ user' = IdleUser
      /\ UNCHANGED <<row, worker, runs, created, handler>>
  BY DEF UserUnqueue
<1>2. OneBaton /\ Linking /\ Calls /\ Standing /\ AllBacked
  BY DEF Order
<1>3. user'.pc = "idle" /\ user'.copy = Blank
  BY <1>1 DEF IdleUser
<1>4. /\ Handed' = Handed /\ Front' = Front
      /\ \A r \in RunIds : Event(r)' = Event(r)
  BY <1>1, SameEverything
<1>5. Baton' => Baton
  BY <1>1, <1>3, <1>4 DEF Baton
<1>6. OneBaton'
  <2>1. jobs = {} => jobs' = {}
    BY <1>1
  <2> HIDE DEF Baton, Handed, Front
  <2> QED BY <1>1, <1>2, <1>3, <1>4, <1>5, <2>1 DEF OneBaton
<1>7. Linking'
  BY <1>1, <1>2, <1>4, Types DEF Linking
<1>8. Calls'
  <2>1. jobs = {} => jobs' = {}
    BY <1>1
  <2> QED BY <1>1, <1>2, <1>3, <2>1 DEF Calls, Unstarted
<1>9. row' \in Copies /\ worker'.copy \in Copies
  BY <1>1 DEF Copies
<1>10. FailedNotDeploy'
  BY <1>1, <1>2 DEF AllBacked, FailedNotDeploy
<1>11. row'.status = "RUNNING" =>
         /\ created # NoRun /\ ~Handed => row'.stage = runs[created].stage
         /\ Baton' => row'.stage = Front
  BY <1>1, <1>2, <1>5 DEF Standing
<1> QED BY <1>1, <1>3, <1>6, <1>7, <1>8, <1>9, <1>10, <1>11, QueueStep
-----------------------------------------------------------------------------
(* The theorems.                                                           *)

\* Order holds of a pipeline just created.
LEMMA OrderInit == Init => Order
<1> SUFFICES ASSUME Init PROVE Order
  OBVIOUS
<1>t. TypeOK
  BY TypeInit DEF TypeInv
<1>1. /\ jobs = {} /\ worker.pc = "idle" /\ worker.copy = Blank /\ created = NoRun
      /\ user.pc = "idle" /\ user.copy = Blank
      /\ \A k \in Kinds, r \in RunIds : handler[k][r].pc = "none" /\ handler[k][r].copy = Blank
      /\ \A r \in RunIds : runs[r].outcome = "none"
  BY DEF Init, IdleWorker, IdleUser, NewHandler, NoRun
<1>2. /\ \A r \in RunIds : Event(r).pc = "none" /\ r # NoRun /\ ~(r < created)
      /\ \A r \in RunIds : handler["failed"][r].pc = "none"
  BY <1>1, <1>t, Types DEF Event, Kinds
<1>3. PICK s \in FirstStages :
        row = [Blank EXCEPT !.stage = s,
                 !.result[OPTIMIZE] = IF s = OPTIMIZE THEN "none" ELSE "skipped"]
  BY DEF Init
<1>4. s \in {1, 2}
  BY ConstantsAssumption, StageValues
<1>5. /\ row.stage = s /\ row.status = "PENDING" /\ row.rec = "none" /\ row.link = Blank.link
      /\ s = 2 => row.result[OPTIMIZE] = "skipped"
  BY <1>3, <1>4, StageValues DEF Blank
<1>6. Backed(row)
  <2>1. \A t \in Stages : t < s => t = OPTIMIZE /\ s = 2
    BY <1>4, StageValues
  <2> QED BY <1>5, <2>1 DEF Backed, Satisfied
<1>7. Top = s /\ Front = s /\ ~Handed /\ ~Baton
  BY <1>1, <1>2, <1>5 DEF Top, Front, Handed, Baton
<1>8. \A c \in Copies : c = row \/ c = Blank
  BY <1>1 DEF Copies
<1>9. Fits(row) /\ Known(row)
  <2>1. s <= s
    BY <1>4
  <2>2. \A t \in Stages : row.link[t] = NoRun /\ NoRun <= created
    BY <1>1, <1>5 DEF Blank, NoRun
  <2> QED BY <1>1, <1>5, <1>6, <1>7, <2>1, <2>2 DEF Fits, Known, Verdicts
<1>10. Fits(Blank) /\ Known(Blank)
  BY <1>1, <1>4, <1>7, BlankBacked DEF Fits, Known, Verdicts, NoRun
<1>11. AllBacked
  BY <1>5, <1>8, <1>9, <1>10, FitsAll DEF FailedNotDeploy
<1>12. Links
  BY <1>8, <1>9, <1>10, KnownAll
<1>13. Sequential
  BY <1>1, <1>2 DEF Sequential
<1>14. OneBaton /\ Linking /\ Standing /\ Failures
  BY <1>1, <1>2, <1>5, <1>7 DEF OneBaton, Linking, Standing, Failures
<1>15. Calls
  BY <1>1 DEF Calls, Unstarted
<1> QED BY <1>11, <1>12, <1>13, <1>14, <1>15 DEF Order

\* Every step keeps Order, as long as nobody restarts, resumes or skips and
\* the server stays up.
LEMMA OrderNext ==
  ASSUME Quiet PROVE TypeOK /\ TypeOK' /\ RunsSettle /\ Order /\ [Next]_vars => Order'
<1> SUFFICES ASSUME TypeOK, TypeOK', RunsSettle, Order, [Next]_vars PROVE Order'
  OBVIOUS
<1>1. CASE WorkerStep \/ WorkerFail
  BY <1>1, StepWorkerRead, StepWorkerCreate, StepWorkerLink, StepWorkerAck, StepWorkerFail
     DEF WorkerStep
<1>2. ASSUME NEW r \in RunIds, CompleteStep(r) PROVE Order'
  <2>1. ~CompleteFinish(r)
    BY DEF CompleteFinish, Order, Sequential, Event
  <2> QED BY <1>2, <2>1, StepCompleteFind, StepCompleteStore, StepCompleteRefuse,
             StepCompleteDefer, StepCompleteAdvance, StepCompleteEnqueue DEF CompleteStep
<1>3. ASSUME NEW r \in RunIds, FailedStep(r) PROVE Order'
  BY <1>3, StepFailedFind, StepFailedSave DEF FailedStep
<1>4. ASSUME NEW r \in RunIds, RunStep(r) PROVE Order'
  BY <1>4, StepRun, StepRunFinish, StepNotify DEF RunStep
<1>5. CASE UserStart
  BY <1>5, StepUserRead DEF UserStart
<1>6. CASE \E op \in UserOps : UserCall(op)
  BY <1>6, StepUserRead DEF UserCall, Quiet
<1>7. CASE UserStep
  <2>1. ~UserResumeStage /\ ~UserAdvance /\ ~UserComplete
    BY DEF UserResumeStage, UserAdvance, UserComplete, Order, Calls
  <2>2. CASE UserSave
    BY <2>2, StepUserSaves, StepUserStart
  <2>3. CASE UserPauseStage \/ UserCancelStageThrows
    BY <2>3, StepUserStage DEF UserPauseStage, UserCancelStageThrows
  <2>4. CASE UserCancelStage
    BY <2>4, StepUserStage, StepUserStops
  <2> QED BY <1>7, <2>1, <2>2, <2>3, <2>4, StepUserSaves, StepUserEnqueue,
             StepUserEnqueueFails, StepUserUnqueue DEF UserStep
<1>8. CASE WatchdogStep
  BY <1>8, StepWatchdog
<1>9. CASE Crash
  <2>1. crashes \in 0 .. 0 /\ crashes < 0
    BY <1>9 DEF Crash, Quiet, TypeOK
  <2> QED BY <2>1
<1>10. CASE UNCHANGED vars
  <2>1. UNCHANGED <<row, jobs, worker, runs, created, handler, user>>
    BY <1>10 DEF vars
  <2>2. SameRunsAndEvents
    BY <2>1 DEF SameRunsAndEvents, SameRun, Event
  <2>3. Copies' \subseteq Copies \cup {Blank, row'}
    BY <2>1 DEF Copies
  <2>4. Calls' /\ Failures'
    BY <2>1, CallsKept, FailuresKept DEF Order
  <2>5. FailedNotDeploy'
    BY <2>1 DEF Order, AllBacked, FailedNotDeploy
  <2> QED BY <2>1, <2>2, <2>3, <2>4, <2>5, SteadyStep
<1> QED BY <1>1, <1>2, <1>3, <1>4, <1>5, <1>6, <1>7, <1>8, <1>9, <1>10 DEF Next

\* The run that works belongs to the stage the pipeline stands at.
LEMMA OneRun ==
  ASSUME TypeOK, RunsSettle, Order
  PROVE  OneRunOfCurrentStage
<1>1. ASSUME NEW r \in RunIds, runs[r].status = "active"
      PROVE  r = created /\ created # NoRun /\ ~Handed
  <2>1. ~(r > created)
    BY <1>1 DEF RunsSettle
  <2>2. Event(r).pc = "none"
    BY <1>1 DEF Order, Sequential
  <2> QED BY <2>1, <2>2, EventToCome
<1>2. row.status = "RUNNING" /\ created # NoRun /\ ~Handed => row.stage = runs[created].stage
  BY DEF Order, Standing
<1> QED BY <1>1, <1>2 DEF OneRunOfCurrentStage

\* Order and the types hold throughout.
LEMMA OrderAlways ==
  ASSUME Quiet PROVE Spec => [](TypeOK /\ RunsSettle /\ Order)
<1>1. Evidence => TypeOK /\ RunsSettle
  BY DEF Evidence, TypeInv
<1>2. Init => Evidence /\ Order
  BY EvidenceInit, OrderInit
<1>3. Evidence /\ Order /\ [Next]_vars => (Evidence /\ Order)'
  <2>1. Evidence' => TypeOK'
    BY DEF Evidence, TypeInv
  <2> QED BY <1>1, <2>1, EvidenceNext, OrderNext
<1> QED BY <1>1, <1>2, <1>3, PTL DEF Spec

\* Pause and cancel may come between any two steps, runs may be arbitrarily
\* fast or wrongly declared dead, and entities are saved over one another, yet
\* the row stands at a stage only if every stage before it passed its gate
\* (handle...Completion, advanceToNextStage).
THEOREM StagesAreBacked == ASSUME Quiet PROVE Spec => []EvidenceBacked
<1>1. Order => EvidenceBacked
  <2>1. row \in Copies
    BY DEF Copies
  <2> QED BY <2>1 DEF Order, AllBacked, Backed, EvidenceBacked
<1> QED BY <1>1, OrderAlways, PTL

\* Under the same conditions a recommendation to deploy or to review rests on
\* all four stages (completePipeline, generateRecommendation).
THEOREM VerdictsAreBacked == ASSUME Quiet PROVE Spec => []VerdictBacked
<1>1. Order => VerdictBacked
  <2>1. row \in Copies
    BY DEF Copies
  <2> QED BY <2>1 DEF Order, AllBacked, Backed, VerdictBacked
<1> QED BY <1>1, OrderAlways, PTL

\* ... and no FAILED pipeline is recommended, though the catch block of the
\* worker and the watchdog write the status column over whatever is there.
THEOREM FailedIsNotDeploy == ASSUME Quiet PROVE Spec => []FailedNotDeploy
<1>1. Order => FailedNotDeploy
  BY DEF Order, AllBacked
<1> QED BY <1>1, OrderAlways, PTL

\* ... and while the pipeline is RUNNING at most one downstream run is active,
\* a run of the current stage: jobs, handlers and the first start never begin
\* two.
THEOREM OneRunAtATime == ASSUME Quiet PROVE Spec => []OneRunOfCurrentStage
<1>1. TypeOK /\ RunsSettle /\ Order => OneRunOfCurrentStage
  BY OneRun
<1> QED BY <1>1, OrderAlways, PTL
-----------------------------------------------------------------------------
(***************************************************************************)
(* A paused pipeline stands still.  Two saves write PAUSED: that of        *)
(* pausePipeline, which read the row RUNNING, and that of a handler that   *)
(* read it PAUSED.  The first never meets a paused row, and the second     *)
(* finds the row as it left it, or over.                                   *)
(***************************************************************************)
Saving == user.pc = "save" /\ user.op = "pause"

Holds(r) ==
  Event(r).pc = "store" /\ Event(r).copy.status = "PAUSED" =>
    /\ ~Saving
    /\ row.status \in Terminal \/ (row.status = "PAUSED" /\ row.stage = Event(r).copy.stage)

Pausing == (Saving => row.status # "PAUSED") /\ \A r \in RunIds : Holds(r)

\* What a step may do to the row and to a call of pausePipeline.
Still ==
  \/ row' = row
  \/ row'.status \in Terminal
  \/ row'.status = "RUNNING" /\ \A r \in RunIds : Event(r)'.pc # "store"
  \/ row'.status = "PAUSED" /\ ~Saving' /\ Saving /\ \A r \in RunIds : Event(r)' = Event(r)
  \/ /\ row'.status = "PAUSED" /\ UNCHANGED user
     /\ \E r \in RunIds : Event(r).pc = "store" /\ Event(r).copy.status = "PAUSED"
                          /\ row'.stage = Event(r).copy.stage
     /\ \A r \in RunIds : Event(r)'.pc # "store"

LEMMA StillHolds ==
  ASSUME Pausing, Still,
         Saving' /\ ~Saving => row.status = "RUNNING" /\ row' = row,
         \A r \in RunIds : Event(r)'.pc = "store" =>
           Event(r)' = Event(r) \/ (Event(r)'.copy = row /\ row' = row /\ UNCHANGED user)
  PROVE  Pausing' /\ (row.status = "PAUSED" /\ row'.status = "PAUSED" => row'.stage = row.stage)
<1>t. Terminal = {"COMPLETED", "FAILED", "CANCELLED", "REJECTED"}
  BY DEF Terminal
<1>1. row.status = "PAUSED" /\ row'.status = "PAUSED" => row'.stage = row.stage
  BY <1>t DEF Still, Pausing, Holds
<1>2. Saving' => row'.status # "PAUSED"
  <2>1. CASE Saving
    BY <1>t, <2>1 DEF Still, Pausing, Holds
  <2>2. CASE ~Saving
    BY <2>2
  <2> QED BY <2>1, <2>2
<1>3. ASSUME NEW r \in RunIds, Event(r)'.pc = "store", Event(r)'.copy.status = "PAUSED"
      PROVE  ~Saving' /\ (row'.status \in Terminal \/ (row'.status = "PAUSED" /\ row'.stage = Event(r)'.copy.stage))
  <2>1. CASE Event(r)' = Event(r)
    BY <1>t, <1>3, <2>1 DEF Still, Pausing, Holds
  <2>2. CASE Event(r)'.copy = row /\ row' = row /\ UNCHANGED user
    BY <1>3, <2>2 DEF Pausing, Saving
  <2> QED BY <1>3, <2>1, <2>2
<1> QED BY <1>1, <1>2, <1>3 DEF Pausing, Holds

\* The three things StillHolds asks of a step.
Calm ==
  /\ Still
  /\ Saving' /\ ~Saving => row.status = "RUNNING" /\ row' = row
  /\ \A r \in RunIds : Event(r)'.pc = "store" =>
       Event(r)' = Event(r) \/ (Event(r)'.copy = row /\ row' = row /\ UNCHANGED user)

\* An event at "store" is the only one in progress.
LEMMA OneStore ==
  ASSUME TypeOK, Order, NEW r \in RunIds, Event(r).pc \in {"store", "decide"}
  PROVE  \A q \in RunIds : q # r => Event(q).pc # "store"
<1>1. \A q \in RunIds : Event(q).pc = "store" => q = created
  BY EventInProgress
<1>2. r = created
  BY EventInProgress
<1> QED BY <1>1, <1>2

LEMMA CalmHandlers ==
  ASSUME TypeOK, Order, NEW r \in RunIds, CompleteStep(r) \/ FailedStep(r)
  PROVE  Calm
<1>u. UNCHANGED user
  BY DEF CompleteStep, FailedStep, CompleteFind, CompleteStore, CompleteRefuse, CompleteDefer,
         CompleteAdvance, CompleteEnqueue, CompleteFinish, FailedFind, FailedSave
<1>s. Saving' = Saving
  BY <1>u DEF Saving
<1>t. Terminal = {"COMPLETED", "FAILED", "CANCELLED", "REJECTED"}
  BY DEF Terminal
<1>o. Over.pc = "over"
  BY DEF Over
<1>1. CASE CompleteFind(r)
  <2>1. PICK h : SetHandler(r, "completed", h) /\ (h = Over \/ h.copy = row)
    BY <1>1 DEF CompleteFind
  <2>2. \A q \in RunIds : Event(q)' = IF q = r THEN h ELSE Event(q)
    BY <2>1, EventSet
  <2>3. row' = row
    BY <1>1 DEF CompleteFind
  <2> QED BY <1>u, <1>s, <1>o, <2>1, <2>2, <2>3 DEF Calm, Still
<1>2. CASE CompleteStore(r)
  <2> DEFINE c == Event(r).copy
             d == StoreResult(c, r)
             h == [pc |-> "decide", copy |-> d]
  <2>1. Event(r).pc = "store" /\ row' = d /\ SetHandler(r, "completed", h)
    BY <1>2 DEF CompleteStore, Event
  <2>2. c \in Rows /\ c.status # "PENDING"
    BY <2>1, Deciding
  <2>3. d.status = c.status /\ d.stage = c.stage /\ c.status \in Statuses
    BY <2>2 DEF StoreResult, Rows
  <2>4. h.pc = "decide"
    OBVIOUS
  <2> HIDE DEF h, d
  <2>5. \A q \in RunIds : Event(q)' = IF q = r THEN h ELSE Event(q)
    BY <2>1, EventSet
  <2>6. \A q \in RunIds : Event(q)'.pc # "store"
    BY <2>1, <2>4, <2>5, OneStore
  <2>7. Still
    BY <1>u, <2>1, <2>2, <2>3, <2>6 DEF Still, Statuses, Active
  <2> QED BY <1>s, <2>6, <2>7 DEF Calm
<1>3. CASE CompleteRefuse(r) \/ CompleteDefer(r) \/ CompleteAdvance(r)
  <2>1. Event(r).pc = "decide"
    BY <1>3 DEF CompleteRefuse, CompleteDefer, CompleteAdvance, Event
  <2> DEFINE c == Event(r).copy
  <2>2. c \in Rows
    BY <2>1, Deciding
  <2>3. \E h : SetHandler(r, "completed", h) /\ h.pc # "store"
    <3>1. CASE CompleteRefuse(r) \/ CompleteDefer(r)
      BY <1>o, <3>1 DEF CompleteRefuse, CompleteDefer
    <3>2. CASE CompleteAdvance(r)
      <4>1. \A n : LET h == [pc |-> AfterAdvance(n), copy |-> n] IN h.pc # "store"
        BY DEF AfterAdvance
      <4> QED BY <1>o, <3>2, <4>1 DEF CompleteAdvance
    <3> QED BY <1>3, <3>1, <3>2
  <2>4. \A q \in RunIds : Event(q)'.pc # "store"
    BY <2>1, <2>3, EventSet, OneStore
  <2>5. row' = row \/ row'.status \in Terminal \/ row'.status = "RUNNING"
    <3>1. CASE CompleteRefuse(r)
      BY <1>t, <2>2, <3>1 DEF CompleteRefuse, markInconclusiveAndComplete, rejectPipeline, Rows, Event
    <3>2. CASE CompleteDefer(r)
      BY <3>2 DEF CompleteDefer
    <3>3. CASE CompleteAdvance(r)
      <4>1. c.status = "RUNNING"
        BY <3>3 DEF CompleteAdvance, MayAdvance, Event
      <4>2. completePipeline(c).status = "COMPLETED" /\ advanceToNextStage(c).status = "RUNNING"
        BY <2>2, <4>1 DEF completePipeline, advanceToNextStage, Rows
      <4>3. row' \in {row, completePipeline(c), advanceToNextStage(c)}
        BY <3>3 DEF CompleteAdvance, Event
      <4> QED BY <1>t, <4>2, <4>3
    <3> QED BY <1>3, <3>1, <3>2, <3>3
  <2> QED BY <1>s, <2>4, <2>5 DEF Calm, Still
<1>4. CASE CompleteEnqueue(r)
  <2>1. SetHandler(r, "completed", Over) /\ row' = row
    BY <1>4 DEF CompleteEnqueue
  <2> QED BY <1>s, <1>o, <2>1, EventSet DEF Calm, Still
<1>5. CASE CompleteFinish(r)
  BY <1>5 DEF CompleteFinish, Order, Sequential, Event
<1>6. CASE FailedFind(r)
  <2>1. row' = row /\ \A q \in RunIds : Event(q)' = Event(q)
    BY <1>6, EventsSame DEF FailedFind
  <2> QED BY <1>s, <2>1 DEF Calm, Still
<1>7. CASE FailedSave(r)
  <2>1. \A q \in RunIds : Event(q)' = Event(q)
    BY <1>7, EventsSame DEF FailedSave
  <2>2. handler["failed"][r].copy \in Rows
    BY Types DEF TypeOK, Kinds
  <2>3. row'.status = "FAILED"
    BY <1>7, <2>2 DEF FailedSave, failPipeline, Rows
  <2> QED BY <1>s, <1>t, <2>1, <2>3 DEF Calm, Still
<1> QED BY <1>1, <1>2, <1>3, <1>4, <1>5, <1>6, <1>7 DEF CompleteStep, FailedStep

LEMMA CalmOthers ==
  ASSUME TypeOK, Order, \A r \in RunIds : Event(r)'.pc = "store" => Event(r)' = Event(r),
         \/ row' = row /\ (Saving' /\ ~Saving => row.status = "RUNNING")
         \/ row'.status \in Terminal /\ (Saving' => Saving)
         \/ /\ row'.status = "RUNNING" /\ ~Saving'
            /\ UNCHANGED handler /\ (worker.pc = "link" \/ created = NoRun)
         \/ /\ row'.status = "PAUSED" /\ ~Saving' /\ Saving
            /\ \A r \in RunIds : Event(r)' = Event(r)
  PROVE  Calm
<1>1. ASSUME UNCHANGED handler, worker.pc = "link" \/ created = NoRun, NEW r \in RunIds
      PROVE  Event(r)'.pc # "store"
  <2>1. Event(r)' = Event(r)
    BY <1>1 DEF Event
  <2>2. Event(r).pc = "store" => r = created /\ created # NoRun
    BY EventInProgress
  <2> QED BY <1>1, <2>1, <2>2 DEF Order, Linking
<1> QED BY <1>1 DEF Calm, Still, Saving
LEMMA CalmNext ==
  ASSUME Quiet PROVE TypeOK /\ Order /\ [Next]_vars => Calm
<1> SUFFICES ASSUME TypeOK, Order, [Next]_vars PROVE Calm
  OBVIOUS
<1>t. Terminal = {"COMPLETED", "FAILED", "CANCELLED", "REJECTED"}
  BY DEF Terminal
<1>r. row \in Rows /\ user.copy \in Rows /\ worker.copy \in Rows /\ user \in Users
  BY Types DEF TypeOK, Users
<1>1. CASE WorkerStep \/ WorkerFail
  <2>1. UNCHANGED <<handler, user>>
    BY <1>1 DEF WorkerStep, WorkerFail, WorkerRead, WorkerCreate, WorkerLink, WorkerAck
  <2>2. Saving' = Saving /\ \A q \in RunIds : Event(q)' = Event(q)
    BY <2>1 DEF Saving, Event
  <2>3. CASE WorkerLink
    <3>1. worker.copy.status = "RUNNING" /\ worker.pc = "link"
      BY <2>3 DEF WorkerLink, Order, Linking
    <3>2. row'.status = "RUNNING"
      BY <1>r, <2>3, <3>1 DEF WorkerLink, Rows
    <3>3. \A q \in RunIds : Event(q)'.pc # "store"
      <4>1. \A q \in RunIds : Event(q).pc = "store" => q = created /\ created # NoRun
        BY EventInProgress
      <4> QED BY <2>2, <3>1, <4>1 DEF Order, Linking
    <3> QED BY <2>2, <3>2, <3>3 DEF Calm, Still
  <2>4. CASE WorkerFail
    <3>1. row'.status = "FAILED"
      BY <1>r, <2>4 DEF WorkerFail, UpdateStatus, Rows
    <3> QED BY <1>t, <2>2, <3>1, CalmOthers
  <2>5. CASE row' = row
    BY <2>2, <2>5, CalmOthers
  <2> QED BY <1>1, <2>3, <2>4, <2>5 DEF WorkerStep, WorkerRead, WorkerCreate, WorkerAck
<1>2. ASSUME NEW r \in RunIds, CompleteStep(r) \/ FailedStep(r) PROVE Calm
  BY <1>2, CalmHandlers
<1>3. ASSUME NEW r \in RunIds, RunStep(r) PROVE Calm
  <2>1. UNCHANGED <<row, user>>
    BY <1>3 DEF RunStep, RunFinish, RunFail, RunRetry, RunPauses, StaleKill, NotifyPipeline
  <2> DEFINE h == [pc |-> "emitted", copy |-> Blank]
  <2>2. \/ UNCHANGED handler
        \/ SetHandler(r, "completed", h) \/ SetHandler(r, "failed", h)
    BY <1>3 DEF RunStep, RunFinish, RunFail, RunRetry, RunPauses, StaleKill, NotifyPipeline, Emit
  <2>3. h.pc # "store"
    OBVIOUS
  <2> HIDE DEF h
  <2>4. \A q \in RunIds : Event(q)'.pc = "store" => Event(q)' = Event(q)
    <3>1. CASE UNCHANGED handler
      BY <3>1 DEF Event
    <3>2. CASE SetHandler(r, "completed", h)
      BY <2>3, <3>2, EventSet
    <3>3. CASE SetHandler(r, "failed", h)
      BY <3>3, EventsSame
    <3> QED BY <2>2, <3>1, <3>2, <3>3
  <2>5. Saving' = Saving
    BY <2>1 DEF Saving
  <2> QED BY <2>1, <2>4, <2>5, CalmOthers
<1>4. ASSUME NEW op, UserRead(op) PROVE Calm
  <2>1. row' = row /\ \A q \in RunIds : Event(q)' = Event(q)
    BY <1>4 DEF UserRead, Event
  <2>2. user'.op = op /\ row.status \in Accepts(op)
    BY <1>4 DEF UserRead
  <2>3. Saving' => row.status = "RUNNING"
    BY <2>2 DEF Saving, Accepts
  <2> QED BY <2>1, <2>3, CalmOthers
<1>5. CASE UserStep
  <2>1. ~UserResumeStage /\ ~UserAdvance /\ ~UserComplete
    BY DEF UserResumeStage, UserAdvance, UserComplete, Order, Calls
  <2>2. CASE UserSave
    <3>1. \A q \in RunIds : Event(q)' = Event(q)
      BY <2>2 DEF UserSave, Event
    <3>2. user'.pc \in {"stage", "enqueue"} /\ user.pc = "save"
      BY <1>r, <2>2 DEF UserSave, Users
    <3>3. CASE user.op = "pause"
      <4>1. row'.status = "PAUSED"
        BY <1>r, <2>2, <3>3 DEF UserSave, Rows
      <4> QED BY <3>1, <3>2, <3>3, <4>1, CalmOthers DEF Saving
    <3>4. CASE user.op # "pause"
      <4>1. row'.status = "RUNNING"
        BY <1>r, <2>2, <3>4 DEF UserSave, Rows
      <4>2. created = NoRun /\ UNCHANGED handler
        BY <2>2, <3>2, <3>4 DEF UserSave, Order, Calls, Unstarted
      <4> QED BY <3>1, <3>2, <4>1, <4>2, CalmOthers DEF Saving
    <3> QED BY <3>3, <3>4
  <2>3. CASE UserEnqueue \/ UserUnqueue
    <3>1. row' = row /\ \A q \in RunIds : Event(q)' = Event(q)
      BY <2>3 DEF UserEnqueue, UserUnqueue, Event
    <3>2. ~Saving'
      BY <2>3 DEF UserEnqueue, UserUnqueue, IdleUser, Saving
    <3> QED BY <3>1, <3>2, CalmOthers
  <2>4. CASE UserEnqueueFails \/ UserFinal
    <3>1. \A q \in RunIds : Event(q)' = Event(q)
      BY <2>4 DEF UserEnqueueFails, UserFinal, Event
    <3>2. ~Saving' /\ ~Saving
      BY <1>r, <2>4 DEF UserEnqueueFails, UserFinal, IdleUser, Saving, Users
    <3>3. row'.status \in Terminal
      BY <1>r, <1>t, <2>4 DEF UserEnqueueFails, UserFinal, UpdateStatus, Rows
    <3> QED BY <3>1, <3>2, <3>3, CalmOthers
  <2>5. CASE UserPauseStage \/ UserCancelStage \/ UserCancelStageThrows
    <3>1. row' = row
      BY <2>5 DEF UserPauseStage, UserCancelStage, UserCancelStageThrows
    <3>2. ~Saving'
      <4>1. user' = IdleUser \/ user' = AfterCancel
        BY <2>5 DEF UserPauseStage, UserCancelStage, UserCancelStageThrows
      <4>2. IdleUser.pc # "save" /\ AfterCancel.pc # "save"
        BY <1>r DEF IdleUser, AfterCancel, Users
      <4> QED BY <4>1, <4>2 DEF Saving
    <3> DEFINE h == [pc |-> "notify", copy |-> Blank]
    <3>3. \/ UNCHANGED handler
          \/ /\ StageRunStatus \in {"active", "paused"}
             /\ SetHandler(StageRun, "completed", h)
      BY <2>5 DEF UserPauseStage, UserCancelStage, UserCancelStageThrows
    <3>4. h.pc # "store"
      OBVIOUS
    <3> HIDE DEF h
    <3>5. \A q \in RunIds : Event(q)'.pc = "store" => Event(q)' = Event(q)
      <4>1. CASE UNCHANGED handler
        BY <4>1 DEF Event
      <4>2. CASE StageRunStatus \in {"active", "paused"} /\ SetHandler(StageRun, "completed", h)
        <5>1. PICK r \in RunIds : r = StageRun
          BY <4>2, StageRunKnown
        <5>2. SetHandler(r, "completed", h)
          BY <4>2, <5>1
        <5> QED BY <3>4, <5>2, EventSet
      <4> QED BY <3>3, <4>1, <4>2
    <3> QED BY <3>1, <3>2, <3>5, CalmOthers
  <2> QED BY <1>5, <2>1, <2>2, <2>3, <2>4, <2>5 DEF UserStep
<1>6. CASE WatchdogStep
  <2>1. UNCHANGED <<handler, user>>
    BY <1>6 DEF WatchdogStep, WatchdogFind, WatchdogUpdate
  <2>2. Saving' = Saving /\ \A q \in RunIds : Event(q)' = Event(q)
    BY <2>1 DEF Saving, Event
  <2>3. row' = row \/ row' = [row EXCEPT !.status = "FAILED"]
    BY <1>6 DEF WatchdogStep, WatchdogFind, WatchdogUpdate, UpdateStatus
  <2>4. row' = row \/ row'.status \in Terminal
    BY <1>r, <1>t, <2>3 DEF Rows
  <2> QED BY <2>2, <2>4, CalmOthers
<1>7. CASE Crash
  <2>1. crashes \in 0 .. 0 /\ crashes < 0
    BY <1>7 DEF Crash, Quiet, TypeOK
  <2> QED BY <2>1
<1>8. CASE UNCHANGED vars
  <2>1. row' = row /\ Saving' = Saving /\ \A q \in RunIds : Event(q)' = Event(q)
    BY <1>8 DEF vars, Saving, Event
  <2> QED BY <2>1, CalmOthers
<1>9. CASE UserStart \/ \E op \in UserOps : UserCall(op)
  BY <1>4, <1>9 DEF UserStart, UserCall
<1> QED BY <1>1, <1>2, <1>3, <1>5, <1>6, <1>7, <1>8, <1>9 DEF Next

\* Under the same conditions a step that finds the pipeline PAUSED and leaves
\* it PAUSED does not move its stage: handlers of runs that end during the
\* pause store their result on the row as they read it and stop there.
THEOREM PausedStandsStill == ASSUME Quiet PROVE Spec => PausedHolds
<1>1. Init => Pausing
  <2>1. ASSUME Init PROVE Pausing
    <3>1. user.pc = "idle" /\ \A r \in RunIds : Event(r).pc = "none"
      BY <2>1 DEF Init, IdleUser, NewHandler, Event, Kinds
    <3> QED BY <3>1 DEF Pausing, Saving, Holds
  <2> QED BY <2>1
<1>2. TypeOK /\ RunsSettle /\ Order /\ Pausing /\ [Next]_vars => Pausing'
  BY CalmNext, StillHolds DEF Calm
<1>3. TypeOK /\ RunsSettle /\ Order /\ Pausing /\ [Next]_vars
        => [row.status = "PAUSED" /\ row'.status = "PAUSED" => row'.stage = row.stage]_vars
  BY CalmNext, StillHolds DEF Calm
<1> QED BY <1>1, <1>2, <1>3, OrderAlways, PTL DEF Spec, PausedHolds
-----------------------------------------------------------------------------
(***************************************************************************)
(* A pipeline nobody calls after its start, and whose runs the watchdogs   *)
(* leave alone, only moves forward.  The entities saved over the row are   *)
(* then never older than its stage: while a run is under way, or its job   *)
(* is, the row stands at that run's stage without a verdict, and so did    *)
(* the copies of the worker and of the handlers.  Runs may still end       *)
(* before the worker has saved their id.                                   *)
(***************************************************************************)
LeftAlone == UserOps = {} /\ MaxCrashes = 0 /\ MaxStale = 0

Failed(r) == handler["failed"][r]
Settled   == row.status \in {"COMPLETED", "REJECTED"}

FirstCall ==
  /\ user.pc \in {"idle", "save", "enqueue"}
  /\ user.pc # "idle" => user.op = "start"
  /\ user.pc = "save" => row.status = "PENDING" /\ user.copy.stage = row.stage

\* A run whose failure is being handled does not work.
FailuresInPlace ==
  \A r \in RunIds :
    /\ Failed(r).pc \in {"emitted", "fail"} => runs[r].status = "failed" /\ ~runs[r].alive
    /\ Failed(r).pc = "fail" => Failed(r).copy.stage = runs[r].stage

EventsInPlace ==
  \A r \in RunIds : Event(r).pc \in {"store", "decide"} =>
    /\ Event(r).copy.stage = runs[r].stage
    /\ Event(r).copy.status \notin {"COMPLETED", "REJECTED"}

UnderWay == created # NoRun /\ (worker.pc = "link" \/ ~Handed)

RowInPlace ==
  /\ UnderWay => row.stage = runs[created].stage /\ ~Settled
  /\ Baton => row.stage = Front /\ ~Settled

InPlace == FirstCall /\ FailuresInPlace /\ EventsInPlace /\ RowInPlace

\* What a step may do to the row.
Onward ==
  /\ row'.stage >= row.stage
  /\ Settled => row'.status = row.status

\* A step that moves neither the stage nor the runs.
LEMMA RowStays ==
  ASSUME TypeOK, RowInPlace, row'.stage = row.stage, Settled' => Settled,
         Settled => row'.status = row.status,
         created' = created, \A r \in RunIds : runs'[r].stage = runs[r].stage,
         UnderWay' => UnderWay, Baton' => Baton
  PROVE  RowInPlace' /\ Onward
<1>1. created # NoRun => created \in RunIds
  BY Types
<1>2. created # NoRun => runs'[created].stage = runs[created].stage
  BY <1>1
<1>3. Front' = Front
  BY <1>2 DEF Front
<1>4. UnderWay => created # NoRun
  BY DEF UnderWay
<1>5. row.stage \in 1 .. 5
  BY Types, RowTypes
<1>6. Onward
  BY <1>5 DEF Onward
<1>7. RowInPlace'
  <2> HIDE DEF Baton, UnderWay, Front, Settled
  <2> QED BY <1>2, <1>3, <1>4 DEF RowInPlace
<1> QED BY <1>6, <1>7

LEMMA FirstCallStays ==
  ASSUME FirstCall, UNCHANGED user, row' = row \/ row.status # "PENDING"
  PROVE  FirstCall'
BY DEF FirstCall

\* A run that is failing is not touched.
LEMMA FailuresStay ==
  ASSUME TypeOK, FailuresInPlace,
         \/ UNCHANGED handler
         \/ \E h : \E r \in RunIds : SetHandler(r, "completed", h),
         \A r \in RunIds : runs'[r] = runs[r] \/ Failed(r).pc \notin {"emitted", "fail"}
  PROVE  FailuresInPlace'
<1>1. handler \in [Kinds -> [RunIds -> Handlers]]
  BY Types
<1>2. \A r \in RunIds : Failed(r)' = Failed(r)
  BY <1>1 DEF SetHandler, Kinds, Failed
<1> QED BY <1>2 DEF FailuresInPlace

LEMMA EventsStay ==
  ASSUME EventsInPlace,
         \A r \in RunIds : Event(r)'.pc \in {"store", "decide"} =>
           Event(r)' = Event(r) /\ runs'[r].stage = runs[r].stage
  PROVE  EventsInPlace'
BY DEF EventsInPlace
\* A failed event is that of the last run, which is under way.
LEMMA FailureInProgress ==
  ASSUME TypeOK, RunsSettle, Order, InPlace, NEW r \in RunIds, Failed(r).pc \in {"emitted", "fail"}
  PROVE  /\ r = created /\ created # NoRun /\ ~Handed /\ row.status # "PENDING"
         /\ row.stage = runs[r].stage /\ ~Settled
<1>1. runs[r].status = "failed"
  BY DEF InPlace, FailuresInPlace
<1>2. Event(r).pc = "none"
  BY <1>1 DEF Order, Sequential
<1>3. ~(r > created)
  BY <1>1 DEF RunsSettle
<1>4. r = created /\ created # NoRun /\ ~Handed /\ row.status # "PENDING"
  BY <1>2, <1>3, EventToCome
<1> QED BY <1>4 DEF InPlace, RowInPlace, UnderWay

\* The row, while an event is in progress.
LEMMA RowOfEvent ==
  ASSUME TypeOK, Order, InPlace, NEW r \in RunIds, Event(r).pc \notin {"none", "over", "enqueue"}
  PROVE  row.stage = runs[r].stage /\ ~Settled
<1>1. r = created /\ created # NoRun /\ ~Handed
  BY EventInProgress
<1> QED BY <1>1 DEF InPlace, RowInPlace, UnderWay

LEMMA OnwardWorker ==
  ASSUME TypeOK, Order, InPlace, WorkerStep \/ WorkerFail
  PROVE  InPlace' /\ Onward
<1>1. UNCHANGED <<handler, user>>
  BY DEF WorkerStep, WorkerFail, WorkerRead, WorkerCreate, WorkerLink, WorkerAck
<1>2. \A q \in RunIds : Event(q)' = Event(q) /\ Failed(q)' = Failed(q)
  BY <1>1 DEF Event, Failed
<1>3. FirstCall /\ FailuresInPlace /\ EventsInPlace /\ RowInPlace
  BY DEF InPlace
<1>w. worker.pc \in WorkerPcs /\ worker.copy \in Rows /\ row \in Rows /\ IdleWorker.pc = "idle"
  BY Types DEF IdleWorker
<1>4. CASE ~WorkerCreate
  <2>1. UNCHANGED <<runs, created>>
    BY <1>4 DEF WorkerStep, WorkerFail, WorkerRead, WorkerLink, WorkerAck
  <2>2. Handed' = Handed
    BY <1>1, <2>1 DEF Handed, Event
  <2>3. FailuresInPlace' /\ EventsInPlace'
    BY <1>1, <1>2, <1>3, <2>1, FailuresStay, EventsStay
  <2>4. worker.pc \in {"create", "link"} =>
          row.status # "PENDING" /\ ~Settled /\ (worker.pc = "link" => row.stage = worker.copy.stage)
    <3>1. worker.pc = "create" => Baton
      BY DEF Baton
    <3>2. worker.pc = "link" => UnderWay /\ worker.copy.stage = runs[created].stage
      BY DEF UnderWay, Order, Linking
    <3>3. worker.pc # "idle" => row.status # "PENDING"
      BY DEF Order, Calls, Unstarted
    <3> QED BY <1>3, <3>1, <3>2, <3>3 DEF RowInPlace
  <2>5. /\ worker'.pc = "link" => worker.pc = "link"
        /\ Baton' => Baton
    <3>1. CASE \E s \in Stages \cup {DONE} : WorkerRead(s)
      <4>1. jobs # {} /\ (worker'.pc = "create" \/ worker' = worker)
        BY <3>1 DEF WorkerRead
      <4> QED BY <4>1 DEF Baton
    <3>2. CASE WorkerLink \/ WorkerAck \/ WorkerFail
      <4>1. jobs' = jobs /\ worker'.pc \in {"ack", "idle"}
        BY <1>w, <3>2 DEF WorkerLink, WorkerAck, WorkerFail, TypeOK
      <4> QED BY <1>1, <1>2, <4>1 DEF Baton
    <3> QED BY <1>4, <3>1, <3>2 DEF WorkerStep
  <2>6. UnderWay' => UnderWay
    BY <2>1, <2>2, <2>5 DEF UnderWay
  <2>7. /\ row'.stage = row.stage
        /\ row' = row \/ (row.status # "PENDING" /\ ~Settled /\ row'.status \in {"RUNNING", "FAILED"})
    <3>1. CASE WorkerLink
      <4>1. worker.pc = "link" /\ worker.copy.status = "RUNNING"
        BY <3>1 DEF WorkerLink, Order, Linking
      <4>2. row'.stage = worker.copy.stage /\ row'.status = "RUNNING"
        BY <1>w, <3>1, <4>1 DEF WorkerLink, Rows
      <4> QED BY <2>4, <4>1, <4>2
    <3>2. CASE WorkerFail
      <4>1. worker.pc \in {"create", "link"} /\ row' = [row EXCEPT !.status = "FAILED"]
        BY <3>2 DEF WorkerFail, UpdateStatus
      <4>2. row'.stage = row.stage /\ row'.status = "FAILED"
        BY <1>w, <4>1 DEF Rows
      <4> QED BY <2>4, <4>1, <4>2
    <3>3. CASE ~WorkerLink /\ ~WorkerFail
      BY <1>4, <3>3 DEF WorkerStep, WorkerRead, WorkerAck
    <3> QED BY <3>1, <3>2, <3>3
  <2>8. FirstCall'
    BY <1>1, <1>3, <2>7, FirstCallStays
  <2>9. RowInPlace' /\ Onward
    <3>1. (Settled' => Settled) /\ (Settled => row'.status = row.status)
      BY <2>7 DEF Settled
    <3> QED BY <1>3, <2>1, <2>5, <2>6, <2>7, <3>1, RowStays
  <2> QED BY <2>3, <2>8, <2>9 DEF InPlace
<1>5. CASE WorkerCreate
  <2> DEFINE n == created + 1
  <2>1. /\ worker.pc = "create" /\ created < MaxRuns /\ created' = n
        /\ SetRun(n, [stage |-> worker.stage, status |-> "active", alive |-> TRUE, outcome |-> "none"])
        /\ worker' = [worker EXCEPT !.pc = "link", !.run = n]
        /\ UNCHANGED <<row, jobs>>
    BY <1>5 DEF WorkerCreate
  <2>2. created \in Nat /\ MaxRuns \in Nat /\ runs \in [RunIds -> Runs]
    BY Types
  <2>3. n \in RunIds /\ n > created
    BY <2>1, <2>2 DEF RunIds
  <2>4. /\ \A r \in RunIds : r # n => runs'[r] = runs[r]
        /\ runs'[n].stage = worker.stage
    BY <2>1, <2>2, <2>3 DEF SetRun
  <2>5. worker'.pc = "link"
    BY <2>1 DEF TypeOK
  <2>6. Baton
    BY <2>1 DEF Baton
  <2>7. /\ jobs = {} /\ worker.stage = Front /\ user.pc # "enqueue"
        /\ \A r \in RunIds : Event(r).pc # "enqueue"
    BY <2>1 DEF Order, OneBaton
  <2>8. row.stage = worker.stage /\ ~Settled
    BY <1>3, <2>6, <2>7 DEF RowInPlace
  <2>9. ~Baton'
    BY <1>1, <1>2, <2>1, <2>5, <2>7 DEF Baton
  <2>10. RowInPlace'
    <3>1. row'.stage = row.stage /\ ~Settled'
      BY <2>1, <2>8 DEF Settled
    <3>2. runs'[created'].stage = worker.stage
      BY <2>1, <2>4
    <3> QED BY <2>8, <2>9, <3>1, <3>2 DEF RowInPlace
  <2>11. Failed(n).pc = "none" /\ Event(n).pc = "none"
    BY <2>3 DEF Order, Failures, Sequential, Failed
  <2> HIDE DEF n
  <2>12. FailuresInPlace'
    <3>1. \A r \in RunIds : runs'[r] = runs[r] \/ Failed(r).pc \notin {"emitted", "fail"}
      BY <2>4, <2>11
    <3> QED BY <1>1, <1>3, <3>1, FailuresStay
  <2>13. EventsInPlace'
    <3>1. \A r \in RunIds : Event(r)'.pc \in {"store", "decide"} =>
            Event(r)' = Event(r) /\ runs'[r].stage = runs[r].stage
      BY <1>2, <2>4, <2>11
    <3> QED BY <1>3, <3>1, EventsStay
  <2>14. FirstCall'
    BY <1>1, <1>3, <2>1, FirstCallStays
  <2>15. row.stage \in 1 .. 5
    BY <1>w, RowTypes
  <2>16. Onward
    BY <2>1, <2>15 DEF Onward
  <2> QED BY <2>10, <2>12, <2>13, <2>14, <2>16 DEF InPlace
<1> QED BY <1>4, <1>5
\* The saves of the handlers.
LEMMA OnwardComplete ==
  ASSUME TypeOK, Order, InPlace, NEW r \in RunIds, CompleteStep(r)
  PROVE  InPlace' /\ Onward
<1>1. /\ UNCHANGED <<user, worker, runs, created>>
      /\ \E h : SetHandler(r, "completed", h)
  BY DEF CompleteStep, CompleteFind, CompleteStore, CompleteRefuse, CompleteDefer,
         CompleteAdvance, CompleteEnqueue, CompleteFinish
<1>2. PICK h : SetHandler(r, "completed", h)
  BY <1>1
<1>3. \A q \in RunIds : Event(q)' = IF q = r THEN h ELSE Event(q)
  BY <1>2, EventSet
<1>4. FirstCall /\ FailuresInPlace /\ EventsInPlace /\ RowInPlace
  BY DEF InPlace
<1>5. FailuresInPlace'
  BY <1>1, <1>4, FailuresStay
<1>6. ~CompleteFinish(r)
  BY DEF CompleteFinish, Order, Sequential, Event
<1>o. Over.pc = "over"
  BY DEF Over
<1>r. row \in Rows /\ row.stage \in 1 .. 5
  BY Types, RowTypes
<1>7. CASE CompleteEnqueue(r)
  <2>1. Event(r).pc = "enqueue" /\ row' = row /\ Event(r)' = Over
    BY <1>7, EventSet DEF CompleteEnqueue, Event
  <2>2. Handed' = Handed
    BY <1>1, <1>3, <1>o, <2>1, Types DEF Handed
  <2>3. Baton
    BY <2>1 DEF Baton
  <2>4. RowInPlace' /\ Onward
    <3>1. UnderWay' => UnderWay
      BY <1>1, <2>2 DEF UnderWay
    <3>2. (Settled' => Settled) /\ (Settled => row'.status = row.status)
      BY <2>1 DEF Settled
    <3> QED BY <1>1, <1>4, <2>1, <2>3, <3>1, <3>2, RowStays
  <2>5. EventsInPlace'
    <3>1. h.pc = "over"
      BY <1>3, <1>o, <2>1
    <3> QED BY <1>1, <1>3, <1>4, <3>1, EventsStay
  <2>6. FirstCall'
    BY <1>1, <1>4, <2>1, FirstCallStays
  <2> QED BY <1>5, <2>4, <2>5, <2>6 DEF InPlace
<1>8. CASE ~CompleteEnqueue(r)
  <2>1. Event(r).pc \in {"emitted", "store", "decide"}
    BY <1>6, <1>8 DEF CompleteStep, CompleteFind, CompleteStore, CompleteRefuse, CompleteDefer,
       CompleteAdvance, Event
  <2>2. /\ r = created /\ created # NoRun /\ ~Handed /\ ~Baton /\ Front = runs[r].stage + 1
        /\ row.status # "PENDING" /\ jobs = {} /\ worker.pc # "create" /\ user.pc # "enqueue"
        /\ \A q \in RunIds : Event(q).pc # "enqueue"
    BY <2>1, EventInProgress
  <2>3. row.stage = runs[r].stage /\ ~Settled /\ runs[r].stage \in 1 .. 4
    BY <2>1, RowOfEvent, Types
  <2>4. FirstCall'
    BY <1>1, <1>4, <2>2, FirstCallStays
  <2>5. jobs' = jobs
    BY <1>6, <1>8 DEF CompleteStep, CompleteFind, CompleteStore, CompleteRefuse, CompleteDefer,
       CompleteAdvance
  <2>6. /\ Baton' <=> h.pc = "enqueue"
        /\ Handed' <=> h.pc \in {"over", "enqueue"}
        /\ Front' = runs[r].stage + 1
    BY <1>1, <1>3, <2>2, <2>5 DEF Baton, Handed, Front
  <2>7. UnderWay' => worker.pc = "link" \/ h.pc \notin {"over", "enqueue"}
    BY <1>1, <2>6 DEF UnderWay
  <2>8. ASSUME h.pc \in {"store", "decide"} => h.copy.stage = runs[r].stage
                                              /\ h.copy.status \notin {"COMPLETED", "REJECTED"},
               row'.stage >= row.stage,
               UnderWay' => row'.stage = row.stage /\ ~Settled',
               h.pc = "enqueue" => row'.stage = runs[r].stage + 1 /\ ~Settled'
        PROVE  InPlace' /\ Onward
    <3>1. EventsInPlace'
      BY <1>1, <1>3, <1>4, <2>8 DEF EventsInPlace
    <3>2. RowInPlace'
      BY <1>1, <2>2, <2>3, <2>6, <2>8 DEF RowInPlace
    <3>3. Onward
      BY <2>3, <2>8 DEF Onward
    <3> QED BY <1>5, <2>4, <3>1, <3>2, <3>3 DEF InPlace
  <2>9. CASE CompleteFind(r)
    <3>1. row' = row /\ h.pc \in {"over", "store", "decide"} /\ (h.pc # "over" => h.copy = row)
      BY <1>o, <1>3, <2>9, EventSet DEF CompleteFind
    <3>2. ~Settled' /\ row.status \notin {"COMPLETED", "REJECTED"}
      BY <2>3, <3>1 DEF Settled
    <3> QED BY <1>r, <2>3, <2>8, <3>1, <3>2
  <2> DEFINE c == Event(r).copy
  <2>10. Event(r).pc \in {"store", "decide"} =>
           /\ c \in Rows /\ c.stage = runs[r].stage
           /\ c.status \notin {"COMPLETED", "REJECTED"} /\ worker.pc # "link"
    BY <1>4, Deciding DEF EventsInPlace
  <2>11. CASE CompleteStore(r)
    <3> DEFINE d == StoreResult(c, r)
    <3>1. Event(r).pc = "store" /\ row' = d /\ h = [pc |-> "decide", copy |-> d]
      BY <1>3, <2>11, EventSet DEF CompleteStore, Event
    <3>2. d.stage = c.stage /\ d.status = c.status
      BY <2>10, <3>1 DEF StoreResult, Rows
    <3>3. h.pc = "decide" /\ h.copy = d
      BY <3>1
    <3> HIDE DEF d
    <3>4. ~Settled'
      BY <2>10, <3>1, <3>2 DEF Settled
    <3> QED BY <1>r, <2>3, <2>8, <2>10, <3>1, <3>2, <3>3, <3>4
  <2>12. CASE CompleteRefuse(r)
    <3>1. Event(r).pc = "decide" /\ h = Over
      BY <1>3, <2>12, EventSet DEF CompleteRefuse, Event
    <3>2. row' = markInconclusiveAndComplete(c) \/ row' = rejectPipeline(c)
      BY <2>12 DEF CompleteRefuse, Event
    <3>3. row'.stage = 5 \/ row'.stage = c.stage
      BY <2>10, <3>1, <3>2, StageValues DEF markInconclusiveAndComplete, rejectPipeline, Rows
    <3>4. ~UnderWay'
      BY <1>o, <2>7, <2>10, <3>1
    <3>5. row'.stage >= row.stage
      BY <2>3, <2>10, <3>1, <3>3
    <3> QED BY <1>o, <2>8, <3>1, <3>4, <3>5
  <2>13. CASE CompleteDefer(r)
    <3>1. h = Over /\ row' = row
      BY <1>3, <2>13, EventSet DEF CompleteDefer, Event
    <3>2. ~Settled'
      BY <2>3, <3>1 DEF Settled
    <3> QED BY <1>o, <1>r, <2>8, <3>1, <3>2
  <2>14. CASE CompleteAdvance(r)
    <3>1. Event(r).pc = "decide" /\ c.status = "RUNNING"
      BY <2>14 DEF CompleteAdvance, MayAdvance, Event
    <3>2. c \in Rows /\ c.stage = runs[r].stage /\ worker.pc # "link"
      BY <2>10, <3>1
    <3>3. CASE runs[r].stage = PAPER_TRADE
      <4>1. row' = completePipeline(c) /\ h = Over
        BY <1>3, <2>14, <3>3, EventSet DEF CompleteAdvance, Event
      <4>2. row'.stage = 5
        BY <3>2, <4>1, StageValues DEF completePipeline, Rows
      <4>3. ~UnderWay'
        BY <1>o, <2>7, <3>2, <4>1
      <4>4. row'.stage >= row.stage
        BY <2>3, <4>2
      <4> QED BY <1>o, <2>8, <4>1, <4>3, <4>4
    <3>4. CASE runs[r].stage # PAPER_TRADE
      <4> DEFINE n == advanceToNextStage(c)
      <4>1. runs[r].stage \in 1 .. 3 /\ CanAdvance(c)
        BY <2>3, <3>2, <3>4, StageValues DEF CanAdvance
      <4>2. n.stage = runs[r].stage + 1 /\ n.status = "RUNNING"
        BY <3>1, <3>2 DEF advanceToNextStage, Rows
      <4>3. row' = n /\ h = [pc |-> AfterAdvance(n), copy |-> n]
        BY <1>3, <2>14, <3>4, <4>1, EventSet DEF CompleteAdvance, Event
      <4>4. AfterAdvance(n) = "enqueue"
        BY <4>1, <4>2, StageValues DEF AfterAdvance
      <4> HIDE DEF n
      <4>5. h.pc = "enqueue"
        BY <4>3, <4>4
      <4>6. ~Settled' /\ row'.stage = runs[r].stage + 1
        BY <4>2, <4>3 DEF Settled
      <4>7. ~UnderWay'
        BY <2>7, <3>2, <4>5
      <4>8. row'.stage >= row.stage
        BY <2>3, <4>6
      <4> QED BY <2>8, <4>5, <4>6, <4>7, <4>8
    <3> QED BY <3>3, <3>4
  <2> QED BY <1>6, <1>8, <2>9, <2>11, <2>12, <2>13, <2>14 DEF CompleteStep
<1> QED BY <1>7, <1>8

LEMMA FailedSet ==
  ASSUME TypeOK, NEW r \in RunIds, NEW h, SetHandler(r, "failed", h)
  PROVE  \A q \in RunIds : Failed(q)' = IF q = r THEN h ELSE Failed(q)
<1>1. handler \in [Kinds -> [RunIds -> Handlers]]
  BY Types
<1> QED BY <1>1 DEF SetHandler, Failed, Kinds

\* A failed event is handled before its run may work again.
LEMMA OnwardFailed ==
  ASSUME TypeOK, RunsSettle, Order, InPlace, NEW r \in RunIds, FailedStep(r)
  PROVE  InPlace' /\ Onward
<1>1. UNCHANGED <<user, worker, runs, created, jobs>>
  BY DEF FailedStep, FailedFind, FailedSave
<1>2. PICK h : SetHandler(r, "failed", h)
  BY DEF FailedStep, FailedFind, FailedSave
<1>3. \A q \in RunIds : Event(q)' = Event(q)
  BY <1>2, EventsSame
<1>4. \A q \in RunIds : Failed(q)' = IF q = r THEN h ELSE Failed(q)
  BY <1>2, FailedSet
<1>5. FirstCall /\ FailuresInPlace /\ EventsInPlace /\ RowInPlace
  BY DEF InPlace
<1>6. Failed(r).pc \in {"emitted", "fail"}
  BY DEF FailedStep, FailedFind, FailedSave, Failed
<1>7. row.status # "PENDING" /\ row.stage = runs[r].stage /\ ~Settled
  BY <1>6, FailureInProgress
<1>8. runs[r].status = "failed" /\ ~runs[r].alive
  BY <1>5, <1>6 DEF FailuresInPlace
<1>o. Over.pc = "over"
  BY DEF Over
<1>9. /\ row'.stage = row.stage /\ ~Settled'
      /\ h.pc = "over" \/ (h.pc = "fail" /\ h.copy = row)
  <2>1. CASE FailedFind(r)
    <3>1. row' = row /\ (h = Over \/ h = [pc |-> "fail", copy |-> row])
      BY <1>4, <2>1, FailedSet DEF FailedFind
    <3> QED BY <1>o, <1>7, <3>1 DEF Settled
  <2>2. CASE FailedSave(r)
    <3> DEFINE c == Failed(r).copy
    <3>1. row' = failPipeline(c) /\ Failed(r).pc = "fail"
      BY <2>2 DEF FailedSave, Failed
    <3>2. h = Over
      BY <1>4, <2>2, FailedSet DEF FailedSave
    <3>3. c \in Rows
      BY DEF TypeOK, Failed, Kinds
    <3>4. c.stage = runs[r].stage
      BY <1>5, <3>1 DEF FailuresInPlace
    <3>5. row'.stage = c.stage /\ row'.status = "FAILED"
      BY <3>1, <3>3 DEF failPipeline, Rows
    <3> QED BY <1>o, <1>7, <3>2, <3>4, <3>5 DEF Settled
  <2> QED BY <2>1, <2>2 DEF FailedStep
<1>10. FailuresInPlace'
  BY <1>1, <1>4, <1>5, <1>7, <1>8, <1>9 DEF FailuresInPlace
<1>11. EventsInPlace'
  BY <1>1, <1>3, <1>5, EventsStay
<1>12. FirstCall'
  BY <1>1, <1>5, <1>7, FirstCallStays
<1>13. (UnderWay' => UnderWay) /\ (Baton' => Baton)
  <2>1. Handed' = Handed
    BY <1>1, <1>3, Types DEF Handed
  <2> QED BY <1>1, <1>3, <2>1 DEF UnderWay, Baton
<1>14. RowInPlace' /\ Onward
  BY <1>1, <1>5, <1>7, <1>9, <1>13, RowStays
<1> QED BY <1>10, <1>11, <1>12, <1>14 DEF InPlace
\* The runs themselves: only the last one works, and not while its failure is
\* being handled.
LEMMA OnwardRun ==
  ASSUME LeftAlone, TypeOK, RunsSettle, Order, InPlace, NEW r \in RunIds, RunStep(r)
  PROVE  InPlace' /\ Onward
<1>1. UNCHANGED <<row, user, worker, created, jobs>>
  BY DEF RunStep, RunFinish, RunFail, RunRetry, RunPauses, StaleKill, NotifyPipeline
<1>2. FirstCall /\ FailuresInPlace /\ EventsInPlace /\ RowInPlace
  BY DEF InPlace
<1>3. ~StaleKill(r)
  <2>1. stales \in 0 .. 0 /\ ~(stales < 0)
    BY DEF LeftAlone, TypeOK
  <2> QED BY <2>1 DEF StaleKill, LeftAlone
<1>4. FirstCall'
  BY <1>1, <1>2, FirstCallStays
<1> DEFINE h == [pc |-> "emitted", copy |-> Blank]
<1>h. h.pc = "emitted"
  OBVIOUS
<1>5. /\ \A q \in RunIds : q # r => runs'[q] = runs[q]
      /\ runs'[r].stage = runs[r].stage
      /\ RunFail(r) => runs'[r].status = "failed" /\ ~runs'[r].alive
  <2>1. runs \in [RunIds -> Runs] /\ runs[r] \in Runs
    BY Types
  <2>2. CASE RunFinish(r)
    <3>1. PICK o : SetRun(r, [runs[r] EXCEPT !.status = "completed", !.alive = FALSE, !.outcome = o])
      BY <2>2 DEF RunFinish
    <3>2. runs' = [runs EXCEPT ![r] = [runs[r] EXCEPT !.status = "completed", !.alive = FALSE, !.outcome = o]]
      BY <3>1 DEF SetRun
    <3>3. runs'[r].stage = runs[r].stage /\ \A q \in RunIds : q # r => runs'[q] = runs[q]
      BY <2>1, <3>2 DEF Runs
    <3>4. runs'[r].status = "completed"
      BY <2>1, <3>2 DEF Runs
    <3>5. RunFail(r) => runs'[r].status = "failed"
      BY <2>1 DEF RunFail, SetRun, Runs
    <3> QED BY <3>3, <3>4, <3>5
  <2>3. CASE RunFail(r)
    BY <2>1, <2>3 DEF RunFail, SetRun, Runs
  <2>4. CASE ~RunFail(r) /\ (RunRetry(r) \/ RunPauses(r) \/ NotifyPipeline(r))
    BY <2>1, <2>4 DEF RunRetry, RunPauses, NotifyPipeline, SetRun, Runs
  <2> QED BY <1>3, <2>2, <2>3, <2>4 DEF RunStep
<1>6. \/ RunFail(r) /\ SetHandler(r, "failed", h)
      \/ (RunRetry(r) \/ RunPauses(r)) /\ UNCHANGED handler
      \/ (RunFinish(r) \/ NotifyPipeline(r)) /\ SetHandler(r, "completed", h)
  BY <1>3 DEF RunStep, RunFinish, RunFail, RunRetry, RunPauses, NotifyPipeline, Emit
<1> HIDE DEF h
<1>7. \A q \in RunIds :
        \/ Event(q)' = Event(q)
        \/ Event(q)'.pc = "emitted" /\ Event(q).pc \notin {"over", "enqueue"}
  <2>1. CASE RunFail(r) /\ SetHandler(r, "failed", h)
    BY <2>1, EventsSame
  <2>2. CASE UNCHANGED handler
    BY <2>2 DEF Event
  <2>3. CASE (RunFinish(r) \/ NotifyPipeline(r)) /\ SetHandler(r, "completed", h)
    <3>1. Event(r).pc \in {"none", "notify"}
      BY <2>3 DEF RunFinish, NotifyPipeline, Event
    <3> QED BY <1>h, <2>3, <3>1, EventSet
  <2> QED BY <1>6, <2>1, <2>2, <2>3
<1>8. FailuresInPlace'
  <2>1. CASE RunFail(r) /\ SetHandler(r, "failed", h)
    BY <1>h, <1>2, <1>5, <2>1, FailedSet DEF FailuresInPlace
  <2>2. CASE (RunRetry(r) \/ RunPauses(r)) /\ UNCHANGED handler
    <3>1. Failed(r).pc \notin {"emitted", "fail"}
      BY <1>2, <2>2 DEF RunRetry, RunPauses, FailuresInPlace, Failed
    <3> QED BY <1>2, <1>5, <2>2, <3>1, FailuresStay
  <2>3. CASE (RunFinish(r) \/ NotifyPipeline(r)) /\ SetHandler(r, "completed", h)
    <3>1. runs'[r] = runs[r] \/ Failed(r).pc \notin {"emitted", "fail"}
      BY <1>2, <2>3 DEF RunFinish, NotifyPipeline, Working, FailuresInPlace
    <3> QED BY <1>2, <1>5, <2>3, <3>1, FailuresStay
  <2> QED BY <1>6, <2>1, <2>2, <2>3
<1>9. \A q \in RunIds : runs'[q].stage = runs[q].stage
  BY <1>5
<1>10. EventsInPlace'
  BY <1>2, <1>7, <1>9, EventsStay
<1>11. UnderWay' => UnderWay
  BY <1>1, <1>7, Types DEF UnderWay, Handed
<1>12. Baton' => Baton
  BY <1>1, <1>7 DEF Baton
<1>13. RowInPlace' /\ Onward
  <2>1. (Settled' => Settled) /\ (Settled => row'.status = row.status)
    BY <1>1 DEF Settled
  <2> QED BY <1>1, <1>2, <1>9, <1>11, <1>12, <2>1, RowStays
<1> QED BY <1>4, <1>8, <1>10, <1>13 DEF InPlace

\* The start, the watchdog, and nothing else.
LEMMA OnwardUser ==
  ASSUME TypeOK, Order, InPlace, UserStart \/ UserStep
  PROVE  InPlace' /\ Onward
<1>1. FirstCall /\ FailuresInPlace /\ EventsInPlace /\ RowInPlace
  BY DEF InPlace
<1>2. UserStart \/ UserSave \/ UserEnqueue \/ UserEnqueueFails
  BY <1>1 DEF UserStep, FirstCall, UserPauseStage, UserResumeStage, UserCancelStage,
     UserCancelStageThrows, UserAdvance, UserComplete, UserFinal, UserUnqueue
<1>3. UNCHANGED <<worker, runs, created, handler>>
  BY <1>2 DEF UserStart, UserRead, UserSave, UserEnqueue, UserEnqueueFails
<1>4. \A q \in RunIds : Event(q)' = Event(q)
  BY <1>3 DEF Event
<1>5. FailuresInPlace' /\ EventsInPlace'
  BY <1>1, <1>3, <1>4, FailuresStay, EventsStay
<1>6. Handed' = Handed
  BY <1>3 DEF Handed, Event
<1>7. UnderWay' => UnderWay
  BY <1>3, <1>6 DEF UnderWay
<1>r. row \in Rows /\ user.copy \in Rows /\ user \in Users /\ row.stage \in 1 .. 5
  BY Types, RowTypes DEF TypeOK, Users
<1>8. CASE UserStart
  <2>1. /\ row.status = "PENDING" /\ row' = row /\ jobs' = jobs /\ user.pc = "idle"
        /\ user' = [pc |-> "save", op |-> "start", copy |-> row]
    BY <1>8 DEF UserStart, UserRead, Accepts
  <2>2. user'.pc = "save" /\ user'.op = "start" /\ user'.copy = row
    BY <2>1
  <2>3. FirstCall'
    BY <2>1, <2>2 DEF FirstCall
  <2>4. Baton' => Baton
    BY <1>3, <1>4, <2>1, <2>2 DEF Baton
  <2>5. (Settled' => Settled) /\ (Settled => row'.status = row.status)
    BY <2>1 DEF Settled
  <2> QED BY <1>1, <1>3, <1>5, <1>7, <2>1, <2>3, <2>4, <2>5, RowStays DEF InPlace
<1>9. CASE UserSave
  <2>1. user.pc = "save" /\ user.op = "start" /\ row.status = "PENDING" /\ user.copy.stage = row.stage
    BY <1>1, <1>9 DEF UserSave, FirstCall
  <2>2. created = NoRun
    BY <2>1 DEF Order, Calls, Unstarted
  <2>3. row'.stage = row.stage /\ row'.status = "RUNNING" /\ user'.pc = "enqueue" /\ user'.op = "start"
    BY <1>r, <1>9, <2>1 DEF UserSave, Rows, Users
  <2>4. ~Settled' /\ ~Settled
    BY <2>1, <2>3 DEF Settled
  <2>5. FirstCall'
    BY <2>3 DEF FirstCall
  <2>6. ~UnderWay' /\ Front' = row'.stage
    BY <1>3, <2>2 DEF UnderWay, Front
  <2>7. RowInPlace'
    BY <2>4, <2>6 DEF RowInPlace
  <2>8. Onward
    BY <1>r, <2>3, <2>4 DEF Onward
  <2> QED BY <1>5, <2>5, <2>7, <2>8 DEF InPlace
<1>10. CASE UserEnqueue \/ UserEnqueueFails
  <2>1. user.pc = "enqueue" /\ user' = IdleUser
    BY <1>10 DEF UserEnqueue, UserEnqueueFails
  <2>2. Baton
    BY <2>1 DEF Baton
  <2>3. ~Settled
    BY <1>1, <2>2 DEF RowInPlace
  <2>4. row'.stage = row.stage /\ (row' = row \/ row'.status = "FAILED")
    BY <1>r, <1>10 DEF UserEnqueue, UserEnqueueFails, UpdateStatus, Rows
  <2>5. FirstCall'
    BY <2>1 DEF FirstCall, IdleUser
  <2>6. ~Settled'
    BY <2>3, <2>4 DEF Settled
  <2> QED BY <1>1, <1>3, <1>5, <1>7, <2>2, <2>3, <2>4, <2>5, <2>6, RowStays DEF InPlace
<1> QED BY <1>2, <1>8, <1>9, <1>10

LEMMA OnwardWatchdog ==
  ASSUME TypeOK, InPlace, WatchdogStep \/ UNCHANGED vars
  PROVE  InPlace' /\ Onward
<1>1. FirstCall /\ FailuresInPlace /\ EventsInPlace /\ RowInPlace
  BY DEF InPlace
<1>2. UNCHANGED <<user, worker, runs, created, handler, jobs>>
  BY DEF WatchdogStep, WatchdogFind, WatchdogUpdate, vars
<1>3. \A q \in RunIds : Event(q)' = Event(q)
  BY <1>2 DEF Event
<1>4. \/ row' = row
      \/ row.status = "RUNNING" /\ row' = [row EXCEPT !.status = "FAILED"]
  BY DEF WatchdogStep, WatchdogFind, WatchdogUpdate, WatchdogHit, UpdateStatus, vars
<1>5. /\ row'.stage = row.stage
      /\ row' = row \/ (row.status = "RUNNING" /\ row'.status = "FAILED")
  BY <1>4, Types DEF Rows
<1>6. FirstCall'
  BY <1>1, <1>2, <1>5, FirstCallStays
<1>7. FailuresInPlace' /\ EventsInPlace'
  BY <1>1, <1>2, <1>3, FailuresStay, EventsStay
<1>8. (Settled' => Settled) /\ (Settled => row'.status = row.status)
  BY <1>5 DEF Settled
<1>9. (UnderWay' => UnderWay) /\ (Baton' => Baton)
  BY <1>2, <1>3 DEF UnderWay, Baton, Handed, Event
<1>10. RowInPlace' /\ Onward
  BY <1>1, <1>2, <1>5, <1>8, <1>9, RowStays
<1> QED BY <1>6, <1>7, <1>10 DEF InPlace

LEMMA OnwardNext ==
  ASSUME LeftAlone, TypeOK, RunsSettle, Order, InPlace, [Next]_vars
  PROVE  InPlace' /\ Onward
<1>1. ~Crash
  <2>1. crashes \in 0 .. 0 /\ ~(crashes < 0)
    BY DEF LeftAlone, TypeOK
  <2> QED BY <2>1 DEF Crash, LeftAlone
<1>2. ~\E op \in UserOps : UserCall(op)
  BY DEF LeftAlone
<1> QED BY <1>1, <1>2, OnwardWorker, OnwardComplete, OnwardFailed, OnwardRun, OnwardUser,
           OnwardWatchdog DEF Next

\* With no call after the start, no crash and no stale kill, the stage of the
\* row never decreases and a COMPLETED or REJECTED pipeline keeps its verdict,
\* though worker, handlers and watchdog still save and update the row over one
\* another and runs may end before their id is saved (executeStage,
\* handle...Completion, handle...Failed, the detectors of the watchdog).
THEOREM OnlyForward == ASSUME LeftAlone PROVE Spec => Forward
<1>1. Quiet
  BY DEF LeftAlone, Quiet
<1>2. Init => InPlace
  <2>1. SUFFICES ASSUME Init PROVE InPlace
    OBVIOUS
  <2>2. /\ user.pc = "idle" /\ created = NoRun /\ jobs = {} /\ worker.pc = "idle"
        /\ \A r \in RunIds : Event(r).pc = "none" /\ Failed(r).pc = "none"
    BY <2>1 DEF Init, IdleUser, IdleWorker, NewHandler, Event, Failed, Kinds, NoRun
  <2>3. ~Baton /\ ~UnderWay
    BY <2>2 DEF Baton, UnderWay
  <2> QED BY <2>2, <2>3 DEF InPlace, FirstCall, FailuresInPlace, EventsInPlace, RowInPlace
<1>3. Spec => [](TypeOK /\ RunsSettle /\ Order)
  BY <1>1, OrderAlways
<1>4. TypeOK /\ RunsSettle /\ Order /\ InPlace /\ [Next]_vars => InPlace'
  BY OnwardNext
<1>5. TypeOK /\ RunsSettle /\ Order /\ InPlace /\ [Next]_vars
        => [/\ row'.stage >= row.stage
            /\ row.status \in {"COMPLETED", "REJECTED"} => row'.status = row.status]_vars
  BY OnwardNext DEF Onward, Settled
<1> QED BY <1>2, <1>3, <1>4, <1>5, PTL DEF Spec, Forward
-----------------------------------------------------------------------------
(***************************************************************************)
(* A RUNNING pipeline is never abandoned.  Beyond Order this needs that    *)
(* the row, and the entity a handler is about to save, carry the id of the *)
(* last run (else its event finds nothing and is dropped), that a handler  *)
(* which defers the advancement does so for a pipeline that is really      *)
(* paused, and that a run is paused, or a job removed, only for a call     *)
(* that stopped the pipeline before.  Runs end after their id was saved:   *)
(* an event emitted before that is dropped, and the pipeline with it.      *)
(***************************************************************************)

\* A call is about to cancel the pipeline.
Calling == user.op = "cancel" /\ user.pc \in {"stage", "final"}

\* The run whose id is about to be saved still works.
LinkIsFresh ==
  worker.pc = "link" => runs[created].alive /\ runs[created].status \in {"active", "failed"}

\* Once saved, the id of the last run is on a RUNNING row until its event was
\* dealt with.
RowLinked ==
  row.status = "RUNNING" /\ created # NoRun /\ ~Handed /\ worker.pc # "link"
    => row.link[runs[created].stage] = created

CopiesLinked ==
  \A r \in RunIds : Event(r).pc \in {"store", "decide"} =>
    /\ row.status = "RUNNING" => Event(r).copy.status = "RUNNING"
    /\ Event(r).copy.status = "RUNNING" => Event(r).copy.link[runs[r].stage] = r

\* Something is still to come of the last run.
Ongoing == Working(created) \/ Failed(created).pc \in {"emitted", "fail"} \/ Calling

Awaited ==
  row.status = "RUNNING" /\ ~Baton /\ worker.pc # "link" =>
    created # NoRun /\ ~Handed /\ (Event(created).pc = "none" => Ongoing)

\* A call that cancelled the pipeline removes no job of a later stage.
UnqueuesBehind ==
  row.status = "RUNNING" /\ user.pc = "unqueue"
    => created # NoRun /\ user.copy.stage <= runs[created].stage

\* The last run is paused only with the pipeline.
PausesTogether ==
  row.status = "RUNNING" /\ created # NoRun /\ Event(created).pc = "none" =>
    /\ ~(user.pc = "stage" /\ user.op = "pause" /\ StageRun = created)
    /\ runs[created].status \notin {"pausing", "paused"}

Pursuit ==
  /\ LinkIsFresh /\ RowLinked /\ CopiesLinked /\ Awaited /\ UnqueuesBehind /\ PausesTogether

\* It is enough to look at the worker and the handlers when the pipeline does
\* not run.
LEMMA RowOff ==
  ASSUME row'.status # "RUNNING", LinkIsFresh', CopiesLinked'
  PROVE  Pursuit'
BY DEF Pursuit, RowLinked, Awaited, UnqueuesBehind, PausesTogether

\* The row is as it was, and so is the position of the last run.
LEMMA RowOn ==
  ASSUME TypeOK, Pursuit, row' = row, created' = created, Handed' = Handed,
         worker'.pc = "link" <=> worker.pc = "link",
         \A r \in RunIds : runs'[r].stage = runs[r].stage,
         row.status = "RUNNING" /\ Baton => Baton',
         user'.pc = "unqueue" => user.pc = "unqueue" /\ user'.copy = user.copy,
         row.status = "RUNNING" /\ created # NoRun /\ ~Handed /\ worker.pc # "link"
           /\ Event(created)'.pc = "none" => Event(created).pc = "none" /\ (Ongoing => Ongoing'),
         LinkIsFresh', CopiesLinked', PausesTogether'
  PROVE  Pursuit'
<1>1. created # NoRun => runs'[created].stage = runs[created].stage
  BY Types
<1>2. RowLinked /\ Awaited /\ UnqueuesBehind
  BY DEF Pursuit
<1>3. RowLinked'
  <2> HIDE DEF Handed
  <2> QED BY <1>1, <1>2 DEF RowLinked
<1>4. Awaited'
  <2> HIDE DEF Handed, Baton, Ongoing
  <2> QED BY <1>2 DEF Awaited
<1>5. UnqueuesBehind'
  BY <1>1, <1>2 DEF UnqueuesBehind
<1> QED BY <1>3, <1>4, <1>5 DEF Pursuit

LEMMA LinkStays ==
  ASSUME LinkIsFresh,
         worker'.pc = "link" => worker.pc = "link" /\ created' = created /\ runs'[created] = runs[created]
  PROVE  LinkIsFresh'
BY DEF LinkIsFresh

LEMMA CopiesStay ==
  ASSUME CopiesLinked, row'.status = "RUNNING" => row.status = "RUNNING",
         \A r \in RunIds : Event(r)'.pc \in {"store", "decide"} =>
           Event(r)' = Event(r) /\ runs'[r].stage = runs[r].stage
  PROVE  CopiesLinked'
BY DEF CopiesLinked

\* While the id of the last run is still to be saved, its event has not come.
LEMMA LinkedBefore ==
  ASSUME TypeOK, RunsSettle, Order, LinkIsFresh, worker.pc = "link"
  PROVE  created # NoRun /\ Event(created).pc = "none" /\ ~Handed
<1>1. created # NoRun /\ created \in RunIds
  BY Types DEF Order, Linking
<1>2. runs[created].alive
  BY DEF LinkIsFresh
<1>3. runs[created].status \notin {"completed", "stopped"}
  BY <1>1, <1>2 DEF RunsSettle, Finished
<1>4. Event(created).pc = "none"
  BY <1>1, <1>3 DEF Order, Sequential
<1> QED BY <1>1, <1>4 DEF Handed

\* The entity of a call in progress is not ahead of the runs.
LEMMA CallBehind ==
  ASSUME TypeOK, Order
  PROVE  user.copy.stage <= Top /\ user.copy.stage \in 1 .. 5
         /\ (worker.pc = "link" => StageRun # created)
         /\ StageRun <= created /\ StageRun \in Nat
<1>1. user.copy \in Copies
  BY DEF Copies
<1>2. user.copy \in Rows /\ Fits(user.copy) /\ Known(user.copy)
  BY <1>1, OpenCopies
<1>3. user.copy.stage \in 1 .. 5 /\ \A s \in Stages : user.copy.link[s] \in Nat
  BY <1>2, RowTypes
<1>4. user.copy.stage # DONE => user.copy.stage \in Stages
  BY <1>2 DEF Rows
<1>5. created \in Nat /\ NoRun = 0 /\ (worker.pc = "link" => created # NoRun)
  BY Types DEF Order, Linking
<1>6. StageRun = NoRun \/ \E s \in Stages : StageRun = user.copy.link[s]
  BY <1>4 DEF StageRun
<1>7. StageRun \in Nat /\ StageRun <= created /\ (worker.pc = "link" => StageRun # created)
  BY <1>2, <1>3, <1>5, <1>6 DEF Known
<1> QED BY <1>2, <1>3, <1>7 DEF Fits

LEMMA PursuitWorker ==
  ASSUME TypeOK, RunsSettle, Order, Pursuit, WorkerStep \/ WorkerFail
  PROVE  Pursuit'
<1>1. UNCHANGED <<handler, user>>
  BY DEF WorkerStep, WorkerFail, WorkerRead, WorkerCreate, WorkerLink, WorkerAck
<1>2. \A q \in RunIds : Event(q)' = Event(q) /\ Failed(q)' = Failed(q)
  BY <1>1 DEF Event, Failed
<1>3. LinkIsFresh /\ RowLinked /\ CopiesLinked /\ Awaited /\ UnqueuesBehind /\ PausesTogether
  BY DEF Pursuit
<1>w. /\ worker.pc \in WorkerPcs /\ worker.copy \in Rows /\ row \in Rows /\ IdleWorker.pc = "idle"
      /\ created # NoRun => created \in RunIds
  BY Types DEF IdleWorker
<1>4. CASE WorkerFail
  <2>1. row'.status # "RUNNING" /\ worker'.pc = "idle" /\ UNCHANGED runs
    BY <1>w, <1>4 DEF WorkerFail, UpdateStatus, Rows
  <2>2. LinkIsFresh' /\ CopiesLinked'
    BY <1>2, <1>3, <2>1, LinkStays, CopiesStay
  <2> QED BY <2>1, <2>2, RowOff
<1>5. CASE WorkerAck \/ \E s \in Stages \cup {DONE} : WorkerRead(s)
  <2>1. UNCHANGED <<row, runs, created>> /\ worker.pc # "link" /\ worker'.pc # "link"
    BY <1>w, <1>5 DEF WorkerAck, WorkerRead
  <2>2. row.status = "RUNNING" /\ Baton => Baton'
    <3>1. CASE WorkerAck
      <4>1. worker.pc = "ack" /\ jobs' = jobs
        BY <3>1 DEF WorkerAck
      <4> QED BY <1>1, <1>2, <4>1 DEF Baton
    <3>2. CASE \E s \in Stages \cup {DONE} : WorkerRead(s)
      <4>1. row.status = "RUNNING" => worker'.pc = "create"
        BY <3>2 DEF WorkerRead
      <4> QED BY <4>1 DEF Baton
    <3> QED BY <1>5, <3>1, <3>2
  <2>3. LinkIsFresh' /\ CopiesLinked'
    BY <1>2, <1>3, <2>1, LinkStays, CopiesStay
  <2>4. PausesTogether'
    BY <1>1, <1>3, <2>1 DEF PausesTogether, StageRun, Event
  <2>5. Handed' = Handed /\ Ongoing' = Ongoing /\ Event(created)' = Event(created)
    BY <1>1, <2>1 DEF Handed, Ongoing, Event, Failed, Calling, Working
  <2> HIDE DEF Handed, Ongoing, Baton
  <2> QED BY <1>1, <2>1, <2>2, <2>3, <2>4, <2>5, RowOn
<1>6. CASE WorkerLink
  <2>1. /\ worker.pc = "link" /\ row' = [worker.copy EXCEPT !.link[worker.stage] = worker.run]
        /\ UNCHANGED <<jobs, runs, created>>
    BY <1>6 DEF WorkerLink
  <2>2. worker'.pc = "ack"
    BY <1>6 DEF WorkerLink, TypeOK
  <2>3. created # NoRun /\ Event(created).pc = "none" /\ ~Handed
    BY <1>3, <2>1, LinkedBefore
  <2>4. worker.run = created /\ worker.stage = runs[created].stage /\ worker.stage \in Stages
    <3>1. runs[created].stage \in Stages
      BY <1>w, <2>3 DEF TypeOK, Runs
    <3> QED BY <2>1, <3>1 DEF Order, Linking
  <2>5. Handed' = Handed /\ Event(created)' = Event(created)
    BY <1>1, <2>1 DEF Handed, Event
  <2>6. row'.link[runs[created].stage] = created
    BY <1>w, <2>1, <2>4 DEF Rows
  <2>7. LinkIsFresh' /\ RowLinked'
    BY <2>1, <2>2, <2>6 DEF LinkIsFresh, RowLinked
  <2>8. CopiesLinked'
    <3>1. \A q \in RunIds : Event(q).pc \notin {"store", "decide"}
      BY <2>3, EventInProgress
    <3> QED BY <1>2, <3>1 DEF CopiesLinked
  <2>9. runs[created].alive /\ runs[created].status \in {"active", "failed"}
    BY <1>3, <2>1 DEF LinkIsFresh
  <2>10. Awaited'
    <3>1. Ongoing'
      BY <2>1, <2>9 DEF Ongoing, Working
    <3> HIDE DEF Handed, Ongoing
    <3> QED BY <2>1, <2>3, <2>5, <3>1 DEF Awaited
  <2>11. UnqueuesBehind'
    <3>1. Top = runs[created].stage
      BY <2>3 DEF Top
    <3> QED BY <1>1, <2>1, <2>3, <3>1, CallBehind DEF UnqueuesBehind
  <2>12. PausesTogether'
    <3>1. StageRun # created /\ StageRun' = StageRun
      BY <1>1, <2>1, CallBehind DEF StageRun
    <3> QED BY <2>1, <2>9, <3>1 DEF PausesTogether
  <2> QED BY <2>7, <2>8, <2>10, <2>11, <2>12 DEF Pursuit
<1>7. CASE WorkerCreate
  <2> DEFINE n == created + 1
  <2>1. /\ worker.pc = "create" /\ created < MaxRuns /\ created' = n
        /\ SetRun(n, [stage |-> worker.stage, status |-> "active", alive |-> TRUE, outcome |-> "none"])
        /\ worker' = [worker EXCEPT !.pc = "link", !.run = n]
        /\ UNCHANGED <<row, jobs>>
    BY <1>7 DEF WorkerCreate
  <2>2. created \in Nat /\ MaxRuns \in Nat /\ runs \in [RunIds -> Runs]
    BY Types
  <2>3. n \in RunIds /\ n > created /\ n \in Nat /\ n # NoRun
    BY <2>1, <2>2 DEF RunIds, NoRun
  <2>4. /\ \A r \in RunIds : r # n => runs'[r] = runs[r]
        /\ runs'[n].stage = worker.stage /\ runs'[n].status = "active" /\ runs'[n].alive
    BY <2>1, <2>2, <2>3 DEF SetRun
  <2>5. worker'.pc = "link"
    BY <2>1 DEF TypeOK
  <2>6. Event(n).pc = "none"
    BY <2>3 DEF Order, Sequential
  <2>7. worker.stage = Top
    <3>1. Baton
      BY <2>1 DEF Baton
    <3>2. created # NoRun => Handed
      BY <3>1 DEF Order, OneBaton
    <3>3. worker.stage = Front
      BY <2>1 DEF Order, OneBaton
    <3> QED BY <3>2, <3>3 DEF Top
  <2>8. StageRun # n /\ StageRun' = StageRun
    <3>1. StageRun' = StageRun
      BY <1>1 DEF StageRun
    <3>2. StageRun <= created /\ StageRun \in Nat
      BY CallBehind
    <3> QED BY <2>2, <2>3, <3>1, <3>2
  <2> HIDE DEF n
  <2>9. LinkIsFresh' /\ RowLinked' /\ Awaited'
    BY <2>1, <2>4, <2>5 DEF LinkIsFresh, RowLinked, Awaited
  <2>10. CopiesLinked'
    <3>1. \A r \in RunIds : Event(r)'.pc \in {"store", "decide"} =>
            Event(r)' = Event(r) /\ runs'[r].stage = runs[r].stage
      BY <1>2, <2>4, <2>6
    <3> QED BY <1>3, <2>1, <3>1, CopiesStay
  <2>11. UnqueuesBehind'
    BY <1>1, <2>1, <2>3, <2>4, <2>7, CallBehind DEF UnqueuesBehind
  <2>12. PausesTogether'
    BY <2>1, <2>4, <2>8 DEF PausesTogether
  <2> QED BY <2>9, <2>10, <2>11, <2>12 DEF Pursuit
<1> QED BY <1>4, <1>5, <1>6, <1>7 DEF WorkerStep

\* The event of a run that is over finds the pipeline it belongs to.
LEMMA EventIsFound ==
  ASSUME TypeOK, Order, RowLinked, worker.pc # "link", row.status = "RUNNING",
         NEW r \in RunIds, r = created, ~Handed
  PROVE  FindForComplete(r) /\ FindForFailed(r) /\ row.link[runs[r].stage] = r
<1>1. created # NoRun
  BY Types
<1>2. row.link[runs[r].stage] = r
  BY <1>1 DEF RowLinked
<1>3. row.stage = runs[r].stage /\ row.status \in Active
  BY <1>1 DEF Order, Standing, Active
<1> QED BY <1>2, <1>3 DEF FindForComplete, FindForFailed, FindForOptimizationComplete,
           FindForBacktestComplete, FindForPaperTradingComplete, FindForOptimizationFailed,
           FindForBacktestFailed, FindForPaperTradingFailed

\* After the event of the last run began, its own progress no longer matters.
LEMMA EventBegun ==
  ASSUME Event(created)'.pc # "none"
  PROVE  PausesTogether'
BY DEF PausesTogether

LEMMA PursuitComplete ==
  ASSUME TypeOK, RunsSettle, Order, Pursuit, NEW r \in RunIds, CompleteStep(r)
  PROVE  Pursuit'
<1>1. /\ UNCHANGED <<user, worker, runs, created>>
      /\ \E h : SetHandler(r, "completed", h)
  BY DEF CompleteStep, CompleteFind, CompleteStore, CompleteRefuse, CompleteDefer,
         CompleteAdvance, CompleteEnqueue, CompleteFinish
<1>2. PICK h : SetHandler(r, "completed", h)
  BY <1>1
<1>3. \A q \in RunIds : Event(q)' = IF q = r THEN h ELSE Event(q)
  BY <1>2, EventSet
<1>4. LinkIsFresh /\ RowLinked /\ CopiesLinked /\ Awaited /\ UnqueuesBehind /\ PausesTogether
  BY DEF Pursuit
<1>5. LinkIsFresh'
  BY <1>1, <1>4, LinkStays
<1>6. ~CompleteFinish(r)
  BY DEF CompleteFinish, Order, Sequential, Event
<1>o. Over.pc = "over"
  BY DEF Over
<1>7. CASE CompleteEnqueue(r)
  <2>1. Event(r).pc = "enqueue" /\ row' = row /\ h = Over
    BY <1>3, <1>7, EventSet DEF CompleteEnqueue, Event
  <2>2. r = created /\ created # NoRun
    BY <2>1, Types DEF Order, OneBaton
  <2>3. Handed /\ Handed'
    BY <1>o, <1>1, <1>3, <2>1, <2>2 DEF Handed
  <2>4. Baton'
    BY <1>7 DEF CompleteEnqueue, enqueueStageJob, Baton
  <2>5. CopiesLinked'
    BY <1>o, <1>1, <1>3, <1>4, <2>1, CopiesStay
  <2>6. PausesTogether'
    <3>1. Event(created)'.pc = "over"
      BY <1>o, <1>1, <1>3, <2>1, <2>2 DEF Event
    <3> QED BY <3>1, EventBegun
  <2> HIDE DEF Handed, Baton, Ongoing
  <2> QED BY <1>1, <1>5, <2>1, <2>3, <2>4, <2>5, <2>6, RowOn
<1>8. CASE ~CompleteEnqueue(r)
  <2>1. Event(r).pc \in {"emitted", "store", "decide"}
    BY <1>6, <1>8 DEF CompleteStep, CompleteFind, CompleteStore, CompleteRefuse, CompleteDefer,
       CompleteAdvance, Event
  <2>2. r = created /\ created # NoRun /\ ~Handed /\ ~Baton /\ Top = runs[r].stage
    BY <2>1, EventInProgress
  <2>3. worker.pc # "link"
    BY <1>4, <2>1, <2>2, LinkedBefore
  <2>4. \A q \in RunIds : Event(q).pc \in {"store", "decide"} => q = r
    BY <2>2, EventInProgress
  <2>5. Event(created)' = h
    BY <1>1, <1>3, <2>2 DEF Event
  <2>6. ASSUME h.pc \in {"store", "decide"} => h.copy.status # "RUNNING" \/ h.copy.link[runs[r].stage] = r,
               row'.status # "RUNNING"
        PROVE  Pursuit'
    <3>1. CopiesLinked'
      BY <1>1, <1>3, <2>4, <2>6 DEF CopiesLinked
    <3> QED BY <1>5, <2>6, <3>1, RowOff
  <2>7. ASSUME h.pc \in {"store", "decide", "enqueue"}, row'.status = "RUNNING",
               h.pc \in {"store", "decide"} => /\ h.copy.status = "RUNNING"
                                              /\ h.copy.link[runs[r].stage] = r
                                              /\ row'.link[runs[r].stage] = r
        PROVE  Pursuit'
    <3>1. CopiesLinked'
      BY <1>1, <1>3, <2>4, <2>7 DEF CopiesLinked
    <3>2. PausesTogether'
      BY <2>5, <2>7, EventBegun
    <3>3. Handed' <=> h.pc = "enqueue"
      BY <1>1, <2>2, <2>5, <2>7 DEF Handed
    <3>4. h.pc = "enqueue" => Baton'
      BY <1>3 DEF Baton
    <3>5. RowLinked'
      BY <1>1, <2>2, <2>7, <3>3 DEF RowLinked
    <3>6. Awaited'
      BY <1>1, <2>2, <2>5, <2>7, <3>3, <3>4 DEF Awaited
    <3>7. UnqueuesBehind'
      BY <1>1, <2>2, CallBehind DEF UnqueuesBehind
    <3> QED BY <1>5, <3>1, <3>2, <3>5, <3>6, <3>7 DEF Pursuit
  <2> DEFINE c == Event(r).copy
  <2>8. Event(r).pc \in {"store", "decide"} =>
          /\ c \in Rows /\ (c.status = "RUNNING" => c.stage = runs[r].stage)
          /\ row.status = "RUNNING" => c.status = "RUNNING"
          /\ c.status = "RUNNING" => c.link[runs[r].stage] = r
    BY <1>4, Deciding DEF CopiesLinked
  <2>t. runs[r].stage \in Stages /\ OPTIMIZE \in Stages /\ runs[r].stage \in 1 .. 4
    BY StageValues, Types DEF TypeOK, Runs
  <2>9. CASE CompleteFind(r)
    <3>1. row' = row
      BY <2>9 DEF CompleteFind
    <3>2. h = IF ~FindForComplete(r) THEN Over
              ELSE [pc |-> IF runs[r].outcome = "empty" THEN "decide" ELSE "store", copy |-> row]
      BY <1>3, <2>9, EventSet DEF CompleteFind
    <3>3. CASE row.status = "RUNNING"
      <4>1. FindForComplete(r) /\ row.link[runs[r].stage] = r
        BY <1>4, <2>2, <2>3, <3>3, EventIsFound
      <4>2. h.pc \in {"store", "decide"} /\ h.copy = row
        BY <3>2, <4>1
      <4> QED BY <2>7, <3>1, <3>3, <4>1, <4>2
    <3>4. CASE row.status # "RUNNING"
      <4>1. h.pc = "over" \/ h.copy = row
        BY <1>o, <3>2
      <4> QED BY <2>6, <3>1, <3>4, <4>1
    <3> QED BY <3>3, <3>4
  <2>10. CASE CompleteStore(r)
    <3> DEFINE d == StoreResult(c, r)
    <3>1. Event(r).pc = "store" /\ row' = d /\ h = [pc |-> "decide", copy |-> d]
      BY <1>3, <2>10, EventSet DEF CompleteStore, Event
    <3>2. c \in Rows
      BY <2>8, <3>1
    <3>3. d.status = c.status /\ d.link = [c.link EXCEPT ![OPTIMIZE] = IF runs[r].stage = OPTIMIZE THEN r ELSE @]
      BY <3>2 DEF StoreResult, Rows
    <3>4. c.link \in [Stages -> RunIds \cup {NoRun}]
      BY <3>2 DEF Rows
    <3>5. c.link[runs[r].stage] = r => d.link[runs[r].stage] = r
      BY <2>t, <3>3, <3>4
    <3>6. h.pc = "decide" /\ h.copy = d
      BY <3>1
    <3> HIDE DEF d
    <3> QED BY <2>6, <2>7, <2>8, <3>1, <3>3, <3>5, <3>6
  <2>11. CASE CompleteRefuse(r)
    <3>1. Event(r).pc = "decide" /\ h = Over
      BY <1>3, <2>11, EventSet DEF CompleteRefuse, Event
    <3>2. row' = markInconclusiveAndComplete(c) \/ row' = rejectPipeline(c)
      BY <2>11 DEF CompleteRefuse, Event
    <3>3. row'.status # "RUNNING"
      BY <2>8, <3>1, <3>2 DEF markInconclusiveAndComplete, rejectPipeline, Rows
    <3> QED BY <1>o, <2>6, <3>1, <3>3
  <2>12. CASE CompleteDefer(r)
    <3>1. h = Over /\ row' = row /\ Event(r).pc = "decide" /\ c.status # "RUNNING"
      BY <1>3, <2>12, EventSet DEF CompleteDefer, Event
    <3> QED BY <1>o, <2>6, <2>8, <3>1
  <2>13. CASE CompleteAdvance(r)
    <3>1. Event(r).pc = "decide" /\ c.status = "RUNNING"
      BY <2>13 DEF CompleteAdvance, MayAdvance, Event
    <3>2. c \in Rows /\ c.stage = runs[r].stage
      BY <2>8, <3>1
    <3>3. CASE runs[r].stage = PAPER_TRADE
      <4>1. row' = completePipeline(c) /\ h = Over
        BY <1>3, <2>13, <3>3, EventSet DEF CompleteAdvance, Event
      <4>2. row'.status # "RUNNING"
        BY <3>2, <4>1 DEF completePipeline, Rows
      <4> QED BY <1>o, <2>6, <4>1, <4>2
    <3>4. CASE runs[r].stage # PAPER_TRADE
      <4> DEFINE n == advanceToNextStage(c)
      <4>1. runs[r].stage \in 1 .. 3 /\ CanAdvance(c)
        BY <2>t, <3>2, <3>4, StageValues DEF CanAdvance
      <4>2. n.stage = runs[r].stage + 1 /\ n.status = "RUNNING"
        BY <3>1, <3>2 DEF advanceToNextStage, Rows
      <4>3. row' = n /\ h = [pc |-> AfterAdvance(n), copy |-> n]
        BY <1>3, <2>13, <3>4, <4>1, EventSet DEF CompleteAdvance, Event
      <4>4. AfterAdvance(n) = "enqueue"
        BY <4>1, <4>2, StageValues DEF AfterAdvance
      <4> HIDE DEF n
      <4>5. h.pc = "enqueue" /\ row'.status = "RUNNING"
        BY <4>2, <4>3, <4>4
      <4> QED BY <2>7, <4>5
    <3> QED BY <3>3, <3>4
  <2> QED BY <1>6, <1>8, <2>9, <2>10, <2>11, <2>12, <2>13 DEF CompleteStep
<1> QED BY <1>7, <1>8

LEMMA PursuitFailed ==
  ASSUME TypeOK, RunsSettle, Order, Pursuit, NEW r \in RunIds, FailedStep(r)
  PROVE  Pursuit'
<1>1. UNCHANGED <<user, worker, runs, created, jobs>>
  BY DEF FailedStep, FailedFind, FailedSave
<1>2. PICK h : SetHandler(r, "failed", h)
  BY DEF FailedStep, FailedFind, FailedSave
<1>3. \A q \in RunIds : Event(q)' = Event(q)
  BY <1>2, EventsSame
<1>4. \A q \in RunIds : Failed(q)' = IF q = r THEN h ELSE Failed(q)
  BY <1>2, FailedSet
<1>5. LinkIsFresh /\ RowLinked /\ CopiesLinked /\ PausesTogether
  BY DEF Pursuit
<1>c. created # NoRun => created \in RunIds
  BY Types
<1>6. LinkIsFresh'
  BY <1>1, <1>5, LinkStays
<1>7. CASE FailedSave(r)
  <2>1. row' = failPipeline(Failed(r).copy) /\ Failed(r).copy \in Rows
    BY <1>7 DEF FailedSave, Failed, TypeOK, Kinds
  <2>2. row'.status # "RUNNING"
    BY <2>1 DEF failPipeline, Rows
  <2>3. CopiesLinked'
    BY <1>1, <1>3, <1>5, <2>2, CopiesStay
  <2> QED BY <1>6, <2>2, <2>3, RowOff
<1>8. CASE FailedFind(r)
  <2>1. row' = row /\ h = IF FindForFailed(r) THEN [pc |-> "fail", copy |-> row] ELSE Over
    BY <1>4, <1>8, FailedSet DEF FailedFind
  <2>2. CopiesLinked'
    BY <1>1, <1>3, <1>5, <2>1, CopiesStay
  <2>3. PausesTogether'
    BY <1>1, <1>3, <1>5, <1>c, <2>1 DEF PausesTogether, StageRun
  <2>4. Handed' = Handed /\ Baton' = Baton
    BY <1>1, <1>3, <1>c DEF Handed, Baton
  <2>5. row.status = "RUNNING" /\ created # NoRun /\ ~Handed /\ worker.pc # "link" =>
          (Ongoing => Ongoing')
    <3>1. SUFFICES ASSUME row.status = "RUNNING", created # NoRun, ~Handed, worker.pc # "link", Ongoing
                   PROVE  Ongoing'
      OBVIOUS
    <3>2. r = created => Failed(created)'.pc = "fail"
      <4>1. r = created => FindForFailed(r)
        BY <1>5, <3>1, EventIsFound
      <4> QED BY <1>1, <1>4, <2>1, <4>1 DEF Failed
    <3>3. r # created => Failed(created)' = Failed(created)
      BY <1>1, <1>4, <1>c, <3>1 DEF Failed
    <3>4. Working(created)' = Working(created) /\ Calling' = Calling
      BY <1>1 DEF Working, Calling
    <3> QED BY <1>1, <3>1, <3>2, <3>3, <3>4 DEF Ongoing
  <2> HIDE DEF Handed, Baton, Ongoing
  <2> QED BY <1>1, <1>3, <1>6, <1>c, <2>1, <2>2, <2>3, <2>4, <2>5, RowOn
<1> QED BY <1>7, <1>8 DEF FailedStep

\* A run that is not over is the last one.
LEMMA RunUnderWay ==
  ASSUME TypeOK, RunsSettle, Order, NEW r \in RunIds,
         runs[r].status \notin {"unused", "completed", "stopped"}
  PROVE  Event(r).pc = "none" /\ r = created /\ created # NoRun /\ ~Handed /\ ~Baton
<1>1. Event(r).pc = "none"
  BY DEF Order, Sequential
<1>2. ~(r > created)
  BY DEF RunsSettle
<1> QED BY <1>1, <1>2, EventToCome

\* A run goes on, fails or is declared dead; it does so after its id was saved,
\* but for the watchdog's verdict.
LEMMA PursuitRunGoes ==
  ASSUME FastRuns = FALSE, TypeOK, RunsSettle, Order, Pursuit, NEW r \in RunIds,
         RunFail(r) \/ RunRetry(r) \/ RunPauses(r) \/ StaleKill(r)
  PROVE  Pursuit'
<1> DEFINE h == [pc |-> "emitted", copy |-> Blank]
<1>1. UNCHANGED <<row, user, worker, created, jobs>>
  BY DEF RunFail, RunRetry, RunPauses, StaleKill
<1>2. runs[r].status \in {"active", "pausing", "failed", "cancelled"}
  BY DEF RunFail, RunRetry, RunPauses, StaleKill, Working
<1>3. Event(r).pc = "none" /\ r = created /\ created # NoRun /\ ~Handed /\ ~Baton
  BY <1>2, RunUnderWay
<1>4. LinkIsFresh /\ CopiesLinked /\ PausesTogether
  BY DEF Pursuit
<1>5. \/ UNCHANGED handler /\ (RunRetry(r) \/ RunPauses(r))
      \/ SetHandler(r, "failed", h) /\ (RunFail(r) \/ StaleKill(r))
  BY DEF RunFail, RunRetry, RunPauses, StaleKill, Emit
<1>h. h.pc = "emitted"
  OBVIOUS
<1> HIDE DEF h
<1>6. \A q \in RunIds : Event(q)' = Event(q)
  <2>1. CASE UNCHANGED handler
    BY <2>1 DEF Event
  <2> QED BY <1>5, <2>1, EventsSame
<1>7. /\ \A q \in RunIds : q # r => runs'[q] = runs[q]
      /\ runs'[r].stage = runs[r].stage
      /\ RunFail(r) \/ StaleKill(r) => runs'[r].status = "failed"
      /\ RunRetry(r) => runs'[r].status = "active" /\ runs'[r].alive
      /\ StaleKill(r) \/ RunPauses(r) => runs'[r].alive = runs[r].alive
  <2>1. runs \in [RunIds -> Runs] /\ runs[r] \in Runs
    BY Types
  <2>2. CASE RunFail(r)
    <3>1. runs' = [runs EXCEPT ![r] = [runs[r] EXCEPT !.status = "failed", !.alive = FALSE]]
      BY <2>2 DEF RunFail, SetRun
    <3>2. runs[r].alive = TRUE
      BY <2>1, <2>2 DEF RunFail, Working, Runs
    <3>3. ~RunRetry(r)
      BY <3>2 DEF RunRetry
    <3>4. ~StaleKill(r) /\ ~RunPauses(r)
      <4>1. runs'[r].alive = FALSE
        BY <2>1, <3>1 DEF Runs
      <4>2. StaleKill(r) \/ RunPauses(r) => runs'[r].alive = runs[r].alive
        BY <2>1 DEF StaleKill, RunPauses, SetRun, Runs
      <4> QED BY <3>2, <4>1, <4>2
    <3> QED BY <2>1, <2>2, <3>1, <3>3, <3>4 DEF Runs
  <2>3. CASE RunRetry(r) /\ ~RunFail(r)
    <3>1. runs[r].status = "failed"
      BY <2>3 DEF RunRetry
    <3>2. ~StaleKill(r) /\ ~RunPauses(r)
      BY <3>1 DEF StaleKill, RunPauses
    <3> QED BY <2>1, <2>3, <3>2 DEF RunRetry, SetRun, Runs
  <2>4. CASE StaleKill(r) /\ ~RunFail(r) /\ ~RunRetry(r)
    BY <2>1, <2>4 DEF StaleKill, SetRun, Runs
  <2>5. CASE RunPauses(r) /\ ~RunFail(r) /\ ~RunRetry(r) /\ ~StaleKill(r)
    BY <2>1, <2>5 DEF RunPauses, SetRun, Runs
  <2> QED BY <2>2, <2>3, <2>4, <2>5
<1>8. \A q \in RunIds : runs'[q].stage = runs[q].stage
  BY <1>7
<1>9. CopiesLinked'
  BY <1>1, <1>4, <1>6, <1>8, CopiesStay
<1>10. worker.pc = "link" => StaleKill(r)
  <2>1. SUFFICES ASSUME worker.pc = "link" PROVE ~RunFail(r) /\ ~RunRetry(r) /\ ~RunPauses(r)
    OBVIOUS
  <2>2. worker.run = created
    BY <2>1 DEF Order, Linking
  <2>3. runs[r].alive /\ runs[r].status \in {"active", "failed"}
    BY <1>3, <1>4, <2>1 DEF LinkIsFresh
  <2> QED BY <1>3, <2>2, <2>3 DEF RunFail, Linked, RunRetry, RunPauses
<1>11. LinkIsFresh'
  BY <1>1, <1>3, <1>4, <1>7, <1>10 DEF LinkIsFresh
<1>12. CASE RunPauses(r)
  <2>1. runs[r].status = "pausing"
    BY <1>12 DEF RunPauses
  <2>2. row'.status # "RUNNING"
    BY <1>1, <1>3, <1>4, <2>1 DEF PausesTogether
  <2> QED BY <1>9, <1>11, <2>2, RowOff
<1>13. CASE ~RunPauses(r)
  <2>1. runs'[r].status \notin {"pausing", "paused"} /\ Event(created)' = Event(created)
    BY <1>1, <1>3, <1>6, <1>7, <1>13 DEF Event
  <2>2. PausesTogether'
    BY <1>1, <1>3, <1>4, <2>1 DEF PausesTogether, StageRun
  <2>3. Handed' = Handed /\ Baton' = Baton
    BY <1>1, <1>3, <1>6, <2>1 DEF Handed, Baton
  <2>4. Ongoing'
    <3>1. CASE RunRetry(r)
      BY <1>1, <1>3, <1>7, <3>1 DEF Ongoing, Working
    <3>2. CASE ~RunRetry(r)
      <4>1. Failed(r)' = h
        BY <1>5, <1>13, <3>2, FailedSet
      <4> QED BY <1>1, <1>3, <1>h, <4>1 DEF Ongoing, Failed
    <3> QED BY <3>1, <3>2
  <2> HIDE DEF Handed, Baton, Ongoing
  <2> QED BY <1>1, <1>3, <1>8, <1>9, <1>11, <2>1, <2>2, <2>3, <2>4, RowOn
<1> QED BY <1>12, <1>13

\* The completed event of the last run is emitted.
LEMMA PursuitRunEnds ==
  ASSUME FastRuns = FALSE, TypeOK, RunsSettle, Order, Pursuit, NEW r \in RunIds,
         RunFinish(r) \/ NotifyPipeline(r)
  PROVE  Pursuit'
<1> DEFINE h == [pc |-> "emitted", copy |-> Blank]
<1>1. UNCHANGED <<row, user, worker, created, jobs>> /\ SetHandler(r, "completed", h)
  BY DEF RunFinish, NotifyPipeline, Emit
<1>h. h.pc = "emitted"
  OBVIOUS
<1> HIDE DEF h
<1>2. \A q \in RunIds : Event(q)' = IF q = r THEN h ELSE Event(q)
  BY <1>1, EventSet
<1>3. LinkIsFresh /\ CopiesLinked
  BY DEF Pursuit
<1>4. r = created /\ created # NoRun /\ ~Handed /\ ~Baton /\ worker.pc # "link"
  <2>1. CASE RunFinish(r)
    <3>1. runs[r].status \notin {"unused", "completed", "stopped"} /\ worker.run # r
      BY <2>1 DEF RunFinish, Working, Linked
    <3>2. r = created /\ created # NoRun /\ ~Handed /\ ~Baton
      BY <3>1, RunUnderWay
    <3> QED BY <3>1, <3>2 DEF Order, Linking
  <2>2. CASE NotifyPipeline(r)
    <3>1. Event(r).pc = "notify"
      BY <2>2 DEF NotifyPipeline, Event
    <3>2. r = created /\ created # NoRun /\ ~Handed /\ ~Baton
      BY <3>1, EventInProgress
    <3> QED BY <1>3, <3>1, <3>2, LinkedBefore
  <2> QED BY <2>1, <2>2
<1>5. \A q \in RunIds : runs'[q].stage = runs[q].stage
  <2>1. runs \in [RunIds -> Runs] /\ runs[r] \in Runs
    BY Types
  <2>2. CASE RunFinish(r)
    <3>1. PICK o : SetRun(r, [runs[r] EXCEPT !.status = "completed", !.alive = FALSE, !.outcome = o])
      BY <2>2 DEF RunFinish
    <3> QED BY <2>1, <3>1 DEF SetRun, Runs
  <2>3. CASE NotifyPipeline(r)
    BY <2>3 DEF NotifyPipeline
  <2> QED BY <2>2, <2>3
<1>6. LinkIsFresh' /\ CopiesLinked'
  BY <1>h, <1>1, <1>2, <1>3, <1>4, <1>5, LinkStays, CopiesStay
<1>7. Event(created)'.pc = "emitted"
  BY <1>h, <1>1, <1>2, <1>4 DEF Event
<1>8. PausesTogether'
  BY <1>7, EventBegun
<1>9. Handed' = Handed
  BY <1>1, <1>4, <1>7 DEF Handed
<1> HIDE DEF Handed, Baton, Ongoing
<1> QED BY <1>1, <1>4, <1>5, <1>6, <1>7, <1>8, <1>9, RowOn

\* The calls and the watchdog, as long as they leave runs and events alone.
LEMMA PursuitAround ==
  ASSUME Quiet, TypeOK, RunsSettle, Order, Pursuit, UNCHANGED <<worker, runs, created, handler>>,
         \/ UserStart \/ (\E op \in UserOps : UserCall(op))
         \/ UserSave \/ UserEnqueue \/ UserEnqueueFails \/ UserPauseStage
         \/ UserCancelStage \/ UserCancelStageThrows \/ UserFinal \/ UserUnqueue
         \/ WatchdogStep \/ UNCHANGED vars
  PROVE  Pursuit'
<1>1. \A q \in RunIds : Event(q)' = Event(q)
  BY DEF Event
<1>2. LinkIsFresh /\ CopiesLinked /\ PausesTogether /\ UnqueuesBehind
  BY DEF Pursuit
<1>3. LinkIsFresh'
  BY <1>2, LinkStays
<1>4. Handed' = Handed /\ Event(created)' = Event(created)
      /\ Working(created)' = Working(created) /\ Failed(created)' = Failed(created)
  BY DEF Handed, Event, Failed, Working
<1>r. row \in Rows /\ user.copy \in Rows /\ user \in Users
  BY Types DEF TypeOK, Users
<1>i. IdleUser.pc = "idle"
  BY DEF IdleUser
<1>5. ASSUME row'.status # "RUNNING" PROVE Pursuit'
  <2>1. CopiesLinked'
    BY <1>1, <1>2, <1>5, CopiesStay
  <2> QED BY <1>3, <1>5, <2>1, RowOff
<1>6. ASSUME row' = row, row.status = "RUNNING" /\ Baton => Baton',
             user' = user \/ (user'.pc \notin {"unqueue"} /\ ~(user'.pc = "stage" /\ user'.op = "pause")),
             Calling => Calling'
      PROVE  Pursuit'
  <2>1. CopiesLinked'
    BY <1>1, <1>2, <1>6, CopiesStay
  <2>2. PausesTogether'
    BY <1>2, <1>4, <1>6 DEF PausesTogether, StageRun
  <2>3. Ongoing => Ongoing'
    BY <1>4, <1>6 DEF Ongoing
  <2> HIDE DEF Handed, Baton, Ongoing
  <2> QED BY <1>3, <1>4, <1>6, <2>1, <2>2, <2>3, RowOn
<1>7. ASSUME NEW op \in {"start", "pause", "cancel"}, UserRead(op) PROVE Pursuit'
  <2>1. /\ row' = row /\ user.pc = "idle" /\ jobs' = jobs
        /\ user' = [pc |-> IF op \in {"cancel", "skip"} THEN "stage" ELSE "save", op |-> op, copy |-> row]
    BY <1>7 DEF UserRead
  <2>2. user'.op = op /\ user'.pc = IF op \in {"cancel", "skip"} THEN "stage" ELSE "save"
    BY <2>1
  <2>3. Baton => Baton'
    BY <1>1, <2>1 DEF Baton
  <2> QED BY <1>6, <2>1, <2>2, <2>3 DEF Calling
<1>8. CASE UserSave
  <2>1. user.pc = "save" /\ user.op \in {"start", "pause"} /\ (user.op = "start" => Unstarted)
    BY <1>8 DEF UserSave, Order, Calls
  <2>2. CASE user.op = "pause"
    <3>1. row'.status = "PAUSED"
      BY <1>r, <1>8, <2>2 DEF UserSave, Rows
    <3> QED BY <1>5, <3>1
  <2>3. CASE user.op = "start"
    <3>1. user'.pc = "enqueue" /\ created = NoRun
      BY <1>r, <1>8, <2>1, <2>3 DEF UserSave, Users, Unstarted
    <3>2. Baton'
      BY <3>1 DEF Baton
    <3>3. CopiesLinked'
      BY <1>1, <3>1, EventInProgress DEF CopiesLinked
    <3>4. RowLinked' /\ PausesTogether'
      BY <3>1 DEF RowLinked, PausesTogether
    <3>5. Awaited' /\ UnqueuesBehind'
      <4> HIDE DEF Baton
      <4> QED BY <3>1, <3>2 DEF Awaited, UnqueuesBehind
    <3> QED BY <1>3, <3>3, <3>4, <3>5 DEF Pursuit
  <2> QED BY <2>1, <2>2, <2>3
<1>9. CASE UserEnqueue
  <2>1. user.pc = "enqueue" /\ user' = IdleUser /\ row' = row /\ user.copy.stage \in jobs'
    BY <1>9 DEF UserEnqueue, enqueueStageJob
  <2>2. Baton'
    BY <2>1 DEF Baton
  <2> QED BY <1>i, <1>6, <2>1, <2>2 DEF Calling
<1>10. CASE UserEnqueueFails
  <2>1. row'.status = "FAILED"
    BY <1>r, <1>10 DEF UserEnqueueFails, UpdateStatus, Rows
  <2> QED BY <1>5, <2>1
<1>11. CASE UserPauseStage
  <2>1. user.pc = "stage" /\ user.op = "pause" /\ user' = IdleUser /\ row' = row /\ jobs' = jobs
    BY <1>11 DEF UserPauseStage
  <2>2. Baton => Baton'
    BY <1>1, <2>1 DEF Baton
  <2> QED BY <1>i, <1>6, <2>1, <2>2 DEF Calling
<1>12. CASE UserCancelStage \/ UserCancelStageThrows
  <2>1. user.pc = "stage" /\ user.op = "cancel" /\ row' = row /\ jobs' = jobs /\ user' = AfterCancel
    BY <1>12 DEF UserCancelStage, UserCancelStageThrows, Order, Calls
  <2>2. user'.pc = "final" /\ user'.op = "cancel"
    BY <1>r, <2>1 DEF AfterCancel, Users
  <2>3. Baton => Baton'
    BY <1>1, <2>1 DEF Baton
  <2> QED BY <1>6, <2>1, <2>2, <2>3 DEF Calling
<1>13. CASE UserFinal
  <2>1. row'.status = "CANCELLED"
    BY <1>r, <1>13 DEF UserFinal, Rows
  <2> QED BY <1>5, <2>1
<1>14. CASE UserUnqueue
  <2>1. user.pc = "unqueue" /\ jobs' = jobs \ {user.copy.stage} /\ user' = IdleUser /\ row' = row
    BY <1>14 DEF UserUnqueue
  <2>2. row.status = "RUNNING" => user.copy.stage # Front
    <3>1. SUFFICES ASSUME row.status = "RUNNING" PROVE user.copy.stage # Front
      OBVIOUS
    <3>2. created # NoRun /\ user.copy.stage <= runs[created].stage
      BY <1>2, <2>1, <3>1 DEF UnqueuesBehind
    <3>3. runs[created].stage \in 1 .. 4 /\ user.copy.stage \in 1 .. 5
      BY <3>2, Types, CallBehind
    <3>4. Front = runs[created].stage + 1
      BY <3>2 DEF Front
    <3> QED BY <3>2, <3>3, <3>4
  <2>3. row.status = "RUNNING" => jobs' = jobs
    BY <2>1, <2>2 DEF Order, OneBaton
  <2>4. row.status = "RUNNING" /\ Baton => Baton'
    BY <1>1, <2>1, <2>3 DEF Baton
  <2> QED BY <1>i, <1>6, <2>1, <2>4 DEF Calling
<1>15. CASE WatchdogStep \/ UNCHANGED vars
  <2>1. UNCHANGED <<user, jobs>> /\ (row' = row \/ row' = [row EXCEPT !.status = "FAILED"])
    BY <1>15 DEF WatchdogStep, WatchdogFind, WatchdogUpdate, UpdateStatus, vars
  <2>2. row' = row \/ row'.status = "FAILED"
    BY <1>r, <2>1 DEF Rows
  <2>3. Baton' = Baton /\ Calling' = Calling
    BY <1>1, <2>1 DEF Baton, Calling
  <2> HIDE DEF Baton, Calling
  <2> QED BY <1>5, <1>6, <2>1, <2>2, <2>3
<1>16. CASE UserStart \/ \E op \in UserOps : UserCall(op)
  BY <1>7, <1>16 DEF UserStart, UserCall, Quiet
<1> QED BY <1>8, <1>9, <1>10, <1>11, <1>12, <1>13, <1>14, <1>15, <1>16

\* A call pauses, cancels or stops the last run.
LEMMA PursuitStops ==
  ASSUME TypeOK, RunsSettle, Order, Pursuit, UserPauseStage \/ UserCancelStage,
         ~UNCHANGED <<runs, handler>>
  PROVE  Pursuit'
<1> DEFINE h == [pc |-> "notify", copy |-> Blank]
<1>1. UNCHANGED <<row, jobs, worker, created>> /\ user.pc = "stage"
  BY DEF UserPauseStage, UserCancelStage
<1>2. StageRunStatus \in {"active", "paused"}
  BY DEF UserPauseStage, UserCancelStage
<1>3. PICK r \in RunIds : r = StageRun /\ runs[r].status \in {"active", "paused"}
  BY <1>2, StageRunKnown
<1>4. Event(r).pc = "none" /\ r = created /\ created # NoRun /\ ~Handed /\ ~Baton
  BY <1>3, RunUnderWay
<1>5. worker.pc # "link"
  BY <1>3, <1>4, CallBehind
<1>6. LinkIsFresh /\ CopiesLinked /\ PausesTogether
  BY DEF Pursuit
<1>7. LinkIsFresh'
  BY <1>1, <1>5, <1>6, LinkStays
<1>8. UNCHANGED handler \/ (UserCancelStage /\ SetHandler(r, "completed", h))
  BY <1>3 DEF UserPauseStage, UserCancelStage
<1>h. h.pc = "notify"
  OBVIOUS
<1> HIDE DEF h
<1>9. \A q \in RunIds : Event(q)' = Event(q) \/ (q = r /\ Event(q)' = h)
  <2>1. CASE UNCHANGED handler
    BY <2>1 DEF Event
  <2>2. CASE SetHandler(r, "completed", h)
    BY <2>2, EventSet
  <2> QED BY <1>8, <2>1, <2>2
<1>10. /\ \A q \in RunIds : runs'[q].stage = runs[q].stage
       /\ UserCancelStage => runs'[r].status \in {"cancelled", "stopped"} \/ runs' = runs
  <2>1. runs \in [RunIds -> Runs] /\ runs[r] \in Runs
    BY Types
  <2>2. CASE UserPauseStage /\ ~UserCancelStage
    <3>1. \/ UNCHANGED runs
          \/ SetRun(r, [runs[r] EXCEPT !.status = "pausing"])
          \/ SetRun(r, [runs[r] EXCEPT !.status = "paused"])
      BY <1>3, <2>2 DEF UserPauseStage
    <3> QED BY <2>1, <2>2, <3>1 DEF SetRun, Runs
  <2>3. CASE UserCancelStage
    <3>1. \/ UNCHANGED runs
          \/ \E b \in BOOLEAN : SetRun(r, [runs[r] EXCEPT !.status = "cancelled", !.alive = b])
          \/ \E o \in {"pass", "fail"} :
               SetRun(r, [runs[r] EXCEPT !.status = "stopped", !.alive = FALSE, !.outcome = o])
      BY <1>3, <2>3 DEF UserCancelStage
    <3>2. ASSUME NEW b \in BOOLEAN, SetRun(r, [runs[r] EXCEPT !.status = "cancelled", !.alive = b])
          PROVE  /\ \A q \in RunIds : runs'[q].stage = runs[q].stage
                 /\ runs'[r].status = "cancelled"
      BY <2>1, <3>2 DEF SetRun, Runs
    <3>3. ASSUME NEW o, SetRun(r, [runs[r] EXCEPT !.status = "stopped", !.alive = FALSE, !.outcome = o])
          PROVE  /\ \A q \in RunIds : runs'[q].stage = runs[q].stage
                 /\ runs'[r].status = "stopped"
      BY <2>1, <3>3 DEF SetRun, Runs
    <3> QED BY <3>1, <3>2, <3>3
  <2> QED BY <2>2, <2>3
<1>11. CopiesLinked'
  BY <1>1, <1>6, <1>9, <1>10, <1>h, CopiesStay
<1>12. CASE UserPauseStage
  <2>1. user.op = "pause"
    BY <1>12 DEF UserPauseStage
  <2>2. row'.status # "RUNNING"
    BY <1>1, <1>3, <1>4, <1>6, <2>1 DEF PausesTogether
  <2> QED BY <1>7, <1>11, <2>2, RowOff
<1>13. CASE UserCancelStage
  <2>1. user.op = "cancel" /\ user' = AfterCancel
    BY <1>13 DEF UserCancelStage, Order, Calls
  <2>2. user'.pc = "final" /\ user'.op = "cancel"
    BY <2>1 DEF AfterCancel, TypeOK
  <2>3. Event(created)' = Event(created) \/ Event(created)' = h
    BY <1>1, <1>4, <1>9 DEF Event
  <2>4. Handed' = Handed
    BY <1>1, <1>h, <1>4, <2>3 DEF Handed
  <2>5. Ongoing'
    BY <2>2 DEF Ongoing, Calling
  <2>6. PausesTogether'
    BY <1>1, <1>h, <1>4, <1>6, <1>10, <1>13, <2>2, <2>3 DEF PausesTogether
  <2> HIDE DEF Handed, Baton, Ongoing
  <2> QED BY <1>1, <1>4, <1>7, <1>10, <1>11, <2>2, <2>4, <2>5, <2>6, RowOn
<1> QED BY <1>12, <1>13

LEMMA PursuitNext ==
  ASSUME Quiet, FastRuns = FALSE, TypeOK, RunsSettle, Order, Pursuit, [Next]_vars
  PROVE  Pursuit'
<1>1. ~Crash
  <2>1. crashes \in 0 .. 0 /\ ~(crashes < 0)
    BY DEF Quiet, TypeOK
  <2> QED BY <2>1 DEF Crash, Quiet
<1>2. ASSUME NEW r \in RunIds, CompleteStep(r) \/ FailedStep(r) \/ RunStep(r) PROVE Pursuit'
  BY <1>2, PursuitComplete, PursuitFailed, PursuitRunGoes, PursuitRunEnds DEF RunStep
<1>3. CASE UserStart \/ (\E op \in UserOps : UserCall(op)) \/ WatchdogStep \/ UNCHANGED vars
  <2>1. UNCHANGED <<worker, runs, created, handler>>
    BY <1>3 DEF UserStart, UserCall, UserRead, WatchdogStep, WatchdogFind, WatchdogUpdate, vars
  <2> QED BY <1>3, <2>1, PursuitAround
<1>4. CASE UserStep
  <2>1. ~UserResumeStage /\ ~UserAdvance /\ ~UserComplete
    BY DEF UserResumeStage, UserAdvance, UserComplete, Order, Calls
  <2>2. UNCHANGED <<worker, created>>
    BY <1>4 DEF UserStep, UserSave, UserEnqueue, UserEnqueueFails, UserPauseStage, UserResumeStage,
       UserCancelStage, UserCancelStageThrows, UserAdvance, UserComplete, UserFinal, UserUnqueue
  <2>3. UNCHANGED <<runs, handler>> \/ UserPauseStage \/ UserCancelStage
    BY <1>4, <2>1 DEF UserStep, UserSave, UserEnqueue, UserEnqueueFails,
       UserCancelStageThrows, UserFinal, UserUnqueue
  <2>4. CASE UNCHANGED <<runs, handler>>
    BY <1>4, <2>1, <2>2, <2>4, PursuitAround DEF UserStep
  <2> QED BY <2>3, <2>4, PursuitStops
<1> QED BY <1>1, <1>2, <1>3, <1>4, PursuitWorker DEF Next

\* With runs that end only after their id was saved, a RUNNING pipeline always
\* has its next step on the way, through any pause, cancellation, stale kill,
\* retry and failure: a stage job waits, is executed or is about to be queued,
\* a call is about to cancel it, or the run it is linked to works or has an
\* event that is still being handled.  No event of that run finds the pipeline
\* missing and no job of it is removed (enqueueStageJob, handle...Completion,
\* handle...Failed, pausePipeline, cancelPipelineInternal).
THEOREM RunningIsPursued == ASSUME Quiet, FastRuns = FALSE PROVE Spec => []NeverAbandoned
<1>1. Init => Pursuit
  <2>1. SUFFICES ASSUME Init PROVE Pursuit
    OBVIOUS
  <2>2. row.status = "PENDING"
    BY <2>1 DEF Init, Blank
  <2>3. worker.pc = "idle" /\ \A r \in RunIds : Event(r).pc = "none"
    BY <2>1 DEF Init, IdleWorker, NewHandler, Event, Kinds
  <2> QED BY <2>2, <2>3 DEF Pursuit, LinkIsFresh, RowLinked, CopiesLinked, Awaited,
             UnqueuesBehind, PausesTogether
<1>2. TypeOK /\ RunsSettle /\ Order /\ Pursuit /\ [Next]_vars => Pursuit'
  BY PursuitNext
<1>3. TypeOK /\ RunsSettle /\ Order /\ Pursuit => NeverAbandoned
  <2>1. SUFFICES ASSUME TypeOK, Order, Pursuit, row.status = "RUNNING", ~Baton, worker.pc # "link"
                 PROVE  NeverAbandoned
    <3>1. CASE Baton
      BY <3>1 DEF Baton, NeverAbandoned, Event
    <3> QED BY <3>1 DEF NeverAbandoned
  <2>2. created # NoRun /\ ~Handed /\ (Event(created).pc = "none" => Ongoing)
    BY <2>1 DEF Pursuit, Awaited
  <2>3. created \in RunIds
    BY <2>1, <2>2, Types
  <2>4. row.stage = runs[created].stage /\ row.link[row.stage] = created
    <3>1. row.stage = runs[created].stage
      BY <2>1, <2>2 DEF Order, Standing
    <3> QED BY <2>1, <2>2, <3>1 DEF Pursuit, RowLinked
  <2>5. \/ Calling \/ Working(created)
        \/ handler["completed"][created].pc \notin {"none", "over"}
        \/ handler["failed"][created].pc \notin {"none", "over"}
    BY <2>2, <2>3 DEF Handed, Ongoing, Event, Failed
  <2>6. "completed" \in Kinds /\ "failed" \in Kinds
    BY DEF Kinds
  <2> QED BY <2>3, <2>4, <2>5, <2>6 DEF NeverAbandoned, Calling
<1> QED BY <1>1, <1>2, <1>3, OrderAlways, PTL DEF Spec
=============================================================================
