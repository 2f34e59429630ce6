------------------------- MODULE LiveTradingProofs -------------------------
(***************************************************************************)
(* Theorems about LiveTrading for every set of cycles, users and admins,   *)
(* every lease and every set of faults.                                    *)
(***************************************************************************)
EXTENDS LiveTrading, TLAPS

TraderRecord == [pc: TraderPc, todo: SUBSET Users, user: Users]
AdminRecord  == [pc: AdminPc, to: BOOLEAN, row: BOOLEAN]

\* What is stored when nothing is in progress has the type of its variable.
LEMMA IdleTypes == IdleTrader \in TraderRecord /\ IdleAdmin \in AdminRecord /\ Free \in Lock
<1>1. (CHOOSE u \in Users: TRUE) \in Users
  BY TradingAssumption
<1>2. IdleTrader \in TraderRecord
  BY <1>1 DEF IdleTrader, TraderRecord, TraderPc
<1>3. IdleAdmin \in AdminRecord
  BY DEF IdleAdmin, AdminRecord, AdminPc
<1>4. Free \in Lock
  BY LockAssumption DEF Free, Lock
<1> QED BY <1>2, <1>3, <1>4

\* Every command on the key leaves a key of the same type.
LEMMA LockTypes ==
  ASSUME NEW l \in Lock
  PROVE  /\ \A t \in Tokens: Acquired(l, t) \in Lock
         /\ \A t \in Tokens \union {NoToken}: Released(l, t) \in Lock
         /\ Swept(l) \in Lock
         /\ Lapsed(l) \in Lock
<1>1. \A t \in Tokens: Acquired(l, t) \in Lock
  BY LockAssumption DEF Acquired, Lock
<1>2. \A t \in Tokens \union {NoToken}: Released(l, t) \in Lock
  BY IdleTypes DEF Released
<1>3. Swept(l) \in Lock
  BY IdleTypes DEF Swept
<1>4. Lapsed(l) \in Lock
  BY IdleTypes, LockAssumption DEF Lapsed, Lock
<1> QED BY <1>1, <1>2, <1>3, <1>4

\* The record of a pipeline with another pc and other users to do.
LEMMA MovesOn ==
  ASSUME NEW r \in TraderRecord, NEW todo \in SUBSET Users
  PROVE  [r EXCEPT !.pc = "next", !.todo = todo] \in TraderRecord
BY DEF TraderRecord, TraderPc

\* A pipeline that is done with a user goes on with the others.
LEMMA UserDoneType ==
  ASSUME trader \in [Traders -> TraderRecord], NEW t \in Traders, UserDone(t)
  PROVE  trader' \in [Traders -> TraderRecord]
<1>1. trader[t] \in TraderRecord
  OBVIOUS
<1>2. trader[t].todo \ {trader[t].user} \in SUBSET Users
  BY <1>1 DEF TraderRecord
<1> DEFINE r == [trader[t] EXCEPT !.pc = "next", !.todo = trader[t].todo \ {trader[t].user}]
<1>3. r \in TraderRecord
  BY <1>1, <1>2, MovesOn
<1>4. trader' = [trader EXCEPT ![t] = r]
  BY DEF UserDone
<1> QED BY <1>3, <1>4

-----------------------------------------------------------------------------
(* Type correctness *)

LEMMA TypeInit == Init => TypeOK
<1> SUFFICES ASSUME Init PROVE TypeOK
  OBVIOUS
<1>1. trader \in [Traders -> TraderRecord] /\ admin \in [Admins -> AdminRecord] /\ lock \in Lock
  BY IdleTypes DEF Init
<1> QED BY <1>1 DEF Init, TypeOK, TraderRecord, AdminRecord

\* The steps of a trading cycle keep the types.
LEMMA TypeCycle ==
  ASSUME TypeOK, NEW c \in Cycles,
         CronFires(c) \/ CycleStep(c) \/ AcquireError(c) \/ ReleaseError(c)
  PROVE  TypeOK'
<1> USE DEF TypeOK, process, switch, trades
<1>1. c \in Traders /\ c \in Tokens
  BY DEF Traders, Cycles
<1>a. IdleTrader \in [pc: TraderPc, todo: SUBSET Users, user: Users]
  BY IdleTypes DEF TraderRecord
<1>2. CASE CronFires(c)
  BY <1>1, <1>2 DEF CronFires, Goto, TraderPc
<1>b. Acquired(lock, c) \in Lock
  BY <1>1, LockTypes
<1>3. CASE Acquire(c)
  <2>1. CASE CanAcquire(lock)
    BY <1>1, <1>b, <1>3, <2>1 DEF Acquire, Goto, TraderPc
  <2>2. CASE ~CanAcquire(lock)
    BY <1>1, <1>a, <1>3, <2>2 DEF Acquire
  <2> QED BY <2>1, <2>2
<1>4. CASE LoadUsers(c)
  <2>1. PICK todo \in {enrolled, {}}:
          trader' = [trader EXCEPT ![c] = [trader[c] EXCEPT !.pc = "next", !.todo = todo]]
    BY <1>4 DEF LoadUsers
  <2>2. [trader[c] EXCEPT !.pc = "next", !.todo = todo] \in [pc: TraderPc, todo: SUBSET Users, user: Users]
    BY <1>1, MovesOn DEF TraderRecord
  <2> QED BY <1>1, <1>4, <2>1, <2>2 DEF LoadUsers
<1>5. CASE Release(c)
  BY <1>1, <1>5, LockTypes DEF Release, Goto, TraderPc
<1>6. CASE Clear(c)
  BY <1>1, <1>a, <1>6 DEF Clear
<1>7. ASSUME NEW u \in Users, UserError(c, u) PROVE TypeOK'
  BY <1>1, <1>7 DEF UserError
<1>8. CASE AcquireError(c)
  BY <1>1, <1>a, <1>b, <1>8 DEF AcquireError, Fault
<1>9. CASE ReleaseError(c)
  BY <1>1, <1>9 DEF ReleaseError, Goto, Fault, TraderPc
<1> QED BY <1>2, <1>3, <1>4, <1>5, <1>6, <1>7, <1>8, <1>9 DEF CycleStep

\* So does what both pipelines do for a user, and the start and end of a job.
LEMMA TypeTrade ==
  ASSUME TypeOK, NEW t \in Traders, TradeStep(t) \/ FaultStep(t)
  PROVE  TypeOK'
<1> USE DEF TypeOK, process, switch, trades
<1>1. CASE PlaceOrder(t)
  BY <1>1 DEF PlaceOrder, Goto, TraderPc
<1>2. CASE OrderFails(t)
  BY <1>2, UserDoneType DEF OrderFails, TraderRecord
<1>3. CASE Track(t)
  BY <1>3, UserDoneType DEF Track, TraderRecord
<1>4. ASSUME NEW u \in Users, NoTrade(t, u) PROVE TypeOK'
  BY <1>4 DEF NoTrade
<1>5. ASSUME NEW u \in Users, Claim(t, u) PROVE TypeOK'
  BY <1>5 DEF Claim, TraderPc
<1>6. CASE TrackingFails(t)
  BY <1>6, UserDoneType DEF TrackingFails, Fault, TraderRecord
<1>7. ASSUME NEW u \in Users, ClaimError(t, u) PROVE TypeOK'
  BY <1>7 DEF ClaimError, Fault, TraderPc
<1> QED BY <1>1, <1>2, <1>3, <1>4, <1>5, <1>6, <1>7 DEF TradeStep, FaultStep

LEMMA TypeJob ==
  ASSUME TypeOK, JobStarts \/ JobEnds
  PROVE  TypeOK'
<1> USE DEF TypeOK, process, switch, trades
<1>1. Job \in Traders
  BY DEF Traders
<1>2. CASE JobStarts
  BY <1>1, <1>2 DEF JobStarts, TraderPc
<1>3. CASE JobEnds
  BY <1>1, <1>3, IdleTypes DEF JobEnds, TraderRecord
<1> QED BY <1>2, <1>3

\* So do the admins, and whatever happens to the process and around it.
LEMMA TypeAdmin ==
  ASSUME TypeOK, NEW a \in Admins,
         AdminStep(a) \/ SaveFails(a) \/ \E to \in BOOLEAN: Begin(a, to)
  PROVE  TypeOK'
<1> USE DEF TypeOK, process, switch, trades
<1>a. IdleAdmin \in [pc: AdminPc, to: BOOLEAN, row: BOOLEAN]
  BY IdleTypes DEF AdminRecord
<1>1. CASE Check(a)
  BY <1>a, <1>1 DEF Check, AdminPc
<1>2. CASE Save(a)
  BY <1>2 DEF Save, AdminPc
<1>3. CASE RefreshRead(a)
  BY <1>3 DEF RefreshRead, AdminPc
<1>4. CASE RefreshAssign(a)
  BY <1>a, <1>4 DEF RefreshAssign
<1>5. CASE SaveFails(a)
  BY <1>a, <1>5 DEF SaveFails, Fault
<1>6. ASSUME NEW to \in BOOLEAN, Begin(a, to) PROVE TypeOK'
  BY <1>6 DEF Begin, Fault, AdminPc
<1> QED BY <1>1, <1>2, <1>3, <1>4, <1>5, <1>6 DEF AdminStep

LEMMA TypeProcess ==
  ASSUME TypeOK, Crash \/ Shutdown \/ Boot \/ Tick \/ \E u \in Users: Enrol(u) \/ CooldownEnds(u)
  PROVE  TypeOK'
<1> USE DEF TypeOK, process, switch, trades
<1>1. ASSUME Gone PROVE trader' \in [Traders -> TraderRecord] /\ admin' \in [Admins -> AdminRecord]
  BY <1>1, IdleTypes DEF Gone
<1>2. CASE Crash
  BY <1>1, <1>2 DEF Crash, Gone, Fault, TraderRecord, AdminRecord
<1>3. CASE Shutdown
  <2>1. Released(Released(lock, held), current) \in Lock
    BY LockTypes
  <2> QED BY <1>1, <1>3, <2>1 DEF Shutdown, Gone, Fault, TraderRecord, AdminRecord
<1>4. CASE Boot
  BY <1>4, LockTypes DEF Boot
<1>5. CASE Tick
  BY <1>5, LockTypes DEF Tick
<1>6. ASSUME NEW u \in Users, Enrol(u) PROVE TypeOK'
  BY <1>6 DEF Enrol
<1>7. ASSUME NEW u \in Users, CooldownEnds(u) PROVE TypeOK'
  BY <1>7 DEF CooldownEnds
<1> QED BY <1>2, <1>3, <1>4, <1>5, <1>6, <1>7

LEMMA TypeStep == TypeOK /\ [Next]_vars => TypeOK'
<1> SUFFICES ASSUME TypeOK, [Next]_vars PROVE TypeOK'
  OBVIOUS
<1>1. CASE UNCHANGED vars
  BY <1>1 DEF TypeOK, vars, process, switch, trades
<1>2. CASE Next
  BY <1>2, TypeCycle, TypeTrade, TypeJob, TypeAdmin, TypeProcess DEF Next
<1> QED BY <1>1, <1>2

\* Whatever cycles, job, admins and faults do, every variable keeps its type:
\* a key never lives longer than the lease that was asked for.
THEOREM TypeCorrect == Spec => []TypeOK
BY TypeInit, TypeStep, PTL DEF Spec

-----------------------------------------------------------------------------
(***************************************************************************)
(* The lease.  As long as a cycle ends before its lease does, the key is   *)
(* its own: the rest of the key's life and the age of the cycle add up to  *)
(* the lease.  The field with the token is shared by the cycles, so what   *)
(* the release uses is the cycle's token or none at all, never another's.  *)
(***************************************************************************)
Dead == ~alive => /\ \A t \in Traders: trader[t].pc = "idle"
                  /\ \A a \in Admins: admin[a].pc = "idle"

OwnsKey(c) ==
  /\ lock.token = c
  /\ lock.ttl + age[c] = LeaseTtl
  /\ age[c] <= CycleLimit
  /\ current \in {c, NoToken}

Lease == \A c \in Cycles: IF Trading(c) THEN OwnsKey(c) ELSE age[c] = 0

\* A process that is down has nothing in progress.
LEMMA DeadStep == TypeOK /\ Dead /\ [Next]_vars => Dead'
<1> SUFFICES ASSUME TypeOK, Dead, [Next]_vars PROVE Dead'
  OBVIOUS
<1> USE DEF Dead
<1>1. CASE UNCHANGED vars
  BY <1>1 DEF vars, process, switch
<1>2. ASSUME NEW c \in Cycles, CronFires(c) \/ CycleStep(c) \/ AcquireError(c) \/ ReleaseError(c)
      PROVE  Dead'
  <2>1. c \in Traders
    BY DEF Traders
  <2> QED BY <1>2, <2>1 DEF CycleStep, CronFires, Acquire, LoadUsers, Release, Clear, UserError,
                            AcquireError, ReleaseError, switch
<1>3. ASSUME NEW t \in Traders, TradeStep(t) \/ FaultStep(t) PROVE Dead'
  BY <1>3 DEF TradeStep, FaultStep, PlaceOrder, OrderFails, Track, NoTrade, Claim, TrackingFails,
              ClaimError, switch
<1>4. CASE JobStarts \/ JobEnds
  <2>1. Job \in Traders
    BY DEF Traders
  <2> QED BY <1>4, <2>1 DEF JobStarts, JobEnds
<1>5. ASSUME NEW a \in Admins, AdminStep(a) \/ SaveFails(a) \/ \E to \in BOOLEAN: Begin(a, to)
      PROVE  Dead'
  BY <1>5 DEF AdminStep, SaveFails, Begin, Check, Save, RefreshRead, RefreshAssign
<1>6. CASE Crash \/ Shutdown
  BY <1>6 DEF Crash, Shutdown, Gone, IdleTrader, IdleAdmin
<1>7. CASE Boot
  BY <1>7 DEF Boot
<1>8. CASE Tick
  BY <1>8 DEF Tick, switch
<1>9. ASSUME NEW u \in Users, Enrol(u) \/ CooldownEnds(u) PROVE Dead'
  BY <1>9 DEF Enrol, CooldownEnds, process, switch
<1> QED BY <1>1, <1>2, <1>3, <1>4, <1>5, <1>6, <1>7, <1>8, <1>9 DEF Next

\* Only one cycle can own the key.
LEMMA OneOwner ==
  ASSUME Lease, NEW c \in Cycles, NEW d \in Cycles, Trading(c), Trading(d)
  PROVE  c = d
BY DEF Lease, OwnsKey

\* The steps of a cycle keep the lease: a key that is taken was nobody's, and a
\* release touches no key but the cycle's own.
LEMMA LeaseCycle ==
  ASSUME TypeOK, Lease, NEW c \in Cycles,
         CronFires(c) \/ CycleStep(c) \/ AcquireError(c) \/ ReleaseError(c)
  PROVE  Lease'
<1>1. c \in Traders /\ Cycles \subseteq Traders /\ c # NoToken
  BY LockAssumption DEF Traders, Cycles
<1>2. \A d \in Cycles: trader[d] \in TraderRecord /\ age[d] \in Nat
  BY <1>1 DEF TypeOK, TraderRecord
<1>3. IdleTrader.pc = "idle"
  BY DEF IdleTrader
<1>4. CASE CronFires(c)
  BY <1>1, <1>4 DEF CronFires, Goto, Lease, Trading, OwnsKey, TypeOK
<1>5. CASE Acquire(c)
  <2>1. CASE CanAcquire(lock)
    <3>1. \A d \in Cycles: ~Trading(d)
      BY <2>1, LockAssumption DEF CanAcquire, Lease, OwnsKey, Cycles
    <3>2. \A d \in Cycles: age'[d] = 0
      BY <1>5, <3>1 DEF Acquire, Lease
    <3>3. OwnsKey(c)'
      BY <1>5, <2>1, <3>2, LockAssumption, TradingAssumption DEF Acquire, Acquired, OwnsKey
    <3>4. \A d \in Cycles \ {c}: ~Trading(d)'
      BY <1>1, <1>5, <2>1, <3>1 DEF Acquire, Goto, Trading, TypeOK
    <3> QED BY <3>2, <3>3, <3>4 DEF Lease
  <2>2. CASE ~CanAcquire(lock)
    BY <1>1, <1>3, <1>5, <2>2 DEF Acquire, Lease, Trading, OwnsKey, TypeOK
  <2> QED BY <2>1, <2>2
<1>6. CASE AcquireError(c)
  <2>1. lock' = lock \/ \A d \in Cycles: ~Trading(d)
    BY <1>6, LockAssumption DEF AcquireError, CanAcquire, Lease, OwnsKey, Cycles
  <2>2. \A d \in Cycles: Trading(d)' => Trading(d) /\ d # c
    BY <1>1, <1>3, <1>6 DEF AcquireError, Trading, TypeOK
  <2>3. \A d \in Cycles: Trading(d) => Trading(d)'
    BY <1>1, <1>6 DEF AcquireError, Trading, TypeOK
  <2> QED BY <1>6, <2>1, <2>2, <2>3 DEF AcquireError, Lease, OwnsKey
<1>7. CASE LoadUsers(c)
  BY <1>1, <1>7 DEF LoadUsers, Lease, Trading, OwnsKey, TypeOK
<1>8. ASSUME NEW u \in Users, UserError(c, u) PROVE Lease'
  BY <1>1, <1>8 DEF UserError, Lease, Trading, OwnsKey, TypeOK
<1>9. CASE Release(c) \/ ReleaseError(c)
  <2>1. Trading(c)
    BY <1>9 DEF Release, ReleaseError, Trading
  <2>2. \A d \in Cycles: ~Trading(d)'
    BY <1>1, <1>9, <2>1, OneOwner DEF Release, ReleaseError, Goto, Trading, TypeOK
  <2>3. \A d \in Cycles: age'[d] = 0
    BY <1>9, <2>1, OneOwner DEF Release, ReleaseError, Lease, TypeOK
  <2> QED BY <2>2, <2>3 DEF Lease
<1>10. CASE Clear(c)
  BY <1>1, <1>3, <1>10 DEF Clear, Lease, Trading, OwnsKey, TypeOK
<1> QED BY <1>4, <1>5, <1>6, <1>7, <1>8, <1>9, <1>10 DEF CycleStep

\* For a user a pipeline goes from "next" through "claimed" and "placed" to
\* "next", and moves no other pipeline.
LEMMA PcOfTrade ==
  ASSUME TypeOK, NEW t \in Traders, TradeStep(t) \/ FaultStep(t)
  PROVE  /\ trader[t].pc \in {"next", "claimed", "placed"} /\ trader'[t].pc \in {"next", "claimed", "placed"}
         /\ \A d \in Traders \ {t}: trader'[d] = trader[d]
<1>0. trader[t] \in TraderRecord
  BY DEF TypeOK, TraderRecord
<1> USE <1>0 DEF TypeOK, TraderRecord
<1>1. CASE PlaceOrder(t)
  BY <1>1 DEF PlaceOrder, Goto
<1>2. CASE OrderFails(t) \/ Track(t) \/ TrackingFails(t)
  BY <1>2 DEF OrderFails, Track, TrackingFails, UserDone
<1>3. ASSUME NEW u \in Users, NoTrade(t, u)
      PROVE  /\ trader[t].pc = "next" /\ trader'[t].pc = "next"
             /\ \A d \in Traders \ {t}: trader'[d] = trader[d]
  BY <1>3 DEF NoTrade
<1>4. ASSUME NEW u \in Users, Claim(t, u) \/ ClaimError(t, u)
      PROVE  /\ trader[t].pc = "next" /\ trader'[t].pc = "claimed"
             /\ \A d \in Traders \ {t}: trader'[d] = trader[d]
  <2> DEFINE r == [trader[t] EXCEPT !.pc = "claimed", !.user = u]
  <2>1. trader' = [trader EXCEPT ![t] = r] /\ trader[t].pc = "next"
    BY <1>4 DEF Claim, ClaimError
  <2>2. r.pc = "claimed"
    BY <1>0
  <2> HIDE DEF r
  <2> QED BY <2>1, <2>2
<1>5. TradeStep(t) \/ FaultStep(t) =>
        \/ PlaceOrder(t) \/ OrderFails(t) \/ Track(t) \/ TrackingFails(t)
        \/ \E u \in Users: NoTrade(t, u) \/ Claim(t, u) \/ ClaimError(t, u)
  BY DEF TradeStep, FaultStep
<1> QED BY <1>1, <1>2, <1>3, <1>4, <1>5

\* What a pipeline does for its users leaves the lease alone.
LEMMA LeaseTrade ==
  ASSUME TypeOK, Lease, NEW t \in Traders, TradeStep(t) \/ FaultStep(t)
  PROVE  Lease'
<1>1. UNCHANGED <<lock, current, age>>
  BY DEF TradeStep, FaultStep, PlaceOrder, OrderFails, Track, NoTrade, Claim, TrackingFails, ClaimError
<1>2. /\ trader[t].pc \in {"next", "claimed", "placed"} /\ trader'[t].pc \in {"next", "claimed", "placed"}
      /\ \A d \in Traders \ {t}: trader'[d] = trader[d]
  BY PcOfTrade
<1>3. \A d \in Cycles: Trading(d)' <=> Trading(d)
  BY <1>2 DEF Trading, Traders
<1> QED BY <1>1, <1>3 DEF Lease, OwnsKey

\* The clock: the key of a cycle that may go on has more than one tick left.
LEMMA LeaseTick ==
  ASSUME TypeOK, Lease, Tick, CycleLimit < LeaseTtl
  PROVE  Lease'
<1> SUFFICES ASSUME NEW c \in Cycles
             PROVE  (IF Trading(c) THEN OwnsKey(c) ELSE age[c] = 0)'
  BY DEF Lease
<1>1. Trading(c)' <=> Trading(c)
  BY DEF Tick, Trading
<1>2. CASE ~Trading(c)
  BY <1>1, <1>2 DEF Tick
<1>3. CASE Trading(c)
  <2>1. age[c] \in Nat /\ age[c] < CycleLimit /\ lock.ttl + age[c] = LeaseTtl /\ lock.token = c
    BY <1>3 DEF Tick, Lease, OwnsKey, TypeOK
  <2>2. lock \in Lock /\ lock.ttl \in Nat /\ lock.ttl > 1
    BY <2>1, LockAssumption, TradingAssumption DEF TypeOK, Lock
  <2>3. lock' = [lock EXCEPT !.ttl = lock.ttl - 1]
    BY <2>2 DEF Tick, Lapsed
  <2>4. lock'.token = c /\ lock'.ttl = lock.ttl - 1
    BY <2>1, <2>2, <2>3 DEF Lock
  <2>5. age'[c] = age[c] + 1 /\ current' = current
    BY <1>3 DEF Tick
  <2> QED BY <1>1, <1>3, <2>1, <2>2, <2>4, <2>5, LockAssumption, TradingAssumption DEF Lease, OwnsKey
<1> QED BY <1>2, <1>3

\* Nothing else touches a key that a cycle trades under.
LEMMA LeaseStep ==
  ASSUME CycleLimit < LeaseTtl
  PROVE  TypeOK /\ Dead /\ Lease /\ [Next]_vars => Lease'
<1> SUFFICES ASSUME TypeOK, Dead, Lease, [Next]_vars PROVE Lease'
  OBVIOUS
<1> USE DEF Lease, OwnsKey, Trading
<1>1. CASE UNCHANGED vars
  BY <1>1 DEF vars, process
<1>2. CASE JobStarts \/ JobEnds
  <2>1. Job \notin Cycles /\ Cycles \subseteq Traders
    BY TradingAssumption DEF Cycles, Traders
  <2> QED BY <1>2, <2>1 DEF JobStarts, JobEnds, TypeOK
<1>3. ASSUME NEW a \in Admins, AdminStep(a) \/ SaveFails(a) \/ \E to \in BOOLEAN: Begin(a, to)
      PROVE  Lease'
  BY <1>3 DEF AdminStep, SaveFails, Begin, Check, Save, RefreshRead, RefreshAssign, process
<1>4. CASE Crash \/ Shutdown
  BY <1>4 DEF Crash, Shutdown, Gone, IdleTrader, Traders
<1>5. CASE Boot
  BY <1>5 DEF Boot, Dead, process, Traders
<1>6. ASSUME NEW u \in Users, Enrol(u) \/ CooldownEnds(u) PROVE Lease'
  BY <1>6 DEF Enrol, CooldownEnds, process
<1> QED BY <1>1, <1>2, <1>3, <1>4, <1>5, <1>6, LeaseCycle, LeaseTrade, LeaseTick DEF Next

\* As long as cycles end within their lease, no two of them trade at a time,
\* whatever Redis, the process and the other cycles do: LeaseHonoured for any
\* number of cycles and any lease.
THEOREM LeaseIsHonoured ==
  ASSUME CycleLimit < LeaseTtl
  PROVE  Spec => []LeaseHonoured
<1>1. Init => Dead /\ Lease
  BY DEF Init, Dead, Lease, Trading, IdleTrader, Traders
<1>2. Lease => LeaseHonoured
  BY OneOwner DEF LeaseHonoured
<1> QED BY <1>1, <1>2, TypeInit, TypeStep, DeadStep, LeaseStep, PTL DEF Spec

-----------------------------------------------------------------------------
(***************************************************************************)
(* The cooldown.  While Redis answers and orders are recorded, every trade *)
(* made or about to be made is covered by a claim, and nobody else's.      *)
(***************************************************************************)
Engaged(t) == trader[t].pc \in {"claimed", "placed"}

Covered ==
  /\ traded \subseteq cooldown
  /\ \A t \in Traders: Engaged(t) => trader[t].user \in cooldown
  /\ \A t \in Traders: trader[t].pc = "claimed" => trader[t].user \notin traded
  /\ \A s, t \in Traders: Engaged(s) /\ Engaged(t) /\ trader[s].user = trader[t].user => s = t

Claims == faults \intersect {"cooldown", "tracking"} = {} => Covered

\* A step that engages no pipeline and keeps the keys and the trades keeps the
\* claims.
LEMMA ClaimsKept ==
  ASSUME Claims, faults \subseteq faults', UNCHANGED trades,
         \A t \in Traders: Engaged(t)' => trader'[t] = trader[t]
  PROVE  Claims'
BY DEF Claims, Covered, Engaged, trades

\* The steps of a pipeline for one user keep them: a claim is new, and the one
\* that is given up is the pipeline's own and of no trade.
LEMMA ClaimsTrade ==
  ASSUME TypeOK, Claims, NEW t \in Traders, TradeStep(t) \/ FaultStep(t)
  PROVE  Claims'
<1>0. trader[t] \in TraderRecord
  BY DEF TypeOK, TraderRecord
<1>1. \A d \in Traders \ {t}: trader'[d] = trader[d]
  BY PcOfTrade
<1>2. CASE PlaceOrder(t)
  <2>1. trader'[t].pc = "placed" /\ trader'[t].user = trader[t].user
    BY <1>0, <1>2 DEF PlaceOrder, Goto, TypeOK, TraderRecord
  <2> QED BY <1>1, <1>2, <2>1 DEF PlaceOrder, Claims, Covered, Engaged
<1>3. CASE OrderFails(t)
  <2>1. trader'[t].pc = "next"
    BY <1>0, <1>3 DEF OrderFails, UserDone, TypeOK, TraderRecord
  <2> QED BY <1>1, <1>3, <2>1 DEF OrderFails, Claims, Covered, Engaged
<1>4. CASE Track(t)
  <2>1. trader'[t].pc = "next"
    BY <1>0, <1>4 DEF Track, UserDone, TypeOK, TraderRecord
  <2> QED BY <1>1, <1>4, <2>1, ClaimsKept DEF Track, Engaged
<1>5. ASSUME NEW u \in Users, NoTrade(t, u) PROVE Claims'
  <2>1. trader'[t].pc = "next"
    BY <1>0, <1>5 DEF NoTrade, TypeOK, TraderRecord
  <2> QED BY <1>1, <1>5, <2>1, ClaimsKept DEF NoTrade, Engaged
<1>6. ASSUME NEW u \in Users, Claim(t, u) PROVE Claims'
  <2> DEFINE r == [trader[t] EXCEPT !.pc = "claimed", !.user = u]
  <2>1. trader' = [trader EXCEPT ![t] = r]
    BY <1>6 DEF Claim
  <2>2. r.pc = "claimed" /\ r.user = u
    BY <1>0 DEF TraderRecord
  <2> HIDE DEF r
  <2>3. trader'[t].pc = "claimed" /\ trader'[t].user = u
    BY <2>1, <2>2 DEF TypeOK
  <2> QED BY <1>1, <1>6, <2>3 DEF Claim, Claims, Covered, Engaged
<1>7. CASE TrackingFails(t)
  BY <1>7 DEF TrackingFails, Fault, Claims
<1>8. ASSUME NEW u \in Users, ClaimError(t, u) PROVE Claims'
  BY <1>8 DEF ClaimError, Fault, Claims
<1> QED BY <1>2, <1>3, <1>4, <1>5, <1>6, <1>7, <1>8 DEF TradeStep, FaultStep

LEMMA ClaimsStep == TypeOK /\ Claims /\ [Next]_vars => Claims'
<1> SUFFICES ASSUME TypeOK, Claims, [Next]_vars PROVE Claims'
  OBVIOUS
<1>0. IdleTrader.pc = "idle"
  BY DEF IdleTrader
<1>1. CASE UNCHANGED vars
  BY <1>1, ClaimsKept DEF vars, process
<1>2. ASSUME NEW c \in Cycles, CronFires(c) \/ CycleStep(c) \/ AcquireError(c) \/ ReleaseError(c)
      PROVE  Claims'
  <2>1. c \in Traders /\ trader[c] \in TraderRecord
    BY DEF Traders, TypeOK, TraderRecord
  <2>2. faults \subseteq faults' /\ UNCHANGED trades
    BY <1>2 DEF CycleStep, CronFires, Acquire, LoadUsers, Release, Clear, UserError, AcquireError,
                ReleaseError, Fault
  <2>3. \A d \in Traders \ {c}: trader'[d] = trader[d]
    BY <1>2, <2>1 DEF CycleStep, CronFires, Acquire, LoadUsers, Release, Clear, UserError, AcquireError,
                ReleaseError, Goto, TypeOK
  <2>4. ~Engaged(c)'
    <3>1. CASE CronFires(c) \/ Acquire(c) \/ AcquireError(c) \/ Release(c) \/ ReleaseError(c) \/ Clear(c)
      BY <1>0, <2>1, <3>1 DEF CronFires, Acquire, AcquireError, Release, ReleaseError, Clear, Goto,
                              Engaged, TypeOK, TraderRecord
    <3>2. CASE LoadUsers(c)
      BY <2>1, <3>2 DEF LoadUsers, Engaged, TypeOK, TraderRecord
    <3>3. ASSUME NEW u \in Users, UserError(c, u) PROVE ~Engaged(c)'
      BY <2>1, <3>3 DEF UserError, Engaged, TypeOK, TraderRecord
    <3> QED BY <1>2, <3>1, <3>2, <3>3 DEF CycleStep
  <2> QED BY <2>2, <2>3, <2>4, ClaimsKept
<1>3. CASE JobStarts \/ JobEnds
  <2>1. Job \in Traders /\ trader[Job] \in TraderRecord
    BY DEF Traders, TypeOK, TraderRecord
  <2>2. \A d \in Traders \ {Job}: trader'[d] = trader[d]
    BY <1>3, <2>1 DEF JobStarts, JobEnds, TypeOK
  <2>3. ~Engaged(Job)'
    BY <1>0, <1>3, <2>1 DEF JobStarts, JobEnds, Engaged, TypeOK, TraderRecord
  <2> QED BY <1>3, <2>2, <2>3, ClaimsKept DEF JobStarts, JobEnds
<1>4. ASSUME NEW a \in Admins, AdminStep(a) \/ SaveFails(a) \/ \E to \in BOOLEAN: Begin(a, to)
      PROVE  Claims'
  BY <1>4, ClaimsKept DEF AdminStep, SaveFails, Begin, Check, Save, RefreshRead, RefreshAssign, Fault,
                          process, Engaged
<1>5. CASE Crash \/ Shutdown
  BY <1>0, <1>5, ClaimsKept DEF Crash, Shutdown, Gone, Fault, Engaged
<1>6. CASE Boot \/ Tick
  BY <1>6, ClaimsKept DEF Boot, Tick, process
<1>7. ASSUME NEW u \in Users, Enrol(u) PROVE Claims'
  BY <1>7, ClaimsKept DEF Enrol, process
<1>8. ASSUME NEW u \in Users, CooldownEnds(u) PROVE Claims'
  BY <1>8 DEF CooldownEnds, process, Claims, Covered, Engaged
<1> QED BY <1>1, <1>2, <1>3, <1>4, <1>5, <1>6, <1>7, <1>8, ClaimsTrade DEF Next

\* The same trade is not made twice within a cooldown while Redis answers and
\* orders are recorded, for any number of cycles, users and enrolments.
THEOREM TradesAreMadeOnce == Spec => RecordedTradedOnce
<1>1. Init => Claims
  BY DEF Init, Claims, Covered, Engaged, IdleTrader
<1>2. Claims /\ [Next]_vars => [PlacedOnce \/ faults \intersect {"cooldown", "tracking"} # {}]_vars
  BY DEF Claims, Covered, PlacedOnce
<1> QED BY <1>1, <1>2, TypeInit, TypeStep, ClaimsStep, PTL DEF Spec, RecordedTradedOnce

-----------------------------------------------------------------------------
(***************************************************************************)
(* The kill switch.  While saves succeed and admins do not overlap, the    *)
(* one at work knows the row: what it has read is what is stored, and the  *)
(* cache differs from it only until its call is over.                      *)
(***************************************************************************)
InStep ==
  /\ \A a, b \in Admins: admin[a].pc # "idle" /\ admin[b].pc # "idle" => a = b
  /\ alive /\ (\A a \in Admins: admin[a].pc = "idle") => cached = enabled
  /\ \A a \in Admins: admin[a].pc \in {"check", "assign"} => admin[a].row = enabled
  /\ \A a \in Admins: admin[a].pc = "save" => cached = admin[a].to
  /\ \A a \in Admins: admin[a].pc = "refresh" => cached = enabled

Switch == faults \intersect {"save", "overlap"} = {} => InStep

\* Every step of an admin keeps it.
LEMMA SwitchAdmin ==
  ASSUME TypeOK, Dead, Switch, NEW a \in Admins,
         AdminStep(a) \/ SaveFails(a) \/ \E to \in BOOLEAN: Begin(a, to)
  PROVE  Switch'
<1>0. admin[a] \in AdminRecord /\ enabled \in BOOLEAN /\ cached \in BOOLEAN
  BY DEF TypeOK, AdminRecord
<1>i. IdleAdmin.pc = "idle"
  BY DEF IdleAdmin
<1> USE DEF Switch, InStep, TypeOK
<1>1. CASE Check(a)
  <2>1. \A b \in Admins \ {a}: admin'[b] = admin[b]
    BY <1>1 DEF Check
  <2>2. CASE admin[a].row = admin[a].to
    <3>1. admin'[a] = IdleAdmin
      BY <1>1, <2>2 DEF Check
    <3> QED BY <1>i, <1>1, <2>1, <2>2, <3>1 DEF Check
  <2>3. CASE admin[a].row # admin[a].to
    <3>1. admin'[a].pc = "save" /\ admin'[a].to = admin[a].to
      BY <1>0, <1>1, <2>3 DEF Check, AdminRecord
    <3> QED BY <1>1, <2>1, <3>1 DEF Check
  <2> QED BY <2>2, <2>3
<1>2. CASE Save(a)
  BY <1>0, <1>2 DEF Save, AdminRecord
<1>3. CASE RefreshRead(a)
  <2> DEFINE r == [admin[a] EXCEPT !.pc = "assign", !.row = enabled]
  <2>1. admin' = [admin EXCEPT ![a] = r]
    BY <1>3 DEF RefreshRead
  <2>2. r.pc = "assign" /\ r.row = enabled
    BY <1>0 DEF AdminRecord
  <2> HIDE DEF r
  <2> QED BY <1>3, <2>1, <2>2 DEF RefreshRead
<1>4. CASE RefreshAssign(a)
  BY <1>i, <1>4 DEF RefreshAssign
<1>5. CASE SaveFails(a)
  BY <1>5 DEF SaveFails, Fault
<1>6. ASSUME NEW to \in BOOLEAN, Begin(a, to) PROVE Switch'
  <2>1. CASE \A b \in Admins: admin[b].pc = "idle"
    BY <1>6, <2>1 DEF Begin
  <2>2. CASE ~\A b \in Admins: admin[b].pc = "idle"
    BY <1>6, <2>2 DEF Begin, Fault
  <2> QED BY <2>1, <2>2
<1> QED BY <1>1, <1>2, <1>3, <1>4, <1>5, <1>6 DEF AdminStep

LEMMA SwitchStep == TypeOK /\ Dead /\ Switch /\ [Next]_vars => Switch'
<1> SUFFICES ASSUME TypeOK, Dead, Switch, [Next]_vars PROVE Switch'
  OBVIOUS
<1>1. ASSUME UNCHANGED <<switch, alive>>, faults \subseteq faults' PROVE Switch'
  BY <1>1 DEF Switch, InStep, switch
<1>2. CASE UNCHANGED vars
  BY <1>1, <1>2 DEF vars
<1>3. ASSUME NEW c \in Cycles, CronFires(c) \/ CycleStep(c) \/ AcquireError(c) \/ ReleaseError(c)
      PROVE  Switch'
  BY <1>1, <1>3 DEF CycleStep, CronFires, Acquire, LoadUsers, Release, Clear, UserError, AcquireError,
                    ReleaseError, Fault
<1>4. ASSUME NEW t \in Traders, TradeStep(t) \/ FaultStep(t) PROVE Switch'
  BY <1>1, <1>4 DEF TradeStep, FaultStep, PlaceOrder, OrderFails, Track, NoTrade, Claim, TrackingFails,
                    ClaimError, Fault
<1>5. CASE JobStarts \/ JobEnds
  BY <1>1, <1>5 DEF JobStarts, JobEnds
<1>6. CASE Crash \/ Shutdown
  BY <1>6 DEF Crash, Shutdown, Gone, Fault, IdleAdmin, Switch, InStep
<1>7. CASE Boot
  BY <1>7 DEF Boot, Dead, Switch, InStep
<1>8. CASE Tick
  BY <1>1, <1>8 DEF Tick
<1>9. ASSUME NEW u \in Users, Enrol(u) \/ CooldownEnds(u) PROVE Switch'
  BY <1>1, <1>9 DEF Enrol, CooldownEnds
<1> QED BY <1>2, <1>3, <1>4, <1>5, <1>6, <1>7, <1>8, <1>9, SwitchAdmin DEF Next

\* A halt on record is seen by the pipelines of a running process, for any
\* number of admins, as long as saves succeed and admins do not overlap.
THEOREM HaltsAreSeen == Spec => []SavedHaltIsSeen
<1>1. ASSUME Init PROVE Dead /\ Switch
  <2>1. \A a \in Admins: admin[a].pc = "idle"
    BY <1>1 DEF Init, IdleAdmin
  <2>2. alive = TRUE /\ cached = enabled
    BY <1>1 DEF Init
  <2>3. Dead
    BY <2>2 DEF Dead
  <2>4. Switch
    BY <2>1, <2>2 DEF Switch, InStep
  <2> QED BY <2>3, <2>4
<1>2. Switch => SavedHaltIsSeen
  BY DEF Switch, InStep, SavedHaltIsSeen, HaltIsSeen
<1> QED BY <1>1, <1>2, TypeInit, TypeStep, DeadStep, SwitchStep, PTL DEF Spec
=============================================================================
