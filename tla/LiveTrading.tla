----------------------------- MODULE LiveTrading -----------------------------
(***************************************************************************)
(* The two pipelines that place orders by themselves, in one API process:  *)
(* LiveTradingService (a cron job under a distributed lock, for the users  *)
(* enrolled in algo trading) and TradeExecutionTask (a queue job, for the  *)
(* others), with what keeps them apart and what stops them: the lock, the  *)
(* boot-time sweep, the trade cooldown and the admin's kill switch.        *)
(*                                                                         *)
(* A trade is one (user, symbol, direction) key of the cooldown, written   *)
(* as the user it is for.  A step is what runs between two awaits.         *)
(***************************************************************************)
EXTENDS DistributedLock, FiniteSets

CONSTANTS Users,
          Admins,
          CycleLimit,        \* how long a trading cycle may take, in ticks
          Faults,            \* the kinds of fault that may happen
          MaxFaults          \* bound on the kinds that do, each any number of times

\* The process stops or cannot reach the lock; Redis does not answer for the
\* cooldown; the trading state cannot be saved; an order cannot be recorded; an
\* admin halts or resumes while another one does.
FaultKinds == {"outage", "cooldown", "save", "tracking", "overlap"}

Job == "trade-execution"

ASSUME TradingAssumption ==
    /\ IsFiniteSet(Users) /\ Users # {}
    /\ Job \notin Tokens
    /\ CycleLimit \in Nat
    /\ MaxFaults \in Nat
    /\ Faults \subseteq FaultKinds

\* The executions of executeLiveTrading; each acquires with a token of its own.
Cycles == Tokens

Traders == Cycles \union {Job}

VARIABLES
    lock,       \* LOCK_KEYS.LIVE_TRADING in Redis
    current,    \* LiveTradingService.currentLockToken
    held,       \* DistributedLockService.heldTokens of that key
    trader,     \* per cycle and for the job: pc, users to do, the user at hand
    age,        \* per cycle: ticks since it acquired the lock
    enrolled,   \* user.algoTradingEnabled
    cooldown,   \* users with an unexpired cooldown key in Redis
    traded,     \* history: users for whom an order was placed in this window
    enabled,    \* trading_state.tradingEnabled in the database
    cached,     \* TradingStateService.cachedState.tradingEnabled
    admin,      \* per admin: the halt or resume in progress
    alive,      \* the process runs
    faults      \* the kinds of fault there have been

process == <<current, held, trader, age>>
switch  == <<enabled, cached, admin>>
trades  == <<cooldown, traded>>
vars == <<lock, process, enrolled, trades, switch, alive, faults>>

\* Where a pipeline is: "acquire" awaits SET NX, "load" the users, "next" is the
\* top of the loop over users, "claimed" has the cooldown key, "placed" has an
\* order on the exchange, "clear" is after the release.
TraderPc == {"idle", "acquire", "load", "next", "claimed", "placed", "clear"}

AdminPc == {"idle", "check", "save", "refresh", "assign"}

\* Every variable holds a value the code can store.
TypeOK ==
    /\ lock \in Lock
    /\ current \in Tokens \union {NoToken}
    /\ held \in Tokens \union {NoToken}
    /\ trader \in [Traders -> [pc: TraderPc, todo: SUBSET Users, user: Users]]
    /\ age \in [Cycles -> Nat]
    /\ enrolled \subseteq Users
    /\ cooldown \subseteq Users
    /\ traded \subseteq Users
    /\ enabled \in BOOLEAN
    /\ cached \in BOOLEAN
    /\ admin \in [Admins -> [pc: AdminPc, to: BOOLEAN, row: BOOLEAN]]
    /\ alive \in BOOLEAN
    /\ faults \subseteq Faults

IdleTrader == [pc |-> "idle", todo |-> {}, user |-> CHOOSE u \in Users: TRUE]
IdleAdmin  == [pc |-> "idle", to |-> FALSE, row |-> FALSE]

Init ==
    /\ lock = Free
    /\ current = NoToken
    /\ held = NoToken
    /\ trader = [t \in Traders |-> IdleTrader]
    /\ age = [c \in Cycles |-> 0]
    /\ enrolled \in SUBSET Users
    /\ cooldown = {}
    /\ traded = {}
    /\ enabled = TRUE
    /\ cached = TRUE
    /\ admin = [a \in Admins |-> IdleAdmin]
    /\ alive = TRUE
    /\ faults = {}

Fault(kind) ==
    /\ kind \in Faults
    /\ Cardinality(faults \union {kind}) <= MaxFaults
    /\ faults' = faults \union {kind}

Goto(t, pc) == trader' = [trader EXCEPT ![t].pc = pc]

-----------------------------------------------------------------------------
(* LiveTradingService.executeLiveTrading *)

\* The cron fires whether or not an earlier cycle is still running.
CronFires(c) ==
    /\ alive /\ cached
    /\ trader[c].pc = "idle"
    /\ Goto(c, "acquire")
    /\ UNCHANGED <<lock, current, held, age, enrolled, trades, switch, alive, faults>>

\* acquire() without retries: the key is taken, or the cycle is skipped.
Acquire(c) ==
    /\ trader[c].pc = "acquire"
    /\ IF CanAcquire(lock)
       THEN /\ lock' = Acquired(lock, c)
            /\ current' = c
            /\ held' = c
            /\ Goto(c, "load")
       ELSE /\ trader' = [trader EXCEPT ![c] = IdleTrader]
            /\ UNCHANGED <<lock, current, held>>
    /\ UNCHANGED <<age, enrolled, trades, switch, alive, faults>>

\* Redis fails, before or after it has set the key: acquire() reports neither.
AcquireError(c) ==
    /\ trader[c].pc = "acquire"
    /\ Fault("outage")
    /\ lock' \in {lock, IF CanAcquire(lock) THEN Acquired(lock, c) ELSE lock}
    /\ trader' = [trader EXCEPT ![c] = IdleTrader]
    /\ UNCHANGED <<current, held, age, enrolled, trades, switch, alive>>

\* The users to trade for are read once; nobody is, if the query fails.
LoadUsers(c) ==
    /\ trader[c].pc = "load"
    /\ \E todo \in {enrolled, {}}:
          trader' = [trader EXCEPT ![c] = [@ EXCEPT !.pc = "next", !.todo = todo]]
    /\ UNCHANGED <<lock, current, held, age, enrolled, trades, switch, alive, faults>>

\* A user fails.  handleUserError counts the strikes, which are left out here:
\* at the limit the user leaves algo trading, if that can be saved.
UserError(c, u) ==
    /\ trader[c].pc = "next"
    /\ u \in trader[c].todo
    /\ trader' = [trader EXCEPT ![c].todo = @ \ {u}]
    /\ enrolled' \in {enrolled, enrolled \ {u}}
    /\ UNCHANGED <<lock, current, held, age, trades, switch, alive, faults>>

\* The loop is over: the lock is released with the token in the shared field...
Release(c) ==
    /\ trader[c].pc = "next"
    /\ trader[c].todo = {}
    /\ lock' = Released(lock, current)
    /\ held' = IF held = current THEN NoToken ELSE held
    /\ age' = [age EXCEPT ![c] = 0]
    /\ Goto(c, "clear")
    /\ UNCHANGED <<current, enrolled, trades, switch, alive, faults>>

\* ... or Redis fails and it stays until its time is up ...
ReleaseError(c) ==
    /\ trader[c].pc = "next"
    /\ trader[c].todo = {}
    /\ Fault("outage")
    /\ age' = [age EXCEPT ![c] = 0]
    /\ Goto(c, "clear")
    /\ UNCHANGED <<lock, current, held, enrolled, trades, switch, alive>>

\* ... and then the field is cleared, whoever has set it since.
Clear(c) ==
    /\ trader[c].pc = "clear"
    /\ current' = NoToken
    /\ trader' = [trader EXCEPT ![c] = IdleTrader]
    /\ UNCHANGED <<lock, held, age, enrolled, trades, switch, alive, faults>>

-----------------------------------------------------------------------------
(* TradeExecutionTask *)

\* Mutant: a job that was queued before the halt is not stopped by it.
JobStartsRegardless ==
    /\ alive
    /\ trader[Job].pc = "idle"
    /\ trader' = [trader EXCEPT ![Job] = [@ EXCEPT !.pc = "next", !.todo = Users \ enrolled]]
    /\ UNCHANGED <<lock, current, held, age, enrolled, trades, switch, alive, faults>>

\* The job starts unless trading is halted; users in algo trading are left to
\* the other pipeline.
JobStarts ==
    /\ alive /\ cached
    /\ trader[Job].pc = "idle"
    /\ trader' = [trader EXCEPT ![Job] = [@ EXCEPT !.pc = "next", !.todo = Users \ enrolled]]
    /\ UNCHANGED <<lock, current, held, age, enrolled, trades, switch, alive, faults>>

JobEnds ==
    /\ trader[Job].pc = "next"
    /\ trader[Job].todo = {}
    /\ trader' = [trader EXCEPT ![Job] = IdleTrader]
    /\ UNCHANGED <<lock, current, held, age, enrolled, trades, switch, alive, faults>>

-----------------------------------------------------------------------------
(* What both pipelines do for one user *)

UserDone(t) ==
    trader' = [trader EXCEPT ![t] = [@ EXCEPT !.pc = "next", !.todo = trader[t].todo \ {trader[t].user}]]

\* No signal, or a gate (daily loss, regime, drawdown, concentration, funds)
\* that blocks it, or a cooldown key that exists.
NoTrade(t, u) ==
    /\ trader[t].pc = "next"
    /\ u \in trader[t].todo
    /\ trader' = [trader EXCEPT ![t].todo = @ \ {u}]
    /\ UNCHANGED <<lock, current, held, age, enrolled, trades, switch, alive, faults>>

\* Mutant: SET without NX, an existing claim is overwritten.
ClaimUnchecked(t, u) ==
    /\ trader[t].pc = "next"
    /\ u \in trader[t].todo
    /\ cooldown' = cooldown \union {u}
    /\ trader' = [trader EXCEPT ![t] = [@ EXCEPT !.pc = "claimed", !.user = u]]
    /\ UNCHANGED <<lock, current, held, age, enrolled, traded, switch, alive, faults>>

\* checkAndClaim sets the key, in one script, if it is not there.
Claim(t, u) ==
    /\ trader[t].pc = "next"
    /\ u \in trader[t].todo
    /\ u \notin cooldown
    /\ cooldown' = cooldown \union {u}
    /\ trader' = [trader EXCEPT ![t] = [@ EXCEPT !.pc = "claimed", !.user = u]]
    /\ UNCHANGED <<lock, current, held, age, enrolled, traded, switch, alive, faults>>

\* Redis fails: the trade is let through without a claim.
ClaimError(t, u) ==
    /\ trader[t].pc = "next"
    /\ u \in trader[t].todo
    /\ Fault("cooldown")
    /\ trader' = [trader EXCEPT ![t] = [@ EXCEPT !.pc = "claimed", !.user = u]]
    /\ UNCHANGED <<lock, current, held, age, enrolled, trades, switch, alive>>

\* The exchange accepts the order.
PlaceOrder(t) ==
    /\ trader[t].pc = "claimed"
    /\ traded' = traded \union {trader[t].user}
    /\ Goto(t, "placed")
    /\ UNCHANGED <<lock, current, held, age, enrolled, cooldown, switch, alive, faults>>

\* It does not: the cooldown is cleared so that the next cycle can retry.
OrderFails(t) ==
    /\ trader[t].pc = "claimed"
    /\ cooldown' = cooldown \ {trader[t].user}
    /\ UserDone(t)
    /\ UNCHANGED <<lock, current, held, age, enrolled, traded, switch, alive, faults>>

\* The order is saved and the position updated.
Track(t) ==
    /\ trader[t].pc = "placed"
    /\ UserDone(t)
    /\ UNCHANGED <<lock, current, held, age, enrolled, trades, switch, alive, faults>>

\* One of those writes fails: the same handler clears the cooldown of a trade
\* that has been made.
TrackingFails(t) ==
    /\ trader[t].pc = "placed"
    /\ Fault("tracking")
    /\ cooldown' = cooldown \ {trader[t].user}
    /\ UserDone(t)
    /\ UNCHANGED <<lock, current, held, age, enrolled, traded, switch, alive>>

-----------------------------------------------------------------------------
(* TradingStateService *)

\* haltTrading and resumeTrading: getState reads the row ...
Begin(a, to) ==
    /\ alive
    /\ admin[a].pc = "idle"
    /\ admin' = [admin EXCEPT ![a] = [pc |-> "check", to |-> to, row |-> enabled]]
    /\ IF \A b \in Admins: admin[b].pc = "idle" THEN UNCHANGED faults ELSE Fault("overlap")
    /\ UNCHANGED <<lock, process, enrolled, trades, enabled, cached, alive>>

\* ... which becomes the cache; unless there is nothing to do, the cached object
\* itself is then changed, before it is saved.
Check(a) ==
    /\ admin[a].pc = "check"
    /\ cached' = admin[a].to
    /\ admin' = [admin EXCEPT ![a] = IF @.row = @.to THEN IdleAdmin
                                                   ELSE [@ EXCEPT !.pc = "save"]]
    /\ UNCHANGED <<lock, process, enrolled, trades, enabled, alive, faults>>

Save(a) ==
    /\ admin[a].pc = "save"
    /\ enabled' = admin[a].to
    /\ admin' = [admin EXCEPT ![a].pc = "refresh"]
    /\ UNCHANGED <<lock, process, enrolled, trades, cached, alive, faults>>

SaveFails(a) ==
    /\ admin[a].pc = "save"
    /\ Fault("save")
    /\ admin' = [admin EXCEPT ![a] = IdleAdmin]
    /\ UNCHANGED <<lock, process, enrolled, trades, enabled, cached, alive>>

\* refreshCache reads the row ...
RefreshRead(a) ==
    /\ admin[a].pc = "refresh"
    /\ admin' = [admin EXCEPT ![a] = [@ EXCEPT !.pc = "assign", !.row = enabled]]
    /\ UNCHANGED <<lock, process, enrolled, trades, enabled, cached, alive, faults>>

\* ... and what it has read becomes the cache when the answer arrives.
RefreshAssign(a) ==
    /\ admin[a].pc = "assign"
    /\ cached' = admin[a].row
    /\ admin' = [admin EXCEPT ![a] = IdleAdmin]
    /\ UNCHANGED <<lock, process, enrolled, trades, enabled, alive, faults>>

-----------------------------------------------------------------------------
(* The process and its surroundings *)

\* What was in memory is gone, and with it every request in progress.
Gone ==
    /\ alive' = FALSE
    /\ current' = NoToken
    /\ held' = NoToken
    /\ trader' = [t \in Traders |-> IdleTrader]
    /\ admin' = [a \in Admins |-> IdleAdmin]
    /\ age' = [c \in Cycles |-> 0]
    /\ UNCHANGED <<enrolled, trades, enabled, cached>>

Crash ==
    /\ alive
    /\ Fault("outage")
    /\ Gone
    /\ UNCHANGED lock

\* onModuleDestroy and onApplicationShutdown release what the process holds.
Shutdown ==
    /\ alive
    /\ Fault("outage")
    /\ lock' = Released(Released(lock, held), current)
    /\ Gone

\* Mutant: the cache is not loaded, and isTradingEnabled() falls back to true.
BootWithoutState ==
    /\ ~alive
    /\ alive' = TRUE
    /\ cached' = TRUE
    /\ lock' = Swept(lock)
    /\ UNCHANGED <<process, enrolled, trades, enabled, admin, faults>>

\* The trading state is read back and the sweep has run before the first cron; a
\* sweep that fails is logged.
Boot ==
    /\ ~alive
    /\ alive' = TRUE
    /\ cached' = enabled
    /\ lock' \in {Swept(lock), lock}
    /\ UNCHANGED <<process, enrolled, trades, enabled, admin, faults>>

\* A user joins or leaves algo trading.
Enrol(u) ==
    /\ alive
    /\ enrolled' = IF u \in enrolled THEN enrolled \ {u} ELSE enrolled \union {u}
    /\ UNCHANGED <<lock, process, trades, switch, alive, faults>>

\* COOLDOWN_TTL_MS is over; it is much longer than the placing of an order.
CooldownEnds(u) ==
    /\ u \in cooldown \union traded
    /\ \A t \in Traders: trader[t].pc \in {"claimed", "placed"} => trader[t].user # u
    /\ cooldown' = cooldown \ {u}
    /\ traded' = traded \ {u}
    /\ UNCHANGED <<lock, process, enrolled, switch, alive, faults>>

\* The pcs of a cycle between its acquire and its release.
Trading(c) == trader[c].pc \in {"load", "next", "claimed", "placed"}

\* A cycle takes at most CycleLimit ticks.
Tick ==
    /\ \A c \in Cycles: Trading(c) => age[c] < CycleLimit
    /\ lock' = Lapsed(lock)
    /\ age' = [c \in Cycles |-> IF Trading(c) THEN age[c] + 1 ELSE 0]
    /\ UNCHANGED <<current, held, trader, enrolled, trades, switch, alive, faults>>

CycleStep(c) ==
    \/ Acquire(c) \/ LoadUsers(c) \/ Release(c) \/ Clear(c)
    \/ \E u \in Users: UserError(c, u)

TradeStep(t) ==
    \/ PlaceOrder(t) \/ OrderFails(t) \/ Track(t)
    \/ \E u \in Users: NoTrade(t, u) \/ Claim(t, u)

FaultStep(t) == TrackingFails(t) \/ \E u \in Users: ClaimError(t, u)

AdminStep(a) == Check(a) \/ Save(a) \/ RefreshRead(a) \/ RefreshAssign(a)

Next ==
    \/ \E c \in Cycles: CronFires(c) \/ CycleStep(c) \/ AcquireError(c) \/ ReleaseError(c)
    \/ \E t \in Traders: TradeStep(t) \/ FaultStep(t)
    \/ JobStarts \/ JobEnds
    \/ \E a \in Admins: AdminStep(a) \/ SaveFails(a) \/ \E to \in BOOLEAN: Begin(a, to)
    \/ Crash \/ Shutdown \/ Boot \/ Tick
    \/ \E u \in Users: Enrol(u) \/ CooldownEnds(u)

\* The cron keeps firing, requests end, the process is restarted, time passes.
\* Admins and users do nothing they do not want to.
Fairness ==
    /\ WF_vars(\E c \in Cycles: CronFires(c))
    /\ \A c \in Cycles: WF_vars(CycleStep(c) \/ TradeStep(c))
    /\ WF_vars(TradeStep(Job) \/ JobEnds)
    /\ WF_vars(Boot)
    /\ WF_vars(Tick)

Spec == Init /\ [][Next]_vars /\ Fairness

-----------------------------------------------------------------------------
(* Properties *)

\* A cycle whose lease has not run out trades alone: the lock that another cycle
\* would need is released by its owner, by its expiry or by nobody.
LeaseHonoured ==
    \A c, d \in Cycles:
        Trading(c) /\ Trading(d) /\ c # d => age[c] >= LeaseTtl \/ age[d] >= LeaseTtl

\* While trading is halted on record and no admin is at work, the pipelines of a
\* running process see the halt, as isTradingEnabled() promises: no restart and
\* no order in which the cache is written loses it.
HaltIsSeen ==
    ~enabled /\ alive /\ (\A a \in Admins: admin[a].pc = "idle") => ~cached

\* The same, as long as every change of the trading state can be saved and the
\* admins do not halt and resume at the same time.
SavedHaltIsSeen == faults \intersect {"save", "overlap"} = {} => HaltIsSeen

\* No step places an order for a trade made earlier in the same cooldown.
PlacedOnce ==
    \A t \in Traders:
        trader[t].pc = "claimed" /\ trader'[t].pc = "placed" => trader[t].user \notin traded

\* The same trade is not made twice within one cooldown, whichever pipelines and
\* cycles want it and however enrolment moves a user between them, unless Redis
\* was down (checkAndClaim then lets the trade through, as its comment says).
TradedOnce == [][PlacedOnce \/ "cooldown" \in faults]_vars

\* The same, as long as every order that was placed can be recorded.
RecordedTradedOnce == [][PlacedOnce \/ faults \intersect {"cooldown", "tracking"} # {}]_vars

\* After a halt that is not lifted trading comes to an end: cycles and jobs
\* already running finish and no other begins.
HaltStops == <>[](~cached) => <>[](\A t \in Traders: trader[t].pc \notin {"claimed", "placed"})

\* As long as trading is enabled, the process runs and Redis answers the cycles
\* that ask for the lock, they keep getting it, whatever crashes and lost replies
\* have left behind in Redis and however often a release still fails.
TradingGoesOn ==
    <>[](cached /\ alive) /\ <>[][\A c \in Cycles: ~AcquireError(c)]_vars
        => []<>(\E c \in Cycles: Trading(c))
=============================================================================
