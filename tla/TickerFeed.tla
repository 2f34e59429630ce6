----------------------------- MODULE TickerFeed -----------------------------
(***************************************************************************)
(* Where prices come from: PaperTradingMarketDataService asks              *)
(* TickerBatcherService for tickers, which coalesces the callers of one    *)
(* exchange into a single fetchTickers() call behind a circuit breaker.    *)
(*                                                                         *)
(* A caller is one getCurrentPrice in progress; the calls of getPrices and *)
(* getTickers walk the same chain once per symbol.  A step is what runs    *)
(* between two awaits of one process, so callers, timers, responses of the *)
(* exchange and the shutdown hook interleave freely.                       *)
(***************************************************************************)
EXTENDS CircuitBreaker, FiniteSets, Sequences

CONSTANTS Callers,            \* calls in progress at a time
          Symbols,
          Primary,            \* the exchange slug the callers ask first
          FallbackSlugs,      \* FALLBACK_EXCHANGE_SLUGS without the primary
          Listed,             \* <<slug, symbol>>: what the exchanges can serve
          Flaky,              \* the exchanges that may go down and come back
          MaxBatchSize        \* config.maxBatchSize

\* The exchanges a caller may try, in order.
Route == <<Primary>> \o FallbackSlugs
Slugs == {Route[i] : i \in 1 .. Len(Route)}
Hops  == 1 .. Len(Route)

ASSUME FeedAssumption ==
    /\ FallbackSlugs \in Seq(STRING)
    /\ Primary \in STRING
    /\ Symbols # {}
    /\ Listed \subseteq Slugs \X Symbols
    /\ Flaky \subseteq Slugs
    /\ MaxBatchSize \in Nat \ {0}

VARIABLES
    call,       \* where each caller is: pc, the symbol and the hop of its route
    batch,      \* per slug: the callers pending and whether the timer is armed
    flight,     \* per slug: the flushed batches whose response is awaited
    memCache,   \* <<slug, symbol>> pairs with an unexpired ticker
    circuit,    \* the breaker's circuit of each slug
    up,         \* whether the exchange answers (external)
    destroyed,  \* onModuleDestroy has run
    streak      \* history: successes since the last failure or closing, capped

vars == <<call, batch, flight, memCache, circuit, up, destroyed, streak>>

Pc == {"idle", "missed", "waiting", "got", "failed"}

\* A flight is the set of callers it will answer and whether the exchange was
\* up when the request left.
Flight == [waiters: SUBSET Callers, sentUp: BOOLEAN]

\* Every variable holds a value the code can store: circuits are circuits, the
\* batcher's maps hold known callers and a caller's hop is on its route.
TypeOK ==
    /\ call \in [Callers -> [pc: Pc, symbol: Symbols, hop: Hops]]
    /\ batch \in [Slugs -> [pending: SUBSET Callers, timer: BOOLEAN]]
    /\ flight \in [Slugs -> SUBSET Flight]
    /\ memCache \subseteq Slugs \X Symbols
    /\ circuit \in [Slugs -> CircuitData]
    /\ up \in [Slugs -> BOOLEAN]
    /\ destroyed \in BOOLEAN
    /\ streak \in [Slugs -> Nat]

Slug(c) == Route[call[c].hop]

\* The symbol of a caller with no lookup in progress says nothing.
Idle == [pc |-> "idle", symbol |-> CHOOSE s \in Symbols: TRUE, hop |-> 1]

EmptyBatch == [pending |-> {}, timer |-> FALSE]

Init ==
    /\ call = [c \in Callers |-> Idle]
    /\ batch = [x \in Slugs |-> EmptyBatch]
    /\ flight = [x \in Slugs |-> {}]
    /\ memCache = {}
    /\ circuit = [x \in Slugs |-> NewCircuit]
    /\ up = [x \in Slugs |-> TRUE]
    /\ destroyed = FALSE
    /\ streak = [x \in Slugs |-> 0]

-----------------------------------------------------------------------------
(* TickerBatcherService *)

Goto(calls, who, pc) ==
    [c \in Callers |-> IF c \in who THEN [calls[c] EXCEPT !.pc = pc] ELSE calls[c]]

SymbolsOf(cs) == {call[c].symbol : c \in cs}

\* Mutant: the batch is kept when the circuit rejects it.
FlushKeepingRejected(x, waiting, calls, cs) ==
    /\ circuit' = [cs EXCEPT ![x] = CheckCircuit(@)]
    /\ IF Blocks(cs[x])
       THEN /\ call' = Goto(calls, waiting, "failed")
            /\ UNCHANGED <<batch, flight>>
       ELSE /\ call' = calls
            /\ batch' = [batch EXCEPT ![x] = EmptyBatch]
            /\ flight' = [flight EXCEPT
                             ![x] = @ \union {[waiters |-> waiting, sentUp |-> up[x]]}]

\* flush(slug) up to its first await, with `waiting` the pending waiters, `calls`
\* and `cs` the callers and circuits at that point of the step: the batch is
\* emptied and its timer cleared; the circuit rejects them all, or one request
\* leaves for them.
Flush(x, waiting, calls, cs) ==
    /\ batch' = [batch EXCEPT ![x] = EmptyBatch]
    /\ circuit' = [cs EXCEPT ![x] = CheckCircuit(@)]
    /\ IF Blocks(cs[x])
       THEN /\ call' = Goto(calls, waiting, "failed")
            /\ UNCHANGED flight
       ELSE /\ call' = calls
            /\ flight' = [flight EXCEPT
                             ![x] = @ \union {[waiters |-> waiting, sentUp |-> up[x]]}]

\* enqueue(slug, symbol): a batch that has grown to its maximum is flushed in
\* the same step, otherwise the timer is armed unless it already is.
Enqueue(c, x, cs) ==
    LET waiting == batch[x].pending \union {c}
        calls   == Goto(call, {c}, "waiting")
    IN  IF Cardinality(SymbolsOf(waiting)) >= MaxBatchSize
        THEN Flush(x, waiting, calls, cs)
        ELSE /\ batch' = [batch EXCEPT ![x] = [pending |-> waiting, timer |-> TRUE]]
             /\ call' = calls
             /\ circuit' = cs
             /\ UNCHANGED flight

\* getTicker(slug, symbol): the memory cache answers, shutdown refuses, else
\* the caller waits for a batch.
GetTicker(c, x, cs) ==
    IF <<x, call[c].symbol>> \in memCache \/ destroyed
    THEN /\ call' = Goto(call, {c}, IF <<x, call[c].symbol>> \in memCache
                                    THEN "got" ELSE "failed")
         /\ circuit' = cs
         /\ UNCHANGED <<batch, flight>>
    ELSE Enqueue(c, x, cs)

\* The flush timer.
TimerFires(x) ==
    /\ batch[x].timer
    /\ batch[x].pending # {}
    /\ Flush(x, batch[x].pending, call, circuit)
    /\ UNCHANGED <<memCache, up, destroyed, streak>>

\* resolveFromResponse: tickers are cached and handed out; a symbol the
\* exchange does not list resolves to undefined.
Response(x, f) ==
    /\ f \in flight[x]
    /\ f.sentUp \/ up[x]
    /\ flight' = [flight EXCEPT ![x] = @ \ {f}]
    /\ circuit' = [circuit EXCEPT ![x] = RecordSuccess(@)]
    /\ streak' = [streak EXCEPT ![x] = IF RecordSuccess(circuit[x]).state = "CLOSED" THEN 0
                                       ELSE IF @ + 1 < SuccessThreshold THEN @ + 1 ELSE @]
    /\ memCache' = memCache \union (({x} \X SymbolsOf(f.waiters)) \intersect Listed)
    /\ call' = [c \in Callers |->
                  IF c \notin f.waiters THEN call[c]
                  ELSE [call[c] EXCEPT !.pc = IF <<x, call[c].symbol>> \in Listed
                                              THEN "got" ELSE "failed"]]
    /\ UNCHANGED <<batch, up, destroyed>>

\* The retries are exhausted, or no client could be built: handleBatchError.
BatchError(x, f) ==
    /\ f \in flight[x]
    /\ ~f.sentUp \/ ~up[x]
    /\ flight' = [flight EXCEPT ![x] = @ \ {f}]
    /\ circuit' = [circuit EXCEPT ![x] = RecordFailure(@)]
    /\ streak' = [streak EXCEPT ![x] = 0]
    /\ call' = Goto(call, f.waiters, "failed")
    /\ UNCHANGED <<batch, memCache, up, destroyed>>

\* Mutant: the batches are cleared without a word to their waiters.
OnModuleDestroyQuietly ==
    /\ ~destroyed
    /\ destroyed' = TRUE
    /\ batch' = [x \in Slugs |-> EmptyBatch]
    /\ UNCHANGED <<call, flight, memCache, circuit, up, streak>>

\* Pending waiters are rejected; the flights that have left still come back.
OnModuleDestroy ==
    /\ ~destroyed
    /\ destroyed' = TRUE
    /\ call' = Goto(call, UNION {batch[x].pending : x \in Slugs}, "failed")
    /\ batch' = [x \in Slugs |-> EmptyBatch]
    /\ UNCHANGED <<flight, memCache, circuit, up, streak>>

-----------------------------------------------------------------------------
(* PaperTradingMarketDataService.getCurrentPrice *)

\* The price is not in the shared cache (Redis, whose entries come and go with
\* their TTL: what a lookup there finds is left open).
GetCurrentPrice(c, s) ==
    /\ call[c].pc = "idle"
    /\ call' = [call EXCEPT ![c] = [pc |-> "missed", symbol |-> s, hop |-> 1]]
    /\ UNCHANGED <<batch, flight, memCache, circuit, up, destroyed, streak>>

\* isOpen is asked for the primary only, and may itself half-open its circuit;
\* its answer and getTicker are one synchronous step.
Ask(c) ==
    /\ call[c].pc = "missed"
    /\ IF call[c].hop > 1 THEN GetTicker(c, Slug(c), circuit)
       ELSE IF Blocks(circuit[Primary])
       THEN call' = Goto(call, {c}, "failed") /\ UNCHANGED <<batch, circuit, flight>>
       ELSE GetTicker(c, Primary, [circuit EXCEPT ![Primary] = CheckCircuit(@)])
    /\ UNCHANGED <<memCache, up, destroyed, streak>>

\* A ticker is stored in the shared cache and handed to the caller.
Return(c) ==
    /\ call[c].pc = "got"
    /\ call' = [call EXCEPT ![c] = Idle]
    /\ UNCHANGED <<batch, flight, memCache, circuit, up, destroyed, streak>>

\* Without one the caller gets the stale entry of the shared cache if there is
\* one, else asks the next exchange of the route; after the last one it gets the
\* price in the database or an error.
Recover(c) ==
    /\ call[c].pc = "failed"
    /\ \/ call[c].hop \in {1, Len(Route)} /\ call' = [call EXCEPT ![c] = Idle]
       \/ /\ call[c].hop < Len(Route)
          /\ call' = [call EXCEPT ![c] = [@ EXCEPT !.pc = "missed", !.hop = call[c].hop + 1]]
    /\ UNCHANGED <<batch, flight, memCache, circuit, up, destroyed, streak>>

-----------------------------------------------------------------------------
(* The environment *)

\* An entry of the memory cache outlives memCacheTtlMs.
ExpireTicker(e) ==
    /\ e \in memCache
    /\ memCache' = memCache \ {e}
    /\ UNCHANGED <<call, batch, flight, circuit, up, destroyed, streak>>

Tick ==
    /\ circuit' = [x \in Slugs |-> Age(circuit[x])]
    /\ UNCHANGED <<call, batch, flight, memCache, up, destroyed, streak>>

Outage(x) ==
    /\ x \in Flaky
    /\ up' = [up EXCEPT ![x] = ~@]
    /\ UNCHANGED <<call, batch, flight, memCache, circuit, destroyed, streak>>

CallerStep(c) == Ask(c) \/ Return(c) \/ Recover(c)

\* The request that will answer caller c ends.
RequestEnds(c) ==
    \E x \in Slugs: \E f \in flight[x]: c \in f.waiters /\ (Response(x, f) \/ BatchError(x, f))

Next ==
    \/ \E c \in Callers: CallerStep(c) \/ RequestEnds(c) \/ \E s \in Symbols: GetCurrentPrice(c, s)
    \/ \E x \in Slugs: TimerFires(x) \/ Outage(x)
    \/ \E e \in memCache: ExpireTicker(e)
    \/ OnModuleDestroy
    \/ Tick

\* Timers fire, requests end (every one is retried a bounded number of times),
\* promises continue, tickers expire, time passes and the paper-trading ticks
\* keep asking for prices that the shared cache does not have.  Nothing is assumed of the exchange.
Fairness ==
    /\ \A c \in Callers: WF_vars(CallerStep(c)) /\ WF_vars(RequestEnds(c))
    /\ \A x \in Slugs: WF_vars(TimerFires(x))
    /\ WF_vars(\E c \in Callers, s \in Symbols: GetCurrentPrice(c, s))
    /\ WF_vars(\E e \in memCache: ExpireTicker(e))
    /\ WF_vars(Tick)

Spec == Init /\ [][Next]_vars /\ Fairness

-----------------------------------------------------------------------------
(* Properties *)

\* The places a waiting caller can be answered from.
Batched(c) == {x \in Slugs: c \in batch[x].pending}
Flying(c)  == {p \in Slugs \X UNION {flight[y] : y \in Slugs}:
                  p[2] \in flight[p[1]] /\ c \in p[2].waiters}

\* No caller is forgotten between enqueue, the synchronous flush, the timer and
\* the shutdown hook: one that waits is in a batch whose timer is armed or in a
\* flight, in one of them only, and nobody else is in either.
NobodyForgotten ==
    \A c \in Callers:
        /\ call[c].pc = "waiting" <=> Batched(c) # {} \/ Flying(c) # {}
        /\ Batched(c) # {} => Flying(c) = {}
        /\ \A p, q \in Flying(c): p = q
        /\ \A x \in Batched(c): batch[x].timer /\ x = Slug(c)

\* The circuit of an exchange closes only after SuccessThreshold calls in a row
\* have succeeded: no failure lies between the successes that close it, however
\* late the answers of earlier requests arrive.
ClosesOnEvidence ==
    [][\A x \in Slugs:
          circuit[x].state # "CLOSED" /\ circuit'[x].state = "CLOSED"
             => streak[x] + 1 >= SuccessThreshold]_vars

\* Every lookup ends, whatever the exchanges do and even when the batcher is
\* shut down underneath it.
Settles == \A c \in Callers: call[c].pc = "missed" ~> call[c].pc = "idle"

\* Once the primary answers for good the breaker lets go of it: late failures,
\* cooldown extensions and cache hits do not keep the circuit open for ever.
Recovers == <>[](up[Primary] /\ ~destroyed) => []<>(circuit[Primary].state = "CLOSED")
=============================================================================
