-------------------------- MODULE TickerFeedProofs --------------------------
(***************************************************************************)
(* What holds of the ticker feed for any callers, symbols, route, batch    *)
(* size and breaker thresholds: its types, that no waiting caller is       *)
(* forgotten, and that a circuit closes on evidence only.                  *)
(***************************************************************************)
EXTENDS TickerFeed, SequenceTheorems, TLAPS

Calls   == [pc: Pc, symbol: Symbols, hop: Hops]
Batches == [pending: SUBSET Callers, timer: BOOLEAN]

-----------------------------------------------------------------------------
(* The operators.                                                          *)

LEMMA Prepended ==
  ASSUME NEW S, NEW p \in S, NEW s \in Seq(S)
  PROVE  /\ <<p>> \o s \in Seq(S) /\ Len(<<p>> \o s) = 1 + Len(s)
         /\ (<<p>> \o s)[1] = p
<1>1. <<p>> \in Seq(S) /\ Len(<<p>>) = 1 /\ <<p>>[1] = p
  OBVIOUS
<1>2. Len(s) \in Nat
  OBVIOUS
<1>3. Len(<<p>> \o s) = 1 + Len(s) /\ <<p>> \o s \in Seq(S)
  BY <1>1, <1>2, ConcatProperties
<1>4. 1 \in 1 .. Len(<<p>>) + Len(s) /\ 1 <= Len(<<p>>)
  BY <1>1, <1>2
<1> QED BY <1>1, <1>3, <1>4, ConcatProperties

LEMMA RouteFacts ==
    /\ Len(Route) \in Nat /\ 1 \in Hops /\ Route[1] = Primary
    /\ Primary \in Slugs
    /\ \A h \in Hops: Route[h] \in Slugs
<1>1. FallbackSlugs \in Seq(STRING) /\ Primary \in STRING
  BY FeedAssumption
<1>2. Route \in Seq(STRING) /\ Len(Route) = 1 + Len(FallbackSlugs) /\ Route[1] = Primary
  BY <1>1, Prepended DEF Route
<1>3. Len(FallbackSlugs) \in Nat
  BY <1>1
<1>4. \A h \in Hops: Route[h] \in Slugs
  BY DEF Hops, Slugs
<1> QED BY <1>2, <1>3, <1>4 DEF Hops

LEMMA CircuitTypes ==
    /\ NewCircuit \in CircuitData /\ NewCircuit.state = "CLOSED"
    /\ \A c \in CircuitData: CheckCircuit(c) \in CircuitData
    /\ \A c \in CircuitData: RecordSuccess(c) \in CircuitData
    /\ \A c \in CircuitData: RecordFailure(c) \in CircuitData
    /\ \A c \in CircuitData: Age(c) \in CircuitData
<1>0. /\ FailureWindow \in Nat \ {0} /\ ResetTimeout \in Nat \ {0}
      /\ NoFailures \in [FailureAges -> Nat] /\ 0 \in FailureAges
  BY BreakerAssumption DEF NoFailures, FailureAges
<1>1. NewCircuit \in CircuitData /\ NewCircuit.state = "CLOSED"
  BY <1>0 DEF NewCircuit, CircuitData, CircuitState
<1>2. ASSUME NEW c \in CircuitData PROVE CheckCircuit(c) \in CircuitData
  BY DEF CheckCircuit, CircuitData, CircuitState
<1>3. ASSUME NEW c \in CircuitData PROVE RecordSuccess(c) \in CircuitData
  BY <1>1 DEF RecordSuccess, CircuitData, CircuitState
<1>4. ASSUME NEW c \in CircuitData PROVE RecordFailure(c) \in CircuitData
  <2> DEFINE f == [c.failures EXCEPT ![0] = @ + 1]
  <2>1. f \in [FailureAges -> Nat]
    BY <1>0 DEF CircuitData
  <2>2. [c EXCEPT !.failures = f] \in CircuitData
    <3> HIDE DEF f
    <3> QED BY <2>1 DEF CircuitData
  <2>3. [c EXCEPT !.failures[0] = @ + 1] \in CircuitData
    BY <2>2
  <2>4. [state |-> "OPEN", failures |-> NoFailures,
         consecutiveSuccesses |-> 0, openedAge |-> 0] \in CircuitData
    BY <1>0 DEF CircuitData, CircuitState
  <2> QED BY <2>3, <2>4 DEF RecordFailure
<1>5. ASSUME NEW c \in CircuitData PROVE Age(c) \in CircuitData
  <2> DEFINE f == [a \in FailureAges |-> IF a = 0 THEN 0 ELSE c.failures[a - 1]]
             o == IF c.openedAge < ResetTimeout THEN c.openedAge + 1 ELSE c.openedAge
  <2>1. f \in [FailureAges -> Nat]
    BY <1>0 DEF CircuitData, FailureAges
  <2>2. o \in 0 .. ResetTimeout
    BY <1>0 DEF CircuitData
  <2>3. Age(c) = [c EXCEPT !.failures = f, !.openedAge = o]
    BY DEF Age
  <2> HIDE DEF f, o
  <2> QED BY <2>1, <2>2, <2>3 DEF CircuitData
<1> QED BY <1>1, <1>2, <1>3, <1>4, <1>5

LEMMA GotoFacts ==
  ASSUME NEW calls \in [Callers -> Calls], NEW who, NEW pc \in Pc
  PROVE  /\ Goto(calls, who, pc) \in [Callers -> Calls]
         /\ \A c \in Callers: /\ Goto(calls, who, pc)[c].pc = IF c \in who THEN pc ELSE calls[c].pc
                              /\ Goto(calls, who, pc)[c].hop = calls[c].hop
<1> SUFFICES ASSUME NEW c \in Callers
             PROVE  /\ [calls[c] EXCEPT !.pc = pc] \in Calls
                    /\ [calls[c] EXCEPT !.pc = pc].pc = pc
                    /\ [calls[c] EXCEPT !.pc = pc].hop = calls[c].hop
  BY DEF Goto
<1>1. calls[c] \in Calls
  OBVIOUS
<1> QED BY <1>1 DEF Calls

LEMMA IdleFacts == Idle \in Calls /\ Idle.pc = "idle" /\ EmptyBatch \in Batches /\ EmptyBatch.pending = {}
<1>1. (CHOOSE s \in Symbols: TRUE) \in Symbols
  BY FeedAssumption
<1> QED BY <1>1, RouteFacts DEF Idle, Calls, Pc, EmptyBatch, Batches

-----------------------------------------------------------------------------
(* What the batcher does with callers, batches and flights.                *)

\* The caller gets its answer at once.
Answers(c) ==
    /\ \E p \in {"got", "failed"}: call' = Goto(call, {c}, p)
    /\ UNCHANGED <<batch, flight>>

\* It joins the batch of x, whose timer is armed.
Joins(c, x) ==
    /\ call' = Goto(call, {c}, "waiting")
    /\ batch' = [batch EXCEPT ![x] = [pending |-> batch[x].pending \union {c}, timer |-> TRUE]]
    /\ UNCHANGED flight

\* The batch of x is flushed: its waiters are rejected, or a request leaves.
Rejects(x, waiting, calls) ==
    /\ call' = Goto(calls, waiting, "failed")
    /\ batch' = [batch EXCEPT ![x] = EmptyBatch]
    /\ UNCHANGED flight

Sends(x, waiting, calls) ==
    /\ call' = calls
    /\ batch' = [batch EXCEPT ![x] = EmptyBatch]
    /\ flight' = [flight EXCEPT ![x] = @ \union {[waiters |-> waiting, sentUp |-> up[x]]}]

\* Whoever looks at circuits may half-open them, and no more.
Looked(cs) ==
    /\ cs \in [Slugs -> CircuitData]
    /\ \A x \in Slugs: \/ cs[x] = circuit[x]
                       \/ /\ circuit[x].state = "OPEN" /\ cs[x].state = "HALF_OPEN"
                          /\ cs[x].consecutiveSuccesses = 0

LEMMA LookAgain ==
  ASSUME TypeOK, NEW cs, Looked(cs), NEW x \in Slugs
  PROVE  Looked([cs EXCEPT ![x] = CheckCircuit(@)])
<1>1. cs[x] \in CircuitData /\ CheckCircuit(cs[x]) \in CircuitData
  BY CircuitTypes DEF Looked
<1>2. \/ CheckCircuit(cs[x]) = cs[x]
      \/ /\ cs[x].state = "OPEN" /\ CheckCircuit(cs[x]).state = "HALF_OPEN"
         /\ CheckCircuit(cs[x]).consecutiveSuccesses = 0
  BY <1>1 DEF CheckCircuit, CircuitData
<1>3. cs[x].state = "OPEN" => cs[x] = circuit[x]
  BY DEF Looked
<1> HIDE DEF CheckCircuit
<1> QED BY <1>1, <1>2, <1>3 DEF Looked

LEMMA FlushOutcome ==
  ASSUME TypeOK, NEW cs, Looked(cs), NEW x \in Slugs, NEW waiting, NEW calls, Flush(x, waiting, calls, cs)
  PROVE  /\ Rejects(x, waiting, calls) \/ Sends(x, waiting, calls)
         /\ Looked(circuit')
<1>1. circuit' = [cs EXCEPT ![x] = CheckCircuit(@)]
  BY DEF Flush
<1> QED BY <1>1, LookAgain DEF Flush, Rejects, Sends

LEMMA GetTickerOutcome ==
  ASSUME TypeOK, NEW c \in Callers, NEW cs, Looked(cs), NEW x \in Slugs, GetTicker(c, x, cs)
  PROVE  /\ \/ Answers(c)
            \/ Joins(c, x)
            \/ Rejects(x, batch[x].pending \union {c}, Goto(call, {c}, "waiting"))
            \/ Sends(x, batch[x].pending \union {c}, Goto(call, {c}, "waiting"))
         /\ Looked(circuit')
<1>1. CASE <<x, call[c].symbol>> \in memCache \/ destroyed
  <2>1. call' = Goto(call, {c}, IF <<x, call[c].symbol>> \in memCache THEN "got" ELSE "failed")
        /\ circuit' = cs /\ UNCHANGED <<batch, flight>>
    BY <1>1 DEF GetTicker
  <2> QED BY <2>1 DEF Answers
<1>2. CASE ~(<<x, call[c].symbol>> \in memCache \/ destroyed)
  <2>1. Enqueue(c, x, cs)
    BY <1>2 DEF GetTicker
  <2>2. CASE Flush(x, batch[x].pending \union {c}, Goto(call, {c}, "waiting"), cs)
    BY <2>2, FlushOutcome
  <2>3. CASE ~Flush(x, batch[x].pending \union {c}, Goto(call, {c}, "waiting"), cs)
    BY <2>1, <2>3 DEF Enqueue, Joins
  <2> QED BY <2>2, <2>3
<1> QED BY <1>1, <1>2

LEMMA AskOutcome ==
  ASSUME TypeOK, NEW c \in Callers, Ask(c)
  PROVE  /\ \/ Answers(c)
            \/ Joins(c, Slug(c))
            \/ Rejects(Slug(c), batch[Slug(c)].pending \union {c}, Goto(call, {c}, "waiting"))
            \/ Sends(Slug(c), batch[Slug(c)].pending \union {c}, Goto(call, {c}, "waiting"))
         /\ Looked(circuit')
<1>1. call[c].hop \in Hops /\ Slug(c) \in Slugs
  BY RouteFacts DEF TypeOK, Slug
<1>2. Looked(circuit)
  BY DEF Looked, TypeOK
<1>3. Looked([circuit EXCEPT ![Primary] = CheckCircuit(@)])
  BY <1>2, LookAgain, RouteFacts
<1>4. CASE call[c].hop > 1
  BY <1>1, <1>2, <1>4, GetTickerOutcome DEF Ask
<1>5. CASE ~(call[c].hop > 1)
  <2>1. Slug(c) = Primary
    BY <1>1, <1>5, RouteFacts DEF Slug, Hops
  <2>2. CASE Blocks(circuit[Primary])
    <3>1. call' = Goto(call, {c}, "failed") /\ UNCHANGED <<batch, circuit, flight>>
      BY <1>5, <2>2 DEF Ask
    <3> QED BY <1>2, <3>1 DEF Answers
  <2>3. CASE ~Blocks(circuit[Primary])
    BY <1>1, <1>3, <1>5, <2>1, <2>3, GetTickerOutcome DEF Ask
  <2> QED BY <2>2, <2>3
<1> QED BY <1>4, <1>5

LEMMA TimerOutcome ==
  ASSUME TypeOK, NEW x \in Slugs, TimerFires(x)
  PROVE  /\ Rejects(x, batch[x].pending, call) \/ Sends(x, batch[x].pending, call)
         /\ Looked(circuit')
<1>1. Looked(circuit)
  BY DEF Looked, TypeOK
<1> QED BY <1>1, FlushOutcome DEF TimerFires

-----------------------------------------------------------------------------
(* Types.                                                                  *)

LEMMA TypeInit == Init => TypeOK
<1> SUFFICES ASSUME Init PROVE TypeOK
  OBVIOUS
<1>1. call \in [Callers -> Calls] /\ batch \in [Slugs -> Batches] /\ circuit \in [Slugs -> CircuitData]
  BY IdleFacts, CircuitTypes DEF Init
<1>2. flight \in [Slugs -> SUBSET Flight] /\ up \in [Slugs -> BOOLEAN] /\ streak \in [Slugs -> Nat]
  BY DEF Init
<1> QED BY <1>1, <1>2 DEF Init, TypeOK, Calls, Batches

\* The three maps of the batcher keep their types.
LEMMA BatcherTypes ==
  ASSUME TypeOK, NEW x \in Slugs, NEW c \in Callers,
         NEW calls \in [Callers -> Calls], NEW waiting \in SUBSET Callers,
         Answers(c) \/ Joins(c, x) \/ Rejects(x, waiting, calls) \/ Sends(x, waiting, calls)
  PROVE  call' \in [Callers -> Calls] /\ batch' \in [Slugs -> Batches] /\ flight' \in [Slugs -> SUBSET Flight]
<1>0. /\ call \in [Callers -> Calls] /\ batch \in [Slugs -> Batches] /\ flight \in [Slugs -> SUBSET Flight]
      /\ up[x] \in BOOLEAN
  BY DEF TypeOK, Calls, Batches
<1>1. {"got", "failed", "waiting"} \subseteq Pc
  BY DEF Pc
<1>2. CASE Answers(c)
  BY <1>0, <1>1, <1>2, GotoFacts DEF Answers
<1>3. CASE Joins(c, x)
  <2>1. [pending |-> batch[x].pending \union {c}, timer |-> TRUE] \in Batches
    BY <1>0 DEF Batches
  <2> QED BY <1>0, <1>1, <1>3, <2>1, GotoFacts DEF Joins
<1>4. CASE Rejects(x, waiting, calls)
  BY <1>0, <1>1, <1>4, GotoFacts, IdleFacts DEF Rejects
<1>5. CASE Sends(x, waiting, calls)
  <2>1. [waiters |-> waiting, sentUp |-> up[x]] \in Flight
    BY <1>0 DEF Flight
  <2> QED BY <1>0, <1>5, <2>1, IdleFacts DEF Sends
<1> QED BY <1>2, <1>3, <1>4, <1>5

LEMMA TypeStep == TypeOK /\ [Next]_vars => TypeOK'
<1> SUFFICES ASSUME TypeOK, [Next]_vars PROVE TypeOK'
  OBVIOUS
<1>0. /\ call \in [Callers -> Calls] /\ batch \in [Slugs -> Batches] /\ flight \in [Slugs -> SUBSET Flight]
      /\ {"got", "failed", "waiting", "missed"} \subseteq Pc
  BY DEF TypeOK, Calls, Batches, Pc
<1>1. CASE UNCHANGED vars
  BY <1>1 DEF vars, TypeOK
<1>k. ASSUME call' \in [Callers -> Calls], batch' \in [Slugs -> Batches], flight' \in [Slugs -> SUBSET Flight],
             circuit' \in [Slugs -> CircuitData], memCache' \subseteq Slugs \X Symbols,
             up' \in [Slugs -> BOOLEAN], destroyed' \in BOOLEAN, streak' \in [Slugs -> Nat]
      PROVE  TypeOK'
  BY <1>k DEF TypeOK, Calls, Batches
<1>2. ASSUME NEW c \in Callers, Ask(c) PROVE TypeOK'
  <2>1. Slug(c) \in Slugs /\ batch[Slug(c)].pending \union {c} \in SUBSET Callers
    BY <1>0, RouteFacts DEF TypeOK, Slug, Batches
  <2>2. Goto(call, {c}, "waiting") \in [Callers -> Calls]
    BY <1>0, GotoFacts
  <2> QED BY <1>2, <1>k, <2>1, <2>2, AskOutcome, BatcherTypes DEF Ask, TypeOK, Looked
<1>3. ASSUME NEW x \in Slugs, TimerFires(x) PROVE TypeOK'
  <2>1. batch[x].pending \in SUBSET Callers /\ batch[x].pending # {}
    BY <1>0, <1>3 DEF Batches, TimerFires
  <2>2. PICK c \in Callers: TRUE
    BY <2>1
  <2> QED BY <1>0, <1>3, <1>k, <2>1, <2>2, TimerOutcome, BatcherTypes DEF TimerFires, TypeOK, Looked
<1>4. ASSUME NEW c \in Callers, Return(c) PROVE TypeOK'
  BY <1>0, <1>4, <1>k, IdleFacts DEF Return, TypeOK
<1>5. ASSUME NEW c \in Callers, Recover(c) PROVE TypeOK'
  <2>1. CASE call' = [call EXCEPT ![c] = Idle]
    BY <1>0, <1>5, <1>k, <2>1, IdleFacts DEF Recover, TypeOK
  <2>2. CASE call' # [call EXCEPT ![c] = Idle]
    <3> DEFINE r == [call[c] EXCEPT !.pc = "missed", !.hop = call[c].hop + 1]
    <3>1. call' = [call EXCEPT ![c] = r] /\ call[c].hop < Len(Route)
      BY <1>5, <2>2 DEF Recover
    <3>2. r \in Calls
      <4>1. call[c] \in Calls /\ call[c].hop \in Hops
        BY <1>0 DEF Calls
      <4>2. call[c].hop + 1 \in Hops
        BY <3>1, <4>1, RouteFacts DEF Hops
      <4> QED BY <1>0, <4>1, <4>2 DEF Calls
    <3> HIDE DEF r
    <3> QED BY <1>0, <1>5, <1>k, <3>1, <3>2 DEF Recover, TypeOK
  <2> QED BY <2>1, <2>2
<1>6. ASSUME NEW c \in Callers, NEW s \in Symbols, GetCurrentPrice(c, s) PROVE TypeOK'
  <2>1. [pc |-> "missed", symbol |-> s, hop |-> 1] \in Calls
    BY <1>0, RouteFacts DEF Calls
  <2> QED BY <1>0, <1>6, <1>k, <2>1 DEF GetCurrentPrice, TypeOK
<1>7. ASSUME NEW x \in Slugs, NEW f \in flight[x], Response(x, f) PROVE TypeOK'
  <2>1. f \in Flight /\ flight' \in [Slugs -> SUBSET Flight]
    BY <1>0, <1>7 DEF Response
  <2>2. call' \in [Callers -> Calls]
    <3> SUFFICES ASSUME NEW c \in Callers, NEW pc \in Pc
                 PROVE  [call[c] EXCEPT !.pc = pc] \in Calls
      BY <1>0, <1>7 DEF Response
    <3>1. call[c] \in Calls
      BY <1>0
    <3> QED BY <3>1 DEF Calls
  <2>3. circuit' \in [Slugs -> CircuitData]
    BY <1>7, CircuitTypes DEF Response, TypeOK
  <2>4. streak' \in [Slugs -> Nat]
    BY <1>7 DEF Response, TypeOK
  <2>5. memCache' \subseteq Slugs \X Symbols
    <3>1. Listed \subseteq Slugs \X Symbols
      BY FeedAssumption
    <3> QED BY <1>7, <3>1 DEF Response, TypeOK
  <2> QED BY <1>7, <1>k, <1>0, <2>1, <2>2, <2>3, <2>4, <2>5 DEF Response, TypeOK
<1>8. ASSUME NEW x \in Slugs, NEW f \in flight[x], BatchError(x, f) PROVE TypeOK'
  <2>1. f \in Flight /\ flight' \in [Slugs -> SUBSET Flight]
    BY <1>0, <1>8 DEF BatchError
  <2>2. call' \in [Callers -> Calls]
    BY <1>0, <1>8, GotoFacts DEF BatchError
  <2>3. circuit' \in [Slugs -> CircuitData]
    BY <1>8, CircuitTypes DEF BatchError, TypeOK
  <2>4. streak' \in [Slugs -> Nat]
    BY <1>8 DEF BatchError, TypeOK
  <2> QED BY <1>8, <1>k, <1>0, <2>1, <2>2, <2>3, <2>4 DEF BatchError, TypeOK
<1>9. CASE OnModuleDestroy
  <2>1. call' \in [Callers -> Calls]
    BY <1>0, <1>9, GotoFacts DEF OnModuleDestroy
  <2>2. batch' \in [Slugs -> Batches]
    BY <1>9, IdleFacts DEF OnModuleDestroy
  <2> QED BY <1>9, <1>k, <1>0, <2>1, <2>2 DEF OnModuleDestroy, TypeOK
<1>10. ASSUME NEW e \in memCache, ExpireTicker(e) PROVE TypeOK'
  BY <1>0, <1>10, <1>k DEF ExpireTicker, TypeOK
<1>11. CASE Tick
  BY <1>0, <1>11, <1>k, CircuitTypes DEF Tick, TypeOK
<1>12. ASSUME NEW x \in Slugs, Outage(x) PROVE TypeOK'
  BY <1>0, <1>12, <1>k DEF Outage, TypeOK
<1> QED BY <1>1, <1>2, <1>3, <1>4, <1>5, <1>6, <1>7, <1>8, <1>9, <1>10, <1>11, <1>12
        DEF Next, CallerStep, RequestEnds

\* Every variable holds a value the code can store: circuits stay circuits and
\* a caller never leaves its route, however long the route is.
THEOREM TypeCorrect == Spec => []TypeOK
BY TypeInit, TypeStep, PTL DEF Spec

-----------------------------------------------------------------------------
(* Circuits.                                                               *)

\* The successes a half-open circuit has counted are successes in a row.
Counted == \A x \in Slugs: circuit[x].state = "HALF_OPEN" => circuit[x].consecutiveSuccesses <= streak[x]

\* What each method does to the state and the count.
LEMMA CircuitSteps ==
  ASSUME NEW c \in CircuitData
  PROVE  /\ RecordSuccess(c) = c \/ c.state = "HALF_OPEN"
         /\ c.state = "HALF_OPEN" =>
              \/ c.consecutiveSuccesses + 1 >= SuccessThreshold /\ RecordSuccess(c).state = "CLOSED"
              \/ /\ c.consecutiveSuccesses + 1 < SuccessThreshold
                 /\ RecordSuccess(c).state = "HALF_OPEN"
                 /\ RecordSuccess(c).consecutiveSuccesses = c.consecutiveSuccesses + 1
         /\ RecordFailure(c).state # "HALF_OPEN"
         /\ RecordFailure(c).state = "CLOSED" => c.state = "CLOSED"
         /\ Age(c).state = c.state /\ Age(c).consecutiveSuccesses = c.consecutiveSuccesses
<1>0. SuccessThreshold \in Nat
  BY BreakerAssumption
<1>1. RecordSuccess(c) = c \/ c.state = "HALF_OPEN"
  BY DEF RecordSuccess
<1>2. ASSUME c.state = "HALF_OPEN"
      PROVE  \/ c.consecutiveSuccesses + 1 >= SuccessThreshold /\ RecordSuccess(c).state = "CLOSED"
             \/ /\ c.consecutiveSuccesses + 1 < SuccessThreshold
                /\ RecordSuccess(c).state = "HALF_OPEN"
                /\ RecordSuccess(c).consecutiveSuccesses = c.consecutiveSuccesses + 1
  BY <1>0, <1>2, CircuitTypes DEF RecordSuccess, CircuitData
<1>3. RecordFailure(c).state # "HALF_OPEN" /\ (RecordFailure(c).state = "CLOSED" => c.state = "CLOSED")
  <2>1. [c EXCEPT !.failures[0] = @ + 1].state = c.state
    BY DEF CircuitData
  <2> QED BY <2>1 DEF RecordFailure
<1>4. Age(c).state = c.state /\ Age(c).consecutiveSuccesses = c.consecutiveSuccesses
  BY DEF Age, CircuitData
<1> QED BY <1>1, <1>2, <1>3, <1>4

\* Every step but a response leaves open circuits open, and keeps the count.
LEMMA CountedStep ==
  ASSUME TypeOK, Counted, [Next]_vars
  PROVE  /\ Counted'
         /\ \A x \in Slugs: circuit[x].state # "CLOSED" /\ circuit'[x].state = "CLOSED"
                               => streak[x] + 1 >= SuccessThreshold
<1> DEFINE Goal == /\ Counted'
                   /\ \A x \in Slugs: circuit[x].state # "CLOSED" /\ circuit'[x].state = "CLOSED"
                               => streak[x] + 1 >= SuccessThreshold
<1>0. SuccessThreshold \in Nat /\ \A x \in Slugs: circuit[x] \in CircuitData /\ streak[x] \in Nat
  BY BreakerAssumption DEF TypeOK
<1>1. ASSUME Looked(circuit'), UNCHANGED streak PROVE Goal
  BY <1>0, <1>1 DEF Looked, Counted
<1>2. ASSUME UNCHANGED <<circuit, streak>> PROVE Goal
  BY <1>0, <1>2 DEF Counted
<1>3. ASSUME NEW c \in Callers, Ask(c) PROVE Goal
  BY <1>1, <1>3, AskOutcome DEF Ask
<1>4. ASSUME NEW x \in Slugs, TimerFires(x) PROVE Goal
  BY <1>1, <1>4, TimerOutcome DEF TimerFires
<1>5. ASSUME NEW x \in Slugs, NEW f \in flight[x], Response(x, f) PROVE Goal
  <2>1. \A y \in Slugs \ {x}: circuit'[y] = circuit[y] /\ streak'[y] = streak[y]
    BY <1>5 DEF Response, TypeOK
  <2>2. circuit'[x] = RecordSuccess(circuit[x])
    BY <1>5 DEF Response, TypeOK
  <2>3. streak'[x] = IF RecordSuccess(circuit[x]).state = "CLOSED" THEN 0
                     ELSE IF streak[x] + 1 < SuccessThreshold THEN streak[x] + 1 ELSE streak[x]
    BY <1>5 DEF Response, TypeOK
  <2>4. circuit[x].consecutiveSuccesses \in Nat
    BY <1>0 DEF CircuitData
  <2>5. circuit'[x].state = "HALF_OPEN" => circuit'[x].consecutiveSuccesses <= streak'[x]
    <3> SUFFICES ASSUME circuit'[x].state = "HALF_OPEN"
                 PROVE  circuit'[x].consecutiveSuccesses <= streak'[x]
      OBVIOUS
    <3>1. circuit[x].state = "HALF_OPEN"
      BY <1>0, <2>2, CircuitSteps
    <3>2. /\ circuit[x].consecutiveSuccesses + 1 < SuccessThreshold
          /\ circuit'[x].consecutiveSuccesses = circuit[x].consecutiveSuccesses + 1
      BY <1>0, <2>2, <3>1, CircuitSteps
    <3>3. circuit[x].consecutiveSuccesses <= streak[x]
      BY <3>1 DEF Counted
    <3>4. streak'[x] = IF streak[x] + 1 < SuccessThreshold THEN streak[x] + 1 ELSE streak[x]
      BY <2>2, <2>3
    <3> QED BY <1>0, <2>4, <3>2, <3>3, <3>4
  <2>6. circuit[x].state # "CLOSED" /\ circuit'[x].state = "CLOSED" => streak[x] + 1 >= SuccessThreshold
    <3> SUFFICES ASSUME circuit[x].state # "CLOSED", circuit'[x].state = "CLOSED"
                 PROVE  streak[x] + 1 >= SuccessThreshold
      OBVIOUS
    <3>1. circuit[x].state = "HALF_OPEN" /\ circuit[x].consecutiveSuccesses + 1 >= SuccessThreshold
      BY <1>0, <2>2, CircuitSteps
    <3> QED BY <1>0, <2>4, <3>1 DEF Counted
  <2> QED BY <1>0, <2>1, <2>5, <2>6 DEF Counted
<1>6. ASSUME NEW x \in Slugs, NEW f \in flight[x], BatchError(x, f) PROVE Goal
  <2>1. /\ \A y \in Slugs \ {x}: circuit'[y] = circuit[y] /\ streak'[y] = streak[y]
        /\ circuit'[x] = RecordFailure(circuit[x])
    BY <1>6 DEF BatchError, TypeOK
  <2> QED BY <1>0, <2>1, CircuitSteps DEF Counted
<1>7. CASE Tick
  <2>1. \A x \in Slugs: circuit'[x] = Age(circuit[x]) /\ streak'[x] = streak[x]
    BY <1>7 DEF Tick
  <2> QED BY <1>0, <2>1, CircuitSteps DEF Counted
<1>8. CASE UNCHANGED vars
  BY <1>2, <1>8 DEF vars
<1>9. ASSUME NEW c \in Callers, Return(c) \/ Recover(c) \/ \E s \in Symbols: GetCurrentPrice(c, s) PROVE Goal
  BY <1>2, <1>9 DEF Return, Recover, GetCurrentPrice
<1>10. CASE OnModuleDestroy \/ (\E e \in memCache: ExpireTicker(e)) \/ (\E x \in Slugs: Outage(x))
  BY <1>2, <1>10 DEF OnModuleDestroy, ExpireTicker, Outage
<1>11. ASSUME NEW c \in Callers, CallerStep(c) \/ RequestEnds(c) PROVE Goal
  <2>1. CASE CallerStep(c)
    BY <1>3, <1>9, <2>1 DEF CallerStep
  <2>2. CASE RequestEnds(c)
    <3>1. PICK x \in Slugs: \E f \in flight[x]: c \in f.waiters /\ (Response(x, f) \/ BatchError(x, f))
      BY <2>2 DEF RequestEnds
    <3>2. PICK f \in flight[x]: Response(x, f) \/ BatchError(x, f)
      BY <3>1
    <3>3. CASE Response(x, f)
      BY <1>5, <3>3
    <3>4. CASE BatchError(x, f)
      BY <1>6, <3>4
    <3> QED BY <3>2, <3>3, <3>4
  <2> QED BY <1>11, <2>1, <2>2
<1>12. CASE Next
  BY <1>4, <1>7, <1>9, <1>10, <1>11, <1>12, Zenon DEF Next
<1> QED BY <1>8, <1>12, Zenon

\* The circuit of an exchange closes only after SuccessThreshold successes in a
\* row, for every threshold and however late answers arrive.
THEOREM ClosingNeedsEvidence == Spec => ClosesOnEvidence
<1>1. Init => Counted
  BY CircuitTypes DEF Init, Counted
<1>2. TypeOK /\ Counted /\ [Next]_vars => Counted'
  BY CountedStep
<1>3. TypeOK /\ Counted /\ [Next]_vars =>
        [\A x \in Slugs: circuit[x].state # "CLOSED" /\ circuit'[x].state = "CLOSED"
                            => streak[x] + 1 >= SuccessThreshold]_vars
  BY CountedStep
<1> QED BY <1>1, <1>2, <1>3, TypeInit, TypeStep, PTL DEF Spec, ClosesOnEvidence

-----------------------------------------------------------------------------
(* Waiting callers.  The same as NobodyForgotten, said of callers, batches *)
(* and flights one by one.                                                 *)

Held(c) == \/ \E x \in Slugs: c \in batch[x].pending
           \/ \E x \in Slugs: \E f \in flight[x]: c \in f.waiters

InBatch(c, x) ==
    /\ call[c].pc = "waiting" /\ Slug(c) = x /\ batch[x].timer
    /\ \A y \in Slugs: \A f \in flight[y]: c \notin f.waiters

Waits ==
    /\ \A c \in Callers: call[c].pc = "waiting" => Held(c)
    /\ \A x \in Slugs: \A c \in batch[x].pending: InBatch(c, x)
    /\ \A x \in Slugs: \A f \in flight[x]: \A c \in f.waiters: call[c].pc = "waiting"
    /\ \A x, y \in Slugs: \A f \in flight[x], g \in flight[y]: \A c \in f.waiters:
          c \in g.waiters => x = y /\ f = g

\* A step that moves callers that are neither waiting before nor after.
LEMMA WaitsElsewhere ==
  ASSUME TypeOK, Waits, UNCHANGED <<batch, flight>>, NEW c \in Callers, call[c].pc # "waiting",
         call'[c].pc # "waiting", \A d \in Callers \ {c}: call'[d] = call[d]
  PROVE  Waits'
<1>1. \A x \in Slugs: batch[x].pending \subseteq Callers /\ \A f \in flight[x]: f.waiters \subseteq Callers
  BY DEF TypeOK, Flight
<1>2. \A x \in Slugs: c \notin batch[x].pending /\ \A f \in flight[x]: c \notin f.waiters
  BY DEF Waits, InBatch
<1> QED BY <1>1, <1>2 DEF Waits, InBatch, Held, Slug

\* A batch is flushed, possibly with one more caller c.
LEMMA FlushWaits ==
  ASSUME TypeOK, Waits, NEW x \in Slugs, NEW waiting \in SUBSET Callers, NEW calls \in [Callers -> Calls],
         batch[x].pending \subseteq waiting, 
         \A c \in waiting \ batch[x].pending: call[c].pc # "waiting",
         \A c \in waiting: calls[c].pc = "waiting",
         \A c \in Callers \ waiting: calls[c] = call[c],
         Rejects(x, waiting, calls) \/ Sends(x, waiting, calls)
  PROVE  Waits'
<1>1. \A y \in Slugs: batch[y].pending \subseteq Callers /\ \A f \in flight[y]: f.waiters \subseteq Callers
  BY DEF TypeOK, Flight
<1>2. \A y \in Slugs: batch'[y] = IF y = x THEN EmptyBatch ELSE batch[y]
  BY DEF TypeOK, Rejects, Sends
<1>3. \A y \in Slugs \ {x}: \A c \in batch[y].pending: c \notin waiting
  BY DEF Waits, InBatch
<1>4. \A y \in Slugs: \A f \in flight[y]: \A c \in f.waiters: c \notin waiting
  BY DEF Waits, InBatch
<1>5. CASE Rejects(x, waiting, calls)
  <2>1. UNCHANGED flight
    BY <1>5 DEF Rejects
  <2>2. \A c \in Callers: call'[c].pc = IF c \in waiting THEN "failed" ELSE call[c].pc
    BY <1>5, GotoFacts DEF Rejects, Pc
  <2>3. \A c \in Callers \ waiting: call'[c] = call[c]
    BY <1>5 DEF Rejects, Goto
  <2>4. ASSUME NEW c \in Callers, call'[c].pc = "waiting" PROVE Held(c)'
    <3>1. c \notin waiting /\ call[c].pc = "waiting"
      BY <2>2, <2>4
    <3> QED BY <1>2, <2>1, <3>1 DEF Waits, Held
  <2>5. ASSUME NEW y \in Slugs, NEW c \in batch'[y].pending PROVE InBatch(c, y)'
    <3>1. y # x /\ c \in batch[y].pending /\ c \in Callers \ waiting
      BY <1>1, <1>2, <1>3, <2>5, IdleFacts
    <3> QED BY <1>2, <2>1, <2>3, <3>1 DEF Waits, InBatch, Slug
  <2>6. \A y \in Slugs: \A f \in flight'[y]: \A c \in f.waiters: call'[c].pc = "waiting"
    BY <1>1, <1>4, <2>1, <2>3 DEF Waits
  <2> QED BY <2>1, <2>4, <2>5, <2>6 DEF Waits
<1>6. CASE Sends(x, waiting, calls)
  <2> DEFINE n == [waiters |-> waiting, sentUp |-> up[x]]
  <2>1. call' = calls /\ \A y \in Slugs: flight'[y] = IF y = x THEN flight[x] \union {n} ELSE flight[y]
    BY <1>6 DEF Sends, TypeOK
  <2>2. n.waiters = waiting
    OBVIOUS
  <2> HIDE DEF n
  <2>3. \A y \in Slugs: \A f \in flight'[y]: f \in flight[y] \/ (y = x /\ f = n)
    BY <2>1
  <2>4. ASSUME NEW c \in Callers, call'[c].pc = "waiting" PROVE Held(c)'
    <3>1. CASE c \in waiting
      BY <2>1, <2>2, <3>1 DEF Held
    <3>2. CASE c \notin waiting
      <4>1. call[c].pc = "waiting"
        BY <2>1, <2>4, <3>2
      <4> QED BY <1>2, <2>1, <3>2, <4>1 DEF Waits, Held
    <3> QED BY <3>1, <3>2
  <2>5. ASSUME NEW y \in Slugs, NEW c \in batch'[y].pending PROVE InBatch(c, y)'
    <3>1. y # x /\ c \in batch[y].pending /\ c \in Callers \ waiting
      BY <1>1, <1>2, <1>3, <2>5, IdleFacts
    <3>2. call'[c] = call[c]
      BY <2>1, <3>1
    <3> QED BY <1>2, <2>2, <2>3, <3>1, <3>2 DEF Waits, InBatch, Slug
  <2>6. \A y \in Slugs: \A f \in flight'[y]: \A c \in f.waiters: call'[c].pc = "waiting"
    BY <1>1, <1>4, <2>1, <2>2, <2>3 DEF Waits
  <2>7. ASSUME NEW y \in Slugs, NEW z \in Slugs, NEW f \in flight'[y], NEW g \in flight'[z],
               NEW c \in f.waiters, c \in g.waiters
        PROVE  y = z /\ f = g
    BY <1>4, <2>2, <2>3, <2>7 DEF Waits
  <2> QED BY <2>4, <2>5, <2>6, <2>7 DEF Waits
<1> QED BY <1>5, <1>6

\* A flight comes back, and its callers stop waiting.
LEMMA LandingWaits ==
  ASSUME TypeOK, Waits, NEW x \in Slugs, NEW f \in flight[x], UNCHANGED batch,
         flight' = [flight EXCEPT ![x] = @ \ {f}],
         \A c \in Callers \ f.waiters: call'[c] = call[c],
         \A c \in f.waiters: call'[c].pc # "waiting"
  PROVE  Waits'
<1>1. /\ \A y \in Slugs: batch[y].pending \subseteq Callers /\ \A g \in flight[y]: g.waiters \subseteq Callers
      /\ f.waiters \subseteq Callers
  BY DEF TypeOK, Flight
<1>2. \A y \in Slugs: flight'[y] = IF y = x THEN flight[x] \ {f} ELSE flight[y]
  BY DEF TypeOK
<1>3. \A y \in Slugs: \A g \in flight'[y]: g \in flight[y] /\ \A c \in g.waiters: c \notin f.waiters
  BY <1>2 DEF Waits
<1>4. \A y \in Slugs: \A c \in batch[y].pending: c \notin f.waiters
  BY DEF Waits, InBatch
<1>5. ASSUME NEW c \in Callers, call'[c].pc = "waiting" PROVE Held(c)'
  <2>1. c \notin f.waiters /\ call[c].pc = "waiting"
    BY <1>5
  <2>2. Held(c)
    BY <2>1 DEF Waits
  <2> QED BY <1>2, <2>1, <2>2 DEF Held
<1>6. ASSUME NEW y \in Slugs, NEW c \in batch[y].pending PROVE InBatch(c, y)'
  <2>1. c \in Callers \ f.waiters /\ call'[c] = call[c] /\ InBatch(c, y)
    BY <1>1, <1>4, <1>6 DEF Waits
  <2> QED BY <1>3, <2>1 DEF InBatch, Slug
<1>7. \A y \in Slugs: \A g \in flight'[y]: \A c \in g.waiters: call'[c].pc = "waiting"
  BY <1>1, <1>3 DEF Waits
<1> QED BY <1>3, <1>5, <1>6, <1>7 DEF Waits

LEMMA WaitsStep == TypeOK /\ Waits /\ [Next]_vars => Waits'
<1> SUFFICES ASSUME TypeOK, Waits, [Next]_vars PROVE Waits'
  OBVIOUS
<1>0. /\ call \in [Callers -> Calls] /\ {"got", "failed", "waiting", "missed"} \subseteq Pc
      /\ \A x \in Slugs: batch[x].pending \subseteq Callers /\ \A f \in flight[x]: f.waiters \subseteq Callers
  BY DEF TypeOK, Calls, Pc, Flight
<1>1. ASSUME UNCHANGED <<call, batch, flight>> PROVE Waits'
  BY <1>1 DEF Waits, Held, InBatch, Slug
<1>2. ASSUME NEW c \in Callers, Ask(c) PROVE Waits'
  <2> DEFINE x == Slug(c)
             waiting == batch[x].pending \union {c}
             calls == Goto(call, {c}, "waiting")
  <2>1. x \in Slugs /\ waiting \in SUBSET Callers /\ call[c].pc = "missed"
    BY <1>0, <1>2, RouteFacts DEF Ask, TypeOK, Slug
  <2>2. /\ calls \in [Callers -> Calls] /\ calls[c].pc = "waiting" /\ calls[c].hop = call[c].hop
        /\ \A d \in Callers \ {c}: calls[d] = call[d]
    <3>1. calls \in [Callers -> Calls] /\ calls[c].pc = "waiting" /\ calls[c].hop = call[c].hop
      BY <1>0, GotoFacts
    <3> QED BY <3>1 DEF Goto
  <2>3. CASE Answers(c)
    <3>1. PICK p \in {"got", "failed"}: call' = Goto(call, {c}, p)
      BY <2>3 DEF Answers
    <3>2. call'[c].pc = p /\ \A d \in Callers \ {c}: call'[d] = call[d]
      <4>1. call'[c].pc = p
        BY <1>0, <3>1, GotoFacts
      <4> QED BY <3>1, <4>1 DEF Goto
    <3> QED BY <2>1, <2>3, <3>2, WaitsElsewhere DEF Answers
  <2>4. CASE Joins(c, x)
    <3> HIDE DEF x, calls
    <3>1. /\ call' = calls /\ UNCHANGED flight
          /\ \A y \in Slugs \ {x}: batch'[y] = batch[y]
          /\ batch'[x].pending = waiting /\ batch'[x].timer = TRUE
      BY <2>1, <2>4 DEF Joins, TypeOK, calls
    <3>2. \A y \in Slugs: c \notin batch[y].pending /\ \A f \in flight[y]: c \notin f.waiters
      BY <2>1 DEF Waits, InBatch
    <3>3. ASSUME NEW d \in Callers, call'[d].pc = "waiting" PROVE Held(d)'
      <4>1. CASE d = c
        BY <2>1, <3>1, <4>1 DEF Held
      <4>2. CASE d # c
        <5>1. Held(d)
          BY <2>2, <3>1, <3>3, <4>2 DEF Waits
        <5> QED BY <2>1, <3>1, <5>1 DEF Held
      <4> QED BY <4>1, <4>2
    <3>4. ASSUME NEW y \in Slugs, NEW d \in batch'[y].pending PROVE InBatch(d, y)'
      <4>1. CASE d = c
        <5>1. y = x
          BY <3>1, <3>2, <3>4, <4>1
        <5>2. Slug(c)' = x
          BY <2>2, <3>1 DEF Slug, x
        <5> QED BY <2>2, <3>1, <3>2, <4>1, <5>1, <5>2 DEF InBatch
      <4>2. CASE d # c
        <5>1. d \in batch[y].pending /\ d \in Callers /\ call'[d] = call[d] /\ batch'[y].timer = batch[y].timer
          <6>1. d \in batch[y].pending
            BY <3>1, <3>4, <4>2
          <6>2. batch[y].timer = TRUE
            BY <6>1 DEF Waits, InBatch, TypeOK
          <6> QED BY <1>0, <2>2, <3>1, <4>2, <6>1, <6>2
        <5> QED BY <3>1, <5>1 DEF Waits, InBatch, Slug
      <4> QED BY <4>1, <4>2
    <3>5. \A y \in Slugs: \A f \in flight[y]: \A d \in f.waiters: call'[d].pc = "waiting"
      BY <1>0, <2>2, <3>1, <3>2 DEF Waits
    <3> QED BY <3>1, <3>3, <3>4, <3>5 DEF Waits
  <2>5. CASE Rejects(x, waiting, calls) \/ Sends(x, waiting, calls)
    <3> HIDE DEF calls, x
    <3>1. \A d \in waiting: calls[d].pc = "waiting"
      <4>1. \A d \in batch[x].pending: call[d].pc = "waiting"
        BY <2>1 DEF Waits, InBatch
      <4> QED BY <2>1, <2>2, <4>1
    <3>2. \A d \in waiting \ batch[x].pending: call[d].pc # "waiting"
      BY <2>1
    <3> QED BY <2>1, <2>2, <2>5, <3>1, <3>2, FlushWaits
  <2> QED BY <1>2, <2>3, <2>4, <2>5, AskOutcome
<1>3. ASSUME NEW x \in Slugs, TimerFires(x) PROVE Waits'
  <2>1. \A d \in batch[x].pending: call[d].pc = "waiting"
    BY DEF Waits, InBatch
  <2> QED BY <1>0, <1>3, <2>1, TimerOutcome, FlushWaits
<1>4. ASSUME NEW c \in Callers, Return(c) \/ Recover(c) \/ \E s \in Symbols: GetCurrentPrice(c, s) PROVE Waits'
  <2>1. UNCHANGED <<batch, flight>> /\ call[c].pc # "waiting" /\ \A d \in Callers \ {c}: call'[d] = call[d]
    BY <1>0, <1>4 DEF Return, Recover, GetCurrentPrice
  <2>2. call'[c].pc # "waiting"
    <3>1. call[c] \in Calls
      BY <1>0
    <3>2. [call[c] EXCEPT !.pc = "missed", !.hop = call[c].hop + 1].pc = "missed"
      BY <3>1 DEF Calls
    <3>3. \E r: call' = [call EXCEPT ![c] = r] /\ r.pc \in {"idle", "missed"}
      BY <1>4, <3>2, IdleFacts DEF Return, Recover, GetCurrentPrice
    <3> QED BY <1>0, <3>3
  <2> QED BY <2>1, <2>2, WaitsElsewhere
<1>5. ASSUME NEW x \in Slugs, NEW f \in flight[x], Response(x, f) PROVE Waits'
  <2>1. \A c \in Callers \ f.waiters: call'[c] = call[c]
    BY <1>5 DEF Response
  <2>2. \A c \in f.waiters: call'[c].pc # "waiting"
    <3> SUFFICES ASSUME NEW c \in f.waiters PROVE call'[c].pc # "waiting"
      OBVIOUS
    <3>1. c \in Callers /\ call[c] \in Calls
      BY <1>0
    <3>2. \E p \in {"got", "failed"}: call'[c] = [call[c] EXCEPT !.pc = p]
      BY <1>5, <3>1 DEF Response
    <3> QED BY <3>1, <3>2 DEF Calls
  <2> QED BY <1>5, <2>1, <2>2, LandingWaits DEF Response
<1>6. ASSUME NEW x \in Slugs, NEW f \in flight[x], BatchError(x, f) PROVE Waits'
  <2>1. \A c \in Callers \ f.waiters: call'[c] = call[c]
    BY <1>6 DEF BatchError, Goto
  <2>2. \A c \in f.waiters: call'[c].pc # "waiting"
    BY <1>0, <1>6, GotoFacts DEF BatchError
  <2> QED BY <1>6, <2>1, <2>2, LandingWaits DEF BatchError
<1>7. CASE OnModuleDestroy
  <2> DEFINE P == UNION {batch[x].pending : x \in Slugs}
  <2>1. call' = Goto(call, P, "failed") /\ UNCHANGED flight /\ \A x \in Slugs: batch'[x].pending = {}
    BY <1>7, IdleFacts DEF OnModuleDestroy
  <2>2. \A c \in Callers: call'[c].pc = IF c \in P THEN "failed" ELSE call[c].pc
    BY <1>0, <2>1, GotoFacts
  <2>3. \A x \in Slugs: \A c \in batch[x].pending: c \in P
    OBVIOUS
  <2>4. \A x \in Slugs: \A f \in flight[x]: \A c \in f.waiters: c \notin P
    BY DEF Waits, InBatch
  <2> HIDE DEF P
  <2> QED BY <1>0, <2>1, <2>2, <2>3, <2>4 DEF Waits, Held
<1>8. CASE UNCHANGED vars
  BY <1>1, <1>8 DEF vars
<1>9. CASE Tick \/ (\E e \in memCache: ExpireTicker(e)) \/ (\E x \in Slugs: Outage(x))
  BY <1>1, <1>9 DEF Tick, ExpireTicker, Outage
<1> QED BY <1>2, <1>3, <1>4, <1>5, <1>6, <1>7, <1>8, <1>9 DEF Next, CallerStep, RequestEnds

LEMMA WaitsMeans == TypeOK /\ Waits => NobodyForgotten
<1> SUFFICES ASSUME TypeOK, Waits, NEW c \in Callers
             PROVE  /\ call[c].pc = "waiting" <=> Batched(c) # {} \/ Flying(c) # {}
                    /\ Batched(c) # {} => Flying(c) = {}
                    /\ \A p, q \in Flying(c): p = q
                    /\ \A x \in Batched(c): batch[x].timer /\ x = Slug(c)
  BY DEF NobodyForgotten
<1>1. \A x: x \in Batched(c) <=> x \in Slugs /\ c \in batch[x].pending
  BY DEF Batched
<1>2. \A p \in Flying(c): /\ p = <<p[1], p[2]>> /\ p[1] \in Slugs /\ p[2] \in flight[p[1]]
                          /\ c \in p[2].waiters
  BY DEF Flying
<1>3. ASSUME NEW x \in Slugs, NEW f \in flight[x], c \in f.waiters PROVE <<x, f>> \in Flying(c)
  BY <1>3 DEF Flying
<1>4. call[c].pc = "waiting" => Batched(c) # {} \/ Flying(c) # {}
  BY <1>1, <1>3 DEF Waits, Held
<1>5. Batched(c) # {} => call[c].pc = "waiting" /\ Flying(c) = {}
  BY <1>1, <1>2 DEF Waits, InBatch
<1>6. Flying(c) # {} => call[c].pc = "waiting"
  BY <1>2 DEF Waits
<1>7. \A p, q \in Flying(c): p = q
  BY <1>2 DEF Waits
<1>8. \A x \in Batched(c): batch[x].timer /\ x = Slug(c)
  BY <1>1 DEF Waits, InBatch
<1> QED BY <1>4, <1>5, <1>6, <1>7, <1>8

\* No caller is forgotten, for any number of callers, exchanges and symbols and
\* any batch size: one that waits is in one batch with an armed timer or in one
\* flight, and nobody else is in either.
THEOREM NobodyIsForgotten == Spec => []NobodyForgotten
<1>1. Init => Waits
  <2> SUFFICES ASSUME Init PROVE Waits
    OBVIOUS
  <2>1. \A c \in Callers: call[c].pc = "idle"
    BY IdleFacts DEF Init
  <2>2. \A x \in Slugs: batch[x].pending = {} /\ flight[x] = {}
    BY IdleFacts DEF Init
  <2> QED BY <2>1, <2>2 DEF Waits
<1> QED BY <1>1, TypeInit, TypeStep, WaitsStep, WaitsMeans, PTL DEF Spec
=============================================================================
