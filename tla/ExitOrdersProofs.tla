-------------------------- MODULE ExitOrdersProofs --------------------------
(***************************************************************************)
(* What holds of the exit of a position for every price, entry price,      *)
(* distance and set of faults: its types, that a leg that is reported has  *)
(* traded, that its counterpart is off the exchange, and that the trailing *)
(* stop is never moved down.                                               *)
(***************************************************************************)
EXTENDS ExitOrders, TLAPS

-----------------------------------------------------------------------------
(* The inductive invariants.                                               *)

\* An exit that was attached: its stop is below its peak, and until it is
\* activated it is where attachExitOrders put it, below any activation price.
Follows(e) ==
    /\ e \in PositionExit
    /\ e.status # "none"
    /\ e.stop < e.peak
    /\ ~e.activated => e.stop = EntryPrice - Distance /\ EntryPrice < ActivationPrice

\* The copies of the row that the jobs hold are attached exits, and the
\* monitor's is the row as long as that is active.  Only a linked one is handled.
Copies ==
    /\ exit.status # "none" => Follows(exit) /\ attach.pc = "done"
    /\ exit.status = "none" => \A l \in Legs: row[l] = "none"
    /\ sync.pc \in {"cancel", "save"} =>
          Follows(sync.exit) /\ exit.status # "none" /\ attach.ocoLinked
    /\ monitor.pc = "loaded" =>
          /\ Follows(monitor.exit) /\ monitor.exit.status = "ACTIVE" /\ exit.status # "none"
          /\ exit.status = "ACTIVE" => exit = monitor.exit

\* A leg is sent once, and without a lost answer its id is known.
Sent ==
    /\ attach.ocoLinked => attach.legs = Legs
    /\ attach.pc = "idle" => \A l \in Legs: exchange[l] = "none"
    /\ attach.pc = "sl" => exchange["tp"] = "none"
    /\ "reply" \notin mishaps => attach.lost = {}

\* Whatever says that a leg was filled has a trade of that leg behind it.
Evidence ==
    /\ \A l \in Legs: exchange[l] \in {"partial", "closed"} => l \in traded
    /\ \A l \in Legs: sync.seen[l] = "FILLED" => l \in traded
    /\ sync.pc \in {"read", "cancel", "save"} => sync.leg \in traded
    /\ TriggeredHasTraded

Live(l) == exchange[l] \in {"open", "partial"}

\* Whatever says that a leg is gone is right, unless a cancel did not get
\* through or an answer was lost.
Told == mishaps \intersect {"reply", "cancel"} = {}

Gone ==
    /\ \A l \in Legs: sync.seen[l] = "CANCELED" => exchange[l] = "canceled"
    /\ Told =>
          /\ \A l \in Legs: row[l] = "CANCELED" => ~Live(l)
          /\ attach.ocoLinked /\ exit.status # "none" => \A l \in Legs: row[l] = "none" => ~Live(l)
          /\ sync.pc = "save" => ~Live(Other(sync.leg))
          /\ \A l \in Legs: exit.status = TriggeredBy(l) => ~Live(Other(l))

-----------------------------------------------------------------------------
(* What the jobs' steps do to their own state.                             *)

LEMMA RecordFacts ==
    /\ NoExit \in PositionExit /\ NoExit.status = "none"
    /\ IdleSync \in SyncRecord /\ IdleSync.pc = "idle"
    /\ \A l \in Legs: IdleSync.seen[l] = "none"
    /\ IdleMonitor \in MonitorRecord /\ IdleMonitor.pc = "idle"
<1>1. NoExit \in PositionExit /\ NoExit.status = "none"
  BY DEF NoExit, PositionExit, PositionExitStatus
<1>2. [l \in Legs |-> "none"] \in [Legs -> OrderStatus]
  BY DEF OrderStatus
<1>3. IdleSync \in SyncRecord
  BY <1>1, <1>2 DEF IdleSync, SyncRecord, SyncPc, Legs
<1>4. IdleSync.pc = "idle" /\ \A l \in Legs: IdleSync.seen[l] = "none"
  BY DEF IdleSync
<1>5. IdleMonitor \in MonitorRecord /\ IdleMonitor.pc = "idle"
  BY <1>1 DEF IdleMonitor, MonitorRecord
<1> QED BY <1>1, <1>3, <1>4, <1>5

LEMMA MappedType ==
  ASSUME NEW s
  PROVE  /\ MappedStatus(s) \in OrderStatus
         /\ MappedStatus(s) = "FILLED" => s = "closed"
         /\ MappedStatus(s) = "CANCELED" => s = "canceled"
BY DEF MappedStatus, OrderStatus

LEMMA SyncStartsFacts ==
  ASSUME TypeOK, SyncStarts
  PROVE  sync' \in SyncRecord /\ sync'.pc = "fetch" /\ sync'.seen = sync.seen
<1> DEFINE f == {l \in Legs: Listed(l)}
           r == [sync EXCEPT !.pc = "fetch", !.listed = f]
<1>1. sync' = r /\ sync \in SyncRecord
  BY DEF SyncStarts, TypeOK
<1>2. f \subseteq Legs
  OBVIOUS
<1> HIDE DEF f
<1>3. r \in SyncRecord /\ r.pc = "fetch" /\ r.seen = sync.seen
  BY <1>1, <1>2 DEF SyncRecord, SyncPc
<1> QED BY <1>1, <1>3

LEMMA SyncOrdersFacts ==
  ASSUME TypeOK, SyncOrders
  PROVE  /\ sync' \in SyncRecord /\ sync'.pc = "next"
         /\ \A l \in Legs: sync'.seen[l] \in {"none", MappedStatus(exchange[l])}
<1> DEFINE f == [l \in Legs |-> IF l \in sync.listed THEN MappedStatus(exchange[l]) ELSE "none"]
           r == [IdleSync EXCEPT !.pc = "next", !.seen = f]
           q == [IdleSync EXCEPT !.pc = "next"]
<1>1. sync' = r \/ sync' = q
  BY DEF SyncOrders
<1>2. f \in [Legs -> OrderStatus] /\ \A l \in Legs: f[l] \in {"none", MappedStatus(exchange[l])}
  BY MappedType DEF OrderStatus
<1> HIDE DEF f
<1>3. r \in SyncRecord /\ r.pc = "next" /\ r.seen = f
  BY <1>2, RecordFacts DEF SyncRecord, SyncPc
<1>4. q \in SyncRecord /\ q.pc = "next" /\ q.seen = IdleSync.seen
  BY RecordFacts DEF SyncRecord, SyncPc
<1> HIDE DEF r, q
<1> QED BY <1>1, <1>2, <1>3, <1>4, RecordFacts

LEMMA SyncTradesFacts ==
  ASSUME TypeOK, SyncTrades
  PROVE  /\ sync' \in SyncRecord /\ sync'.pc = "next"
         /\ \A l \in Legs: sync'.seen[l] # "CANCELED" /\ (sync'.seen[l] = "FILLED" => l \in window)
<1> DEFINE f == [l \in Legs |-> IF l \in window THEN "FILLED" ELSE "none"]
           r == [IdleSync EXCEPT !.pc = "next", !.pass = "trades", !.seen = f]
           q == [IdleSync EXCEPT !.pc = "next", !.pass = "trades"]
<1>1. sync' = r \/ sync' = q
  BY DEF SyncTrades
<1>2. f \in [Legs -> OrderStatus]
      /\ \A l \in Legs: f[l] # "CANCELED" /\ (f[l] = "FILLED" => l \in window)
  BY DEF OrderStatus
<1> HIDE DEF f
<1>3. r \in SyncRecord /\ r.pc = "next" /\ r.seen = f
  BY <1>2, RecordFacts DEF SyncRecord, SyncPc
<1>4. q \in SyncRecord /\ q.pc = "next" /\ q.seen = IdleSync.seen
  BY RecordFacts DEF SyncRecord, SyncPc
<1> HIDE DEF r, q
<1> QED BY <1>1, <1>2, <1>3, <1>4, RecordFacts

LEMMA UpdateOrderFacts ==
  ASSUME TypeOK, NEW l \in Legs, UpdateOrder(l) \/ UpdateCopy(l) \/ UpdateOrderFails(l)
  PROVE  /\ sync' \in SyncRecord /\ sync'.pc \in {"next", "read"}
         /\ \A k \in Legs: sync'.seen[k] \in {"none", sync.seen[k]}
         /\ sync'.pc = "read" => sync'.leg = l /\ sync.seen[l] = "FILLED"
<1> DEFINE f == [sync.seen EXCEPT ![l] = "none"]
           r == [sync EXCEPT !.seen = f, !.leg = l, !.pc = "read"]
           q == [sync EXCEPT !.seen = f]
<1>0. sync \in SyncRecord /\ sync.pc = "next"
  BY DEF TypeOK, UpdateOrder, UpdateCopy, UpdateOrderFails
<1>1. sync' = q \/ (sync' = r /\ sync.seen[l] = "FILLED")
  BY DEF UpdateOrder, UpdateCopy, UpdateOrderFails
<1>2. f \in [Legs -> OrderStatus] /\ \A k \in Legs: f[k] \in {"none", sync.seen[k]}
  BY <1>0 DEF OrderStatus, SyncRecord
<1> HIDE DEF f
<1>3. r \in SyncRecord /\ r.pc = "read" /\ r.seen = f /\ r.leg = l
  BY <1>0, <1>2 DEF SyncRecord, SyncPc
<1>4. q \in SyncRecord /\ q.pc = "next" /\ q.seen = f
  BY <1>0, <1>2 DEF SyncRecord, SyncPc
<1> HIDE DEF r, q
<1> QED BY <1>1, <1>2, <1>3, <1>4

LEMMA HandledFacts ==
  ASSUME TypeOK
  PROVE  Handled \in SyncRecord /\ Handled.pc = "next" /\ Handled.seen = sync.seen
<1>0. sync \in SyncRecord /\ IdleSync.leg \in Legs
  BY RecordFacts DEF TypeOK, SyncRecord
<1> QED BY <1>0, RecordFacts DEF Handled, SyncRecord, SyncPc

LEMMA HandleOcoFillFacts ==
  ASSUME TypeOK, HandleOcoFill
  PROVE  /\ sync' \in SyncRecord /\ sync'.seen = sync.seen
         /\ \/ sync'.pc = "next"
            \/ /\ sync'.pc = "cancel" /\ sync'.leg = sync.leg /\ sync'.exit = exit
               /\ row[sync.leg] # "none" /\ attach.ocoLinked
<1>0. sync \in SyncRecord /\ exit \in PositionExit
  BY DEF TypeOK, SyncRecord
<1> DEFINE r == [sync EXCEPT !.pc = "cancel", !.exit = exit]
<1>1. r \in SyncRecord /\ r.seen = sync.seen /\ r.pc = "cancel" /\ r.leg = sync.leg /\ r.exit = exit
  BY <1>0 DEF SyncRecord, SyncPc
<1>2. sync' = Handled \/ (sync' = r /\ row[sync.leg] # "none" /\ attach.ocoLinked)
  BY DEF HandleOcoFill
<1> HIDE DEF r
<1> QED BY <1>1, <1>2, HandledFacts

LEMMA CancelFacts ==
  ASSUME TypeOK, CancelOther \/ CancelFails
  PROVE  /\ sync' \in SyncRecord /\ sync'.pc = "save" /\ sync.pc = "cancel"
         /\ sync'.seen = sync.seen /\ sync'.leg = sync.leg /\ sync'.exit = sync.exit
<1>0. sync \in SyncRecord
  BY DEF TypeOK, SyncRecord
<1>1. sync' = [sync EXCEPT !.pc = "save"] /\ sync.pc = "cancel"
  BY DEF CancelOther, CancelFails
<1> QED BY <1>0, <1>1 DEF SyncRecord, SyncPc

\* A price moves the stop of an attached exit up or leaves it, and leaves the
\* exit active or triggers it.
LEMMA Trailing ==
  ASSUME NEW e, Follows(e), e.status = "ACTIVE", NEW price \in Prices
  PROVE  /\ Follows(UpdateTrailingStop(e, price))
         /\ UpdateTrailingStop(e, price).stop >= e.stop
         /\ UpdateTrailingStop(e, price).status \in {"ACTIVE", "TRAILING_TRIGGERED"}
<1> DEFINE a == Activated(e, price)
           u == Raised(a, price)
           s == IF a.activated /\ price <= a.stop THEN "TRAILING_TRIGGERED" ELSE u.status
<1>0. /\ price \in Nat /\ EntryPrice \in Nat /\ Distance \in Nat /\ Distance > 0
      /\ Distance <= EntryPrice /\ ActivationPrice \in Nat
      /\ e \in PositionExit
  BY ExitAssumption DEF Follows
<1>1. /\ a \in PositionExit /\ a.stop = e.stop /\ a.status = "ACTIVE" /\ a.stop < a.peak
      /\ ~a.activated => a.stop = EntryPrice - Distance /\ EntryPrice < ActivationPrice
  <2>1. CASE ~e.activated /\ price >= ActivationPrice
    <3>1. e.stop < price /\ e.stop \in Nat
      BY <1>0, <2>1 DEF Follows, PositionExit
    <3>2. a = [e EXCEPT !.activated = TRUE, !.peak = price]
      BY <2>1 DEF Activated
    <3> HIDE DEF a
    <3> QED BY <1>0, <3>1, <3>2 DEF PositionExit
  <2>2. CASE ~(~e.activated /\ price >= ActivationPrice)
    BY <1>0, <2>2 DEF Activated, Follows, PositionExit, PositionExitStatus
  <2> QED BY <2>1, <2>2
<1> HIDE DEF a
<1>2. /\ u \in PositionExit /\ u.stop >= a.stop /\ u.status = "ACTIVE" /\ u.stop < u.peak
      /\ ~u.activated => u.stop = EntryPrice - Distance /\ EntryPrice < ActivationPrice
  <2>1. CASE a.activated /\ price > a.peak
    <3> DEFINE t == IF price - Distance > a.stop THEN price - Distance ELSE a.stop
    <3>1. t \in Nat /\ t >= a.stop /\ t < price
      BY <1>0, <1>1, <2>1 DEF PositionExit
    <3>2. u = [a EXCEPT !.peak = price, !.stop = t]
      BY <2>1 DEF Raised
    <3> HIDE DEF t, u
    <3> QED BY <1>0, <1>1, <2>1, <3>1, <3>2 DEF PositionExit, PositionExitStatus
  <2>2. CASE ~(a.activated /\ price > a.peak)
    BY <1>1, <2>2 DEF Raised, PositionExit
  <2> QED BY <2>1, <2>2
<1> HIDE DEF u
<1>3. UpdateTrailingStop(e, price) = [u EXCEPT !.status = s]
  BY DEF UpdateTrailingStop, u, a
<1>4. s \in {"ACTIVE", "TRAILING_TRIGGERED"} /\ s \in PositionExitStatus /\ s # "none"
  BY <1>2 DEF PositionExitStatus
<1> HIDE DEF s
<1>5. LET v == [u EXCEPT !.status = s]
      IN  /\ v \in PositionExit /\ v.status = s /\ v.stop = u.stop /\ v.peak = u.peak
          /\ v.activated = u.activated
  BY <1>2, <1>4 DEF PositionExit
<1>6. UpdateTrailingStop(e, price).stop >= e.stop
  BY <1>0, <1>1, <1>2, <1>3, <1>5 DEF PositionExit
<1> QED BY <1>1, <1>2, <1>3, <1>4, <1>5, <1>6 DEF Follows

-----------------------------------------------------------------------------
(* Types and copies.                                                       *)

LEMMA FaultFacts ==
  ASSUME TypeOK, NEW kind, Fault(kind)
  PROVE  /\ mishaps' = mishaps \union {kind}
         /\ mishaps' \subseteq Faults \union {"overwritten"}
BY DEF TypeOK, Fault

LEMMA InitFacts == Init => TypeOK /\ Copies /\ Sent /\ Evidence /\ Gone
<1> SUFFICES ASSUME Init PROVE TypeOK /\ Copies /\ Sent /\ Evidence /\ Gone
  OBVIOUS
<1>1. /\ exit = NoExit /\ sync = IdleSync /\ monitor = IdleMonitor /\ mishaps = {}
      /\ exchange = [l \in Legs |-> "none"] /\ row = [l \in Legs |-> "none"]
      /\ traded = {} /\ recent = {} /\ window = {} /\ copies = {} /\ attach = NotAttached
  BY DEF Init
<1>2. NotAttached \in AttachRecord /\ NotAttached.lost = {} /\ ~NotAttached.ocoLinked
      /\ NotAttached.pc = "idle"
  BY DEF NotAttached, AttachRecord
<1>3. TypeOK
  BY <1>1, <1>2, RecordFacts DEF TypeOK, ExchangeStatus, OrderStatus
<1>4. \A l \in Legs: TriggeredBy(l) # "none"
  BY DEF TriggeredBy
<1>5. Copies /\ Sent
  BY <1>1, <1>2, RecordFacts DEF Copies, Sent
<1>6. Evidence
  BY <1>1, <1>4, RecordFacts DEF Evidence, TriggeredHasTraded
<1>7. Gone
  BY <1>1, <1>4, RecordFacts DEF Gone, Live
<1> QED BY <1>3, <1>5, <1>6, <1>7

\* The steps that leave the position exit and the copies of it alone, and make no
\* row where there was none.
LEMMA CopiesStay ==
  ASSUME Copies, UNCHANGED <<exit, monitor>>,
         \A l \in Legs: row[l] = "none" => row'[l] = "none",
         attach.pc = "done" => attach' = attach,
         sync'.pc \in {"cancel", "save"} =>
             \/ sync.pc \in {"cancel", "save"} /\ sync'.exit = sync.exit
             \/ /\ sync'.exit = exit /\ attach.ocoLinked
                /\ \E l \in Legs: row[l] # "none"
  PROVE  Copies'
BY DEF Copies, Follows

\* Sending an order leaves the records of it well typed.
LEMMA PlaceFacts ==
  ASSUME TypeOK, NEW l \in Legs, NEW a \in AttachRecord, Place(l, a)
  PROVE  /\ TypeOK'
         /\ attach'.pc = a.pc /\ attach'.legs = a.legs /\ attach'.ocoLinked = a.ocoLinked
         /\ exchange' = exchange \/ exchange' = [exchange EXCEPT ![l] = "open"]
         /\ mishaps \subseteq mishaps'
         /\ "reply" \notin mishaps' => attach'.lost = a.lost
<1> DEFINE r == [a EXCEPT !.lost = @ \union {l}]
<1>1. /\ r \in AttachRecord /\ r.pc = a.pc /\ r.legs = a.legs /\ r.ocoLinked = a.ocoLinked
  BY DEF AttachRecord
<1>2. \/ attach' = a /\ mishaps' = mishaps
      \/ attach' = r /\ Fault("reply")
  BY DEF Place
<1>3. exchange' = exchange \/ exchange' = [exchange EXCEPT ![l] = "open"]
  BY DEF Place
<1> HIDE DEF r
<1>4. /\ exchange' \in [Legs -> ExchangeStatus]
      /\ UNCHANGED <<traded, recent, window, orders, exit, sync, monitor>>
  BY <1>3 DEF Place, TypeOK, ExchangeStatus
<1>5. mishaps' \subseteq Faults \union {"overwritten"}
  BY <1>2, FaultFacts DEF TypeOK
<1>6. attach' \in AttachRecord
  BY <1>1, <1>2
<1>7. TypeOK'
  BY <1>4, <1>5, <1>6 DEF TypeOK, orders
<1> QED BY <1>1, <1>2, <1>3, <1>7, FaultFacts

\* What the first order is sent with.
LEMMA FirstFacts ==
  ASSUME NEW legs \in SUBSET Legs, NEW ocoLinked \in {FALSE, legs = Legs}
  PROVE  LET a == [pc |-> "sl", legs |-> legs, ocoLinked |-> ocoLinked, lost |-> {}]
         IN  /\ a \in AttachRecord /\ a.pc = "sl" /\ a.lost = {}
             /\ a.ocoLinked => a.legs = Legs
<1>1. ocoLinked \in BOOLEAN /\ (ocoLinked => legs = Legs)
  OBVIOUS
<1> QED BY <1>1 DEF AttachRecord

LEMMA SecondFacts ==
  ASSUME TypeOK
  PROVE  LET a == [attach EXCEPT !.pc = "tp"]
         IN  /\ a \in AttachRecord /\ a.pc = "tp" /\ a.lost = attach.lost
             /\ a.legs = attach.legs /\ a.ocoLinked = attach.ocoLinked
BY DEF TypeOK, AttachRecord

LEMMA TypeStep == TypeOK /\ Copies /\ [Next]_vars => TypeOK' /\ Copies'
<1> SUFFICES ASSUME TypeOK, Copies, [Next]_vars PROVE TypeOK' /\ Copies'
  OBVIOUS
<1>0. /\ sync \in SyncRecord /\ exit \in PositionExit /\ monitor \in MonitorRecord
      /\ attach \in AttachRecord /\ sync.leg \in Legs
  BY DEF TypeOK, SyncRecord
<1>1. CASE UNCHANGED vars
  BY <1>1 DEF vars, market, orders, TypeOK, Copies, Follows
<1>2. CASE AttachCommits
  <2> DEFINE e == [status |-> "ACTIVE", activated |-> ActivationPrice <= EntryPrice,
                   peak |-> EntryPrice, stop |-> EntryPrice - Distance]
             r == [l \in Legs |-> IF l \in attach.legs THEN "NEW" ELSE "none"]
  <2>1. Follows(e)
    <3>1. EntryPrice \in Nat /\ Distance \in Nat /\ EntryPrice - Distance \in Nat /\ ActivationPrice \in Nat
          /\ EntryPrice - Distance < EntryPrice
      BY ExitAssumption
    <3>2. e \in PositionExit
      BY <3>1 DEF PositionExit, PositionExitStatus
    <3>3. ~e.activated => EntryPrice < ActivationPrice
      <4>1. CASE ActivationPrice <= EntryPrice
        <5>1. e.activated = TRUE
          BY <4>1, Zenon
        <5> QED BY <5>1
      <4>2. CASE ~(ActivationPrice <= EntryPrice)
        BY <3>1, <4>2
      <4> QED BY <4>1, <4>2
    <3> QED BY <3>1, <3>2, <3>3 DEF Follows
  <2>2. /\ exit' = e /\ e.status = "ACTIVE" /\ row' = r /\ attach' = [attach EXCEPT !.pc = "done"]
        /\ recent' \subseteq recent /\ attach.pc = "tp"
        /\ UNCHANGED <<exchange, traded, window, copies, sync, monitor, mishaps>>
    BY <1>2 DEF AttachCommits
  <2>3. exit.status = "none"
    BY <2>2 DEF Copies
  <2>4. attach' \in AttachRecord /\ attach'.pc = "done"
    BY <1>0, <2>2 DEF AttachRecord
  <2>5. r \in [Legs -> OrderStatus]
    BY DEF OrderStatus
  <2> HIDE DEF e, r
  <2>6. TypeOK'
    BY <2>1, <2>2, <2>4, <2>5 DEF TypeOK, Follows
  <2>7. Copies'
    BY <2>1, <2>2, <2>3, <2>4 DEF Copies, Follows
  <2> QED BY <2>6, <2>7
<1>3. CASE PlaceStopLoss \/ PlaceTakeProfit
  <2>1. TypeOK' /\ UNCHANGED <<row, exit, monitor, sync>> /\ attach.pc # "done"
    <3>1. CASE PlaceStopLoss
      <4>1. PICK legs \in SUBSET Legs: \E ocoLinked \in {FALSE, legs = Legs}:
               Place("sl", [pc |-> "sl", legs |-> legs, ocoLinked |-> ocoLinked, lost |-> {}])
        BY <3>1 DEF PlaceStopLoss
      <4>2. PICK ocoLinked \in {FALSE, legs = Legs}:
               Place("sl", [pc |-> "sl", legs |-> legs, ocoLinked |-> ocoLinked, lost |-> {}])
        BY <4>1
      <4>3. TypeOK' /\ UNCHANGED <<orders, exit, monitor, sync>>
        BY <4>2, FirstFacts, PlaceFacts DEF Legs, Place
      <4> QED BY <3>1, <4>3 DEF PlaceStopLoss, orders
    <3>2. CASE PlaceTakeProfit
      <4>1. TypeOK' /\ UNCHANGED <<orders, exit, monitor, sync>>
        BY <3>2, SecondFacts, PlaceFacts DEF Legs, Place, PlaceTakeProfit
      <4> QED BY <3>2, <4>1 DEF PlaceTakeProfit, orders
    <3> QED BY <1>3, <3>1, <3>2
  <2> QED BY <2>1, CopiesStay
<1>4. ASSUME sync' \in SyncRecord, UNCHANGED <<exchange, traded, recent, attach, orders, exit, monitor>>,
             window' \subseteq traded, mishaps' \subseteq Faults \union {"overwritten"}
      PROVE  TypeOK'
  BY <1>4 DEF TypeOK, orders
<1>5. CASE SyncStarts
  <2>1. window' \subseteq traded /\ mishaps' \subseteq Faults \union {"overwritten"}
    BY <1>5 DEF SyncStarts, TypeOK
  <2> QED BY <1>4, <1>5, <2>1, SyncStartsFacts, CopiesStay DEF SyncStarts, orders
<1>6. CASE SyncOrders
  <2>1. window' \subseteq traded /\ mishaps' \subseteq Faults \union {"overwritten"}
    BY <1>6, FaultFacts DEF SyncOrders, TypeOK, market
  <2> QED BY <1>4, <1>6, <2>1, SyncOrdersFacts, CopiesStay DEF SyncOrders, market, orders
<1>7. CASE SyncTrades
  <2>1. window' \subseteq traded /\ mishaps' \subseteq Faults \union {"overwritten"}
    BY <1>7, FaultFacts DEF SyncTrades, TypeOK
  <2> QED BY <1>4, <1>7, <2>1, SyncTradesFacts, CopiesStay DEF SyncTrades, orders
<1>20. CASE SyncEnds
  <2>1. window' \subseteq traded /\ mishaps' \subseteq Faults \union {"overwritten"}
    BY <1>20 DEF SyncEnds, TypeOK, market
  <2> QED BY <1>4, <1>20, <2>1, RecordFacts, CopiesStay DEF SyncEnds, market, orders
<1>8. ASSUME NEW l \in Legs, UpdateOrder(l) \/ UpdateCopy(l) \/ UpdateOrderFails(l) PROVE TypeOK' /\ Copies'
  <2>1. mishaps' \subseteq Faults \union {"overwritten"}
    BY <1>8, FaultFacts DEF UpdateOrder, UpdateCopy, UpdateOrderFails, TypeOK
  <2>2. /\ row' \in [Legs -> OrderStatus] /\ copies' \subseteq Legs
        /\ \A k \in Legs: row[k] = "none" => row'[k] = "none"
    BY <1>0, <1>8 DEF UpdateOrder, UpdateCopy, UpdateOrderFails, Recorded, TypeOK, SyncRecord, orders
  <2>3. sync' \in SyncRecord /\ sync'.pc \in {"next", "read"}
    BY <1>8, UpdateOrderFacts
  <2>4. UNCHANGED <<market, attach, exit, monitor>>
    BY <1>8 DEF UpdateOrder, UpdateCopy, UpdateOrderFails
  <2>5. TypeOK'
    BY <2>1, <2>2, <2>3, <2>4 DEF TypeOK, market
  <2> QED BY <2>2, <2>3, <2>4, <2>5, CopiesStay
<1>9. CASE HandleOcoFill
  <2>1. window' \subseteq traded /\ mishaps' \subseteq Faults \union {"overwritten"}
    BY <1>9 DEF HandleOcoFill, TypeOK, market
  <2> QED BY <1>0, <1>4, <1>9, <2>1, HandleOcoFillFacts, CopiesStay DEF HandleOcoFill, market, orders
<1>10. CASE CancelOther \/ CancelFails
  <2>1. mishaps' \subseteq Faults \union {"overwritten"}
    BY <1>10, FaultFacts DEF CancelOther, CancelFails, TypeOK
  <2>2. /\ row' \in [Legs -> OrderStatus]
        /\ \A k \in Legs: row[k] = "none" => row'[k] = "none"
    BY <1>10 DEF CancelOther, CancelFails, TypeOK, OrderStatus
  <2>3. exchange' \in [Legs -> ExchangeStatus]
    BY <1>10 DEF CancelOther, CancelFails, TypeOK, ExchangeStatus
  <2>4. UNCHANGED <<traded, recent, window, attach, copies, exit, monitor>>
    BY <1>10 DEF CancelOther, CancelFails
  <2>5. TypeOK'
    BY <1>10, <2>1, <2>2, <2>3, <2>4, CancelFacts DEF TypeOK
  <2> QED BY <1>10, <2>2, <2>4, <2>5, CancelFacts, CopiesStay
<1>11. CASE SaveExit
  <2> DEFINE e == [sync.exit EXCEPT !.status = TriggeredBy(sync.leg)]
  <2>1. Follows(sync.exit) /\ sync.pc = "save" /\ exit' = e
    BY <1>11 DEF SaveExit, Copies
  <2>2. TriggeredBy(sync.leg) \in PositionExitStatus \ {"none", "ACTIVE"}
    BY DEF TriggeredBy, PositionExitStatus
  <2>3. Follows(e) /\ e.status = TriggeredBy(sync.leg)
    BY <2>1, <2>2 DEF Follows, PositionExit
  <2> HIDE DEF e
  <2>4. TypeOK'
    BY <1>11, <2>1, <2>3, HandledFacts DEF SaveExit, TypeOK, Follows, market, orders
  <2>5. Copies'
    BY <1>11, <2>1, <2>2, <2>3, HandledFacts DEF SaveExit, Copies, Follows, orders
  <2> QED BY <2>4, <2>5
<1>12. CASE HandleOcoFillFails
  <2>1. window' \subseteq traded /\ mishaps' \subseteq Faults \union {"overwritten"}
    BY <1>12, FaultFacts DEF HandleOcoFillFails, TypeOK, market
  <2> QED BY <1>4, <1>12, <2>1, HandledFacts, CopiesStay DEF HandleOcoFillFails, market, orders
<1>13. CASE MonitorLoads
  <2> DEFINE r == [pc |-> "loaded", exit |-> exit]
  <2>1. r \in MonitorRecord /\ r.pc = "loaded" /\ r.exit = exit
    BY <1>0 DEF MonitorRecord
  <2>2. monitor' = r
    BY <1>13 DEF MonitorLoads
  <2> HIDE DEF r
  <2>3. TypeOK'
    BY <1>13, <2>1, <2>2 DEF MonitorLoads, TypeOK, market, orders
  <2>4. Copies'
    BY <1>13, <2>1, <2>2 DEF MonitorLoads, Copies, Follows, orders
  <2> QED BY <2>3, <2>4
<1>14. CASE MonitorSkips
  <2>1. TypeOK'
    BY <1>14, RecordFacts DEF MonitorSkips, TypeOK, market, orders
  <2>2. Copies'
    BY <1>14, RecordFacts DEF MonitorSkips, Copies, Follows, orders
  <2> QED BY <2>1, <2>2
<1>15. ASSUME NEW price \in Prices, MonitorUpdates(price) PROVE TypeOK' /\ Copies'
  <2> DEFINE e == UpdateTrailingStop(monitor.exit, price)
  <2>1. Follows(monitor.exit) /\ monitor.exit.status = "ACTIVE" /\ exit.status # "none"
    BY <1>15 DEF MonitorUpdates, Copies
  <2>2. Follows(e)
    BY <2>1, Trailing
  <2>3. exit' = exit \/ exit' = e
    BY <1>15 DEF MonitorUpdates
  <2>4. monitor' = IdleMonitor /\ mishaps' \subseteq Faults \union {"overwritten"}
    BY <1>15 DEF MonitorUpdates, TypeOK
  <2> HIDE DEF e
  <2>5. Follows(exit')
    BY <2>1, <2>2, <2>3 DEF Copies
  <2>6. TypeOK'
    BY <1>15, <2>4, <2>5, RecordFacts DEF MonitorUpdates, TypeOK, market, orders, Follows
  <2>7. Copies'
    BY <1>15, <2>4, <2>5, RecordFacts DEF MonitorUpdates, Copies, Follows, orders
  <2> QED BY <2>6, <2>7
<1>16. ASSUME NEW l \in Legs, Cleanup(l) PROVE TypeOK' /\ Copies'
  <2>1. /\ row' \in [Legs -> OrderStatus] /\ copies' \subseteq Legs
        /\ \A k \in Legs: row[k] = "none" => row'[k] = "none"
    BY <1>16 DEF Cleanup, TypeOK, OrderStatus
  <2>2. TypeOK'
    BY <1>16, <2>1 DEF Cleanup, TypeOK
  <2> QED BY <1>16, <2>1, <2>2, CopiesStay DEF Cleanup
<1>17. ASSUME NEW l \in Legs, Trade(l) PROVE TypeOK' /\ Copies'
  <2>1. exchange' \in [Legs -> ExchangeStatus]
    BY <1>17 DEF Trade, TypeOK, ExchangeStatus
  <2>2. TypeOK'
    BY <1>17, <2>1 DEF Trade, TypeOK, orders
  <2> QED BY <1>17, <2>2, CopiesStay DEF Trade, orders
<1>18. CASE Crash
  <2>1. /\ attach' \in AttachRecord
        /\ attach.pc = "done" => attach' = attach
    BY <1>0, <1>18 DEF Crash, AttachRecord
  <2>2. TypeOK'
    BY <1>18, <2>1, RecordFacts, FaultFacts DEF Crash, TypeOK, orders
  <2>3. Copies'
    BY <1>18, <2>1, RecordFacts DEF Crash, Copies, Follows, orders
  <2> QED BY <2>2, <2>3
<1>19. CASE NewerOrder
  <2>1. TypeOK'
    BY <1>19, FaultFacts DEF NewerOrder, TypeOK, orders
  <2> QED BY <1>19, <2>1, CopiesStay DEF NewerOrder, orders
<1>21. CASE AttachFails
  <2>1. attach' \in AttachRecord /\ attach.pc # "done"
    BY <1>0, <1>21 DEF AttachFails, AttachRecord
  <2>2. TypeOK'
    BY <1>21, <2>1, FaultFacts DEF AttachFails, TypeOK, market, orders
  <2> QED BY <1>21, <2>1, <2>2, CopiesStay DEF AttachFails, orders
<1> QED BY <1>1, <1>2, <1>3, <1>5, <1>6, <1>7, <1>8, <1>9, <1>10, <1>11, <1>12, <1>13, <1>14, <1>15,
           <1>16, <1>17, <1>18, <1>19, <1>20, <1>21 DEF Next, SyncStep

\* Every variable holds a value the code can store, and a position exit that was
\* attached trails below its peak, whatever the prices are.
THEOREM TypeCorrect == Spec => []TypeOK
BY InitFacts, TypeStep, PTL DEF Spec

\* Sending the legs: what the model's other invariants need to know of it.
LEMMA AttachFacts ==
  ASSUME TypeOK, Copies, Sent, PlaceStopLoss \/ PlaceTakeProfit
  PROVE  /\ exit.status = "none" /\ UNCHANGED <<traded, recent, window, orders, exit, sync, monitor>>
         /\ \A l \in Legs: exchange'[l] = exchange[l] \/ (exchange[l] = "none" /\ exchange'[l] = "open")
         /\ mishaps \subseteq mishaps'
         /\ Sent'
<1>0. exit.status = "none"
  BY DEF PlaceStopLoss, PlaceTakeProfit, Copies
<1>1. CASE PlaceStopLoss
  <2>1. PICK legs \in SUBSET Legs: \E ocoLinked \in {FALSE, legs = Legs}:
           Place("sl", [pc |-> "sl", legs |-> legs, ocoLinked |-> ocoLinked, lost |-> {}])
    BY <1>1 DEF PlaceStopLoss
  <2>2. PICK ocoLinked \in {FALSE, legs = Legs}:
           Place("sl", [pc |-> "sl", legs |-> legs, ocoLinked |-> ocoLinked, lost |-> {}])
    BY <2>1
  <2> DEFINE a == [pc |-> "sl", legs |-> legs, ocoLinked |-> ocoLinked, lost |-> {}]
  <2>3. a \in AttachRecord /\ a.pc = "sl" /\ a.lost = {} /\ (a.ocoLinked => a.legs = Legs)
    BY FirstFacts
  <2>4. Place("sl", a)
    BY <2>2
  <2> HIDE DEF a
  <2>5. \A l \in Legs: exchange[l] = "none"
    BY <1>1 DEF PlaceStopLoss, Sent
  <2>6. /\ attach'.pc = "sl" /\ (attach'.ocoLinked => attach'.legs = Legs)
        /\ exchange' = exchange \/ exchange' = [exchange EXCEPT !["sl"] = "open"]
        /\ mishaps \subseteq mishaps'
        /\ "reply" \notin mishaps' => attach'.lost = {}
    BY <2>3, <2>4, PlaceFacts DEF Legs
  <2>7. Sent' /\ \A l \in Legs: exchange'[l] = exchange[l] \/ (exchange[l] = "none" /\ exchange'[l] = "open")
    BY <2>5, <2>6 DEF Sent, TypeOK, Legs
  <2> QED BY <1>0, <2>4, <2>6, <2>7 DEF Place
<1>2. CASE PlaceTakeProfit
  <2> DEFINE a == [attach EXCEPT !.pc = "tp"]
  <2>1. a \in AttachRecord /\ a.pc = "tp" /\ a.lost = attach.lost
        /\ a.legs = attach.legs /\ a.ocoLinked = attach.ocoLinked
    BY SecondFacts
  <2>2. Place("tp", a)
    BY <1>2 DEF PlaceTakeProfit
  <2> HIDE DEF a
  <2>3. exchange["tp"] = "none"
    BY <1>2 DEF PlaceTakeProfit, Sent
  <2>4. /\ attach'.pc = "tp" /\ attach'.legs = attach.legs /\ attach'.ocoLinked = attach.ocoLinked
        /\ exchange' = exchange \/ exchange' = [exchange EXCEPT !["tp"] = "open"]
        /\ mishaps \subseteq mishaps'
        /\ "reply" \notin mishaps' => attach'.lost = attach.lost
    BY <2>1, <2>2, PlaceFacts DEF Legs
  <2>5. Sent' /\ \A l \in Legs: exchange'[l] = exchange[l] \/ (exchange[l] = "none" /\ exchange'[l] = "open")
    BY <2>3, <2>4 DEF Sent, TypeOK, Legs
  <2> QED BY <1>0, <2>2, <2>4, <2>5 DEF Place
<1> QED BY <1>1, <1>2

LEMMA SentStep == TypeOK /\ Copies /\ Sent /\ [Next]_vars => Sent'
<1> SUFFICES ASSUME TypeOK, Copies, Sent, Next PROVE Sent'
  BY DEF vars, market, Sent
<1>1. CASE PlaceStopLoss \/ PlaceTakeProfit
  BY <1>1, AttachFacts
<1>2. CASE AttachCommits \/ AttachFails \/ Crash
  <2>1. /\ attach' = attach \/ (attach'.pc \notin {"idle", "sl"} /\ attach'.legs = attach.legs
                                /\ attach'.ocoLinked = attach.ocoLinked /\ attach'.lost = attach.lost)
        /\ exchange' = exchange /\ mishaps \subseteq mishaps'
    BY <1>2, FaultFacts DEF AttachCommits, AttachFails, Crash, market, TypeOK, AttachRecord
  <2> QED BY <2>1 DEF Sent
<1>3. CASE UNCHANGED attach
  <2>1. mishaps \subseteq mishaps'
    BY <1>3 DEF Next, SyncStep, PlaceStopLoss, PlaceTakeProfit, Place, AttachCommits, AttachFails, SyncStarts,
           SyncOrders, SyncTrades, SyncEnds, UpdateOrder, UpdateCopy, UpdateOrderFails, HandleOcoFill,
           CancelOther, CancelFails, SaveExit, HandleOcoFillFails, MonitorLoads, MonitorSkips,
           MonitorUpdates, Cleanup, Trade, Crash, NewerOrder, Fault
  <2>2. CASE attach.pc \in {"idle", "sl"}
    <3>1. \A l \in Legs: exchange[l] = "none" => exchange'[l] = "none" \/ PlaceStopLoss \/ PlaceTakeProfit
      BY DEF Next, SyncStep, AttachCommits, AttachFails, SyncStarts,
             SyncOrders, SyncTrades, SyncEnds, UpdateOrder, UpdateCopy, UpdateOrderFails, HandleOcoFill,
             CancelOther, CancelFails, SaveExit, HandleOcoFillFails, MonitorLoads, MonitorSkips,
             MonitorUpdates, Cleanup, Trade, Crash, NewerOrder, market, TypeOK
    <3> QED BY <1>1, <1>3, <2>1, <2>2, <3>1 DEF Sent, Legs
  <2>3. CASE attach.pc \notin {"idle", "sl"}
    BY <1>3, <2>1, <2>3 DEF Sent
  <2> QED BY <2>2, <2>3
<1> QED BY <1>1, <1>2, <1>3
        DEF Next, SyncStep, SyncStarts, SyncOrders, SyncTrades, SyncEnds, UpdateOrder, UpdateCopy, UpdateOrderFails,
            HandleOcoFill, CancelOther, CancelFails, SaveExit, HandleOcoFillFails, MonitorLoads, MonitorSkips,
            MonitorUpdates, Cleanup, Trade, NewerOrder

\* As long as an exit is active its trailing stop is never moved down: by the
\* monitor, which writes back a row it read a price ago, or by anyone else.
THEOREM StopsNeverLoosen == Spec => StopNeverLoosens
<1>1. TypeOK /\ Copies /\ [Next]_vars
        => [exit.status = "ACTIVE" /\ exit'.status = "ACTIVE" => exit'.stop >= exit.stop]_vars
  <2> SUFFICES ASSUME TypeOK, Copies, Next, exit.status = "ACTIVE", exit'.status = "ACTIVE"
               PROVE  exit'.stop >= exit.stop
    OBVIOUS
  <2>0. exit.stop \in Nat
    BY DEF TypeOK, PositionExit
  <2>1. CASE exit' = exit
    <3>1. exit'.stop = exit.stop
      BY <2>1
    <3> QED BY <2>0, <3>1
  <2>2. ~AttachCommits
    <3>1. attach.pc = "done"
      BY DEF Copies
    <3> QED BY <3>1 DEF AttachCommits
  <2>3. CASE SaveExit
    <3>1. sync.exit \in PositionExit /\ TriggeredBy(sync.leg) # "ACTIVE"
      BY DEF TypeOK, SyncRecord, TriggeredBy
    <3> QED BY <2>3, <3>1 DEF SaveExit, PositionExit
  <2>4. ASSUME NEW price \in Prices, MonitorUpdates(price) PROVE exit'.stop >= exit.stop
    <3>1. exit = monitor.exit /\ Follows(monitor.exit)
      BY <2>4 DEF MonitorUpdates, Copies
    <3>2. exit' = exit \/ exit' = UpdateTrailingStop(exit, price)
      BY <2>4, <3>1 DEF MonitorUpdates
    <3> QED BY <2>0, <3>1, <3>2, Trailing
  <2> QED BY <2>1, <2>2, <2>3, <2>4
          DEF Next, SyncStep, PlaceStopLoss, PlaceTakeProfit, Place, AttachFails, SyncStarts,
            SyncOrders, SyncTrades, SyncEnds, UpdateOrder, UpdateCopy, UpdateOrderFails,
              HandleOcoFill, CancelOther, CancelFails, HandleOcoFillFails, MonitorLoads, MonitorSkips,
              Cleanup, Trade, Crash, NewerOrder
<1> QED BY <1>1, InitFacts, TypeStep, PTL DEF Spec, StopNeverLoosens

-----------------------------------------------------------------------------
(* Evidence, and legs that are gone.                                       *)

LEMMA TriggeredFacts ==
    /\ \A l \in Legs: TriggeredBy(l) \notin {"none", "ACTIVE", "TRAILING_TRIGGERED"}
    /\ \A k, l \in Legs: TriggeredBy(k) = TriggeredBy(l) => k = l
    /\ \A l \in Legs: Other(l) \in Legs
BY DEF TriggeredBy, Other, Legs

\* Only handleOcoFill writes that a leg was triggered, and it writes its own.
LEMMA WhoTriggers ==
  ASSUME TypeOK, Copies, Next, NEW l \in Legs, exit'.status = TriggeredBy(l)
  PROVE  exit' = exit \/ (SaveExit /\ l = sync.leg /\ sync.pc = "save")
<1>1. CASE AttachCommits
  <2>1. exit'.status = "ACTIVE"
    BY <1>1 DEF AttachCommits
  <2> QED BY <2>1, TriggeredFacts
<1>2. CASE SaveExit
  <2>1. sync.exit \in PositionExit /\ sync.leg \in Legs
    BY DEF TypeOK, SyncRecord
  <2>2. exit'.status = TriggeredBy(sync.leg)
    BY <1>2, <2>1 DEF SaveExit, PositionExit
  <2> QED BY <1>2, <2>1, <2>2, TriggeredFacts DEF SaveExit
<1>3. ASSUME NEW price \in Prices, MonitorUpdates(price) PROVE exit' = exit
  <2>1. Follows(monitor.exit) /\ monitor.exit.status = "ACTIVE"
    BY <1>3 DEF MonitorUpdates, Copies
  <2>2. exit' = exit \/ exit' = UpdateTrailingStop(monitor.exit, price)
    BY <1>3 DEF MonitorUpdates
  <2>3. UpdateTrailingStop(monitor.exit, price).status \in {"ACTIVE", "TRAILING_TRIGGERED"}
    BY <2>1, Trailing
  <2> QED BY <2>2, <2>3, TriggeredFacts
<1> QED BY <1>1, <1>2, <1>3
        DEF Next, SyncStep, PlaceStopLoss, PlaceTakeProfit, Place, AttachFails, SyncStarts,
            SyncOrders, SyncTrades, SyncEnds, UpdateOrder, UpdateCopy, UpdateOrderFails,
            HandleOcoFill, CancelOther, CancelFails, HandleOcoFillFails, MonitorLoads, MonitorSkips,
            Cleanup, Trade, Crash, NewerOrder

LEMMA EvidenceStep == TypeOK /\ Copies /\ Sent /\ Evidence /\ [Next]_vars => Evidence'
<1> SUFFICES ASSUME TypeOK, Copies, Sent, Evidence, Next PROVE Evidence'
  BY DEF vars, market, Evidence, TriggeredHasTraded
<1>1. TriggeredHasTraded'
  <2>1. traded \subseteq traded'
    BY DEF Next, SyncStep, PlaceStopLoss, PlaceTakeProfit, Place, AttachCommits, AttachFails,
           SyncStarts, SyncOrders, SyncTrades, SyncEnds, UpdateOrder, UpdateCopy, UpdateOrderFails,
           HandleOcoFill, CancelOther, CancelFails, HandleOcoFillFails, MonitorLoads, MonitorSkips,
           MonitorUpdates, SaveExit, Cleanup, Trade, Crash, NewerOrder, market
  <2> QED BY <2>1, WhoTriggers DEF Evidence, TriggeredHasTraded
<1> DEFINE Rest == /\ \A l \in Legs: exchange[l] \in {"partial", "closed"} => l \in traded
                   /\ \A l \in Legs: sync.seen[l] = "FILLED" => l \in traded
                   /\ sync.pc \in {"read", "cancel", "save"} => sync.leg \in traded
<1>2. SUFFICES Rest'
  BY <1>1 DEF Evidence
<1>3. Rest
  BY DEF Evidence
<1> HIDE DEF Evidence
<1>4. CASE PlaceStopLoss \/ PlaceTakeProfit
  <2>1. UNCHANGED <<traded, sync>>
        /\ \A l \in Legs: exchange'[l] \in {"partial", "closed"} => exchange'[l] = exchange[l]
    BY <1>4, AttachFacts
  <2> QED BY <1>3, <2>1
<1>5. CASE SyncOrders
  <2>1. \A l \in Legs: sync'.seen[l] = "FILLED" => l \in traded
    BY <1>3, <1>5, SyncOrdersFacts, MappedType
  <2> QED BY <1>3, <1>5, <2>1, SyncOrdersFacts DEF SyncOrders, market
<1>6. CASE SyncTrades
  <2>1. window \subseteq traded
    BY DEF TypeOK
  <2> QED BY <1>3, <1>6, <2>1, SyncTradesFacts DEF SyncTrades
<1>7. CASE SyncStarts \/ SyncEnds
  BY <1>3, <1>7, RecordFacts, SyncStartsFacts DEF SyncStarts, SyncEnds, market
<1>8. ASSUME NEW l \in Legs, UpdateOrder(l) \/ UpdateCopy(l) \/ UpdateOrderFails(l) PROVE Rest'
  <2>1. UNCHANGED market
    BY <1>8 DEF UpdateOrder, UpdateCopy, UpdateOrderFails
  <2> QED BY <1>3, <1>8, <2>1, UpdateOrderFacts DEF market
<1>9. CASE HandleOcoFill
  <2>1. sync.pc = "read"
    BY <1>9 DEF HandleOcoFill
  <2> QED BY <1>3, <1>9, <2>1, HandleOcoFillFacts DEF HandleOcoFill, market
<1>10. CASE CancelOther \/ CancelFails
  <2>1. \A l \in Legs: exchange'[l] \in {"partial", "closed"} => exchange'[l] = exchange[l]
    BY <1>10 DEF CancelOther, CancelFails, TypeOK
  <2>2. UNCHANGED traded
    BY <1>10 DEF CancelOther, CancelFails
  <2> QED BY <1>3, <1>10, <2>1, <2>2, CancelFacts
<1>11. CASE SaveExit \/ HandleOcoFillFails
  BY <1>3, <1>11, HandledFacts DEF SaveExit, HandleOcoFillFails, market
<1>12. CASE AttachCommits \/ AttachFails \/ MonitorLoads \/ MonitorSkips
            \/ \E price \in Prices: MonitorUpdates(price)
  BY <1>3, <1>12 DEF AttachCommits, AttachFails, MonitorLoads, MonitorSkips, MonitorUpdates, market
<1>13. ASSUME NEW l \in Legs, Cleanup(l) PROVE Rest'
  BY <1>3, <1>13 DEF Cleanup
<1>14. ASSUME NEW l \in Legs, Trade(l) PROVE Rest'
  <2>1. \A k \in Legs \ {l}: exchange'[k] = exchange[k]
    BY <1>14 DEF Trade, TypeOK
  <2> QED BY <1>3, <1>14, <2>1 DEF Trade
<1>15. CASE Crash
  BY <1>3, <1>15, RecordFacts DEF Crash
<1>16. CASE NewerOrder
  BY <1>3, <1>16 DEF NewerOrder
<1> QED BY <1>4, <1>5, <1>6, <1>7, <1>8, <1>9, <1>10, <1>11, <1>12, <1>13, <1>14, <1>15, <1>16
        DEF Next, SyncStep

\* The exit says a leg was triggered only if that leg has traded, whatever
\* faults happen and however the jobs and the market interleave.
THEOREM TriggeredHaveTraded == Spec => []TriggeredHasTraded
<1>1. Evidence => TriggeredHasTraded
  BY DEF Evidence
<1> QED BY <1>1, InitFacts, TypeStep, SentStep, EvidenceStep, PTL DEF Spec

\* Only attachExitOrders brings a leg to the exchange, and a leg canceled there
\* stays so.
LEMMA LiveStep ==
  ASSUME TypeOK, Copies, Sent, Next, NEW l \in Legs
  PROVE  /\ ~PlaceStopLoss /\ ~PlaceTakeProfit => (Live(l)' => Live(l))
         /\ exchange[l] = "canceled" => exchange'[l] = "canceled"
<1>1. CASE CancelOther \/ CancelFails
  BY <1>1 DEF CancelOther, CancelFails, TypeOK, Live
<1>2. ASSUME NEW k \in Legs, Trade(k)
      PROVE  (Live(l)' => Live(l)) /\ (exchange[l] = "canceled" => exchange'[l] = "canceled")
  <2>1. CASE k = l
    BY <1>2, <2>1 DEF Trade, TypeOK, Live
  <2>2. CASE k # l
    <3>1. exchange'[l] = exchange[l]
      BY <1>2, <2>2 DEF Trade, TypeOK
    <3> QED BY <3>1 DEF Live
  <2> QED BY <2>1, <2>2
<1>3. CASE UNCHANGED exchange
  BY <1>3 DEF Live
<1>4. CASE PlaceStopLoss \/ PlaceTakeProfit
  BY <1>4, AttachFacts
<1> QED BY <1>1, <1>2, <1>3, <1>4
        DEF Next, SyncStep, AttachCommits, AttachFails, SyncStarts, SyncOrders, SyncTrades, SyncEnds,
            UpdateOrder, UpdateCopy, UpdateOrderFails, HandleOcoFill, HandleOcoFillFails,
            MonitorLoads, MonitorSkips, MonitorUpdates, SaveExit, Cleanup, Crash, NewerOrder, market

\* An exit that was attached stays so, and nothing else attaches one.
LEMMA StaysAttached ==
  ASSUME TypeOK, Copies, Next
  PROVE  /\ exit.status # "none" => exit'.status # "none"
         /\ exit.status = "none" /\ ~AttachCommits => exit' = exit
<1>1. CASE AttachCommits
  BY <1>1 DEF AttachCommits
<1>2. CASE SaveExit
  <2>1. sync.exit \in PositionExit /\ sync.leg \in Legs /\ exit.status # "none"
    BY <1>2 DEF TypeOK, SyncRecord, SaveExit, Copies
  <2>2. exit'.status = TriggeredBy(sync.leg)
    BY <1>2, <2>1 DEF SaveExit, PositionExit
  <2> QED BY <2>1, <2>2, TriggeredFacts
<1>3. ASSUME NEW price \in Prices, MonitorUpdates(price)
      PROVE  exit.status # "none" /\ exit'.status # "none"
  <2>1. Follows(monitor.exit) /\ monitor.exit.status = "ACTIVE" /\ exit.status # "none"
    BY <1>3 DEF MonitorUpdates, Copies
  <2>2. exit' = exit \/ exit' = UpdateTrailingStop(monitor.exit, price)
    BY <1>3 DEF MonitorUpdates
  <2> QED BY <2>1, <2>2, Trailing DEF Follows
<1> QED BY <1>1, <1>2, <1>3
        DEF Next, SyncStep, PlaceStopLoss, PlaceTakeProfit, Place, AttachFails, SyncStarts,
            SyncOrders, SyncTrades, SyncEnds, UpdateOrder, UpdateCopy, UpdateOrderFails,
            HandleOcoFill, CancelOther, CancelFails, HandleOcoFillFails, MonitorLoads, MonitorSkips,
            Cleanup, Trade, Crash, NewerOrder

\* Faults are not taken back.
LEMMA MishapsStay ==
  ASSUME Next
  PROVE  mishaps \subseteq mishaps'
BY DEF Next, SyncStep, PlaceStopLoss, PlaceTakeProfit, Place, AttachCommits, AttachFails, SyncStarts,
       SyncOrders, SyncTrades, SyncEnds, UpdateOrder, UpdateCopy, UpdateOrderFails, HandleOcoFill,
       CancelOther, CancelFails, SaveExit, HandleOcoFillFails, MonitorLoads, MonitorSkips,
       MonitorUpdates, Cleanup, Trade, Crash, NewerOrder, Fault

\* What a leg's row and the sync say of a leg that is canceled.
LEMMA GoneRows ==
  ASSUME TypeOK, Copies, Sent, Gone, Next
  PROVE  /\ \A l \in Legs: sync'.seen[l] = "CANCELED" => exchange'[l] = "canceled"
         /\ Told' => \A l \in Legs: row'[l] = "CANCELED" => ~Live(l)'
<1>1. Told' => Told /\ attach.lost = {}
  BY MishapsStay DEF Told, Sent
<1>2. CASE PlaceStopLoss \/ PlaceTakeProfit
  <2>1. UNCHANGED <<orders, sync>> /\ \A l \in Legs: row[l] = "none"
    BY <1>2, AttachFacts DEF Copies
  <2> QED BY <2>1, LiveStep DEF Gone, orders
<1>3. CASE ~PlaceStopLoss /\ ~PlaceTakeProfit
  <2>1. \A l \in Legs: /\ Live(l)' => Live(l)
                       /\ exchange[l] = "canceled" => exchange'[l] = "canceled" /\ ~Live(l)
    BY <1>3, LiveStep DEF Live
  <2> DEFINE Rows == \A l \in Legs: row'[l] = "CANCELED" =>
                        row[l] = "CANCELED" \/ exchange[l] = "canceled" \/ ~Told' \/ ~Live(l)'
             Seen == \A l \in Legs: sync'.seen[l] = "CANCELED" =>
                        sync.seen[l] = "CANCELED" \/ exchange[l] = "canceled"
  <2>2. SUFFICES Rows /\ Seen
    BY <1>1, <2>1 DEF Gone
  <2>3. CASE SyncOrders
    BY <2>3, SyncOrdersFacts, MappedType DEF SyncOrders, orders
  <2>4. CASE SyncTrades
    BY <2>4, SyncTradesFacts DEF SyncTrades, orders
  <2>5. CASE SyncStarts \/ SyncEnds
    BY <2>5, SyncStartsFacts, RecordFacts DEF SyncStarts, SyncEnds, orders
  <2>6. ASSUME NEW l \in Legs, UpdateOrder(l) \/ UpdateCopy(l) \/ UpdateOrderFails(l) PROVE Rows /\ Seen
    <3>1. Seen
      BY <2>6, UpdateOrderFacts
    <3>2. Rows
      BY <2>6 DEF UpdateOrder, UpdateCopy, UpdateOrderFails, TypeOK, Gone, orders
    <3> QED BY <3>1, <3>2
  <2>7. CASE HandleOcoFill
    BY <2>7, HandleOcoFillFacts DEF HandleOcoFill, orders
  <2>8. CASE CancelOther
    <3>1. Seen
      BY <2>8, CancelFacts
    <3>2. ASSUME NEW l \in Legs, row'[l] = "CANCELED", row[l] # "CANCELED", Told' PROVE ~Live(l)'
      <4>1. l = Other(sync.leg) /\ row[l] # "none"
        BY <2>8, <3>2 DEF CancelOther, TypeOK
      <4>2. Recorded(l)
        BY <1>1, <3>2, <4>1 DEF Recorded
      <4> QED BY <2>8, <4>1, <4>2 DEF CancelOther, TypeOK, Live
    <3> QED BY <3>1, <3>2
  <2>9. CASE CancelFails
    <3>1. ~Told'
      BY <2>9 DEF CancelFails, Fault, Told
    <3> QED BY <2>9, <3>1, CancelFacts
  <2>10. CASE SaveExit \/ HandleOcoFillFails
    BY <2>10, HandledFacts DEF SaveExit, HandleOcoFillFails, orders
  <2>11. CASE MonitorLoads \/ MonitorSkips \/ \E price \in Prices: MonitorUpdates(price)
    BY <2>11 DEF MonitorLoads, MonitorSkips, MonitorUpdates, orders
  <2>12. ASSUME NEW l \in Legs, Cleanup(l) PROVE Rows /\ Seen
    BY <2>12 DEF Cleanup, TypeOK
  <2>13. CASE AttachFails \/ NewerOrder \/ \E l \in Legs: Trade(l)
    BY <2>13 DEF AttachFails, NewerOrder, Trade, orders
  <2>14. CASE Crash
    BY <2>14, RecordFacts DEF Crash, orders
  <2>15. CASE AttachCommits
    BY <2>15 DEF AttachCommits
  <2> QED BY <1>3, <2>3, <2>4, <2>5, <2>6, <2>7, <2>8, <2>9, <2>10, <2>11, <2>12, <2>13, <2>14, <2>15
          DEF Next, SyncStep
<1> QED BY <1>2, <1>3

LEMMA GoneStep == TypeOK /\ Copies /\ Sent /\ Gone /\ [Next]_vars => Gone'
<1> SUFFICES ASSUME TypeOK, Copies, Sent, Gone, Next PROVE Gone'
  BY DEF vars, market, orders, Gone, Told, Live
<1> DEFINE Missing == attach.ocoLinked /\ exit.status # "none" =>
                        \A l \in Legs: row[l] = "none" => ~Live(l)
           Saving == sync.pc = "save" => ~Live(Other(sync.leg))
           Reported == \A l \in Legs: exit.status = TriggeredBy(l) => ~Live(Other(l))
<1>1. SUFFICES ASSUME Told' PROVE Missing' /\ Saving' /\ Reported'
  BY GoneRows DEF Gone
<1>2. /\ Missing /\ Saving /\ Reported /\ attach.lost = {}
      /\ \A l \in Legs: row[l] = "CANCELED" => ~Live(l)
  BY <1>1, MishapsStay DEF Gone, Told, Sent
<1>3. sync.leg \in Legs /\ \A l \in Legs: Other(l) \in Legs
  BY TriggeredFacts DEF TypeOK, SyncRecord
<1>4. CASE PlaceStopLoss \/ PlaceTakeProfit
  <2>1. exit.status = "none" /\ UNCHANGED <<exit, sync>>
    BY <1>4, AttachFacts
  <2>2. sync.pc # "save"
    BY <2>1 DEF Copies
  <2> QED BY <2>1, <2>2, TriggeredFacts
<1>5. CASE AttachCommits
  <2>1. exit.status = "none" /\ exit'.status = "ACTIVE" /\ UNCHANGED sync
    BY <1>5 DEF AttachCommits, Copies
  <2>2. sync.pc # "save"
    BY <2>1 DEF Copies
  <2>3. attach'.ocoLinked => \A l \in Legs: row'[l] = "NEW"
    BY <1>5 DEF AttachCommits, Sent, TypeOK, AttachRecord
  <2> QED BY <2>1, <2>2, <2>3, TriggeredFacts
<1>6. CASE ~PlaceStopLoss /\ ~PlaceTakeProfit /\ ~AttachCommits
  <2>1. \A l \in Legs: Live(l)' => Live(l)
    BY <1>6, LiveStep
  <2>2. Missing'
    <3>1. exit'.status # "none" => exit.status # "none"
      BY <1>6, StaysAttached
    <3>2. attach'.ocoLinked = attach.ocoLinked
      <4>1. CASE AttachFails \/ Crash
        BY <4>1 DEF AttachFails, Crash, TypeOK, AttachRecord
      <4>2. CASE UNCHANGED attach
        BY <4>2
      <4> QED BY <1>6, <4>1, <4>2
              DEF Next, SyncStep, SyncStarts, SyncOrders, SyncTrades, SyncEnds, UpdateOrder, UpdateCopy,
                  UpdateOrderFails, HandleOcoFill, CancelOther, CancelFails, SaveExit, HandleOcoFillFails,
                  MonitorLoads, MonitorSkips, MonitorUpdates, Cleanup, Trade, NewerOrder
    <3>3. ASSUME NEW l \in Legs, row'[l] = "none" PROVE row[l] \in {"none", "CANCELED"}
      BY <1>6, <3>3
         DEF Next, SyncStep, AttachFails, SyncStarts, SyncOrders, SyncTrades, SyncEnds, UpdateOrder,
             UpdateCopy, UpdateOrderFails, HandleOcoFill, CancelOther, CancelFails, SaveExit,
             HandleOcoFillFails, MonitorLoads, MonitorSkips, MonitorUpdates, Cleanup, Trade, Crash,
             NewerOrder, TypeOK, orders
    <3> QED BY <1>2, <2>1, <3>1, <3>2, <3>3
  <2>3. Saving'
    <3>1. CASE UNCHANGED sync
      BY <1>2, <1>3, <2>1, <3>1 DEF Other, Live
    <3>2. CASE CancelOther
      <4> DEFINE o == Other(sync.leg)
      <4>1. /\ sync'.leg = sync.leg /\ o \in Legs
            /\ exit.status # "none" /\ attach.ocoLinked
        BY <1>3, <3>2, CancelFacts DEF Copies
      <4>2. CASE row[o] = "none"
        <5>1. ~Live(o)'
          BY <1>2, <2>1, <4>1, <4>2
        <5> QED BY <4>1, <5>1 DEF Live, Other
      <4>3. CASE row[o] # "none"
        <5>1. Recorded(o)
          BY <1>2, <4>3 DEF Recorded
        <5>2. exchange'[o] \notin {"open", "partial"}
          BY <3>2, <4>1, <5>1 DEF CancelOther, TypeOK
        <5> QED BY <4>1, <5>2 DEF Live, Other
      <4> QED BY <4>2, <4>3
    <3>3. CASE CancelFails
      BY <1>1, <3>3 DEF CancelFails, Fault, Told
    <3>4. CASE ~CancelOther /\ ~CancelFails /\ sync' # sync
      <4>1. sync'.pc # "save"
        BY <1>6, <3>4, SyncStartsFacts, SyncOrdersFacts, SyncTradesFacts, RecordFacts, UpdateOrderFacts,
           HandleOcoFillFacts, HandledFacts
           DEF Next, SyncStep, AttachFails, SyncEnds, HandleOcoFillFails, MonitorLoads, MonitorSkips,
               MonitorUpdates, SaveExit, Cleanup, Trade, Crash, NewerOrder
      <4> QED BY <4>1
    <3> QED BY <3>1, <3>2, <3>3, <3>4
  <2>4. ASSUME NEW l \in Legs, exit'.status = TriggeredBy(l) PROVE ~Live(Other(l))'
    <3>1. CASE exit' = exit
      BY <1>2, <1>3, <2>1, <2>4, <3>1 DEF Other, Live
    <3>2. CASE l = sync.leg /\ sync.pc = "save"
      BY <1>2, <1>3, <2>1, <3>2 DEF Other, Live
    <3> QED BY <2>4, <3>1, <3>2, WhoTriggers
  <2> QED BY <2>2, <2>3, <2>4
<1> QED BY <1>4, <1>5, <1>6

\* Once an exit is recorded as filled, its other leg is off the exchange, unless
\* a cancel did not get through or the id of a leg never arrived: whatever else
\* fails and in whatever order fills, cancels, clean-ups and crashes happen.
THEOREM OtherLegsAreGone == Spec => []OtherLegGone
<1>1. Gone => OtherLegGone
  BY DEF Gone, Told, OtherLegGone, Live
<1> QED BY <1>1, InitFacts, TypeStep, SentStep, GoneStep, PTL DEF Spec
=============================================================================
