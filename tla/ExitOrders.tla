------------------------------ MODULE ExitOrders ------------------------------
(***************************************************************************)
(* The exit of one long position: the stop loss and the take profit that   *)
(* attachExitOrders puts on the exchange, the hourly order sync that finds *)
(* out about their fills and cancels the other leg, the minutely position  *)
(* monitor that keeps the trailing stop, and the daily clean-up.  Sync and *)
(* clean-up are jobs of one queue and one worker, the monitor is another's.*)
(* No caller ever sets trailingStopOrderId, so the trailing stop lives in  *)
(* the database only; a short position is the mirror image.                *)
(***************************************************************************)
EXTENDS Integers, FiniteSets

CONSTANTS Prices,            \* what the ticker may say
          EntryPrice,
          Distance,          \* trailingValue, an amount
          ActivationPrice,   \* at most EntryPrice: activated immediately
          Faults,            \* the kinds of fault that may happen
          MaxFaults          \* bound on the kinds that do, each any number of times

\* A job dies or gets no answer from the exchange; a query fails; the answer to
\* a new order is lost; the cancel of an order is lost or its query fails; another
\* order of the user gets in the way.
FaultKinds == {"job", "db", "reply", "cancel", "newer order"}

ASSUME ExitAssumption ==
    /\ Prices \subseteq Nat
    /\ EntryPrice \in Nat
    /\ Distance \in 1 .. EntryPrice
    /\ ActivationPrice \in Nat
    /\ Faults \subseteq FaultKinds
    /\ MaxFaults \in Nat

Legs == {"sl", "tp"}

\* What the exchange knows of a leg, and what the row of the order says.
ExchangeStatus == {"none", "open", "partial", "closed", "canceled"}
OrderStatus == {"none", "NEW", "FILLED", "CANCELED"}

PositionExitStatus ==
    {"none", "ACTIVE", "STOP_LOSS_TRIGGERED", "TAKE_PROFIT_TRIGGERED", "TRAILING_TRIGGERED"}

VARIABLES
    exchange,  \* per leg: the order on the exchange
    traded,    \* legs of which something has been bought or sold
    recent,    \* legs with a trade since the user's newest order on record
    window,    \* the same, since the one that was newest when the sync began
    attach,    \* attachExitOrders
    row,       \* per leg: the order attachExitOrders recorded; the exit refers to it
    copies,    \* legs of which the sync has made a row, which no exit refers to
    exit,      \* the position_exit row
    sync,      \* the order sync job
    monitor,   \* the position monitor job
    mishaps    \* the faults so far

market == <<exchange, traded, recent, window>>
orders == <<row, copies>>
vars == <<market, attach, orders, exit, sync, monitor, mishaps>>

PositionExit == [status: PositionExitStatus, activated: BOOLEAN, peak: Nat, stop: Nat]

NoExit == [status |-> "none", activated |-> FALSE, peak |-> 0, stop |-> 0]

\* What is to be placed (config, and whether there is an exchange key), what was
\* sent so far, and the legs whose exchange id is not known.
AttachRecord == [pc: {"idle", "sl", "tp", "done", "failed"}, legs: SUBSET Legs,
                 ocoLinked: BOOLEAN, lost: SUBSET Legs]

NotAttached == [pc |-> "idle", legs |-> {}, ocoLinked |-> FALSE, lost |-> {}]

\* "next" is the top of the loop over the orders fetched, and the last three are
\* the awaits of handleOcoFill.
SyncPc == {"idle", "fetch", "next", "read", "cancel", "save"}

\* The legs the orders pass asks for, and what was fetched and is not saved yet.
SyncRecord == [pc: SyncPc, pass: {"orders", "trades"}, listed: SUBSET Legs,
               seen: [Legs -> OrderStatus], leg: Legs, exit: PositionExit]

IdleSync == [pc |-> "idle", pass |-> "orders", listed |-> {}, seen |-> [l \in Legs |-> "none"],
             leg |-> "sl", exit |-> NoExit]

MonitorRecord == [pc: {"idle", "loaded"}, exit: PositionExit]

IdleMonitor == [pc |-> "idle", exit |-> NoExit]

\* Every variable holds a value the code can store, and a position exit that
\* was attached trails below its peak.
TypeOK ==
    /\ exchange \in [Legs -> ExchangeStatus]
    /\ traded \subseteq Legs
    /\ recent \subseteq traded
    /\ window \subseteq traded
    /\ attach \in AttachRecord
    /\ row \in [Legs -> OrderStatus]
    /\ copies \subseteq Legs
    /\ exit \in PositionExit
    /\ exit.status # "none" => exit.stop < exit.peak
    /\ sync \in SyncRecord
    /\ monitor \in MonitorRecord
    /\ mishaps \subseteq Faults \union {"overwritten"}

Init ==
    /\ exchange = [l \in Legs |-> "none"]
    /\ traded = {}
    /\ recent = {}
    /\ window = {}
    /\ attach = NotAttached
    /\ row = [l \in Legs |-> "none"]
    /\ copies = {}
    /\ exit = NoExit
    /\ sync = IdleSync
    /\ monitor = IdleMonitor
    /\ mishaps = {}

Fault(kind) ==
    /\ kind \in Faults
    /\ Cardinality((mishaps \intersect Faults) \union {kind}) <= MaxFaults
    /\ mishaps' = mishaps \union {kind}

Other(l) == IF l = "sl" THEN "tp" ELSE "sl"

-----------------------------------------------------------------------------
(* PositionManagementService.attachExitOrders *)

\* placeStopLossOrder and placeTakeProfitOrder.  A leg that is not wanted is not
\* sent; one that the exchange refuses, or that it cannot be asked for, is
\* recorded all the same.  When only the answer is lost the leg is there, and
\* its row has an id the exchange does not know.
Place(l, a) ==
    /\ \/ UNCHANGED <<exchange, mishaps>> /\ attach' = a
       \/ /\ l \in a.legs
          /\ exchange' = [exchange EXCEPT ![l] = "open"]
          /\ \/ UNCHANGED mishaps /\ attach' = a
             \/ Fault("reply") /\ attach' = [a EXCEPT !.lost = @ \union {l}]
    /\ UNCHANGED <<traded, recent, window, orders, exit, sync, monitor>>

\* The legs are linked if both are wanted, useOco is set and there is a key.
PlaceStopLoss ==
    /\ attach.pc = "idle"
    /\ \E legs \in SUBSET Legs: \E ocoLinked \in {FALSE, legs = Legs}:
          Place("sl", [pc |-> "sl", legs |-> legs, ocoLinked |-> ocoLinked, lost |-> {}])

PlaceTakeProfit ==
    /\ attach.pc = "sl"
    /\ Place("tp", [attach EXCEPT !.pc = "tp"])

\* The rows and the exit become visible.  The row made last is now the newest
\* order on record: younger than the legs and the trades before it was made.
AttachCommits ==
    /\ attach.pc = "tp"
    /\ attach' = [attach EXCEPT !.pc = "done"]
    /\ row' = [l \in Legs |-> IF l \in attach.legs THEN "NEW" ELSE "none"]
    /\ recent' \in IF attach.legs = {} THEN {recent} ELSE SUBSET recent
    /\ exit' = [status |-> "ACTIVE", activated |-> ActivationPrice <= EntryPrice,
                peak |-> EntryPrice, stop |-> EntryPrice - Distance]
    /\ UNCHANGED <<exchange, traded, window, copies, sync, monitor, mishaps>>

\* A rollback takes back the rows, not the orders, and the callers go on.
AttachFails ==
    /\ attach.pc \in {"sl", "tp"}
    /\ Fault("db")
    /\ attach' = [attach EXCEPT !.pc = "failed"]
    /\ UNCHANGED <<market, orders, exit, sync, monitor>>

-----------------------------------------------------------------------------
(* OrderSyncService *)

\* mapCcxtStatusToOrderStatus; ccxt calls a partly filled order open.
MappedStatus(s) ==
    CASE s \in {"open", "partial"} -> "NEW"
      [] s = "closed"              -> "FILLED"
      [] s = "canceled"            -> "CANCELED"
      [] OTHER                     -> "none"

\* The exchange lists the orders made since the newest one on record.  The row
\* of a leg was made after the leg, and that of the take profit after both; an
\* order the sync recorded has the time of the order itself.
Listed(l) ==
    /\ "newer order" \notin mishaps
    /\ row[l] = "none"
    /\ l = "sl" => row["tp"] = "none" /\ "tp" \notin copies

\* syncOrdersForExchange reads the newest order on record, for both passes.
SyncStarts ==
    /\ sync.pc = "idle"
    /\ sync' = [sync EXCEPT !.pc = "fetch", !.listed = {l \in Legs: Listed(l)}]
    /\ window' = recent
    /\ UNCHANGED <<exchange, traded, recent, attach, orders, exit, monitor, mishaps>>

\* A symbol that cannot be fetched is skipped.
SyncOrders ==
    /\ sync.pc = "fetch"
    /\ \/ /\ sync' = [IdleSync EXCEPT !.pc = "next",
                         !.seen = [l \in Legs |-> IF l \in sync.listed
                                                  THEN MappedStatus(exchange[l]) ELSE "none"]]
          /\ UNCHANGED mishaps
       \/ /\ Fault("job")
          /\ sync' = [IdleSync EXCEPT !.pc = "next"]
    /\ UNCHANGED <<market, attach, orders, exit, monitor>>

\* Mutant: trades are grouped by symbol, which both legs share.
SyncTradesBySymbol ==
    /\ sync.pc = "next"
    /\ sync.pass = "orders"
    /\ \A l \in Legs: sync.seen[l] = "none"
    /\ sync' = [IdleSync EXCEPT !.pc = "next", !.pass = "trades",
                   !.seen = [l \in Legs |-> IF window # {} THEN "FILLED" ELSE "none"]]
    /\ window' = {}
    /\ UNCHANGED <<exchange, traded, recent, attach, orders, exit, monitor, mishaps>>

\* When the orders are done it asks for the trades since then; each order that
\* has one is made into a closed one (convertTradesToOrders).
SyncTrades ==
    /\ sync.pc = "next"
    /\ sync.pass = "orders"
    /\ \A l \in Legs: sync.seen[l] = "none"
    /\ \/ /\ sync' = [IdleSync EXCEPT !.pc = "next", !.pass = "trades",
                         !.seen = [l \in Legs |-> IF l \in window THEN "FILLED" ELSE "none"]]
          /\ UNCHANGED mishaps
       \/ /\ Fault("job")
          /\ sync' = [IdleSync EXCEPT !.pc = "next", !.pass = "trades"]
    /\ window' = {}
    /\ UNCHANGED <<exchange, traded, recent, attach, orders, exit, monitor>>

SyncEnds ==
    /\ sync.pc = "next"
    /\ sync.pass = "trades"
    /\ \A l \in Legs: sync.seen[l] = "none"
    /\ sync' = IdleSync
    /\ UNCHANGED <<market, attach, orders, exit, monitor, mishaps>>

\* findExistingOrder looks for the id the exchange gave the leg.
Recorded(l) == row[l] # "none" /\ l \notin attach.lost

\* saveExchangeOrders for one order: the existing row takes the status of the
\* exchange (transitionStatus blocks nothing), and one that has become FILLED is
\* handed to handleOcoFill.
UpdateOrder(l) ==
    /\ sync.pc = "next"
    /\ sync.seen[l] # "none"
    /\ Recorded(l)
    /\ row' = [row EXCEPT ![l] = sync.seen[l]]
    /\ sync' = IF row[l] # "FILLED" /\ sync.seen[l] = "FILLED"
               THEN [sync EXCEPT !.seen[l] = "none", !.leg = l, !.pc = "read"]
               ELSE [sync EXCEPT !.seen[l] = "none"]
    /\ UNCHANGED <<market, attach, copies, exit, monitor, mishaps>>

\* No row is found (it is not committed, rolled back, deleted or has another id)
\* and one is created, or the one found is one that was so created: orderId is
\* not unique.  No exit refers to it, so handleOcoFill finds nothing to do.
UpdateCopy(l) ==
    /\ sync.pc = "next"
    /\ sync.seen[l] # "none"
    /\ Recorded(l) => l \in copies
    /\ copies' = copies \union {l}
    /\ sync' = [sync EXCEPT !.seen[l] = "none"]
    /\ UNCHANGED <<market, attach, row, exit, monitor, mishaps>>

\* The status history cannot be written, which throws: the order is skipped.
UpdateOrderFails(l) ==
    /\ sync.pc = "next"
    /\ sync.seen[l] # "none"
    /\ Fault("db")
    /\ sync' = [sync EXCEPT !.seen[l] = "none"]
    /\ UNCHANGED <<market, attach, orders, exit, monitor>>

-----------------------------------------------------------------------------
(* PositionManagementService.handleOcoFill *)

\* Back to the loop.
Handled == [sync EXCEPT !.pc = "next", !.leg = IdleSync.leg, !.exit = NoExit]

\* Mutant: the exit is looked up by its stop loss only.
HandleStopLossFill ==
    /\ sync.pc = "read"
    /\ sync' = IF row[sync.leg] # "none" /\ attach.ocoLinked /\ sync.leg = "sl"
               THEN [sync EXCEPT !.pc = "cancel", !.exit = exit]
               ELSE Handled
    /\ UNCHANGED <<market, attach, orders, exit, monitor, mishaps>>

\* The exit the order is a leg of is read.  One that is not linked is left as it
\* is: the fill of its leg is never recorded in it.
HandleOcoFill ==
    /\ sync.pc = "read"
    /\ sync' = IF row[sync.leg] # "none" /\ attach.ocoLinked
               THEN [sync EXCEPT !.pc = "cancel", !.exit = exit]
               ELSE Handled
    /\ UNCHANGED <<market, attach, orders, exit, monitor, mishaps>>

\* Mutant: the leg that was filled is the one looked up and cancelled.
CancelFilled ==
    /\ sync.pc = "cancel"
    /\ exchange' = [exchange EXCEPT ![sync.leg] = IF @ \in {"open", "partial"} THEN "canceled" ELSE @]
    /\ row' = [row EXCEPT ![sync.leg] = "CANCELED"]
    /\ sync' = [sync EXCEPT !.pc = "save"]
    /\ UNCHANGED <<traded, recent, window, attach, copies, exit, monitor, mishaps>>

\* cancelOrderById on the other leg, which may have been deleted.  Its row says
\* CANCELED in the end, also when the exchange knows no such order to cancel.
CancelOther ==
    LET l == Other(sync.leg)
    IN  /\ sync.pc = "cancel"
        /\ exchange' = [exchange EXCEPT ![l] = IF Recorded(l) /\ @ \in {"open", "partial"}
                                               THEN "canceled" ELSE @]
        /\ row' = [row EXCEPT ![l] = IF @ = "none" THEN @ ELSE "CANCELED"]
        /\ sync' = [sync EXCEPT !.pc = "save"]
        /\ UNCHANGED <<traded, recent, window, attach, copies, exit, monitor, mishaps>>

\* The cancel is lost: the exchange cannot be reached and the row says CANCELED
\* all the same, or a query of cancelOrderById fails, before or after the exchange
\* was told, and the row stays as it is.  handleOcoFill goes on regardless.
CancelFails ==
    LET l == Other(sync.leg)
    IN  /\ sync.pc = "cancel"
        /\ Fault("cancel")
        /\ \/ /\ row[l] # "none"
              /\ row' = [row EXCEPT ![l] = "CANCELED"]
              /\ UNCHANGED exchange
           \/ /\ Recorded(l) /\ exchange[l] \in {"open", "partial"}
              /\ exchange' = [exchange EXCEPT ![l] = "canceled"]
              /\ UNCHANGED row
           \/ UNCHANGED <<row, exchange>>
        /\ sync' = [sync EXCEPT !.pc = "save"]
        /\ UNCHANGED <<traded, recent, window, attach, copies, exit, monitor>>

TriggeredBy(l) == IF l = "sl" THEN "STOP_LOSS_TRIGGERED" ELSE "TAKE_PROFIT_TRIGGERED"

\* The row read before the cancel is written back with the new status, and the
\* fill is announced.
SaveExit ==
    /\ sync.pc = "save"
    /\ exit' = [sync.exit EXCEPT !.status = TriggeredBy(sync.leg)]
    /\ sync' = Handled
    /\ UNCHANGED <<market, attach, orders, monitor, mishaps>>

\* One of its queries fails; updateExistingOrder logs that and goes on.
HandleOcoFillFails ==
    /\ sync.pc \in {"read", "save"}
    /\ Fault("db")
    /\ sync' = Handled
    /\ UNCHANGED <<market, attach, orders, exit, monitor>>

-----------------------------------------------------------------------------
(* PositionMonitorService *)

\* shouldActivateTrailing
Activated(e, price) ==
    IF ~e.activated /\ price >= ActivationPrice
    THEN [e EXCEPT !.activated = TRUE, !.peak = price] ELSE e

\* Mutant: the distance is forgotten.
RaisedToPrice(e, price) ==
    IF e.activated /\ price > e.peak
    THEN [e EXCEPT !.peak = price, !.stop = IF price > @ THEN price ELSE @]
    ELSE e

\* A new high takes the stop with it, upwards only.
Raised(e, price) ==
    IF e.activated /\ price > e.peak
    THEN [e EXCEPT !.peak = price, !.stop = IF price - Distance > @ THEN price - Distance ELSE @]
    ELSE e

\* Mutant: the stop follows every price, and it is the new stop that decides.
StopFollowsPrice(e, price) ==
    IF e.activated THEN [e EXCEPT !.peak = price, !.stop = price - Distance] ELSE e

\* The stop that was in force before this price decides.
UpdateTrailingStop(e, price) ==
    LET a == Activated(e, price)
    IN  [Raised(a, price) EXCEPT
            !.status = IF a.activated /\ price <= a.stop THEN "TRAILING_TRIGGERED" ELSE @]

\* getActiveTrailingPositions
MonitorLoads ==
    /\ monitor.pc = "idle"
    /\ exit.status = "ACTIVE"
    /\ monitor' = [pc |-> "loaded", exit |-> exit]
    /\ UNCHANGED <<market, attach, orders, exit, sync, mishaps>>

\* The price arrives, and if it changes anything the whole row is written back.
MonitorUpdates(price) ==
    LET e == UpdateTrailingStop(monitor.exit, price)
    IN  /\ monitor.pc = "loaded"
        /\ exit' = IF e = monitor.exit THEN exit ELSE e
        /\ mishaps' = IF e # monitor.exit /\ exit.status # "ACTIVE"
                      THEN mishaps \union {"overwritten"} ELSE mishaps
        /\ monitor' = IdleMonitor
        /\ UNCHANGED <<market, attach, orders, sync>>

\* No price, or an open circuit.
MonitorSkips ==
    /\ monitor.pc = "loaded"
    /\ monitor' = IdleMonitor
    /\ UNCHANGED <<market, attach, orders, exit, sync, mishaps>>

-----------------------------------------------------------------------------
(* Clean-up, crashes and the market *)

\* A cancelled order is deleted after its retention, with the reference to it.
\* When it was the newest on record, the next sync asks further back again.
Cleanup(l) ==
    /\ sync.pc = "idle"
    /\ \/ row[l] = "CANCELED" /\ row' = [row EXCEPT ![l] = "none"] /\ UNCHANGED copies
       \/ exchange[l] = "canceled" /\ copies' = copies \ {l} /\ UNCHANGED row
    /\ recent' \in {recent, traded}
    /\ UNCHANGED <<exchange, traded, window, attach, exit, sync, monitor, mishaps>>

\* The jobs are lost where they are, and the queues run them again from the
\* start; a transaction that is open is rolled back.
Crash ==
    /\ Fault("job")
    /\ sync' = IdleSync
    /\ monitor' = IdleMonitor
    /\ attach' = IF attach.pc \in {"sl", "tp"} THEN [attach EXCEPT !.pc = "failed"] ELSE attach
    /\ window' = {}
    /\ UNCHANGED <<exchange, traded, recent, orders, exit>>

\* A sync that has still to fetch the trades will see this one.
Trade(l) ==
    /\ exchange[l] \in {"open", "partial"}
    /\ exchange' \in {[exchange EXCEPT ![l] = s]: s \in {"partial", "closed"}}
    /\ traded' = traded \union {l}
    /\ recent' = recent \union {l}
    /\ window' = IF sync.pc # "idle" /\ sync.pass = "orders" THEN window \union {l} ELSE window
    /\ UNCHANGED <<attach, orders, exit, sync, monitor, mishaps>>

\* The user gets another order on this exchange: later syncs ask for less.
NewerOrder ==
    /\ exit # NoExit
    /\ Fault("newer order")
    /\ recent' = {}
    /\ UNCHANGED <<exchange, traded, window, attach, orders, exit, sync, monitor>>

SyncStep ==
    \/ SyncStarts \/ SyncOrders \/ SyncTrades \/ SyncEnds
    \/ \E l \in Legs: UpdateOrder(l) \/ UpdateCopy(l)
    \/ HandleOcoFill \/ CancelOther \/ SaveExit

Next ==
    \/ PlaceStopLoss \/ PlaceTakeProfit \/ AttachCommits \/ AttachFails
    \/ SyncStep
    \/ \E l \in Legs: UpdateOrderFails(l)
    \/ CancelFails \/ HandleOcoFillFails
    \/ MonitorLoads \/ MonitorSkips
    \/ \E price \in Prices: MonitorUpdates(price)
    \/ \E l \in Legs: Cleanup(l) \/ Trade(l)
    \/ Crash \/ NewerOrder

\* The sync job is scheduled again and again and its requests end.
Fairness == WF_vars(SyncStep)

Spec == Init /\ [][Next]_vars /\ Fairness

-----------------------------------------------------------------------------
(* Properties *)

\* The exit says a leg was triggered only if that leg has traded, however the
\* sync, the monitor and fills of both legs interleave.
TriggeredHasTraded ==
    \A l \in Legs: exit.status = TriggeredBy(l) => l \in traded

\* Once an exit is recorded as filled, its other leg is off the exchange, unless
\* the cancel was lost on its way or the id of the leg never arrived ("cancel the
\* other leg when one fills").
OtherLegGone ==
    \A l \in Legs:
        exit.status = TriggeredBy(l) /\ mishaps \intersect {"reply", "cancel"} = {}
            => exchange[Other(l)] \notin {"open", "partial"}

\* As long as the exit is active its trailing stop is never moved down, whoever
\* writes the row back.
StopNeverLoosens ==
    [][exit.status = "ACTIVE" /\ exit'.status = "ACTIVE" => exit'.stop >= exit.stop]_vars

\* A trade that is younger than the user's newest order, of a leg of a linked
\* exit of which the sync made no second row, is recorded in the exit in the
\* end, unless a job died or a query failed, the id of a leg never arrived, a
\* newer order hid the trade or the monitor wrote the exit over.  A cancel that
\* fails does not keep the fill from being recorded.
FillIsHandled ==
    (exit.status = "ACTIVE" /\ attach.ocoLinked /\ recent \ copies # {})
        ~> (exit.status # "ACTIVE" \/ mishaps \ {"cancel"} # {})

\* POSITION_EXIT_FILLED is emitted for actual fills only: the leg it reports is
\* completely filled on the exchange.
ReportedIsFilled == \A l \in Legs: exit.status = TriggeredBy(l) => exchange[l] = "closed"

\* An exit that is ACTIVE, with no job at work on it, still has an exit order
\* that can protect the position, or one that never reached the exchange.
ActiveIsProtected ==
    exit.status = "ACTIVE" /\ sync.pc = "idle" /\ monitor.pc = "idle" /\ row["sl"] # "NEW"
        => exchange["sl"] # "canceled"
=============================================================================
