----------------------------- MODULE BacktestBook -----------------------------
(***************************************************************************)
(* The books of a simulated run: cash, positions and the exit tracker, as  *)
(* the bars of a backtest or a live replay change them, and the checkpoint *)
(* from which an interrupted run goes on.  A bar fills the signals queued  *)
(* on the bar before, applies the forced exits, then the exits of the      *)
(* tracker, and asks the strategy for new signals.  Prices, sizes, fills   *)
(* and the filters of the signals are nondeterministic; amounts are whole. *)
(* No strategy marks a signal hardStopLoss, so none is filled in its bar.  *)
(***************************************************************************)
EXTENDS Integers, Sequences, FiniteSetsExt

CONSTANTS Coins,
          Prices,            \* what a fill may cost
          Lots,              \* what a signal may ask for
          Leverages,         \* of a short
          Capital,           \* initialCapital
          FeeDivisor,        \* tradingFee is 1 / FeeDivisor
          PenaltyDivisor,    \* what is left of a price after a delisting
          CooldownBars,      \* exitCooldownBars
          Actions,           \* what the strategy may ask for
          DelistingBars,     \* when a coin may be delisted
          NumBars,
          MaxSignals         \* bound on the signals of one bar

AllActions == {"BUY", "SELL", "OPEN_SHORT", "CLOSE_SHORT"}

ASSUME BookAssumption ==
    /\ IsFiniteSet(Coins)
    /\ Prices \subseteq Nat \ {0} /\ Lots \subseteq Nat \ {0}
    /\ Leverages \subseteq Nat \ {0}
    /\ \A p \in Prices, l \in Leverages: p % l = 0
    /\ Capital \in Nat /\ FeeDivisor \in Nat \ {0} /\ PenaltyDivisor \in Nat \ {0}
    /\ CooldownBars \in Nat /\ NumBars \in Nat \ {0} /\ DelistingBars \subseteq Nat
    /\ Actions \subseteq AllActions
    /\ MaxSignals \in Nat

VARIABLES
    cash,       \* portfolio.cashBalance
    positions,  \* portfolio.positions
    earned,     \* realized profit minus fees, over the trades made so far
    tracker,    \* per coin: the quantity the exit tracker watches
    cooldown,   \* per coin: the bar from which it may be bought again
    pending,    \* pendingSignals
    delisting,  \* delistingDates, as the bar a coin is delisted in
    loop,       \* where in which bar the run is
    oddities    \* what has happened that the books do not stand

portfolio == <<cash, positions, earned>>
exits == <<tracker, cooldown>>
vars == <<portfolio, exits, pending, delisting, loop, oddities>>

Flat == [side |-> "none", qty |-> 0, price |-> 0, leverage |-> 1, margin |-> 0]
Position == [side: {"none", "long", "short"}, qty: Nat, price: Nat, leverage: Nat, margin: Nat]
Signal == [action: AllActions, coin: Coins]

\* Within a bar "done" are the coins this part of it has dealt with.
Phases == {"open", "forced", "exits", "signals", "finished"}

Oddities == {"short reopened", "short sold", "short delisted", "short restored",
             "short closed", "exit partly filled"}

\* Every variable holds a value the code can store; a position that is gone is
\* not kept with its price, and only a short has a margin.
TypeOK ==
    /\ cash \in Int
    /\ positions \in [Coins -> Position]
    /\ \A c \in Coins: /\ positions[c].qty = 0 => positions[c] = Flat
                       /\ positions[c].side # "short" => positions[c].margin = 0
    /\ earned \in Int
    /\ tracker \in [Coins -> Nat]
    /\ cooldown \in [Coins -> 0 .. NumBars + CooldownBars]
    /\ pending \in Seq(Signal) /\ Len(pending) <= MaxSignals
    /\ delisting \in [Coins -> DelistingBars]
    /\ loop \in [pc: Phases, bar: 0 .. NumBars, done: SUBSET Coins]
    /\ oddities \subseteq Oddities

Init ==
    /\ cash = Capital
    /\ positions = [c \in Coins |-> Flat]
    /\ earned = 0
    /\ tracker = [c \in Coins |-> 0]
    /\ cooldown = [c \in Coins |-> 0]
    /\ pending = << >>
    /\ delisting \in [Coins -> DelistingBars]
    /\ loop = [pc |-> "open", bar |-> 1, done |-> {}]
    /\ oddities = {}

-----------------------------------------------------------------------------
(* TradeExecutorService *)

Fee(value) == value \div FeeDivisor

\* Mutant: a position of which nothing is left is kept.
ReducedAlways(pos, q) == [pos EXCEPT !.qty = @ - q]

\* A position with less in it; an empty one is deleted.
Reduced(pos, q) == IF pos.qty = q THEN Flat ELSE [pos EXCEPT !.qty = @ - q]

\* Mutant: the fee is left out of the test for funds.
AffordableWithoutFee(cost, notional) == cash >= cost

\* The cash covers the cost and the fee on the notional value.
Affordable(cost, notional) == cash >= cost + Fee(notional)

\* executeBuy.  A coin that is held already is not bought again.
ExecuteBuy(c, q, p) ==
    /\ positions[c].qty = 0
    /\ Affordable(q * p, q * p)
    /\ cash' = cash - q * p - Fee(q * p)
    /\ positions' = [positions EXCEPT ![c] = [Flat EXCEPT !.side = "long", !.qty = q, !.price = p]]
    /\ earned' = earned - Fee(q * p)
    /\ UNCHANGED oddities

\* Mutant: the cost of what is left changes with every sale.
ExecuteSellAveraging(c, q, p) ==
    /\ q \in 1 .. positions[c].qty
    /\ cash' = cash + q * p - Fee(q * p)
    /\ positions' = [positions EXCEPT ![c] = IF @.qty = q THEN Flat
                                             ELSE [@ EXCEPT !.qty = @ - q, !.price = p]]
    /\ earned' = earned + (p - positions[c].price) * q - Fee(q * p)

\* executeSell.  It does not look at the side of the position.
ExecuteSell(c, q, p) ==
    /\ q \in 1 .. positions[c].qty
    /\ cash' = cash + q * p - Fee(q * p)
    /\ positions' = [positions EXCEPT ![c] = Reduced(@, q)]
    /\ earned' = earned + (p - positions[c].price) * q - Fee(q * p)

ShortSold(c) == IF positions[c].side = "short" THEN {"short sold"} ELSE {}

\* executeOpenShort.  A short that is open already is written over.
ExecuteOpenShort(c, q, p, leverage) ==
    LET margin == (q * p) \div leverage
    IN  /\ positions[c].side # "long"
        /\ Affordable(margin, q * p)
        /\ cash' = cash - margin - Fee(q * p)
        /\ positions' = [positions EXCEPT ![c] = [side |-> "short", qty |-> q, price |-> p,
                                                  leverage |-> leverage, margin |-> margin]]
        /\ earned' = earned - Fee(q * p)
        /\ oddities' = oddities \union (IF positions[c].side = "short" THEN {"short reopened"} ELSE {})

\* executeCloseShort.  The margin is returned in proportion, and the loss of
\* calculateShortPnL is at most that.
ExecuteCloseShort(c, q, p) ==
    LET pos == positions[c]
        returned == (pos.margin * q) \div pos.qty
        gain == Max({-returned, (pos.price - p) * q})
    IN  /\ pos.side = "short"
        /\ q \in 1 .. pos.qty
        /\ cash' = cash + returned + gain - Fee(q * p)
        /\ positions' = [positions EXCEPT ![c] = IF @.qty = q THEN Flat
                                                 ELSE [@ EXCEPT !.qty = pos.qty - q,
                                                                !.margin = pos.margin - returned]]
        /\ earned' = earned + gain - Fee(q * p)
        /\ oddities' = oddities \union {"short closed"}

-----------------------------------------------------------------------------
(* flushPendingSignals, BacktestSignalTradeService and OpportunitySellService *)

\* The signal whose turn it is.
Turn(action, c) ==
    /\ loop.pc = "open"
    /\ pending # << >>
    /\ Head(pending) = [action |-> action, coin |-> c]

NextSignal ==
    /\ pending' = Tail(pending)
    /\ loop' = [loop EXCEPT !.done = {}]
    /\ UNCHANGED <<cooldown, delisting>>

\* A fill is reported to the exit tracker: onBuy ...
FillBuy(c) ==
    /\ Turn("BUY", c)
    /\ \E q \in Lots, p \in Prices:
          /\ ExecuteBuy(c, q, p)
          /\ tracker' = [tracker EXCEPT ![c] = @ + q]
    /\ NextSignal

\* Mutant: the tracker is told what was asked for and not what was sold.
FillSellAsRequested(c) ==
    /\ Turn("SELL", c)
    /\ \E q \in 1 .. positions[c].qty, p \in Prices:
          /\ ExecuteSell(c, q, p)
          /\ tracker' = [tracker EXCEPT ![c] = 0]
    /\ oddities' = oddities \union ShortSold(c)
    /\ NextSignal

\* ... and onSell, which drops a coin of which nothing is left.
FillSell(c) ==
    /\ Turn("SELL", c)
    /\ \E q \in 1 .. positions[c].qty, p \in Prices:
          /\ ExecuteSell(c, q, p)
          /\ tracker' = [tracker EXCEPT ![c] = Max({@ - q, 0})]
    /\ oddities' = oddities \union ShortSold(c)
    /\ NextSignal

FillOpenShort(c) ==
    /\ Turn("OPEN_SHORT", c)
    /\ \E q \in Lots, p \in Prices, leverage \in Leverages: ExecuteOpenShort(c, q, p, leverage)
    /\ UNCHANGED tracker
    /\ NextSignal

FillCloseShort(c) ==
    /\ Turn("CLOSE_SHORT", c)
    /\ \E q \in 1 .. positions[c].qty, p \in Prices: ExecuteCloseShort(c, q, p)
    /\ UNCHANGED tracker
    /\ NextSignal

\* No price, a conflicting or missing position, too short a hold, no funds, too
\* thin a volume.
Skip(c) ==
    /\ \E action \in Actions: Turn(action, c)
    /\ UNCHANGED <<portfolio, tracker, oddities>>
    /\ NextSignal

\* A purchase that failed and for which the cash does not suffice has other
\* positions sold, each at most once, before it is tried again.  The exit
\* tracker is not told.
OpportunitySell(c, d) ==
    /\ Turn("BUY", c)
    /\ d \notin loop.done \union {c}
    /\ \E q \in Lots, p \in Prices: cash < q * p + Fee(q * p)
    /\ \E q \in 1 .. positions[d].qty, p \in Prices: ExecuteSell(d, q, p)
    /\ oddities' = oddities \union ShortSold(d)
    /\ loop' = [loop EXCEPT !.done = @ \union {d}]
    /\ UNCHANGED <<exits, pending, delisting>>

\* The next part of the bar.
GoOn(from, to) ==
    /\ loop.pc = from
    /\ loop' = [loop EXCEPT !.pc = to, !.done = {}]
    /\ UNCHANGED <<portfolio, exits, pending, delisting, oddities>>

FlushEnds == pending = << >> /\ GoOn("open", "forced")

-----------------------------------------------------------------------------
(* ForcedExitService *)

\* isLiquidated: the price has reached entry * (1 + 1 / leverage - 0.005).
Liquidated(pos, p) ==
    /\ pos.side = "short"
    /\ pos.leverage > 1
    /\ 200 * pos.leverage * p >= pos.price * (200 * (pos.leverage + 1) - pos.leverage)

\* checkAndApplyLiquidations: the margin is lost.
Liquidate(c) ==
    /\ \E p \in Prices: Liquidated(positions[c], p)
    /\ earned' = earned - positions[c].margin
    /\ positions' = [positions EXCEPT ![c] = Flat]
    /\ UNCHANGED <<cash, tracker, oddities>>

\* checkAndApplyDelistingExits: the penalty price is credited, for a short too.
CloseDelisted(c) ==
    LET pos == positions[c]
    IN  /\ pos.qty > 0
        /\ delisting[c] <= loop.bar
        /\ \E p \in Prices:
              LET value == pos.qty * (p \div PenaltyDivisor)
                  cost == pos.qty * pos.price
              IN  /\ cash' = cash + value
                  /\ earned' = earned + IF pos.side = "short" THEN cost - value ELSE value - cost
        /\ positions' = [positions EXCEPT ![c] = Flat]
        /\ tracker' = [tracker EXCEPT ![c] = 0]
        /\ oddities' = oddities \union (IF pos.side = "short" THEN {"short delisted"} ELSE {})

ForcedExit(c) ==
    /\ loop.pc = "forced"
    /\ c \notin loop.done
    /\ Liquidate(c) \/ CloseDelisted(c)
    /\ loop' = [loop EXCEPT !.done = @ \union {c}]
    /\ UNCHANGED <<cooldown, pending, delisting>>

ForcedExitsEnd ==
    /\ \A c \in Coins: positions[c].qty > 0 => delisting[c] > loop.bar
    /\ GoOn("forced", "exits")

-----------------------------------------------------------------------------
(* BacktestExitTracker.checkExits and ExitSignalProcessorService *)

\* registerExitCooldown, for a stop loss and a trailing stop, whatever comes of
\* the sale.
RegisterCooldown(c, kind) ==
    cooldown' = IF kind = "stop" THEN [cooldown EXCEPT ![c] = loop.bar + CooldownBars] ELSE cooldown

\* A level is breached and the quantity on record is sold, as far as there is
\* so much and the volume allows; the coin is no longer watched then.  Nothing
\* held, or nothing filled: it stays watched.
ExitFires(c, kind) ==
    /\ loop.pc = "exits"
    /\ c \notin loop.done
    /\ tracker[c] > 0
    /\ RegisterCooldown(c, kind)
    /\ \/ \E q \in 1 .. Min({tracker[c], positions[c].qty}), p \in Prices:
             /\ ExecuteSell(c, q, p)
             /\ tracker' = [tracker EXCEPT ![c] = 0]
             /\ oddities' = oddities \union ShortSold(c)
                  \union (IF q < positions[c].qty THEN {"exit partly filled"} ELSE {})
       \/ UNCHANGED <<portfolio, tracker, oddities>>
    /\ loop' = [loop EXCEPT !.done = @ \union {c}]
    /\ UNCHANGED <<pending, delisting>>

ExitsEnd == GoOn("exits", "signals")

-----------------------------------------------------------------------------
(* The strategy, the end of the bar and the checkpoint *)

\* Mutant: a purchase is not held back by the cooldown of its coin.
MayEnterAlways(action, c) == TRUE

\* canEnter
MayEnter(action, c) == action = "BUY" => loop.bar >= cooldown[c]

\* dispatchFilteredSignals queues a signal for the next bar.
Decide(action, c) ==
    /\ loop.pc = "signals"
    /\ Len(pending) < MaxSignals
    /\ MayEnter(action, c)
    /\ pending' = Append(pending, [action |-> action, coin |-> c])
    /\ UNCHANGED <<portfolio, exits, delisting, loop, oddities>>

NextBar ==
    IF loop.bar < NumBars
    THEN /\ loop' = [pc |-> "open", bar |-> loop.bar + 1, done |-> {}]
         /\ UNCHANGED pending
    ELSE /\ loop' = [loop EXCEPT !.pc = "finished"]
         /\ pending' = << >>

\* What is queued at the end of the run is dropped.
BarEnds ==
    /\ loop.pc = "signals"
    /\ NextBar
    /\ UNCHANGED <<portfolio, exits, delisting, oddities>>

\* buildCheckpointState keeps quantity and price of a position only.
Serialized(pos) == [qty |-> pos.qty, price |-> pos.price]

\* deserializePortfolio: without a side a position is a long one.
Restored(pos) ==
    IF pos.qty = 0 THEN Flat ELSE [Flat EXCEPT !.side = "long", !.qty = pos.qty, !.price = pos.price]

\* A checkpoint is written when it is due, on a pause and on a shutdown, at the
\* end of any bar, and an interrupted run goes on from it.  What was done after
\* it is forgotten, so this step stands for an interruption at any later moment
\* too.  The trades made before it count as made, also those since the last
\* checkpoint of a LIVE_REPLAY, whose rows a pause drops.
Resume ==
    /\ loop.pc = "signals"
    /\ loop.bar < NumBars
    /\ positions' = [c \in Coins |-> Restored(Serialized(positions[c]))]
    /\ oddities' = oddities \union
          (IF \E c \in Coins: positions[c].side = "short" THEN {"short restored"} ELSE {})
    /\ NextBar
    /\ UNCHANGED <<cash, earned, exits, delisting>>

Next ==
    \/ \E c \in Coins:
          \/ FillBuy(c) \/ FillSell(c) \/ FillOpenShort(c) \/ FillCloseShort(c) \/ Skip(c)
          \/ \E d \in Coins: OpportunitySell(c, d)
          \/ ForcedExit(c)
          \/ \E kind \in {"stop", "profit"}: ExitFires(c, kind)
          \/ \E action \in Actions: Decide(action, c)
    \/ FlushEnds \/ ForcedExitsEnd \/ ExitsEnd \/ BarEnds \/ Resume

Spec == Init /\ [][Next]_vars

-----------------------------------------------------------------------------
(* Properties *)

\* What a position was paid for: its cost, or the margin of a short.
Stake(pos) == IF pos.side = "short" THEN pos.margin ELSE pos.qty * pos.price

\* The sum of the stakes, counted unit by unit.
AtStake == Cardinality(UNION {{c} \X (1 .. Stake(positions[c])) : c \in Coins})

\* Cash and stakes add up to the capital and the results of the trades, over any
\* sequence of trades, liquidations, delistings and resumptions, until a short
\* is written over, sold like a long position, delisted or restored as one.  It
\* is about the portfolio in memory; which trades are stored is BacktestRun's.
BooksBalance ==
    oddities \subseteq {"short closed", "exit partly filled"}
        => cash + AtStake = Capital + earned

\* The estimate of the fee keeps the cash from going negative, until a short is
\* closed: its fee is charged on the notional value without a test.
NeverOverdrawn == "short closed" \notin oddities => cash >= 0

\* The exit tracker watches all of a long position, although sales that raise
\* cash for another purchase bypass it and a stale quantity is carried into the
\* next purchase; until an exit is partly filled and the rest forgotten.
HeldIsTracked ==
    oddities \intersect {"exit partly filled", "short restored"} = {}
        => \A c \in Coins: positions[c].side = "long" => tracker[c] >= positions[c].qty

\* A coin that was stopped out is not bought before its cooldown is over: the
\* queue from the bar before is flushed ahead of the exits, and a resumed run
\* remembers the cooldown.
CooldownHolds ==
    [][\A c \in Coins: FillBuy(c) => loop.bar > cooldown[c]]_vars
=============================================================================
