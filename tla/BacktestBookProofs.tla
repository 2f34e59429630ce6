------------------------- MODULE BacktestBookProofs -------------------------
(***************************************************************************)
(* What holds of the books of a simulated run for any coins, prices, lots, *)
(* leverages, fee, number of bars and signals per bar: types, no overdraft *)
(* without a closed short, the exit tracker covers every long position,    *)
(* and the cooldown after a stop holds.                                    *)
(***************************************************************************)
EXTENDS BacktestBook, FiniteSetTheorems, SequenceTheorems, TLAPS

-----------------------------------------------------------------------------
(* Arithmetic.                                                             *)

LEMMA Product == ASSUME NEW a \in Nat, NEW b \in Nat PROVE a * b \in Nat
OBVIOUS

LEMMA Difference ==
  ASSUME NEW a \in Int, NEW b \in Int, NEW n \in Int
  PROVE  (a - b) * n = a * n - b * n
OBVIOUS

LEMMA Quotient ==
  ASSUME NEW a \in Nat, NEW d \in Nat \ {0}
  PROVE  a \div d \in Nat /\ a \div d <= a
<1>1. a \div d \in Int /\ d * (a \div d) <= a /\ a < d * (a \div d + 1)
  OBVIOUS
<1> DEFINE k == a \div d
<1> HIDE DEF k
<1>2. k \in Int /\ d * k <= a /\ a < d * (k + 1)
  BY <1>1 DEF k
<1>3. k >= 0
  <2>1. SUFFICES ASSUME k + 1 <= 0 PROVE FALSE
    BY <1>2
  <2>2. d * (k + 1) <= 0
    BY <1>2, <2>1
  <2> QED BY <1>2, <2>2
<1>4. k <= d * k
  BY <1>2, <1>3
<1> QED BY <1>2, <1>3, <1>4 DEF k

\* What is returned of a margin when a part of a short is closed is at most
\* the margin.
LEMMA Share ==
  ASSUME NEW m \in Nat, NEW n \in Nat \ {0}, NEW q \in 0 .. n
  PROVE  (m * q) \div n \in 0 .. m
<1> DEFINE k == (m * q) \div n
<1>1. m * q \in Nat
  BY Product
<1>2. k \in Nat /\ n * k <= m * q
  BY <1>1, Quotient
<1> HIDE DEF k
<1>3. m * q <= m * n
  OBVIOUS
<1>4. k <= m
  <2>1. SUFFICES ASSUME k >= m + 1 PROVE FALSE
    BY <1>2
  <2>2. n * k >= n * (m + 1)
    BY <1>2, <2>1
  <2>3. n * (m + 1) = m * n + n
    OBVIOUS
  <2> QED BY <1>2, <1>3, <2>2, <2>3
<1> QED BY <1>2, <1>4 DEF k

LEMMA WholeShare ==
  ASSUME NEW m \in Nat, NEW n \in Nat \ {0}
  PROVE  (m * n) \div n = m
<1> DEFINE k == (m * n) \div n
<1>1. k \in Int /\ n * k <= m * n /\ m * n < n * (k + 1)
  OBVIOUS
<1> HIDE DEF k
<1>2. k <= m
  <2>1. SUFFICES ASSUME k >= m + 1 PROVE FALSE
    BY <1>1
  <2>2. n * k >= n * (m + 1) /\ n * (m + 1) = m * n + n
    BY <1>1, <2>1
  <2> QED BY <1>1, <2>2
<1>3. m <= k
  <2>1. SUFFICES ASSUME k + 1 <= m PROVE FALSE
    BY <1>1
  <2>2. n * (k + 1) <= n * m /\ n * m = m * n
    BY <1>1, <2>1
  <2> QED BY <1>1, <2>2
<1> QED BY <1>1, <1>2, <1>3 DEF k

LEMMA MaxOfTwo ==
  ASSUME NEW a \in Int, NEW b \in Int
  PROVE  Max({a, b}) \in {a, b} /\ Max({a, b}) >= a /\ Max({a, b}) >= b
<1>1. \E x \in {a, b}: \A y \in {a, b}: x >= y
  OBVIOUS
<1> QED BY <1>1 DEF Max

LEMMA MaxWithZero ==
  ASSUME NEW a \in Int PROVE Max({a, 0}) \in Nat /\ Max({a, 0}) >= a
<1>1. Max({a, 0}) \in {a, 0} /\ Max({a, 0}) >= a /\ Max({a, 0}) >= 0
  BY MaxOfTwo
<1> QED BY <1>1

\* The fee is a part of what it is charged on.
LEMMA FeeIsPart ==
  ASSUME NEW v \in Nat PROVE Fee(v) \in Nat /\ Fee(v) <= v
BY Quotient, BookAssumption DEF Fee

-----------------------------------------------------------------------------
(* The inductive invariant of the types: TypeOK, and a position without a   *)
(* side is an empty one.                                                   *)

Sound(pos) ==
    /\ pos \in Position
    /\ pos.qty = 0 \/ pos.side = "none" => pos = Flat
    /\ pos.side # "short" => pos.margin = 0

Books ==
    /\ cash \in Int /\ earned \in Int
    /\ positions \in [Coins -> Position]
    /\ \A c \in Coins: Sound(positions[c])

Flow ==
    /\ cooldown \in [Coins -> 0 .. NumBars + CooldownBars]
    /\ pending \in Seq(Signal) /\ Len(pending) <= MaxSignals
    /\ delisting \in [Coins -> DelistingBars]
    /\ loop \in [pc: Phases, bar: 0 .. NumBars, done: SUBSET Coins]

TypeInv == Books /\ tracker \in [Coins -> Nat] /\ Flow /\ oddities \subseteq Oddities

\* A trade in one coin changes that coin's position alone.
Traded(c) ==
    /\ cash' \in Int /\ earned' \in Int
    /\ positions' \in [Coins -> Position]
    /\ Sound(positions'[c])
    /\ \A d \in Coins \ {c}: positions'[d] = positions[d]

\* What was paid out or earned is in the cash or in the position.
Even(c) == cash' + Stake(positions'[c]) - earned' = cash + Stake(positions[c]) - earned

LEMMA BookTypes ==
  ASSUME Books
  PROVE  /\ cash \in Int /\ earned \in Int
         /\ \A c \in Coins:
              /\ Sound(positions[c])
              /\ positions[c].qty \in Nat /\ positions[c].price \in Nat
              /\ positions[c].margin \in Nat /\ positions[c].leverage \in Nat
              /\ positions[c].side \in {"none", "long", "short"}
BY DEF Books, Sound, Position

LEMMA InputTypes ==
    /\ \A p \in Prices: p \in Nat /\ p > 0
    /\ \A q \in Lots: q \in Nat /\ q > 0
    /\ \A l \in Leverages: l \in Nat /\ l > 0
BY BookAssumption

LEMMA FlatIsSound ==
    /\ Flat \in Position /\ Sound(Flat) /\ Stake(Flat) = 0
    /\ Flat.side = "none" /\ Flat.qty = 0 /\ Flat.margin = 0
BY DEF Flat, Position, Sound, Stake

\* Writing a sound position for one coin is a trade in it.
LEMMA Written ==
  ASSUME Books, NEW c \in Coins, NEW r, Sound(r), cash' \in Int, earned' \in Int,
         positions' = [positions EXCEPT ![c] = r]
  PROVE  Traded(c) /\ positions'[c] = r
BY DEF Books, Traded, Sound

LEMMA TradedKeepsBooks ==
  ASSUME Books, NEW c \in Coins, Traded(c)
  PROVE  Books'
BY DEF Books, Traded

LEMMA BuyBooks ==
  ASSUME Books, NEW c \in Coins, NEW q \in Lots, NEW p \in Prices, ExecuteBuy(c, q, p)
  PROVE  /\ Traded(c) /\ Even(c) /\ cash' >= 0
         /\ positions'[c].side = "long" /\ positions'[c].qty = q /\ positions[c].qty = 0
<1>1. q \in Nat /\ q > 0 /\ p \in Nat /\ q * p \in Nat
  BY InputTypes, Product
<1>2. Fee(q * p) \in Nat
  BY <1>1, FeeIsPart
<1> DEFINE r == [Flat EXCEPT !.side = "long", !.qty = q, !.price = p]
<1>3. r \in Position /\ r.side = "long" /\ r.qty = q /\ r.price = p /\ r.margin = 0
  BY <1>1 DEF Flat, Position
<1>4. positions' = [positions EXCEPT ![c] = r] /\ positions[c].qty = 0
  BY DEF ExecuteBuy
<1> HIDE DEF r
<1>5. Sound(r)
  BY <1>1, <1>3 DEF Sound
<1>6. cash \in Int /\ earned \in Int /\ Sound(positions[c])
  BY BookTypes
<1>7. /\ cash' = cash - q * p - Fee(q * p) /\ earned' = earned - Fee(q * p)
      /\ cash >= q * p + Fee(q * p)
  BY DEF ExecuteBuy, Affordable
<1>8. cash' \in Int /\ earned' \in Int /\ cash' >= 0
  BY <1>1, <1>2, <1>6, <1>7
<1>9. Traded(c) /\ positions'[c] = r
  BY <1>4, <1>5, <1>8, Written
<1>10. Stake(r) = q * p /\ Stake(positions[c]) = 0
  BY <1>3, <1>4, <1>6, FlatIsSound DEF Stake, Sound
<1>11. Even(c)
  BY <1>1, <1>2, <1>6, <1>7, <1>9, <1>10 DEF Even
<1> QED BY <1>3, <1>4, <1>8, <1>9, <1>11

LEMMA SellBooks ==
  ASSUME Books, NEW c \in Coins, NEW q, NEW p \in Prices, ExecuteSell(c, q, p)
  PROVE  /\ Traded(c) /\ cash' >= cash /\ (cash >= 0 => cash' >= 0)
         /\ positions[c].side # "short" => Even(c)
         /\ q \in Nat /\ q > 0
         /\ \/ positions'[c] = Flat /\ positions[c].qty = q
            \/ /\ positions'[c].side = positions[c].side
               /\ positions'[c].qty = positions[c].qty - q
               /\ positions[c].qty # q
<1> DEFINE pos == positions[c]
           r == IF pos.qty = q THEN Flat ELSE [pos EXCEPT !.qty = pos.qty - q]
<1>1. pos \in Position /\ Sound(pos) /\ pos.qty \in Nat /\ pos.price \in Nat /\ cash \in Int
      /\ earned \in Int
  BY BookTypes DEF Sound
<1>2. q \in Nat /\ q > 0 /\ q <= pos.qty /\ p \in Nat /\ q * p \in Nat
  BY <1>1, InputTypes, Product DEF ExecuteSell
<1>3. Fee(q * p) \in Nat /\ Fee(q * p) <= q * p
  BY <1>2, FeeIsPart
<1>4. /\ cash' = cash + q * p - Fee(q * p)
      /\ earned' = earned + (p - pos.price) * q - Fee(q * p)
      /\ positions' = [positions EXCEPT ![c] = r]
  BY DEF ExecuteSell, Reduced, Books
<1>5. (p - pos.price) * q = q * p - q * pos.price /\ q * pos.price \in Nat
  BY <1>1, <1>2, Product
<1>6. /\ cash' \in Int /\ earned' \in Int /\ cash' >= cash
      /\ cash >= 0 => cash' >= 0
  BY <1>1, <1>2, <1>3, <1>4, <1>5
<1>7. CASE pos.qty = q
  <2>1. r = Flat
    BY <1>7
  <2>2. Traded(c) /\ positions'[c] = Flat
    BY <1>4, <1>6, <2>1, FlatIsSound, Written
  <2>3. pos.side # "short" => Even(c)
    BY <1>1, <1>2, <1>3, <1>4, <1>5, <1>7, <2>2, FlatIsSound DEF Even, Stake
  <2> QED BY <1>2, <1>6, <1>7, <2>2, <2>3
<1>8. CASE pos.qty # q
  <2>1. /\ r \in Position /\ r.qty = pos.qty - q /\ r.side = pos.side /\ r.price = pos.price
        /\ r.margin = pos.margin /\ r.qty > 0
    BY <1>1, <1>2, <1>8 DEF Position
  <2>2. pos.qty # 0 /\ pos.side # "none"
    BY <1>1, <1>2, FlatIsSound DEF Sound
  <2>3. Sound(r)
    BY <1>1, <1>2, <2>1, <2>2 DEF Sound
  <2>4. Traded(c) /\ positions'[c] = r
    BY <1>4, <1>6, <2>3, Written
  <2>5. r.qty * r.price = pos.qty * pos.price - q * pos.price
    <3>1. (pos.qty - q) * pos.price = pos.qty * pos.price - q * pos.price
      BY <1>1, <1>2, Difference
    <3> HIDE DEF pos, r
    <3> QED BY <2>1, <3>1
  <2>6. pos.qty * pos.price \in Nat
    BY <1>1, Product
  <2> HIDE DEF r
  <2>7. pos.side # "short" => Even(c)
    BY <1>1, <1>2, <1>3, <1>4, <1>5, <2>1, <2>4, <2>5, <2>6 DEF Even, Stake
  <2> QED BY <1>2, <1>6, <1>8, <2>1, <2>4, <2>7
<1> QED BY <1>7, <1>8
LEMMA OpenShortBooks ==
  ASSUME Books, NEW c \in Coins, NEW q \in Lots, NEW p \in Prices, NEW leverage \in Leverages,
         ExecuteOpenShort(c, q, p, leverage)
  PROVE  /\ Traded(c) /\ cash' >= 0
         /\ positions[c].side # "short" => Even(c)
         /\ positions'[c].side = "short"
<1> DEFINE margin == (q * p) \div leverage
           r == [side |-> "short", qty |-> q, price |-> p, leverage |-> leverage, margin |-> margin]
<1>1. q \in Nat /\ q > 0 /\ p \in Nat /\ q * p \in Nat /\ leverage \in Nat \ {0}
  BY InputTypes, Product
<1>2. Fee(q * p) \in Nat /\ margin \in Nat
  BY <1>1, FeeIsPart, Quotient
<1>3. cash \in Int /\ earned \in Int /\ Sound(positions[c])
      /\ positions[c].side \in {"none", "long", "short"}
  BY BookTypes
<1>4. /\ cash' = cash - margin - Fee(q * p) /\ earned' = earned - Fee(q * p)
      /\ positions' = [positions EXCEPT ![c] = r]
      /\ cash >= margin + Fee(q * p) /\ positions[c].side # "long"
  BY DEF ExecuteOpenShort, Affordable
<1> HIDE DEF margin
<1>5. r \in Position /\ r.side = "short" /\ r.qty = q /\ r.margin = margin
  BY <1>1, <1>2 DEF Position
<1> HIDE DEF r
<1>6. Sound(r)
  BY <1>1, <1>5 DEF Sound
<1>7. cash' \in Int /\ earned' \in Int /\ cash' >= 0
  BY <1>2, <1>3, <1>4
<1>8. Traded(c) /\ positions'[c] = r
  BY <1>4, <1>6, <1>7, Written
<1>9. Stake(r) = margin
  BY <1>5 DEF Stake
<1>10. positions[c].side # "short" => Stake(positions[c]) = 0
  BY <1>3, <1>4, FlatIsSound DEF Sound
<1>11. positions[c].side # "short" => Even(c)
  BY <1>2, <1>3, <1>4, <1>8, <1>9, <1>10 DEF Even
<1> QED BY <1>5, <1>7, <1>8, <1>11

LEMMA CloseShortBooks ==
  ASSUME Books, NEW c \in Coins, NEW q, NEW p \in Prices, ExecuteCloseShort(c, q, p)
  PROVE  Traded(c) /\ Even(c) /\ positions'[c].side # "long"
<1> DEFINE pos == positions[c]
           returned == (pos.margin * q) \div pos.qty
           gain == Max({-returned, (pos.price - p) * q})
           r == IF pos.qty = q THEN Flat
                ELSE [pos EXCEPT !.qty = pos.qty - q, !.margin = pos.margin - returned]
<1>1. /\ pos \in Position /\ Sound(pos) /\ cash \in Int /\ earned \in Int
      /\ pos.qty \in Nat /\ pos.price \in Nat /\ pos.margin \in Nat
  BY BookTypes DEF Sound
<1>2. pos.side = "short" /\ q \in 1 .. pos.qty
  BY DEF ExecuteCloseShort
<1>3. q \in Nat /\ q > 0 /\ q <= pos.qty /\ pos.qty \in Nat \ {0} /\ q \in 0 .. pos.qty
  BY <1>1, <1>2
<1>4. p \in Nat /\ q * p \in Nat
  BY <1>3, InputTypes, Product
<1>5. Fee(q * p) \in Nat
  BY <1>4, FeeIsPart
<1>6. returned \in 0 .. pos.margin
  BY <1>1, <1>3, Share
<1>7. /\ cash' = cash + returned + gain - Fee(q * p)
      /\ earned' = earned + gain - Fee(q * p)
      /\ positions' = [positions EXCEPT ![c] = r]
  BY DEF ExecuteCloseShort, Books
<1>8. pos.qty = q => returned = pos.margin
  <2>1. SUFFICES ASSUME pos.qty = q PROVE (pos.margin * q) \div q = pos.margin
    OBVIOUS
  <2> QED BY <1>1, <1>3, WholeShare
<1>9. (pos.price - p) * q \in Int
  BY <1>1, <1>3, <1>4
<1> HIDE DEF returned
<1>10. -returned \in Int /\ returned \in Int /\ returned >= 0 /\ returned <= pos.margin
  BY <1>1, <1>6
<1>11. gain \in Int
  BY <1>9, <1>10, MaxOfTwo
<1> HIDE DEF gain
<1>12. cash' \in Int /\ earned' \in Int
  BY <1>1, <1>5, <1>7, <1>10, <1>11
<1>13. Stake(pos) = pos.margin
  BY <1>2 DEF Stake
<1>14. CASE pos.qty = q
  <2>1. r = Flat
    BY <1>14
  <2>2. Traded(c) /\ positions'[c] = Flat
    BY <1>7, <1>12, <2>1, FlatIsSound, Written
  <2>3. Even(c)
    BY <1>1, <1>5, <1>7, <1>8, <1>11, <1>13, <1>14, <2>2, FlatIsSound DEF Even
  <2> QED BY <2>2, <2>3, FlatIsSound
<1>15. CASE pos.qty # q
  <2>1. r = [pos EXCEPT !.qty = pos.qty - q, !.margin = pos.margin - returned]
    BY <1>15
  <2>2. pos.qty - q \in Nat /\ pos.qty - q > 0 /\ pos.margin - returned \in Nat
    BY <1>1, <1>3, <1>10, <1>15
  <2>3. /\ r \in Position /\ r.qty = pos.qty - q /\ r.side = "short"
        /\ r.margin = pos.margin - returned
    BY <1>1, <1>2, <2>1, <2>2 DEF Position
  <2> HIDE DEF r
  <2>4. Sound(r)
    BY <2>2, <2>3 DEF Sound
  <2>5. Traded(c) /\ positions'[c] = r
    BY <1>7, <1>12, <2>4, Written
  <2>6. Stake(r) = pos.margin - returned
    BY <2>3 DEF Stake
  <2>7. Even(c)
    BY <1>1, <1>5, <1>7, <1>10, <1>11, <1>13, <2>5, <2>6 DEF Even
  <2> QED BY <2>3, <2>5, <2>7
<1> QED BY <1>14, <1>15

LEMMA LiquidateBooks ==
  ASSUME Books, NEW c \in Coins, Liquidate(c)
  PROVE  Traded(c) /\ Even(c) /\ cash' = cash /\ positions'[c] = Flat
<1>1. cash \in Int /\ earned \in Int /\ positions[c].margin \in Nat
  BY BookTypes
<1>2. /\ positions[c].side = "short" /\ positions' = [positions EXCEPT ![c] = Flat]
      /\ earned' = earned - positions[c].margin /\ cash' = cash
  BY DEF Liquidate, Liquidated
<1>3. cash' \in Int /\ earned' \in Int
  BY <1>1, <1>2
<1>4. Traded(c) /\ positions'[c] = Flat
  BY <1>2, <1>3, FlatIsSound, Written
<1>5. Even(c)
  <2>1. Stake(positions[c]) = positions[c].margin
    BY <1>2 DEF Stake
  <2> QED BY <1>1, <1>2, <1>4, <2>1, FlatIsSound DEF Even
<1> QED BY <1>2, <1>4, <1>5

LEMMA DelistedBooks ==
  ASSUME Books, NEW c \in Coins, CloseDelisted(c)
  PROVE  /\ Traded(c) /\ cash' >= cash /\ positions'[c] = Flat
         /\ positions[c].side # "short" => Even(c)
<1> DEFINE pos == positions[c]
<1>1. cash \in Int /\ earned \in Int /\ pos.qty \in Nat /\ pos.price \in Nat
  BY BookTypes
<1>2. PICK p \in Prices:
        LET value == pos.qty * (p \div PenaltyDivisor)
            cost == pos.qty * pos.price
        IN  /\ cash' = cash + value
            /\ earned' = earned + IF pos.side = "short" THEN cost - value ELSE value - cost
  BY DEF CloseDelisted
<1> DEFINE value == pos.qty * (p \div PenaltyDivisor)
           cost == pos.qty * pos.price
<1>3. p \div PenaltyDivisor \in Nat
  BY InputTypes, BookAssumption, Quotient
<1>4. value \in Nat /\ cost \in Nat
  BY <1>1, <1>3, Product
<1>5. /\ cash' = cash + value
      /\ earned' = earned + IF pos.side = "short" THEN cost - value ELSE value - cost
  BY <1>2
<1>6. positions' = [positions EXCEPT ![c] = Flat]
  BY DEF CloseDelisted
<1>7. pos.side # "short" => Stake(pos) = cost
  BY DEF Stake
<1> HIDE DEF value, cost
<1>8. cash' \in Int /\ earned' \in Int /\ cash' >= cash
  BY <1>1, <1>4, <1>5
<1>9. Traded(c) /\ positions'[c] = Flat
  BY <1>6, <1>8, FlatIsSound, Written
<1>10. pos.side # "short" => Even(c)
  BY <1>1, <1>4, <1>5, <1>7, <1>9, FlatIsSound DEF Even
<1> QED BY <1>8, <1>9, <1>10
-----------------------------------------------------------------------------
(* The invariants.  A purchase in the queue was queued when its coin's      *)
(* cooldown was over, and nothing is queued while exits set cooldowns.     *)

Queued ==
    /\ loop.pc \in {"forced", "exits"} => pending = << >>
    /\ \A i \in 1 .. Len(pending): pending[i].action = "BUY" =>
          /\ cooldown[pending[i].coin] <= loop.bar
          /\ loop.pc = "open" => cooldown[pending[i].coin] < loop.bar

Inv == TypeInv /\ NeverOverdrawn /\ HeldIsTracked /\ Queued

\* The part of Inv that the phases and the queue decide.
FlowInv == Flow /\ Queued

\* The part that trades can disturb.
BookInv ==
    /\ Books /\ tracker \in [Coins -> Nat] /\ oddities \subseteq Oddities
    /\ NeverOverdrawn /\ HeldIsTracked

LEMMA InvParts == Inv <=> FlowInv /\ BookInv
BY DEF Inv, FlowInv, BookInv, TypeInv

LEMMA TypeInvImplies == TypeInv => TypeOK
BY DEF TypeInv, TypeOK, Books, Sound, Flow

LEMMA InvInit == Init => Inv
<1> SUFFICES ASSUME Init PROVE Inv
  OBVIOUS
<1>1. Books
  <2>1. cash \in Int /\ earned \in Int /\ positions = [c \in Coins |-> Flat]
    BY BookAssumption DEF Init
  <2> QED BY <2>1, FlatIsSound DEF Books
<1>2. /\ tracker \in [Coins -> Nat] /\ cooldown \in [Coins -> 0 .. NumBars + CooldownBars]
      /\ oddities \subseteq Oddities /\ delisting \in [Coins -> DelistingBars]
  BY BookAssumption DEF Init
<1>3. pending \in Seq(Signal) /\ Len(pending) = 0 /\ pending = << >>
  BY DEF Init
<1>4. loop \in [pc: Phases, bar: 0 .. NumBars, done: SUBSET Coins]
  BY BookAssumption DEF Init, Phases
<1>5. TypeInv
  BY <1>1, <1>2, <1>3, <1>4, BookAssumption DEF TypeInv, Flow
<1>6. NeverOverdrawn
  BY BookAssumption DEF Init, NeverOverdrawn
<1>7. HeldIsTracked
  BY FlatIsSound DEF Init, HeldIsTracked
<1>8. Queued
  BY <1>3 DEF Queued
<1> QED BY <1>5, <1>6, <1>7, <1>8 DEF Inv

LEMMA LoopTypes ==
  ASSUME Flow
  PROVE  /\ loop.pc \in Phases /\ loop.bar \in Int /\ loop.bar >= 0 /\ loop.bar <= NumBars
         /\ loop.done \subseteq Coins /\ NumBars \in Nat /\ CooldownBars \in Nat
         /\ \A c \in Coins: cooldown[c] \in Int
         /\ Len(pending) \in Nat
         /\ \A i \in 1 .. Len(pending): pending[i].action \in AllActions /\ pending[i].coin \in Coins
<1>1. \A i \in 1 .. Len(pending): pending[i] \in Signal
  BY DEF Flow
<1>2. \A i \in 1 .. Len(pending): pending[i].action \in AllActions /\ pending[i].coin \in Coins
  BY <1>1 DEF Signal
<1> QED BY <1>2, BookAssumption DEF Flow

\* The signal whose turn it is leaves the queue.
LEMMA NextSignalFlow ==
  ASSUME FlowInv, NEW action, NEW c \in Coins, Turn(action, c), NextSignal
  PROVE  FlowInv'
<1>1. pending \in Seq(Signal) /\ pending # << >> /\ loop.pc = "open"
  BY DEF FlowInv, Flow, Turn
<1>2. /\ pending' \in Seq(Signal) /\ Len(pending) \in Nat /\ Len(pending') = Len(pending) - 1
      /\ \A i \in 1 .. Len(pending'): pending'[i] = pending[i + 1]
  BY <1>1, HeadTailProperties DEF NextSignal
<1>3. /\ loop' \in [pc: Phases, bar: 0 .. NumBars, done: SUBSET Coins]
      /\ loop'.pc = loop.pc /\ loop'.bar = loop.bar
  BY DEF FlowInv, Flow, NextSignal
<1>4. Flow'
  BY <1>2, <1>3, BookAssumption DEF FlowInv, Flow, NextSignal
<1>5. Queued'
  <2>1. cooldown' = cooldown
    BY DEF NextSignal
  <2>2. \A i \in 1 .. Len(pending'): i + 1 \in 1 .. Len(pending)
    BY <1>2
  <2> QED BY <1>1, <1>2, <1>3, <2>1, <2>2 DEF FlowInv, Queued
<1> QED BY <1>4, <1>5 DEF FlowInv

\* A step that marks coins as dealt with and leaves the rest of the flow alone.
LEMMA MarkFlow ==
  ASSUME FlowInv, NEW D \in SUBSET Coins, loop' = [loop EXCEPT !.done = D],
         UNCHANGED <<cooldown, pending, delisting>>
  PROVE  FlowInv'
<1>1. /\ loop' \in [pc: Phases, bar: 0 .. NumBars, done: SUBSET Coins]
      /\ loop'.pc = loop.pc /\ loop'.bar = loop.bar
  BY DEF FlowInv, Flow
<1>2. Flow'
  BY <1>1 DEF FlowInv, Flow
<1>3. Queued'
  BY <1>1 DEF FlowInv, Queued
<1> QED BY <1>2, <1>3 DEF FlowInv

\* A trade in one coin keeps the books if the cash stays covered and the coin
\* stays tracked.
LEMMA TradeKeeps ==
  ASSUME BookInv, NEW c \in Coins, Traded(c),
         oddities \subseteq oddities', oddities' \subseteq Oddities,
         cash >= 0 /\ "short closed" \notin oddities' => cash' >= 0,
         tracker' \in [Coins -> Nat],
         \A d \in Coins \ {c}: tracker'[d] = tracker[d],
         /\ oddities' \intersect {"exit partly filled", "short restored"} = {}
         /\ positions[c].side = "long" => tracker[c] >= positions[c].qty
         => (positions'[c].side = "long" => tracker'[c] >= positions'[c].qty)
  PROVE  BookInv'
<1>1. Books'
  BY TradedKeepsBooks DEF BookInv
<1>2. NeverOverdrawn'
  BY DEF BookInv, NeverOverdrawn
<1>3. HeldIsTracked'
  <2> SUFFICES ASSUME oddities' \intersect {"exit partly filled", "short restored"} = {},
                      NEW d \in Coins, positions'[d].side = "long"
               PROVE  tracker'[d] >= positions'[d].qty
    BY DEF HeldIsTracked
  <2>1. \A e \in Coins: positions[e].side = "long" => tracker[e] >= positions[e].qty
    BY DEF BookInv, HeldIsTracked
  <2>2. CASE d = c
    BY <2>1, <2>2
  <2>3. CASE d # c
    BY <2>1, <2>3 DEF Traded
  <2> QED BY <2>2, <2>3
<1> QED BY <1>1, <1>2, <1>3 DEF BookInv
\* What one step may do to the books: nothing, or a change of cash and results
\* that the position of one coin makes up for.
Still ==
    /\ cash' = cash /\ earned' = earned
    /\ \A c \in Coins: Stake(positions'[c]) = Stake(positions[c])

Compensated(c) ==
    /\ Even(c)
    /\ \A d \in Coins \ {c}: Stake(positions'[d]) = Stake(positions[d])

Balances ==
    oddities' \subseteq {"short closed", "exit partly filled"}
        => Still \/ \E c \in Coins: Compensated(c)

LEMMA TradedEven ==
  ASSUME NEW c \in Coins, Traded(c),
         oddities' \subseteq {"short closed", "exit partly filled"} => Even(c)
  PROVE  Balances
BY DEF Traded, Balances, Compensated

LEMMA Untouched ==
  ASSUME BookInv, UNCHANGED <<portfolio, tracker, oddities>>
  PROVE  BookInv' /\ Balances
<1>1. BookInv'
  BY DEF BookInv, Books, NeverOverdrawn, HeldIsTracked, portfolio
<1>2. Balances
  BY DEF Balances, Still, portfolio
<1> QED BY <1>1, <1>2

-----------------------------------------------------------------------------
(* The signals of the bar before.                                          *)

LEMMA FillBuyStep ==
  ASSUME Inv, NEW c \in Coins, FillBuy(c)
  PROVE  Inv' /\ Balances
<1>1. FlowInv /\ BookInv /\ Books
  BY InvParts DEF BookInv
<1>2. PICK q \in Lots, p \in Prices:
        ExecuteBuy(c, q, p) /\ tracker' = [tracker EXCEPT ![c] = @ + q]
  BY DEF FillBuy
<1>3. /\ Traded(c) /\ Even(c) /\ cash' >= 0
      /\ positions'[c].side = "long" /\ positions'[c].qty = q
  BY <1>1, <1>2, BuyBooks
<1>4. oddities' = oddities
  BY <1>2 DEF ExecuteBuy
<1>5. q \in Nat /\ tracker \in [Coins -> Nat]
  BY <1>1, InputTypes DEF BookInv
<1>6. /\ tracker' \in [Coins -> Nat] /\ tracker'[c] >= q
      /\ \A d \in Coins \ {c}: tracker'[d] = tracker[d]
  BY <1>2, <1>5
<1>7. BookInv'
  <2>1. oddities \subseteq Oddities
    BY <1>1 DEF BookInv
  <2> QED BY <1>1, <1>3, <1>4, <1>6, <2>1, TradeKeeps
<1>8. FlowInv'
  BY <1>1, NextSignalFlow DEF FillBuy
<1>9. Balances
  BY <1>3, TradedEven
<1> QED BY <1>7, <1>8, <1>9, InvParts DEF Inv, FlowInv, BookInv, TypeInv

\* A sale, whoever makes it and whatever the tracker is told.
LEMMA SaleKeeps ==
  ASSUME BookInv, NEW c \in Coins, NEW q, NEW p \in Prices, ExecuteSell(c, q, p),
         NEW more \in SUBSET {"exit partly filled"},
         oddities' = oddities \union ShortSold(c) \union more,
         tracker' \in [Coins -> Nat],
         \A d \in Coins \ {c}: tracker'[d] = tracker[d],
         more = {} /\ tracker[c] >= positions[c].qty /\ positions[c].qty # q
            => tracker'[c] >= positions[c].qty - q
  PROVE  BookInv' /\ Balances
<1>1. Books /\ oddities \subseteq Oddities
  BY DEF BookInv
<1>2. /\ Traded(c) /\ (cash >= 0 => cash' >= 0)
      /\ positions[c].side # "short" => Even(c)
      /\ q \in Nat /\ q > 0
      /\ \/ positions'[c] = Flat /\ positions[c].qty = q
         \/ /\ positions'[c].side = positions[c].side
            /\ positions'[c].qty = positions[c].qty - q
            /\ positions[c].qty # q
  BY <1>1, SellBooks
<1>3. ShortSold(c) \subseteq Oddities /\ more \subseteq Oddities
  BY DEF ShortSold, Oddities
<1>4. oddities \subseteq oddities' /\ oddities' \subseteq Oddities
  BY <1>1, <1>3
<1>7. ASSUME oddities' \intersect {"exit partly filled", "short restored"} = {},
             positions[c].side = "long" => tracker[c] >= positions[c].qty,
             positions'[c].side = "long"
      PROVE  tracker'[c] >= positions'[c].qty
  <2>1. more = {}
    BY <1>7
  <2>2. positions'[c] # Flat
    BY <1>7, FlatIsSound
  <2> QED BY <1>2, <1>7, <2>1, <2>2
<1>8. BookInv'
  BY <1>2, <1>4, <1>7, TradeKeeps
<1>9. oddities' \subseteq {"short closed", "exit partly filled"} => Even(c)
  BY <1>2 DEF ShortSold
<1> QED BY <1>2, <1>8, <1>9, TradedEven

LEMMA FillSellStep ==
  ASSUME Inv, NEW c \in Coins, FillSell(c)
  PROVE  Inv' /\ Balances
<1>1. FlowInv /\ BookInv /\ Books /\ tracker \in [Coins -> Nat]
  BY InvParts DEF BookInv
<1>2. PICK q \in 1 .. positions[c].qty, p \in Prices:
        ExecuteSell(c, q, p) /\ tracker' = [tracker EXCEPT ![c] = Max({tracker[c] - q, 0})]
  BY <1>1 DEF FillSell
<1>3. positions[c].qty \in Nat /\ q \in Nat
  BY <1>1, <1>2, BookTypes
<1> DEFINE left == Max({tracker[c] - q, 0})
<1>4. left \in Nat /\ left >= tracker[c] - q
  <2>1. tracker[c] - q \in Int
    BY <1>1, <1>3
  <2> QED BY <2>1, MaxWithZero
<1> HIDE DEF left
<1>5. /\ tracker' \in [Coins -> Nat] /\ tracker'[c] = left
      /\ \A d \in Coins \ {c}: tracker'[d] = tracker[d]
  BY <1>1, <1>2, <1>4 DEF left
<1>6. tracker[c] >= positions[c].qty => tracker'[c] >= positions[c].qty - q
  BY <1>1, <1>3, <1>4, <1>5
<1>7. oddities' = oddities \union ShortSold(c) \union {}
  BY DEF FillSell
<1>8. BookInv' /\ Balances
  <2>1. ExecuteSell(c, q, p) /\ {} \in SUBSET {"exit partly filled"}
    BY <1>2
  <2> QED BY <1>1, <1>5, <1>6, <1>7, <2>1, SaleKeeps
<1>9. FlowInv'
  BY <1>1, NextSignalFlow DEF FillSell
<1> QED BY <1>8, <1>9 DEF Inv, FlowInv, BookInv, TypeInv

LEMMA FillOpenShortStep ==
  ASSUME Inv, NEW c \in Coins, FillOpenShort(c)
  PROVE  Inv' /\ Balances
<1>1. FlowInv /\ BookInv /\ Books /\ tracker \in [Coins -> Nat] /\ oddities \subseteq Oddities
  BY InvParts DEF BookInv
<1>2. PICK q \in Lots, p \in Prices, leverage \in Leverages: ExecuteOpenShort(c, q, p, leverage)
  BY DEF FillOpenShort
<1>3. /\ Traded(c) /\ cash' >= 0 /\ positions'[c].side = "short"
      /\ positions[c].side # "short" => Even(c)
  BY <1>1, <1>2, OpenShortBooks
<1>4. oddities' = oddities \union (IF positions[c].side = "short" THEN {"short reopened"} ELSE {})
  BY <1>2 DEF ExecuteOpenShort
<1>5. oddities \subseteq oddities' /\ oddities' \subseteq Oddities
  BY <1>1, <1>4 DEF Oddities
<1>6. tracker' = tracker
  BY DEF FillOpenShort
<1>7. BookInv'
  BY <1>1, <1>3, <1>5, <1>6, TradeKeeps
<1>8. oddities' \subseteq {"short closed", "exit partly filled"} => Even(c)
  BY <1>3, <1>4
<1>9. Balances
  BY <1>3, <1>8, TradedEven
<1>10. FlowInv'
  BY <1>1, NextSignalFlow DEF FillOpenShort
<1> QED BY <1>7, <1>9, <1>10 DEF Inv, FlowInv, BookInv, TypeInv

LEMMA FillCloseShortStep ==
  ASSUME Inv, NEW c \in Coins, FillCloseShort(c)
  PROVE  Inv' /\ Balances
<1>1. FlowInv /\ BookInv /\ Books /\ tracker \in [Coins -> Nat] /\ oddities \subseteq Oddities
  BY InvParts DEF BookInv
<1>2. PICK q \in 1 .. positions[c].qty, p \in Prices: ExecuteCloseShort(c, q, p)
  BY DEF FillCloseShort
<1>3. Traded(c) /\ Even(c) /\ positions'[c].side # "long"
  BY <1>1, <1>2, CloseShortBooks
<1>4. oddities' = oddities \union {"short closed"}
  BY <1>2 DEF ExecuteCloseShort
<1>5. oddities \subseteq oddities' /\ oddities' \subseteq Oddities /\ "short closed" \in oddities'
  BY <1>1, <1>4 DEF Oddities
<1>6. tracker' = tracker
  BY DEF FillCloseShort
<1>7. BookInv'
  BY <1>1, <1>3, <1>5, <1>6, TradeKeeps
<1>8. Balances
  BY <1>3, TradedEven
<1>9. FlowInv'
  BY <1>1, NextSignalFlow DEF FillCloseShort
<1> QED BY <1>7, <1>8, <1>9 DEF Inv, FlowInv, BookInv, TypeInv

LEMMA SkipStep ==
  ASSUME Inv, NEW c \in Coins, Skip(c)
  PROVE  Inv' /\ Balances
<1>1. FlowInv /\ BookInv
  BY InvParts
<1>2. BookInv' /\ Balances
  BY <1>1, Untouched DEF Skip
<1>3. FlowInv'
  BY <1>1, NextSignalFlow DEF Skip
<1> QED BY <1>2, <1>3 DEF Inv, FlowInv, BookInv, TypeInv

LEMMA OpportunitySellStep ==
  ASSUME Inv, NEW c \in Coins, NEW d \in Coins, OpportunitySell(c, d)
  PROVE  Inv' /\ Balances
<1>1. FlowInv /\ BookInv /\ Books /\ tracker \in [Coins -> Nat] /\ loop.done \subseteq Coins
  BY InvParts, LoopTypes DEF BookInv, FlowInv
<1>2. PICK q \in 1 .. positions[d].qty, p \in Prices: ExecuteSell(d, q, p)
  BY DEF OpportunitySell
<1>3. tracker' = tracker /\ UNCHANGED <<cooldown, pending, delisting>>
  BY DEF OpportunitySell, exits
<1>4. tracker[d] \in Nat /\ positions[d].qty \in Nat /\ q \in Nat
  BY <1>1, <1>2, BookTypes
<1>5. tracker[d] >= positions[d].qty => tracker'[d] >= positions[d].qty - q
  BY <1>3, <1>4
<1>6. oddities' = oddities \union ShortSold(d) \union {}
  BY DEF OpportunitySell
<1>7. BookInv' /\ Balances
  BY <1>1, <1>2, <1>3, <1>5, <1>6, SaleKeeps
<1>8. loop' = [loop EXCEPT !.done = loop.done \union {d}] /\ loop.done \union {d} \in SUBSET Coins
  BY <1>1 DEF OpportunitySell, FlowInv, Flow
<1>9. FlowInv'
  BY <1>1, <1>3, <1>8, MarkFlow
<1> QED BY <1>7, <1>9 DEF Inv, FlowInv, BookInv, TypeInv
-----------------------------------------------------------------------------
(* Forced exits and the exits of the tracker.                              *)

LEMMA ForcedExitStep ==
  ASSUME Inv, NEW c \in Coins, ForcedExit(c)
  PROVE  Inv' /\ Balances
<1>1. /\ FlowInv /\ BookInv /\ Books /\ tracker \in [Coins -> Nat] /\ loop.done \subseteq Coins
      /\ oddities \subseteq Oddities
  BY InvParts, LoopTypes DEF BookInv, FlowInv
<1>2. loop' = [loop EXCEPT !.done = loop.done \union {c}] /\ loop.done \union {c} \in SUBSET Coins
      /\ UNCHANGED <<cooldown, pending, delisting>>
  BY <1>1 DEF ForcedExit, FlowInv, Flow
<1>3. FlowInv'
  BY <1>1, <1>2, MarkFlow
<1>4. CASE Liquidate(c)
  <2>1. Traded(c) /\ Even(c) /\ cash' = cash /\ positions'[c] = Flat
    BY <1>1, <1>4, LiquidateBooks
  <2>2. tracker' = tracker /\ oddities' = oddities
    BY <1>4 DEF Liquidate
  <2>3. BookInv'
    BY <1>1, <2>1, <2>2, FlatIsSound, TradeKeeps
  <2>4. Balances
    BY <2>1, TradedEven
  <2> QED BY <1>3, <2>3, <2>4 DEF Inv, FlowInv, BookInv, TypeInv
<1>5. CASE CloseDelisted(c)
  <2>1. /\ Traded(c) /\ cash' >= cash /\ positions'[c] = Flat
        /\ positions[c].side # "short" => Even(c)
    BY <1>1, <1>5, DelistedBooks
  <2>2. /\ tracker' = [tracker EXCEPT ![c] = 0]
        /\ oddities' = oddities \union (IF positions[c].side = "short" THEN {"short delisted"} ELSE {})
    BY <1>5 DEF CloseDelisted
  <2>3. oddities \subseteq oddities' /\ oddities' \subseteq Oddities
    BY <1>1, <2>2 DEF Oddities
  <2>4. cash >= 0 => cash' >= 0
    BY <1>1, <2>1 DEF Books, Traded
  <2>5. tracker' \in [Coins -> Nat] /\ \A d \in Coins \ {c}: tracker'[d] = tracker[d]
    BY <1>1, <2>2
  <2>6. BookInv'
    BY <1>1, <2>1, <2>3, <2>4, <2>5, FlatIsSound, TradeKeeps
  <2>7. Balances
    BY <2>1, <2>2, TradedEven
  <2> QED BY <1>3, <2>6, <2>7 DEF Inv, FlowInv, BookInv, TypeInv
<1> QED BY <1>4, <1>5 DEF ForcedExit

\* A stop may set a cooldown, and then nothing is queued.
LEMMA ExitFlow ==
  ASSUME FlowInv, NEW c \in Coins, NEW kind, ExitFires(c, kind)
  PROVE  FlowInv'
<1>1. /\ loop.bar \in 0 .. NumBars /\ loop.bar \in Int /\ NumBars \in Nat /\ CooldownBars \in Nat
      /\ loop.done \subseteq Coins /\ loop.pc = "exits" /\ pending = << >>
  BY LoopTypes, BookAssumption DEF FlowInv, Flow, ExitFires, Queued
<1>2. loop.bar + CooldownBars \in 0 .. NumBars + CooldownBars
  BY <1>1
<1>3. cooldown' \in [Coins -> 0 .. NumBars + CooldownBars]
  BY <1>2 DEF FlowInv, Flow, ExitFires, RegisterCooldown
<1>4. /\ loop' \in [pc: Phases, bar: 0 .. NumBars, done: SUBSET Coins]
      /\ pending' = pending /\ delisting' = delisting
  BY <1>1 DEF FlowInv, Flow, ExitFires
<1>5. Flow'
  BY <1>3, <1>4 DEF FlowInv, Flow
<1>6. Queued'
  <2>1. Len(pending') = 0 /\ pending' = << >>
    BY <1>1, <1>4
  <2> QED BY <2>1 DEF Queued
<1> QED BY <1>5, <1>6 DEF FlowInv

LEMMA ExitFiresStep ==
  ASSUME Inv, NEW c \in Coins, NEW kind, ExitFires(c, kind)
  PROVE  Inv' /\ Balances
<1>1. FlowInv /\ BookInv /\ Books /\ tracker \in [Coins -> Nat]
  BY InvParts DEF BookInv
<1>2. FlowInv'
  BY <1>1, ExitFlow
<1>3. ASSUME NEW q \in 1 .. Min({tracker[c], positions[c].qty}), NEW p \in Prices,
             ExecuteSell(c, q, p), tracker' = [tracker EXCEPT ![c] = 0],
             oddities' = oddities \union ShortSold(c)
                  \union (IF q < positions[c].qty THEN {"exit partly filled"} ELSE {})
      PROVE  BookInv' /\ Balances
  <2> DEFINE more == IF q < positions[c].qty THEN {"exit partly filled"} ELSE {}
  <2>1. more \in SUBSET {"exit partly filled"}
    OBVIOUS
  <2>2. q \in 1 .. positions[c].qty /\ positions[c].qty \in Nat
    BY <1>1, <1>3, BookTypes DEF ExecuteSell
  <2>3. more = {} => positions[c].qty = q
    <3>1. ~(q < positions[c].qty) => positions[c].qty = q
      BY <2>2
    <3>2. q < positions[c].qty => more # {}
      OBVIOUS
    <3> QED BY <3>1, <3>2
  <2>4. tracker' \in [Coins -> Nat] /\ \A d \in Coins \ {c}: tracker'[d] = tracker[d]
    BY <1>1, <1>3
  <2>5. oddities' = oddities \union ShortSold(c) \union more
    BY <1>3
  <2> HIDE DEF more
  <2> QED BY <1>1, <1>3, <2>1, <2>3, <2>4, <2>5, SaleKeeps
<1>4. ASSUME UNCHANGED <<portfolio, tracker, oddities>> PROVE BookInv' /\ Balances
  BY <1>1, <1>4, Untouched
<1>5. BookInv' /\ Balances
  BY <1>3, <1>4 DEF ExitFires
<1> QED BY <1>2, <1>5 DEF Inv, FlowInv, BookInv, TypeInv

-----------------------------------------------------------------------------
(* The strategy and the end of a bar.                                      *)

LEMMA GoOnStep ==
  ASSUME Inv, NEW from, NEW to \in {"forced", "exits", "signals"}, GoOn(from, to), pending = << >>
  PROVE  Inv' /\ Balances
<1>1. FlowInv /\ BookInv
  BY InvParts
<1>2. BookInv' /\ Balances
  BY <1>1, Untouched DEF GoOn, exits
<1>3. loop' \in [pc: Phases, bar: 0 .. NumBars, done: SUBSET Coins]
  BY <1>1 DEF FlowInv, Flow, GoOn, Phases
<1>4. Flow'
  BY <1>1, <1>3 DEF FlowInv, Flow, GoOn, exits
<1>5. Queued'
  <2>1. pending' = << >> /\ Len(pending') = 0
    BY DEF GoOn
  <2> QED BY <2>1 DEF Queued
<1> QED BY <1>2, <1>4, <1>5 DEF Inv, BookInv, TypeInv

LEMMA DecideStep ==
  ASSUME Inv, NEW c \in Coins, NEW action \in Actions, Decide(action, c)
  PROVE  Inv' /\ Balances
<1>1. FlowInv /\ BookInv
  BY InvParts
<1>2. BookInv' /\ Balances
  BY <1>1, Untouched DEF Decide, exits
<1> DEFINE s == [action |-> action, coin |-> c]
<1>3. s \in Signal /\ s.action = action /\ s.coin = c
  BY BookAssumption DEF Signal
<1>4. pending \in Seq(Signal) /\ pending' = Append(pending, s) /\ Len(pending) < MaxSignals
  BY <1>1 DEF FlowInv, Flow, Decide
<1> HIDE DEF s
<1>5. /\ pending' \in Seq(Signal) /\ Len(pending) \in Nat /\ Len(pending') = Len(pending) + 1
      /\ \A i \in 1 .. Len(pending): pending'[i] = pending[i]
      /\ pending'[Len(pending) + 1] = s
  BY <1>3, <1>4, AppendProperties
<1>6. /\ loop' = loop /\ cooldown' = cooldown /\ delisting' = delisting /\ loop.pc = "signals"
      /\ action = "BUY" => loop.bar >= cooldown[c]
  BY DEF Decide, MayEnter, exits
<1>7. Flow'
  BY <1>1, <1>4, <1>5, <1>6, BookAssumption DEF FlowInv, Flow
<1>8. Queued'
  <2> SUFFICES ASSUME NEW i \in 1 .. Len(pending'), pending'[i].action = "BUY"
               PROVE  cooldown[pending'[i].coin] <= loop.bar
    BY <1>6 DEF Queued
  <2>1. loop.bar \in Int /\ \A d \in Coins: cooldown[d] \in Int
    BY <1>1, LoopTypes DEF FlowInv
  <2>2. CASE i \in 1 .. Len(pending)
    BY <1>1, <1>5, <2>2 DEF FlowInv, Queued
  <2>3. CASE i = Len(pending) + 1
    BY <1>3, <1>5, <1>6, <2>1, <2>3
  <2> QED BY <1>5, <2>2, <2>3
<1> QED BY <1>2, <1>7, <1>8 DEF Inv, BookInv, TypeInv

LEMMA NextBarFlow ==
  ASSUME FlowInv, loop.pc = "signals", NextBar, UNCHANGED <<cooldown, delisting>>
  PROVE  FlowInv'
<1>1. /\ loop.bar \in Int /\ loop.bar >= 0 /\ loop.bar <= NumBars /\ NumBars \in Nat
      /\ \A c \in Coins: cooldown[c] \in Int
      /\ \A i \in 1 .. Len(pending): pending[i].coin \in Coins
  BY LoopTypes DEF FlowInv
<1>2. CASE loop.bar < NumBars
  <2>1. /\ loop' = [pc |-> "open", bar |-> loop.bar + 1, done |-> {}] /\ pending' = pending
    BY <1>2 DEF NextBar
  <2>2. /\ loop' \in [pc: Phases, bar: 0 .. NumBars, done: SUBSET Coins]
        /\ loop'.pc = "open" /\ loop'.bar = loop.bar + 1
    BY <1>1, <1>2, <2>1 DEF Phases
  <2>3. Flow'
    BY <2>1, <2>2 DEF FlowInv, Flow
  <2>4. Queued'
    <3> SUFFICES ASSUME NEW i \in 1 .. Len(pending), pending[i].action = "BUY"
                 PROVE  cooldown[pending[i].coin] < loop.bar + 1
      BY <1>1, <2>1, <2>2 DEF Queued
    <3> QED BY <1>1 DEF FlowInv, Queued
  <2> QED BY <2>3, <2>4 DEF FlowInv
<1>3. CASE ~(loop.bar < NumBars)
  <2>1. loop' = [loop EXCEPT !.pc = "finished"] /\ pending' = << >>
    BY <1>3 DEF NextBar
  <2>2. loop' \in [pc: Phases, bar: 0 .. NumBars, done: SUBSET Coins]
    BY <2>1 DEF FlowInv, Flow, Phases
  <2>3. pending' \in Seq(Signal) /\ Len(pending') = 0
    BY <2>1
  <2>4. Flow'
    BY <2>2, <2>3, BookAssumption DEF FlowInv, Flow
  <2>5. Queued'
    BY <2>1, <2>3 DEF Queued
  <2> QED BY <2>4, <2>5 DEF FlowInv
<1> QED BY <1>2, <1>3

LEMMA BarEndsStep ==
  ASSUME Inv, BarEnds
  PROVE  Inv' /\ Balances
<1>1. FlowInv /\ BookInv
  BY InvParts
<1>2. BookInv' /\ Balances
  BY <1>1, Untouched DEF BarEnds, exits
<1>3. FlowInv'
  BY <1>1, NextBarFlow DEF BarEnds, exits
<1> QED BY <1>2, <1>3 DEF Inv, FlowInv, BookInv, TypeInv

\* A restored position has the quantity and the price it had, as a long one.
LEMMA RestoredIsSound ==
  ASSUME NEW pos, Sound(pos), NEW r, r = Restored(Serialized(pos))
  PROVE  /\ Sound(r) /\ r.qty = pos.qty
         /\ r.side = "long" => pos.side # "none"
         /\ pos.side # "short" => Stake(r) = Stake(pos)
<1>1. pos.qty \in Nat /\ pos.price \in Nat /\ pos.side \in {"none", "long", "short"}
  BY DEF Sound, Position
<1>2. Serialized(pos).qty = pos.qty /\ Serialized(pos).price = pos.price
  BY DEF Serialized
<1>3. CASE pos.qty = 0
  <2>1. r = Flat /\ pos = Flat
    BY <1>2, <1>3 DEF Restored, Sound
  <2> QED BY <2>1, FlatIsSound
<1>4. CASE pos.qty # 0
  <2> DEFINE e == [Flat EXCEPT !.side = "long", !.qty = pos.qty, !.price = pos.price]
  <2>1. r = e
    BY <1>2, <1>4 DEF Restored
  <2>2. /\ e \in Position /\ e.side = "long" /\ e.qty = pos.qty /\ e.price = pos.price
        /\ e.margin = 0
    BY <1>1 DEF Flat, Position
  <2> HIDE DEF e
  <2>3. pos.side # "none"
    BY <1>4, FlatIsSound DEF Sound
  <2> QED BY <1>4, <2>1, <2>2, <2>3 DEF Sound, Stake
<1> QED BY <1>3, <1>4

LEMMA ResumeStep ==
  ASSUME Inv, Resume
  PROVE  Inv' /\ Balances
<1>1. FlowInv /\ BookInv /\ Books /\ tracker \in [Coins -> Nat] /\ oddities \subseteq Oddities
  BY InvParts DEF BookInv
<1>2. FlowInv'
  BY <1>1, NextBarFlow DEF Resume, exits
<1>3. /\ cash' = cash /\ earned' = earned /\ tracker' = tracker
      /\ positions' = [c \in Coins |-> Restored(Serialized(positions[c]))]
      /\ oddities' = oddities \union
           (IF \E c \in Coins: positions[c].side = "short" THEN {"short restored"} ELSE {})
  BY DEF Resume, exits
<1>4. \A c \in Coins: /\ Sound(positions'[c]) /\ positions'[c].qty = positions[c].qty
                      /\ positions'[c].side = "long" => positions[c].side # "none"
                      /\ positions[c].side # "short" => Stake(positions'[c]) = Stake(positions[c])
  BY <1>1, <1>3, RestoredIsSound DEF Books
<1>5. Books'
  <2>1. positions' \in [Coins -> Position]
    BY <1>3, <1>4 DEF Sound
  <2> QED BY <1>1, <1>3, <1>4, <2>1 DEF Books
<1>6. oddities' \subseteq Oddities /\ oddities \subseteq oddities'
  BY <1>1, <1>3 DEF Oddities
<1>7. NeverOverdrawn'
  BY <1>1, <1>3, <1>6 DEF BookInv, NeverOverdrawn
<1>8. HeldIsTracked'
  <2> SUFFICES ASSUME oddities' \intersect {"exit partly filled", "short restored"} = {},
                      NEW c \in Coins, positions'[c].side = "long"
               PROVE  tracker'[c] >= positions'[c].qty
    BY DEF HeldIsTracked
  <2>1. positions[c].side # "short"
    BY <1>3
  <2>2. positions[c].side \in {"none", "long", "short"}
    BY <1>1, BookTypes
  <2>3. positions[c].side = "long"
    BY <1>4, <2>1, <2>2
  <2> QED BY <1>1, <1>3, <1>4, <1>6, <2>3 DEF BookInv, HeldIsTracked
<1>9. Balances
  <2> SUFFICES ASSUME oddities' \subseteq {"short closed", "exit partly filled"}
               PROVE  Still
    BY DEF Balances
  <2>1. \A c \in Coins: positions[c].side # "short"
    BY <1>3
  <2> QED BY <1>3, <1>4, <2>1 DEF Still
<1> QED BY <1>1, <1>2, <1>3, <1>5, <1>6, <1>7, <1>8, <1>9 DEF Inv, FlowInv, TypeInv

LEMMA InvStep == Inv /\ [Next]_vars => Inv' /\ (Balances \/ UNCHANGED vars)
<1> SUFFICES ASSUME Inv, [Next]_vars PROVE Inv' /\ (Balances \/ UNCHANGED vars)
  OBVIOUS
<1>1. ASSUME NEW c \in Coins, FillBuy(c) PROVE Inv' /\ Balances
  BY <1>1, FillBuyStep
<1>2. ASSUME NEW c \in Coins, FillSell(c) PROVE Inv' /\ Balances
  BY <1>2, FillSellStep
<1>3. ASSUME NEW c \in Coins, FillOpenShort(c) PROVE Inv' /\ Balances
  BY <1>3, FillOpenShortStep
<1>4. ASSUME NEW c \in Coins, FillCloseShort(c) PROVE Inv' /\ Balances
  BY <1>4, FillCloseShortStep
<1>5. ASSUME NEW c \in Coins, Skip(c) PROVE Inv' /\ Balances
  BY <1>5, SkipStep
<1>6. ASSUME NEW c \in Coins, NEW d \in Coins, OpportunitySell(c, d) PROVE Inv' /\ Balances
  BY <1>6, OpportunitySellStep
<1>7. ASSUME NEW c \in Coins, ForcedExit(c) PROVE Inv' /\ Balances
  BY <1>7, ForcedExitStep
<1>8. ASSUME NEW c \in Coins, NEW kind \in {"stop", "profit"}, ExitFires(c, kind)
      PROVE  Inv' /\ Balances
  BY <1>8, ExitFiresStep
<1>9. ASSUME NEW c \in Coins, NEW action \in Actions, Decide(action, c) PROVE Inv' /\ Balances
  BY <1>9, DecideStep
<1>10. CASE FlushEnds
  BY <1>10, GoOnStep DEF FlushEnds
<1>11. CASE ForcedExitsEnd
  <2>1. pending = << >>
    BY <1>11 DEF ForcedExitsEnd, GoOn, Inv, Queued
  <2> QED BY <1>11, <2>1, GoOnStep DEF ForcedExitsEnd
<1>12. CASE ExitsEnd
  <2>1. pending = << >>
    BY <1>12 DEF ExitsEnd, GoOn, Inv, Queued
  <2> QED BY <1>12, <2>1, GoOnStep DEF ExitsEnd
<1>13. CASE BarEnds
  BY <1>13, BarEndsStep
<1>14. CASE Resume
  BY <1>14, ResumeStep
<1>15. CASE UNCHANGED vars
  <2>1. FlowInv /\ BookInv
    BY InvParts
  <2>2. UNCHANGED <<portfolio, tracker, oddities>> /\ UNCHANGED <<cooldown, pending, delisting, loop>>
    BY <1>15 DEF vars, exits
  <2>3. BookInv'
    BY <2>1, <2>2, Untouched
  <2>4. Flow' /\ Queued'
    BY <2>1, <2>2 DEF FlowInv, Flow, Queued
  <2> QED BY <1>15, <2>3, <2>4 DEF Inv, BookInv, TypeInv
<1> QED
  BY <1>1, <1>2, <1>3, <1>4, <1>5, <1>6, <1>7, <1>8, <1>9, <1>10, <1>11, <1>12, <1>13, <1>14, <1>15
  DEF Next

-----------------------------------------------------------------------------
(* The theorems.                                                           *)

LEMMA InvHolds == Spec => []Inv
BY InvInit, InvStep, PTL DEF Spec

\* Every variable of a simulated run keeps its type over any sequence of trades,
\* exits and resumptions: no margin or quantity becomes negative, and a position
\* that is gone is not kept.
THEOREM TypeCorrect == Spec => []TypeOK
<1>1. Inv => TypeOK
  BY TypeInvImplies DEF Inv
<1> QED BY <1>1, InvHolds, PTL

\* The tests of executeBuy and executeOpenShort, which include the fee, keep the
\* cash from going negative as long as no short has been closed.
THEOREM CashIsNotOverdrawn == Spec => []NeverOverdrawn
<1>1. Inv => NeverOverdrawn
  BY DEF Inv
<1> QED BY <1>1, InvHolds, PTL

\* The exit tracker watches all of every long position, until an exit is partly
\* filled or a short is restored as a long position.
THEOREM HeldPositionsAreTracked == Spec => []HeldIsTracked
<1>1. Inv => HeldIsTracked
  BY DEF Inv
<1> QED BY <1>1, InvHolds, PTL

\* A coin that was stopped out is not bought before its cooldown is over.
THEOREM CooldownsHold == Spec => CooldownHolds
<1>1. Inv => \A c \in Coins: FillBuy(c) => loop.bar > cooldown[c]
  <2> SUFFICES ASSUME Inv, NEW c \in Coins, FillBuy(c) PROVE loop.bar > cooldown[c]
    OBVIOUS
  <2>1. /\ loop.pc = "open" /\ pending # << >> /\ Head(pending) = [action |-> "BUY", coin |-> c]
        /\ pending \in Seq(Signal) /\ Flow
    BY DEF FillBuy, Turn, Inv, TypeInv, Flow
  <2>2. 1 \in 1 .. Len(pending) /\ pending[1] = Head(pending)
    BY <2>1
  <2>3. pending[1].action = "BUY" /\ pending[1].coin = c
    BY <2>1, <2>2
  <2>4. loop.bar \in Int /\ cooldown[c] \in Int
    BY <2>1, LoopTypes
  <2> QED BY <2>1, <2>2, <2>3, <2>4 DEF Inv, Queued
<1> QED BY <1>1, InvHolds, PTL DEF CooldownHolds
-----------------------------------------------------------------------------
(* The sum of the stakes.  What a coin's stake changes by, the sum does.   *)

Units(stake, S) == UNION {{c} \X (1 .. stake[c]) : c \in S}

LEMMA PileSize ==
  ASSUME NEW c, NEW n \in Nat
  PROVE  IsFiniteSet({c} \X (1 .. n)) /\ Cardinality({c} \X (1 .. n)) = n
<1>1. IsFiniteSet({c}) /\ Cardinality({c}) = 1
  BY FS_Singleton
<1>2. IsFiniteSet(1 .. n) /\ Cardinality(1 .. n) = n
  BY FS_Interval
<1>3. /\ IsFiniteSet({c} \X (1 .. n))
      /\ Cardinality({c} \X (1 .. n)) = Cardinality({c}) * Cardinality(1 .. n)
  BY <1>1, <1>2, FS_Product, Zenon
<1> QED BY <1>1, <1>2, <1>3

LEMMA UnitsFinite ==
  ASSUME NEW S, IsFiniteSet(S), NEW stake, \A c \in S: stake[c] \in Nat
  PROVE  IsFiniteSet(Units(stake, S))
<1> DEFINE f == [c \in S |-> {c} \X (1 .. stake[c])]
           T == {{c} \X (1 .. stake[c]) : c \in S}
<1>1. f \in Surjection(S, T)
  BY DEF Surjection
<1>2. IsFiniteSet(T)
  <2> HIDE DEF f, T
  <2> QED BY <1>1, FS_Surjection
<1>3. ASSUME NEW t \in T PROVE IsFiniteSet(t)
  <2>1. PICK c \in S: t = {c} \X (1 .. stake[c])
    OBVIOUS
  <2>2. stake[c] \in Nat
    OBVIOUS
  <2> QED BY <2>1, <2>2, PileSize
<1>4. IsFiniteSet(UNION T)
  <2> HIDE DEF f, T
  <2> QED BY <1>2, <1>3, FS_UNION
<1> QED BY <1>4 DEF Units

\* The units of one coin and those of the others.
LEMMA UnitsSplit ==
  ASSUME NEW S, IsFiniteSet(S), NEW stake, \A c \in S: stake[c] \in Nat, NEW c \in S
  PROVE  /\ Cardinality(Units(stake, S \ {c})) \in Nat
         /\ Cardinality(Units(stake, S)) = stake[c] + Cardinality(Units(stake, S \ {c}))
<1> DEFINE A == {c} \X (1 .. stake[c])
           B == Units(stake, S \ {c})
<1>1. IsFiniteSet(A) /\ Cardinality(A) = stake[c]
  BY PileSize
<1>2. IsFiniteSet(S \ {c})
  BY FS_RemoveElement
<1>3. IsFiniteSet(B)
  BY <1>2, UnitsFinite
<1>4. Units(stake, S) = A \cup B
  BY DEF Units
<1>5. A \cap B = {}
  BY DEF Units
<1>6. Cardinality(A \cup B) = Cardinality(A) + Cardinality(B) - Cardinality({})
  <2> HIDE DEF A, B
  <2> QED BY <1>1, <1>3, <1>5, FS_Union
<1>7. Cardinality(B) \in Nat
  <2> HIDE DEF B
  <2> QED BY <1>3, FS_CardinalityType
<1>8. Cardinality({}) = 0
  BY FS_EmptySet
<1> QED
  <2> HIDE DEF A, B
  <2> QED BY <1>1, <1>4, <1>6, <1>7, <1>8 DEF B

Stakes(pos) == [c \in Coins |-> Stake(pos[c])]

LEMMA StakesCounted ==
  ASSUME NEW pos \in [Coins -> Position]
  PROVE  /\ UNION {{c} \X (1 .. Stake(pos[c])) : c \in Coins} = Units(Stakes(pos), Coins)
         /\ Cardinality(Units(Stakes(pos), Coins)) \in Nat
         /\ Stakes(pos) \in [Coins -> Nat]
         /\ \A c \in Coins: Stakes(pos)[c] = Stake(pos[c])
<1>1. ASSUME NEW c \in Coins PROVE Stakes(pos)[c] = Stake(pos[c]) /\ Stakes(pos)[c] \in Nat
  <2>1. pos[c].qty \in Nat /\ pos[c].price \in Nat /\ pos[c].margin \in Nat
    BY DEF Position
  <2>2. pos[c].qty * pos[c].price \in Nat
    BY <2>1, Product
  <2> QED BY <2>1, <2>2 DEF Stakes, Stake
<1>2. Units(Stakes(pos), Coins) = UNION {{c} \X (1 .. Stake(pos[c])) : c \in Coins}
  BY <1>1 DEF Units
<1>3. IsFiniteSet(Units(Stakes(pos), Coins))
  BY <1>1, BookAssumption, UnitsFinite
<1>4. Stakes(pos) \in [Coins -> Nat]
  BY <1>1 DEF Stakes
<1> QED BY <1>1, <1>2, <1>3, <1>4, FS_CardinalityType

\* When the stake of one coin changes, the sum changes by as much.
LEMMA OneStakeChanges ==
  ASSUME NEW old \in [Coins -> Nat], NEW new \in [Coins -> Nat], NEW c \in Coins,
         \A d \in Coins \ {c}: new[d] = old[d]
  PROVE  Cardinality(Units(new, Coins)) - new[c] = Cardinality(Units(old, Coins)) - old[c]
<1> DEFINE rest == Cardinality(Units(old, Coins \ {c}))
<1>1. Units(new, Coins \ {c}) = Units(old, Coins \ {c})
  BY DEF Units
<1>2. rest \in Nat /\ Cardinality(Units(old, Coins)) = old[c] + rest
  BY BookAssumption, UnitsSplit
<1>3. Cardinality(Units(new, Coins)) = new[c] + rest
  BY <1>1, BookAssumption, UnitsSplit
<1> HIDE DEF rest
<1> QED BY <1>2, <1>3

LEMMA CapitalType == Capital \in Nat
BY BookAssumption

LEMMA BalanceKept ==
  ASSUME Books, Books', Still \/ \E c \in Coins: Compensated(c), cash + AtStake = Capital + earned
  PROVE  cash' + AtStake' = Capital + earned'
<1>1. cash + AtStake = Capital + earned
  OBVIOUS
<1>2. /\ AtStake = Cardinality(Units(Stakes(positions), Coins)) /\ AtStake \in Nat
      /\ Stakes(positions) \in [Coins -> Nat]
      /\ \A c \in Coins: Stakes(positions)[c] = Stake(positions[c])
  BY StakesCounted DEF AtStake, Books
<1>3. /\ AtStake' = Cardinality(Units(Stakes(positions'), Coins)) /\ AtStake' \in Nat
      /\ Stakes(positions') \in [Coins -> Nat]
      /\ \A c \in Coins: Stakes(positions')[c] = Stake(positions'[c])
  BY StakesCounted DEF AtStake, Books
<1>4. /\ cash \in Int /\ earned \in Int /\ cash' \in Int /\ earned' \in Int
  BY DEF Books
<1>5. CASE Still
  <2>1. Units(Stakes(positions'), Coins) = Units(Stakes(positions), Coins)
    BY <1>5 DEF Still, Units, Stakes
  <2> QED BY <1>1, <1>2, <1>3, <1>5, <2>1 DEF Still
<1>6. ASSUME NEW c \in Coins, Compensated(c) PROVE cash' + AtStake' = Capital + earned'
  <2>1. \A d \in Coins \ {c}: Stakes(positions')[d] = Stakes(positions)[d]
    BY <1>2, <1>3, <1>6 DEF Compensated
  <2>2. AtStake' - Stakes(positions')[c] = AtStake - Stakes(positions)[c]
    BY <1>2, <1>3, <2>1, OneStakeChanges
  <2>3. /\ Stakes(positions')[c] = Stake(positions'[c]) /\ Stakes(positions')[c] \in Nat
        /\ Stakes(positions)[c] = Stake(positions[c]) /\ Stakes(positions)[c] \in Nat
    BY <1>2, <1>3
  <2>4. cash' + Stakes(positions')[c] - earned' = cash + Stakes(positions)[c] - earned
    BY <1>6, <2>3 DEF Compensated, Even
  <2>5. PICK m \in Nat, n \in Nat, x \in Nat, y \in Nat:
          /\ m = AtStake /\ n = AtStake'
          /\ x = Stakes(positions)[c] /\ y = Stakes(positions')[c]
    BY <1>2, <1>3, <2>3
  <2>6. PICK a \in Int, b \in Int, e \in Int, f \in Int:
          a = cash /\ b = cash' /\ e = earned /\ f = earned'
    BY <1>4
  <2>7. n - y = m - x /\ b + y - f = a + x - e /\ a + m = Capital + e
    BY <1>1, <2>2, <2>4, <2>5, <2>6
  <2>8. b + n = Capital + f
    BY <2>7, CapitalType
  <2> QED BY <2>5, <2>6, <2>8
<1> QED BY <1>5, <1>6

LEMMA BalanceStep ==
  ASSUME Books, Books', Balances, BooksBalance, oddities \subseteq oddities'
  PROVE  BooksBalance'
BY BalanceKept DEF Balances, BooksBalance

LEMMA BalanceInit == Init => BooksBalance
<1> SUFFICES ASSUME Init PROVE cash + AtStake = Capital + earned
  BY DEF BooksBalance
<1>1. \A c \in Coins: Stake(positions[c]) = 0
  BY FlatIsSound DEF Init
<1>2. UNION {{c} \X (1 .. Stake(positions[c])) : c \in Coins} = {}
  BY <1>1
<1>3. AtStake = 0
  BY <1>2, FS_EmptySet DEF AtStake
<1>4. Capital \in Int
  BY BookAssumption
<1> QED BY <1>3, <1>4 DEF Init

\* What has happened is not forgotten.
LEMMA OdditiesStay == ASSUME [Next]_vars PROVE oddities \subseteq oddities'
<1> USE DEF portfolio
<1>1. ASSUME NEW c \in Coins,
             \/ FillBuy(c) \/ FillSell(c) \/ FillOpenShort(c) \/ FillCloseShort(c) \/ Skip(c)
             \/ \E d \in Coins: OpportunitySell(c, d)
      PROVE  oddities \subseteq oddities'
  BY <1>1 DEF FillBuy, FillSell, FillOpenShort, FillCloseShort, Skip, OpportunitySell,
              ExecuteBuy, ExecuteOpenShort, ExecuteCloseShort
<1>2. ASSUME NEW c \in Coins, ForcedExit(c) PROVE oddities \subseteq oddities'
  BY <1>2 DEF ForcedExit, Liquidate, CloseDelisted
<1>3. ASSUME NEW c \in Coins, NEW kind \in {"stop", "profit"}, ExitFires(c, kind)
      PROVE  oddities \subseteq oddities'
  BY <1>3 DEF ExitFires
<1>4. ASSUME NEW c \in Coins, NEW action \in Actions, Decide(action, c)
      PROVE  oddities \subseteq oddities'
  BY <1>4 DEF Decide
<1>5. CASE FlushEnds \/ ForcedExitsEnd \/ ExitsEnd \/ BarEnds \/ Resume \/ UNCHANGED vars
  BY <1>5 DEF FlushEnds, ForcedExitsEnd, ExitsEnd, BarEnds, Resume, GoOn, vars
<1> QED BY <1>1, <1>2, <1>3, <1>4, <1>5 DEF Next

\* No money appears or vanishes: cash and stakes are the capital and the results
\* of the trades, for any coins, prices, lots, fees and partial fills, until a short
\* is written over, sold like a long position, delisted or restored as one.
THEOREM BooksAlwaysBalance == Spec => []BooksBalance
<1>1. Inv /\ BooksBalance /\ [Next]_vars => BooksBalance'
  <2> SUFFICES ASSUME Inv, BooksBalance, [Next]_vars PROVE BooksBalance'
    OBVIOUS
  <2>1. Inv' /\ (Balances \/ UNCHANGED vars)
    BY InvStep
  <2>2. Books /\ Books'
    BY <2>1 DEF Inv, TypeInv
  <2>3. CASE Balances
    BY <2>2, <2>3, OdditiesStay, BalanceStep
  <2>4. CASE UNCHANGED vars
    BY <2>4 DEF vars, portfolio, BooksBalance, AtStake
  <2> QED BY <2>1, <2>3, <2>4
<1> QED BY <1>1, BalanceInit, InvHolds, PTL DEF Spec
=============================================================================
