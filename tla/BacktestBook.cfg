\* Two coins over four bars, every kind of signal, a resumption after any bar.
CONSTANTS
    Coins = {c1, c2}
    Prices = {2, 4}
    Lots = {1, 2}
    Leverages = {2}
    Capital = 9
    FeeDivisor = 4
    PenaltyDivisor = 2
    CooldownBars = 2
    DelistingBars = {3, 9}
    Actions = {"BUY", "SELL", "OPEN_SHORT", "CLOSE_SHORT"}
    NumBars = 4
    MaxSignals = 1
SPECIFICATION Spec
INVARIANTS TypeOK BooksBalance NeverOverdrawn HeldIsTracked
PROPERTIES CooldownHolds
CHECK_DEADLOCK FALSE
