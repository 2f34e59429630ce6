\* A position bought at 4 with a trailing stop 2 below, in force at once; a fault of
\* one kind at any step, as often as it likes.
CONSTANTS
    Prices = {2, 6}
    EntryPrice = 4
    Distance = 2
    ActivationPrice = 4
    Faults = {"job", "db", "reply", "cancel", "newer order"}
    MaxFaults = 1
SPECIFICATION Spec
INVARIANTS TypeOK TriggeredHasTraded OtherLegGone
PROPERTIES StopNeverLoosens FillIsHandled
