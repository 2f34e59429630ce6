\* An exit order that has traded only in part is synchronised; no faults.
CONSTANTS
    Prices = {1, 4, 5}
    EntryPrice = 3
    Distance = 2
    ActivationPrice = 4
    Faults = {}
    MaxFaults = 0
SPECIFICATION Spec
INVARIANTS ReportedIsFilled
