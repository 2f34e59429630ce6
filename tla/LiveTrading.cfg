\* Two cycles, one user, one admin, a fault of one kind at any step.
CONSTANTS
    Tokens = {c1, c2}
    NoToken = NoToken
    LeaseTtl = 2
    Users = {u1}
    Admins = {a1}
    CycleLimit = 1
    MaxFaults = 1
    Faults = {"outage", "cooldown", "save", "tracking", "overlap"}
SPECIFICATION Spec
INVARIANTS LeaseHonoured SavedHaltIsSeen
PROPERTIES RecordedTradedOnce HaltStops TradingGoesOn
