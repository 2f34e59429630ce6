\* An order is placed and the record of it fails.
CONSTANTS
    Tokens = {c1, c2}
    NoToken = NoToken
    LeaseTtl = 2
    Users = {u1}
    Admins = {a1}
    CycleLimit = 1
    MaxFaults = 1
    Faults = {"tracking"}
SPECIFICATION Spec
PROPERTIES TradedOnce
