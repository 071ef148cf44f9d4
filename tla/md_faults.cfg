\* One client; the link drops at any point.
CONSTANTS
    c1 = c1
    c2 = c2
    i1 = i1
    i2 = i2
    Clients = {c1}
    Instruments = {i1, i2}
    Faults = {"drop"}
    EventBuffer = 16
    MaxOps = 4
    MaxFaults = 2
    MaxTicks = 1
    NoCommand = NoCommand
SPECIFICATION Spec
INVARIANTS FrontMatchesTable NoStraySubscription
CHECK_DEADLOCK FALSE
