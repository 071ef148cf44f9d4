\* Two clients come, subscribe and go; the front, the link and the API may
\* fail, and the event channel holds two.
CONSTANTS
    c1 = c1
    c2 = c2
    i1 = i1
    i2 = i2
    Clients = {c1, c2}
    Instruments = {i1}
    Faults = {"connect", "flow", "drop", "loginReject", "subscribeReject", "rspError", "heartbeat"}
    EventBuffer = 2
    MaxOps = 6
    MaxFaults = 1
    MaxTicks = 1
    NoCommand = NoCommand
SPECIFICATION Spec
INVARIANTS TypeOK ClientsServed
PROPERTIES TicksAreWanted
SYMMETRY Symmetric
CHECK_DEADLOCK FALSE
