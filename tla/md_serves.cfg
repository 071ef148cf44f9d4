\* Whatever the client and the link do, the session is served.
CONSTANTS
    c1 = c1
    c2 = c2
    i1 = i1
    i2 = i2
    Clients = {c1}
    Instruments = {i1}
    Faults = {"drop", "heartbeat", "again", "reconnect", "reset"}
    EventBuffer = 16
    MaxOps = 4
    MaxFaults = 2
    MaxTicks = 1
    NoCommand = NoCommand
SPECIFICATION FairSpec
INVARIANTS LoggedInIsTrue
PROPERTIES LoginRecovers EveryCommandServed
CHECK_DEADLOCK FALSE
