\* The client reconnects without a limit, as ClientConnection configures it.
CONSTANTS
    i1 = i1
    i2 = i2
    Items = {i1}
    Faults = {"refuse", "drop", "frame", "write"}
    ConnectionMaxRetries = 2
    ReconnectMaxAttempts = Unlimited
    Unlimited = Unlimited
    MaxOps = 1
    MaxFaults = 2
    DelayInitial = 2
    DelayMax = 3
    FactorNum = 3
    FactorDen = 2
    JitterMs = 1
SPECIFICATION FairSpec
PROPERTIES Reconnects
CHECK_DEADLOCK FALSE
