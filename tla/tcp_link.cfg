\* Any two faults around two operations and a close; one attempt may fail.
CONSTANTS
    i1 = i1
    i2 = i2
    Items = {i1}
    Faults = {"refuse", "drop", "frame", "write"}
    ConnectionMaxRetries = 2
    ReconnectMaxAttempts = 1
    Unlimited = Unlimited
    MaxOps = 2
    MaxFaults = 2
    DelayInitial = 2
    DelayMax = 3
    FactorNum = 3
    FactorDen = 2
    JitterMs = 1
SPECIFICATION FairSpec
INVARIANTS TypeOK ServerKnowsWanted SameConnection OneReader
PROPERTIES DelaysGrow NoHotLoop RecoversUnlessStranded CloseReturns
CHECK_DEADLOCK FALSE
