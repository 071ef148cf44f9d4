\* Two clients share the account; the link holds, whatever the front rejects.
CONSTANTS
    c1 = c1
    c2 = c2
    Clients = {c1, c2}
    Permission <- AllFull
    OrderIds <- PlainAndOther
    OrderRef <- Normalized
    IdsOf <- OwnIds
    Operations = {"Login", "PlaceOrder", "CancelOrder", "QueryAccount", "QueryPosition", "Logout"}
    Credentials = {"right"}
    Faults = {"queryReject", "cancelReject", "orderReject", "heartbeat", "connect"}
    MaxCommands = 4
    MaxFaults = 1
    MaxRows = 2
    NoClient = NoClient
    NoId = NoId
    NoCommand = NoCommand
SPECIFICATION FairSpec
INVARIANTS TypeOK ReportsReachOwner CancelNamesLiveSession QueryHasAnswer CompleteResults
PROPERTIES EveryCommandServed
CHECK_DEADLOCK FALSE
