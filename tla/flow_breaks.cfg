\* One client whose connection breaks once, after its registration was acknowledged.
CONSTANTS
    c1 = c1
    c2 = c2
    o1 = o1
    o2 = o2
    Clients = {c1}
    Permission <- AllFull
    OrderIds = {o1}
    OrderRef <- Canonical
    IdsOf <- OwnIds
    Operations = {"Login", "PlaceOrder", "CancelOrder", "QueryAccount", "QueryPosition", "QueryOrders", "QueryTrades", "Logout"}
    Credentials = {"right"}
    Credential <- AllRight
    Faults = {}
    MaxCommands = 20
    MaxFaults = 0
    MaxRows = 1
    Queries <- TwoQueries
    MaxBreaks = 1
    BreakStages = {"Login", "LoginSent", "Loop", "LogoutSent"}
    Impatient = {c1}
    NoClient = NoClient
    NoId = NoId
    NoCommand = NoCommand
SPECIFICATION FlowSpec
INVARIANTS FlowTypeOK ExitLeavesNoOrder ReportsReachLatest
CHECK_DEADLOCK FALSE
