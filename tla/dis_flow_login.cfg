\* One client, connections that hold, a front that does its work.
CONSTANTS
    c1 = c1
    c2 = c2
    o1 = o1
    o2 = o2
    Clients = {c1}
    Permission <- AllFull
    OrderIds = {o1}
    OrderRef <- Canonical
    IdsOf <- OwnIds
    Operations = {"Login", "PlaceOrder", "CancelOrder", "QueryAccount", "QueryPosition", "QueryOrders", "QueryTrades", "Logout"}
    Credentials = {"right"}
    Credential <- AllRight
    Faults = {}
    MaxCommands = 20
    MaxFaults = 0
    MaxRows = 1
    Queries <- FourQueries
    MaxBreaks = 0
    BreakStages = {}
    Impatient = {}
    NoClient = NoClient
    NoId = NoId
    NoCommand = NoCommand
SPECIFICATION FairFlow
PROPERTIES Completes
CHECK_DEADLOCK FALSE
