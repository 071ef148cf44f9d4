\* Two clients of one account, the second may only query; connections that
\* hold and a front that does its work.
CONSTANTS
    c1 = c1
    c2 = c2
    o1 = o1
    o2 = o2
    Clients = {c1, c2}
    Permission <- SecondQueries
    OrderIds = {o1, o2}
    OrderRef <- Canonical
    IdsOf <- OwnIds
    Operations = {"Login", "PlaceOrder", "CancelOrder", "QueryAccount", "QueryPosition", "QueryOrders", "QueryTrades", "Logout"}
    Credentials = {"right"}
    Credential <- AllRight
    Faults = {}
    MaxCommands = 20
    MaxFaults = 0
    MaxRows = 1
    Queries <- OneQuery
    MaxBreaks = 0
    BreakStages = {}
    Impatient = {}
    NoClient = NoClient
    NoId = NoId
    NoCommand = NoCommand
SPECIFICATION FairFlow
INVARIANTS ExitLeavesNoOrder ExitsWhenTold
PROPERTIES CompletesUnlessOvertaken KeepsToSession
CHECK_DEADLOCK FALSE
