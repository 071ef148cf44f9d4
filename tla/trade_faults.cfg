\* One client, every kind of fault, any two of them.
CONSTANTS
    c1 = c1
    c2 = c2
    Clients = {c1}
    Permission <- AllFull
    OrderIds <- PlainAndMarked
    OrderRef <- Normalized
    IdsOf <- MarkedIds
    Operations = {"Login", "PlaceOrder", "CancelOrder", "QueryAccount", "QueryOrders", "Logout"}
    Credentials = {"right"}
    Faults = {"connect", "flow", "drop", "loginReject", "secondLogin", "orderReject",
              "cancelReject", "queryReject", "rspError", "heartbeat"}
    MaxCommands = 4
    MaxFaults = 2
    MaxRows = 1
    NoClient = NoClient
    NoId = NoId
    NoCommand = NoCommand
SPECIFICATION Spec
INVARIANTS LiveOrdersRegistered ReleasedSessionIsClean OneQueryInFlight
PROPERTIES RegistryOutlivesCommands ImplementsService
CHECK_DEADLOCK FALSE
