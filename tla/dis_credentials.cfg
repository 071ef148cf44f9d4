\* A first login with a wrong password, a second with the right one.
CONSTANTS
    c1 = c1
    c2 = c2
    Clients = {c1}
    Permission <- AllFull
    OrderIds <- PlainIds
    OrderRef <- Normalized
    IdsOf <- OwnIds
    Operations = {"Login", "PlaceOrder", "Logout"}
    Credentials = {"right", "wrong"}
    Faults = {}
    MaxCommands = 3
    MaxFaults = 0
    MaxRows = 1
    NoClient = NoClient
    NoId = NoId
    NoCommand = NoCommand
SPECIFICATION FairSpec
PROPERTIES LoginAnswered
CHECK_DEADLOCK FALSE
