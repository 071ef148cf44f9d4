\* The link drops twice around logins, orders and logouts.
CONSTANTS
    c1 = c1
    c2 = c2
    Clients = {c1}
    Permission <- AllFull
    OrderIds <- PlainIds
    OrderRef <- Normalized
    IdsOf <- OwnIds
    Operations = {"Login", "PlaceOrder", "Logout"}
    Credentials = {"right"}
    Faults = {"drop"}
    MaxCommands = 4
    MaxFaults = 2
    MaxRows = 1
    NoClient = NoClient
    NoId = NoId
    NoCommand = NoCommand
SPECIFICATION FairSpec
INVARIANTS LoggedInIsTrue
PROPERTIES EveryCommandServed
CHECK_DEADLOCK FALSE
