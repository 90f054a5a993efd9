SPECIFICATION TimedSpec
CONSTANTS
    Calls = {c1}
    Inventory <- MCInventory
    Hosts <- MCHosts
    Requests <- SetupOnly
    Token <- MCToken
    AllowedHosts = {"127.0.0.1", "localhost"}
    AllowedOrigins = {}
    Insecure = FALSE
    Serial = TRUE
    Parts = {p1, p2}
    MaxRelease = 2
    MaxStops = 1
PROPERTIES
    CallsEnd
CHECK_DEADLOCK FALSE
