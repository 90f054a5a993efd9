SPECIFICATION PatientSpec
CONSTANTS
    Calls = {c1, c2}
    Inventory <- MCInventory
    Hosts <- MCHosts
    Requests <- MCRequests
    Token <- MCToken
    AllowedHosts = {"127.0.0.1", "localhost"}
    AllowedOrigins = {}
    Insecure = FALSE
    Serial = TRUE
    Parts = {p1, p2}
    MaxRelease = 2
    MaxStops = 1
INVARIANTS
    OnlyOnRequest
    InstalledWasStaged
    ToldMeansOver
    PayloadIsOwn
    LastSetupIsInForce
PROPERTIES
    NeverDowngrades
    CallsEnd
CHECK_DEADLOCK FALSE
