SPECIFICATION FairSpec
CONSTANTS
    Routers = {r1, r2}
    Red = 2
    MaxChanges = 2
INVARIANTS
    OffloadIsNoticed
    CollectedIsCollected
    GreenCoversAll
PROPERTIES
    OutageIsVisible
    OffloadSuppresses
