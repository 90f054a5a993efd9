SPECIFICATION FairSpec
CONSTANTS
    Generators <- MCSomeGenerators
    Copies <- MCSomeCopies
    V2 <- MCSomeV2
    Titles <- MCTitles
    Budget <- MCBudget
    Drafts <- MCDrafts
    Committed = "committed"
    Layouts <- MCLayouts
    Provisioned = "provisioning"
    Profiles <- MCProfiles
    MaxEdits = 1
    MaxCuts = 1
INVARIANTS
    BoardsAreSound
    CopiesAgree
    NothingBlankOnFull
    MissingIsNotHealthy
PROPERTIES
    ShownCatchesUp
