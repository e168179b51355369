\* One item that runners and claimants share: long enough for a run to fail,
\* be retried and use up its budget, and for a second run to follow it.
SPECIFICATION RunSpec
CONSTANTS
    Actors = {a1, a2}
    Nobody = Nobody
    Items = {i1}
    Keys = {}
    NoKey = NoKey
    Leases = {1, 2}
    MaxTime = 3
    MaxGeneration = 3
    Runs = {1, 2}
    Projects = {p}
    ProjectOf <- OneProject
    GlobalLimit = 1
    ProjectLimit = 1
    MaxAttempts = 2
    Backoff = 1
    CommandKeys = {}
    MaxRunGeneration = 5
INVARIANTS
    OneOpenRunPerItem
    RetryBudget
PROPERTIES
    LeaseGenerationNamesOwner
    FinishedIsFinal
    RunsRespectForeignClaims
    NewClaimantIsFenced
SYMMETRY ActorSymmetry
CHECK_DEADLOCK FALSE
