\* A claimant renews its claim while the run dispatched with it lapses.
SPECIFICATION FairRunSpec
CONSTANTS
    Actors = {a1}
    Nobody = Nobody
    Items = {i1}
    Keys = {}
    NoKey = NoKey
    Leases = {1, 2}
    MaxTime = 3
    MaxGeneration = 2
    Runs = {1}
    Projects = {p}
    ProjectOf <- OneProject
    GlobalLimit = 1
    ProjectLimit = 1
    MaxAttempts = 2
    Backoff = 1
    CommandKeys = {}
    MaxRunGeneration = 3
PROPERTIES
    ExpirySparesRenewedClaims
CHECK_DEADLOCK FALSE
