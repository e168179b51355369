\* A supervisor finishes a queued run and nobody touches the item again.
SPECIFICATION FairRunSpec
CONSTANTS
    Actors = {a1}
    Nobody = Nobody
    Items = {i1}
    Keys = {}
    NoKey = NoKey
    Leases = {1, 2}
    MaxTime = 3
    MaxGeneration = 2
    Runs = {1}
    Projects = {p}
    ProjectOf <- OneProject
    GlobalLimit = 1
    ProjectLimit = 1
    MaxAttempts = 2
    Backoff = 1
    CommandKeys = {}
    MaxRunGeneration = 3
PROPERTIES
    LapsedClaimReclaimed
CHECK_DEADLOCK FALSE
