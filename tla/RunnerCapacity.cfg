\* Two items of one project whose limit is one active run, and runner commands
\* under an idempotency key.
SPECIFICATION FairRunSpec
CONSTANTS
    Actors = {a1, a2}
    Nobody = Nobody
    Items = {i1, i2}
    Keys = {}
    NoKey = NoKey
    Leases = {1}
    MaxTime = 2
    MaxGeneration = 1
    Runs = {1, 2}
    Projects = {p}
    ProjectOf <- OneProject
    GlobalLimit = 2
    ProjectLimit = 1
    MaxAttempts = 2
    Backoff = 1
    CommandKeys = {c}
    MaxRunGeneration = 4
INVARIANTS
    ReplayedLeaseIsOwned
PROPERTIES
    PickupWithinCapacity
    LostRunsAreAbandoned
CHECK_DEADLOCK FALSE
