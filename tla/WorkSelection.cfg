\* Two workers compete for one item with recommendations of every age, while
\* it lapses, is claimed past the join, released and annotated.
SPECIFICATION JoinSpec
CONSTANTS
    w1 = w1
    w2 = w2
    a1 = a1
    a2 = a2
    Actors = {a1, a2}
    Nobody = Nobody
    Items = {1}
    Keys = {}
    NoKey = NoKey
    Leases = {1, 2}
    MaxTime = 3
    MaxGeneration = 3
    Workers = {w1, w2}
    ActorOf <- Owner
    Scope <- ScopeOf
    Candidates = {c}
    NoCandidate = NoCandidate
    SelectionKeys = {k}
    MaxRevision = 1
INVARIANTS
    OneWinnerPerSnapshot
    ReplayedAcceptanceIsCurrent
PROPERTIES
    ImplementsFencedClaim
CHECK_DEADLOCK FALSE
