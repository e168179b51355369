\* Implementation and review of one candidate, as two items.
SPECIFICATION JoinSpec
CONSTANTS
    w1 = w1
    w2 = w2
    a1 = a1
    a2 = a2
    Actors = {a1, a2}
    Nobody = Nobody
    Items = {1, 2}
    Keys = {}
    NoKey = NoKey
    Leases = {1}
    MaxTime = 2
    MaxGeneration = 2
    Workers = {w1, w2}
    ActorOf <- Owner
    Scope <- ScopeOf
    Candidates = {c}
    NoCandidate = NoCandidate
    SelectionKeys = {k}
    MaxRevision = 0
INVARIANTS
    StandingPhasesApart
CHECK_DEADLOCK FALSE
