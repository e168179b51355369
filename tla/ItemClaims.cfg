\* Two actors compete for one item, with two retryable requests, leases that
\* outlast each other, and time for the longest to lapse and be granted again.
SPECIFICATION FairSpec
CONSTANTS
    Actors = {a1, a2}
    Nobody = Nobody
    Items = {i1}
    Keys = {k1, k2}
    NoKey = NoKey
    Leases = {1, 2}
    MaxTime = 4
    MaxGeneration = 4
INVARIANTS
    TypeOK
    ClaimHasTimer
    KeysUnique
    KeyedGrantNamesHolder
PROPERTIES
    OnlyHolderEndsLiveClaim
    FenceAdvances
    LapsedClaimReclaimed
    ImplementsFencedClaim
CHECK_DEADLOCK FALSE
