\* One code beside the rows of an earlier release: the root, its successor and
\* one more, deleted one at a time, and two clients for one place.
SPECIFICATION OAuthFairSpec
CONSTANTS
    Accounts = {a1}
    CodeIds = {1}
    TokenIds = {1, 2, 3}
    MaxCode = 1
    MaxRefresh = 2
    Batch = 1
    MaxTime = 3
    None = None
    Clients = {k1, k2}
    LegacyClient = k2
    MaxClients = 1
    UnusedLife = 1
INVARIANTS
    OneLiveToken
    LineageIsBounded
    ReferencedClientStays
    UnusedClientHasCall
PROPERTIES
    ReplayEndsFamily
    FamilyIsCleaned
CHECK_DEADLOCK FALSE
