\* Leases of at most 2 in 3 units of time, so that one can lapse, be renewed
\* in time or late, and be taken again by a reservation or an enrolment.
SPECIFICATION FairSpec
CONSTANTS
    Owners = {o1}
    Sessions = {s1, s2}
    Runs = {r1}
    Names = {"Red Fox", "red-fox", "?"}
    CollisionKey <- MCCollisionKey
    LeaseIds = {1, 2}
    EnrolmentIds = {1, 2}
    Keys = {1, 2}
    EnrolKeys = {1, 2}
    MaxLease = 2
    MaxTime = 3
    None = None
INVARIANTS
    NoInvariantError
    GenerationNamesLease
    EnrolmentKeepsCallsign
PROPERTIES
    RunningLeaseEndsByHolder
    LapsedEnds
CHECK_DEADLOCK FALSE
