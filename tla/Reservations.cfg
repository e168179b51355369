\* Three reservations, so that two can fill a capacity of 2
\* while a third lapses and is swept, or has to be refused.
SPECIFICATION FairSpec
CONSTANTS
    Actors = {a1, a2}
    Resources = {db}
    Rows = {1, 2, 3}
    Capacities = {1, 2}
    Leases = {1, 2}
    MaxTime = 3
    NoActor = NoActor
    NoResource = NoResource
INVARIANTS
    ExclusiveIsAlone
    WithinCapacity
PROPERTIES
    RunningEndsByRelease
    LapsedReservationEnds
CHECK_DEADLOCK FALSE
