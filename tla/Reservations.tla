---------------------------- MODULE Reservations ----------------------------
(***************************************************************************)
(* Resource reservations, convex/reservations.ts: exclusive ones, and      *)
(* shared ones that divide a capacity the callers have to agree on.  As in *)
(* ItemClaims a mutation is one action, a mutation that throws is none,    *)
(* and scheduled expiry functions run at or after their time.              *)
(***************************************************************************)
EXTENDS Integers, FiniteSetsExt

CONSTANTS
    Actors,
    Resources,
    Rows,           \* ids of the rows that may be inserted, in insertion order
    Capacities,     \* capacities callers pass
    Leases,         \* lease lengths callers pass
    MaxTime,        \* bound: the clock stops here
    NoActor,        \* holder and resource of a row not inserted yet
    NoResource

ASSUME CapacitiesAssumption == Capacities \subseteq Nat \ {0}
ASSUME LeasesAssumption == Leases \subseteq Nat \ {0}
ASSUME RowsAssumption == Rows \subseteq Nat
ASSUME MaxTimeAssumption == MaxTime \in Nat
ASSUME NullAssumption == NoActor \notin Actors /\ NoResource \notin Resources

VARIABLES
    rows,       \* rows[r]: the reservation row with id r
    timers,     \* reservations:expireScheduled calls still owed
    now         \* Date.now()

vars == <<rows, timers, now>>

Row == [status : {"free", "active", "released", "expired"},
        resource : Resources \cup {NoResource},
        mode : {"exclusive", "shared"},
        capacity : Nat, units : Nat,
        holder : Actors \cup {NoActor},
        generation : Nat, expiresAt : Nat]

Timer == [row : Rows, generation : Nat, at : Nat]

Free == [status |-> "free", resource |-> NoResource, mode |-> "exclusive",
         capacity |-> 0, units |-> 0, holder |-> NoActor,
         generation |-> 0, expiresAt |-> 0]

\* The patch that ends a reservation.
Ended(row, st) ==
    [status |-> st, resource |-> row.resource, mode |-> row.mode,
     capacity |-> row.capacity, units |-> row.units, holder |-> row.holder,
     generation |-> row.generation + 1, expiresAt |-> row.expiresAt]

Init ==
    /\ rows = [r \in Rows |-> Free]
    /\ timers = {}
    /\ now = 1

ActiveOn(res) == {r \in Rows : rows[r].status = "active" /\ rows[r].resource = res}

\* Mutant: a reservation about to lapse is taken for lapsed.
LiveOnOffByOne(res) == {r \in ActiveOn(res) : rows[r].expiresAt > now + 1}

LiveOn(res) == {r \in ActiveOn(res) : rows[r].expiresAt > now}

UnitsOf(S) == MapThenSumSet(LAMBDA r : rows[r].units, S)

-----------------------------------------------------------------------------
\* Mutants: exclusive looks only for exclusive; the units asked for are not
\* counted.
AdmitsBesideShared(live, mode, capacity, units) ==
    \/ mode = "exclusive" /\ \A r \in live : rows[r].mode # "exclusive"
    \/ /\ mode = "shared"
       /\ \A r \in live : rows[r].mode # "exclusive" /\ rows[r].capacity = capacity
       /\ UnitsOf(live) + units <= capacity

AdmitsUncounted(live, mode, capacity, units) ==
    \/ mode = "exclusive" /\ live = {}
    \/ /\ mode = "shared"
       /\ \A r \in live : rows[r].mode # "exclusive" /\ rows[r].capacity = capacity
       /\ UnitsOf(live) < capacity

\* Whether `units' more fit beside the reservations still running.
Admits(live, mode, capacity, units) ==
    \/ mode = "exclusive" /\ live = {}
    \/ /\ mode = "shared"
       /\ \A r \in live : rows[r].mode # "exclusive" /\ rows[r].capacity = capacity
       /\ UnitsOf(live) + units <= capacity

(* acquire: expires what ran out on the resource, then inserts a row. *)
Acquire(a, res, mode, capacity, units, lease, new) ==
    LET live == LiveOn(res)
        stale == ActiveOn(res) \ live
        row == [status |-> "active", resource |-> res, mode |-> mode,
                capacity |-> capacity, units |-> units, holder |-> a,
                generation |-> 1, expiresAt |-> now + lease]
    IN  /\ units <= capacity
        /\ mode = "exclusive" => capacity = 1 /\ units = 1
        /\ Admits(live, mode, capacity, units)
        /\ rows[new].status = "free"
        /\ \A r \in Rows : r < new => rows[r].status # "free"
        /\ rows' = [r \in Rows |-> IF r = new THEN row
                                   ELSE IF r \in stale THEN Ended(rows[r], "expired")
                                   ELSE rows[r]]
        /\ timers' = timers \cup {[row |-> new, generation |-> 1, at |-> now + lease]}
        /\ UNCHANGED now

(* release: the holder's alone; releasing an ended reservation is a no-op. *)
Release(a, r) ==
    /\ rows[r].holder = a
    /\ rows[r].status = "active"
    /\ rows' = [rows EXCEPT ![r] = Ended(rows[r], "released")]
    /\ UNCHANGED <<timers, now>>

\* Mutant: a call that runs exactly at the expiry does nothing.
ExpireScheduledStrict(tm) ==
    LET row == rows[tm.row]
    IN  /\ tm \in timers
        /\ tm.at <= now
        /\ timers' = timers \ {tm}
        /\ rows' = IF row.status = "active" /\ row.generation = tm.generation
                      /\ row.expiresAt < now
                   THEN [rows EXCEPT ![tm.row] = Ended(row, "expired")]
                   ELSE rows
        /\ UNCHANGED now

(* expireScheduled *)
ExpireScheduled(tm) ==
    LET row == rows[tm.row]
    IN  /\ tm \in timers
        /\ tm.at <= now
        /\ timers' = timers \ {tm}
        /\ rows' = IF /\ row.status = "active"
                      /\ row.generation = tm.generation
                      /\ row.expiresAt <= now
                   THEN [rows EXCEPT ![tm.row] = Ended(row, "expired")]
                   ELSE rows
        /\ UNCHANGED now

Tick == now < MaxTime /\ now' = now + 1 /\ UNCHANGED <<rows, timers>>

Acquires ==
    \E a \in Actors, res \in Resources, mode \in {"exclusive", "shared"},
       capacity \in Capacities, lease \in Leases, new \in Rows :
       \E units \in 1..capacity : Acquire(a, res, mode, capacity, units, lease, new)

Releases == \E a \in Actors, r \in Rows : Release(a, r)

TimerSteps == \E tm \in timers : ExpireScheduled(tm)

Next == Acquires \/ Releases \/ TimerSteps \/ Tick

Spec == Init /\ [][Next]_vars

\* The scheduler eventually runs every call it was given.
FairSpec ==
    /\ Spec
    /\ \A r \in Rows : WF_vars(\E tm \in timers : tm.row = r /\ ExpireScheduled(tm))

-----------------------------------------------------------------------------
TypeOK ==
    /\ rows \in [Rows -> Row]
    /\ timers \subseteq Timer
    /\ now \in Nat

Running(r) == rows[r].status = "active" /\ rows[r].expiresAt > now

\* An exclusive reservation that is running is alone on its resource, however
\* reservations lapse, are released and are taken again around it; the shared
\* ones running together agree on the capacity they divide.
ExclusiveIsAlone ==
    \A r, s \in Rows :
        Running(r) /\ Running(s) /\ r # s /\ rows[r].resource = rows[s].resource
        => /\ rows[r].mode = "shared" /\ rows[s].mode = "shared"
           /\ rows[r].capacity = rows[s].capacity

\* The reservations running on a resource never use more than the capacity
\* any of them was granted against.
WithinCapacity ==
    \A res \in Resources : \A r \in LiveOn(res) :
        UnitsOf(LiveOn(res)) <= rows[r].capacity

\* Every active reservation, running or lapsed, still has its expiry call.
ReservationHasTimer ==
    \A r \in Rows : rows[r].status = "active" =>
        [row |-> r, generation |-> rows[r].generation,
         at |-> rows[r].expiresAt] \in timers

\* A running reservation ends only by its holder's release: not by another
\* caller's acquire sweeping the resource and not by an expiry call.  An
\* ended one stays ended.
RunningEndsByRelease ==
    [][\A r \in Rows :
          /\ Running(r) /\ rows'[r] # rows[r] => Release(rows[r].holder, r)
          /\ rows[r].status \in {"released", "expired"} => rows'[r] = rows[r]]_vars

\* A reservation that ran out is eventually recorded as ended although nobody
\* asks for the resource again.
LapsedReservationEnds ==
    \A r \in Rows :
        (rows[r].status = "active" /\ rows[r].expiresAt <= now)
            ~> rows[r].status # "active"
=============================================================================
