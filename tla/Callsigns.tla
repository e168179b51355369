------------------------------ MODULE Callsigns ------------------------------
(***************************************************************************)
(* Callsign leases (convex/callsignLeases.ts) and the worker enrolments    *)
(* that take one with them (convex/workerEnrolments.ts).  Two files write  *)
(* the same table under the same rule: a callsign has one active lease.    *)
(* A mutation is one action; one that throws, or that finds its key        *)
(* answered and returns the stored result, changes nothing and is none.    *)
(* A rejection is an answer like another: it is stored under its key and   *)
(* commits the expiries the mutation made on its way to it.                *)
(***************************************************************************)
EXTENDS Integers, FiniteSets

CONSTANTS
    Owners,         \* (actor, client) pairs that enrol workers
    Sessions,       \* worker session ids
    Runs,           \* run ids reservations are made for
    Names,          \* callsigns as callers write them
    CollisionKey,   \* CollisionKey[n]: what a name is compared by; None: invalid
    LeaseIds,       \* ids of the lease rows, in insertion order
    EnrolmentIds,   \* ids of the enrolment rows, in insertion order
    Keys,           \* keys of callsign commands, in the order of first use
    EnrolKeys,      \* keys of enrolment commands, in the order of first use
    MaxLease,       \* MAX_HOSTED_CALLSIGN_LEASE_SECONDS
    MaxTime,        \* bound: the clock stops here
    None

ASSUME IdsAssumption ==
    /\ LeaseIds \subseteq Nat /\ EnrolmentIds \subseteq Nat
    /\ Keys \subseteq Nat /\ EnrolKeys \subseteq Nat
ASSUME TimeAssumption == MaxLease \in Nat /\ MaxTime \in Nat
ASSUME NamesAssumption == CollisionKey = [n \in Names |-> CollisionKey[n]]
ASSUME NoneAssumption ==
    /\ None \notin Names /\ None \notin Sessions /\ None \notin Runs /\ None \notin Owners
    /\ None \notin LeaseIds /\ None \notin EnrolmentIds

VARIABLES
    leases,          \* the callsignLeases rows
    enrolments,      \* the workerEnrolments rows
    answered,        \* keys with a row in callsignLeaseCommands
    enrolAnswered,   \* <<owner, key>> with a row in workerEnrolmentCommands
    leaseTimers,     \* callsignLeases:expireScheduled calls still owed
    enrolmentTimers, \* workerEnrolments:expireScheduled calls still owed
    now              \* Date.now()

vars == <<leases, enrolments, answered, enrolAnswered, leaseTimers,
          enrolmentTimers, now>>

Statuses == {"free", "active", "released", "expired"}

Lease == [status : Statuses, name : Names \cup {None},
          session : Sessions \cup {None}, run : Runs \cup {None},
          enrolment : EnrolmentIds \cup {None}, generation : Nat,
          request : (Owners \cup {None}) \X (Keys \cup EnrolKeys \cup {0}), expiresAt : Nat]

Enrolment == [status : Statuses, owner : Owners \cup {None},
              session : Sessions \cup {None}, lease : LeaseIds \cup {None},
              generation : Nat, expiresAt : Nat]

FreeLease == [status |-> "free", name |-> None, session |-> None, run |-> None,
              enrolment |-> None, generation |-> 0, request |-> <<None, 0>>, expiresAt |-> 0]

FreeEnrolment == [status |-> "free", owner |-> None, session |-> None,
                  lease |-> None, generation |-> 0, expiresAt |-> 0]

LeaseTimer == [lease : LeaseIds, generation : Nat, at : Nat]
EnrolmentTimer == [enrolment : EnrolmentIds, at : Nat]

Init ==
    /\ leases = [l \in LeaseIds |-> FreeLease]
    /\ enrolments = [e \in EnrolmentIds |-> FreeEnrolment]
    /\ answered = {} /\ enrolAnswered = {}
    /\ leaseTimers = {} /\ enrolmentTimers = {}
    /\ now = 1

\* The id the next insert gives out.
NextFree(rows, i) == /\ rows[i].status = "free"
                     /\ \A j \in DOMAIN rows : j < i => rows[j].status # "free"

-----------------------------------------------------------------------------
\* A lease row has one of the generations its callsign can reach.
Generations == 1..Cardinality(LeaseIds)

\* Mutant: names are compared as they are written.
SameNameExact(n, m) == n = m

\* Two names that the collision key does not tell apart.
SameName(n, m) == CollisionKey[n] = CollisionKey[m]

Of(name) == {l \in LeaseIds : leases[l].status # "free" /\ SameName(leases[l].name, name)}

ActiveOn(name) == {l \in Of(name) : leases[l].status = "active"}

LapsedLeases == {l \in LeaseIds : leases[l].status = "active" /\ leases[l].expiresAt <= now}

\* Mutant: the newest row inserted for the name counts, active ones aside.
IsMaximumGenerationOfEnded(name, g) ==
    LET gs == {0} \cup {leases[l].generation : l \in {m \in Of(name) : leases[m].status = "released"}}
    IN  g \in gs /\ \A h \in gs : h <= g

\* The newest generation given out for a callsign, 0 for none.
IsMaximumGeneration(name, g) ==
    LET gs == {0} \cup {leases[l].generation : l \in Of(name)}
    IN  g \in gs /\ \A h \in gs : h <= g

\* The leases after those in L ended as st.
LeasesEnded(L, st) ==
    [l \in LeaseIds |-> IF l \in L THEN [leases[l] EXCEPT !.status = st] ELSE leases[l]]

\* The active lease an enrolment carries (the code throws on a foreign one).
Attached(e) == {l \in LeaseIds : enrolments[e].lease = l /\ leases[l].status = "active"}

Bound(e) ==
    \A l \in Attached(e) : /\ leases[l].enrolment = e
                           /\ leases[l].session = enrolments[e].session
                           /\ leases[l].generation = enrolments[e].generation

EnrolmentsEnded(E, st) ==
    [e \in EnrolmentIds |-> IF e \in E THEN [enrolments[e] EXCEPT !.status = st]
                                       ELSE enrolments[e]]

ActiveFor(o, s) == {e \in EnrolmentIds : /\ enrolments[e].status = "active"
                                         /\ enrolments[e].owner = o
                                         /\ enrolments[e].session = s}

LapsedEnrolments == {e \in EnrolmentIds : /\ enrolments[e].status = "active"
                                          /\ enrolments[e].expiresAt <= now}

-----------------------------------------------------------------------------
(* callsignLeases.reserve.  `expected' is the optional expectedGeneration, *)
(* `inherits' whether an inheritance is asked for.                         *)
Reserve(k, name, s, run, expiresAt, expected, inherits) ==
    LET swept == ActiveOn(name) \cap LapsedLeases
        live == ActiveOn(name) \ LapsedLeases
    IN  /\ k \notin answered
        /\ CollisionKey[name] # None
        /\ Cardinality(ActiveOn(name)) <= 1
        /\ \E g \in Generations \cup {0} :
            /\ IsMaximumGeneration(name, g)
            /\ IF \/ inherits
                  \/ expiresAt <= now
                  \/ expiresAt > now + MaxLease
                  \/ live # {}
                  \/ expected # None /\ expected # g
               THEN /\ leases' = LeasesEnded(swept, "expired")
                    /\ UNCHANGED leaseTimers
               ELSE \E new \in LeaseIds :
                    /\ NextFree(leases, new)
                    /\ leases' = [LeasesEnded(swept, "expired") EXCEPT ![new] =
                           [status |-> "active", name |-> name, session |-> s, run |-> run,
                            enrolment |-> None, generation |-> g + 1, request |-> <<None, k>>,
                            expiresAt |-> expiresAt]]
                    /\ leaseTimers' = leaseTimers \cup
                           {[lease |-> new, generation |-> g + 1, at |-> expiresAt]}
        /\ answered' = answered \cup {k}
        /\ UNCHANGED <<enrolments, enrolAnswered, enrolmentTimers, now>>

\* Mutant: the run is not compared.
HolderBySession(l, s, run, g) ==
    /\ leases[l].status = "active" /\ leases[l].expiresAt > now
    /\ leases[l].session = s
    /\ leases[l].generation = g

\* validateHeldActiveLease, once a lapsed lease is reconciled.  A lease an
\* enrolment took has no run, so nobody is its holder here.
Holder(l, s, run, g) ==
    /\ leases[l].status = "active" /\ leases[l].expiresAt > now
    /\ leases[l].session = s /\ leases[l].run = run
    /\ leases[l].generation = g

\* Mutant: a renewal may move the expiry back.
RenewableUnordered(l, expiresAt) == expiresAt > now /\ expiresAt <= now + MaxLease

\* renewalExpiryRejection finds nothing.
Renewable(l, expiresAt) ==
    expiresAt > now /\ expiresAt <= now + MaxLease /\ expiresAt > leases[l].expiresAt

(* callsignLeases.renew: the generation stays, a further timer is added. *)
Renew(k, l, s, run, g, expiresAt) ==
    /\ k \notin answered
    /\ IF Holder(l, s, run, g) /\ Renewable(l, expiresAt)
       THEN /\ leases' = [leases EXCEPT ![l].expiresAt = expiresAt]
            /\ leaseTimers' = leaseTimers \cup {[lease |-> l, generation |-> g, at |-> expiresAt]}
       ELSE /\ leases' = LeasesEnded({l} \cap LapsedLeases, "expired")
            /\ UNCHANGED leaseTimers
    /\ answered' = answered \cup {k}
    /\ UNCHANGED <<enrolments, enrolAnswered, enrolmentTimers, now>>

(* callsignLeases.release *)
Release(k, l, s, run, g) ==
    /\ k \notin answered
    /\ leases' = IF Holder(l, s, run, g) THEN LeasesEnded({l}, "released")
                 ELSE LeasesEnded({l} \cap LapsedLeases, "expired")
    /\ answered' = answered \cup {k}
    /\ UNCHANGED <<enrolments, enrolAnswered, leaseTimers, enrolmentTimers, now>>

(* callsignLeases.get and getCurrent: a read that expires what lapsed. *)
ReadLease(l) ==
    /\ l \in LapsedLeases
    /\ leases' = LeasesEnded({l}, "expired")
    /\ UNCHANGED <<enrolments, answered, enrolAnswered, leaseTimers, enrolmentTimers, now>>

\* Mutant: a call that runs at the expiry is taken for early.
ExpireLeaseStrict(tm) ==
    /\ tm \in leaseTimers /\ tm.at <= now
    /\ leaseTimers' = leaseTimers \ {tm}
    /\ leases' = LeasesEnded({l \in {tm.lease} \cap LapsedLeases :
                                leases[l].expiresAt < now}, "expired")
    /\ UNCHANGED <<enrolments, answered, enrolAnswered, enrolmentTimers, now>>

(* callsignLeases.expireScheduled *)
ExpireLease(tm) ==
    /\ tm \in leaseTimers /\ tm.at <= now
    /\ leaseTimers' = leaseTimers \ {tm}
    /\ leases' = LeasesEnded({l \in {tm.lease} \cap LapsedLeases :
                                leases[l].generation = tm.generation}, "expired")
    /\ UNCHANGED <<enrolments, answered, enrolAnswered, enrolmentTimers, now>>

-----------------------------------------------------------------------------
EnrolAnswer(o, k) == enrolAnswered' = enrolAnswered \cup {<<o, k>>}

(* enrol, refused before anything is read of enrolments and leases: a      *)
(* project is missing or the request has expired.                          *)
EnrolRefused(o, k) ==
    /\ <<o, k>> \notin enrolAnswered
    /\ EnrolAnswer(o, k)
    /\ UNCHANGED <<leases, enrolments, answered, leaseTimers, enrolmentTimers, now>>

(* enrol.  `name' is None when no callsign is asked for. *)
Enrol(o, k, s, name, expiresAt) ==
    LET prior == ActiveFor(o, s)
        gone == prior \cap LapsedEnrolments
        named == name # None
        planned == /\ named /\ CollisionKey[name] # None
                   /\ expiresAt <= now + MaxLease
        settled == UNION {Attached(e) : e \in gone}
        onName == IF planned THEN ActiveOn(name) \ settled ELSE {}
        swept == settled \cup (onName \cap LapsedLeases)
        ended == EnrolmentsEnded(gone, "expired")
    IN  /\ <<o, k>> \notin enrolAnswered
        /\ expiresAt > now
        /\ Cardinality(prior) <= 1 /\ \A e \in gone : Bound(e)
        /\ EnrolAnswer(o, k)
        /\ \/ /\ prior \ gone # {}                       \* active_session_exists
              /\ UNCHANGED <<leases, enrolments, leaseTimers, enrolmentTimers>>
           \/ /\ prior \ gone = {}
              /\ named
              /\ ~planned \/ onName \ LapsedLeases # {}  \* the callsign is refused
              /\ Cardinality(onName) <= 1
              /\ leases' = LeasesEnded(swept, "expired")
              /\ enrolments' = ended
              /\ UNCHANGED <<leaseTimers, enrolmentTimers>>
           \/ /\ prior \ gone = {}
              /\ named => planned /\ onName \ LapsedLeases = {}
              /\ Cardinality(onName) <= 1
              /\ \E new \in EnrolmentIds :
                 /\ NextFree(enrolments, new)
                 /\ enrolmentTimers' = enrolmentTimers \cup
                        {[enrolment |-> new, at |-> expiresAt]}
                 /\ \/ /\ ~named
                       /\ leases' = LeasesEnded(swept, "expired")
                       /\ enrolments' = [ended EXCEPT ![new] =
                              [status |-> "active", owner |-> o, session |-> s, lease |-> None,
                               generation |-> 0, expiresAt |-> expiresAt]]
                       /\ UNCHANGED leaseTimers
                    \/ /\ named
                       /\ \E g \in Generations \cup {0}, l \in LeaseIds :
                          /\ IsMaximumGeneration(name, g)
                          /\ NextFree(leases, l)
                          /\ leases' = [LeasesEnded(swept, "expired") EXCEPT ![l] =
                                 [status |-> "active", name |-> name, session |-> s,
                                  run |-> None, enrolment |-> new, generation |-> g + 1,
                                  request |-> <<o, k>>, expiresAt |-> expiresAt]]
                          /\ enrolments' = [ended EXCEPT ![new] =
                                 [status |-> "active", owner |-> o, session |-> s, lease |-> l,
                                  generation |-> g + 1, expiresAt |-> expiresAt]]
                          /\ leaseTimers' = leaseTimers \cup
                                 {[lease |-> l, generation |-> g + 1, at |-> expiresAt]}
        /\ UNCHANGED <<answered, now>>

\* reconcileIfExpired: an enrolment ends and takes its lease with it.
Reconciled(E) ==
    /\ \A e \in E : Bound(e)
    /\ leases' = LeasesEnded(UNION {Attached(e) : e \in E}, "expired")
    /\ enrolments' = EnrolmentsEnded(E, "expired")

(* heartbeat: its time is not modelled, the lazy expiry and the answer are. *)
Heartbeat(o, k, e) ==
    /\ <<o, k>> \notin enrolAnswered
    /\ Reconciled({e} \cap {d \in LapsedEnrolments : enrolments[d].owner = o})
    /\ EnrolAnswer(o, k)
    /\ UNCHANGED <<answered, leaseTimers, enrolmentTimers, now>>

(* release: the owner ends a running enrolment, and its lease. *)
ReleaseEnrolment(o, k, e) ==
    LET mine == {d \in {e} : enrolments[d].owner = o /\ enrolments[d].status = "active"}
    IN  /\ <<o, k>> \notin enrolAnswered
        /\ \/ /\ mine \ LapsedEnrolments = {}          \* not found or not active
              /\ Reconciled(mine)
           \/ /\ mine \ LapsedEnrolments # {}
              /\ Bound(e)
              /\ leases' = [l \in LeaseIds |->
                     IF l \in Attached(e)
                     THEN [leases[l] EXCEPT !.status =
                              IF leases[l].expiresAt <= now THEN "expired" ELSE "released"]
                     ELSE leases[l]]
              /\ enrolments' = EnrolmentsEnded({e}, "released")
        /\ EnrolAnswer(o, k)
        /\ UNCHANGED <<answered, leaseTimers, enrolmentTimers, now>>

(* get and resolveCurrent: reads that expire what lapsed. *)
ReadEnrolment(e) ==
    /\ e \in LapsedEnrolments
    /\ Reconciled({e})
    /\ UNCHANGED <<answered, enrolAnswered, leaseTimers, enrolmentTimers, now>>

(* workerEnrolments.expireScheduled *)
ExpireEnrolment(tm) ==
    /\ tm \in enrolmentTimers /\ tm.at <= now
    /\ enrolmentTimers' = enrolmentTimers \ {tm}
    /\ Reconciled({tm.enrolment} \cap LapsedEnrolments)
    /\ UNCHANGED <<answered, enrolAnswered, leaseTimers, now>>

Tick == /\ now < MaxTime /\ now' = now + 1
        /\ UNCHANGED <<leases, enrolments, answered, enrolAnswered, leaseTimers,
                       enrolmentTimers>>

-----------------------------------------------------------------------------
\* A key is sent in order the first time, so that renaming keys adds nothing.
InOrder(keys, used, k) == \A j \in keys : j < k => j \in used

\* Requested expiries, from one already past to one too far ahead.
Expiries == now..(now + MaxLease + 1)

LeaseCommands ==
    \E k \in Keys, s \in Sessions, run \in Runs :
        /\ InOrder(Keys, answered, k)
        /\ \/ \E name \in Names, x \in Expiries :
                 \/ Reserve(k, name, s, run, x, None, TRUE)
                 \/ \E g \in Generations \cup {None} : Reserve(k, name, s, run, x, g, FALSE)
           \/ \E l \in LeaseIds, g \in Generations, x \in Expiries : Renew(k, l, s, run, g, x)
           \/ \E l \in LeaseIds, g \in Generations : Release(k, l, s, run, g)

EnrolmentCommands ==
    \E o \in Owners, k \in EnrolKeys :
        /\ InOrder(EnrolKeys, {j \in EnrolKeys : <<o, j>> \in enrolAnswered}, k)
        /\ \/ EnrolRefused(o, k)
           \/ \E s \in Sessions, name \in Names \cup {None}, x \in Expiries :
                 Enrol(o, k, s, name, x)
           \/ \E e \in EnrolmentIds : Heartbeat(o, k, e) \/ ReleaseEnrolment(o, k, e)

Reads == \/ \E l \in LeaseIds : ReadLease(l)
         \/ \E e \in EnrolmentIds : ReadEnrolment(e)

TimerSteps == \/ \E tm \in leaseTimers : ExpireLease(tm)
              \/ \E tm \in enrolmentTimers : ExpireEnrolment(tm)

Next == LeaseCommands \/ EnrolmentCommands \/ Reads \/ TimerSteps \/ Tick

Spec == Init /\ [][Next]_vars

\* The scheduler eventually runs every call it was given.
FairSpec ==
    /\ Spec
    /\ \A l \in LeaseIds : WF_vars(\E tm \in leaseTimers : tm.lease = l /\ ExpireLease(tm))
    /\ \A e \in EnrolmentIds :
        WF_vars(\E tm \in enrolmentTimers : tm.enrolment = e /\ ExpireEnrolment(tm))

-----------------------------------------------------------------------------
TypeOK ==
    /\ leases \in [LeaseIds -> Lease]
    /\ enrolments \in [EnrolmentIds -> Enrolment]
    /\ answered \subseteq Keys
    /\ enrolAnswered \subseteq Owners \X EnrolKeys
    /\ leaseTimers \subseteq LeaseTimer
    /\ enrolmentTimers \subseteq EnrolmentTimer
    /\ now \in Nat

\* The three states the code throws on are never reached, although two files
\* insert leases: two active leases of one callsign, two active enrolments of
\* one owner's session, an enrolment whose lease is another's.
NoInvariantError ==
    /\ \A l, m \in LeaseIds :
        /\ leases[l].status = "active" /\ leases[m].status = "active"
        /\ CollisionKey[leases[l].name] = CollisionKey[leases[m].name]
        => l = m
    /\ \A e, f \in EnrolmentIds :
        /\ enrolments[e].status = "active" /\ enrolments[f].status = "active"
        /\ enrolments[e].owner = enrolments[f].owner
        /\ enrolments[e].session = enrolments[f].session
        => e = f
    /\ \A e \in EnrolmentIds : Bound(e)

\* A generation names one lease of its callsign for ever, the active lease is
\* the newest, and a request retried under its key took one lease only: what
\* a worker signs with callsign and generation is attributed to one holder.
GenerationNamesLease ==
    \A l, m \in LeaseIds :
        l # m /\ leases[l].status # "free" /\ leases[m].status # "free"
        => /\ leases[l].request # leases[m].request
           /\ CollisionKey[leases[l].name] = CollisionKey[leases[m].name] =>
                /\ leases[l].generation # leases[m].generation
                /\ leases[l].status = "active" => leases[l].generation > leases[m].generation

Running(l) == leases[l].status = "active" /\ leases[l].expiresAt > now

\* As long as a worker is enrolled it has the callsign it enrolled with, and
\* no running lease outlives the enrolment that took it: the two rows and
\* their two timers end together however either is read, swept or expired.
EnrolmentKeepsCallsign ==
    \A e \in EnrolmentIds :
        /\ /\ enrolments[e].status = "active"
           /\ enrolments[e].expiresAt > now
           /\ enrolments[e].lease # None
           => Running(enrolments[e].lease)
        /\ \A l \in LeaseIds : Running(l) /\ leases[l].enrolment = e
                               => enrolments[e].status = "active"

\* A running lease ends only by its holder's release, or by its owner's
\* release of the enrolment that took it, and is otherwise only extended: no
\* timer of before a renewal, no sweep of another caller's reserve ends it.
RunningLeaseEndsByHolder ==
    [][\A l \in LeaseIds : Running(l) /\ leases'[l] # leases[l] =>
          \/ leases'[l] = [leases[l] EXCEPT !.expiresAt = leases'[l].expiresAt]
             /\ leases'[l].expiresAt > leases[l].expiresAt
          \/ \E k \in Keys :
                Release(k, l, leases[l].session, leases[l].run, leases[l].generation)
          \/ \E e \in EnrolmentIds, k \in EnrolKeys :
                /\ leases[l].enrolment = e
                /\ ReleaseEnrolment(enrolments[e].owner, k, e)]_vars

\* What ran out is eventually recorded as ended although nobody looks at it.
LapsedEnds ==
    /\ \A l \in LeaseIds : l \in LapsedLeases ~> leases[l].status # "active"
    /\ \A e \in EnrolmentIds : e \in LapsedEnrolments ~> enrolments[e].status # "active"
=============================================================================
