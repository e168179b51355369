--------------------------- MODULE CallsignsProofs ---------------------------
(***************************************************************************)
(* Proofs about callsign leases and worker enrolments.  The parts of the   *)
(* inductive invariant take the tables as parameters, so that a mutation   *)
(* that first expires rows and then inserts one is followed through the    *)
(* table between the two.                                                  *)
(***************************************************************************)
EXTENDS Callsigns, TLAPS

\* The two tables, the stored answers and the clock have their types.
Typed(L, E, A, B, t) ==
    /\ L \in [LeaseIds -> Lease] /\ E \in [EnrolmentIds -> Enrolment]
    /\ A \subseteq Keys /\ B \subseteq Owners \X EnrolKeys
    /\ t \in Nat

Taken(L, l) == L[l].status # "free"

\* The requests answered: callsign commands, and the enrolments of an owner.
Answers(A, B) == ({None} \X A) \cup B

\* A lease was asked for under a key that has its answer, and no other was.
Asked(L, R) ==
    /\ \A l \in LeaseIds : Taken(L, l) => L[l].request \in R
    /\ \A l, m \in LeaseIds : Taken(L, l) /\ Taken(L, m) /\ L[l].request = L[m].request => l = m

\* The rows of one callsign have different generations, the active one the newest.
Newest(L) ==
    \A l, m \in LeaseIds :
        l # m /\ Taken(L, l) /\ Taken(L, m) /\ SameName(L[l].name, L[m].name)
        => /\ L[l].generation # L[m].generation
           /\ L[l].status = "active" => L[l].generation > L[m].generation

OneSession(E) ==
    \A e, f \in EnrolmentIds :
        /\ E[e].status = "active" /\ E[f].status = "active"
        /\ E[e].owner = E[f].owner /\ E[e].session = E[f].session
        => e = f

\* An enrolment and the lease it took name each other and agree; such a lease
\* has no run, so that no callsign command moves its expiry.
Linked(L, E) ==
    /\ \A e \in EnrolmentIds :
        /\ E[e].status = "free" => E[e].lease = None
        /\ E[e].lease # None =>
            /\ Taken(L, E[e].lease) /\ L[E[e].lease].enrolment = e
            /\ L[E[e].lease].session = E[e].session
            /\ L[E[e].lease].generation = E[e].generation
            /\ L[E[e].lease].expiresAt = E[e].expiresAt
    /\ \A l \in LeaseIds :
        Taken(L, l) /\ L[l].enrolment # None =>
            L[l].run = None /\ E[L[l].enrolment].lease = l

\* Until its expiry an enrolment is active exactly as long as its lease is.
Together(L, E, t) ==
    \A e \in EnrolmentIds :
        E[e].lease # None /\ E[e].expiresAt > t =>
            (E[e].status = "active" <=> L[E[e].lease].status = "active")

Good(L, E, A, B, t) ==
    /\ Typed(L, E, A, B, t)
    /\ Asked(L, Answers(A, B))
    /\ Newest(L)
    /\ OneSession(E)
    /\ Linked(L, E)
    /\ Together(L, E, t)

IInv == /\ Good(leases, enrolments, answered, enrolAnswered, now)
        /\ leaseTimers \subseteq LeaseTimer /\ enrolmentTimers \subseteq EnrolmentTimer

-----------------------------------------------------------------------------
(* What the invariant says of the code. *)

\* The invariant gives the three states on which the mutations throw
\* (assertAtMostOne..., invariant errors) as unreachable.
LEMMA InvNoError == IInv => NoInvariantError
<1> SUFFICES ASSUME IInv PROVE NoInvariantError
  OBVIOUS
<1>0. /\ leases \in [LeaseIds -> Lease] /\ enrolments \in [EnrolmentIds -> Enrolment]
      /\ Newest(leases) /\ OneSession(enrolments) /\ Linked(leases, enrolments)
  BY DEF IInv, Good, Typed
<1>1. \A l, m \in LeaseIds :
        /\ leases[l].status = "active" /\ leases[m].status = "active"
        /\ CollisionKey[leases[l].name] = CollisionKey[leases[m].name]
        => l = m
  <2> SUFFICES ASSUME NEW l \in LeaseIds, NEW m \in LeaseIds,
                      leases[l].status = "active", leases[m].status = "active",
                      CollisionKey[leases[l].name] = CollisionKey[leases[m].name], l # m
               PROVE  FALSE
    OBVIOUS
  <2>1. leases[l].generation \in Nat /\ leases[m].generation \in Nat
    BY <1>0 DEF Lease
  <2>2. leases[l].generation > leases[m].generation
    BY <1>0 DEF Newest, Taken, SameName
  <2>3. leases[m].generation > leases[l].generation
    BY <1>0 DEF Newest, Taken, SameName
  <2> QED BY <2>1, <2>2, <2>3
<1>2. \A e, f \in EnrolmentIds :
        /\ enrolments[e].status = "active" /\ enrolments[f].status = "active"
        /\ enrolments[e].owner = enrolments[f].owner
        /\ enrolments[e].session = enrolments[f].session
        => e = f
  BY <1>0 DEF OneSession
<1>3. \A e \in EnrolmentIds : Bound(e)
  <2> SUFFICES ASSUME NEW e \in EnrolmentIds, NEW l \in LeaseIds, enrolments[e].lease = l
               PROVE  /\ leases[l].enrolment = e
                      /\ leases[l].session = enrolments[e].session
                      /\ leases[l].generation = enrolments[e].generation
    BY DEF Bound, Attached
  <2>1. l # None
    BY NoneAssumption
  <2> QED BY <1>0, <2>1 DEF Linked
<1> QED BY <1>1, <1>2, <1>3 DEF NoInvariantError

LEMMA InvGeneration == IInv => GenerationNamesLease
BY DEF IInv, Good, Asked, Newest, Taken, SameName, GenerationNamesLease

LEMMA InvKeeps == IInv => EnrolmentKeepsCallsign
<1> SUFFICES ASSUME IInv, NEW e \in EnrolmentIds
             PROVE  /\ /\ enrolments[e].status = "active"
                       /\ enrolments[e].expiresAt > now
                       /\ enrolments[e].lease # None
                       => Running(enrolments[e].lease)
                    /\ \A l \in LeaseIds : Running(l) /\ leases[l].enrolment = e
                                           => enrolments[e].status = "active"
  BY DEF EnrolmentKeepsCallsign
<1>0. /\ leases \in [LeaseIds -> Lease] /\ enrolments \in [EnrolmentIds -> Enrolment]
      /\ Linked(leases, enrolments) /\ Together(leases, enrolments, now)
  BY DEF IInv, Good, Typed
<1>1. ASSUME enrolments[e].status = "active", enrolments[e].expiresAt > now,
             enrolments[e].lease # None
      PROVE  Running(enrolments[e].lease)
  BY <1>0, <1>1 DEF Linked, Together, Running
<1>2. ASSUME NEW l \in LeaseIds, Running(l), leases[l].enrolment = e
      PROVE  enrolments[e].status = "active"
  <2>1. e # None /\ l # None /\ Taken(leases, l)
    BY <1>2, NoneAssumption DEF Taken, Running
  <2>2. enrolments[e].lease = l
    BY <1>0, <1>2, <2>1 DEF Linked
  <2>3. enrolments[e].expiresAt > now
    BY <1>0, <1>2, <2>1, <2>2 DEF Linked, Running
  <2> QED BY <1>0, <1>2, <2>1, <2>2, <2>3 DEF Together, Running
<1> QED BY <1>1, <1>2

LEMMA InvType == IInv => TypeOK
BY DEF IInv, Good, Typed, TypeOK

-----------------------------------------------------------------------------
(* How the tables change. *)

\* A row that was active has ended and is otherwise as it was.
EndedRow(r, q) ==
    r.status = "active" /\ \E st \in {"released", "expired"} : q = [r EXCEPT !.status = st]

\* Rows end that lapsed; otherwise a row ends alone or with its partner.
Ends(L, E, L2, E2, t) ==
    /\ \A l \in LeaseIds : L2[l] = L[l] \/ EndedRow(L[l], L2[l])
    /\ \A e \in EnrolmentIds : E2[e] = E[e] \/ EndedRow(E[e], E2[e])
    /\ \A l \in LeaseIds :
        L2[l] # L[l] => \/ L[l].expiresAt <= t
                        \/ L[l].enrolment # None => E2[L[l].enrolment].status # "active"
    /\ \A e \in EnrolmentIds :
        E2[e] # E[e] => \/ E[e].expiresAt <= t
                        \/ E[e].lease # None => L2[E[e].lease].status # "active"

\* The fields of a row that ends, apart from its status.
LEMMA EndedLease ==
    ASSUME NEW r \in Lease, NEW q, q = r \/ EndedRow(r, q)
    PROVE  /\ q \in Lease
           /\ q.name = r.name /\ q.session = r.session /\ q.run = r.run
           /\ q.enrolment = r.enrolment /\ q.generation = r.generation
           /\ q.request = r.request /\ q.expiresAt = r.expiresAt
           /\ q.status = "free" <=> r.status = "free"
           /\ q.status = "active" => r.status = "active"
BY DEF EndedRow, Lease, Statuses

LEMMA EndedEnrolment ==
    ASSUME NEW r \in Enrolment, NEW q, q = r \/ EndedRow(r, q)
    PROVE  /\ q \in Enrolment
           /\ q.owner = r.owner /\ q.session = r.session /\ q.lease = r.lease
           /\ q.generation = r.generation /\ q.expiresAt = r.expiresAt
           /\ q.status = "free" <=> r.status = "free"
           /\ q.status = "active" => r.status = "active"
BY DEF EndedRow, Enrolment, Statuses

\* Expiring what lapsed, and ending an enrolment with its lease, keeps the
\* invariant.
LEMMA EndingKeeps ==
    ASSUME NEW L, NEW E, NEW A, NEW B, NEW t, Good(L, E, A, B, t),
           NEW L2, NEW E2, Ends(L, E, L2, E2, t),
           L2 = [l \in LeaseIds |-> L2[l]], E2 = [e \in EnrolmentIds |-> E2[e]]
    PROVE  Good(L2, E2, A, B, t)
<1>0. L \in [LeaseIds -> Lease] /\ E \in [EnrolmentIds -> Enrolment]
  BY DEF Good, Typed
<1>1. \A l \in LeaseIds :
           /\ L2[l] \in Lease
           /\ L2[l].name = L[l].name /\ L2[l].session = L[l].session /\ L2[l].run = L[l].run
           /\ L2[l].enrolment = L[l].enrolment /\ L2[l].generation = L[l].generation
           /\ L2[l].request = L[l].request /\ L2[l].expiresAt = L[l].expiresAt
           /\ L2[l].status = "free" <=> L[l].status = "free"
           /\ L2[l].status = "active" => L[l].status = "active"
  BY <1>0, EndedLease DEF Ends
<1>2. \A e \in EnrolmentIds :
           /\ E2[e] \in Enrolment
           /\ E2[e].owner = E[e].owner /\ E2[e].session = E[e].session
           /\ E2[e].lease = E[e].lease
           /\ E2[e].generation = E[e].generation /\ E2[e].expiresAt = E[e].expiresAt
           /\ E2[e].status = "free" <=> E[e].status = "free"
           /\ E2[e].status = "active" => E[e].status = "active"
  BY <1>0, EndedEnrolment DEF Ends
<1>2a. (\A l \in LeaseIds : Taken(L2, l) <=> Taken(L, l))
  BY <1>1 DEF Taken
<1>2b. (\A l \in LeaseIds : L[l].enrolment \in EnrolmentIds \cup {None})
       /\ \A e \in EnrolmentIds : E[e].lease \in LeaseIds \cup {None} /\ E[e].expiresAt \in Nat
  BY <1>0 DEF Lease, Enrolment
<1>2c. t \in Nat
  BY DEF Good, Typed
<1>3. Typed(L2, E2, A, B, t)
  <2>1. L2 \in [LeaseIds -> Lease]
    BY <1>1
  <2>2. E2 \in [EnrolmentIds -> Enrolment]
    BY <1>2
  <2> QED BY <2>1, <2>2 DEF Good, Typed
<1>4. Asked(L2, Answers(A, B))
  BY <1>1, <1>2a DEF Good, Asked
<1>5. Newest(L2)
  BY <1>1, <1>2a DEF Good, Newest
<1>6. OneSession(E2)
  BY <1>2 DEF Good, OneSession
<1>7. Linked(L2, E2)
  <2>1. \A e \in EnrolmentIds :
        /\ E2[e].status = "free" => E2[e].lease = None
        /\ E2[e].lease # None =>
            /\ Taken(L2, E2[e].lease) /\ L2[E2[e].lease].enrolment = e
            /\ L2[E2[e].lease].session = E2[e].session
            /\ L2[E2[e].lease].generation = E2[e].generation
            /\ L2[E2[e].lease].expiresAt = E2[e].expiresAt
    BY <1>1, <1>2, <1>2a, <1>2b DEF Good, Linked
  <2>2. \A l \in LeaseIds :
        Taken(L2, l) /\ L2[l].enrolment # None =>
            L2[l].run = None /\ E2[L2[l].enrolment].lease = l
    BY <1>1, <1>2, <1>2a, <1>2b DEF Good, Linked
  <2> QED BY <2>1, <2>2 DEF Linked
<1>8. Together(L2, E2, t)
  <2> SUFFICES ASSUME NEW e \in EnrolmentIds, E2[e].lease # None, E2[e].expiresAt > t
               PROVE  E2[e].status = "active" <=> L2[E2[e].lease].status = "active"
    BY DEF Together
  <2> DEFINE l == E[e].lease
  <2>1. l \in LeaseIds /\ l = E2[e].lease /\ E[e].expiresAt > t
        /\ L[l].enrolment = e /\ L[l].expiresAt = E[e].expiresAt /\ e # None
    BY <1>2, <1>2b, NoneAssumption DEF Good, Linked
  <2>2. E[e].status = "active" <=> L[l].status = "active"
    BY <2>1, <1>2 DEF Good, Together
  <2>3. ~(E[e].expiresAt <= t) /\ ~(L[l].expiresAt <= t)
    BY <2>1, <1>2b, <1>2c
  <2> HIDE DEF l
  <2>4. L2[l] # L[l] => E2[e].status # "active" /\ L2[l].status # "active"
    <3>1. ASSUME L2[l] # L[l] PROVE E2[e].status # "active"
      BY <2>1, <2>3, <3>1 DEF Ends
    <3>2. ASSUME L2[l] # L[l] PROVE L2[l].status # "active"
      BY <2>1, <3>2, <1>0 DEF Ends, EndedRow, Lease
    <3> QED BY <3>1, <3>2
  <2>5. E2[e] # E[e] => E2[e].status # "active" /\ L2[l].status # "active"
    <3>1. ASSUME E2[e] # E[e] PROVE L2[l].status # "active"
      BY <2>1, <2>3, <3>1, <1>2 DEF Ends
    <3>2. ASSUME E2[e] # E[e] PROVE E2[e].status # "active"
      BY <3>2, <1>0 DEF Ends, EndedRow, Enrolment
    <3> QED BY <3>1, <3>2
  <2> QED BY <2>1, <2>2, <2>4, <2>5
<1> QED BY <1>3, <1>4, <1>5, <1>6, <1>7, <1>8 DEF Good

\* A stored answer more, or time that passes, keeps the invariant.
LEMMA AnswerKeeps ==
    ASSUME NEW L, NEW E, NEW A, NEW B, NEW t, Good(L, E, A, B, t),
           NEW A2 \in SUBSET Keys, NEW B2 \in SUBSET (Owners \X EnrolKeys),
           A \subseteq A2, B \subseteq B2
    PROVE  Good(L, E, A2, B2, t)
<1>1. Asked(L, Answers(A2, B2))
  BY DEF Good, Asked, Answers
<1> QED BY <1>1 DEF Good, Typed

LEMMA TimeKeeps ==
    ASSUME NEW L, NEW E, NEW A, NEW B, NEW t, Good(L, E, A, B, t), NEW t2 \in Nat, t <= t2
    PROVE  Good(L, E, A, B, t2)
<1>1. t \in Nat /\ \A e \in EnrolmentIds : E[e].expiresAt \in Nat
  BY DEF Good, Typed, Enrolment
<1>2. \A e \in EnrolmentIds : E[e].expiresAt > t2 => E[e].expiresAt > t
  BY <1>1
<1>3. Together(L, E, t2)
  BY <1>2 DEF Good, Together
<1> QED BY <1>3 DEF Good, Typed

\* A renewal keeps it: the lease has a run, so no enrolment took it.
LEMMA RenewalKeeps ==
    ASSUME NEW L, NEW E, NEW A, NEW B, NEW t, Good(L, E, A, B, t),
           NEW l \in LeaseIds, Taken(L, l), L[l].run # None, NEW x \in Nat
    PROVE  Good([L EXCEPT ![l].expiresAt = x], E, A, B, t)
<1> DEFINE row == [L[l] EXCEPT !.expiresAt = x]
           M == [L EXCEPT ![l] = row]
<1>0. L \in [LeaseIds -> Lease] /\ E \in [EnrolmentIds -> Enrolment]
  BY DEF Good, Typed
<1>1. row \in Lease
  BY <1>0 DEF Lease
<1>2. /\ row.status = L[l].status /\ row.name = L[l].name /\ row.session = L[l].session
      /\ row.run = L[l].run /\ row.enrolment = L[l].enrolment
      /\ row.generation = L[l].generation /\ row.request = L[l].request
  BY <1>0 DEF Lease
<1>3. [L EXCEPT ![l].expiresAt = x] = M
  BY <1>0
<1> HIDE DEF row
<1>4. M \in [LeaseIds -> Lease] /\ M[l] = row /\ \A m \in LeaseIds \ {l} : M[m] = L[m]
  BY <1>0, <1>1
<1> HIDE DEF M
<1>5. /\ \A m \in LeaseIds :
          /\ M[m].status = L[m].status /\ M[m].name = L[m].name /\ M[m].session = L[m].session
          /\ M[m].run = L[m].run /\ M[m].enrolment = L[m].enrolment
          /\ M[m].generation = L[m].generation /\ M[m].request = L[m].request
      /\ \A m \in LeaseIds : Taken(M, m) <=> Taken(L, m)
  BY <1>2, <1>4 DEF Taken
<1>6. L[l].enrolment = None /\ \A e \in EnrolmentIds : E[e].lease # l
  <2>1. L[l].enrolment = None
    BY DEF Good, Linked
  <2>2. l # None /\ None \notin EnrolmentIds
    BY NoneAssumption
  <2> QED BY <2>1, <2>2 DEF Good, Linked
<1>6a. \A e \in EnrolmentIds : E[e].lease \in LeaseIds \cup {None}
  BY <1>0 DEF Enrolment
<1>7. Typed(M, E, A, B, t)
  BY <1>4 DEF Good, Typed
<1>8. Asked(M, Answers(A, B))
  BY <1>5 DEF Good, Asked
<1>9. Newest(M)
  BY <1>5 DEF Good, Newest
<1>10. Linked(M, E)
  <2>1. \A e \in EnrolmentIds :
        /\ E[e].status = "free" => E[e].lease = None
        /\ E[e].lease # None =>
            /\ Taken(M, E[e].lease) /\ M[E[e].lease].enrolment = e
            /\ M[E[e].lease].session = E[e].session
            /\ M[E[e].lease].generation = E[e].generation
            /\ M[E[e].lease].expiresAt = E[e].expiresAt
    BY <1>4, <1>5, <1>6, <1>6a DEF Good, Linked
  <2>2. \A m \in LeaseIds :
        Taken(M, m) /\ M[m].enrolment # None =>
            M[m].run = None /\ E[M[m].enrolment].lease = m
    BY <1>4, <1>5, <1>6 DEF Good, Linked
  <2> QED BY <2>1, <2>2 DEF Linked
<1>11. Together(M, E, t)
  BY <1>4, <1>5, <1>6, <1>6a DEF Good, Together
<1> QED BY <1>3, <1>7, <1>8, <1>9, <1>10, <1>11 DEF Good

\* What a lease row must be for its callsign when it is inserted: the newest
\* generation, and no other active.
Fresh(L, row) ==
    /\ row.status = "active"
    /\ \A l \in LeaseIds :
        Taken(L, l) /\ SameName(L[l].name, row.name) =>
            L[l].status # "active" /\ row.generation > L[l].generation

\* Parts of the invariant of a lease table with one row more.
LEMMA InsertLease ==
    ASSUME NEW L \in [LeaseIds -> Lease], NEW R, Asked(L, R), Newest(L),
           NEW l \in LeaseIds, ~Taken(L, l), NEW row \in Lease, Fresh(L, row),
           NEW R2, R \subseteq R2, row.request \in R2 \ R
    PROVE  /\ [L EXCEPT ![l] = row] \in [LeaseIds -> Lease]
           /\ Asked([L EXCEPT ![l] = row], R2)
           /\ Newest([L EXCEPT ![l] = row])
<1> DEFINE M == [L EXCEPT ![l] = row]
<1>1. M \in [LeaseIds -> Lease] /\ M[l] = row /\ \A m \in LeaseIds \ {l} : M[m] = L[m]
  OBVIOUS
<1> HIDE DEF M
<1>2. Asked(M, R2)
  <2>1. \A m \in LeaseIds : Taken(M, m) => M[m].request \in R2
    BY <1>1 DEF Asked, Taken
  <2>2. \A m \in LeaseIds \ {l} : Taken(M, m) => M[m].request # row.request
    BY <1>1 DEF Asked, Taken
  <2>3. \A m, n \in LeaseIds : Taken(M, m) /\ Taken(M, n) /\ M[m].request = M[n].request => m = n
    BY <1>1, <2>2 DEF Asked, Taken
  <2> QED BY <2>1, <2>3 DEF Asked
<1>3. Newest(M)
  <2> SUFFICES ASSUME NEW m \in LeaseIds, NEW n \in LeaseIds, m # n, Taken(M, m), Taken(M, n),
                      SameName(M[m].name, M[n].name)
               PROVE  /\ M[m].generation # M[n].generation
                      /\ M[m].status = "active" => M[m].generation > M[n].generation
    BY DEF Newest
  <2>1. M[m].generation \in Nat /\ M[n].generation \in Nat
    BY <1>1 DEF Lease
  <2>2. CASE m = l
    <3>1. Taken(L, n) /\ SameName(L[n].name, row.name) /\ M[n] = L[n]
      BY <1>1, <2>2 DEF Taken, SameName
    <3>2. M[m].generation > M[n].generation
      BY <1>1, <2>2, <3>1 DEF Fresh
    <3> QED BY <2>1, <3>2
  <2>3. CASE n = l
    <3>1. Taken(L, m) /\ SameName(L[m].name, row.name) /\ M[m] = L[m]
      BY <1>1, <2>3 DEF Taken, SameName
    <3>2. M[n].generation > M[m].generation /\ M[m].status # "active"
      BY <1>1, <2>3, <3>1 DEF Fresh
    <3> QED BY <2>1, <3>2
  <2>4. CASE m # l /\ n # l
    <3>1. Taken(L, m) /\ Taken(L, n) /\ M[m] = L[m] /\ M[n] = L[n]
      BY <1>1, <2>4 DEF Taken
    <3> QED BY <3>1 DEF Newest
  <2> QED BY <2>2, <2>3, <2>4
<1> QED BY <1>1, <1>2, <1>3 DEF M

\* A reservation keeps the invariant.
LEMMA ReservationKeeps ==
    ASSUME NEW L, NEW E, NEW A, NEW B, NEW t, Good(L, E, A, B, t),
           NEW l \in LeaseIds, ~Taken(L, l), NEW row \in Lease, Fresh(L, row),
           row.enrolment = None,
           NEW k \in Keys, k \notin A, None \notin Owners, row.request = <<None, k>>
    PROVE  Good([L EXCEPT ![l] = row], E, A \cup {k}, B, t)
<1> DEFINE M == [L EXCEPT ![l] = row]
<1>0. /\ L \in [LeaseIds -> Lease] /\ E \in [EnrolmentIds -> Enrolment] /\ A \subseteq Keys
      /\ B \subseteq Owners \X EnrolKeys /\ Asked(L, Answers(A, B)) /\ Newest(L)
  BY DEF Good, Typed
<1>1. /\ Answers(A, B) \subseteq Answers(A \cup {k}, B)
      /\ row.request \in Answers(A \cup {k}, B) \ Answers(A, B)
  BY <1>0 DEF Answers
<1>2. M \in [LeaseIds -> Lease] /\ Asked(M, Answers(A \cup {k}, B)) /\ Newest(M)
  BY <1>0, <1>1, InsertLease
<1>3. M[l] = row /\ \A m \in LeaseIds \ {l} : M[m] = L[m]
  BY <1>0
<1> HIDE DEF M
<1>4. \A e \in EnrolmentIds : E[e].lease \in (LeaseIds \ {l}) \cup {None}
  <2>1. \A e \in EnrolmentIds : E[e].lease \in LeaseIds \cup {None}
    BY <1>0 DEF Enrolment
  <2>2. l # None
    BY NoneAssumption
  <2>3. \A e \in EnrolmentIds : E[e].lease # l
    BY <2>2 DEF Good, Linked
  <2> QED BY <2>1, <2>3
<1>5. Linked(M, E)
  <2>1. \A e \in EnrolmentIds :
        /\ E[e].status = "free" => E[e].lease = None
        /\ E[e].lease # None =>
            /\ Taken(M, E[e].lease) /\ M[E[e].lease].enrolment = e
            /\ M[E[e].lease].session = E[e].session
            /\ M[E[e].lease].generation = E[e].generation
            /\ M[E[e].lease].expiresAt = E[e].expiresAt
    BY <1>3, <1>4 DEF Good, Linked, Taken
  <2>2. \A m \in LeaseIds :
        Taken(M, m) /\ M[m].enrolment # None =>
            M[m].run = None /\ E[M[m].enrolment].lease = m
    BY <1>3 DEF Good, Linked, Taken
  <2> QED BY <2>1, <2>2 DEF Linked
<1>6. Together(M, E, t)
  BY <1>3, <1>4 DEF Good, Together
<1>7. Typed(M, E, A \cup {k}, B, t)
  BY <1>2 DEF Good, Typed
<1> QED BY <1>2, <1>5, <1>6, <1>7 DEF Good, M

\* The owner's session has no other active enrolment.
FreshEnrolment(E, er) ==
    /\ er.status = "active"
    /\ \A e \in EnrolmentIds : E[e].owner = er.owner /\ E[e].session = er.session
                               => E[e].status # "active"

LEMMA InsertEnrolment ==
    ASSUME NEW E \in [EnrolmentIds -> Enrolment], OneSession(E), NEW e \in EnrolmentIds,
           E[e].status = "free", NEW er \in Enrolment, FreshEnrolment(E, er)
    PROVE  /\ [E EXCEPT ![e] = er] \in [EnrolmentIds -> Enrolment]
           /\ OneSession([E EXCEPT ![e] = er])
<1> DEFINE F == [E EXCEPT ![e] = er]
<1>1. F \in [EnrolmentIds -> Enrolment] /\ F[e] = er /\ \A f \in EnrolmentIds \ {e} : F[f] = E[f]
  OBVIOUS
<1> HIDE DEF F
<1>2. OneSession(F)
  BY <1>1 DEF OneSession, FreshEnrolment
<1> QED BY <1>1, <1>2 DEF F

\* An enrolment without a callsign keeps the invariant.
LEMMA EnrolmentKeeps ==
    ASSUME NEW L, NEW E, NEW A, NEW B, NEW t, Good(L, E, A, B, t),
           NEW e \in EnrolmentIds, E[e].status = "free", NEW er \in Enrolment,
           FreshEnrolment(E, er), er.lease = None
    PROVE  Good(L, [E EXCEPT ![e] = er], A, B, t)
<1> DEFINE F == [E EXCEPT ![e] = er]
<1>0. E \in [EnrolmentIds -> Enrolment] /\ OneSession(E) /\ L \in [LeaseIds -> Lease]
  BY DEF Good, Typed
<1>1. F \in [EnrolmentIds -> Enrolment] /\ OneSession(F)
  BY <1>0, InsertEnrolment
<1>2. F[e] = er /\ \A f \in EnrolmentIds \ {e} : F[f] = E[f]
  BY <1>0
<1> HIDE DEF F
<1>3. \A l \in LeaseIds : Taken(L, l) => L[l].enrolment \in (EnrolmentIds \ {e}) \cup {None}
  <2>1. \A l \in LeaseIds : L[l].enrolment \in EnrolmentIds \cup {None}
    BY <1>0 DEF Lease
  <2>2. E[e].lease = None /\ \A l \in LeaseIds : l # None
    BY NoneAssumption DEF Good, Linked
  <2>3. e # None
    BY NoneAssumption
  <2>4. \A l \in LeaseIds : Taken(L, l) => L[l].enrolment # e
    BY <2>2, <2>3 DEF Good, Linked
  <2> QED BY <2>1, <2>4
<1>4. Linked(L, F)
  <2>1. \A f \in EnrolmentIds :
        /\ F[f].status = "free" => F[f].lease = None
        /\ F[f].lease # None =>
            /\ Taken(L, F[f].lease) /\ L[F[f].lease].enrolment = f
            /\ L[F[f].lease].session = F[f].session
            /\ L[F[f].lease].generation = F[f].generation
            /\ L[F[f].lease].expiresAt = F[f].expiresAt
    BY <1>2 DEF Good, Linked
  <2>2. \A m \in LeaseIds :
        Taken(L, m) /\ L[m].enrolment # None =>
            L[m].run = None /\ F[L[m].enrolment].lease = m
    BY <1>2, <1>3 DEF Good, Linked
  <2> QED BY <2>1, <2>2 DEF Linked
<1>5. Together(L, F, t)
  BY <1>2 DEF Good, Together
<1>6. Typed(L, F, A, B, t)
  BY <1>1 DEF Good, Typed
<1> QED BY <1>1, <1>4, <1>5, <1>6 DEF Good, F

\* An enrolment that takes a callsign with it keeps the invariant.
LEMMA NamedEnrolmentKeeps ==
    ASSUME NEW L, NEW E, NEW A, NEW B, NEW t, Good(L, E, A, B, t),
           NEW l \in LeaseIds, ~Taken(L, l), NEW row \in Lease, Fresh(L, row),
           NEW e \in EnrolmentIds, E[e].status = "free", NEW er \in Enrolment,
           FreshEnrolment(E, er), er.lease = l, row.enrolment = e, row.run = None,
           row.session = er.session, row.generation = er.generation,
           row.expiresAt = er.expiresAt,
           NEW p \in Owners \X EnrolKeys, p \notin B, None \notin Owners, row.request = p
    PROVE  Good([L EXCEPT ![l] = row], [E EXCEPT ![e] = er], A, B \cup {p}, t)
<1> DEFINE M == [L EXCEPT ![l] = row]
           F == [E EXCEPT ![e] = er]
<1>0. /\ L \in [LeaseIds -> Lease] /\ E \in [EnrolmentIds -> Enrolment] /\ A \subseteq Keys
      /\ B \subseteq Owners \X EnrolKeys /\ Asked(L, Answers(A, B)) /\ Newest(L) /\ OneSession(E)
  BY DEF Good, Typed
<1>1. /\ Answers(A, B) \subseteq Answers(A, B \cup {p})
      /\ row.request \in Answers(A, B \cup {p}) \ Answers(A, B)
  BY <1>0 DEF Answers
<1>2. M \in [LeaseIds -> Lease] /\ Asked(M, Answers(A, B \cup {p})) /\ Newest(M)
  BY <1>0, <1>1, InsertLease
<1>3. M[l] = row /\ \A m \in LeaseIds \ {l} : M[m] = L[m]
  BY <1>0
<1>4. F \in [EnrolmentIds -> Enrolment] /\ OneSession(F)
  BY <1>0, InsertEnrolment
<1>5. F[e] = er /\ \A f \in EnrolmentIds \ {e} : F[f] = E[f]
  BY <1>0
<1> HIDE DEF M, F
<1>6. l # None /\ e # None /\ E[e].lease = None /\ (\A m \in LeaseIds : m # None)
  BY NoneAssumption DEF Good, Linked
<1>7. \A f \in EnrolmentIds : E[f].lease \in (LeaseIds \ {l}) \cup {None}
  <2>1. \A f \in EnrolmentIds : E[f].lease \in LeaseIds \cup {None}
    BY <1>0 DEF Enrolment
  <2>2. \A f \in EnrolmentIds : E[f].lease # l
    BY <1>6 DEF Good, Linked
  <2> QED BY <2>1, <2>2
<1>8. \A m \in LeaseIds : Taken(L, m) => L[m].enrolment \in (EnrolmentIds \ {e}) \cup {None}
  <2>1. \A m \in LeaseIds : L[m].enrolment \in EnrolmentIds \cup {None}
    BY <1>0 DEF Lease
  <2>2. \A m \in LeaseIds : Taken(L, m) => L[m].enrolment # e
    BY <1>6 DEF Good, Linked
  <2> QED BY <2>1, <2>2
<1>9. Linked(M, F)
  <2>1. ASSUME NEW f \in EnrolmentIds
        PROVE  /\ F[f].status = "free" => F[f].lease = None
               /\ F[f].lease # None =>
                    /\ Taken(M, F[f].lease) /\ M[F[f].lease].enrolment = f
                    /\ M[F[f].lease].session = F[f].session
                    /\ M[F[f].lease].generation = F[f].generation
                    /\ M[F[f].lease].expiresAt = F[f].expiresAt
    <3>1. CASE f = e
      BY <1>3, <1>5, <3>1 DEF Taken, Fresh, FreshEnrolment
    <3>2. CASE f # e
      <4>1. F[f] = E[f] /\ (E[f].lease # None => M[E[f].lease] = L[E[f].lease])
        BY <1>3, <1>5, <1>7, <3>2
      <4> QED BY <4>1 DEF Good, Linked, Taken
    <3> QED BY <3>1, <3>2
  <2>2. ASSUME NEW m \in LeaseIds, Taken(M, m), M[m].enrolment # None
        PROVE  M[m].run = None /\ F[M[m].enrolment].lease = m
    <3>1. CASE m = l
      BY <1>3, <1>5, <3>1
    <3>2. CASE m # l
      <4>1. M[m] = L[m] /\ Taken(L, m)
        BY <1>3, <2>2, <3>2 DEF Taken
      <4>2. F[L[m].enrolment] = E[L[m].enrolment]
        BY <1>5, <1>8, <2>2, <4>1
      <4> QED BY <2>2, <4>1, <4>2 DEF Good, Linked
    <3> QED BY <3>1, <3>2
  <2> QED BY <2>1, <2>2 DEF Linked
<1>10. Together(M, F, t)
  <2> SUFFICES ASSUME NEW f \in EnrolmentIds, F[f].lease # None, F[f].expiresAt > t
               PROVE  F[f].status = "active" <=> M[F[f].lease].status = "active"
    BY DEF Together
  <2>1. CASE f = e
    BY <1>3, <1>5, <2>1 DEF Fresh, FreshEnrolment
  <2>2. CASE f # e
    <3>1. F[f] = E[f] /\ M[E[f].lease] = L[E[f].lease]
      BY <1>3, <1>5, <1>7, <2>2
    <3> QED BY <3>1 DEF Good, Together
  <2> QED BY <2>1, <2>2
<1>11. Typed(M, F, A, B \cup {p}, t)
  BY <1>2, <1>4 DEF Good, Typed
<1> QED BY <1>2, <1>4, <1>9, <1>10, <1>11 DEF Good, M, F

-----------------------------------------------------------------------------
(* The operators the mutations are written with. *)

\* The lease of an enrolment that lapsed has lapsed with it.
LEMMA AttachedLapsed ==
    ASSUME IInv, NEW e \in LapsedEnrolments
    PROVE  Attached(e) \subseteq LapsedLeases
<1> SUFFICES ASSUME NEW l \in LeaseIds, enrolments[e].lease = l, leases[l].status = "active"
             PROVE  l \in LapsedLeases
  BY DEF Attached
<1>1. e \in EnrolmentIds /\ enrolments[e].expiresAt <= now /\ l # None
  BY NoneAssumption DEF LapsedEnrolments
<1>2. leases[l].expiresAt = enrolments[e].expiresAt
  BY <1>1 DEF IInv, Good, Linked
<1> QED BY <1>1, <1>2 DEF LapsedLeases

\* Sweeping lapsed rows is an ending.
LEMMA SweepEnds ==
    ASSUME IInv, NEW D \in SUBSET LapsedLeases, NEW G \in SUBSET LapsedEnrolments
    PROVE  /\ Ends(leases, enrolments, LeasesEnded(D, "expired"),
                   EnrolmentsEnded(G, "expired"), now)
           /\ Good(LeasesEnded(D, "expired"), EnrolmentsEnded(G, "expired"),
                   answered, enrolAnswered, now)
<1> DEFINE L2 == LeasesEnded(D, "expired")
           E2 == EnrolmentsEnded(G, "expired")
<1>0. Good(leases, enrolments, answered, enrolAnswered, now)
  BY DEF IInv
<1>1. /\ L2 = [l \in LeaseIds |-> L2[l]]
      /\ \A l \in LeaseIds :
          L2[l] = IF l \in D THEN [leases[l] EXCEPT !.status = "expired"] ELSE leases[l]
  BY DEF LeasesEnded
<1>2. /\ E2 = [e \in EnrolmentIds |-> E2[e]]
      /\ \A e \in EnrolmentIds :
          E2[e] = IF e \in G THEN [enrolments[e] EXCEPT !.status = "expired"] ELSE enrolments[e]
  BY DEF EnrolmentsEnded
<1> HIDE DEF L2, E2
<1>3. \A l \in D : leases[l].status = "active" /\ leases[l].expiresAt <= now
  BY DEF LapsedLeases
<1>4. \A e \in G : enrolments[e].status = "active" /\ enrolments[e].expiresAt <= now
  BY DEF LapsedEnrolments
<1>5. Ends(leases, enrolments, L2, E2, now)
  <2>1. \A l \in LeaseIds : L2[l] = leases[l] \/ EndedRow(leases[l], L2[l])
    BY <1>1, <1>3 DEF EndedRow
  <2>2. \A e \in EnrolmentIds : E2[e] = enrolments[e] \/ EndedRow(enrolments[e], E2[e])
    BY <1>2, <1>4 DEF EndedRow
  <2>3. \A l \in LeaseIds : L2[l] # leases[l] => leases[l].expiresAt <= now
    BY <1>1, <1>3
  <2>4. \A e \in EnrolmentIds : E2[e] # enrolments[e] => enrolments[e].expiresAt <= now
    BY <1>2, <1>4
  <2> QED BY <2>1, <2>2, <2>3, <2>4 DEF Ends
<1>6. Good(L2, E2, answered, enrolAnswered, now)
  BY <1>0, <1>1, <1>2, <1>5, EndingKeeps
<1> QED BY <1>5, <1>6 DEF L2, E2

LEMMA NoEnrolmentEnds == IInv => EnrolmentsEnded({}, "expired") = enrolments
BY DEF EnrolmentsEnded, IInv, Good, Typed

\* A sweep of leases alone keeps the invariant, with or without an answer more.
LEMMA LeaseSweepKeeps ==
    ASSUME IInv, NEW D \in SUBSET LapsedLeases, NEW k \in Keys
    PROVE  /\ Good(LeasesEnded(D, "expired"), enrolments, answered, enrolAnswered, now)
           /\ Good(LeasesEnded(D, "expired"), enrolments, answered \cup {k}, enrolAnswered, now)
<1>1. Good(LeasesEnded(D, "expired"), enrolments, answered, enrolAnswered, now)
  BY SweepEnds, NoEnrolmentEnds
<1>2. answered \cup {k} \in SUBSET Keys /\ enrolAnswered \in SUBSET (Owners \X EnrolKeys)
  BY DEF IInv, Good, Typed
<1> DEFINE A2 == answered \cup {k}
<1>3. answered \subseteq A2 /\ enrolAnswered \subseteq enrolAnswered
  OBVIOUS
<1> HIDE DEF A2
<1>4. Good(LeasesEnded(D, "expired"), enrolments, A2, enrolAnswered, now)
  BY <1>1, <1>2, <1>3, AnswerKeeps DEF A2
<1> QED BY <1>1, <1>4 DEF A2

\* The row inserted under the next generation, after the lapsed leases of the
\* callsign are swept, is the newest and the only active one.
LEMMA FreshAfterSweep ==
    ASSUME IInv, NEW D \in SUBSET LapsedLeases, NEW name, ActiveOn(name) \subseteq D,
           NEW g, IsMaximumGeneration(name, g),
           NEW row \in Lease, row.status = "active", row.name = name, row.generation = g + 1
    PROVE  Fresh(LeasesEnded(D, "expired"), row)
<1> DEFINE L2 == LeasesEnded(D, "expired")
<1>0. leases \in [LeaseIds -> Lease]
  BY DEF IInv, Good, Typed
<1>1. \A l \in LeaseIds :
          L2[l] = IF l \in D THEN [leases[l] EXCEPT !.status = "expired"] ELSE leases[l]
  BY DEF LeasesEnded
<1> HIDE DEF L2
<1> SUFFICES ASSUME NEW l \in LeaseIds, Taken(L2, l), SameName(L2[l].name, row.name)
             PROVE  L2[l].status # "active" /\ row.generation > L2[l].generation
  BY DEF Fresh, L2
<1>2. leases[l] \in Lease
  BY <1>0
<1>3. L2[l].name = leases[l].name /\ L2[l].generation = leases[l].generation
      /\ leases[l].status # "free" /\ (l \in D => L2[l].status = "expired")
  BY <1>1, <1>2 DEF Lease, Taken, LapsedLeases
<1>4. l \in Of(name)
  BY <1>3 DEF Of, SameName
<1>5. L2[l].status # "active"
  <2>1. CASE leases[l].status = "active"
    BY <1>3, <1>4, <2>1 DEF ActiveOn
  <2>2. CASE leases[l].status # "active"
    BY <1>1, <1>3, <2>2
  <2> QED BY <2>1, <2>2
<1>6. g \in Nat /\ leases[l].generation \in Nat /\ leases[l].generation <= g
  <2>1. leases[l].generation <= g
    BY <1>4 DEF IsMaximumGeneration
  <2>2. g \in {0} \cup {leases[m].generation : m \in Of(name)}
    BY DEF IsMaximumGeneration
  <2>3. \A m \in LeaseIds : leases[m].generation \in Nat
    BY <1>0 DEF Lease
  <2> QED BY <2>1, <2>2, <2>3 DEF Of
<1> QED BY <1>3, <1>5, <1>6

LEMMA MaximumIsNat ==
    ASSUME IInv, NEW name, NEW g, IsMaximumGeneration(name, g)
    PROVE  g \in Nat
<1>1. \A m \in LeaseIds : leases[m].generation \in Nat
  BY DEF IInv, Good, Typed, Lease
<1> QED BY <1>1 DEF IsMaximumGeneration, Of

-----------------------------------------------------------------------------
(* One lemma per mutation: the invariant holds after it. *)

LEMMA ReserveKeeps ==
    ASSUME IInv, NEW k \in Keys, NEW name \in Names, NEW s \in Sessions, NEW run \in Runs,
           NEW x \in Nat, NEW expected, NEW inherits,
           Reserve(k, name, s, run, x, expected, inherits)
    PROVE  IInv'
<1> DEFINE swept == ActiveOn(name) \cap LapsedLeases
           live == ActiveOn(name) \ LapsedLeases
           L2 == LeasesEnded(swept, "expired")
<1>0. /\ k \notin answered
      /\ answered' = answered \cup {k}
      /\ UNCHANGED <<enrolments, enrolAnswered, enrolmentTimers, now>>
  BY DEF Reserve
<1>1. swept \in SUBSET LapsedLeases
  OBVIOUS
<1>2. \/ leases' = L2 /\ UNCHANGED leaseTimers
      \/ \E g \in Generations \cup {0}, new \in LeaseIds :
            /\ IsMaximumGeneration(name, g) /\ live = {} /\ NextFree(leases, new)
            /\ leases' = [L2 EXCEPT ![new] =
                   [status |-> "active", name |-> name, session |-> s, run |-> run,
                    enrolment |-> None, generation |-> g + 1, request |-> <<None, k>>,
                    expiresAt |-> x]]
            /\ leaseTimers' = leaseTimers \cup
                   {[lease |-> new, generation |-> g + 1, at |-> x]}
  BY DEF Reserve
<1>3. Good(L2, enrolments, answered, enrolAnswered, now)
      /\ Good(L2, enrolments, answered \cup {k}, enrolAnswered, now)
  BY <1>1, LeaseSweepKeeps
<1>4. CASE leases' = L2 /\ UNCHANGED leaseTimers
  BY <1>0, <1>3, <1>4 DEF IInv
<1>5. ASSUME NEW g, NEW new \in LeaseIds,
             IsMaximumGeneration(name, g), live = {}, NextFree(leases, new),
             leases' = [L2 EXCEPT ![new] =
                   [status |-> "active", name |-> name, session |-> s, run |-> run,
                    enrolment |-> None, generation |-> g + 1, request |-> <<None, k>>,
                    expiresAt |-> x]],
             leaseTimers' = leaseTimers \cup
                   {[lease |-> new, generation |-> g + 1, at |-> x]}
      PROVE  IInv'
  <2> DEFINE row == [status |-> "active", name |-> name, session |-> s, run |-> run,
                     enrolment |-> None, generation |-> g + 1, request |-> <<None, k>>,
                     expiresAt |-> x]
  <2>1. g + 1 \in Nat
    BY <1>5, MaximumIsNat
  <2>2. row \in Lease
    BY <2>1 DEF Lease, Statuses
  <2>3. row.status = "active" /\ row.name = name /\ row.generation = g + 1
        /\ row.enrolment = None /\ row.request = <<None, k>>
    OBVIOUS
  <2>4. leases' = [L2 EXCEPT ![new] = row]
    BY <1>5
  <2> HIDE DEF row
  <2>5. ActiveOn(name) \subseteq swept
    BY <1>5
  <2>6. ~Taken(L2, new)
    BY <1>5 DEF Taken, NextFree, LeasesEnded, LapsedLeases
  <2>7. Fresh(L2, row)
    BY <1>1, <1>5, <2>2, <2>3, <2>5, FreshAfterSweep
  <2> HIDE DEF L2, swept, live
  <2>8. Good([L2 EXCEPT ![new] = row], enrolments, answered \cup {k}, enrolAnswered, now)
    BY <1>0, <1>3, <2>2, <2>3, <2>6, <2>7, ReservationKeeps, NoneAssumption
  <2>9. [lease |-> new, generation |-> g + 1, at |-> x] \in LeaseTimer
    BY <2>1 DEF LeaseTimer
  <2> QED BY <1>0, <1>5, <2>4, <2>8, <2>9 DEF IInv
<1> QED BY <1>2, <1>4, <1>5

LEMMA RenewKeeps ==
    ASSUME IInv, NEW k \in Keys, NEW l \in LeaseIds, NEW s, NEW run \in Runs,
           NEW g, NEW x \in Nat, Renew(k, l, s, run, g, x)
    PROVE  IInv'
<1>0. /\ answered' = answered \cup {k}
      /\ UNCHANGED <<enrolments, enrolAnswered, enrolmentTimers, now>>
  BY DEF Renew
<1>1. CASE Holder(l, s, run, g) /\ Renewable(l, x)
  <2>1. /\ leases' = [leases EXCEPT ![l].expiresAt = x]
        /\ leaseTimers' = leaseTimers \cup {[lease |-> l, generation |-> g, at |-> x]}
    BY <1>1 DEF Renew
  <2>2. Taken(leases, l) /\ leases[l].run # None /\ leases[l].generation = g
    BY <1>1, NoneAssumption DEF Taken, Holder
  <2>3. Good(leases, enrolments, answered, enrolAnswered, now)
    BY DEF IInv
  <2>4. Good([leases EXCEPT ![l].expiresAt = x], enrolments, answered, enrolAnswered, now)
    BY <2>2, <2>3, RenewalKeeps
  <2>5. answered \cup {k} \in SUBSET Keys /\ enrolAnswered \in SUBSET (Owners \X EnrolKeys)
        /\ answered \subseteq answered \cup {k}
    BY DEF IInv, Good, Typed
  <2>6. Good([leases EXCEPT ![l].expiresAt = x], enrolments, answered \cup {k},
             enrolAnswered, now)
    BY <2>4, <2>5, AnswerKeeps
  <2>7. [lease |-> l, generation |-> g, at |-> x] \in LeaseTimer
    <3>1. g \in Nat
      BY <2>2, <2>3 DEF Good, Typed, Lease
    <3> QED BY <3>1 DEF LeaseTimer
  <2> QED BY <1>0, <2>1, <2>6, <2>7 DEF IInv
<1>2. CASE ~(Holder(l, s, run, g) /\ Renewable(l, x))
  <2>1. leases' = LeasesEnded({l} \cap LapsedLeases, "expired") /\ UNCHANGED leaseTimers
    BY <1>2 DEF Renew
  <2>2. Good(LeasesEnded({l} \cap LapsedLeases, "expired"), enrolments,
             answered \cup {k}, enrolAnswered, now)
    BY LeaseSweepKeeps
  <2> QED BY <1>0, <2>1, <2>2 DEF IInv
<1> QED BY <1>1, <1>2

LEMMA ReleaseKeeps ==
    ASSUME IInv, NEW k \in Keys, NEW l \in LeaseIds, NEW s, NEW run \in Runs, NEW g,
           Release(k, l, s, run, g)
    PROVE  IInv'
<1>0. /\ answered' = answered \cup {k}
      /\ UNCHANGED <<enrolments, enrolAnswered, leaseTimers, enrolmentTimers, now>>
  BY DEF Release
<1>1. CASE Holder(l, s, run, g)
  <2> DEFINE L2 == LeasesEnded({l}, "released")
  <2>1. leases' = L2
    BY <1>1 DEF Release
  <2>2. /\ L2 = [m \in LeaseIds |-> L2[m]]
        /\ L2[l] = [leases[l] EXCEPT !.status = "released"]
        /\ \A m \in LeaseIds \ {l} : L2[m] = leases[m]
    BY DEF LeasesEnded
  <2> HIDE DEF L2
  <2>3. leases[l].status = "active" /\ leases[l].run # None
    BY <1>1, NoneAssumption DEF Holder
  <2>4. leases[l].enrolment = None
    BY <2>3 DEF IInv, Good, Linked, Taken
  <2>5. EndedRow(leases[l], L2[l])
    BY <2>2, <2>3 DEF EndedRow
  <2>6. Ends(leases, enrolments, L2, enrolments, now)
    BY <2>2, <2>4, <2>5 DEF Ends
  <2>7. Good(leases, enrolments, answered, enrolAnswered, now)
        /\ enrolments = [e \in EnrolmentIds |-> enrolments[e]]
    BY DEF IInv, Good, Typed
  <2>8. Good(L2, enrolments, answered, enrolAnswered, now)
    BY <2>2, <2>6, <2>7, EndingKeeps
  <2>9. answered \cup {k} \in SUBSET Keys /\ enrolAnswered \in SUBSET (Owners \X EnrolKeys)
        /\ answered \subseteq answered \cup {k}
    BY DEF IInv, Good, Typed
  <2>10. Good(L2, enrolments, answered \cup {k}, enrolAnswered, now)
    BY <2>8, <2>9, AnswerKeeps
  <2> QED BY <1>0, <2>1, <2>10 DEF IInv
<1>2. CASE ~Holder(l, s, run, g)
  <2>1. leases' = LeasesEnded({l} \cap LapsedLeases, "expired")
    BY <1>2 DEF Release
  <2>2. Good(LeasesEnded({l} \cap LapsedLeases, "expired"), enrolments,
             answered \cup {k}, enrolAnswered, now)
    BY LeaseSweepKeeps
  <2> QED BY <1>0, <2>1, <2>2 DEF IInv
<1> QED BY <1>1, <1>2

LEMMA ReadLeaseKeeps ==
    ASSUME IInv, NEW l \in LeaseIds, ReadLease(l)
    PROVE  IInv'
<1>1. {l} \in SUBSET LapsedLeases
  BY DEF ReadLease
<1>2. Good(LeasesEnded({l}, "expired"), enrolments, answered, enrolAnswered, now)
  BY <1>1, SweepEnds, NoEnrolmentEnds
<1> QED BY <1>2 DEF ReadLease, IInv

LEMMA ExpireLeaseKeeps ==
    ASSUME IInv, NEW tm \in leaseTimers, ExpireLease(tm)
    PROVE  IInv'
<1> DEFINE D == {l \in {tm.lease} \cap LapsedLeases : leases[l].generation = tm.generation}
<1>1. D \in SUBSET LapsedLeases
  OBVIOUS
<1>2. /\ leases' = LeasesEnded(D, "expired") /\ leaseTimers' = leaseTimers \ {tm}
      /\ UNCHANGED <<enrolments, answered, enrolAnswered, enrolmentTimers, now>>
  BY DEF ExpireLease
<1> HIDE DEF D
<1>3. Good(LeasesEnded(D, "expired"), enrolments, answered, enrolAnswered, now)
  BY <1>1, SweepEnds, NoEnrolmentEnds
<1> QED BY <1>2, <1>3 DEF IInv

\* What every enrolment command does last: its answer is stored.
LEMMA EnrolAnswerKeeps ==
    ASSUME NEW L, NEW E, Good(L, E, answered, enrolAnswered, now),
           NEW o \in Owners, NEW k \in EnrolKeys, EnrolAnswer(o, k)
    PROVE  Good(L, E, answered, enrolAnswered', now)
<1>1. /\ answered \in SUBSET Keys /\ enrolAnswered' \in SUBSET (Owners \X EnrolKeys)
      /\ answered \subseteq answered /\ enrolAnswered \subseteq enrolAnswered'
  BY DEF Good, Typed, EnrolAnswer
<1> DEFINE B2 == enrolAnswered'
<1> HIDE DEF B2
<1>2. Good(L, E, answered, B2, now)
  BY <1>1, AnswerKeeps DEF B2
<1> QED BY <1>2 DEF B2

\* reconcileIfExpired on lapsed enrolments keeps the invariant.
LEMMA ReconciledKeeps ==
    ASSUME IInv, NEW G \in SUBSET LapsedEnrolments, Reconciled(G)
    PROVE  Good(leases', enrolments', answered, enrolAnswered, now)
<1> DEFINE D == UNION {Attached(e) : e \in G}
<1>1. D \in SUBSET LapsedLeases
  BY AttachedLapsed
<1>2. leases' = LeasesEnded(D, "expired") /\ enrolments' = EnrolmentsEnded(G, "expired")
  BY DEF Reconciled
<1> HIDE DEF D
<1> QED BY <1>1, <1>2, SweepEnds

LEMMA EnrolRefusedKeeps ==
    ASSUME IInv, NEW o \in Owners, NEW k \in EnrolKeys, EnrolRefused(o, k)
    PROVE  IInv'
<1>1. Good(leases, enrolments, answered, enrolAnswered', now)
  BY EnrolAnswerKeeps DEF EnrolRefused, IInv
<1> QED BY <1>1 DEF EnrolRefused, IInv

LEMMA HeartbeatKeeps ==
    ASSUME IInv, NEW o \in Owners, NEW k \in EnrolKeys, NEW e \in EnrolmentIds,
           Heartbeat(o, k, e)
    PROVE  IInv'
<1>1. Good(leases', enrolments', answered, enrolAnswered, now)
  BY ReconciledKeeps DEF Heartbeat
<1>2. Good(leases', enrolments', answered, enrolAnswered', now)
  BY <1>1, EnrolAnswerKeeps DEF Heartbeat
<1> QED BY <1>2 DEF Heartbeat, IInv

LEMMA ReadEnrolmentKeeps ==
    ASSUME IInv, NEW e \in EnrolmentIds, ReadEnrolment(e)
    PROVE  IInv'
<1>1. Good(leases', enrolments', answered, enrolAnswered, now)
  BY ReconciledKeeps DEF ReadEnrolment
<1> QED BY <1>1 DEF ReadEnrolment, IInv

LEMMA ExpireEnrolmentKeeps ==
    ASSUME IInv, NEW tm \in enrolmentTimers, ExpireEnrolment(tm)
    PROVE  IInv'
<1>1. Good(leases', enrolments', answered, enrolAnswered, now)
  BY ReconciledKeeps DEF ExpireEnrolment
<1> QED BY <1>1 DEF ExpireEnrolment, IInv

LEMMA TickKeeps ==
    ASSUME IInv, Tick
    PROVE  IInv'
<1>1. now \in Nat /\ now' \in Nat /\ now <= now'
  BY DEF Tick, IInv, Good, Typed
<1>2. Good(leases, enrolments, answered, enrolAnswered, now')
  BY <1>1, TimeKeeps DEF IInv
<1> QED BY <1>2 DEF Tick, IInv

LEMMA ReleaseEnrolmentKeeps ==
    ASSUME IInv, NEW o \in Owners, NEW k \in EnrolKeys, NEW e \in EnrolmentIds,
           ReleaseEnrolment(o, k, e)
    PROVE  IInv'
<1> DEFINE mine == {d \in {e} : enrolments[d].owner = o /\ enrolments[d].status = "active"}
<1>0. EnrolAnswer(o, k) /\ UNCHANGED <<answered, leaseTimers, enrolmentTimers, now>>
  BY DEF ReleaseEnrolment
<1>1. CASE mine \ LapsedEnrolments = {} /\ Reconciled(mine)
  <2>1. mine \in SUBSET LapsedEnrolments
    BY <1>1
  <2>2. Good(leases', enrolments', answered, enrolAnswered, now)
    BY <1>1, <2>1, ReconciledKeeps
  <2>3. Good(leases', enrolments', answered, enrolAnswered', now)
    BY <1>0, <2>2, EnrolAnswerKeeps
  <2> QED BY <1>0, <2>3 DEF IInv
<1>2. CASE /\ mine \ LapsedEnrolments # {}
           /\ leases' = [l \in LeaseIds |->
                  IF l \in Attached(e)
                  THEN [leases[l] EXCEPT !.status =
                           IF leases[l].expiresAt <= now THEN "expired" ELSE "released"]
                  ELSE leases[l]]
           /\ enrolments' = EnrolmentsEnded({e}, "released")
  <2> DEFINE L2 == leases'
             E2 == enrolments'
  <2>0. Good(leases, enrolments, answered, enrolAnswered, now)
    BY DEF IInv
  <2>1. /\ L2 = [l \in LeaseIds |-> L2[l]]
        /\ \A l \in LeaseIds : l \notin Attached(e) => L2[l] = leases[l]
        /\ \A l \in Attached(e) : EndedRow(leases[l], L2[l]) /\ leases[l].enrolment = e
    <3>1. L2 = [l \in LeaseIds |-> L2[l]]
          /\ \A l \in LeaseIds : l \notin Attached(e) => L2[l] = leases[l]
      BY <1>2
    <3>2. \A l \in Attached(e) : EndedRow(leases[l], L2[l])
      BY <1>2 DEF Attached, EndedRow
    <3>3. \A l \in Attached(e) : leases[l].enrolment = e
      BY <2>0, NoneAssumption DEF Attached, Good, Linked
    <3> QED BY <3>1, <3>2, <3>3
  <2>2. /\ E2 = [d \in EnrolmentIds |-> E2[d]]
        /\ E2[e] = [enrolments[e] EXCEPT !.status = "released"]
        /\ \A d \in EnrolmentIds \ {e} : E2[d] = enrolments[d]
        /\ enrolments[e].status = "active"
    BY <1>2 DEF EnrolmentsEnded
  <2>3. E2[e].status = "released" /\ EndedRow(enrolments[e], E2[e])
    BY <2>0, <2>2 DEF Good, Typed, Enrolment, EndedRow
  <2>4. enrolments[e].lease # None => L2[enrolments[e].lease].status # "active"
    <3> SUFFICES ASSUME enrolments[e].lease # None
                 PROVE  L2[enrolments[e].lease].status # "active"
      OBVIOUS
    <3> DEFINE l == enrolments[e].lease
    <3>1. l \in LeaseIds /\ leases[l] \in Lease
      BY <2>0 DEF Good, Typed, Enrolment
    <3>2. CASE leases[l].status = "active"
      BY <1>2, <3>1, <3>2 DEF Attached, Lease
    <3>3. CASE leases[l].status # "active"
      BY <2>1, <3>1, <3>3 DEF Attached
    <3> QED BY <3>2, <3>3
  <2> HIDE DEF L2, E2
  <2>5. Ends(leases, enrolments, L2, E2, now)
    <3>1. \A l \in LeaseIds : L2[l] = leases[l] \/ EndedRow(leases[l], L2[l])
      BY <2>1
    <3>2. \A d \in EnrolmentIds : E2[d] = enrolments[d] \/ EndedRow(enrolments[d], E2[d])
      BY <2>2, <2>3
    <3>3. \A l \in LeaseIds : L2[l] # leases[l] => E2[leases[l].enrolment].status # "active"
      BY <2>1, <2>3
    <3>4. \A d \in EnrolmentIds : E2[d] # enrolments[d] =>
              (enrolments[d].lease # None => L2[enrolments[d].lease].status # "active")
      BY <2>2, <2>4
    <3> QED BY <3>1, <3>2, <3>3, <3>4 DEF Ends
  <2>6. Good(L2, E2, answered, enrolAnswered, now)
    BY <2>0, <2>1, <2>2, <2>5, EndingKeeps
  <2>7. Good(L2, E2, answered, enrolAnswered', now)
    BY <1>0, <2>6, EnrolAnswerKeeps
  <2> QED BY <1>0, <2>7 DEF IInv, L2, E2
<1> QED BY <1>1, <1>2 DEF ReleaseEnrolment

\* The ways an enrolment ends: D and G are the lapsed leases and enrolments it
\* swept.  The callsign or the request is refused; an enrolment is inserted;
\* an enrolment is inserted with a lease of the callsign.
SweptOnly(D, G) ==
    /\ leases' = LeasesEnded(D, "expired") /\ enrolments' = EnrolmentsEnded(G, "expired")
    /\ UNCHANGED <<leaseTimers, enrolmentTimers>>

SweptAndEnrolled(o, s, x, D, G, new) ==
    /\ NextFree(enrolments, new) /\ ActiveFor(o, s) \subseteq G
    /\ enrolmentTimers' = enrolmentTimers \cup {[enrolment |-> new, at |-> x]}
    /\ leases' = LeasesEnded(D, "expired")
    /\ enrolments' = [EnrolmentsEnded(G, "expired") EXCEPT ![new] =
           [status |-> "active", owner |-> o, session |-> s,
            lease |-> None, generation |-> 0, expiresAt |-> x]]
    /\ UNCHANGED leaseTimers

SweptAndNamed(o, k, s, name, x, D, G, new, g, l) ==
    /\ NextFree(enrolments, new) /\ ActiveFor(o, s) \subseteq G
    /\ enrolmentTimers' = enrolmentTimers \cup {[enrolment |-> new, at |-> x]}
    /\ name # None /\ ActiveOn(name) \subseteq D
    /\ IsMaximumGeneration(name, g) /\ NextFree(leases, l)
    /\ leases' = [LeasesEnded(D, "expired") EXCEPT ![l] =
           [status |-> "active", name |-> name, session |-> s,
            run |-> None, enrolment |-> new, generation |-> g + 1,
            request |-> <<o, k>>, expiresAt |-> x]]
    /\ enrolments' = [EnrolmentsEnded(G, "expired") EXCEPT ![new] =
           [status |-> "active", owner |-> o, session |-> s,
            lease |-> l, generation |-> g + 1, expiresAt |-> x]]
    /\ leaseTimers' = leaseTimers \cup {[lease |-> l, generation |-> g + 1, at |-> x]}

LEMMA EnrolCases ==
    ASSUME IInv, NEW o \in Owners, NEW k \in EnrolKeys, NEW s \in Sessions,
           NEW name \in Names \cup {None}, NEW x \in Nat, Enrol(o, k, s, name, x)
    PROVE  /\ <<o, k>> \notin enrolAnswered /\ EnrolAnswer(o, k) /\ UNCHANGED <<answered, now>>
           /\ \/ UNCHANGED <<leases, enrolments, leaseTimers, enrolmentTimers>>
              \/ \E D \in SUBSET LapsedLeases, G \in SUBSET LapsedEnrolments :
                 \/ SweptOnly(D, G)
                 \/ \E new \in EnrolmentIds :
                    \/ SweptAndEnrolled(o, s, x, D, G, new)
                    \/ \E g \in Generations \cup {0}, l \in LeaseIds :
                          SweptAndNamed(o, k, s, name, x, D, G, new, g, l)
<1> DEFINE prior == ActiveFor(o, s)
           gone == prior \cap LapsedEnrolments
           named == name # None
           planned == named /\ CollisionKey[name] # None /\ x <= now + MaxLease
           settled == UNION {Attached(e) : e \in gone}
           onName == IF planned THEN ActiveOn(name) \ settled ELSE {}
           swept == settled \cup (onName \cap LapsedLeases)
           ended == EnrolmentsEnded(gone, "expired")
<1>0. <<o, k>> \notin enrolAnswered /\ EnrolAnswer(o, k) /\ UNCHANGED <<answered, now>>
  BY DEF Enrol
<1>1. gone \in SUBSET LapsedEnrolments /\ swept \in SUBSET LapsedLeases
  BY AttachedLapsed
<1>2. \/ UNCHANGED <<leases, enrolments, leaseTimers, enrolmentTimers>>
      \/ /\ leases' = LeasesEnded(swept, "expired") /\ enrolments' = ended
         /\ UNCHANGED <<leaseTimers, enrolmentTimers>>
      \/ /\ prior \ gone = {}
         /\ named => planned /\ onName \ LapsedLeases = {}
         /\ \E new \in EnrolmentIds :
            /\ NextFree(enrolments, new)
            /\ enrolmentTimers' = enrolmentTimers \cup {[enrolment |-> new, at |-> x]}
            /\ \/ /\ leases' = LeasesEnded(swept, "expired")
                  /\ enrolments' = [ended EXCEPT ![new] =
                         [status |-> "active", owner |-> o, session |-> s,
                          lease |-> None, generation |-> 0, expiresAt |-> x]]
                  /\ UNCHANGED leaseTimers
               \/ \E g \in Generations \cup {0}, l \in LeaseIds :
                  /\ named
                  /\ IsMaximumGeneration(name, g)
                  /\ NextFree(leases, l)
                  /\ leases' = [LeasesEnded(swept, "expired") EXCEPT ![l] =
                         [status |-> "active", name |-> name, session |-> s,
                          run |-> None, enrolment |-> new, generation |-> g + 1,
                          request |-> <<o, k>>, expiresAt |-> x]]
                  /\ enrolments' = [ended EXCEPT ![new] =
                         [status |-> "active", owner |-> o, session |-> s,
                          lease |-> l, generation |-> g + 1, expiresAt |-> x]]
                  /\ leaseTimers' = leaseTimers \cup
                         {[lease |-> l, generation |-> g + 1, at |-> x]}
  BY DEF Enrol
<1>3. prior \ gone = {} => prior \subseteq gone
  OBVIOUS
<1>4. planned /\ onName \ LapsedLeases = {} => ActiveOn(name) \subseteq swept
  OBVIOUS
<1> HIDE DEF prior, gone, settled, onName, swept, planned
<1> QED BY <1>0, <1>1, <1>2, <1>3, <1>4, Zenon
        DEF prior, SweptOnly, SweptAndEnrolled, SweptAndNamed

LEMMA EnrolKeeps ==
    ASSUME IInv, NEW o \in Owners, NEW k \in EnrolKeys, NEW s \in Sessions,
           NEW name \in Names \cup {None}, NEW x \in Nat, Enrol(o, k, s, name, x)
    PROVE  IInv'
<1>0. <<o, k>> \notin enrolAnswered /\ EnrolAnswer(o, k) /\ UNCHANGED <<answered, now>>
  BY EnrolCases
<1>1. CASE UNCHANGED <<leases, enrolments, leaseTimers, enrolmentTimers>>
  <2>1. Good(leases, enrolments, answered, enrolAnswered', now)
    BY <1>0, EnrolAnswerKeeps DEF IInv
  <2> QED BY <1>0, <1>1, <2>1 DEF IInv
<1>2. ASSUME NEW D \in SUBSET LapsedLeases, NEW G \in SUBSET LapsedEnrolments,
             SweptOnly(D, G)
      PROVE  IInv'
  <2>1. Good(leases', enrolments', answered, enrolAnswered, now)
    BY <1>2, SweepEnds DEF SweptOnly
  <2>2. Good(leases', enrolments', answered, enrolAnswered', now)
    BY <1>0, <2>1, EnrolAnswerKeeps
  <2> QED BY <1>0, <1>2, <2>2 DEF IInv, SweptOnly
<1>3. ASSUME NEW D \in SUBSET LapsedLeases, NEW G \in SUBSET LapsedEnrolments,
             NEW new \in EnrolmentIds, NextFree(enrolments, new), ActiveFor(o, s) \subseteq G,
             NEW er \in Enrolment, er.status = "active", er.owner = o, er.session = s
      PROVE  /\ EnrolmentsEnded(G, "expired")[new].status = "free"
             /\ FreshEnrolment(EnrolmentsEnded(G, "expired"), er)
  <2>1. \A e \in EnrolmentIds : EnrolmentsEnded(G, "expired")[e] =
            IF e \in G THEN [enrolments[e] EXCEPT !.status = "expired"] ELSE enrolments[e]
    BY DEF EnrolmentsEnded
  <2>2. enrolments \in [EnrolmentIds -> Enrolment]
    BY DEF IInv, Good, Typed
  <2>3. new \notin G
    BY <1>3 DEF LapsedEnrolments, NextFree
  <2>4. \A e \in EnrolmentIds :
            /\ EnrolmentsEnded(G, "expired")[e].owner = enrolments[e].owner
            /\ EnrolmentsEnded(G, "expired")[e].session = enrolments[e].session
            /\ e \in G => EnrolmentsEnded(G, "expired")[e].status = "expired"
            /\ e \notin G => EnrolmentsEnded(G, "expired")[e].status = enrolments[e].status
    BY <2>1, <2>2 DEF Enrolment
  <2>5. \A e \in EnrolmentIds \ G :
            enrolments[e].owner = o /\ enrolments[e].session = s => enrolments[e].status # "active"
    BY <1>3 DEF ActiveFor
  <2> QED BY <1>3, <2>3, <2>4, <2>5 DEF FreshEnrolment, NextFree
<1>4. ASSUME NEW D \in SUBSET LapsedLeases, NEW G \in SUBSET LapsedEnrolments,
             NEW new \in EnrolmentIds, SweptAndEnrolled(o, s, x, D, G, new)
      PROVE  IInv'
  <2> DEFINE er == [status |-> "active", owner |-> o, session |-> s,
                    lease |-> None, generation |-> 0, expiresAt |-> x]
             E2 == EnrolmentsEnded(G, "expired")
             L2 == LeasesEnded(D, "expired")
  <2>1. er \in Enrolment /\ er.status = "active" /\ er.owner = o /\ er.session = s
        /\ er.lease = None
    BY DEF Enrolment, Statuses
  <2>2. enrolments' = [E2 EXCEPT ![new] = er]
    BY <1>4 DEF SweptAndEnrolled
  <2> HIDE DEF er
  <2>3. E2[new].status = "free" /\ FreshEnrolment(E2, er)
    BY <1>3, <1>4, <2>1 DEF SweptAndEnrolled
  <2>4. Good(L2, E2, answered, enrolAnswered, now)
    BY SweepEnds
  <2> HIDE DEF L2, E2
  <2>5. Good(L2, [E2 EXCEPT ![new] = er], answered, enrolAnswered, now)
    BY <2>1, <2>3, <2>4, EnrolmentKeeps
  <2>6. Good(L2, [E2 EXCEPT ![new] = er], answered, enrolAnswered', now)
    BY <1>0, <2>5, EnrolAnswerKeeps
  <2>7. [enrolment |-> new, at |-> x] \in EnrolmentTimer
    BY DEF EnrolmentTimer
  <2> QED BY <1>0, <1>4, <2>2, <2>6, <2>7 DEF IInv, L2, SweptAndEnrolled
<1>5. ASSUME NEW D \in SUBSET LapsedLeases, NEW G \in SUBSET LapsedEnrolments,
             NEW new \in EnrolmentIds, NEW g \in Generations \cup {0}, NEW l \in LeaseIds,
             SweptAndNamed(o, k, s, name, x, D, G, new, g, l)
      PROVE  IInv'
  <2> DEFINE er == [status |-> "active", owner |-> o, session |-> s,
                    lease |-> l, generation |-> g + 1, expiresAt |-> x]
             row == [status |-> "active", name |-> name, session |-> s,
                     run |-> None, enrolment |-> new, generation |-> g + 1,
                     request |-> <<o, k>>, expiresAt |-> x]
             E2 == EnrolmentsEnded(G, "expired")
             L2 == LeasesEnded(D, "expired")
  <2>0. g + 1 \in Nat
    BY <1>5, MaximumIsNat DEF SweptAndNamed
  <2>1. er \in Enrolment /\ er.status = "active" /\ er.owner = o /\ er.session = s
        /\ er.lease = l /\ er.generation = g + 1 /\ er.expiresAt = x
    BY <2>0 DEF Enrolment, Statuses
  <2>2. row \in Lease
    BY <2>0 DEF Lease, Statuses
  <2>3. row.status = "active" /\ row.name = name /\ row.session = s /\ row.run = None
        /\ row.enrolment = new /\ row.generation = g + 1 /\ row.request = <<o, k>>
        /\ row.expiresAt = x
    OBVIOUS
  <2>4. enrolments' = [E2 EXCEPT ![new] = er] /\ leases' = [L2 EXCEPT ![l] = row]
    BY <1>5 DEF SweptAndNamed
  <2> HIDE DEF er, row
  <2>5. E2[new].status = "free" /\ FreshEnrolment(E2, er)
    BY <1>3, <1>5, <2>1 DEF SweptAndNamed
  <2>6. Fresh(L2, row)
    BY <1>5, <2>2, <2>3, FreshAfterSweep DEF SweptAndNamed
  <2>7. ~Taken(L2, l)
    BY <1>5 DEF Taken, NextFree, LeasesEnded, LapsedLeases, SweptAndNamed
  <2>8. Good(L2, E2, answered, enrolAnswered, now)
    BY SweepEnds
  <2> HIDE DEF L2, E2
  <2>9. <<o, k>> \in Owners \X EnrolKeys /\ None \notin Owners
    BY NoneAssumption
  <2>10. Good([L2 EXCEPT ![l] = row], [E2 EXCEPT ![new] = er], answered,
              enrolAnswered \cup {<<o, k>>}, now)
    <3> DEFINE p == <<o, k>>
    <3>1. p \in Owners \X EnrolKeys /\ p \notin enrolAnswered /\ row.request = p
      BY <1>0, <2>3, <2>9
    <3> HIDE DEF p
    <3>2. /\ er.lease = l /\ row.enrolment = new /\ row.run = None
          /\ row.session = er.session /\ row.generation = er.generation
          /\ row.expiresAt = er.expiresAt
      BY <2>1, <2>3
    <3>3. Good([L2 EXCEPT ![l] = row], [E2 EXCEPT ![new] = er], answered,
              enrolAnswered \cup {p}, now)
      BY <2>1, <2>2, <2>5, <2>6, <2>7, <2>8, <2>9, <3>1, <3>2, NamedEnrolmentKeeps
    <3> QED BY <3>3 DEF p
  <2>11. [enrolment |-> new, at |-> x] \in EnrolmentTimer
    BY DEF EnrolmentTimer
  <2>12. [lease |-> l, generation |-> g + 1, at |-> x] \in LeaseTimer
    BY <2>0 DEF LeaseTimer
  <2> QED BY <1>0, <1>5, <2>4, <2>10, <2>11, <2>12 DEF IInv, EnrolAnswer, SweptAndNamed
<1> QED
  <2> SUFFICES ASSUME ~UNCHANGED <<leases, enrolments, leaseTimers, enrolmentTimers>>
               PROVE  IInv'
    BY <1>1
  <2>1. PICK D \in SUBSET LapsedLeases, G \in SUBSET LapsedEnrolments :
           \/ SweptOnly(D, G)
           \/ \E new \in EnrolmentIds :
                 \/ SweptAndEnrolled(o, s, x, D, G, new)
                 \/ \E g \in Generations \cup {0}, l \in LeaseIds :
                       SweptAndNamed(o, k, s, name, x, D, G, new, g, l)
    BY EnrolCases
  <2> QED BY <2>1, <1>2, <1>4, <1>5

-----------------------------------------------------------------------------
LEMMA InitInv == Init => IInv
<1> SUFFICES ASSUME Init PROVE IInv
  OBVIOUS
<1>1. FreeLease \in Lease /\ FreeEnrolment \in Enrolment
  <2>1. <<None, 0>> \in (Owners \cup {None}) \X (Keys \cup EnrolKeys \cup {0})
    OBVIOUS
  <2> QED BY <2>1 DEF FreeLease, FreeEnrolment, Lease, Enrolment, Statuses
<1>2. \A l \in LeaseIds : leases[l] = FreeLease /\ leases[l].status = "free"
  BY DEF Init, FreeLease
<1>3. \A e \in EnrolmentIds : enrolments[e].status = "free" /\ enrolments[e].lease = None
  BY DEF Init, FreeEnrolment
<1>4. Typed(leases, enrolments, answered, enrolAnswered, now)
  BY <1>1 DEF Init, Typed
<1>5. \A R : Asked(leases, R) /\ Newest(leases) /\ OneSession(enrolments)
             /\ Linked(leases, enrolments) /\ Together(leases, enrolments, now)
  BY <1>2, <1>3 DEF Asked, Newest, OneSession, Linked, Together, Taken
<1> QED BY <1>4, <1>5 DEF IInv, Good, Init

LEMMA ExpiriesAreNat == IInv => Expiries \subseteq Nat
BY TimeAssumption DEF Expiries, IInv, Good, Typed

LEMMA NextInv == IInv /\ [Next]_vars => IInv'
<1> SUFFICES ASSUME IInv, [Next]_vars PROVE IInv'
  OBVIOUS
<1>0. Expiries \subseteq Nat
  BY ExpiriesAreNat
<1>1. CASE LeaseCommands
  <2> PICK k \in Keys, s \in Sessions, run \in Runs :
        \/ \E name \in Names, x \in Expiries :
                 \/ Reserve(k, name, s, run, x, None, TRUE)
                 \/ \E g \in Generations \cup {None} : Reserve(k, name, s, run, x, g, FALSE)
        \/ \E l \in LeaseIds, g \in Generations, x \in Expiries : Renew(k, l, s, run, g, x)
        \/ \E l \in LeaseIds, g \in Generations : Release(k, l, s, run, g)
    BY <1>1 DEF LeaseCommands
  <2> QED BY <1>0, ReserveKeeps, RenewKeeps, ReleaseKeeps
<1>2. CASE EnrolmentCommands
  <2> PICK o \in Owners, k \in EnrolKeys :
        \/ EnrolRefused(o, k)
        \/ \E s \in Sessions, name \in Names \cup {None}, x \in Expiries :
                 Enrol(o, k, s, name, x)
        \/ \E e \in EnrolmentIds : Heartbeat(o, k, e) \/ ReleaseEnrolment(o, k, e)
    BY <1>2 DEF EnrolmentCommands
  <2> QED BY <1>0, EnrolRefusedKeeps, EnrolKeeps, HeartbeatKeeps, ReleaseEnrolmentKeeps
<1>3. CASE Reads
  BY <1>3, ReadLeaseKeeps, ReadEnrolmentKeeps DEF Reads
<1>4. CASE TimerSteps
  BY <1>4, ExpireLeaseKeeps, ExpireEnrolmentKeeps DEF TimerSteps
<1>5. CASE Tick
  BY <1>5, TickKeeps
<1>6. CASE UNCHANGED vars
  BY <1>6 DEF vars, IInv
<1> QED BY <1>1, <1>2, <1>3, <1>4, <1>5, <1>6 DEF Next

\* Every reachable state satisfies the inductive invariant.
THEOREM Invariance == Spec => []IInv
BY InitInv, NextInv, PTL DEF Spec

\* Every reachable state of the two tables has the types their schemas declare.
THEOREM TypeCorrect == Spec => []TypeOK
BY Invariance, InvType, PTL

\* None of the states on which callsignLeases.ts and workerEnrolments.ts throw
\* an invariant error is reached, in any number of callsigns, rows, sessions
\* and owners.
THEOREM NoErrorReached == Spec => []NoInvariantError
BY Invariance, InvNoError, PTL

\* A callsign and a generation name one lease for ever, the active one is the
\* newest, and a command retried under its key took one lease only.
THEOREM GenerationsNameLeases == Spec => []GenerationNamesLease
BY Invariance, InvGeneration, PTL

\* An enrolled worker keeps its callsign until its enrolment ends, and its
\* lease ends with the enrolment.
THEOREM CallsignIsKept == Spec => []EnrolmentKeepsCallsign
BY Invariance, InvKeeps, PTL

-----------------------------------------------------------------------------
(* Who ends a running lease. *)

\* What RunningLeaseEndsByHolder allows to happen to a running lease.
EndsByHolder(l) ==
    \/ leases'[l] = [leases[l] EXCEPT !.expiresAt = leases'[l].expiresAt]
       /\ leases'[l].expiresAt > leases[l].expiresAt
    \/ \E k \in Keys :
          Release(k, l, leases[l].session, leases[l].run, leases[l].generation)
    \/ \E e \in EnrolmentIds, k \in EnrolKeys :
          /\ leases[l].enrolment = e
          /\ ReleaseEnrolment(enrolments[e].owner, k, e)

\* No sweep ends a running lease.
LEMMA SweepSpares ==
    ASSUME IInv, NEW l \in LeaseIds, Running(l), NEW D \in SUBSET LapsedLeases
    PROVE  LeasesEnded(D, "expired")[l] = leases[l]
<1>1. leases[l].expiresAt \in Nat /\ now \in Nat
  BY DEF IInv, Good, Typed, Lease
<1>2. l \notin LapsedLeases
  BY <1>1 DEF LapsedLeases, Running
<1> QED BY <1>2 DEF LeasesEnded

\* Neither does reconcileIfExpired.
LEMMA ReconciledSpares ==
    ASSUME IInv, NEW l \in LeaseIds, Running(l), NEW G \in SUBSET LapsedEnrolments,
           Reconciled(G)
    PROVE  leases'[l] = leases[l]
<1> DEFINE D == UNION {Attached(e) : e \in G}
<1>1. D \in SUBSET LapsedLeases
  BY AttachedLapsed
<1>2. leases' = LeasesEnded(D, "expired")
  BY DEF Reconciled
<1> QED BY <1>1, <1>2, SweepSpares

LEMMA LeaseCommandsSpare ==
    ASSUME IInv, NEW l \in LeaseIds, Running(l), LeaseCommands, leases'[l] # leases[l]
    PROVE  EndsByHolder(l)
<1>0. leases \in [LeaseIds -> Lease] /\ leases[l].status = "active"
  BY DEF IInv, Good, Typed, Running
<1>1. ASSUME NEW k \in Keys, NEW name \in Names, NEW s \in Sessions, NEW run \in Runs, NEW x,
             NEW expected, NEW inherits, Reserve(k, name, s, run, x, expected, inherits)
      PROVE  FALSE
  <2> DEFINE L2 == LeasesEnded(ActiveOn(name) \cap LapsedLeases, "expired")
  <2>1. \/ leases' = L2
        \/ \E new \in LeaseIds : \E row :
              NextFree(leases, new) /\ leases' = [L2 EXCEPT ![new] = row]
    BY <1>1 DEF Reserve
  <2>2. L2[l] = leases[l] /\ L2 = [m \in LeaseIds |-> L2[m]]
    BY SweepSpares DEF LeasesEnded
  <2> QED BY <1>0, <2>1, <2>2 DEF NextFree
<1>2. ASSUME NEW k \in Keys, NEW m \in LeaseIds, NEW s \in Sessions, NEW run \in Runs,
             NEW g \in Generations, NEW x \in Expiries, Renew(k, m, s, run, g, x)
      PROVE  EndsByHolder(l)
  <2>1. CASE Holder(m, s, run, g) /\ Renewable(m, x)
    <3>1. leases' = [leases EXCEPT ![m].expiresAt = x] /\ x > leases[m].expiresAt
      BY <1>2, <2>1 DEF Renew, Renewable
    <3>2. l = m /\ leases'[l] = [leases[l] EXCEPT !.expiresAt = x]
      BY <1>0, <3>1
    <3>3. leases'[l].expiresAt = x
      BY <1>0, <3>2 DEF Lease
    <3> QED BY <3>1, <3>2, <3>3 DEF EndsByHolder
  <2>2. CASE ~(Holder(m, s, run, g) /\ Renewable(m, x))
    <3>1. leases' = LeasesEnded({m} \cap LapsedLeases, "expired")
      BY <1>2, <2>2 DEF Renew
    <3> QED BY <3>1, SweepSpares
  <2> QED BY <2>1, <2>2
<1>3. ASSUME NEW k \in Keys, NEW m \in LeaseIds, NEW s \in Sessions, NEW run \in Runs,
             NEW g \in Generations, Release(k, m, s, run, g)
      PROVE  EndsByHolder(l)
  <2>1. CASE Holder(m, s, run, g)
    <3>1. leases' = LeasesEnded({m}, "released")
      BY <1>3, <2>1 DEF Release
    <3>2. l = m
      BY <3>1 DEF LeasesEnded
    <3>3. leases[l].session = s /\ leases[l].run = run /\ leases[l].generation = g
      BY <2>1, <3>2 DEF Holder
    <3> QED BY <1>3, <3>2, <3>3 DEF EndsByHolder
  <2>2. CASE ~Holder(m, s, run, g)
    <3>1. leases' = LeasesEnded({m} \cap LapsedLeases, "expired")
      BY <1>3, <2>2 DEF Release
    <3> QED BY <3>1, SweepSpares
  <2> QED BY <2>1, <2>2
<1> QED
  <2> PICK k \in Keys, s \in Sessions, run \in Runs :
        \/ \E name \in Names, x \in Expiries :
                 \/ Reserve(k, name, s, run, x, None, TRUE)
                 \/ \E g \in Generations \cup {None} : Reserve(k, name, s, run, x, g, FALSE)
        \/ \E m \in LeaseIds, g \in Generations, x \in Expiries : Renew(k, m, s, run, g, x)
        \/ \E m \in LeaseIds, g \in Generations : Release(k, m, s, run, g)
    BY DEF LeaseCommands
  <2> QED BY <1>1, <1>2, <1>3

LEMMA EnrolmentCommandsSpare ==
    ASSUME IInv, NEW l \in LeaseIds, Running(l), EnrolmentCommands, leases'[l] # leases[l]
    PROVE  EndsByHolder(l)
<1>0. leases \in [LeaseIds -> Lease] /\ leases[l].status = "active" /\ Expiries \subseteq Nat
  BY ExpiriesAreNat DEF IInv, Good, Typed, Running
<1>1. ASSUME NEW o \in Owners, NEW k \in EnrolKeys, NEW s \in Sessions,
             NEW name \in Names \cup {None}, NEW x \in Expiries, Enrol(o, k, s, name, x)
      PROVE  FALSE
  <2>1. PICK D \in SUBSET LapsedLeases, G \in SUBSET LapsedEnrolments :
           \/ SweptOnly(D, G)
           \/ \E new \in EnrolmentIds :
                 \/ SweptAndEnrolled(o, s, x, D, G, new)
                 \/ \E g \in Generations \cup {0}, m \in LeaseIds :
                       SweptAndNamed(o, k, s, name, x, D, G, new, g, m)
    BY <1>0, <1>1, EnrolCases
  <2> DEFINE L2 == LeasesEnded(D, "expired")
  <2>2. L2[l] = leases[l] /\ L2 = [m \in LeaseIds |-> L2[m]]
    BY SweepSpares DEF LeasesEnded
  <2>3. \/ leases' = L2
        \/ \E m \in LeaseIds : \E row :
              NextFree(leases, m) /\ leases' = [L2 EXCEPT ![m] = row]
    BY <2>1 DEF SweptOnly, SweptAndEnrolled, SweptAndNamed
  <2> HIDE DEF L2
  <2> QED BY <1>0, <2>2, <2>3 DEF NextFree
<1>2. ASSUME NEW o \in Owners, NEW k \in EnrolKeys, NEW e \in EnrolmentIds, Heartbeat(o, k, e)
      PROVE  FALSE
  BY <1>2, ReconciledSpares DEF Heartbeat
<1>3. ASSUME NEW o \in Owners, NEW k \in EnrolKeys, NEW e \in EnrolmentIds,
             ReleaseEnrolment(o, k, e)
      PROVE  EndsByHolder(l)
  <2> DEFINE mine == {d \in {e} : enrolments[d].owner = o /\ enrolments[d].status = "active"}
  <2>1. CASE mine \ LapsedEnrolments = {} /\ Reconciled(mine)
    <3>1. mine \in SUBSET LapsedEnrolments
      BY <2>1
    <3> QED BY <2>1, <3>1, ReconciledSpares
  <2>2. CASE /\ mine \ LapsedEnrolments # {}
             /\ leases' = [m \in LeaseIds |->
                    IF m \in Attached(e)
                    THEN [leases[m] EXCEPT !.status =
                             IF leases[m].expiresAt <= now THEN "expired" ELSE "released"]
                    ELSE leases[m]]
    <3>1. enrolments[e].owner = o /\ l \in Attached(e)
      BY <2>2
    <3>2. leases[l].enrolment = e
      BY <3>1, NoneAssumption DEF Attached, IInv, Good, Linked
    <3> QED BY <1>3, <3>1, <3>2 DEF EndsByHolder
  <2> QED BY <1>3, <2>1, <2>2 DEF ReleaseEnrolment
<1>4. ASSUME NEW o \in Owners, NEW k \in EnrolKeys, EnrolRefused(o, k)
      PROVE  FALSE
  BY <1>4 DEF EnrolRefused
<1> QED
  <2> PICK o \in Owners, k \in EnrolKeys :
        \/ EnrolRefused(o, k)
        \/ \E s \in Sessions, name \in Names \cup {None}, x \in Expiries :
                 Enrol(o, k, s, name, x)
        \/ \E e \in EnrolmentIds : Heartbeat(o, k, e) \/ ReleaseEnrolment(o, k, e)
    BY DEF EnrolmentCommands
  <2> QED BY <1>1, <1>2, <1>3, <1>4

LEMMA StepSpares ==
    ASSUME IInv, [Next]_vars, NEW l \in LeaseIds, Running(l), leases'[l] # leases[l]
    PROVE  EndsByHolder(l)
<1>1. CASE LeaseCommands
  BY <1>1, LeaseCommandsSpare
<1>2. CASE EnrolmentCommands
  BY <1>2, EnrolmentCommandsSpare
<1>3. ASSUME NEW m \in LeaseIds, ReadLease(m) PROVE FALSE
  <2>1. {m} \in SUBSET LapsedLeases /\ leases' = LeasesEnded({m}, "expired")
    BY <1>3 DEF ReadLease
  <2> QED BY <2>1, SweepSpares
<1>4. ASSUME NEW e \in EnrolmentIds, ReadEnrolment(e) PROVE FALSE
  BY <1>4, ReconciledSpares DEF ReadEnrolment
<1>5. ASSUME NEW tm \in leaseTimers, ExpireLease(tm) PROVE FALSE
  <2> DEFINE D == {m \in {tm.lease} \cap LapsedLeases : leases[m].generation = tm.generation}
  <2>1. D \in SUBSET LapsedLeases /\ leases' = LeasesEnded(D, "expired")
    BY <1>5 DEF ExpireLease
  <2> QED BY <2>1, SweepSpares
<1>6. ASSUME NEW tm \in enrolmentTimers, ExpireEnrolment(tm) PROVE FALSE
  BY <1>6, ReconciledSpares DEF ExpireEnrolment
<1>7. CASE Tick \/ UNCHANGED vars
  BY <1>7 DEF Tick, vars
<1> QED BY <1>1, <1>2, <1>3, <1>4, <1>5, <1>6, <1>7 DEF Next, Reads, TimerSteps

\* A running lease is ended by its holder or by the owner of the enrolment
\* that took it, and is otherwise only extended: no timer, read, sweep,
\* reservation or enrolment of another ends it.
THEOREM OnlyHolderEnds == Spec => RunningLeaseEndsByHolder
<1>1. IInv /\ [Next]_vars =>
        [\A l \in LeaseIds : Running(l) /\ leases'[l] # leases[l] =>
          \/ leases'[l] = [leases[l] EXCEPT !.expiresAt = leases'[l].expiresAt]
             /\ leases'[l].expiresAt > leases[l].expiresAt
          \/ \E k \in Keys :
                Release(k, l, leases[l].session, leases[l].run, leases[l].generation)
          \/ \E e \in EnrolmentIds, k \in EnrolKeys :
                /\ leases[l].enrolment = e
                /\ ReleaseEnrolment(enrolments[e].owner, k, e)]_vars
  BY StepSpares DEF EndsByHolder
<1> QED BY <1>1, Invariance, PTL DEF Spec, RunningLeaseEndsByHolder
=============================================================================
