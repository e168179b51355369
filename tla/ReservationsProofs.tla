------------------------- MODULE ReservationsProofs -------------------------
(***************************************************************************)
(* Proofs about Reservations, for any actors, resources, rows, capacities, *)
(* lease lengths and bound of the clock.                                   *)
(***************************************************************************)
EXTENDS Reservations, FiniteSums

\* The inductive invariant.
Inv == TypeOK /\ ExclusiveIsAlone /\ ReservationHasTimer

\* An ended row is a row and is not active.
LEMMA EndedRow ==
    ASSUME NEW row \in Row, NEW st \in {"released", "expired"}
    PROVE  Ended(row, st) \in Row /\ Ended(row, st).status = st
  BY DEF Ended, Row

\* Ending some rows preserves the invariant, provided every row that stays
\* active keeps its expiry call.
LEMMA EndingPreserves ==
    ASSUME Inv, NEW S \in SUBSET Rows,
           rows' \in [Rows -> Row], timers' \subseteq timers, now' = now,
           \A r \in Rows : r \notin S => rows'[r] = rows[r],
           \A r \in S : rows'[r].status # "active",
           \A r \in Rows \ S : rows[r].status = "active" =>
              [row |-> r, generation |-> rows[r].generation,
               at |-> rows[r].expiresAt] \in timers'
    PROVE  Inv'
<1>1. TypeOK'
  BY DEF Inv, TypeOK
<1>2. \A r \in Rows : Running(r)' => r \notin S /\ Running(r) /\ rows'[r] = rows[r]
  BY DEF Running
<1>3. ExclusiveIsAlone'
  BY <1>2 DEF Inv, ExclusiveIsAlone
<1>4. ReservationHasTimer'
  BY DEF Inv, ReservationHasTimer
<1> QED
  BY <1>1, <1>3, <1>4 DEF Inv

\* acquire: what it inserts fits beside everything still running.
LEMMA AcquirePreserves ==
    ASSUME Inv, NEW a \in Actors, NEW res \in Resources,
           NEW mode \in {"exclusive", "shared"}, NEW capacity \in Capacities,
           NEW units \in 1..capacity, NEW lease \in Leases, NEW new \in Rows,
           Acquire(a, res, mode, capacity, units, lease, new)
    PROVE  Inv'
<1> DEFINE live == LiveOn(res)
           stale == ActiveOn(res) \ live
           row == [status |-> "active", resource |-> res, mode |-> mode,
                   capacity |-> capacity, units |-> units, holder |-> a,
                   generation |-> 1, expiresAt |-> now + lease]
           call == [row |-> new, generation |-> 1, at |-> now + lease]
<1>1. /\ rows \in [Rows -> Row] /\ timers \subseteq Timer /\ now \in Nat
      /\ lease \in Nat /\ capacity \in Nat /\ units \in Nat
  BY LeasesAssumption, CapacitiesAssumption DEF Inv, TypeOK
<1>2. row \in Row /\ call \in Timer
  BY <1>1 DEF Row, Timer
<1>3. /\ rows[new].status = "free"
      /\ Admits(live, mode, capacity, units)
      /\ rows' = [r \in Rows |-> IF r = new THEN row
                                 ELSE IF r \in stale THEN Ended(rows[r], "expired")
                                 ELSE rows[r]]
      /\ timers' = timers \cup {call}
      /\ now' = now
  BY DEF Acquire
<1>4. ASSUME NEW r \in Rows
      PROVE  Ended(rows[r], "expired") \in Row /\ Ended(rows[r], "expired").status = "expired"
  BY <1>1, EndedRow
<1>5. rows' \in [Rows -> Row]
  BY <1>1, <1>2, <1>3, <1>4
<1>6. /\ rows'[new] = row
      /\ \A r \in Rows : r # new /\ rows'[r].status = "active" =>
            rows'[r] = rows[r] /\ r \notin stale
  BY <1>3, <1>4
<1>7. TypeOK'
  BY <1>1, <1>2, <1>3, <1>5 DEF TypeOK
<1>8. ReservationHasTimer'
  <2> SUFFICES ASSUME NEW r \in Rows, rows'[r].status = "active"
               PROVE  [row |-> r, generation |-> rows'[r].generation,
                       at |-> rows'[r].expiresAt] \in timers'
    BY DEF ReservationHasTimer
  <2>1. CASE r = new
    BY <1>3, <1>6, <2>1
  <2>2. CASE r # new
    BY <1>3, <1>6, <2>2 DEF Inv, ReservationHasTimer
  <2> QED
    BY <2>1, <2>2
<1>9. \A r \in Rows : r # new /\ Running(r)' => Running(r) /\ rows'[r] = rows[r]
  BY <1>3, <1>6 DEF Running
<1>10. \A r \in Rows : Running(r) /\ rows[r].resource = res => r \in live
  BY DEF Running, LiveOn, ActiveOn
<1>11. ASSUME NEW r \in Rows, r # new, Running(r)', rows'[r].resource = res
       PROVE  mode = "shared" /\ rows'[r].mode = "shared" /\ rows'[r].capacity = capacity
  <2>1. r \in live /\ rows'[r] = rows[r]
    BY <1>9, <1>10, <1>11
  <2>2. rows[r].mode \in {"exclusive", "shared"}
    BY <1>1 DEF Row
  <2> QED
    BY <1>3, <2>1, <2>2 DEF Admits
<1>12. row.resource = res /\ row.mode = mode /\ row.capacity = capacity
  OBVIOUS
<1> HIDE DEF live, stale, row, call
<1>13. ExclusiveIsAlone'
  <2> SUFFICES ASSUME NEW r \in Rows, NEW s \in Rows, Running(r)', Running(s)', r # s,
                      rows'[r].resource = rows'[s].resource
               PROVE  /\ rows'[r].mode = "shared" /\ rows'[s].mode = "shared"
                      /\ rows'[r].capacity = rows'[s].capacity
    BY DEF ExclusiveIsAlone
  <2>1. CASE r = new
    BY <1>6, <1>11, <1>12, <2>1
  <2>2. CASE s = new
    BY <1>6, <1>11, <1>12, <2>2
  <2>3. CASE r # new /\ s # new
    BY <1>9, <2>3 DEF Inv, ExclusiveIsAlone
  <2> QED
    BY <2>1, <2>2, <2>3
<1> QED
  BY <1>7, <1>8, <1>13 DEF Inv

\* release ends one row of its holder.
LEMMA ReleasePreserves ==
    ASSUME Inv, NEW a \in Actors, NEW r \in Rows, Release(a, r)
    PROVE  Inv'
<1>1. rows \in [Rows -> Row] /\ Ended(rows[r], "released") \in Row
      /\ Ended(rows[r], "released").status = "released"
  BY EndedRow DEF Inv, TypeOK
<1>2. rows' = [rows EXCEPT ![r] = Ended(rows[r], "released")] /\ timers' = timers /\ now' = now
  BY DEF Release
<1>3. /\ rows' \in [Rows -> Row]
      /\ \A s \in Rows : s \notin {r} => rows'[s] = rows[s]
      /\ \A s \in {r} : rows'[s].status # "active"
  BY <1>1, <1>2
<1>4. \A s \in Rows \ {r} : rows[s].status = "active" =>
         [row |-> s, generation |-> rows[s].generation, at |-> rows[s].expiresAt] \in timers'
  BY <1>2 DEF Inv, ReservationHasTimer
<1>5. {r} \in SUBSET Rows /\ timers' \subseteq timers /\ now' = now
  BY <1>2
<1> QED
  BY <1>3, <1>4, <1>5, EndingPreserves

\* A scheduled expiry call ends the row it was made for, or nothing.
LEMMA ExpirePreserves ==
    ASSUME Inv, NEW tm \in timers, ExpireScheduled(tm)
    PROVE  Inv'
<1> DEFINE r == tm.row
<1>1. /\ rows \in [Rows -> Row] /\ now \in Nat /\ r \in Rows
      /\ Ended(rows[r], "expired") \in Row
      /\ Ended(rows[r], "expired").status = "expired"
  BY EndedRow DEF Inv, TypeOK, Timer
<1>2. timers' = timers \ {tm} /\ now' = now /\ tm.at <= now
  BY DEF ExpireScheduled
<1>3. CASE rows' = [rows EXCEPT ![r] = Ended(rows[r], "expired")]
  <2>1. /\ rows' \in [Rows -> Row]
        /\ \A s \in Rows : s \notin {r} => rows'[s] = rows[s]
        /\ \A s \in {r} : rows'[s].status # "active"
    BY <1>1, <1>3
  <2>2. \A s \in Rows \ {r} : rows[s].status = "active" =>
           [row |-> s, generation |-> rows[s].generation, at |-> rows[s].expiresAt] \in timers'
    BY <1>2 DEF Inv, ReservationHasTimer
  <2>3. {r} \in SUBSET Rows /\ timers' \subseteq timers
    BY <1>1, <1>2
  <2> QED
    BY <1>2, <2>1, <2>2, <2>3, EndingPreserves
<1>4. CASE rows' = rows /\ ~(/\ rows[r].status = "active"
                             /\ rows[r].generation = tm.generation
                             /\ rows[r].expiresAt <= now)
  <2>1. \A s \in Rows : rows[s].status = "active" =>
           [row |-> s, generation |-> rows[s].generation, at |-> rows[s].expiresAt] \in timers'
    <3> SUFFICES ASSUME NEW s \in Rows, rows[s].status = "active",
                        [row |-> s, generation |-> rows[s].generation,
                         at |-> rows[s].expiresAt] = tm
                 PROVE  FALSE
      BY <1>2 DEF Inv, ReservationHasTimer
    <3>1. tm.row = s /\ tm.generation = rows[s].generation /\ tm.at = rows[s].expiresAt
      OBVIOUS
    <3> QED
      BY <1>2, <1>4, <3>1
  <2>2. TypeOK' /\ ExclusiveIsAlone'
    BY <1>2, <1>4 DEF Inv, TypeOK, ExclusiveIsAlone, Running
  <2>3. ReservationHasTimer'
    BY <1>4, <2>1 DEF ReservationHasTimer
  <2> QED
    BY <2>2, <2>3 DEF Inv
<1> QED
  BY <1>3, <1>4 DEF ExpireScheduled

\* Time only takes reservations out of the running set.
LEMMA TickPreserves ==
    ASSUME Inv, Tick
    PROVE  Inv'
<1>1. /\ rows \in [Rows -> Row] /\ now \in Nat /\ now' = now + 1
      /\ rows' = rows /\ timers' = timers /\ timers \subseteq Timer
  BY DEF Tick, Inv, TypeOK
<1>2. \A r \in Rows : Running(r)' => Running(r)
  BY <1>1 DEF Running, Row
<1> QED
  BY <1>1, <1>2 DEF Inv, TypeOK, ExclusiveIsAlone, ReservationHasTimer

\* The empty table satisfies the invariant.
LEMMA InitInv == Init => Inv
<1>1. Free \in Row /\ Free.status = "free"
  BY DEF Free, Row
<1> QED
  BY <1>1 DEF Init, Inv, TypeOK, ExclusiveIsAlone, ReservationHasTimer, Running

\* Every step preserves the invariant.
LEMMA NextInv == Inv /\ [Next]_vars => Inv'
<1> SUFFICES ASSUME Inv, [Next]_vars PROVE Inv'
  OBVIOUS
<1>1. CASE Acquires
  BY <1>1, AcquirePreserves DEF Acquires
<1>2. CASE Releases
  BY <1>2, ReleasePreserves DEF Releases
<1>3. CASE TimerSteps
  BY <1>3, ExpirePreserves DEF TimerSteps
<1>4. CASE Tick
  BY <1>4, TickPreserves
<1>5. CASE UNCHANGED vars
  BY <1>5 DEF vars, Inv, TypeOK, ExclusiveIsAlone, ReservationHasTimer, Running
<1> QED
  BY <1>1, <1>2, <1>3, <1>4, <1>5 DEF Next

-----------------------------------------------------------------------------
\* The inductive invariant holds in every reachable state.
THEOREM Invariance == Spec => []Inv
  BY InitInv, NextInv, PTL DEF Spec

\* Exclusive reservations exclude, shared ones agree on their capacity
\* (reservations.ts acquire).
THEOREM Exclusion == Spec => []ExclusiveIsAlone
<1>1. Inv => ExclusiveIsAlone
  BY DEF Inv
<1> QED
  BY <1>1, Invariance, PTL

\* No active reservation is ever without its expiry call (reservations.ts
\* acquire and expireScheduled).
THEOREM ReservationsHaveTimers == Spec => []ReservationHasTimer
<1>1. Inv => ReservationHasTimer
  BY DEF Inv
<1> QED
  BY <1>1, Invariance, PTL

\* A running reservation is ended by nobody but its holder, and an ended one
\* is final (the sweep in acquire, release and expireScheduled).
THEOREM OnlyHolderEndsReservation == Spec => RunningEndsByRelease
<1> DEFINE P(r) == /\ Running(r) /\ rows'[r] # rows[r] => Release(rows[r].holder, r)
                   /\ rows[r].status \in {"released", "expired"} => rows'[r] = rows[r]
<1>1. ASSUME Inv, [Next]_vars, NEW r \in Rows PROVE P(r)
  <2>1. rows \in [Rows -> Row] /\ now \in Nat /\ rows[r] \in Row
    BY <1>1 DEF Inv, TypeOK
  <2>2. CASE Acquires
    <3>1. PICK a \in Actors, res \in Resources, mode \in {"exclusive", "shared"},
               capacity \in Capacities, lease \in Leases, new \in Rows :
             \E units \in 1..capacity : Acquire(a, res, mode, capacity, units, lease, new)
      BY <2>2 DEF Acquires
    <3>2. PICK units \in 1..capacity : Acquire(a, res, mode, capacity, units, lease, new)
      BY <3>1
    <3>3. CASE r = new
      BY <3>2, <3>3 DEF Acquire, Running
    <3>4. CASE r # new /\ r \in ActiveOn(res) \ LiveOn(res)
      BY <3>4 DEF ActiveOn, LiveOn, Running
    <3>5. CASE r # new /\ r \notin ActiveOn(res) \ LiveOn(res)
      BY <3>2, <3>5 DEF Acquire
    <3> QED
      BY <3>3, <3>4, <3>5
  <2>3. CASE Releases
    BY <2>1, <2>3 DEF Releases, Release
  <2>4. CASE TimerSteps
    BY <1>1, <2>1, <2>4 DEF TimerSteps, ExpireScheduled, Running, Row, Inv, TypeOK, Timer
  <2>5. CASE Tick \/ UNCHANGED vars
    BY <2>5 DEF Tick, vars
  <2> QED
    BY <1>1, <2>2, <2>3, <2>4, <2>5 DEF Next
<1>2. Inv /\ [Next]_vars => [\A r \in Rows : P(r)]_vars
  BY <1>1
<1> QED
  BY <1>2, Invariance, PTL DEF Spec, RunningEndsByRelease

\* Every reachable table holds reservations as the schema declares them.
THEOREM TypeCorrect == Spec => []TypeOK
<1>1. Inv => TypeOK
  BY DEF Inv
<1> QED
  BY <1>1, Invariance, PTL

-----------------------------------------------------------------------------
(* The units in use.  Units takes the table as a parameter, so that the    *)
(* tables before and after a step can be compared.                         *)
Units(R, S) == MapThenSumSet(LAMBDA r : R[r].units, S)

LEMMA UnitsAreSum ==
    ASSUME NEW R, NEW S, IsFiniteSet(S)
    PROVE  \E F : IsSum(F, [r \in S |-> R[r].units], S) /\ Units(R, S) = F[S]
<1> DEFINE u == [r \in S |-> R[r].units]
           F0 == CHOOSE F : F = [s \in SUBSET S |->
                    IF s = {} THEN 0
                    ELSE R[First(s)].units + F[s \ {First(s)}]]
<1>1. Units(R, S) = F0[S]
  BY DEF Units, MapThenSumSet, MapThenFoldSet, First
<1>2. \A s \in SUBSET S : s # {} => u[First(s)] = R[First(s)].units
  BY FirstIsIn
<1>3. ASSUME NEW F, IsSum(F, u, S)
      PROVE  F = [s \in SUBSET S |->
                    IF s = {} THEN 0
                    ELSE R[First(s)].units + F[s \ {First(s)}]]
  BY <1>2, <1>3 DEF IsSum
<1>4. \E F : F = [s \in SUBSET S |->
                    IF s = {} THEN 0
                    ELSE R[First(s)].units + F[s \ {First(s)}]]
  BY <1>3, SumExists
<1>5. F0 = [s \in SUBSET S |->
                    IF s = {} THEN 0
                    ELSE R[First(s)].units + F0[s \ {First(s)}]]
  BY <1>4
<1> HIDE DEF F0
<1>6. IsSum(F0, u, S)
  BY <1>2, <1>5 DEF IsSum
<1> QED BY <1>1, <1>6

LEMMA UnitsOfRows == \A S : UnitsOf(S) = Units(rows, S)
BY DEF UnitsOf, Units, MapThenSumSet, MapThenFoldSet

\* Fewer rows with the units they had use no more.
LEMMA UnitsShrink ==
    ASSUME NEW S, IsFiniteSet(S), NEW T \in SUBSET S, NEW R, NEW Q,
           \A r \in S : R[r].units \in Nat, \A r \in T : Q[r].units = R[r].units
    PROVE  Units(Q, T) \in Nat /\ Units(R, S) \in Nat /\ Units(Q, T) <= Units(R, S)
<1> DEFINE u == [r \in S |-> R[r].units]
           v == [r \in T |-> Q[r].units]
<1>0. IsFiniteSet(T)
  BY FS_Subset
<1>1. PICK F : IsSum(F, u, S) /\ Units(R, S) = F[S]
  BY UnitsAreSum
<1>2. PICK G : IsSum(G, v, T) /\ Units(Q, T) = G[T]
  BY <1>0, UnitsAreSum
<1>3. NatOn(u, S) /\ Agree(u, v, T) /\ T \in SUBSET S /\ T \in SUBSET T
  BY DEF NatOn, Agree
<1> HIDE DEF u, v
<1>4. F[T] = G[T]
  <2>1. IsSum(F, u, S) /\ IsSum(G, v, T)
    BY <1>1, <1>2
  <2> QED BY <1>3, <2>1, SumAgrees
<1>5. F[T] <= F[S]
  BY <1>1, <1>3, SumGrows
<1>6. \A s \in SUBSET S : F[s] \in Nat
  BY <1>1, <1>3, SumIsNat
<1> QED BY <1>1, <1>2, <1>4, <1>5, <1>6

\* One row more uses its units more.
LEMMA UnitsAdd ==
    ASSUME NEW S, IsFiniteSet(S), NEW R, \A r \in S : R[r].units \in Nat, NEW x \in S
    PROVE  Units(R, S) = R[x].units + Units(R, S \ {x})
<1> DEFINE u == [r \in S |-> R[r].units]
           T == S \ {x}
           v == [r \in T |-> R[r].units]
<1>0. IsFiniteSet(T) /\ T \in SUBSET S
  BY FS_Subset
<1>1. PICK F : IsSum(F, u, S) /\ Units(R, S) = F[S]
  BY UnitsAreSum
<1>2. PICK G : IsSum(G, v, T) /\ Units(R, T) = G[T]
  BY <1>0, UnitsAreSum
<1>3. NatOn(u, S) /\ Agree(u, v, T) /\ T \in SUBSET S /\ T \in SUBSET T
  BY DEF NatOn, Agree
<1>3a. u[x] = R[x].units
  OBVIOUS
<1> HIDE DEF u, v, T
<1>4. F[T] = G[T]
  <2>1. IsSum(F, u, S) /\ IsSum(G, v, T)
    BY <1>1, <1>2
  <2> QED BY <1>0, <1>3, <2>1, SumAgrees
<1>5. F[S] = u[x] + F[S \ {x}]
  BY <1>1, <1>3, SumTakesOne
<1> QED BY <1>1, <1>2, <1>3a, <1>4, <1>5 DEF T

-----------------------------------------------------------------------------
(* Capacity.  Rows is any set of ids: that the sums are over finite sets   *)
(* follows from rows being inserted one at a time.                         *)
Inserted == {r \in Rows : rows[r].status # "free"}

CapacityInv == /\ IsFiniteSet(Inserted)
               /\ WithinCapacity

\* What runs on a resource has been inserted.
LEMMA LiveIsFinite ==
    ASSUME TypeOK, IsFiniteSet(Inserted), NEW res
    PROVE  /\ IsFiniteSet(LiveOn(res)) /\ LiveOn(res) \subseteq Rows
           /\ \A r \in LiveOn(res) : rows[r].units \in Nat /\ rows[r].capacity \in Nat
<1>1. LiveOn(res) \in SUBSET Inserted
  BY DEF LiveOn, ActiveOn, Inserted
<1>2. IsFiniteSet(LiveOn(res))
  BY <1>1, FS_Subset
<1> QED BY <1>1, <1>2 DEF TypeOK, Row, Inserted

\* A step that inserts nothing and only takes rows out of what is running
\* keeps every resource within its capacity.
LEMMA ShrinkingKeeps ==
    ASSUME TypeOK, CapacityInv, Inserted' \subseteq Inserted,
           \A res \in Resources : \A r \in LiveOn(res)' : r \in LiveOn(res) /\ rows'[r] = rows[r]
    PROVE  CapacityInv'
<1>1. IsFiniteSet(Inserted)'
  <2>1. IsFiniteSet(Inserted) /\ Inserted' \in SUBSET Inserted
    BY DEF CapacityInv
  <2> QED BY <2>1, FS_Subset
<1>2. WithinCapacity'
  <2> SUFFICES ASSUME NEW res \in Resources, NEW r \in LiveOn(res)'
               PROVE  UnitsOf(LiveOn(res))' <= rows'[r].capacity
    BY DEF WithinCapacity
  <2> DEFINE S == LiveOn(res)
             T == LiveOn(res)'
  <2>1. IsFiniteSet(S) /\ \A q \in S : rows[q].units \in Nat /\ rows[q].capacity \in Nat
    BY LiveIsFinite DEF CapacityInv
  <2>2. T \in SUBSET S /\ (\A q \in T : rows'[q].units = rows[q].units) /\ r \in S
        /\ rows'[r] = rows[r]
    OBVIOUS
  <2>3. Units(rows, S) <= rows[r].capacity
    BY <2>2, UnitsOfRows DEF CapacityInv, WithinCapacity
  <2>4. UnitsOf(LiveOn(res))' = Units(rows', T)
    BY DEF UnitsOf, Units, MapThenSumSet, MapThenFoldSet
  <2> HIDE DEF S, T
  <2>5. Units(rows', T) \in Nat /\ Units(rows, S) \in Nat /\ Units(rows', T) <= Units(rows, S)
    BY <2>1, <2>2, UnitsShrink
  <2> QED BY <2>1, <2>2, <2>3, <2>4, <2>5
<1> QED BY <1>1, <1>2 DEF CapacityInv

LEMMA NoRowNoUnits == \A R : Units(R, {}) = 0
<1> SUFFICES ASSUME NEW R PROVE Units(R, {}) = 0
  OBVIOUS
<1> DEFINE S == {}
           u == [r \in S |-> R[r].units]
<1>1. IsFiniteSet(S)
  BY FS_EmptySet
<1> HIDE DEF S
<1>2. PICK F : IsSum(F, u, S) /\ Units(R, S) = F[S]
  BY <1>1, UnitsAreSum
<1> HIDE DEF u
<1>3. F[{}] = 0
  BY <1>2, SumEquation
<1> QED BY <1>2, <1>3 DEF S

\* acquire: what it inserts fits into the capacity with everything running.
LEMMA AcquireKeepsCapacity ==
    ASSUME Inv, CapacityInv, NEW a \in Actors, NEW res \in Resources,
           NEW mode \in {"exclusive", "shared"}, NEW capacity \in Capacities,
           NEW units \in 1..capacity, NEW lease \in Leases, NEW new \in Rows,
           Acquire(a, res, mode, capacity, units, lease, new)
    PROVE  CapacityInv'
<1> DEFINE live == LiveOn(res)
           row == [status |-> "active", resource |-> res, mode |-> mode,
                   capacity |-> capacity, units |-> units, holder |-> a,
                   generation |-> 1, expiresAt |-> now + lease]
<1>1. /\ TypeOK /\ rows \in [Rows -> Row] /\ now \in Nat /\ lease \in Nat \ {0}
      /\ capacity \in Nat /\ units \in Nat
  BY LeasesAssumption, CapacitiesAssumption DEF Inv, TypeOK
<1>2. /\ Admits(live, mode, capacity, units) /\ units <= capacity
      /\ mode = "exclusive" => capacity = 1 /\ units = 1
      /\ rows' = [r \in Rows |-> IF r = new THEN row
                                 ELSE IF r \in ActiveOn(res) \ live THEN Ended(rows[r], "expired")
                                 ELSE rows[r]]
      /\ now' = now
  BY DEF Acquire
<1>3. /\ rows'[new] = row
      /\ \A r \in Rows \ {new} : rows'[r] = rows[r] \/ rows'[r] = Ended(rows[r], "expired")
      /\ \A r \in Rows \ {new} : r \in ActiveOn(res) \ live => rows'[r].status = "expired"
      /\ \A r \in Rows \ {new} : r \notin ActiveOn(res) \ live => rows'[r] = rows[r]
  BY <1>2 DEF Ended
<1>4. /\ row.status = "active" /\ row.resource = res /\ row.units = units
      /\ row.capacity = capacity /\ row.expiresAt = now + lease
  OBVIOUS
<1>5. IsFiniteSet(Inserted) /\ IsFiniteSet(live)
      /\ \A r \in live : rows[r].units \in Nat /\ rows[r].capacity \in Nat
  BY <1>1, LiveIsFinite DEF CapacityInv
<1>6. IsFiniteSet(Inserted')
  <2>1. Inserted' \in SUBSET (Inserted \cup {new})
    BY <1>3 DEF Inserted, ActiveOn
  <2>2. IsFiniteSet(Inserted \cup {new})
    BY <1>5, FS_AddElement
  <2> QED BY <2>1, <2>2, FS_Subset
<1>7. ASSUME NEW other, NEW r \in LiveOn(other)', r # new
      PROVE  r \in LiveOn(other) /\ rows'[r] = rows[r]
  <2>1. r \in Rows /\ rows'[r].status = "active"
    BY DEF LiveOn, ActiveOn
  <2>2. rows'[r] = rows[r]
    BY <1>3, <1>7, <2>1
  <2> QED BY <1>2, <2>1, <2>2 DEF LiveOn, ActiveOn
<1> HIDE DEF row
<1>8. ASSUME NEW other \in Resources, other # res, NEW r \in LiveOn(other)'
      PROVE  UnitsOf(LiveOn(other))' <= rows'[r].capacity
  <2> DEFINE S == LiveOn(other)
             T == LiveOn(other)'
  <2>0. new \notin T
    BY <1>3, <1>4, <1>8 DEF LiveOn, ActiveOn
  <2>1. IsFiniteSet(S) /\ \A q \in S : rows[q].units \in Nat /\ rows[q].capacity \in Nat
    BY <1>1, <1>5, LiveIsFinite
  <2>2. T \in SUBSET S /\ (\A q \in T : rows'[q].units = rows[q].units) /\ r \in S
        /\ rows'[r] = rows[r]
    BY <1>7, <1>8, <2>0
  <2>3. Units(rows, S) <= rows[r].capacity
    BY <1>8, <2>2, UnitsOfRows DEF CapacityInv, WithinCapacity
  <2>4. UnitsOf(LiveOn(other))' = Units(rows', T)
    BY DEF UnitsOf, Units, MapThenSumSet, MapThenFoldSet
  <2> HIDE DEF S, T
  <2>5. Units(rows', T) \in Nat /\ Units(rows, S) \in Nat /\ Units(rows', T) <= Units(rows, S)
    BY <2>1, <2>2, UnitsShrink
  <2> QED BY <2>1, <2>2, <2>3, <2>4, <2>5
<1>9. ASSUME NEW r \in LiveOn(res)'
      PROVE  UnitsOf(LiveOn(res))' <= rows'[r].capacity
  <2> DEFINE T == LiveOn(res)'
             W == T \ {new}
  <2>1. UnitsOf(LiveOn(res))' = Units(rows', T)
    BY DEF UnitsOf, Units, MapThenSumSet, MapThenFoldSet
  <2>2. new \in T
    BY <1>1, <1>2, <1>3, <1>4 DEF LiveOn, ActiveOn
  <2>3. W \in SUBSET live /\ \A q \in W : rows'[q] = rows[q]
    BY <1>7
  <2>4. IsFiniteSet(T) /\ \A q \in T : rows'[q].units \in Nat
    <3>1. T \in SUBSET (live \cup {new})
      BY <2>3
    <3>2. IsFiniteSet(live \cup {new})
      BY <1>5, FS_AddElement
    <3>3. IsFiniteSet(T)
      BY <3>1, <3>2, FS_Subset
    <3> QED BY <1>1, <1>3, <1>4, <1>5, <2>3, <3>3
  <2>5. r \in T
    OBVIOUS
  <2> HIDE DEF live, T
  <2>6. Units(rows', T) = units + Units(rows', W)
    BY <1>3, <1>4, <2>2, <2>4, UnitsAdd
  <2> HIDE DEF W
  <2>7. /\ Units(rows', W) \in Nat /\ Units(rows, live) \in Nat
        /\ Units(rows', W) <= Units(rows, live)
    BY <1>5, <2>3, UnitsShrink
  <2>8. CASE mode = "exclusive"
    <3>1. live = {} /\ capacity = 1 /\ units = 1
      BY <1>2, <2>8 DEF Admits
    <3>2. r = new /\ Units(rows', W) = 0
      BY <2>3, <2>5, <3>1, NoRowNoUnits DEF W
    <3> QED BY <1>3, <1>4, <2>1, <2>6, <3>1, <3>2
  <2>9. CASE mode = "shared"
    <3>1. UnitsOf(live) + units <= capacity /\ \A q \in live : rows[q].capacity = capacity
      BY <1>2, <2>9 DEF Admits
    <3>2. rows'[r].capacity = capacity
      BY <1>3, <1>4, <2>3, <2>5, <3>1 DEF W
    <3>3. Units(rows, live) + units <= capacity
      BY <3>1, UnitsOfRows
    <3> QED BY <1>1, <2>1, <2>6, <2>7, <3>2, <3>3
  <2> QED BY <2>8, <2>9
<1>10. WithinCapacity'
  BY <1>8, <1>9 DEF WithinCapacity
<1> QED BY <1>6, <1>10 DEF CapacityInv

\* No reservation starts to run in a step, and no time goes back.
OnlyEnds ==
    /\ \A r \in Rows : \/ rows'[r] = rows[r]
                       \/ rows[r].status = "active" /\ rows'[r].status # "active"
    /\ now' \in Nat /\ now <= now'

LEMMA OnlyEndsKeepsCapacity ==
    ASSUME Inv, CapacityInv, OnlyEnds
    PROVE  CapacityInv'
<1>0. TypeOK /\ rows \in [Rows -> Row] /\ now \in Nat
  BY DEF Inv, TypeOK
<1>1. Inserted' \subseteq Inserted
  BY DEF Inserted, OnlyEnds
<1>2. ASSUME NEW res \in Resources, NEW r \in LiveOn(res)'
      PROVE  r \in LiveOn(res) /\ rows'[r] = rows[r]
  <2>1. r \in Rows /\ rows'[r] = rows[r] /\ rows'[r].expiresAt > now'
        /\ rows'[r].status = "active" /\ rows'[r].resource = res
    BY DEF LiveOn, ActiveOn, OnlyEnds
  <2>2. rows[r].expiresAt \in Nat
    BY <1>0, <2>1 DEF Row
  <2>3. rows[r].expiresAt > now
    BY <1>0, <2>1, <2>2 DEF OnlyEnds
  <2> QED BY <2>1, <2>3 DEF LiveOn, ActiveOn
<1> QED BY <1>0, <1>1, <1>2, ShrinkingKeeps

LEMMA NextKeepsCapacity == Inv /\ CapacityInv /\ [Next]_vars => CapacityInv'
<1> SUFFICES ASSUME Inv, CapacityInv, [Next]_vars PROVE CapacityInv'
  OBVIOUS
<1>0. TypeOK /\ rows \in [Rows -> Row] /\ now \in Nat
  BY DEF Inv, TypeOK
<1>1. CASE Acquires
  BY <1>1, AcquireKeepsCapacity DEF Acquires
<1>3. CASE Releases
  <2>1. PICK a \in Actors, r \in Rows : Release(a, r)
    BY <1>3 DEF Releases
  <2>2. rows' = [rows EXCEPT ![r] = Ended(rows[r], "released")] /\ now' = now
        /\ rows[r].status = "active" /\ Ended(rows[r], "released").status = "released"
    BY <2>1 DEF Release, Ended
  <2>3. OnlyEnds
    BY <1>0, <2>2 DEF OnlyEnds
  <2> QED BY <2>3, OnlyEndsKeepsCapacity
<1>4. CASE TimerSteps
  <2>1. PICK tm \in timers : ExpireScheduled(tm)
    BY <1>4 DEF TimerSteps
  <2>2. now' = now
    BY <2>1 DEF ExpireScheduled
  <2>3. tm.row \in Rows
    BY <2>1 DEF Inv, TypeOK, Timer
  <2>4. \/ rows' = rows
        \/ /\ rows' = [rows EXCEPT ![tm.row] = Ended(rows[tm.row], "expired")]
           /\ rows[tm.row].status = "active"
    BY <2>1 DEF ExpireScheduled
  <2>5. Ended(rows[tm.row], "expired").status = "expired"
    BY DEF Ended
  <2>6. OnlyEnds
    BY <1>0, <2>2, <2>3, <2>4, <2>5 DEF OnlyEnds
  <2> QED BY <2>6, OnlyEndsKeepsCapacity
<1>5. CASE Tick \/ UNCHANGED vars
  <2>1. OnlyEnds
    BY <1>0, <1>5 DEF OnlyEnds, Tick, vars
  <2> QED BY <2>1, OnlyEndsKeepsCapacity
<1> QED
  BY <1>1, <1>3, <1>4, <1>5 DEF Next

LEMMA InitCapacity == Init => CapacityInv
<1> SUFFICES ASSUME Init PROVE CapacityInv
  OBVIOUS
<1>1. \A r \in Rows : rows[r].status = "free"
  BY DEF Init, Free
<1>2. Inserted = {} /\ \A res : LiveOn(res) = {}
  BY <1>1 DEF Inserted, LiveOn, ActiveOn
<1> QED BY <1>2, FS_EmptySet DEF CapacityInv, WithinCapacity

\* The reservations running on a resource never use more units than the
\* capacity any of them was granted against, however many there are: acquire
\* compares with the sum it reads, and no other step adds to it.
THEOREM CapacityIsKept == Spec => []WithinCapacity
<1>1. CapacityInv => WithinCapacity
  BY DEF CapacityInv
<1>2. Spec => []CapacityInv
  BY InitCapacity, NextKeepsCapacity, Invariance, PTL DEF Spec
<1> QED
  BY <1>1, <1>2, PTL
=============================================================================
