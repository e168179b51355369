-------------------------- MODULE ItemClaimsProofs --------------------------
(***************************************************************************)
(* Proofs about ItemClaims, for any number of actors, items and keys, any  *)
(* lease lengths and any bounds.                                           *)
(***************************************************************************)
EXTENDS ItemClaims, TLAPS

\* A row no mutation has inserted is untouched, and no event is about it.
AbsentUntouched ==
    /\ \A i \in Items : items[i].status = "absent" => items[i] = Absent
    /\ \A e \in events : items[e.item].status # "absent"

\* What the refinement needs of it.
AbsentUnfenced == \A i \in Items : items[i].status = "absent" => items[i].generation = 0

\* The inductive invariant.
Inv ==
    /\ TypeOK
    /\ ClaimShape
    /\ ClaimHasTimer
    /\ KeysUnique
    /\ KeyedFencesDistinct
    /\ KeyedGrantNamesHolder
    /\ AbsentUntouched

RowShape(row) ==
    /\ row.status = "active" <=> row.holder # Nobody
    /\ row.status = "active" <=> row.expiresAt # 0

\* What the client operations have in common: one row is replaced under a
\* larger fence, one event with a free key may be appended, and a claim that
\* is granted comes with its expiry call.
Rewrites(a, i, k, type, row) ==
    /\ KeyFree(k)
    /\ \/ items[i].status = "absent" /\ row.holder = Nobody
       \/ row.generation > items[i].generation
    /\ row \in Item
    /\ row.status # "absent"
    /\ RowShape(row)
    /\ row.holder = Nobody \/ (row.holder = a /\ row.expiresAt > now)
    /\ type \in EventTypes
    /\ type \in {"claim.created", "claim.renewed"} => row.holder = a
    /\ items' = [items EXCEPT ![i] = row]
    /\ timers \subseteq timers'
    /\ timers' \subseteq Timer
    /\ row.status = "active" =>
          [item |-> i, generation |-> row.generation, at |-> row.expiresAt]
             \in timers'
    /\ AppendEvent(k, type, i, a, row.generation)
    /\ now' = now

-----------------------------------------------------------------------------
\* Lazy expiry keeps a row well formed and never lowers its fence.
LEMMA CurrentRow ==
    ASSUME TypeOK, ClaimShape, NEW i \in Items
    PROVE  /\ Current(i) \in Item
           /\ RowShape(Current(i))
           /\ Current(i).generation >= items[i].generation
           /\ Current(i).status = "absent" <=> items[i].status = "absent"
           /\ items[i].status = "absent" => Current(i) = items[i]
           /\ Live(items[i], now) => Current(i) = items[i]
           /\ Current(i).status = "active" => Current(i) = items[i] /\ Live(items[i], now)
<1>1. items[i] \in Item /\ now \in Nat
  BY DEF TypeOK
<1>2. RowShape(items[i])
  BY DEF ClaimShape, RowShape
<1>3. CASE Lapsed(items[i], now)
  BY <1>1, <1>2, <1>3 DEF Current, ExpireClaimIfNeeded, Lapsed, Live, Unclaimed, Item, Statuses, RowShape
<1>4. CASE ~Lapsed(items[i], now)
  BY <1>1, <1>2, <1>4 DEF Current, ExpireClaimIfNeeded, Lapsed, Live, Item, Statuses, RowShape
<1> QED
  BY <1>3, <1>4

\* A claim just granted is well formed.
LEMMA ClaimedRow ==
    ASSUME NEW row \in Item, NEW a \in Actors, NEW t \in Nat, NEW lease \in Leases
    PROVE  /\ ClaimedBy(row, a, t + lease) \in Item
           /\ RowShape(ClaimedBy(row, a, t + lease))
           /\ Live(ClaimedBy(row, a, t + lease), t)
           /\ ClaimedBy(row, a, t + lease).generation = row.generation + 1
           /\ ClaimedBy(row, a, t + lease).holder = a
           /\ ClaimedBy(row, a, t + lease).status = "active"
<1>1. lease \in Nat /\ lease > 0
  BY LeasesAssumption
<1>2. a # Nobody
  BY NobodyAssumption
<1> QED
  BY <1>1, <1>2 DEF ClaimedBy, Item, Statuses, RowShape, Live

\* An ended claim leaves a well formed row.
LEMMA UnclaimedRow ==
    ASSUME NEW row \in Item, NEW st \in {"ready", "blocked", "done"}
    PROVE  /\ Unclaimed(row, st) \in Item
           /\ RowShape(Unclaimed(row, st))
           /\ Unclaimed(row, st).generation = row.generation + 1
           /\ Unclaimed(row, st).holder = Nobody
           /\ Unclaimed(row, st).status = st
  BY DEF Unclaimed, Item, Statuses, RowShape

-----------------------------------------------------------------------------
\* A rewrite preserves the inductive invariant.
LEMMA RewritePreserves ==
    ASSUME Inv, NEW a \in Actors, NEW i \in Items, NEW k \in Keys \cup {NoKey},
           NEW type, NEW row, Rewrites(a, i, k, type, row)
    PROVE  Inv'
<1> DEFINE new == [key |-> k, type |-> type, item |-> i, actor |-> a,
                   generation |-> row.generation]
<1> USE DEF Rewrites
<1>1. /\ items \in [Items -> Item] /\ timers \subseteq Timer
      /\ events \subseteq Event /\ now \in Nat
  BY DEF Inv, TypeOK
<1>2. /\ items' \in [Items -> Item]
      /\ items'[i] = row
      /\ \A j \in Items : j # i => items'[j] = items[j]
  BY <1>1
<1>3. /\ events' = events \/ (k \in Keys /\ events' = events \cup {new})
      /\ k \in Keys => new \in Event
  BY <1>1, NoKeyAssumption DEF AppendEvent, Event, Item
<1>4. \A e \in events : e \in Event /\ e.item \in Items /\ e.key # k
  BY <1>1 DEF KeyFree, Event
<1>5. \A e \in events : /\ e.item = i => items[i].status # "absent"
                        /\ e.item = i => row.generation > e.generation
  <2> SUFFICES ASSUME NEW e \in events, e.item = i
               PROVE  items[i].status # "absent" /\ row.generation > e.generation
    OBVIOUS
  <2>1. items[i].status # "absent"
    BY DEF Inv, AbsentUntouched
  <2>2. e.generation <= items[i].generation
    BY DEF Inv, KeyedFencesDistinct
  <2> QED
    BY <1>1, <1>4, <2>1, <2>2 DEF Item, Event
<1>6. TypeOK'
  BY <1>1, <1>2, <1>3 DEF TypeOK
<1>7. ClaimShape'
  BY <1>2 DEF Inv, ClaimShape, RowShape
<1>8. ClaimHasTimer'
  BY <1>2 DEF Inv, ClaimHasTimer
<1>9. KeysUnique'
  BY <1>3, <1>4 DEF Inv, KeysUnique
<1>10. KeyedFencesDistinct'
  <2>1. \A e \in events : e.generation <= items'[e.item].generation
    BY <1>1, <1>2, <1>4, <1>5 DEF Inv, KeyedFencesDistinct, Item, Event
  <2>2. row.generation <= items'[i].generation
    BY <1>2 DEF Item
  <2>3. \A e \in events' : e.generation <= items'[e.item].generation
    BY <1>3, <2>1, <2>2
  <2>4. \A e \in events : ~(e.item = i /\ e.generation = row.generation)
    BY <1>4, <1>5 DEF Event, Item
  <2>5. \A e, f \in events' :
           e.item = f.item /\ e.generation = f.generation => e.key = f.key
    BY <1>3, <2>4 DEF Inv, KeyedFencesDistinct
  <2> QED
    BY <2>3, <2>5 DEF KeyedFencesDistinct
<1>11. KeyedGrantNamesHolder'
  <2>1. \A e \in events : e.item = i => e.generation # items'[i].generation
    BY <1>2, <1>4, <1>5 DEF Event, Item
  <2>2. \A e \in events : e.item # i => items'[e.item] = items[e.item]
    BY <1>2, <1>4
  <2> QED
    BY <1>2, <1>3, <2>1, <2>2 DEF Inv, KeyedGrantNamesHolder
<1>12. AbsentUntouched'
  BY <1>2, <1>3, <1>4 DEF Inv, AbsentUntouched
<1> QED
  BY <1>6, <1>7, <1>8, <1>9, <1>10, <1>11, <1>12 DEF Inv

-----------------------------------------------------------------------------
(* Each client operation is a rewrite of the row it names. *)

\* items.create inserts a fresh row.
LEMMA CreateRewrites ==
    ASSUME TypeOK, ClaimShape, NEW a \in Actors, NEW i \in Items, NEW k \in Keys \cup {NoKey},
           Create(a, i, k)
    PROVE  \E type, row : Rewrites(a, i, k, type, row)
<1>1. Rewrites(a, i, k, "item.created", NewItem)
  <2>1. NewItem \in Item /\ RowShape(NewItem) /\ NewItem.status = "ready"
           /\ NewItem.generation = 0 /\ NewItem.holder = Nobody
    BY DEF NewItem, Absent, Item, Statuses, RowShape
  <2>2. timers \subseteq Timer
    BY DEF TypeOK
  <2> QED
    BY <2>1, <2>2 DEF Create, Rewrites, EventTypes
<1> QED
  BY <1>1

\* claims.acquire grants a claim under the next fence.
LEMMA AcquireRewrites ==
    ASSUME TypeOK, ClaimShape, NEW a \in Actors, NEW i \in Items, NEW k \in Keys \cup {NoKey},
           NEW lease \in Leases, Acquire(a, i, lease, k)
    PROVE  \E type, row : Rewrites(a, i, k, type, row)
<1> DEFINE row == ClaimedBy(Current(i), a, now + lease)
<1>1. now \in Nat /\ timers \subseteq Timer /\ items[i] \in Item
  BY DEF TypeOK
<1>2. /\ Current(i) \in Item
      /\ Current(i).generation >= items[i].generation
  BY CurrentRow
<1>3. /\ row \in Item /\ RowShape(row) /\ row.holder = a /\ row.status = "active"
      /\ row.generation = Current(i).generation + 1
      /\ row.expiresAt > now
  BY <1>1, <1>2, ClaimedRow DEF Live
<1>4. [item |-> i, generation |-> row.generation, at |-> row.expiresAt] \in Timer
  BY <1>3 DEF Timer, Item
<1>5. /\ KeyFree(k) /\ items' = [items EXCEPT ![i] = row] /\ now' = now
      /\ AppendEvent(k, "claim.created", i, a, row.generation)
      /\ ScheduleExpiry(i, row.generation, row.expiresAt)
  BY DEF Acquire
<1>6. row.generation > items[i].generation
  BY <1>1, <1>2, <1>3 DEF Item
<1> HIDE DEF row
<1>7. Rewrites(a, i, k, "claim.created", row)
  BY <1>1, <1>3, <1>4, <1>5, <1>6 DEF Rewrites, ScheduleExpiry, EventTypes
<1> QED
  BY <1>7

\* claims.renew extends a claim under the next fence.
LEMMA RenewRewrites ==
    ASSUME TypeOK, ClaimShape, NEW a \in Actors, NEW i \in Items, NEW k \in Keys \cup {NoKey},
           NEW expected \in Nat, NEW lease \in Leases,
           Renew(a, i, expected, lease, k)
    PROVE  \E type, row : Rewrites(a, i, k, type, row)
<1> DEFINE row == [status |-> Current(i).status, holder |-> Current(i).holder,
                   expiresAt |-> now + lease, generation |-> expected + 1]
<1>1. now \in Nat /\ timers \subseteq Timer /\ items[i] \in Item
      /\ lease \in Nat /\ lease > 0 /\ a # Nobody
  BY LeasesAssumption, NobodyAssumption DEF TypeOK
<1>2. /\ Current(i) \in Item
      /\ Current(i).generation >= items[i].generation
  BY CurrentRow
<1>3. /\ KeyFree(k) /\ items' = [items EXCEPT ![i] = row] /\ now' = now
      /\ AppendEvent(k, "claim.renewed", i, a, row.generation)
      /\ ScheduleExpiry(i, row.generation, row.expiresAt)
      /\ Current(i).status = "active" /\ Current(i).holder = a
      /\ Current(i).generation = expected
  BY DEF Renew
<1>4. /\ row \in Item /\ RowShape(row) /\ row.holder = a /\ row.status = "active"
      /\ row.generation = expected + 1 /\ row.expiresAt > now
  BY <1>1, <1>2, <1>3 DEF Item, RowShape
<1>5. [item |-> i, generation |-> row.generation, at |-> row.expiresAt] \in Timer
  BY <1>4 DEF Timer, Item
<1>6. row.generation > items[i].generation
  BY <1>1, <1>2, <1>3, <1>4 DEF Item
<1> HIDE DEF row
<1>7. Rewrites(a, i, k, "claim.renewed", row)
  BY <1>1, <1>3, <1>4, <1>5, <1>6 DEF Rewrites, ScheduleExpiry, EventTypes
<1> QED
  BY <1>7

\* claims.release ends a claim under the next fence.
LEMMA ReleaseRewrites ==
    ASSUME TypeOK, ClaimShape, NEW a \in Actors, NEW i \in Items, NEW k \in Keys \cup {NoKey},
           NEW expected \in Nat, Release(a, i, expected, k)
    PROVE  \E type, row : Rewrites(a, i, k, type, row)
<1> DEFINE row == Unclaimed(Current(i), "ready")
<1>1. timers \subseteq Timer /\ items[i] \in Item
  BY DEF TypeOK
<1>2. /\ Current(i) \in Item
      /\ Current(i).generation >= items[i].generation
  BY CurrentRow
<1>3. /\ row \in Item /\ RowShape(row) /\ row.status = "ready" /\ row.holder = Nobody
      /\ row.generation = Current(i).generation + 1
  BY <1>2, UnclaimedRow
<1>4. /\ KeyFree(k) /\ items' = [items EXCEPT ![i] = row] /\ now' = now
      /\ timers' = timers
      /\ Current(i).generation = expected
      /\ AppendEvent(k, "claim.released", i, a, expected + 1)
  BY DEF Release
<1>5. row.generation > items[i].generation /\ row.generation = expected + 1
  BY <1>1, <1>2, <1>3, <1>4 DEF Item
<1> HIDE DEF row
<1>6. Rewrites(a, i, k, "claim.released", row)
  BY <1>1, <1>3, <1>4, <1>5 DEF Rewrites, EventTypes
<1> QED
  BY <1>6

\* items.complete, handoff, block and unblock move the item, unclaimed, under
\* the next fence.
LEMMA TransitionRewrites ==
    ASSUME TypeOK, ClaimShape, NEW a \in Actors, NEW i \in Items, NEW k \in Keys \cup {NoKey},
           NEW expected \in Nat, NEW op \in Operations,
           Transition(op, a, i, expected, k)
    PROVE  \E type, row : Rewrites(a, i, k, type, row)
<1> DEFINE row == Unclaimed(Current(i), MovesTo[op])
<1>1. timers \subseteq Timer /\ items[i] \in Item
  BY DEF TypeOK
<1>2. /\ Current(i) \in Item
      /\ Current(i).generation >= items[i].generation
  BY CurrentRow
<1>3. MovesTo[op] \in {"ready", "blocked", "done"}
  BY DEF MovesTo, Operations
<1>4. /\ row \in Item /\ RowShape(row) /\ row.holder = Nobody
      /\ row.status \notin {"absent", "active"}
      /\ row.generation = Current(i).generation + 1
  BY <1>2, <1>3, UnclaimedRow
<1>5. /\ KeyFree(k) /\ items' = [items EXCEPT ![i] = row] /\ now' = now
      /\ timers' = timers
      /\ Current(i).generation = expected
      /\ AppendEvent(k, EventType[op], i, a, expected + 1)
  BY DEF Transition
<1>6. row.generation > items[i].generation /\ row.generation = expected + 1
  BY <1>1, <1>2, <1>4, <1>5 DEF Item
<1>7. EventType[op] \in EventTypes
      /\ EventType[op] \notin {"claim.created", "claim.renewed"}
  BY DEF EventTypes, EventType, Operations
<1> HIDE DEF row
<1>8. Rewrites(a, i, k, EventType[op], row)
  BY <1>1, <1>4, <1>5, <1>6, <1>7 DEF Rewrites
<1> QED
  BY <1>8

\* Whatever a client asks for, if it takes effect, is a rewrite.
LEMMA ClientStepRewrites ==
    ASSUME TypeOK, ClaimShape, NEW a \in Actors, NEW i \in Items, NEW k \in Keys \cup {NoKey},
           ClientStep(a, i, k)
    PROVE  \E type, row : Rewrites(a, i, k, type, row)
<1>1. 0..MaxGeneration \subseteq Nat
  BY BoundsAssumption
<1> QED
  BY <1>1, CreateRewrites, AcquireRewrites, RenewRewrites, ReleaseRewrites,
     TransitionRewrites DEF ClientStep

-----------------------------------------------------------------------------
\* A late, duplicate-looking or obsolete expiry call preserves the invariant.
LEMMA ExpirePreserves ==
    ASSUME Inv, NEW tm \in timers, ExpireScheduled(tm)
    PROVE  Inv'
<1> DEFINE i == tm.item
           row == Unclaimed(items[i], "ready")
<1>1. /\ items \in [Items -> Item] /\ timers \subseteq Timer
      /\ events \subseteq Event /\ now \in Nat
      /\ tm \in Timer /\ i \in Items /\ items[i] \in Item
  BY DEF Inv, TypeOK, Timer
<1>2. timers' = timers \ {tm} /\ events' = events /\ now' = now
  BY DEF ExpireScheduled
<1>3. CASE items' = items /\ ~(/\ items[i].status = "active"
                              /\ items[i].generation = tm.generation
                              /\ items[i].expiresAt # 0
                              /\ items[i].expiresAt <= now)
  <2>1. \A j \in Items : items[j].status = "active" =>
           [item |-> j, generation |-> items[j].generation,
            at |-> items[j].expiresAt] # tm
    <3> SUFFICES ASSUME NEW j \in Items, items[j].status = "active",
                        tm = [item |-> j, generation |-> items[j].generation,
                              at |-> items[j].expiresAt]
                 PROVE  FALSE
      OBVIOUS
    <3>1. tm.item = j /\ tm.generation = items[j].generation /\ tm.at = items[j].expiresAt
      OBVIOUS
    <3>2. items[j].expiresAt # 0
      BY DEF Inv, ClaimShape
    <3>3. tm.at <= now
      BY DEF ExpireScheduled
    <3> QED
      BY <1>3, <3>1, <3>2, <3>3
  <2>2. ClaimHasTimer'
    BY <1>2, <1>3, <2>1 DEF Inv, ClaimHasTimer
  <2>3. TypeOK'
    BY <1>1, <1>2, <1>3 DEF TypeOK
  <2> QED
    BY <1>2, <1>3, <2>2, <2>3 DEF Inv, ClaimShape, KeysUnique,
       KeyedFencesDistinct, KeyedGrantNamesHolder, AbsentUntouched
<1>4. CASE /\ items[i].status = "active"
           /\ items' = [items EXCEPT ![i] = row]
  <2>1. /\ row \in Item /\ RowShape(row) /\ row.status = "ready"
        /\ row.generation = items[i].generation + 1
    BY <1>1, UnclaimedRow
  <2> HIDE DEF row
  <2>2. /\ items' \in [Items -> Item] /\ items'[i] = row
        /\ \A j \in Items : j # i => items'[j] = items[j]
    BY <1>1, <1>4, <2>1
  <2>3. \A e \in events : e \in Event /\ e.item \in Items
    BY <1>1 DEF Event
  <2>4. \A e \in events : e.item = i => e.generation < row.generation
    BY <1>1, <2>1, <2>3 DEF Inv, KeyedFencesDistinct, Item, Event
  <2>5. TypeOK'
    BY <1>1, <1>2, <2>2 DEF TypeOK
  <2>6. ClaimShape'
    BY <2>1, <2>2 DEF Inv, ClaimShape, RowShape
  <2>7. ClaimHasTimer'
    <3> SUFFICES ASSUME NEW j \in Items, items'[j].status = "active"
                 PROVE  [item |-> j, generation |-> items'[j].generation,
                         at |-> items'[j].expiresAt] \in timers'
      BY DEF ClaimHasTimer
    <3>1. j # i /\ items'[j] = items[j]
      BY <2>1, <2>2
    <3>2. [item |-> j, generation |-> items[j].generation,
           at |-> items[j].expiresAt] \in timers
      BY <3>1 DEF Inv, ClaimHasTimer
    <3> QED
      BY <1>2, <3>1, <3>2
  <2>8. KeysUnique'
    BY <1>2 DEF Inv, KeysUnique
  <2>9. KeyedFencesDistinct'
    <3>1. \A e \in events : e.generation <= items'[e.item].generation
      BY <2>1, <2>2, <2>3, <2>4 DEF Inv, KeyedFencesDistinct, Item, Event
    <3> QED
      BY <1>2, <3>1 DEF Inv, KeyedFencesDistinct
  <2>10. KeyedGrantNamesHolder'
    <3>1. \A e \in events : e.item = i => e.generation # items'[i].generation
      BY <2>1, <2>2, <2>3, <2>4 DEF Item, Event
    <3> QED
      BY <1>2, <2>2, <2>3, <3>1 DEF Inv, KeyedGrantNamesHolder
  <2>11. AbsentUntouched'
    BY <1>2, <2>1, <2>2, <2>3 DEF Inv, AbsentUntouched
  <2> QED
    BY <2>5, <2>6, <2>7, <2>8, <2>9, <2>10, <2>11 DEF Inv
<1> QED
  BY <1>3, <1>4 DEF ExpireScheduled

\* The clock moves nothing the invariant speaks of.
LEMMA TickPreserves ==
    ASSUME Inv, Tick
    PROVE  Inv'
  BY DEF Inv, Tick, TypeOK, ClaimShape, ClaimHasTimer, KeysUnique,
     KeyedFencesDistinct, KeyedGrantNamesHolder, AbsentUntouched

\* Nothing happens on a stuttering step or on a replay.
LEMMA StutterPreserves ==
    ASSUME Inv, UNCHANGED vars
    PROVE  Inv'
  BY DEF Inv, vars, TypeOK, ClaimShape, ClaimHasTimer, KeysUnique,
     KeyedFencesDistinct, KeyedGrantNamesHolder, AbsentUntouched

\* The empty ledger satisfies the invariant.
LEMMA InitInv == Init => Inv
<1> SUFFICES ASSUME Init PROVE Inv
  OBVIOUS
<1>1. Absent \in Item /\ RowShape(Absent) /\ Absent.status = "absent"
  BY DEF Absent, Item, Statuses, RowShape
<1>2. \A i \in Items : items[i] = Absent
  BY DEF Init
<1> QED
  BY <1>1, <1>2 DEF Init, Inv, TypeOK, ClaimShape, ClaimHasTimer, KeysUnique,
     KeyedFencesDistinct, KeyedGrantNamesHolder, AbsentUntouched, RowShape, Absent

\* Every step preserves the invariant.
LEMMA NextInv == Inv /\ [Next]_vars => Inv'
<1> SUFFICES ASSUME Inv, [Next]_vars PROVE Inv'
  OBVIOUS
<1>1. CASE ClientSteps
  <2>1. PICK a \in Actors, i \in Items, k \in Keys \cup {NoKey} : ClientStep(a, i, k)
    BY <1>1 DEF ClientSteps
  <2>2. PICK type, row : Rewrites(a, i, k, type, row)
    BY <2>1, ClientStepRewrites DEF Inv
  <2> QED
    BY <2>2, RewritePreserves
<1>2. CASE Replays
  BY <1>2, StutterPreserves DEF Replays, Replay
<1>3. CASE TimerSteps
  BY <1>3, ExpirePreserves DEF TimerSteps
<1>4. CASE Tick
  BY <1>4, TickPreserves
<1>5. CASE UNCHANGED vars
  BY <1>5, StutterPreserves
<1> QED
  BY <1>1, <1>2, <1>3, <1>4, <1>5 DEF Next

-----------------------------------------------------------------------------
\* The inductive invariant holds in every reachable state of the ledger.
THEOREM Invariance == Spec => []Inv
  BY InitInv, NextInv, PTL DEF Spec

\* Every variable keeps its type under every mutation, timer and clock step.
THEOREM TypeCorrect == Spec => []TypeOK
<1>1. Inv => TypeOK
  BY DEF Inv
<1> QED
  BY <1>1, Invariance, PTL

\* No claim is ever without the expiry call that will clean it up, whatever
\* sequence of acquire, renew and re-acquire led to it (claims.ts).
THEOREM ClaimsHaveTimers == Spec => []ClaimHasTimer
<1>1. Inv => ClaimHasTimer
  BY DEF Inv
<1> QED
  BY <1>1, Invariance, PTL

\* A request sent again under its key, at any later time, has no second
\* effect: no key ever gets a second event (lib/domain.ts
\* requireMatchingIdempotency, appendEvent).
THEOREM KeyedOnce == Spec => []KeysUnique
<1>1. Inv => KeysUnique
  BY DEF Inv
<1> QED
  BY <1>1, Invariance, PTL

\* A retried grant that still shows its own generation shows the caller as
\* claimant (claims.ts acquire and renew replay paths).
THEOREM ReplayedGrantIsCurrent == Spec => []KeyedGrantNamesHolder
<1>1. Inv => KeyedGrantNamesHolder
  BY DEF Inv
<1> QED
  BY <1>1, Invariance, PTL

-----------------------------------------------------------------------------
(* The fenced lease the ledger implements. *)

\* No client operation takes effect on an item whose running claim belongs to
\* somebody else.
LEMMA ClientStepIsHolders ==
    ASSUME TypeOK, ClaimShape, NEW a \in Actors, NEW i \in Items, NEW k \in Keys \cup {NoKey},
           ClientStep(a, i, k), Live(items[i], now)
    PROVE  items[i].holder = a
<1>1. /\ Current(i) = items[i]
      /\ items[i] \in Item
  BY CurrentRow DEF TypeOK
<1>2. CASE Create(a, i, k)
  BY <1>2 DEF Create, ClaimShape, Live
<1>3. ASSUME NEW lease \in Leases, Acquire(a, i, lease, k)
      PROVE  items[i].holder = a
  BY <1>1, <1>3 DEF Acquire, LiveClaimHeldByOther
<1>4. ASSUME NEW expected, NEW lease, Renew(a, i, expected, lease, k)
      PROVE  items[i].holder = a
  BY <1>1, <1>4 DEF Renew
<1>5. ASSUME NEW expected, Release(a, i, expected, k)
      PROVE  items[i].holder = a
  BY <1>1, <1>5 DEF Release
<1>6. ASSUME NEW op, NEW expected, Transition(op, a, i, expected, k)
      PROVE  items[i].holder = a
  BY <1>1, <1>6 DEF Transition, LiveClaimHeldByOther
<1> QED
  BY <1>2, <1>3, <1>4, <1>5, <1>6 DEF ClientStep

\* An expiry call that ends a claim ends one that has run out.
LEMMA ExpireSparesLive ==
    ASSUME TypeOK, ClaimShape, NEW tm \in timers, ExpireScheduled(tm), NEW i \in Items
    PROVE  /\ Live(items[i], now) => items'[i] = items[i]
           /\ items'[i] = items[i] \/ items'[i] = Unclaimed(items[i], "ready")
<1>1. /\ items \in [Items -> Item] /\ now \in Nat /\ tm.item \in Items
      /\ items[i] \in Item
  BY DEF TypeOK, Timer
<1> QED
  BY <1>1 DEF ExpireScheduled, Live, Item

\* Granting one unowned or own row under a larger fence is a grant of the
\* fenced lease, whoever asks for it.
LEMMA GrantedRefines ==
    ASSUME TypeOK, NEW a \in Actors, NEW i \in Items, NEW row \in Item,
           items' = [items EXCEPT ![i] = row], now' = now,
           row.holder = a, Live(row, now), row.generation > items[i].generation,
           Live(items[i], now) => items[i].holder = a
    PROVE  Fenced!Next
<1>1. /\ items \in [Items -> Item] /\ items'[i] = row
      /\ \A j \in Items : j # i => items'[j] = items[j]
  BY DEF TypeOK
<1>2. /\ LiveOwner = [j \in Items |-> IF Live(items[j], now) THEN items[j].holder ELSE Nobody]
      /\ Fence = [j \in Items |-> items[j].generation]
      /\ LiveOwner' = [j \in Items |-> IF Live(items'[j], now) THEN items'[j].holder
                                                              ELSE Nobody]
      /\ Fence' = [j \in Items |-> items'[j].generation]
  BY DEF LiveOwner, Fence, Live
<1>3. LiveOwner[i] \in {a, Nobody}
  BY <1>2
<1>4. LiveOwner' = [LiveOwner EXCEPT ![i] = a]
  <2>1. LiveOwner'[i] = a
    BY <1>1, <1>2
  <2>2. ASSUME NEW j \in Items, j # i PROVE LiveOwner'[j] = LiveOwner[j]
    BY <1>1, <1>2, <2>2
  <2> QED
    BY <1>2, <2>1, <2>2
<1>5. Fence'[i] > Fence[i] /\ Fence' = [Fence EXCEPT ![i] = Fence'[i]]
  BY <1>1, <1>2
<1>6. Fenced!Grant(i, a)
  BY <1>3, <1>4, <1>5 DEF Fenced!Grant
<1> QED
  BY <1>6 DEF Fenced!Next

\* A client operation grants the item to its caller or retires its claim.
LEMMA ClientStepRefines ==
    ASSUME TypeOK, ClaimShape, AbsentUnfenced,
           NEW a \in Actors, NEW i \in Items, NEW k \in Keys \cup {NoKey},
           ClientStep(a, i, k)
    PROVE  Fenced!Next
<1>1. PICK type, row : Rewrites(a, i, k, type, row)
  BY ClientStepRewrites
<1>2. /\ items \in [Items -> Item] /\ now \in Nat /\ now' = now /\ row \in Item
      /\ items' = [items EXCEPT ![i] = row] /\ items'[i] = row
      /\ \A j \in Items : items[j] \in Item
      /\ \A j \in Items : j # i => items'[j] = items[j]
  BY <1>1 DEF TypeOK, Rewrites
<1>3. CASE row.holder = Nobody
  <2>1. /\ LiveOwner \in [Items -> Actors \cup {Nobody}]
        /\ \A j \in Items : /\ LiveOwner[j] = IF Live(items[j], now) THEN items[j].holder
                                                                    ELSE Nobody
                            /\ Fence[j] = items[j].generation
    BY <1>2 DEF LiveOwner, Fence, Item
  <2>2. /\ LiveOwner' = [j \in Items |-> IF Live(items'[j], now) THEN items'[j].holder
                                                                ELSE Nobody]
        /\ Fence' = [j \in Items |-> items'[j].generation]
    BY <1>2 DEF LiveOwner, Fence, Live
  <2>3. row.generation >= items[i].generation
    <3>1. CASE items[i].status = "absent"
      BY <1>2, <3>1 DEF AbsentUnfenced, Item
    <3>2. CASE items[i].status # "absent"
      BY <1>1, <1>2, <3>2 DEF Rewrites, Item
    <3> QED
      BY <3>1, <3>2
  <2>4. LiveOwner' \in [Items -> Actors \cup {Nobody}] /\ DOMAIN Fence' = Items
    BY <1>2, <1>3, <2>1, <2>2 DEF Live
  <2>5. ASSUME NEW j \in Items
        PROVE  \/ LiveOwner'[j] = LiveOwner[j] /\ Fence'[j] = Fence[j]
               \/ LiveOwner'[j] = Nobody /\ Fence'[j] >= Fence[j]
    BY <1>2, <1>3, <2>1, <2>2, <2>3 DEF Live
  <2> QED
    BY <2>4, <2>5 DEF Fenced!Next, Fenced!Retire
<1>4. CASE row.holder # Nobody
  <2>1. row.holder = a /\ Live(row, now) /\ row.generation > items[i].generation
    BY <1>1, <1>4 DEF Rewrites, Live, RowShape
  <2>2. Live(items[i], now) => items[i].holder = a
    BY ClientStepIsHolders
  <2> QED
    BY <1>2, <2>1, <2>2, GrantedRefines
<1> QED
  BY <1>3, <1>4

\* Expiry calls and the clock only retire owners.
LEMMA OthersRetire ==
    ASSUME TypeOK, now' \in Nat, now' >= now,
           \A j \in Items : items'[j] = items[j] \/ items'[j] = Unclaimed(items[j], "ready")
    PROVE  Fenced!Next
<1>1. /\ now \in Nat /\ \A j \in Items : items[j] \in Item
  BY DEF TypeOK
<1>2. \A j \in Items :
         /\ LiveOwner[j] = IF Live(items[j], now) THEN items[j].holder ELSE Nobody
         /\ Fence[j] = items[j].generation
  BY DEF LiveOwner, Fence
<1>3. /\ LiveOwner' = [j \in Items |-> IF Live(items'[j], now') THEN items'[j].holder
                                                               ELSE Nobody]
      /\ Fence' = [j \in Items |-> items'[j].generation]
  BY DEF LiveOwner, Fence, Live
<1>4. ASSUME NEW j \in Items
      PROVE  /\ LiveOwner'[j] \in Actors \cup {Nobody}
             /\ \/ LiveOwner'[j] = LiveOwner[j] /\ Fence'[j] = Fence[j]
                \/ LiveOwner'[j] = Nobody /\ Fence'[j] >= Fence[j]
  <2>1. CASE items'[j] = items[j]
    BY <1>1, <1>2, <1>3, <2>1 DEF Live, Item
  <2>2. CASE items'[j] = Unclaimed(items[j], "ready")
    <3>1. items'[j].holder = Nobody /\ items'[j].generation = items[j].generation + 1
      BY <1>1, <2>2, UnclaimedRow
    <3> QED
      BY <1>1, <1>2, <1>3, <3>1 DEF Live, Item
  <2> QED
    BY <2>1, <2>2
<1>5. LiveOwner' \in [Items -> Actors \cup {Nobody}] /\ DOMAIN Fence' = Items
  BY <1>3, <1>4
<1> QED
  BY <1>4, <1>5 DEF Fenced!Next, Fenced!Retire

\* The empty ledger is an unowned fenced lease.
LEMMA InitRefines == Init => Fenced!Init
  BY DEF Init, Fenced!Init, LiveOwner, Fence, Absent, Live

\* Every step of the ledger is a step of the fenced lease, or no step.
LEMMA StepRefines == Inv /\ [Next]_vars => [Fenced!Next]_(Fenced!vars)
<1> SUFFICES ASSUME Inv, [Next]_vars PROVE [Fenced!Next]_(Fenced!vars)
  OBVIOUS
<1>1. CASE ClientSteps
  <2>1. AbsentUnfenced
    BY DEF Inv, AbsentUntouched, AbsentUnfenced, Absent
  <2> QED
    BY <1>1, <2>1, ClientStepRefines DEF ClientSteps, Inv
<1>2. CASE UNCHANGED vars
  BY <1>2 DEF vars, Fenced!vars, LiveOwner, Fence, Live
<1>3. CASE Replays
  BY <1>2, <1>3 DEF Replays, Replay
<1>4. CASE TimerSteps
  <2>1. PICK tm \in timers : ExpireScheduled(tm)
    BY <1>4 DEF TimerSteps
  <2>2. now' = now /\ now \in Nat
    BY <2>1 DEF ExpireScheduled, Inv, TypeOK
  <2> QED
    BY <2>1, <2>2, ExpireSparesLive, OthersRetire DEF Inv
<1>5. CASE Tick
  <2>1. now \in Nat /\ now' = now + 1 /\ items' = items
    BY <1>5 DEF Tick, Inv, TypeOK
  <2> QED
    BY <2>1, OthersRetire DEF Inv
<1> QED
  BY <1>1, <1>2, <1>3, <1>4, <1>5 DEF Next

\* The claim ledger implements the fenced lease: at most one owner, never
\* handed over directly, every grant under a fresh fence (claims.ts and the
\* transitions of items.ts together).
THEOREM LedgerIsFencedLease == Spec => ImplementsFencedClaim
  BY InitRefines, StepRefines, Invariance, PTL
  DEF Spec, ImplementsFencedClaim, Fenced!Spec

-----------------------------------------------------------------------------
\* A running claim ends early only at its claimant's request: no other client
\* and no expiry call of an earlier lease can end it (claims.ts
\* expireScheduled's generation and expiry guards).
THEOREM LiveClaimsAreTheHolders == Spec => OnlyHolderEndsLiveClaim
<1>1. ASSUME Inv, [Next]_vars, NEW i \in Items, Live(items[i], now),
             items'[i].holder # items[i].holder
      PROVE  \E k \in Keys \cup {NoKey} : ClientStep(items[i].holder, i, k)
  <2>1. CASE ClientSteps
    <3>1. PICK a \in Actors, j \in Items, k \in Keys \cup {NoKey} : ClientStep(a, j, k)
      BY <2>1 DEF ClientSteps
    <3>2. PICK type, row : Rewrites(a, j, k, type, row)
      BY <1>1, <3>1, ClientStepRewrites DEF Inv
    <3>3. j = i
      BY <1>1, <3>2 DEF Rewrites, Inv, TypeOK
    <3> QED
      BY <1>1, <3>1, <3>3, ClientStepIsHolders DEF Inv
  <2>2. CASE TimerSteps
    BY <1>1, <2>2, ExpireSparesLive DEF TimerSteps, Inv
  <2>3. CASE Replays \/ Tick \/ UNCHANGED vars
    BY <1>1, <2>3 DEF Replays, Replay, Tick, vars
  <2> QED
    BY <1>1, <2>1, <2>2, <2>3 DEF Next
<1>2. Inv /\ [Next]_vars =>
        [\A i \in Items :
            Live(items[i], now) /\ items'[i].holder # items[i].holder
            => \E k \in Keys \cup {NoKey} : ClientStep(items[i].holder, i, k)]_vars
  BY <1>1
<1> QED
  BY <1>2, Invariance, PTL DEF Spec, OnlyHolderEndsLiveClaim

\* The claim generation never goes back, and every change of an existing item
\* moves it: no two clients holding the same generation both succeed
\* (the generation checks of claims.ts and items.ts).
THEOREM FencesAdvance == Spec => FenceAdvances
<1>1. ASSUME Inv, [Next]_vars, NEW i \in Items
      PROVE  /\ items'[i].generation >= items[i].generation
             /\ items'[i] # items[i] /\ items[i].status # "absent"
                   => items'[i].generation > items[i].generation
  <2>1. items \in [Items -> Item] /\ items[i] \in Item /\ items[i].generation \in Nat
    BY <1>1 DEF Inv, TypeOK, Item
  <2>2. CASE ClientSteps
    <3>1. PICK a \in Actors, j \in Items, k \in Keys \cup {NoKey} : ClientStep(a, j, k)
      BY <2>2 DEF ClientSteps
    <3>2. PICK type, row : Rewrites(a, j, k, type, row)
      BY <1>1, <3>1, ClientStepRewrites DEF Inv
    <3>3. CASE j # i
      BY <2>1, <3>2, <3>3 DEF Rewrites
    <3>4. CASE j = i
      <4>1. items'[i] = row /\ row.generation \in Nat
        BY <2>1, <3>2, <3>4 DEF Rewrites, Item
      <4>2. items[i].status = "absent" => items[i].generation = 0
        BY <1>1 DEF Inv, AbsentUntouched, Absent
      <4> QED
        BY <2>1, <3>2, <3>4, <4>1, <4>2 DEF Rewrites
    <3> QED
      BY <3>3, <3>4
  <2>3. CASE TimerSteps
    <3>1. items'[i] = items[i] \/ items'[i] = Unclaimed(items[i], "ready")
      BY <1>1, <2>3, ExpireSparesLive DEF TimerSteps, Inv
    <3> QED
      BY <2>1, <3>1, UnclaimedRow
  <2>4. CASE Replays \/ Tick \/ UNCHANGED vars
    BY <2>1, <2>4 DEF Replays, Replay, Tick, vars
  <2> QED
    BY <1>1, <2>2, <2>3, <2>4 DEF Next
<1>2. Inv /\ [Next]_vars =>
        [\A i \in Items :
            /\ items'[i].generation >= items[i].generation
            /\ items'[i] # items[i] /\ items[i].status # "absent"
                  => items'[i].generation > items[i].generation]_vars
  BY <1>1
<1> QED
  BY <1>2, Invariance, PTL DEF Spec, FenceAdvances

\* A completed item stays completed, whatever clients and late expiry calls
\* do (the status checks of claims.ts and items.ts).
THEOREM CompletionIsFinal == Spec => DoneIsFinal
<1>1. ASSUME Inv, [Next]_vars, NEW i \in Items, items[i].status = "done"
      PROVE  items'[i] = items[i]
  <2>1. items \in [Items -> Item] /\ Current(i) = items[i]
    BY <1>1 DEF Inv, TypeOK, Current, ExpireClaimIfNeeded, Lapsed
  <2>2. ASSUME NEW a \in Actors, NEW j \in Items, NEW k \in Keys \cup {NoKey},
               ClientStep(a, j, k)
        PROVE  items'[i] = items[i]
    <3>1. PICK type, row : Rewrites(a, j, k, type, row)
      BY <1>1, <2>2, ClientStepRewrites DEF Inv
    <3>2. CASE j # i
      BY <2>1, <3>1, <3>2 DEF Rewrites
    <3>3. CASE j = i
      <4>1. ~Create(a, i, k)
        BY <1>1 DEF Create
      <4>2. \A lease \in Leases : ~Acquire(a, i, lease, k)
        BY <1>1, <2>1 DEF Acquire
      <4>3. \A expected, lease : ~Renew(a, i, expected, lease, k)
        BY <1>1, <2>1 DEF Renew
      <4>4. \A expected : ~Release(a, i, expected, k)
        BY <1>1, <2>1 DEF Release
      <4>5. ASSUME NEW op \in Operations, NEW expected
            PROVE  ~Transition(op, a, i, expected, k)
        BY <1>1, <2>1 DEF Transition, AllowedFrom, Operations
      <4> QED
        BY <2>2, <3>3, <4>1, <4>2, <4>3, <4>4, <4>5 DEF ClientStep
    <3> QED
      BY <3>2, <3>3
  <2>3. CASE ClientSteps
    BY <2>2, <2>3 DEF ClientSteps
  <2>4. CASE TimerSteps
    <3>1. PICK tm \in timers : ExpireScheduled(tm)
      BY <2>4 DEF TimerSteps
    <3>2. tm.item \in Items
      BY <1>1 DEF Inv, TypeOK, Timer
    <3> QED
      BY <1>1, <2>1, <3>1, <3>2 DEF ExpireScheduled
  <2>5. CASE Replays \/ Tick \/ UNCHANGED vars
    BY <2>5 DEF Replays, Replay, Tick, vars
  <2> QED
    BY <1>1, <2>3, <2>4, <2>5 DEF Next
<1>2. Inv /\ [Next]_vars =>
        [\A i \in Items : items[i].status = "done" => items'[i] = items[i]]_vars
  BY <1>1
<1> QED
  BY <1>2, Invariance, PTL DEF Spec, DoneIsFinal
=============================================================================
