----------------------------- MODULE ItemClaims -----------------------------
(***************************************************************************)
(* Claims on work items: convex/claims.ts and the semantic transitions of  *)
(* convex/items.ts.  Each Convex mutation is a serializable transaction,   *)
(* so each is one action; a mutation that throws rolls everything back,    *)
(* its lazy expiry included, and is a stuttering step.  What interleaves   *)
(* is mutations of different clients, scheduled expiry functions running   *)
(* late, retries under idempotency keys, and the clock.                    *)
(*                                                                         *)
(* A client passes whatever claim generation it last read, so the expected *)
(* generation of an operation ranges over all of them.                     *)
(***************************************************************************)
EXTENDS Items, FiniteSets

CONSTANTS
    Items,          \* item ids the workspace may allocate
    Keys,           \* idempotency keys clients use
    NoKey,          \* a request without an idempotency key
    Leases,         \* lease lengths clients ask for
    MaxTime,        \* bound: the clock stops here
    MaxGeneration   \* bound: no client operation moves a fence past this

ASSUME NoKeyAssumption == NoKey \notin Keys
ASSUME LeasesAssumption == Leases \subseteq Nat \ {0}
ASSUME BoundsAssumption == MaxTime \in Nat /\ MaxGeneration \in Nat

VARIABLES
    items,      \* items[i]: the row of item i
    timers,     \* claims:expireScheduled calls the scheduler still owes
    events,     \* the ledger's events that carry an idempotency key
    now         \* Date.now()

vars == <<items, timers, events, now>>

Timer == [item : Items, generation : Nat, at : Nat]

Operations == {"complete", "handoff", "block", "unblock"}

EventType ==
    [complete |-> "item.completed", handoff |-> "work.handed_off",
     block |-> "work.blocked", unblock |-> "work.unblocked"]

\* The run events are appended by RunnerRuns, the annotations by WorkSelection,
\* under the same keys.
EventTypes ==
    {"item.created", "claim.created", "claim.renewed", "claim.released",
     "run.queued", "run.finished", "item.annotated"}
        \cup {EventType[op] : op \in Operations}

\* `generation' is the fence the recorded operation left behind.
Event == [key : Keys, type : EventTypes, item : Items, actor : Actors,
          generation : Nat]

Init ==
    /\ items = [i \in Items |-> Absent]
    /\ timers = {}
    /\ events = {}
    /\ now = 1

-----------------------------------------------------------------------------
(* Idempotency: an operation runs only when no event carries its key.  A    *)
(* retry that matches the recorded event returns the current row, any other *)
(* reuse of the key throws; neither changes anything (Replay).              *)

\* Mutant: the ledger is not searched before the operation runs.
KeyUnchecked(k) == TRUE

KeyFree(k) == \A e \in events : e.key # k

\* Mutant: a request without a key is recorded as if it had one.
AppendEventUnkeyed(k, type, i, a, gen) ==
    events' = events \cup {[key |-> k, type |-> type, item |-> i,
                            actor |-> a, generation |-> gen]}

AppendEvent(k, type, i, a, gen) ==
    events' = IF k = NoKey THEN events
              ELSE events \cup {[key |-> k, type |-> type, item |-> i,
                                 actor |-> a, generation |-> gen]}

Replay(k) == ~KeyFree(k) /\ UNCHANGED vars

\* The row a mutation works on after expireClaimIfNeeded.
Current(i) == ExpireClaimIfNeeded(items[i], now)

\* Mutant: the call is scheduled with the generation before the grant.
ScheduleExpiryStale(i, gen, at) ==
    timers' = timers \cup {[item |-> i, generation |-> gen - 1, at |-> at]}

ScheduleExpiry(i, gen, at) ==
    timers' = timers \cup {[item |-> i, generation |-> gen, at |-> at]}

-----------------------------------------------------------------------------
(* items.create *)
Create(a, i, k) ==
    /\ KeyFree(k)
    /\ items[i].status = "absent"
    /\ items' = [items EXCEPT ![i] = NewItem]
    /\ AppendEvent(k, "item.created", i, a, 0)
    /\ UNCHANGED <<timers, now>>

(* claims.acquire: also how the claimant itself starts a fresh lease. *)
Acquire(a, i, lease, k) ==
    LET it == Current(i)
        granted == ClaimedBy(it, a, now + lease)
    IN  /\ KeyFree(k)
        /\ it.status \in {"ready", "active"}
        /\ ~LiveClaimHeldByOther(it, a, now)
        /\ granted.generation <= MaxGeneration
        /\ items' = [items EXCEPT ![i] = granted]
        /\ AppendEvent(k, "claim.created", i, a, granted.generation)
        /\ ScheduleExpiry(i, granted.generation, granted.expiresAt)
        /\ UNCHANGED now

(* claims.renew *)
Renew(a, i, expected, lease, k) ==
    LET it == Current(i)
        renewed == [status |-> it.status, holder |-> it.holder,
                    expiresAt |-> now + lease, generation |-> expected + 1]
    IN  /\ KeyFree(k)
        /\ expected >= 1
        /\ it.status = "active"
        /\ it.holder = a
        /\ it.generation = expected
        /\ it.expiresAt > now
        /\ renewed.generation <= MaxGeneration
        /\ items' = [items EXCEPT ![i] = renewed]
        /\ AppendEvent(k, "claim.renewed", i, a, renewed.generation)
        /\ ScheduleExpiry(i, renewed.generation, renewed.expiresAt)
        /\ UNCHANGED now

(* claims.release *)
Release(a, i, expected, k) ==
    LET it == Current(i)
    IN  /\ KeyFree(k)
        /\ expected >= 1
        /\ it.status = "active"
        /\ it.holder = a
        /\ it.generation = expected
        /\ expected < MaxGeneration
        /\ items' = [items EXCEPT ![i] = Unclaimed(it, "ready")]
        /\ AppendEvent(k, "claim.released", i, a, expected + 1)
        /\ UNCHANGED <<timers, now>>

(* items.complete, handoff, block, unblock: one handler, four operations.  *)
(* An unclaimed item may be moved by any actor that knows its generation.  *)
AllowedFrom ==
    [complete |-> {"ready", "active", "blocked"},
     handoff |-> {"ready", "active", "blocked"},
     block |-> {"ready", "active"},
     unblock |-> {"blocked"}]

MovesTo ==
    [complete |-> "done", handoff |-> "ready",
     block |-> "blocked", unblock |-> "ready"]

Transition(op, a, i, expected, k) ==
    LET it == Current(i)
    IN  /\ KeyFree(k)
        /\ it.generation = expected
        /\ ~LiveClaimHeldByOther(it, a, now)
        /\ it.status \in AllowedFrom[op]
        /\ expected < MaxGeneration
        /\ items' = [items EXCEPT ![i] = Unclaimed(it, MovesTo[op])]
        /\ AppendEvent(k, EventType[op], i, a, expected + 1)
        /\ UNCHANGED <<timers, now>>

\* Mutants: an obsolete call ends whatever claim it finds; a call that runs
\* exactly at the expiry does nothing.
ExpireScheduledObsolete(tm) ==
    LET it == items[tm.item]
    IN  /\ tm \in timers
        /\ tm.at <= now
        /\ timers' = timers \ {tm}
        /\ items' = IF it.status = "active"
                    THEN [items EXCEPT ![tm.item] = Unclaimed(it, "ready")] ELSE items
        /\ UNCHANGED <<events, now>>

ExpireScheduledStrict(tm) ==
    LET it == items[tm.item]
    IN  /\ tm \in timers
        /\ tm.at <= now
        /\ timers' = timers \ {tm}
        /\ items' = IF it.status = "active" /\ it.generation = tm.generation
                       /\ it.expiresAt < now
                    THEN [items EXCEPT ![tm.item] = Unclaimed(it, "ready")] ELSE items
        /\ UNCHANGED <<events, now>>

(* claims.expireScheduled: the scheduler runs a call once, at or after its  *)
(* time.  A call for another generation, or for a claim that got a later    *)
(* expiry, does nothing.                                                    *)
ExpireScheduled(tm) ==
    LET it == items[tm.item]
    IN  /\ tm \in timers
        /\ tm.at <= now
        /\ timers' = timers \ {tm}
        /\ items' = IF /\ it.status = "active"
                       /\ it.generation = tm.generation
                       /\ it.expiresAt # 0
                       /\ it.expiresAt <= now
                    THEN [items EXCEPT ![tm.item] = Unclaimed(it, "ready")]
                    ELSE items
        /\ UNCHANGED <<events, now>>

Tick == now < MaxTime /\ now' = now + 1 /\ UNCHANGED <<items, timers, events>>

-----------------------------------------------------------------------------
(* What a client a may ask of item i under key k. *)
ClientStep(a, i, k) ==
    \/ Create(a, i, k)
    \/ \E lease \in Leases : Acquire(a, i, lease, k)
    \/ \E expected \in 0..MaxGeneration :
          \/ \E lease \in Leases : Renew(a, i, expected, lease, k)
          \/ Release(a, i, expected, k)
          \/ \E op \in Operations : Transition(op, a, i, expected, k)

ClientSteps ==
    \E a \in Actors, i \in Items, k \in Keys \cup {NoKey} : ClientStep(a, i, k)

Replays == \E k \in Keys : Replay(k)

TimerSteps == \E tm \in timers : ExpireScheduled(tm)

Next == ClientSteps \/ Replays \/ TimerSteps \/ Tick

Spec == Init /\ [][Next]_vars

\* The scheduler eventually runs every call it was given.
SchedulerFairness ==
    \A i \in Items, gen \in 1..MaxGeneration :
        WF_vars(\E tm \in timers : /\ tm.item = i
                                   /\ tm.generation = gen
                                   /\ ExpireScheduled(tm))

FairSpec == Spec /\ SchedulerFairness

-----------------------------------------------------------------------------
TypeOK ==
    /\ items \in [Items -> Item]
    /\ timers \subseteq Timer
    /\ events \subseteq Event
    /\ now \in Nat

\* An item is active exactly while somebody is recorded as its claimant with
\* an expiry: lazy expiry (claimState.ts) and the scheduled one (claims.ts)
\* test different fields of the row and agree because of this.
ClaimShape ==
    \A i \in Items :
        LET it == items[i]
        IN  /\ it.status = "active" <=> it.holder # Nobody
            /\ it.status = "active" <=> it.expiresAt # 0

\* Every claim, however often renewed or re-acquired, has its own expiry call
\* still pending: same item, same generation, same deadline.  Losing one
\* leaves an item its claimant abandoned claimed for ever.
ClaimHasTimer ==
    \A i \in Items : items[i].status = "active" =>
        [item |-> i, generation |-> items[i].generation,
         at |-> items[i].expiresAt] \in timers

\* No retry counts twice.  Every effect under a key appends an event with it,
\* and a key is on at most one event: however late a request is sent again
\* because its answer was lost, by whom, on which item and for which operation,
\* it takes no second effect.  The ledger relies on this itself: it looks the
\* event up with .unique(), which throws on a second one.
KeysUnique == \A e, f \in events : e.key = f.key => e = f

\* The fences recorded under different keys differ, item by item, and none is
\* one the item has not reached: two operations that both count are ordered,
\* and no recorded one was undone.
KeyedFencesDistinct ==
    /\ \A e, f \in events :
          e.item = f.item /\ e.generation = f.generation => e.key = f.key
    /\ \A e \in events : e.generation <= items[e.item].generation

\* A retry of a grant returns the current row.  If that row still shows the
\* generation the grant was recorded with, its claimant is the caller: the
\* client may go on as if the first answer had not been lost.
KeyedGrantNamesHolder ==
    \A e \in events :
        /\ e.type \in {"claim.created", "claim.renewed"}
        /\ e.generation = items[e.item].generation
        => items[e.item].holder = e.actor

\* A running claim changes hands or ends early only by a step its claimant
\* asked for: no other client, and no scheduled call left over from an
\* earlier lease, takes it away.
OnlyHolderEndsLiveClaim ==
    [][\A i \in Items :
          Live(items[i], now) /\ items'[i].holder # items[i].holder
          => \E k \in Keys \cup {NoKey} : ClientStep(items[i].holder, i, k)]_vars

\* The claim generation is a fence: it never goes back, and whoever becomes
\* claimant does so under one larger than any the item had.
FenceAdvances ==
    [][\A i \in Items :
          /\ items'[i].generation >= items[i].generation
          /\ items'[i] # items[i] /\ items[i].status # "absent"
                => items'[i].generation > items[i].generation]_vars

\* Done is final: nothing reopens a completed item.
DoneIsFinal ==
    [][\A i \in Items : items[i].status = "done" => items'[i] = items[i]]_vars

\* A claim that ran out is eventually cleaned up although no client touches
\* the item again.
LapsedClaimReclaimed ==
    \A i \in Items : Lapsed(items[i], now) ~> ~Lapsed(items[i], now)

\* The claim ledger implements a fenced lease: the owner is the claimant of
\* a running claim, the fence is the claim generation.
LiveOwner == [i \in Items |-> IF Live(items[i], now) THEN items[i].holder ELSE Nobody]
Fence == [i \in Items |-> items[i].generation]

Fenced == INSTANCE FencedClaim WITH owner <- LiveOwner, fence <- Fence

ImplementsFencedClaim == Fenced!Spec
=============================================================================
