------------------------------- MODULE Items -------------------------------
(***************************************************************************)
(* The work item as the hosted mutations of convex/ see it: its status and *)
(* its claim.  Every mutation that touches a claim (claims.ts, items.ts,   *)
(* lib/exactDispatch.ts, runnerRuns.ts, workSelectionClaims.ts) reads one  *)
(* item record and writes another, so the record and the ways it is        *)
(* rewritten are operators here and the mutations are actions elsewhere.   *)
(*                                                                         *)
(* An undefined claimExpiresAt is 0: Date.now() is always positive.  The   *)
(* row's `version' is left out: the mutations of claims.ts and items.ts    *)
(* move it exactly when they move claimGeneration.                         *)
(***************************************************************************)
EXTENDS Integers

CONSTANTS
    Actors,     \* actors of the workspace, by external id
    Nobody      \* claimedByExternalId = undefined

ASSUME NobodyAssumption == Nobody \notin Actors

\* "absent" is an item id no row carries yet.  No mutation writes "archived".
Statuses == {"absent", "ready", "active", "blocked", "done"}

Item == [status : Statuses,
         holder : Actors \cup {Nobody},
         expiresAt : Nat,
         generation : Nat]

Absent == [status |-> "absent", holder |-> Nobody,
           expiresAt |-> 0, generation |-> 0]

NewItem == [Absent EXCEPT !.status = "ready"]

\* The claim the row shows is still running at time t.
Live(it, t) == it.holder # Nobody /\ it.expiresAt > t

\* Mutant: a claim about to lapse is taken for lapsed.
HeldByOtherOffByOne(it, a, t) == Live(it, t + 1) /\ it.holder # a

LiveClaimHeldByOther(it, a, t) == Live(it, t) /\ it.holder # a

\* The claim ran out and nothing has cleaned the row up yet.
Lapsed(it, t) ==
    /\ it.status = "active"
    /\ it.holder # Nobody
    /\ it.expiresAt # 0
    /\ it.expiresAt <= t

\* Mutant: the fence is not moved.
UnclaimedSameFence(it, st) ==
    [status |-> st, holder |-> Nobody,
     expiresAt |-> 0, generation |-> it.generation]

\* The patch that ends a claim: every such patch moves the fence.
Unclaimed(it, st) ==
    [status |-> st, holder |-> Nobody,
     expiresAt |-> 0, generation |-> it.generation + 1]

\* Mutant: a grant under the fence of the last one.
ClaimedBySameFence(it, a, expiry) ==
    [status |-> "active", holder |-> a,
     expiresAt |-> expiry, generation |-> it.generation]

\* The patch that grants a claim.
ClaimedBy(it, a, expiry) ==
    [status |-> "active", holder |-> a,
     expiresAt |-> expiry, generation |-> it.generation + 1]

\* Lazy expiry: what a mutation works on when the expiry timer is late.
ExpireClaimIfNeeded(it, t) ==
    IF Lapsed(it, t) THEN Unclaimed(it, "ready") ELSE it
=============================================================================
