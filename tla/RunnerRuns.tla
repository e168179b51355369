----------------------------- MODULE RunnerRuns -----------------------------
(***************************************************************************)
(* Runs: work on an item handed to a runner.  lib/exactDispatch.ts reserves *)
(* an item generation and queues a run, runnerRuns.ts lets runners claim,  *)
(* drive and heartbeat it, queuedRuns.ts lets a supervisor finish it.  A   *)
(* run and its item are patched in one mutation, but the item is also open *)
(* to everything in ItemClaims: the two sides meet here.                   *)
(*                                                                         *)
(* A run carries a lease of its own (owner, expiry, leaseGeneration).  Run *)
(* operations copy the lease onto the item's claim without moving the      *)
(* item's claimGeneration and without scheduling an expiry: a lapsed run   *)
(* lease is cleaned up by reconciliation instead.                          *)
(***************************************************************************)
EXTENDS ItemClaims

CONSTANTS
    Runs,               \* ids of the runs that may be queued, in that order
    Projects,
    ProjectOf,          \* the project of each item
    GlobalLimit,        \* concurrency limits a runner claims under
    ProjectLimit,
    MaxAttempts,        \* retry policy of the dispatched runs
    Backoff,
    CommandKeys,        \* idempotency keys of runner commands
    MaxRunGeneration    \* bound: no runner operation moves a run past this

ASSUME RunsAssumption == Runs \subseteq Nat
ASSUME SomeItem == Items # {}      \* a row not inserted yet names one
ASSUME ProjectsAssumption == ProjectOf \in [Items -> Projects]
ASSUME PolicyAssumption ==
    /\ GlobalLimit \in Nat \ {0} /\ ProjectLimit \in Nat \ {0}
    /\ MaxAttempts \in Nat \ {0} /\ Backoff \in Nat
    /\ MaxRunGeneration \in Nat
ASSUME CommandKeysAssumption == NoKey \notin CommandKeys

VARIABLES
    runs,       \* runs[r]: the row of run r
    commands    \* the runnerCommands rows: keys whose answer is on record

runVars == <<runs, commands>>
allVars == <<items, timers, events, now, runs, commands>>

Active == {"starting", "running", "waiting"}        \* ACTIVE_CAPACITY_STATUSES
Leased == {"queued"} \cup Active                     \* LEASED_STATUSES
Unfinished == Leased \cup {"blocked"}                \* LIVE_QUEUED_RUN_STATUSES
Terminal == {"succeeded", "cancelled", "abandoned"} \* TERMINAL_STATUSES
RunStatuses == {"absent", "failed"} \cup Unfinished \cup Terminal

\* Undefined times are 0.  `recorded' is the run generation of the newest
\* execution record.  Left out: the continuationRef, which only widens what
\* may be done with a run (Finish needs one, any dispatch may bring one).
Run == [status : RunStatuses,
        item : Items,
        actor : Actors \cup {Nobody},
        owner : Actors \cup {Nobody},
        leaseExpiresAt : Nat,
        generation : Nat,
        leaseGeneration : Nat,
        retryAttempt : Nat,
        nextRetryAt : Nat,
        recorded : Nat]

\* The lease the recorded answer shows, and the actor it was given to.
Command == [key : CommandKeys, run : Runs, actor : Actors, leaseGeneration : Nat]

\* A row not inserted yet; its item is arbitrary.
NoRun == [status |-> "absent", item |-> CHOOSE i \in Items : TRUE,
          actor |-> Nobody, owner |-> Nobody, leaseExpiresAt |-> 0,
          generation |-> 0, leaseGeneration |-> 0,
          retryAttempt |-> 0, nextRetryAt |-> 0,
          recorded |-> 0]

RunInit ==
    /\ Init
    /\ runs = [r \in Runs |-> NoRun]
    /\ commands = {}

-----------------------------------------------------------------------------
(* How a run shows on its item: the claim is the run's lease, the fence stays. *)

Projected(it, st, owner, expiry) ==
    [status |-> st, holder |-> owner, expiresAt |-> expiry,
     generation |-> it.generation]

Holder(run) == IF run.owner # Nobody THEN run.owner ELSE run.actor

Retryable(run) == run.status = "failed" /\ run.nextRetryAt # 0

\* Mutant: the commands on record are not asked.
CommandKeyUnchecked(k) == TRUE

CommandKeyFree(k) == \A c \in commands : c.key # k

StoreCommand(k, r, a, leaseGeneration) ==
    commands' = IF k = NoKey THEN commands
                ELSE commands \cup {[key |-> k, run |-> r, actor |-> a,
                                     leaseGeneration |-> leaseGeneration]}

-----------------------------------------------------------------------------
\* Mutant: a failed run that waits for its retry is overlooked.
NoUnfinishedRun(i) ==
    \A s \in Runs : runs[s].item = i => runs[s].status \notin Unfinished

\* No run of the item is unfinished or waits for its retry.  (Unfinished rows of
\* the older runs table refuse a dispatch too; runs.ts is left out.)
NoOpenRun(i) ==
    \A s \in Runs : runs[s].item = i =>
        runs[s].status \notin Unfinished /\ ~Retryable(runs[s])

(* dispatchHostedExactGeneration: the item must be ready, not merely lapsed. *)
Dispatch(a, i, expected, lease, r, k) ==
    LET it == items[i]
        granted == ClaimedBy(it, a, now + lease)
    IN  /\ KeyFree(k)
        /\ it.status = "ready"
        /\ it.generation = expected
        /\ ~LiveClaimHeldByOther(it, a, now)
        /\ NoOpenRun(i)
        /\ granted.generation <= MaxGeneration
        /\ runs[r].status = "absent"
        /\ \A s \in Runs : s < r => runs[s].status # "absent"
        /\ items' = [items EXCEPT ![i] = granted]
        /\ runs' = [runs EXCEPT ![r] =
              [status |-> "queued", item |-> i, actor |-> a, owner |-> a,
               leaseExpiresAt |-> granted.expiresAt,
               generation |-> 1, leaseGeneration |-> 1,
               retryAttempt |-> 0, nextRetryAt |-> 0,
               recorded |-> 1]]
        /\ AppendEvent(k, "run.queued", i, a, granted.generation)
        /\ UNCHANGED <<timers, now, commands>>

-----------------------------------------------------------------------------
(* reconcileExpiredRuns, reconcileRunIfExpired: a run whose lease ran out is *)
(* abandoned; its item is released if the run's holder is the claimant.      *)

\* Mutant: any row with an old expiry, finished or not.
LeaseOverAnyStatus(run) == run.leaseExpiresAt # 0 /\ run.leaseExpiresAt <= now

LeaseOver(run) ==
    run.status \in Leased /\ run.leaseExpiresAt # 0 /\ run.leaseExpiresAt <= now

Abandoned(run) ==
    [status |-> "abandoned", item |-> run.item, actor |-> run.actor,
     owner |-> Nobody, leaseExpiresAt |-> 0,
     generation |-> run.generation + 1, leaseGeneration |-> run.leaseGeneration,
     retryAttempt |-> run.retryAttempt, nextRetryAt |-> 0,
     recorded |-> run.recorded]

\* The rows after reconciling the runs of S.
RunsReconciled(S) ==
    [r \in Runs |-> IF r \in S /\ LeaseOver(runs[r]) THEN Abandoned(runs[r]) ELSE runs[r]]

\* Mutant: only the claims of runs that were picked up are released.
ItemsReconciledActive(S) ==
    [i \in Items |->
        IF /\ items[i].status = "active"
           /\ \E r \in S : /\ LeaseOver(runs[r]) /\ runs[r].status \in Active
                           /\ runs[r].item = i
                           /\ items[i].holder = Holder(runs[r])
        THEN Projected(items[i], "ready", Nobody, 0)
        ELSE items[i]]

ItemsReconciled(S) ==
    [i \in Items |->
        IF /\ items[i].status = "active"
           /\ \E r \in S : /\ LeaseOver(runs[r])
                           /\ runs[r].item = i
                           /\ items[i].holder = Holder(runs[r])
        THEN Projected(items[i], "ready", Nobody, 0)
        ELSE items[i]]

(* runnerRuns.reconcile, runnerRuns.list, and a claim that finds nothing to *)
(* do (S = Runs); runnerRuns.get (S a single run).                          *)
Reconcile(S) ==
    /\ \E r \in S : LeaseOver(runs[r])
    /\ runs' = RunsReconciled(S)
    /\ items' = ItemsReconciled(S)
    /\ UNCHANGED <<timers, events, now, commands>>

-----------------------------------------------------------------------------
(* runnerRuns.claim works on the reconciled rows rs and items its. *)

ClaimEligible(run) ==
    \/ run.status = "queued" /\ (run.leaseExpiresAt = 0 \/ run.leaseExpiresAt > now)
    \/ /\ run.status = "failed"
       /\ run.nextRetryAt # 0 /\ run.nextRetryAt <= now
       /\ run.retryAttempt < MaxAttempts

ActiveRuns(rs) ==
    {r \in Runs : rs[r].status \in Active
                    /\ (rs[r].leaseExpiresAt = 0 \/ rs[r].leaseExpiresAt > now)}

ActiveIn(rs, p) == {r \in ActiveRuns(rs) : ProjectOf[rs[r].item] = p}

\* Mutant: one run more than the limit.
CandidatesOffByOne(rs, st) ==
    {r \in Runs : /\ rs[r].status = st
                  /\ ClaimEligible(rs[r])
                  /\ Cardinality(ActiveIn(rs, ProjectOf[rs[r].item])) <= ProjectLimit}

\* The eligible runs of the given status whose project has room.
Candidates(rs, st) ==
    {r \in Runs : /\ rs[r].status = st
                  /\ ClaimEligible(rs[r])
                  /\ Cardinality(ActiveIn(rs, ProjectOf[rs[r].item])) < ProjectLimit}

\* Retries go first, in the order they fall due; then the queue, oldest first.
FirstCandidate(rs, r) ==
    LET failed == Candidates(rs, "failed")
        queued == Candidates(rs, "queued")
    IN  \/ /\ r \in failed
           /\ \A s \in failed : \/ rs[r].nextRetryAt < rs[s].nextRetryAt
                                \/ rs[r].nextRetryAt = rs[s].nextRetryAt /\ r <= s
        \/ /\ failed = {}
           /\ r \in queued
           /\ \A s \in queued : r <= s

\* An unavailable item throws, and takes the reconciliation back with it.
ItemAvailable(it, run, a) ==
    /\ \/ it.status \in {"ready", "active"}
       \/ run.status = "failed" /\ it.status = "blocked"
    /\ \/ it.holder \in {Nobody, a, run.actor}
       \/ it.expiresAt # 0 /\ it.expiresAt <= now

\* `targeted': the runner names the run it wants.
Claim(a, r, lease, targeted, k) ==
    LET rs == RunsReconciled(Runs)
        its == ItemsReconciled(Runs)
        run == rs[r]
    IN  /\ CommandKeyFree(k)
        /\ Cardinality(ActiveRuns(rs)) < GlobalLimit
        /\ IF targeted THEN r \in Candidates(rs, "failed") \cup Candidates(rs, "queued")
                       ELSE FirstCandidate(rs, r)
        /\ ItemAvailable(its[run.item], run, a)
        /\ run.generation < MaxRunGeneration
        /\ runs' = [rs EXCEPT ![r] =
              [status |-> "starting", item |-> run.item, actor |-> a, owner |-> a,
               leaseExpiresAt |-> now + lease,
               generation |-> run.generation + 1,
               leaseGeneration |-> run.leaseGeneration + 1,
               retryAttempt |-> run.retryAttempt, nextRetryAt |-> 0,
               recorded |-> run.recorded]]
        /\ items' = [its EXCEPT ![run.item] =
              Projected(its[run.item], "active", a, now + lease)]
        /\ StoreCommand(k, r, a, run.leaseGeneration + 1)
        /\ UNCHANGED <<timers, events, now>>

-----------------------------------------------------------------------------
HoldsLiveLease(run, a, leaseExpected) ==
    /\ run.leaseGeneration = leaseExpected
    /\ run.owner = a
    /\ run.leaseExpiresAt > now

(* runnerRuns.heartbeat *)
Heartbeat(a, r, expected, leaseExpected, lease, k) ==
    LET run == runs[r]
        it == items[run.item]
    IN  /\ CommandKeyFree(k)
        /\ run.generation = expected
        /\ HoldsLiveLease(run, a, leaseExpected)
        /\ run.status \in Active
        /\ it.status = "active"
        /\ it.holder = a
        /\ runs' = [runs EXCEPT ![r] =
              [status |-> run.status, item |-> run.item, actor |-> run.actor,
               owner |-> run.owner, leaseExpiresAt |-> now + lease,
               generation |-> run.generation,
               leaseGeneration |-> run.leaseGeneration,
               retryAttempt |-> run.retryAttempt, nextRetryAt |-> run.nextRetryAt,
               recorded |-> run.recorded]]
        /\ items' = [items EXCEPT ![run.item] =
              Projected(it, it.status, it.holder, now + lease)]
        /\ StoreCommand(k, r, a, run.leaseGeneration)
        /\ UNCHANGED <<timers, events, now>>

(* runnerRuns.transition: nextRunState as a table. *)
Working == {"starting", "running", "waiting", "blocked"}

CommandFrom ==
    [start |-> {"queued"}, run |-> {"starting"}, wait |-> {"running"},
     block |-> {"starting", "running", "waiting"}, resume |-> {"waiting", "blocked"},
     succeed |-> Working, fail |-> Working, retry |-> {"failed"},
     cancel |-> {"queued", "failed"} \cup Working]

CommandTo ==
    [start |-> "starting", run |-> "running", wait |-> "waiting",
     block |-> "blocked", resume |-> "running", succeed |-> "succeeded",
     fail |-> "failed", retry |-> "queued", cancel |-> "cancelled"]

RunCommands == DOMAIN CommandTo

NeedsLease(command, run) ==
    \/ command \in {"start", "run", "wait", "block"}
    \/ command \in {"resume", "succeed", "fail"} /\ run.status \in Leased

TakesLease(command, run) ==
    command = "retry" \/ (command = "resume" /\ run.status = "blocked")

DropsLease(command) == command \in {"block", "succeed", "fail", "cancel"}

\* Mutant: a new owner under the lease generation of the last one.
LeaseGenerationKept(command, run) == run.leaseGeneration

NextLeaseGeneration(command, run) ==
    IF TakesLease(command, run) THEN run.leaseGeneration + 1 ELSE run.leaseGeneration

\* Mutant: one retry more than the budget.
RetryTimeOffByOne(attempt) ==
    IF attempt <= MaxAttempts THEN now + Backoff * attempt ELSE 0

\* nextRetryAt after a failure: 0 once the budget is used up.
RetryTime(attempt) == IF attempt < MaxAttempts THEN now + Backoff * attempt ELSE 0

NextRunState(run, command, a, lease) ==
    LET attempt == IF command = "fail" THEN run.retryAttempt + 1 ELSE run.retryAttempt
    IN  [status |-> CommandTo[command],
         item |-> run.item,
         actor |-> run.actor,
         owner |-> IF TakesLease(command, run) THEN a
                   ELSE IF DropsLease(command) THEN Nobody ELSE run.owner,
         leaseExpiresAt |-> IF TakesLease(command, run) THEN now + lease
                            ELSE IF DropsLease(command) THEN 0 ELSE run.leaseExpiresAt,
         generation |-> run.generation + 1,
         leaseGeneration |-> NextLeaseGeneration(command, run),
         retryAttempt |-> attempt,
         nextRetryAt |-> IF command = "fail" THEN RetryTime(attempt)
                         ELSE IF command \in {"retry", "succeed", "cancel"} THEN 0
                         ELSE run.nextRetryAt,
         recorded |-> IF command \in {"succeed", "fail", "cancel"}
                      THEN run.generation + 1 ELSE run.recorded]

\* Mutant: the item's claimant is not looked at.
ProjectableByStatus(it, run, next) == it.status \in {"ready", "active", "blocked"}

(* requireProjectableItem *)
Projectable(it, run, next) ==
    /\ it.status \in {"ready", "active", "blocked"}
    /\ \/ it.holder \in {Nobody, Holder(run), next.owner}
       \/ it.expiresAt # 0 /\ it.expiresAt <= now

(* projectItem *)
ItemStatusFor(st) ==
    IF st \in Leased THEN "active"
    ELSE IF st = "succeeded" THEN "done"
    ELSE IF st \in {"blocked", "failed"} THEN "blocked"
    ELSE "ready"

RunTransition(command, a, r, expected, leaseExpected, lease, k) ==
    LET run == runs[r]
        next == NextRunState(run, command, a, lease)
        it == items[run.item]
    IN  /\ CommandKeyFree(k)
        /\ run.generation = expected
        /\ run.leaseGeneration = leaseExpected
        /\ run.status \notin Terminal
        /\ run.status = "failed" => run.nextRetryAt # 0
        /\ run.status \in CommandFrom[command]
        /\ NeedsLease(command, run) => HoldsLiveLease(run, a, leaseExpected)
        /\ command = "retry" => /\ run.nextRetryAt <= now
                                /\ run.retryAttempt < MaxAttempts
        /\ Projectable(it, run, next)
        /\ next.generation <= MaxRunGeneration
        /\ runs' = [runs EXCEPT ![r] = next]
        /\ items' = [items EXCEPT ![run.item] =
              Projected(it, ItemStatusFor(next.status), next.owner, next.leaseExpiresAt)]
        /\ StoreCommand(k, r, a, next.leaseGeneration)
        /\ UNCHANGED <<timers, events, now>>

(* queuedRuns.finish: only while the newest execution record is of the      *)
(* run's own generation.  The lease and the item keep what they show.       *)
Finish(a, r, expected, leaseExpected, st, k) ==
    LET run == runs[r]
    IN  /\ KeyFree(k)
        /\ run.status \in Unfinished
        /\ run.owner = a
        /\ run.generation = expected
        /\ run.leaseGeneration = leaseExpected
        /\ run.recorded = run.generation
        /\ run.generation < MaxRunGeneration
        /\ runs' = [runs EXCEPT ![r] =
              [status |-> st, item |-> run.item, actor |-> run.actor,
               owner |-> run.owner, leaseExpiresAt |-> run.leaseExpiresAt,
               generation |-> run.generation + 1,
               leaseGeneration |-> run.leaseGeneration,
               retryAttempt |-> run.retryAttempt, nextRetryAt |-> 0,
               recorded |-> run.generation + 1]]
        /\ AppendEvent(k, "run.finished", run.item, run.actor,
                       items[run.item].generation)
        /\ UNCHANGED <<items, timers, now, commands>>

-----------------------------------------------------------------------------
Dispatches ==
    \E a \in Actors, i \in Items, expected \in 0..MaxGeneration, lease \in Leases,
       r \in Runs, k \in Keys \cup {NoKey} : Dispatch(a, i, expected, lease, r, k)

Claims ==
    \E a \in Actors, r \in Runs, lease \in Leases, targeted \in BOOLEAN,
       k \in CommandKeys \cup {NoKey} : Claim(a, r, lease, targeted, k)

RunnerSteps ==
    \E a \in Actors, r \in Runs, expected, leaseExpected \in 1..MaxRunGeneration,
       lease \in Leases, k \in CommandKeys \cup {NoKey} :
        \/ Heartbeat(a, r, expected, leaseExpected, lease, k)
        \/ \E command \in RunCommands :
              RunTransition(command, a, r, expected, leaseExpected, lease, k)

Finishes ==
    \E a \in Actors, r \in Runs, expected, leaseExpected \in 1..MaxRunGeneration,
       st \in Terminal \cup {"failed"}, k \in Keys \cup {NoKey} :
        Finish(a, r, expected, leaseExpected, st, k)

Reconciles == Reconcile(Runs) \/ \E r \in Runs : Reconcile({r})

ClaimSide == (ClientSteps \/ TimerSteps \/ Tick) /\ UNCHANGED runVars

RunNext == Dispatches \/ Claims \/ RunnerSteps \/ Finishes \/ Reconciles \/ ClaimSide

RunSpec == RunInit /\ [][RunNext]_allVars

\* The scheduler runs what it was given, and runners that ask for work keep
\* reconciling lapsed leases.
FairRunSpec ==
    /\ RunSpec
    /\ \A i \in Items, gen \in 1..MaxGeneration :
          WF_allVars(/\ \E tm \in timers : /\ tm.item = i
                                           /\ tm.generation = gen
                                           /\ ExpireScheduled(tm)
                     /\ UNCHANGED runVars)
    /\ WF_allVars(Reconcile(Runs))

-----------------------------------------------------------------------------
RunTypeOK ==
    /\ TypeOK
    /\ runs \in [Runs -> Run]
    /\ commands \subseteq Command

\* A run in a leased status has an owner and an expiry: without them
\* reconciliation never finds it and projectItem throws on it.
LeaseShape ==
    \A r \in Runs : runs[r].status \in Leased =>
        runs[r].owner # Nobody /\ runs[r].leaseExpiresAt # 0

\* An item has at most one run that is unfinished or waits for its retry,
\* whatever is dispatched, abandoned, retried and finished around it.
OneOpenRunPerItem ==
    \A r, s \in Runs :
        /\ runs[r].status \in Unfinished \/ Retryable(runs[r])
        /\ runs[s].status \in Unfinished \/ Retryable(runs[s])
        /\ runs[r].item = runs[s].item
        => r = s

\* The retry budget: a run that may still be retried has attempts left, and no
\* run fails more often than its budget.
RetryBudget ==
    \A r \in Runs :
        /\ runs[r].retryAttempt <= MaxAttempts
        /\ runs[r].nextRetryAt # 0 =>
              runs[r].status = "failed" /\ runs[r].retryAttempt < MaxAttempts

\* A command key has one recorded answer (.unique() throws on a second), and a
\* runner that gets that answer again, however late, may rely on it as long as
\* the run is leased under the lease generation it shows: it is the owner.
ReplayedLeaseIsOwned ==
    /\ \A c, d \in commands : c.key = d.key => c = d
    /\ \A c \in commands :
          /\ runs[c.run].leaseGeneration = c.leaseGeneration
          /\ runs[c.run].status \in Leased
          => runs[c.run].owner = c.actor

\* A lease generation of a run has one owner for ever: ownership passes on,
\* to another runner or back to the same one, only under a larger one, and
\* neither generation of a run goes back.
LeaseGenerationNamesOwner ==
    [][\A r \in Runs :
          /\ runs'[r].generation >= runs[r].generation
          /\ runs'[r].leaseGeneration >= runs[r].leaseGeneration
          /\ runs'[r].owner \notin {runs[r].owner, Nobody} =>
                runs'[r].leaseGeneration > runs[r].leaseGeneration]_allVars

\* A finished run stays as it is: late heartbeats, transitions, claims and
\* reconciliation change nothing about it.
FinishedIsFinal ==
    [][\A r \in Runs :
          runs[r].status \in Terminal \/ (runs[r].status = "failed" /\ ~Retryable(runs[r]))
          => runs'[r] = runs[r]]_allVars

\* Run operations take a running claim only from the run's own people: the
\* claimant before the step asked for it itself, or was the lease owner or
\* the actor of a run on the item.
RunsRespectForeignClaims ==
    [][\A i \in Items :
          Live(items[i], now) /\ items'[i].holder # items[i].holder
          => \/ \E k \in Keys \cup {NoKey} : ClientStep(items[i].holder, i, k)
             \/ \E r \in Runs : /\ runs[r].item = i
                                /\ items[i].holder \in {runs[r].owner, runs[r].actor}
                                /\ runs'[r] # runs[r]]_allVars

\* Whoever becomes claimant does so under a fresh claim generation or as the
\* owner of a run lease on the item: no step installs a claimant that neither
\* fence protects.
NewClaimantIsFenced ==
    [][\A i \in Items :
          items'[i].holder \notin {items[i].holder, Nobody}
          => \/ items'[i].generation > items[i].generation
             \/ \E r \in Runs : /\ runs'[r].item = i
                                /\ runs'[r].status \in Leased
                                /\ runs'[r].owner = items'[i].holder
                                /\ runs'[r].leaseExpiresAt = items'[i].expiresAt]_allVars

\* A pickup leaves no more runs active than the runner's limits allow, in the
\* workspace and in the project of the run, counted after the lapsed leases it
\* reconciled.  (The commands start and resume look at no limit.)
PickupWithinCapacity ==
    [][Claims =>
          /\ Cardinality(ActiveRuns(runs')) <= GlobalLimit
          /\ \A r \in Runs :
                runs'[r].leaseGeneration > runs[r].leaseGeneration =>
                    Cardinality(ActiveIn(runs', ProjectOf[runs[r].item])) <= ProjectLimit]_allVars

\* A run whose runner disappears, or that no runner picks up in time, does not
\* keep its capacity slot for ever, nor its item: once its lease is cleared,
\* the item is no longer claimed by whoever held the run.  (A supervisor that
\* finishes a lost run leaves both lease and claim; see finished_claim.)
LostRunsAreAbandoned ==
    \A r \in Runs, a \in Actors :
        LeaseOver(runs[r]) /\ Holder(runs[r]) = a
            ~> /\ ~LeaseOver(runs[r])
               /\ runs[r].owner = Nobody => ~(/\ items[runs[r].item].status = "active"
                                             /\ items[runs[r].item].holder = a)

-----------------------------------------------------------------------------
(* Statements of the documentation that the code does not meet. *)

\* No expiry clean-up ends a claim that was renewed past it.
ExpirySparesRenewedClaims ==
    [][Reconciles => \A i \in Items : Live(items[i], now) => items'[i] = items[i]]_allVars
=============================================================================
