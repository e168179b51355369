-------------------------- MODULE RunnerRunsProofs --------------------------
(***************************************************************************)
(* Proofs about RunnerRuns: dispatch, runner runs and supervisor finish    *)
(* beside the whole claim ledger, for any number of actors, items and      *)
(* runs, any limits, retry policy and bounds.                              *)
(***************************************************************************)
EXTENDS RunnerRuns, ItemClaimsProofs, FiniteSetTheorems

Open(run) == run.status \in Unfinished \/ Retryable(run)

\* What LeaseShape and RetryBudget say of one row, that a run which may still
\* fail has an attempt left to use up, and that a dispatched run has an actor.
RunOK(run) ==
    /\ run \in Run
    /\ run.status # "absent" => run.actor # Nobody
    /\ run.status \in Leased => run.owner # Nobody /\ run.leaseExpiresAt # 0
    /\ run.retryAttempt <= MaxAttempts
    /\ run.nextRetryAt # 0 => run.status = "failed" /\ run.retryAttempt < MaxAttempts
    /\ run.status \in Unfinished => run.retryAttempt < MaxAttempts

\* The recorded answers are about runs that exist, and show lease generations
\* these runs have reached.
AnswersReached ==
    \A c \in commands :
        /\ runs[c.run].status # "absent"
        /\ c.leaseGeneration <= runs[c.run].leaseGeneration

\* The inductive invariant.
RunInv ==
    /\ TypeOK
    /\ ClaimShape
    /\ runs \in [Runs -> Run]
    /\ \A r \in Runs : RunOK(runs[r])
    /\ \A r \in Runs : runs[r].status = "absent" => runs[r] = NoRun
    /\ commands \subseteq Command
    /\ OneOpenRunPerItem
    /\ ReplayedLeaseIsOwned
    /\ AnswersReached

\* How a run that is dispatched already may change: only while it is open,
\* and never to another owner under the same lease generation.
Moves(old, new) ==
    /\ Open(old)
    /\ RunOK(new)
    /\ new.status # "absent"
    /\ new.item = old.item
    /\ new.generation >= old.generation
    /\ new.leaseGeneration >= old.leaseGeneration
    /\ new.leaseGeneration = old.leaseGeneration => new.owner \in {old.owner, Nobody}
    /\ new.leaseGeneration = old.leaseGeneration /\ new.status \in Leased
          => old.status \in Leased /\ new.owner = old.owner

\* The new row of a dispatch.
Queued(old, new) ==
    /\ old.status = "absent"
    /\ RunOK(new)
    /\ new.status # "absent"
    /\ new.generation = 1 /\ new.leaseGeneration = 1
    /\ NoOpenRun(new.item)

\* A runner command's answer, recorded under its key: the run it shows is
\* leased to the caller or not leased.
Answers(k, r, a) ==
    /\ CommandKeyFree(k)
    /\ StoreCommand(k, r, a, runs'[r].leaseGeneration)
    /\ runs'[r].status # "absent"
    /\ runs'[r].status \in Leased => runs'[r].owner = a

\* The item rows as a whole.
Shaped(its) == its \in [Items -> Item] /\ \A i \in Items : RowShape(its[i])

-----------------------------------------------------------------------------
(* Item rows. *)

\* The invariant's part about items, in one piece.
LEMMA ItemsShaped ==
    ASSUME items \in [Items -> Item]
    PROVE  ClaimShape <=> Shaped(items)
  BY DEF ClaimShape, Shaped, RowShape

\* The same of the state after a step.
LEMMA ItemsShapedNext ==
    ASSUME items' \in [Items -> Item]
    PROVE  ClaimShape' <=> Shaped(items')
  BY DEF ClaimShape, Shaped, RowShape

\* Copying a lease, or none, onto an item leaves a well formed row.
LEMMA ProjectedShaped ==
    ASSUME NEW its, Shaped(its), NEW i \in Items,
           NEW st \in Statuses, NEW owner \in Actors \cup {Nobody}, NEW expiry \in Nat,
           st = "active" <=> owner # Nobody, st = "active" <=> expiry # 0
    PROVE  /\ Shaped([its EXCEPT ![i] = Projected(its[i], st, owner, expiry)])
           /\ Projected(its[i], st, owner, expiry) \in Item
<1>1. its[i] \in Item
  BY DEF Shaped
<1>2. /\ Projected(its[i], st, owner, expiry) \in Item
      /\ RowShape(Projected(its[i], st, owner, expiry))
  BY <1>1 DEF Projected, Item, RowShape
<1> HIDE DEF Projected
<1> QED
  BY <1>2 DEF Shaped

\* Reconciliation releases rows and leaves the others as they are.
LEMMA ReconciledShaped ==
    ASSUME Shaped(items), NEW S
    PROVE  /\ Shaped(ItemsReconciled(S))
           /\ \A i \in Items : ItemsReconciled(S)[i].holder \in {items[i].holder, Nobody}
<1>1. ASSUME NEW i \in Items
      PROVE  /\ ItemsReconciled(S)[i] \in Item
             /\ RowShape(ItemsReconciled(S)[i])
             /\ ItemsReconciled(S)[i].holder \in {items[i].holder, Nobody}
  <2>1. /\ Projected(items[i], "ready", Nobody, 0) \in Item
        /\ RowShape(Projected(items[i], "ready", Nobody, 0))
        /\ Projected(items[i], "ready", Nobody, 0).holder = Nobody
    BY DEF Shaped, Projected, Item, Statuses, RowShape
  <2>2. \/ ItemsReconciled(S)[i] = items[i]
        \/ ItemsReconciled(S)[i] = Projected(items[i], "ready", Nobody, 0)
    BY DEF ItemsReconciled
  <2> QED
    BY <2>1, <2>2 DEF Shaped
<1>2. ItemsReconciled(S) = [i \in Items |-> ItemsReconciled(S)[i]]
  BY DEF ItemsReconciled
<1> HIDE DEF ItemsReconciled
<1> QED
  BY <1>1, <1>2 DEF Shaped

-----------------------------------------------------------------------------
(* What the steps do to run rows. *)

\* Whatever rows move, the invariant about runs and answers stays.
LEMMA MovesPreserve ==
    ASSUME RunInv, TypeOK', ClaimShape', runs' \in [Runs -> Run],
           \A r \in Runs : runs'[r] = runs[r] \/ Moves(runs[r], runs'[r]),
           \/ commands' = commands
           \/ \E k \in CommandKeys \cup {NoKey}, r \in Runs, a \in Actors : Answers(k, r, a)
    PROVE  RunInv'
<1>1. \A r \in Runs : /\ RunOK(runs'[r])
                      /\ runs'[r].status = "absent" => runs'[r] = NoRun
  BY DEF RunInv, Moves
<1>2. OneOpenRunPerItem'
  <2>1. \A r \in Runs : Open(runs'[r]) => Open(runs[r]) /\ runs'[r].item = runs[r].item
    BY DEF Moves
  <2> QED
    BY <2>1 DEF RunInv, OneOpenRunPerItem, Open
<1>3. \A c \in commands : /\ c \in Command /\ c.run \in Runs
                          /\ c.leaseGeneration \in Nat /\ c.actor \in Actors
                          /\ runs[c.run] \in Run /\ runs'[c.run] \in Run
  BY DEF RunInv, Command
<1>4. \A c \in commands : /\ runs'[c.run].status # "absent"
                          /\ c.leaseGeneration <= runs'[c.run].leaseGeneration
                          /\ /\ runs'[c.run].leaseGeneration = c.leaseGeneration
                             /\ runs'[c.run].status \in Leased
                             => runs'[c.run].owner = c.actor
  <2> SUFFICES ASSUME NEW c \in commands
               PROVE  /\ runs'[c.run].status # "absent"
                      /\ c.leaseGeneration <= runs'[c.run].leaseGeneration
                      /\ /\ runs'[c.run].leaseGeneration = c.leaseGeneration
                         /\ runs'[c.run].status \in Leased
                         => runs'[c.run].owner = c.actor
    OBVIOUS
  <2>1. /\ runs[c.run].status # "absent"
        /\ c.leaseGeneration <= runs[c.run].leaseGeneration
        /\ /\ runs[c.run].leaseGeneration = c.leaseGeneration
           /\ runs[c.run].status \in Leased
           => runs[c.run].owner = c.actor
    BY DEF RunInv, AnswersReached, ReplayedLeaseIsOwned
  <2>2. CASE runs'[c.run] = runs[c.run]
    BY <2>1, <2>2
  <2>3. CASE Moves(runs[c.run], runs'[c.run])
    <3>1. /\ c.leaseGeneration \in Nat /\ runs[c.run].leaseGeneration \in Nat
          /\ runs'[c.run].leaseGeneration \in Nat
      BY <1>3 DEF Run
    <3>2. runs'[c.run].leaseGeneration = c.leaseGeneration
             => runs[c.run].leaseGeneration = c.leaseGeneration
      BY <2>1, <2>3, <3>1 DEF Moves
    <3> QED
      BY <2>1, <2>3, <3>1, <3>2 DEF Moves
  <2> QED
    BY <1>3, <2>2, <2>3
<1>5. CASE commands' = commands
  BY <1>1, <1>2, <1>3, <1>4, <1>5 DEF RunInv, AnswersReached, ReplayedLeaseIsOwned
<1>6. CASE \E k \in CommandKeys \cup {NoKey}, r \in Runs, a \in Actors : Answers(k, r, a)
  <2>1. PICK k \in CommandKeys \cup {NoKey}, r \in Runs, a \in Actors : Answers(k, r, a)
    BY <1>6
  <2> DEFINE c == [key |-> k, run |-> r, actor |-> a,
                   leaseGeneration |-> runs'[r].leaseGeneration]
  <2>2. CASE k = NoKey
    BY <1>5, <2>1, <2>2 DEF Answers, StoreCommand
  <2>3. CASE k # NoKey
    <3>1. /\ commands' = commands \cup {c} /\ c \in Command
          /\ c.key = k /\ c.run = r /\ c.actor = a
          /\ c.leaseGeneration = runs'[r].leaseGeneration
          /\ runs'[r].leaseGeneration \in Nat
      BY <2>1, <2>3 DEF Answers, StoreCommand, Command, Run
    <3>2. \A d \in commands : d.key # c.key
      BY <2>1, <3>1 DEF Answers, CommandKeyFree
    <3> HIDE DEF c
    <3>3. ReplayedLeaseIsOwned'
      BY <1>4, <2>1, <3>1, <3>2 DEF RunInv, ReplayedLeaseIsOwned, Answers
    <3>4. AnswersReached'
      BY <1>4, <2>1, <3>1 DEF AnswersReached, Answers
    <3> QED
      BY <1>1, <1>2, <3>1, <3>3, <3>4 DEF RunInv
  <2> QED
    BY <2>2, <2>3
<1> QED
  BY <1>5, <1>6

\* A run whose lease ran out is abandoned for good, its fence untouched.
LEMMA AbandonedMoves ==
    ASSUME NEW run, RunOK(run), LeaseOver(run)
    PROVE  /\ Moves(run, Abandoned(run))
           /\ Abandoned(run).status = "abandoned"
  BY DEF RunOK, LeaseOver, Moves, Abandoned, Run, RunStatuses, Open, Retryable,
     Unfinished, Leased, Active, Terminal

\* The rows after reconciliation.
LEMMA ReconciledMove ==
    ASSUME RunInv, NEW S, NEW r \in Runs
    PROVE  /\ RunsReconciled(S) \in [Runs -> Run]
           /\ \/ RunsReconciled(S)[r] = runs[r]
              \/ /\ Moves(runs[r], RunsReconciled(S)[r])
                 /\ RunsReconciled(S)[r] = Abandoned(runs[r])
                 /\ RunsReconciled(S)[r].status = "abandoned"
<1>1. ASSUME NEW s \in Runs
      PROVE  /\ RunsReconciled(S)[s] \in Run
             /\ \/ RunsReconciled(S)[s] = runs[s]
                \/ /\ Moves(runs[s], RunsReconciled(S)[s])
                   /\ RunsReconciled(S)[s] = Abandoned(runs[s])
                   /\ RunsReconciled(S)[s].status = "abandoned"
  <2>1. RunOK(runs[s]) /\ runs[s] \in Run
    BY DEF RunInv
  <2>2. CASE s \in S /\ LeaseOver(runs[s])
    <3>1. RunsReconciled(S)[s] = Abandoned(runs[s])
      BY <2>2 DEF RunsReconciled
    <3>2. Moves(runs[s], Abandoned(runs[s])) /\ Abandoned(runs[s]).status = "abandoned"
      BY <2>1, <2>2, AbandonedMoves
    <3> QED
      BY <3>1, <3>2 DEF Moves, RunOK
  <2>3. CASE ~(s \in S /\ LeaseOver(runs[s]))
    BY <2>1, <2>3 DEF RunsReconciled
  <2> QED
    BY <2>2, <2>3
<1>2. RunsReconciled(S) = [s \in Runs |-> RunsReconciled(S)[s]]
  BY DEF RunsReconciled
<1> HIDE DEF RunsReconciled
<1> QED
  BY <1>1, <1>2

\* A lease taken now is well formed.
LEMMA NewLease ==
    ASSUME RunInv, NEW a \in Actors, NEW lease \in Leases
    PROVE  a # Nobody /\ now \in Nat /\ now + lease \in Nat /\ now + lease > now
              /\ now + lease # 0
  BY LeasesAssumption, NobodyAssumption DEF RunInv, TypeOK

\* What each command of nextRunState does to the run, given its guards.
LEMMA NextRunStateMoves ==
    ASSUME RunInv, NEW command \in RunCommands, NEW a \in Actors, NEW r \in Runs,
           NEW lease \in Leases, NEW leaseExpected,
           runs[r].status \notin Terminal,
           runs[r].status = "failed" => runs[r].nextRetryAt # 0,
           runs[r].status \in CommandFrom[command],
           NeedsLease(command, runs[r]) => HoldsLiveLease(runs[r], a, leaseExpected),
           command = "retry" => runs[r].retryAttempt < MaxAttempts
    PROVE  LET next == NextRunState(runs[r], command, a, lease)
           IN  /\ Moves(runs[r], next)
               /\ next.generation = runs[r].generation + 1
               /\ next.status \in Leased => next.owner = a
               /\ next.status \in Leased <=> next.owner # Nobody
               /\ next.status \in Leased <=> next.leaseExpiresAt # 0
<1> DEFINE run == runs[r]
           next == NextRunState(run, command, a, lease)
<1>1. /\ RunOK(run) /\ run \in Run
      /\ a # Nobody /\ now \in Nat /\ now + lease \in Nat /\ now + lease # 0
      /\ MaxAttempts \in Nat /\ Backoff \in Nat
  BY NewLease, PolicyAssumption DEF RunInv
<1>2. command \in {"start", "run", "wait", "block", "resume", "succeed", "fail",
                   "retry", "cancel"}
  BY DEF RunCommands, CommandTo
<1>3. Backoff * (run.retryAttempt + 1) \in Nat
  BY <1>1 DEF Run
<1>4. CASE command \in {"start", "run", "wait"}
  BY <1>1, <1>4 DEF NextRunState, CommandTo, CommandFrom, NeedsLease, HoldsLiveLease,
     TakesLease, DropsLease, NextLeaseGeneration, Moves, Open, Retryable, RunOK, Run,
     RunStatuses, Unfinished, Leased, Active, Terminal, Working
<1>5. CASE command = "resume"
  BY <1>1, <1>5 DEF NextRunState, CommandTo, CommandFrom, NeedsLease, HoldsLiveLease,
     TakesLease, DropsLease, NextLeaseGeneration, Moves, Open, Retryable, RunOK, Run,
     RunStatuses, Unfinished, Leased, Active, Terminal, Working
<1>6. CASE command \in {"block", "succeed"}
  BY <1>1, <1>6 DEF NextRunState, CommandTo, CommandFrom, NeedsLease, HoldsLiveLease,
     TakesLease, DropsLease, NextLeaseGeneration, Moves, Open, Retryable, RunOK, Run,
     RunStatuses, Unfinished, Leased, Active, Terminal, Working
<1>7. CASE command = "fail"
  BY <1>1, <1>3, <1>7 DEF NextRunState, CommandTo, CommandFrom, NeedsLease, HoldsLiveLease,
     TakesLease, DropsLease, NextLeaseGeneration, RetryTime, Moves, Open, Retryable, RunOK,
     Run, RunStatuses, Unfinished, Leased, Active, Terminal, Working
<1>8. CASE command \in {"retry", "cancel"}
  BY <1>1, <1>8 DEF NextRunState, CommandTo, CommandFrom, NeedsLease, HoldsLiveLease,
     TakesLease, DropsLease, NextLeaseGeneration, Moves, Open, Retryable, RunOK, Run,
     RunStatuses, Unfinished, Leased, Active, Terminal, Working
<1> QED
  BY <1>2, <1>4, <1>5, <1>6, <1>7, <1>8

-----------------------------------------------------------------------------
(* Each action preserves the invariant, and changes rows only as Moves and  *)
(* Queued allow.                                                            *)

RowsStep ==
    \A r \in Runs : \/ runs'[r] = runs[r]
                    \/ Moves(runs[r], runs'[r])
                    \/ Queued(runs[r], runs'[r])

\* A step that rewrites item rows well and leaves timers, events and the clock.
LEMMA ItemsOnly ==
    ASSUME RunInv, Shaped(items'), UNCHANGED <<timers, now>>, events' \subseteq Event
    PROVE  TypeOK' /\ ClaimShape'
<1>1. TypeOK'
  BY DEF RunInv, TypeOK, Shaped
<1> QED
  BY <1>1, ItemsShapedNext DEF TypeOK

\* Dispatch: the one step that opens a run, on an item without an open one.
LEMMA DispatchPreserves ==
    ASSUME RunInv, NEW a \in Actors, NEW i \in Items, NEW expected, NEW lease \in Leases,
           NEW r \in Runs, NEW k \in Keys \cup {NoKey},
           Dispatch(a, i, expected, lease, r, k)
    PROVE  RunInv' /\ RowsStep
<1> DEFINE granted == ClaimedBy(items[i], a, now + lease)
           new == [status |-> "queued", item |-> i, actor |-> a, owner |-> a,
                   leaseExpiresAt |-> granted.expiresAt,
                   generation |-> 1, leaseGeneration |-> 1,
                   retryAttempt |-> 0, nextRetryAt |-> 0, recorded |-> 1]
<1>1. /\ Shaped(items) /\ items[i] \in Item /\ events \subseteq Event
      /\ a # Nobody /\ now \in Nat /\ now + lease \in Nat /\ now + lease # 0
      /\ MaxAttempts \in Nat \ {0}
  BY ItemsShaped, NewLease, PolicyAssumption DEF RunInv, TypeOK
<1>2. /\ granted \in Item /\ RowShape(granted) /\ granted.expiresAt = now + lease
  BY <1>1, ClaimedRow DEF ClaimedBy
<1>3. /\ items' = [items EXCEPT ![i] = granted] /\ runs' = [runs EXCEPT ![r] = new]
      /\ runs[r].status = "absent" /\ NoOpenRun(i)
      /\ AppendEvent(k, "run.queued", i, a, granted.generation)
      /\ timers' = timers /\ now' = now /\ commands' = commands
  BY DEF Dispatch
<1>4. /\ new \in Run /\ RunOK(new) /\ new.status = "queued" /\ new.item = i
      /\ new.generation = 1 /\ new.leaseGeneration = 1
  BY <1>1, <1>2 DEF Run, RunOK, RunStatuses, Unfinished, Leased, Active, Terminal
<1> HIDE DEF granted, new
<1>5. Shaped(items')
  BY <1>1, <1>2, <1>3 DEF Shaped
<1>6. events' \subseteq Event
  BY <1>1, <1>2, <1>3 DEF AppendEvent, Event, EventTypes, Item
<1>7. TypeOK' /\ ClaimShape'
  BY <1>3, <1>5, <1>6, ItemsOnly
<1>8. /\ runs' \in [Runs -> Run] /\ runs'[r] = new
      /\ \A s \in Runs : s # r => runs'[s] = runs[s]
  BY <1>3, <1>4 DEF RunInv
<1>9. OneOpenRunPerItem'
  <2>1. \A s \in Runs : s # r /\ runs'[s].item = i => ~Open(runs'[s])
    BY <1>3, <1>8 DEF NoOpenRun, Open
  <2>2. \A s, t \in Runs : /\ s # r /\ t # r
                           /\ Open(runs'[s]) /\ Open(runs'[t])
                           /\ runs'[s].item = runs'[t].item
                           => s = t
    BY <1>8 DEF RunInv, OneOpenRunPerItem, Open
  <2>3. \A s, t \in Runs : /\ Open(runs'[s]) /\ Open(runs'[t])
                           /\ runs'[s].item = runs'[t].item
                           => s = t
    BY <1>4, <1>8, <2>1, <2>2
  <2> QED
    BY <2>3 DEF OneOpenRunPerItem, Open
<1>10. \A c \in commands : c.run \in Runs /\ runs'[c.run] = runs[c.run]
  BY <1>3, <1>8 DEF RunInv, AnswersReached, Command
<1>11. AnswersReached' /\ ReplayedLeaseIsOwned'
  BY <1>3, <1>10 DEF RunInv, AnswersReached, ReplayedLeaseIsOwned
<1>12. RowsStep
  <2>1. Queued(runs[r], runs'[r])
    BY <1>3, <1>4, <1>8 DEF Queued
  <2> QED
    BY <1>8, <2>1 DEF RowsStep
<1>13. \A s \in Runs : RunOK(runs'[s]) /\ (runs'[s].status = "absent" => runs'[s] = NoRun)
  BY <1>4, <1>8 DEF RunInv
<1> QED
  BY <1>3, <1>7, <1>8, <1>9, <1>11, <1>12, <1>13 DEF RunInv

\* get, list and reconcile.
LEMMA ReconcilePreserves ==
    ASSUME RunInv, NEW S, Reconcile(S)
    PROVE  RunInv' /\ RowsStep
<1>1. /\ runs' = RunsReconciled(S) /\ items' = ItemsReconciled(S)
      /\ UNCHANGED <<timers, events, now, commands>>
  BY DEF Reconcile
<1>2. Shaped(items')
  BY <1>1, ItemsShaped, ReconciledShaped DEF RunInv, TypeOK
<1>3. TypeOK' /\ ClaimShape'
  BY <1>1, <1>2, ItemsOnly DEF RunInv, TypeOK
<1>4. \A r \in Runs : /\ runs' \in [Runs -> Run]
                      /\ runs'[r] = runs[r] \/ Moves(runs[r], runs'[r])
  BY <1>1, ReconciledMove
<1>5. runs' \in [Runs -> Run]
  <2>1. CASE Runs = {}
    BY <1>1, <2>1 DEF RunsReconciled
  <2> QED
    BY <1>4, <2>1
<1> QED
  BY <1>1, <1>3, <1>4, <1>5, MovesPreserve DEF RowsStep

\* A pickup, after its reconciliation: the rows it leaves.
LEMMA ClaimMoves ==
    ASSUME RunInv, NEW a \in Actors, NEW r \in Runs, NEW lease \in Leases,
           NEW targeted \in BOOLEAN, NEW k \in CommandKeys \cup {NoKey},
           Claim(a, r, lease, targeted, k)
    PROVE  /\ RunsReconciled(Runs)[r] = runs[r]
           /\ runs' \in [Runs -> Run]
           /\ Moves(runs[r], runs'[r])
           /\ runs'[r].status = "starting" /\ runs'[r].owner = a
           /\ runs'[r].leaseExpiresAt = now + lease
           /\ runs'[r].generation = runs[r].generation + 1
           /\ runs'[r].leaseGeneration = runs[r].leaseGeneration + 1
           /\ \A s \in Runs : s # r => runs'[s] = RunsReconciled(Runs)[s]
<1> DEFINE rs == RunsReconciled(Runs)
           run == rs[r]
           new == [status |-> "starting", item |-> run.item, actor |-> a, owner |-> a,
                   leaseExpiresAt |-> now + lease,
                   generation |-> run.generation + 1,
                   leaseGeneration |-> run.leaseGeneration + 1,
                   retryAttempt |-> run.retryAttempt, nextRetryAt |-> 0,
                   recorded |-> run.recorded]
<1>1. /\ runs' = [rs EXCEPT ![r] = new]
      /\ r \in Candidates(rs, "failed") \cup Candidates(rs, "queued")
  BY DEF Claim, FirstCandidate
<1>2. rs \in [Runs -> Run]
  BY ReconciledMove
<1>3. /\ run.status \in {"failed", "queued"} /\ ClaimEligible(run)
  BY <1>1 DEF Candidates
<1>4. run = runs[r]
  BY <1>3, ReconciledMove
<1>5. /\ RunOK(runs[r]) /\ runs[r] \in Run
      /\ a # Nobody /\ now + lease \in Nat /\ now + lease # 0
  BY NewLease DEF RunInv
<1>6. Moves(runs[r], new)
  BY <1>3, <1>4, <1>5 DEF ClaimEligible, Moves, Open, Retryable, RunOK, Run, RunStatuses,
     Unfinished, Leased, Active, Terminal
<1>7. new \in Run
  BY <1>6 DEF Moves, RunOK
<1> HIDE DEF rs
<1>8. /\ runs' \in [Runs -> Run] /\ runs'[r] = new
      /\ \A s \in Runs : s # r => runs'[s] = rs[s]
  BY <1>1, <1>2, <1>7
<1> QED
  BY <1>4, <1>6, <1>8 DEF rs

\* runnerRuns.claim.
LEMMA ClaimPreserves ==
    ASSUME RunInv, NEW a \in Actors, NEW r \in Runs, NEW lease \in Leases,
           NEW targeted \in BOOLEAN, NEW k \in CommandKeys \cup {NoKey},
           Claim(a, r, lease, targeted, k)
    PROVE  RunInv' /\ RowsStep
<1> DEFINE its == ItemsReconciled(Runs)
           i == runs[r].item
<1>1. /\ i \in Items /\ a # Nobody /\ now + lease \in Nat /\ now + lease # 0
  BY NewLease DEF RunInv, Run
<1>2. Shaped(its)
  BY ItemsShaped, ReconciledShaped DEF RunInv, TypeOK
<1>3. /\ items' = [its EXCEPT ![i] = Projected(its[i], "active", a, now + lease)]
      /\ UNCHANGED <<timers, events, now>>
      /\ CommandKeyFree(k) /\ StoreCommand(k, r, a, runs[r].leaseGeneration + 1)
  BY ClaimMoves DEF Claim
<1> HIDE DEF its
<1>4. Shaped(items')
  BY <1>1, <1>2, <1>3, ProjectedShaped DEF Statuses
<1>5. TypeOK' /\ ClaimShape'
  BY <1>3, <1>4, ItemsOnly DEF RunInv, TypeOK
<1>6. Answers(k, r, a)
  BY <1>3, ClaimMoves DEF Answers
<1>7. ASSUME NEW s \in Runs PROVE runs'[s] = runs[s] \/ Moves(runs[s], runs'[s])
  <2>1. CASE s = r
    BY <2>1, ClaimMoves
  <2>2. CASE s # r
    BY <2>2, ClaimMoves, ReconciledMove
  <2> QED
    BY <2>1, <2>2
<1>8. runs' \in [Runs -> Run]
  BY ClaimMoves
<1> QED
  BY <1>5, <1>6, <1>7, <1>8, MovesPreserve DEF RowsStep

\* runnerRuns.heartbeat.
LEMMA HeartbeatPreserves ==
    ASSUME RunInv, NEW a \in Actors, NEW r \in Runs, NEW expected, NEW leaseExpected,
           NEW lease \in Leases, NEW k \in CommandKeys \cup {NoKey},
           Heartbeat(a, r, expected, leaseExpected, lease, k)
    PROVE  RunInv' /\ RowsStep
<1> DEFINE run == runs[r]
           i == run.item
           new == [status |-> run.status, item |-> run.item, actor |-> run.actor,
                   owner |-> run.owner, leaseExpiresAt |-> now + lease,
                   generation |-> run.generation,
                   leaseGeneration |-> run.leaseGeneration,
                   retryAttempt |-> run.retryAttempt, nextRetryAt |-> run.nextRetryAt,
                   recorded |-> run.recorded]
<1>1. /\ run \in Run /\ RunOK(run) /\ i \in Items
      /\ a # Nobody /\ now + lease \in Nat /\ now + lease # 0
  BY NewLease DEF RunInv, Run
<1>2. Shaped(items)
  BY ItemsShaped DEF RunInv, TypeOK
<1>3. /\ run.status \in Active /\ run.owner = a
      /\ items[i].status = "active" /\ items[i].holder = a
      /\ runs' = [runs EXCEPT ![r] = new]
      /\ items' = [items EXCEPT ![i] =
                      Projected(items[i], items[i].status, items[i].holder, now + lease)]
      /\ UNCHANGED <<timers, events, now>>
      /\ CommandKeyFree(k) /\ StoreCommand(k, r, a, run.leaseGeneration)
  BY DEF Heartbeat, HoldsLiveLease
<1>4. Moves(run, new) /\ new \in Run
  BY <1>1, <1>3 DEF Moves, Open, RunOK, Run, RunStatuses, Unfinished, Leased, Active, Terminal
<1>5. Shaped(items')
  BY <1>1, <1>2, <1>3, ProjectedShaped DEF Statuses
<1>6. TypeOK' /\ ClaimShape'
  BY <1>3, <1>5, ItemsOnly DEF RunInv, TypeOK
<1>7. /\ runs' \in [Runs -> Run] /\ runs'[r] = new
      /\ \A s \in Runs : s # r => runs'[s] = runs[s]
  BY <1>3, <1>4 DEF RunInv
<1>8. Answers(k, r, a)
  BY <1>3, <1>7 DEF Answers, Active
<1>9. \A s \in Runs : runs'[s] = runs[s] \/ Moves(runs[s], runs'[s])
  BY <1>4, <1>7
<1> QED
  BY <1>6, <1>7, <1>8, <1>9, MovesPreserve DEF RowsStep

\* What a run command leaves behind, on the run and on the item.
LEMMA TransitionMoves ==
    ASSUME RunInv, NEW command \in RunCommands, NEW a \in Actors, NEW r \in Runs,
           NEW expected, NEW leaseExpected, NEW lease \in Leases,
           NEW k \in CommandKeys \cup {NoKey},
           RunTransition(command, a, r, expected, leaseExpected, lease, k)
    PROVE  /\ runs[r].item \in Items
           /\ runs' \in [Runs -> Run]
           /\ Moves(runs[r], runs'[r])
           /\ runs'[r].generation = runs[r].generation + 1
           /\ runs'[r].status \in Leased => runs'[r].owner = a
           /\ runs'[r].status \in Leased <=> runs'[r].owner # Nobody
           /\ runs'[r].status \in Leased <=> runs'[r].leaseExpiresAt # 0
           /\ \A s \in Runs : s # r => runs'[s] = runs[s]
           /\ items' = [items EXCEPT ![runs[r].item] =
                  Projected(items[runs[r].item], ItemStatusFor(runs'[r].status),
                            runs'[r].owner, runs'[r].leaseExpiresAt)]
           /\ Projectable(items[runs[r].item], runs[r], runs'[r])
           /\ StoreCommand(k, r, a, runs'[r].leaseGeneration)
<1> DEFINE next == NextRunState(runs[r], command, a, lease)
<1>1. /\ Moves(runs[r], next)
      /\ next.generation = runs[r].generation + 1
      /\ next.status \in Leased => next.owner = a
      /\ next.status \in Leased <=> next.owner # Nobody
      /\ next.status \in Leased <=> next.leaseExpiresAt # 0
  BY NextRunStateMoves DEF RunTransition
<1>2. next \in Run /\ runs[r].item \in Items /\ runs \in [Runs -> Run]
  BY <1>1 DEF Moves, RunOK, RunInv, Run
<1>3. /\ runs' = [runs EXCEPT ![r] = next]
      /\ items' = [items EXCEPT ![runs[r].item] =
                      Projected(items[runs[r].item], ItemStatusFor(next.status),
                                next.owner, next.leaseExpiresAt)]
      /\ Projectable(items[runs[r].item], runs[r], next)
      /\ StoreCommand(k, r, a, next.leaseGeneration)
  BY DEF RunTransition
<1> HIDE DEF next
<1>4. /\ runs' \in [Runs -> Run] /\ runs'[r] = next
      /\ \A s \in Runs : s # r => runs'[s] = runs[s]
  BY <1>2, <1>3
<1> QED
  BY <1>1, <1>2, <1>3, <1>4

\* The nine commands of runnerRuns.transition.
LEMMA TransitionPreserves ==
    ASSUME RunInv, NEW command \in RunCommands, NEW a \in Actors, NEW r \in Runs,
           NEW expected, NEW leaseExpected, NEW lease \in Leases,
           NEW k \in CommandKeys \cup {NoKey},
           RunTransition(command, a, r, expected, leaseExpected, lease, k)
    PROVE  RunInv' /\ RowsStep
<1> DEFINE next == runs'[r]
           i == runs[r].item
<1>1. /\ next \in Run /\ i \in Items /\ Shaped(items)
  BY TransitionMoves, ItemsShaped DEF RunInv, TypeOK
<1>2. /\ ItemStatusFor(next.status) \in Statuses
      /\ ItemStatusFor(next.status) = "active" <=> next.status \in Leased
      /\ next.owner \in Actors \cup {Nobody} /\ next.leaseExpiresAt \in Nat
  BY <1>1 DEF ItemStatusFor, Statuses, Run
<1>3. /\ next.status \in Leased <=> next.owner # Nobody
      /\ next.status \in Leased <=> next.leaseExpiresAt # 0
      /\ items' = [items EXCEPT ![i] = Projected(items[i], ItemStatusFor(next.status),
                                                next.owner, next.leaseExpiresAt)]
  BY TransitionMoves
<1> HIDE DEF next
<1>4. Shaped(items')
  BY <1>1, <1>2, <1>3, ProjectedShaped
<1>5. UNCHANGED <<timers, events, now>> /\ CommandKeyFree(k)
  BY DEF RunTransition
<1>6. TypeOK' /\ ClaimShape'
  BY <1>4, <1>5, ItemsOnly DEF RunInv, TypeOK
<1>7. Answers(k, r, a)
  BY <1>5, TransitionMoves DEF Answers, Moves
<1>8. \A s \in Runs : runs'[s] = runs[s] \/ Moves(runs[s], runs'[s])
  BY TransitionMoves
<1>9. runs' \in [Runs -> Run]
  BY TransitionMoves
<1> QED
  BY <1>6, <1>7, <1>8, <1>9, MovesPreserve DEF RowsStep

\* queuedRuns.finish.
LEMMA FinishPreserves ==
    ASSUME RunInv, NEW a \in Actors, NEW r \in Runs, NEW expected, NEW leaseExpected,
           NEW st \in Terminal \cup {"failed"}, NEW k \in Keys \cup {NoKey},
           Finish(a, r, expected, leaseExpected, st, k)
    PROVE  RunInv' /\ RowsStep
<1> DEFINE run == runs[r]
           new == [status |-> st, item |-> run.item, actor |-> run.actor,
                   owner |-> run.owner, leaseExpiresAt |-> run.leaseExpiresAt,
                   generation |-> run.generation + 1,
                   leaseGeneration |-> run.leaseGeneration,
                   retryAttempt |-> run.retryAttempt, nextRetryAt |-> 0,
                   recorded |-> run.generation + 1]
<1>1. /\ run \in Run /\ RunOK(run) /\ run.item \in Items
      /\ events \subseteq Event /\ items[run.item] \in Item
  BY DEF RunInv, Run, TypeOK
<1>2. /\ run.status \in Unfinished /\ run.owner = a
      /\ runs' = [runs EXCEPT ![r] = new]
      /\ AppendEvent(k, "run.finished", run.item, run.actor, items[run.item].generation)
      /\ UNCHANGED <<items, timers, now, commands>>
  BY DEF Finish
<1>3. Moves(run, new) /\ new \in Run
  BY <1>1, <1>2 DEF Moves, Open, RunOK, Run, RunStatuses, Unfinished, Leased, Active, Terminal
<1>4. events' \subseteq Event
  <2>1. run.actor \in Actors /\ items[run.item].generation \in Nat
    BY <1>1, <1>2 DEF RunOK, Run, Item, Unfinished, Leased, Active
  <2> QED
    BY <1>1, <1>2, <2>1 DEF AppendEvent, Event, EventTypes
<1>5. TypeOK' /\ ClaimShape'
  BY <1>2, <1>4, ItemsShaped, ItemsOnly DEF RunInv, TypeOK
<1>6. /\ runs' \in [Runs -> Run] /\ runs'[r] = new
      /\ \A s \in Runs : s # r => runs'[s] = runs[s]
  BY <1>2, <1>3 DEF RunInv
<1>7. \A s \in Runs : runs'[s] = runs[s] \/ Moves(runs[s], runs'[s])
  BY <1>3, <1>6
<1> QED
  BY <1>2, <1>5, <1>6, <1>7, MovesPreserve DEF RowsStep

\* Claims, transitions, timers and the clock beside the runs.
LEMMA ClaimSidePreserves ==
    ASSUME RunInv, ClaimSide
    PROVE  RunInv' /\ RowsStep
<1>1. UNCHANGED runVars
  BY DEF ClaimSide
<1>2. TypeOK /\ ClaimShape
  BY DEF RunInv
<1>3. TypeOK' /\ ClaimShape'
  <2>1. CASE ClientSteps
    <3>1. PICK a \in Actors, i \in Items, k \in Keys \cup {NoKey} : ClientStep(a, i, k)
      BY <2>1 DEF ClientSteps
    <3>2. PICK type, row : Rewrites(a, i, k, type, row)
      BY <1>2, <3>1, ClientStepRewrites
    <3>3. /\ items' = [items EXCEPT ![i] = row] /\ row \in Item /\ RowShape(row)
          /\ timers' \subseteq Timer /\ now' = now /\ type \in EventTypes
          /\ AppendEvent(k, type, i, a, row.generation)
      BY <3>2 DEF Rewrites
    <3>4. events' \subseteq Event
      BY <1>2, <3>3 DEF AppendEvent, TypeOK, Event, Item
    <3>5. TypeOK'
      BY <1>2, <3>3, <3>4 DEF TypeOK
    <3>6. ClaimShape'
      BY <1>2, <3>3 DEF ClaimShape, RowShape, TypeOK
    <3> QED
      BY <3>5, <3>6
  <2>2. CASE TimerSteps
    <3>1. PICK tm \in timers : ExpireScheduled(tm)
      BY <2>2 DEF TimerSteps
    <3>2. /\ tm.item \in Items /\ items \in [Items -> Item]
          /\ timers' \subseteq timers /\ events' = events /\ now' = now
          /\ items' = items \/ items' = [items EXCEPT ![tm.item] =
                                            Unclaimed(items[tm.item], "ready")]
      BY <1>2, <3>1 DEF ExpireScheduled, TypeOK, Timer
    <3>3. /\ Unclaimed(items[tm.item], "ready") \in Item
          /\ RowShape(Unclaimed(items[tm.item], "ready"))
      BY <3>2, UnclaimedRow
    <3>4. TypeOK'
      BY <1>2, <3>2, <3>3 DEF TypeOK
    <3>5. ClaimShape'
      BY <1>2, <3>2, <3>3 DEF ClaimShape, RowShape
    <3> QED
      BY <3>4, <3>5
  <2>3. CASE Tick
    BY <1>2, <2>3 DEF Tick, TypeOK, ClaimShape
  <2> QED
    BY <2>1, <2>2, <2>3 DEF ClaimSide
<1> QED
  BY <1>1, <1>3 DEF RunInv, RowsStep, runVars, OneOpenRunPerItem, ReplayedLeaseIsOwned,
     AnswersReached

\* Before the first dispatch there is nothing to go wrong.
LEMMA RunInitInv == ASSUME RunInit PROVE RunInv
<1>1. Init /\ runs = [r \in Runs |-> NoRun] /\ commands = {}
  BY DEF RunInit
<1>2. TypeOK /\ ClaimShape
  BY <1>1, InitInv DEF Inv
<1>3. NoRun \in Run /\ RunOK(NoRun) /\ NoRun.status = "absent"
  BY PolicyAssumption, SomeItem DEF NoRun, Run, RunOK, RunStatuses, Unfinished, Leased, Active, Terminal
<1>4. \A r \in Runs : runs[r] = NoRun
  BY <1>1
<1>5. \A r \in Runs : ~Open(runs[r])
  BY <1>3, <1>4 DEF Open, Retryable, Unfinished, Leased, Active
<1> HIDE DEF NoRun
<1> QED
  BY <1>1, <1>2, <1>3, <1>4, <1>5 DEF RunInv, OneOpenRunPerItem, Open, ReplayedLeaseIsOwned,
     AnswersReached

\* Every step preserves the invariant and moves rows as allowed.
LEMMA RunNextInv ==
    ASSUME RunInv, [RunNext]_allVars
    PROVE  RunInv' /\ RowsStep
<1>1. CASE Dispatches
  BY <1>1, DispatchPreserves DEF Dispatches
<1>2. CASE Claims
  BY <1>2, ClaimPreserves DEF Claims
<1>3. CASE RunnerSteps
  BY <1>3, HeartbeatPreserves, TransitionPreserves DEF RunnerSteps
<1>4. CASE Finishes
  BY <1>4, FinishPreserves DEF Finishes
<1>5. CASE Reconciles
  BY <1>5, ReconcilePreserves DEF Reconciles
<1>6. CASE ClaimSide
  BY <1>6, ClaimSidePreserves
<1>7. CASE UNCHANGED allVars
  BY <1>7 DEF allVars, RunInv, RowsStep, TypeOK, ClaimShape, OneOpenRunPerItem,
     ReplayedLeaseIsOwned, AnswersReached
<1> QED
  BY <1>1, <1>2, <1>3, <1>4, <1>5, <1>6, <1>7 DEF RunNext

-----------------------------------------------------------------------------
\* The inductive invariant holds in every reachable state.
THEOREM RunInvariance == RunSpec => []RunInv
<1>1. RunInv /\ [RunNext]_allVars => RunInv'
  BY RunNextInv
<1> QED
  BY <1>1, RunInitInv, PTL DEF RunSpec

\* Runs, recorded answers and the claim ledger keep their types under dispatch,
\* runner commands, reconciliation and finish.
THEOREM RunsTypeCorrect == RunSpec => []RunTypeOK
<1>1. RunInv => RunTypeOK
  BY DEF RunInv, RunTypeOK
<1> QED
  BY <1>1, RunInvariance, PTL

\* A run in a leased status always has the owner and the expiry that
\* reconcileRunIfExpired and projectItem rely on.
THEOREM LeasesAreShaped == RunSpec => []LeaseShape
<1>1. RunInv => LeaseShape
  BY DEF RunInv, LeaseShape, RunOK
<1> QED
  BY <1>1, RunInvariance, PTL

\* However many dispatches, retries, lapses and finishes an item sees, it has
\* one open run at most (itemCanAcceptDispatch).
THEOREM OneOpenRun == RunSpec => []OneOpenRunPerItem
<1>1. RunInv => OneOpenRunPerItem
  BY DEF RunInv
<1> QED
  BY <1>1, RunInvariance, PTL

\* No run fails more often than its retry budget, and a retry is promised only
\* while an attempt is left (the fail and retry branches of nextRunState).
THEOREM RetriesWithinBudget == RunSpec => []RetryBudget
<1>1. RunInv => RetryBudget
  BY DEF RunInv, RetryBudget, RunOK
<1> QED
  BY <1>1, RunInvariance, PTL

\* A runner that gets a recorded answer again owns the lease the answer shows,
\* as long as the run is leased under that lease generation (replayCommand).
THEOREM ReplayedLeasesAreOwned == RunSpec => []ReplayedLeaseIsOwned
<1>1. RunInv => ReplayedLeaseIsOwned
  BY DEF RunInv
<1> QED
  BY <1>1, RunInvariance, PTL

\* A lease of a run passes to another owner only under a larger lease
\* generation, and no generation goes back (runnerRuns.claim, nextRunState).
THEOREM LeasesAreFenced == RunSpec => LeaseGenerationNamesOwner
<1>1. ASSUME RunInv, RowsStep, NEW r \in Runs
      PROVE  /\ runs'[r].generation >= runs[r].generation
             /\ runs'[r].leaseGeneration >= runs[r].leaseGeneration
             /\ runs'[r].owner \notin {runs[r].owner, Nobody} =>
                   runs'[r].leaseGeneration > runs[r].leaseGeneration
  <2>1. /\ runs[r] \in Run
        /\ runs[r].generation \in Nat /\ runs[r].leaseGeneration \in Nat
    BY <1>1 DEF RunInv, Run
  <2>2. CASE runs'[r] = runs[r]
    BY <2>1, <2>2
  <2>3. CASE Moves(runs[r], runs'[r])
    <3>1. runs'[r].leaseGeneration \in Nat
      BY <2>3 DEF Moves, RunOK, Run
    <3> QED
      BY <2>1, <2>3, <3>1 DEF Moves
  <2>4. CASE Queued(runs[r], runs'[r])
    <3>1. runs[r].generation = 0 /\ runs[r].leaseGeneration = 0
      BY <1>1, <2>4 DEF RunInv, Queued, NoRun
    <3> QED
      BY <2>4, <3>1 DEF Queued
  <2> QED
    BY <1>1, <2>2, <2>3, <2>4 DEF RowsStep
<1>2. RunInv /\ [RunNext]_allVars =>
        [\A r \in Runs :
            /\ runs'[r].generation >= runs[r].generation
            /\ runs'[r].leaseGeneration >= runs[r].leaseGeneration
            /\ runs'[r].owner \notin {runs[r].owner, Nobody} =>
                  runs'[r].leaseGeneration > runs[r].leaseGeneration]_allVars
  BY <1>1, RunNextInv
<1> QED
  BY <1>2, RunInvariance, PTL DEF RunSpec, LeaseGenerationNamesOwner

\* A run that succeeded, was cancelled or abandoned, or failed for good stays
\* as it is, whatever late command, pickup or reconciliation names it.
THEOREM FinishedRunsAreFinal == RunSpec => FinishedIsFinal
<1>1. ASSUME RunInv, RowsStep, NEW r \in Runs,
             runs[r].status \in Terminal \/ (runs[r].status = "failed" /\ ~Retryable(runs[r]))
      PROVE  runs'[r] = runs[r]
  <2>1. ~Open(runs[r]) /\ runs[r].status # "absent"
    BY <1>1 DEF Open, Retryable, Unfinished, Leased, Active, Terminal
  <2> QED
    BY <1>1, <2>1 DEF RowsStep, Moves, Queued
<1>2. RunInv /\ [RunNext]_allVars =>
        [\A r \in Runs :
            runs[r].status \in Terminal \/ (runs[r].status = "failed" /\ ~Retryable(runs[r]))
            => runs'[r] = runs[r]]_allVars
  BY <1>1, RunNextInv
<1> QED
  BY <1>2, RunInvariance, PTL DEF RunSpec, FinishedIsFinal

-----------------------------------------------------------------------------
(* Runs and other people's claims. *)

\* The step takes the claim on i from somebody who belongs to a run of i.
TakenWithinRun(i) ==
    \E r \in Runs : /\ runs[r].item = i
                    /\ items[i].holder \in {runs[r].owner, runs[r].actor}
                    /\ runs'[r] # runs[r]

\* Reconciliation releases an item only from the holder of a run it abandons.
LEMMA ReconciledTakes ==
    ASSUME RunInv, NEW S \in SUBSET Runs, NEW i \in Items,
           ItemsReconciled(S)[i] # items[i],
           \A r \in S : LeaseOver(runs[r]) => runs'[r] # runs[r]
    PROVE  TakenWithinRun(i)
<1>1. PICK r \in S : /\ LeaseOver(runs[r]) /\ runs[r].item = i
                     /\ items[i].holder = Holder(runs[r])
  BY DEF ItemsReconciled
<1> QED
  BY <1>1 DEF TakenWithinRun, Holder

\* A run whose lease is over is changed by reconciliation.
LEMMA ReconciledChanges ==
    ASSUME RunInv, NEW S, NEW r \in S, r \in Runs, LeaseOver(runs[r])
    PROVE  /\ RunsReconciled(S)[r] # runs[r]
           /\ RunsReconciled(S)[r].status = "abandoned"
<1>1. RunsReconciled(S)[r] = Abandoned(runs[r])
  BY DEF RunsReconciled
<1> QED
  BY <1>1 DEF Abandoned, LeaseOver, Leased, Active

\* A pickup takes a running claim only within a run of the item.
LEMMA ClaimTakes ==
    ASSUME RunInv, NEW a \in Actors, NEW r \in Runs, NEW lease \in Leases,
           NEW targeted \in BOOLEAN, NEW k \in CommandKeys \cup {NoKey},
           Claim(a, r, lease, targeted, k),
           NEW i \in Items, Live(items[i], now), items'[i].holder # items[i].holder
    PROVE  TakenWithinRun(i)
<1> DEFINE its == ItemsReconciled(Runs)
           j == runs[r].item
<1>1. /\ runs[r] \in Run /\ j \in Items /\ items[i] \in Item /\ now \in Nat
      /\ runs[r].generation \in Nat
  BY DEF RunInv, Run, TypeOK
<1>2. /\ items' = [its EXCEPT ![j] = Projected(its[j], "active", a, now + lease)]
      /\ ItemAvailable(its[j], runs[r], a)
  BY ClaimMoves DEF Claim
<1>3. its \in [Items -> Item]
  BY ItemsShaped, ReconciledShaped DEF RunInv, TypeOK, Shaped
<1>4. runs'[r] # runs[r]
  BY <1>1, ClaimMoves
<1>5. CASE its[i] # items[i]
  <2>1. ASSUME NEW s \in Runs, LeaseOver(runs[s]) PROVE runs'[s] # runs[s]
    <3>1. CASE s = r
      BY <1>4, <3>1
    <3>2. CASE s # r
      BY <2>1, <3>2, ClaimMoves, ReconciledChanges
    <3> QED
      BY <3>1, <3>2
  <2> QED
    BY <1>5, <2>1, ReconciledTakes
<1>6. CASE its[i] = items[i]
  <2> HIDE DEF its
  <2>1. i = j
    BY <1>1, <1>2, <1>3, <1>6
  <2>2. items'[i].holder = a
    BY <1>1, <1>2, <1>3, <2>1 DEF Projected
  <2>3. items[i].holder = runs[r].actor
    BY <1>1, <1>2, <1>6, <2>1, <2>2 DEF ItemAvailable, Live, Item
  <2> QED
    BY <1>4, <2>1, <2>3 DEF TakenWithinRun
<1> QED
  BY <1>5, <1>6

\* A run command takes a running claim only within a run of the item.
LEMMA TransitionTakes ==
    ASSUME RunInv, NEW command \in RunCommands, NEW a \in Actors, NEW r \in Runs,
           NEW expected, NEW leaseExpected, NEW lease \in Leases,
           NEW k \in CommandKeys \cup {NoKey},
           RunTransition(command, a, r, expected, leaseExpected, lease, k),
           NEW i \in Items, Live(items[i], now), items'[i].holder # items[i].holder
    PROVE  TakenWithinRun(i)
<1> DEFINE j == runs[r].item
           next == runs'[r]
           row == Projected(items[j], ItemStatusFor(next.status), next.owner,
                            next.leaseExpiresAt)
<1>1. /\ items \in [Items -> Item] /\ items[i] \in Item /\ now \in Nat
      /\ runs[r].generation \in Nat /\ j \in Items
  BY DEF RunInv, Run, TypeOK
<1>2. /\ items' = [items EXCEPT ![j] = row]
      /\ Projectable(items[j], runs[r], next)
      /\ next.generation = runs[r].generation + 1
  BY TransitionMoves
<1>3. row.holder = next.owner
  BY DEF Projected
<1> HIDE DEF row, next
<1>4. i = j
  BY <1>1, <1>2
<1>5. items'[i].holder = next.owner
  BY <1>1, <1>2, <1>3, <1>4
<1>6. items[i].holder = Holder(runs[r])
  BY <1>1, <1>2, <1>4, <1>5 DEF Projectable, Live, Item
<1>7. runs'[r] # runs[r]
  BY <1>1, <1>2 DEF next
<1> QED
  BY <1>4, <1>6, <1>7 DEF TakenWithinRun, Holder

\* Run operations take a running claim only from the run's own people; any
\* other claimant gives it up itself (requireProjectableItem, the holder check
\* of runnerRuns.claim, reconcileRunIfExpired).
THEOREM ForeignClaimsAreRespected == RunSpec => RunsRespectForeignClaims
<1>1. ASSUME RunInv, [RunNext]_allVars, NEW i \in Items,
             Live(items[i], now), items'[i].holder # items[i].holder
      PROVE  \/ \E k \in Keys \cup {NoKey} : ClientStep(items[i].holder, i, k)
             \/ TakenWithinRun(i)
  <2>0. TypeOK /\ ClaimShape /\ items \in [Items -> Item] /\ items[i] \in Item
    BY <1>1 DEF RunInv, TypeOK
  <2>1. CASE Dispatches
    <3>1. PICK a \in Actors, j \in Items, expected \in 0..MaxGeneration,
               lease \in Leases, r \in Runs, k \in Keys \cup {NoKey} :
               Dispatch(a, j, expected, lease, r, k)
      BY <2>1 DEF Dispatches
    <3>2. items[j].status = "ready"
             /\ items' = [items EXCEPT ![j] = ClaimedBy(items[j], a, now + lease)]
      BY <3>1 DEF Dispatch
    <3>3. items[j].holder = Nobody
      BY <2>0, <3>2 DEF ClaimShape
    <3> QED
      BY <1>1, <2>0, <3>2, <3>3 DEF Live
  <2>2. CASE Claims
    BY <1>1, <2>2, ClaimTakes DEF Claims
  <2>3. CASE RunnerSteps
    <3>1. ASSUME NEW a \in Actors, NEW r \in Runs, NEW expected, NEW leaseExpected,
                 NEW lease \in Leases, NEW k,
                 Heartbeat(a, r, expected, leaseExpected, lease, k)
          PROVE  FALSE
      <4>1. runs[r].item \in Items
        BY <1>1 DEF RunInv, Run
      <4> QED
        BY <1>1, <2>0, <3>1, <4>1 DEF Heartbeat, Projected
    <3> QED
      BY <1>1, <2>3, <3>1, TransitionTakes DEF RunnerSteps
  <2>4. CASE Finishes
    BY <1>1, <2>4 DEF Finishes, Finish
  <2>5. CASE Reconciles
    <3>1. PICK S \in SUBSET Runs : Reconcile(S)
      BY <2>5 DEF Reconciles
    <3>2. \A r \in S : LeaseOver(runs[r]) => runs'[r] # runs[r]
      BY <1>1, <3>1, ReconciledChanges DEF Reconcile
    <3>3. ItemsReconciled(S)[i] # items[i]
      BY <1>1, <3>1 DEF Reconcile
    <3> QED
      BY <1>1, <3>2, <3>3, ReconciledTakes
  <2>6. CASE ClaimSide
    <3>1. CASE ClientSteps
      <4>1. PICK a \in Actors, j \in Items, k \in Keys \cup {NoKey} : ClientStep(a, j, k)
        BY <3>1 DEF ClientSteps
      <4>2. PICK type, row : Rewrites(a, j, k, type, row)
        BY <2>0, <4>1, ClientStepRewrites
      <4>3. j = i
        BY <1>1, <2>0, <4>2 DEF Rewrites
      <4> QED
        BY <1>1, <2>0, <4>1, <4>3, ClientStepIsHolders
    <3>2. CASE TimerSteps
      BY <1>1, <2>0, <3>2, ExpireSparesLive DEF TimerSteps
    <3>3. CASE Tick
      BY <1>1, <3>3 DEF Tick
    <3> QED
      BY <2>6, <3>1, <3>2, <3>3 DEF ClaimSide
  <2>7. CASE UNCHANGED allVars
    BY <1>1, <2>7 DEF allVars
  <2> QED
    BY <1>1, <2>1, <2>2, <2>3, <2>4, <2>5, <2>6, <2>7 DEF RunNext
<1>2. RunInv /\ [RunNext]_allVars =>
        [\A i \in Items :
            Live(items[i], now) /\ items'[i].holder # items[i].holder
            => \/ \E k \in Keys \cup {NoKey} : ClientStep(items[i].holder, i, k)
               \/ \E r \in Runs : /\ runs[r].item = i
                                  /\ items[i].holder \in {runs[r].owner, runs[r].actor}
                                  /\ runs'[r] # runs[r]]_allVars
  BY <1>1 DEF TakenWithinRun
<1> QED
  BY <1>2, RunInvariance, PTL DEF RunSpec, RunsRespectForeignClaims

\* Nobody becomes claimant without a fence: either the claim generation is
\* fresh or the claimant owns a run lease with the same expiry.
THEOREM NewClaimantsAreFenced == RunSpec => NewClaimantIsFenced
<1>1. ASSUME RunInv, [RunNext]_allVars, NEW i \in Items,
             items'[i].holder \notin {items[i].holder, Nobody}
      PROVE  \/ items'[i].generation > items[i].generation
             \/ \E r \in Runs : /\ runs'[r].item = i
                                /\ runs'[r].status \in Leased
                                /\ runs'[r].owner = items'[i].holder
                                /\ runs'[r].leaseExpiresAt = items'[i].expiresAt
  <2>0. /\ TypeOK /\ ClaimShape /\ items \in [Items -> Item] /\ items[i] \in Item
        /\ items[i].generation \in Nat
        /\ Shaped(items)
    BY <1>1, ItemsShaped DEF RunInv, TypeOK, Item
  <2>1. CASE Dispatches
    <3>1. PICK a \in Actors, j \in Items, expected \in 0..MaxGeneration,
               lease \in Leases, r \in Runs, k \in Keys \cup {NoKey} :
               Dispatch(a, j, expected, lease, r, k)
      BY <2>1 DEF Dispatches
    <3>2. items' = [items EXCEPT ![j] = ClaimedBy(items[j], a, now + lease)]
      BY <3>1 DEF Dispatch
    <3>3. i = j
      BY <1>1, <2>0, <3>2
    <3> QED
      BY <2>0, <3>2, <3>3 DEF ClaimedBy
  <2>2. ASSUME NEW a \in Actors, NEW r \in Runs, NEW lease \in Leases,
               NEW targeted \in BOOLEAN, NEW k \in CommandKeys \cup {NoKey},
               Claim(a, r, lease, targeted, k)
        PROVE  \E s \in Runs : /\ runs'[s].item = i
                               /\ runs'[s].status \in Leased
                               /\ runs'[s].owner = items'[i].holder
                               /\ runs'[s].leaseExpiresAt = items'[i].expiresAt
    <3> DEFINE its == ItemsReconciled(Runs)
               j == runs[r].item
    <3>1. /\ j \in Items
          /\ items' = [its EXCEPT ![j] = Projected(its[j], "active", a, now + lease)]
      BY <1>1, <2>2, ClaimMoves DEF Claim, RunInv, Run
    <3>2. /\ its \in [Items -> Item]
          /\ its[i].holder \in {items[i].holder, Nobody}
      BY <2>0, ReconciledShaped DEF Shaped
    <3> HIDE DEF its
    <3>3. i = j
      BY <1>1, <3>1, <3>2
    <3>4. items'[i].holder = a /\ items'[i].expiresAt = now + lease
      BY <3>1, <3>2, <3>3 DEF Projected
    <3>5. /\ runs'[r].status \in Leased /\ runs'[r].owner = a
          /\ runs'[r].leaseExpiresAt = now + lease /\ runs'[r].item = j
      BY <1>1, <2>2, ClaimMoves DEF Leased, Active, Moves
    <3> QED
      BY <3>3, <3>4, <3>5
  <2>3. ASSUME NEW a \in Actors, NEW r \in Runs, NEW expected, NEW leaseExpected,
               NEW lease \in Leases, NEW k,
               Heartbeat(a, r, expected, leaseExpected, lease, k)
        PROVE  FALSE
    <3>1. runs[r].item \in Items
      BY <1>1 DEF RunInv, Run
    <3> QED
      BY <1>1, <2>0, <2>3, <3>1 DEF Heartbeat, Projected
  <2>4. ASSUME NEW command \in RunCommands, NEW a \in Actors, NEW r \in Runs,
               NEW expected, NEW leaseExpected, NEW lease \in Leases,
               NEW k \in CommandKeys \cup {NoKey},
               RunTransition(command, a, r, expected, leaseExpected, lease, k)
        PROVE  \E s \in Runs : /\ runs'[s].item = i
                               /\ runs'[s].status \in Leased
                               /\ runs'[s].owner = items'[i].holder
                               /\ runs'[s].leaseExpiresAt = items'[i].expiresAt
    <3> DEFINE j == runs[r].item
               next == runs'[r]
               row == Projected(items[j], ItemStatusFor(next.status), next.owner,
                                next.leaseExpiresAt)
    <3>1. /\ j \in Items /\ items' = [items EXCEPT ![j] = row] /\ next.item = j
          /\ next.status \in Leased <=> next.owner # Nobody
      BY <1>1, <2>4, TransitionMoves DEF Moves
    <3>2. row.holder = next.owner /\ row.expiresAt = next.leaseExpiresAt
      BY DEF Projected
    <3> HIDE DEF row, next
    <3>3. i = j /\ items'[i] = row
      BY <1>1, <2>0, <3>1
    <3>4. next.status \in Leased
      BY <1>1, <3>1, <3>2, <3>3
    <3> QED
      BY <3>1, <3>2, <3>3, <3>4 DEF next
  <2>5. CASE Finishes
    BY <1>1, <2>5 DEF Finishes, Finish
  <2>6. CASE Reconciles
    <3>1. PICK S \in SUBSET Runs : Reconcile(S)
      BY <2>6 DEF Reconciles
    <3> QED
      BY <1>1, <2>0, <3>1, ReconciledShaped DEF Reconcile
  <2>7. CASE ClaimSide
    <3>1. CASE ClientSteps
      <4>1. PICK a \in Actors, j \in Items, k \in Keys \cup {NoKey} : ClientStep(a, j, k)
        BY <3>1 DEF ClientSteps
      <4>2. PICK type, row : Rewrites(a, j, k, type, row)
        BY <2>0, <4>1, ClientStepRewrites
      <4>3. j = i /\ items'[i] = row
        BY <1>1, <2>0, <4>2 DEF Rewrites
      <4> QED
        BY <1>1, <4>2, <4>3 DEF Rewrites
    <3>2. CASE TimerSteps
      BY <1>1, <2>0, <3>2, ExpireSparesLive, UnclaimedRow DEF TimerSteps
    <3>3. CASE Tick
      BY <1>1, <3>3 DEF Tick
    <3> QED
      BY <2>7, <3>1, <3>2, <3>3 DEF ClaimSide
  <2>8. CASE UNCHANGED allVars
    BY <1>1, <2>8 DEF allVars
  <2>9. CASE Claims
    BY <2>2, <2>9 DEF Claims
  <2>10. CASE RunnerSteps
    BY <2>3, <2>4, <2>10 DEF RunnerSteps
  <2> QED
    BY <1>1, <2>1, <2>5, <2>6, <2>7, <2>8, <2>9, <2>10 DEF RunNext
<1>2. RunInv /\ [RunNext]_allVars =>
        [\A i \in Items :
            items'[i].holder \notin {items[i].holder, Nobody}
            => \/ items'[i].generation > items[i].generation
               \/ \E r \in Runs : /\ runs'[r].item = i
                                  /\ runs'[r].status \in Leased
                                  /\ runs'[r].owner = items'[i].holder
                                  /\ runs'[r].leaseExpiresAt = items'[i].expiresAt]_allVars
  BY <1>1
<1> QED
  BY <1>2, RunInvariance, PTL DEF RunSpec, NewClaimantIsFenced

-----------------------------------------------------------------------------
(* Counting active runs.  Runs may be infinite: only finitely many of them *)
(* are dispatched at any time, because each step dispatches one at most.   *)

Dispatched == {r \in Runs : runs[r].status # "absent"}

CountInv == IsFiniteSet(Dispatched)

\* Every step leaves the dispatched runs what they were, with one more at most.
LEMMA OneDispatchAtATime ==
    ASSUME RunInv, [RunNext]_allVars
    PROVE  \E r \in Runs \cup {0} : Dispatched' \subseteq Dispatched \cup {r}
<1>1. CASE Dispatches
  <2>1. PICK a \in Actors, i \in Items, expected \in 0..MaxGeneration,
             lease \in Leases, r \in Runs, k \in Keys \cup {NoKey} :
             Dispatch(a, i, expected, lease, r, k)
    BY <1>1 DEF Dispatches
  <2>2. \A s \in Runs : s # r => runs'[s] = runs[s]
    BY <2>1 DEF Dispatch, RunInv
  <2> QED
    BY <2>2 DEF Dispatched
<1>2. CASE Claims
  <2>1. PICK a \in Actors, r \in Runs, lease \in Leases, targeted \in BOOLEAN,
             k \in CommandKeys \cup {NoKey} : Claim(a, r, lease, targeted, k)
    BY <1>2 DEF Claims
  <2>2. \A s \in Runs : s # r => runs'[s] = RunsReconciled(Runs)[s]
    BY <2>1, ClaimMoves
  <2>3. \A s \in Runs : \/ RunsReconciled(Runs)[s] = runs[s]
                       \/ Moves(runs[s], RunsReconciled(Runs)[s])
    BY ReconciledMove
  <2>4. \A s \in Runs : Moves(runs[s], RunsReconciled(Runs)[s]) => runs[s].status # "absent"
    BY DEF Moves, Open, Retryable, Unfinished, Leased, Active
  <2> QED
    BY <2>2, <2>3, <2>4 DEF Dispatched
<1>3. CASE RunnerSteps
  <2>1. PICK a \in Actors, r \in Runs, expected \in 1..MaxRunGeneration,
             leaseExpected \in 1..MaxRunGeneration,
             lease \in Leases, k \in CommandKeys \cup {NoKey} :
             \/ Heartbeat(a, r, expected, leaseExpected, lease, k)
             \/ \E command \in RunCommands :
                   RunTransition(command, a, r, expected, leaseExpected, lease, k)
    BY <1>3 DEF RunnerSteps
  <2>2. \A s \in Runs : s # r => runs'[s] = runs[s]
    <3>1. CASE Heartbeat(a, r, expected, leaseExpected, lease, k)
      BY <3>1 DEF Heartbeat, RunInv
    <3>2. CASE \E command \in RunCommands :
                  RunTransition(command, a, r, expected, leaseExpected, lease, k)
      <4>1. PICK command \in RunCommands :
                RunTransition(command, a, r, expected, leaseExpected, lease, k)
        BY <3>2
      <4> QED
        BY <4>1 DEF RunTransition, RunInv
    <3> QED
      BY <2>1, <3>1, <3>2
  <2> QED
    BY <2>2 DEF Dispatched
<1>4. CASE Finishes
  <2>1. PICK a \in Actors, r \in Runs, expected \in 1..MaxRunGeneration,
             leaseExpected \in 1..MaxRunGeneration,
             st \in Terminal \cup {"failed"}, k \in Keys \cup {NoKey} :
             Finish(a, r, expected, leaseExpected, st, k)
    BY <1>4 DEF Finishes
  <2>2. \A s \in Runs : s # r => runs'[s] = runs[s]
    BY <2>1 DEF Finish, RunInv
  <2> QED
    BY <2>2 DEF Dispatched
<1>5. CASE Reconciles
  <2>1. PICK S \in SUBSET Runs : runs' = RunsReconciled(S)
    BY <1>5 DEF Reconciles, Reconcile
  <2>2. \A s \in Runs : runs'[s] = runs[s] \/ Moves(runs[s], runs'[s])
    BY <2>1, ReconciledMove
  <2>3. \A s \in Runs : Moves(runs[s], runs'[s]) => runs[s].status # "absent"
    BY DEF Moves, Open, Retryable, Unfinished, Leased, Active
  <2> QED
    BY <2>2, <2>3 DEF Dispatched
<1>6. CASE ClaimSide \/ UNCHANGED allVars
  BY <1>6 DEF ClaimSide, allVars, runVars, Dispatched
<1> QED
  BY <1>1, <1>2, <1>3, <1>4, <1>5, <1>6 DEF RunNext

\* The rows that are counted under the limits are finitely many.
LEMMA DispatchedIsFinite == RunSpec => [](RunInv /\ CountInv)
<1>1. RunInit => CountInv
  <2>1. ASSUME RunInit PROVE Dispatched = {}
    BY <2>1 DEF RunInit, NoRun, Dispatched
  <2> QED
    BY <2>1, FS_EmptySet DEF CountInv
<1>2. ASSUME RunInv, CountInv, [RunNext]_allVars
      PROVE  CountInv'
  <2>1. PICK r \in Runs \cup {0} : Dispatched' \subseteq Dispatched \cup {r}
    BY <1>2, OneDispatchAtATime
  <2>2. IsFiniteSet(Dispatched \cup {r})
    BY <1>2, FS_AddElement DEF CountInv
  <2> QED
    BY <2>1, <2>2, FS_Subset DEF CountInv
<1>3. RunInv /\ CountInv /\ [RunNext]_allVars => CountInv'
  BY <1>2
<1> QED
  BY <1>1, <1>3, RunInvariance, PTL DEF RunSpec

\* A finite set below a limit is within it after one element is added.
LEMMA OneMoreFits ==
    ASSUME NEW S, IsFiniteSet(S), NEW x, NEW T \in SUBSET (S \cup {x}),
           NEW limit \in Nat, Cardinality(S) < limit
    PROVE  Cardinality(T) <= limit
<1>1. IsFiniteSet(S \cup {x}) /\ Cardinality(S) \in Nat /\ Cardinality(S \cup {x}) \in Nat
  BY FS_AddElement, FS_CardinalityType
<1>2. Cardinality(S \cup {x}) <= Cardinality(S) + 1
  BY <1>1, FS_AddElement
<1>3. Cardinality(T) <= Cardinality(S \cup {x}) /\ Cardinality(T) \in Nat
  BY <1>1, FS_Subset, FS_CardinalityType
<1> QED
  BY <1>1, <1>2, <1>3

\* A pickup that a runner gets leaves no more runs active than its global and
\* its project limit allow, however many runs are queued (runnerRuns.claim
\* counts the reconciled rows before it leases one more).
THEOREM PickupsWithinCapacity == RunSpec => PickupWithinCapacity
<1>1. ASSUME RunInv, CountInv,
             NEW a \in Actors, NEW r \in Runs, NEW lease \in Leases,
             NEW targeted \in BOOLEAN, NEW k \in CommandKeys \cup {NoKey},
             Claim(a, r, lease, targeted, k)
      PROVE  /\ Cardinality(ActiveRuns(runs')) <= GlobalLimit
             /\ \A t \in Runs :
                   runs'[t].leaseGeneration > runs[t].leaseGeneration =>
                      Cardinality(ActiveIn(runs', ProjectOf[runs[t].item])) <= ProjectLimit
  <2> DEFINE rs == RunsReconciled(Runs)
             p == ProjectOf[runs[r].item]
  <2>1. /\ rs[r] = runs[r]
        /\ Moves(runs[r], runs'[r])
        /\ \A s \in Runs : s # r => runs'[s] = rs[s]
    BY <1>1, ClaimMoves
  <2>2. /\ Cardinality(ActiveRuns(rs)) < GlobalLimit
        /\ Cardinality(ActiveIn(rs, p)) < ProjectLimit
    <3>1. r \in Candidates(rs, "failed") \cup Candidates(rs, "queued")
      BY <1>1 DEF Claim, FirstCandidate
    <3> QED
      BY <1>1, <2>1, <3>1 DEF Claim, Candidates
  <2>3. \A s \in Runs : rs[s] = runs[s] \/ Moves(runs[s], rs[s])
    BY <1>1, ReconciledMove
  <2>4. ActiveRuns(rs) \subseteq Dispatched
    <3>1. \A s \in Runs : Moves(runs[s], rs[s]) => runs[s].status # "absent"
      BY DEF Moves, Open, Retryable, Unfinished, Leased, Active
    <3> HIDE DEF rs
    <3> QED
      BY <2>3, <3>1 DEF ActiveRuns, Dispatched, Active
  <2>5. IsFiniteSet(ActiveRuns(rs)) /\ IsFiniteSet(ActiveIn(rs, p))
    <3>1. ActiveIn(rs, p) \subseteq ActiveRuns(rs)
      BY DEF ActiveIn
    <3> QED
      BY <1>1, <2>4, <3>1, FS_Subset DEF CountInv
  <2> HIDE DEF rs
  <2>6. ActiveRuns(runs') \in SUBSET (ActiveRuns(rs) \cup {r})
    BY <2>1 DEF ActiveRuns
  <2>7. ActiveIn(runs', p) \in SUBSET (ActiveIn(rs, p) \cup {r})
    BY <2>1 DEF ActiveRuns, ActiveIn
  <2>8. Cardinality(ActiveRuns(runs')) <= GlobalLimit
    BY <2>2, <2>5, <2>6, OneMoreFits, PolicyAssumption
  <2>9. Cardinality(ActiveIn(runs', p)) <= ProjectLimit
    BY <2>2, <2>5, <2>7, OneMoreFits, PolicyAssumption
  <2>10. ASSUME NEW t \in Runs, t # r
         PROVE  ~(runs'[t].leaseGeneration > runs[t].leaseGeneration)
    <3>1. \/ rs[t] = runs[t]
          \/ rs[t] = Abandoned(runs[t])
      BY <1>1, ReconciledMove DEF rs
    <3>2. runs'[t].leaseGeneration = runs[t].leaseGeneration
      BY <2>1, <2>10, <3>1 DEF Abandoned
    <3>3. runs[t].leaseGeneration \in Nat
      BY <1>1 DEF RunInv, Run
    <3> QED
      BY <3>2, <3>3
  <2> QED
    BY <2>8, <2>9, <2>10
<1>2. RunInv /\ CountInv =>
        [Claims =>
           /\ Cardinality(ActiveRuns(runs')) <= GlobalLimit
           /\ \A r \in Runs :
                 runs'[r].leaseGeneration > runs[r].leaseGeneration =>
                    Cardinality(ActiveIn(runs', ProjectOf[runs[r].item])) <= ProjectLimit]_allVars
  BY <1>1 DEF Claims
<1> QED
  BY <1>2, DispatchedIsFinite, PTL DEF PickupWithinCapacity
=============================================================================
