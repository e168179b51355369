--------------------------- MODULE WorkSelection ---------------------------
(***************************************************************************)
(* Accepting recommended work: convex/workSelectionClaims.ts.  A worker    *)
(* brings a recommendation, a snapshot of a ready item, and gets the claim *)
(* on the item if the snapshot is still exact, the worker's actor has no   *)
(* running claim, and implementation and review of one candidate stay      *)
(* apart.  Every verdict, rejections too, is remembered under the          *)
(* command's key and given again to a retry; a rejection keeps the lazy    *)
(* expiry that came before it.                                             *)
(*                                                                         *)
(* Items are numbered in the order they were created.  The two events an   *)
(* acceptance appends carry keys derived from the command's, which no      *)
(* other operation uses; they are left out.  One client per actor.         *)
(***************************************************************************)
EXTENDS ItemClaims, Sequences

CONSTANTS
    Workers,        \* worker enrolments
    ActorOf,        \* the owner of each enrolment
    Scope,          \* the items in the projects each enrolment is for
    Candidates,     \* independence keys
    NoCandidate,    \* general work carries none
    SelectionKeys,  \* idempotency keys of acceptances
    MaxRevision     \* bound: annotations per item

ASSUME ItemsAssumption == Items \subseteq Nat
ASSUME WorkersAssumption ==
    ActorOf \in [Workers -> Actors] /\ Scope \in [Workers -> SUBSET Items]
ASSUME CandidatesAssumption == NoCandidate \notin Candidates
ASSUME RevisionAssumption == MaxRevision \in Nat

VARIABLES
    revisions,      \* revisions[i]: what version has moved beyond the generation
    touched,        \* touched[i]: updatedAt
    enrolled,       \* the enrolments that are active
    acceptances,    \* workSelectionAcceptances, in the order they were inserted
    verdicts        \* workSelectionCommands

selectionVars == <<revisions, touched, enrolled, acceptances, verdicts>>
joinVars == <<items, timers, events, now, selectionVars>>

Assignments ==
    {<<"general", NoCandidate>>}
        \cup ({"implementation", "independent_review"} \X Candidates)

Opposite ==
    [implementation |-> "independent_review", independent_review |-> "implementation"]

\* What a recommendation pins of its item.  itemVersion is generation + 1 +
\* revision: claims move version and claimGeneration together, annotations
\* move version alone, and whatever else the fingerprint covers moves version.
Recommendation ==
    [item : Items, generation : Nat, revision : Nat, assignment : Assignments]

\* An acceptance keeps what the worker had selected (selectedClaimGeneration,
\* and selectedItemVersion through its revision) beside what it was granted.
Acceptance ==
    [worker : Workers, item : Items, assignment : Assignments,
     selectedGeneration : Nat, selectedRevision : Nat, generation : Nat]

Rejections == {"worker_not_active", "project_out_of_scope", "work_unavailable",
               "work_changed", "capacity_full", "review_independence", "phase_overlap"}

Verdict == [actor : Actors, key : SelectionKeys, outcome : Rejections \cup {"accepted"}]

SelectionInit ==
    /\ items = [i \in Items |-> NewItem]
    /\ timers = {} /\ events = {} /\ now = 1
    /\ revisions = [i \in Items |-> 0]
    /\ touched = [i \in Items |-> now]
    /\ enrolled = Workers
    /\ acceptances = <<>>
    /\ verdicts = {}

\* Every write of an item row stamps it.
Stamp ==
    touched' = [i \in Items |->
        IF items'[i] # items[i] \/ revisions'[i] # revisions[i] THEN now ELSE touched[i]]

-----------------------------------------------------------------------------
\* The actor's active rows, longest untouched first, the first two of them.
ActiveScan == 2

Before(i, j) == touched[i] < touched[j] \/ (touched[i] = touched[j] /\ i < j)

Scanned(a) ==
    LET active == {i \in Items : items[i].status = "active" /\ items[i].holder = a}
    IN  {i \in active : Cardinality({j \in active : Before(j, i)}) < ActiveScan}

CapacityFull(a) == \E i \in Scanned(a) : items[i].expiresAt > now

\* The acceptance still is the item's claim, as checkIndependence tests it.
Standing(acc) ==
    /\ items[acc.item].status = "active"
    /\ items[acc.item].generation = acc.generation
    /\ items[acc.item].expiresAt > now

Implemented(w, candidate) ==
    \E n \in DOMAIN acceptances :
        /\ acceptances[n].worker = w
        /\ acceptances[n].assignment = <<"implementation", candidate>>

\* Mutant: looks for others in the same role.
OverlapSameRole(assignment) ==
    \E n \in DOMAIN acceptances :
        acceptances[n].assignment = assignment /\ Standing(acceptances[n])

Overlap(assignment) ==
    \E n \in DOMAIN acceptances :
        /\ acceptances[n].assignment = <<Opposite[assignment[1]], assignment[2]>>
        /\ Standing(acceptances[n])

\* Mutant: what claims.acquire accepts, without the holder check it makes next.
AvailableIfActive(i) == Current(i).status \in {"ready", "active"}

\* The item is nobody's.
Available(i) == Current(i).status = "ready"

\* Mutant: refuses only a recommendation that is ahead of the item.
WorkNotAhead(rec) ==
    /\ Current(rec.item).generation >= rec.generation
    /\ revisions[rec.item] >= rec.revision

\* The snapshot still is the item, version and generation.
WorkUnchanged(rec) ==
    /\ Current(rec.item).generation = rec.generation
    /\ revisions[rec.item] = rec.revision

\* The checks of accept, in their order.
InScope(w, i) == w \in enrolled /\ i \in Scope[w]

Outcome(w, rec) ==
    LET role == rec.assignment[1]
    IN  IF w \notin enrolled THEN "worker_not_active"
        ELSE IF ~InScope(w, rec.item) THEN "project_out_of_scope"
        ELSE IF ~Available(rec.item) THEN "work_unavailable"
        ELSE IF ~WorkUnchanged(rec) THEN "work_changed"
        ELSE IF CapacityFull(ActorOf[w]) THEN "capacity_full"
        ELSE IF role = "independent_review" /\ Implemented(w, rec.assignment[2])
        THEN "review_independence"
        ELSE IF role # "general" /\ Overlap(rec.assignment) THEN "phase_overlap"
        ELSE "accepted"

\* An actor's key is used once; a retry gets the verdict on record.
VerdictFree(a, k) == \A v \in verdicts : v.actor # a \/ v.key # k

Remember(w, k, outcome) ==
    verdicts' = verdicts \cup {[actor |-> ActorOf[w], key |-> k, outcome |-> outcome]}

Accept(w, rec, lease, k) ==
    LET granted == ClaimedBy(Current(rec.item), ActorOf[w], now + lease)
    IN  /\ VerdictFree(ActorOf[w], k)
        /\ Outcome(w, rec) = "accepted"
        /\ granted.generation <= MaxGeneration
        /\ items' = [items EXCEPT ![rec.item] = granted]
        /\ acceptances' = Append(acceptances,
              [worker |-> w, item |-> rec.item, assignment |-> rec.assignment,
               selectedGeneration |-> rec.generation, selectedRevision |-> rec.revision,
               generation |-> granted.generation])
        /\ ScheduleExpiry(rec.item, granted.generation, granted.expiresAt)
        /\ Remember(w, k, "accepted")
        /\ UNCHANGED <<events, now, revisions, enrolled>>
        /\ Stamp

Reject(w, rec, k) ==
    /\ VerdictFree(ActorOf[w], k)
    /\ Outcome(w, rec) # "accepted"
    /\ items' = IF InScope(w, rec.item)
                THEN [items EXCEPT ![rec.item] = Current(rec.item)] ELSE items
    /\ Remember(w, k, Outcome(w, rec))
    /\ UNCHANGED <<timers, events, now, revisions, enrolled, acceptances>>
    /\ Stamp

(* events.record and artifacts.attach: neither looks at the claim. *)
Annotate(a, i, k) ==
    /\ KeyFree(k)
    /\ revisions[i] < MaxRevision
    /\ revisions' = [revisions EXCEPT ![i] = @ + 1]
    /\ AppendEvent(k, "item.annotated", i, a, items[i].generation)
    /\ UNCHANGED <<items, timers, now, enrolled, acceptances, verdicts>>
    /\ Stamp

(* An enrolment is released or expires. *)
Withdraw(w) ==
    /\ w \in enrolled
    /\ enrolled' = enrolled \ {w}
    /\ UNCHANGED <<items, timers, events, now, revisions, touched, acceptances, verdicts>>

-----------------------------------------------------------------------------
Selects ==
    \E w \in Workers, i \in Items, generation \in 0..MaxGeneration,
       revision \in 0..MaxRevision, assignment \in Assignments, k \in SelectionKeys :
        LET rec == [item |-> i, generation |-> generation, revision |-> revision,
                    assignment |-> assignment]
        IN  \/ \E lease \in Leases : Accept(w, rec, lease, k)
            \/ Reject(w, rec, k)

Annotates == \E a \in Actors, i \in Items, k \in Keys \cup {NoKey} : Annotate(a, i, k)

Withdraws == \E w \in Workers : Withdraw(w)

LedgerSide ==
    /\ ClientSteps \/ TimerSteps \/ Tick
    /\ UNCHANGED <<revisions, enrolled, acceptances, verdicts>>
    /\ Stamp

JoinNext == Selects \/ Annotates \/ Withdraws \/ LedgerSide

JoinSpec == SelectionInit /\ [][JoinNext]_joinVars

-----------------------------------------------------------------------------
JoinTypeOK ==
    /\ TypeOK
    /\ revisions \in [Items -> Nat]
    /\ touched \in [Items -> Nat]
    /\ enrolled \subseteq Workers
    /\ acceptances \in Seq(Acceptance)
    /\ verdicts \subseteq Verdict

\* Two workers with the same recommendation: one wins, and an old
\* recommendation wins nothing.  A grant is the first step of the item's fence
\* after the snapshot it was accepted from, and that snapshot was taken after
\* every earlier acceptance of the item had been granted, whatever lapsed, was
\* released, annotated or claimed past the join in between.  So no snapshot is
\* accepted twice.
OneWinnerPerSnapshot ==
    \A n \in DOMAIN acceptances :
        LET acc == acceptances[n]
        IN  /\ acc.generation = acc.selectedGeneration + 1
            /\ acc.selectedRevision <= revisions[acc.item]
            /\ \A m \in 1..(n - 1) : acceptances[m].item = acc.item =>
                  /\ acceptances[m].generation <= acc.selectedGeneration
                  /\ acceptances[m].selectedRevision <= acc.selectedRevision

\* A retried acceptance returns the recorded answer, old or not.  While the
\* item shows the generation in it, the worker's actor is the claimant.
ReplayedAcceptanceIsCurrent ==
    \A n \in DOMAIN acceptances :
        LET acc == acceptances[n]
        IN  items[acc.item].generation = acc.generation
                => items[acc.item].holder = ActorOf[acc.worker]

\* Implementation and review of a candidate never both stand, as long as
\* neither claim was renewed since it was accepted.
StandingPhasesApart ==
    \A m, n \in DOMAIN acceptances :
        LET x == acceptances[m] y == acceptances[n]
        IN  /\ x.assignment[1] = "implementation"
            /\ y.assignment = <<"independent_review", x.assignment[2]>>
            => ~(Standing(x) /\ Standing(y))

\* Whoever loses has no effect on a claim: a rejected acceptance leaves every
\* running claim alone and accepts nothing, although it may end a lapsed one.
RejectionTakesNothing ==
    [][\A v \in verdicts' \ verdicts : v.outcome # "accepted" =>
          /\ acceptances' = acceptances
          /\ \A i \in Items : Live(items[i], now) \/ items'[i].holder # Nobody
                                => items'[i] = items[i]]_joinVars
=============================================================================
