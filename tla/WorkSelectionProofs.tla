------------------------ MODULE WorkSelectionProofs ------------------------
(***************************************************************************)
(* Proofs about WorkSelection: the join beside the whole claim ledger, for *)
(* any number of workers, actors, items and candidates.                    *)
(***************************************************************************)
EXTENDS WorkSelection, ItemClaimsProofs

\* No acceptance is of a generation its item has not reached.
AcceptancesReached ==
    \A n \in DOMAIN acceptances :
        acceptances[n].generation <= items[acceptances[n].item].generation

\* The inductive invariant.
JoinInv ==
    /\ JoinTypeOK
    /\ ClaimShape
    /\ \A i \in Items : items[i].status # "absent"
    /\ AcceptancesReached
    /\ OneWinnerPerSnapshot
    /\ ReplayedAcceptanceIsCurrent
    /\ StandingPhasesApart

\* Annotations only add to what version has moved beyond the generation.
RevisionsGrow == \A i \in Items : revisions'[i] >= revisions[i]

\* A row changes only under a larger fence, and the clock does not go back.
RowsFenced ==
    /\ now' \in Nat /\ now' >= now
    /\ \A i \in Items : items'[i] = items[i] \/ items'[i].generation > items[i].generation

\* The part of the invariant that is about the claim ledger.
LedgerOK ==
    /\ TypeOK
    /\ ClaimShape
    /\ \A i \in Items : items[i].status # "absent"

-----------------------------------------------------------------------------
\* Lazy expiry rewrites a row under a larger fence or not at all.
LEMMA CurrentFenced ==
    ASSUME LedgerOK, NEW i \in Items
    PROVE  /\ Current(i) \in Item /\ RowShape(Current(i)) /\ Current(i).status # "absent"
           /\ \/ Current(i) = items[i]
              \/ /\ Current(i).generation > items[i].generation
                 /\ Current(i).holder = Nobody
                 /\ ~Live(items[i], now)
<1>1. items[i] \in Item /\ now \in Nat
  BY DEF LedgerOK, TypeOK
<1>2. Current(i) = items[i] \/ Current(i) = Unclaimed(items[i], "ready")
  BY DEF Current, ExpireClaimIfNeeded
<1>3. /\ Current(i) \in Item /\ RowShape(Current(i)) /\ Current(i).status # "absent"
      /\ Live(items[i], now) => Current(i) = items[i]
  BY CurrentRow DEF LedgerOK
<1>4. /\ Unclaimed(items[i], "ready").generation > items[i].generation
      /\ Unclaimed(items[i], "ready").holder = Nobody
  BY <1>1 DEF Unclaimed, Item
<1> QED
  BY <1>2, <1>3, <1>4

\* Replacing one row under a larger fence keeps the ledger well formed.
LEMMA RowReplaced ==
    ASSUME LedgerOK, NEW i \in Items, NEW row \in Item, RowShape(row),
           row.status # "absent",
           row = items[i] \/ row.generation > items[i].generation,
           items' = [items EXCEPT ![i] = row],
           timers' \subseteq Timer, events' \subseteq Event, now' = now
    PROVE  LedgerOK' /\ RowsFenced
<1>1. /\ items \in [Items -> Item] /\ now \in Nat
  BY DEF LedgerOK, TypeOK
<1>2. /\ items' \in [Items -> Item] /\ items'[i] = row
      /\ \A j \in Items : j # i => items'[j] = items[j]
  BY <1>1
<1>3. TypeOK'
  BY <1>1, <1>2 DEF TypeOK
<1>4. ClaimShape' /\ \A j \in Items : items'[j].status # "absent"
  BY <1>2 DEF LedgerOK, ClaimShape, RowShape
<1>5. RowsFenced
  BY <1>1, <1>2 DEF RowsFenced
<1> QED
  BY <1>3, <1>4, <1>5 DEF LedgerOK

\* The claim ledger's own steps.
LEMMA LedgerStep ==
    ASSUME LedgerOK, ClientSteps \/ TimerSteps \/ Tick
    PROVE  LedgerOK' /\ RowsFenced
<1>1. TypeOK /\ ClaimShape /\ items \in [Items -> Item] /\ now \in Nat
  BY DEF LedgerOK, TypeOK
<1>2. CASE ClientSteps
  <2>1. PICK a \in Actors, i \in Items, k \in Keys \cup {NoKey} : ClientStep(a, i, k)
    BY <1>2 DEF ClientSteps
  <2>2. PICK type, row : Rewrites(a, i, k, type, row)
    BY <1>1, <2>1, ClientStepRewrites
  <2>3. /\ items' = [items EXCEPT ![i] = row] /\ row \in Item /\ RowShape(row)
        /\ row.status # "absent" /\ row.generation > items[i].generation
        /\ timers' \subseteq Timer /\ now' = now /\ type \in EventTypes
        /\ AppendEvent(k, type, i, a, row.generation)
    BY <2>2 DEF Rewrites, LedgerOK
  <2>4. events' \subseteq Event
    BY <1>1, <2>3 DEF AppendEvent, TypeOK, Event, Item
  <2> QED
    BY <2>3, <2>4, RowReplaced
<1>3. CASE TimerSteps
  <2>1. PICK tm \in timers : ExpireScheduled(tm)
    BY <1>3 DEF TimerSteps
  <2> DEFINE i == tm.item
             row == Unclaimed(items[i], "ready")
  <2>2. /\ i \in Items /\ timers' \subseteq Timer /\ events' \subseteq Event /\ now' = now
        /\ items' = items \/ items' = [items EXCEPT ![i] = row]
    BY <1>1, <2>1 DEF ExpireScheduled, TypeOK, Timer
  <2>3. /\ row \in Item /\ RowShape(row) /\ row.status # "absent"
        /\ row.generation > items[i].generation
    <3>1. items[i] \in Item /\ items[i].generation \in Nat
      BY <1>1, <2>2 DEF Item
    <3>2. row \in Item /\ RowShape(row) /\ row.status = "ready"
             /\ row.generation = items[i].generation + 1
      BY <3>1, UnclaimedRow
    <3> QED
      BY <3>1, <3>2
  <2> HIDE DEF row, i
  <2>4. CASE items' = [items EXCEPT ![i] = row]
    BY <2>2, <2>3, <2>4, RowReplaced
  <2>5. CASE items' = items
    BY <1>1, <2>2, <2>5 DEF LedgerOK, TypeOK, ClaimShape, RowsFenced
  <2> QED
    BY <2>2, <2>4, <2>5
<1>4. CASE Tick
  BY <1>1, <1>4 DEF Tick, LedgerOK, TypeOK, ClaimShape, RowsFenced
<1> QED
  BY <1>2, <1>3, <1>4

-----------------------------------------------------------------------------
\* Acceptances on record survive any step that fences its rows: what stands
\* after the step stood before it.
LEMMA RecordKept ==
    ASSUME JoinInv, RowsFenced, items' \in [Items -> Item], NEW n \in DOMAIN acceptances
    PROVE  LET acc == acceptances[n]
           IN  /\ acc \in Acceptance /\ acc.item \in Items
               /\ acc.generation <= items'[acc.item].generation
               /\ items'[acc.item].generation = acc.generation
                     => items'[acc.item] = items[acc.item]
                           /\ items'[acc.item].holder = ActorOf[acc.worker]
               /\ /\ items'[acc.item].status = "active"
                  /\ items'[acc.item].generation = acc.generation
                  /\ items'[acc.item].expiresAt > now'
                  => Standing(acc)
<1> DEFINE acc == acceptances[n]
           i == acc.item
<1>1. /\ acc \in Acceptance /\ acc.generation \in Nat /\ i \in Items
      /\ items[i] \in Item /\ items'[i] \in Item /\ now \in Nat /\ now' \in Nat
  <2>1. acceptances \in Seq(Acceptance) /\ items \in [Items -> Item] /\ now \in Nat
    BY DEF JoinInv, JoinTypeOK, TypeOK
  <2>2. acc \in Acceptance
    BY <2>1
  <2>3. acc.generation \in Nat /\ i \in Items
    BY <2>2 DEF Acceptance
  <2> QED
    BY <2>1, <2>2, <2>3 DEF RowsFenced
<1>2. acc.generation <= items[i].generation
  BY DEF JoinInv, AcceptancesReached
<1>3. items[i].generation = acc.generation => items[i].holder = ActorOf[acc.worker]
  BY DEF JoinInv, ReplayedAcceptanceIsCurrent
<1>4. items'[i] = items[i] \/ items'[i].generation > items[i].generation
  BY <1>1 DEF RowsFenced
<1>5. /\ items[i].generation \in Nat /\ items'[i].generation \in Nat
      /\ items[i].expiresAt \in Nat /\ now' >= now
  BY <1>1 DEF Item, RowsFenced
<1> HIDE DEF acc
<1>6. /\ acc.generation <= items'[i].generation
      /\ items'[i].generation = acc.generation => items'[i] = items[i]
  BY <1>1, <1>2, <1>4, <1>5
<1>7. /\ items'[i].status = "active" /\ items'[i].generation = acc.generation
      /\ items'[i].expiresAt > now'
      => Standing(acc)
  BY <1>1, <1>5, <1>6 DEF Standing
<1> QED
  BY <1>1, <1>3, <1>6, <1>7 DEF acc

\* A step that accepts nothing keeps what the invariant says of acceptances.
LEMMA QuietPreserves ==
    ASSUME JoinInv, JoinTypeOK', LedgerOK', RowsFenced, RevisionsGrow,
           acceptances' = acceptances
    PROVE  JoinInv'
<1>1. items' \in [Items -> Item]
  BY DEF JoinTypeOK, TypeOK
<1>2. AcceptancesReached' /\ ReplayedAcceptanceIsCurrent'
  BY <1>1, RecordKept DEF AcceptancesReached, ReplayedAcceptanceIsCurrent
<1>3. OneWinnerPerSnapshot'
  <2>1. \A n \in DOMAIN acceptances :
           acceptances[n].selectedRevision <= revisions'[acceptances[n].item]
    <3> SUFFICES ASSUME NEW n \in DOMAIN acceptances
                 PROVE  acceptances[n].selectedRevision <= revisions'[acceptances[n].item]
      OBVIOUS
    <3>1. acceptances[n] \in Acceptance
      BY DEF JoinInv, JoinTypeOK
    <3>2. acceptances[n].item \in Items /\ acceptances[n].selectedRevision \in Nat
      BY <3>1 DEF Acceptance
    <3>3. acceptances[n].selectedRevision <= revisions[acceptances[n].item]
      BY DEF JoinInv, OneWinnerPerSnapshot
    <3>4. /\ revisions[acceptances[n].item] \in Nat /\ revisions'[acceptances[n].item] \in Nat
          /\ revisions'[acceptances[n].item] >= revisions[acceptances[n].item]
      BY <3>2 DEF JoinInv, JoinTypeOK, RevisionsGrow
    <3> QED
      BY <3>2, <3>3, <3>4
  <2> QED
    BY <2>1 DEF JoinInv, OneWinnerPerSnapshot
<1>4. StandingPhasesApart'
  <2>1. \A n \in DOMAIN acceptances : Standing(acceptances[n])' => Standing(acceptances[n])
    BY <1>1, RecordKept DEF Standing
  <2> QED
    BY <2>1 DEF JoinInv, StandingPhasesApart
<1> QED
  BY <1>2, <1>3, <1>4 DEF JoinInv, LedgerOK

\* Stamping the rows that were written keeps updatedAt a time.
LEMMA StampOK ==
    ASSUME JoinTypeOK, Stamp
    PROVE  touched' \in [Items -> Nat]
<1>1. touched \in [Items -> Nat] /\ now \in Nat
  BY DEF JoinTypeOK, TypeOK
<1> QED
  BY <1>1 DEF Stamp

\* An acceptance grants a ready item as its snapshot shows it, beyond every
\* generation accepted before, and finds no standing acceptance in the
\* opposite role.
LEMMA AcceptPreserves ==
    ASSUME JoinInv, NEW w \in Workers, NEW rec, rec.item \in Items,
           rec.assignment \in Assignments, NEW lease \in Leases, NEW k \in SelectionKeys,
           Accept(w, rec, lease, k)
    PROVE  JoinInv'
<1> DEFINE i == rec.item
           a == ActorOf[w]
           granted == ClaimedBy(Current(i), a, now + lease)
           new == [worker |-> w, item |-> i, assignment |-> rec.assignment,
                   selectedGeneration |-> rec.generation,
                   selectedRevision |-> rec.revision, generation |-> granted.generation]
           len == Len(acceptances)
<1>1. /\ LedgerOK /\ TypeOK /\ now \in Nat /\ items \in [Items -> Item]
      /\ items[i] \in Item /\ items[i].generation \in Nat /\ a \in Actors
      /\ acceptances \in Seq(Acceptance) /\ revisions[i] \in Nat
  BY WorkersAssumption DEF JoinInv, JoinTypeOK, LedgerOK, TypeOK, Item
<1>2. /\ Current(i) \in Item /\ Current(i).generation >= items[i].generation
  BY <1>1, CurrentRow DEF LedgerOK
<1>3. /\ granted \in Item /\ RowShape(granted) /\ granted.holder = a
      /\ granted.status = "active" /\ granted.generation = Current(i).generation + 1
  <2>1. now + lease \in Nat /\ now + lease # 0 /\ a \in Actors /\ Current(i).generation \in Nat
    BY <1>1, <1>2, LeasesAssumption DEF Item
  <2> HIDE DEF a
  <2> QED
    BY <1>2, <2>1, NobodyAssumption DEF ClaimedBy, Item, RowShape, Statuses
<1>4. granted.generation > items[i].generation /\ granted.generation \in Nat
         /\ granted.expiresAt \in Nat
  BY <1>1, <1>2, <1>3 DEF Item
<1>5. /\ items' = [items EXCEPT ![i] = granted]
      /\ acceptances' = Append(acceptances, new)
      /\ ScheduleExpiry(i, granted.generation, granted.expiresAt)
      /\ Remember(w, k, "accepted") /\ Outcome(w, rec) = "accepted"
      /\ UNCHANGED <<events, now, revisions, enrolled>> /\ Stamp
  BY DEF Accept
<1>20. rec.generation = Current(i).generation /\ rec.revision = revisions[i]
  BY <1>5 DEF Outcome, WorkUnchanged
<1>6. new \in Acceptance
  <2>1. rec.generation \in Nat /\ rec.revision \in Nat
    BY <1>1, <1>2, <1>20 DEF Item
  <2> QED
    BY <1>4, <2>1 DEF Acceptance
<1>7. /\ new.worker = w /\ new.item = i /\ new.assignment = rec.assignment
      /\ new.selectedGeneration = Current(i).generation /\ new.selectedRevision = revisions[i]
      /\ new.generation = granted.generation
  BY <1>20
<1>8. rec.assignment[1] # "general" => ~Overlap(rec.assignment)
  BY <1>5 DEF Outcome
<1>9. ScheduleExpiry(i, granted.generation, granted.expiresAt) => timers' \subseteq Timer
  BY <1>1, <1>4 DEF ScheduleExpiry, Timer, TypeOK
<1> HIDE DEF granted, new
<1>10. LedgerOK' /\ RowsFenced
  <2>1. events' \subseteq Event
    BY <1>1, <1>5 DEF TypeOK
  <2> QED
    BY <1>1, <1>3, <1>4, <1>5, <1>9, <2>1, RowReplaced
<1>11. items' \in [Items -> Item] /\ items'[i] = granted
  BY <1>1, <1>3, <1>5
<1>12. /\ acceptances' \in Seq(Acceptance)
       /\ len \in Nat /\ DOMAIN acceptances = 1..len /\ DOMAIN acceptances' = 1..(len + 1)
       /\ \A n \in 1..len : acceptances'[n] = acceptances[n]
       /\ acceptances'[len + 1] = new
  BY <1>1, <1>5, <1>6
<1>13. JoinTypeOK'
  <2>1. verdicts' \subseteq Verdict
    BY <1>1, <1>5 DEF JoinInv, JoinTypeOK, Remember, Verdict
  <2>2. touched' \in [Items -> Nat]
    BY <1>5, StampOK DEF JoinInv
  <2> QED
    BY <1>5, <1>10, <1>12, <2>1, <2>2 DEF JoinInv, JoinTypeOK, LedgerOK
<1> HIDE DEF len
<1>14. \A n \in 1..len : /\ acceptances[n] \in Acceptance /\ acceptances[n].item \in Items
                         /\ acceptances[n].generation \in Nat
                         /\ acceptances[n].selectedRevision \in Nat
                         /\ acceptances[n].assignment \in Assignments
  <2>1. \A n \in 1..len : acceptances[n] \in Acceptance
    BY <1>1, <1>12
  <2>2. \A x \in Acceptance : /\ x.item \in Items /\ x.generation \in Nat
                              /\ x.selectedRevision \in Nat /\ x.assignment \in Assignments
    BY DEF Acceptance
  <2> QED
    BY <2>1, <2>2
<1>15. \A n \in 1..len : acceptances[n].item = i =>
          /\ acceptances[n].generation <= new.selectedGeneration
          /\ acceptances[n].selectedRevision <= new.selectedRevision
  <2> SUFFICES ASSUME NEW n \in 1..len, acceptances[n].item = i
               PROVE  /\ acceptances[n].generation <= new.selectedGeneration
                      /\ acceptances[n].selectedRevision <= new.selectedRevision
    OBVIOUS
  <2>1. acceptances[n].generation <= items[i].generation
    BY <1>12 DEF JoinInv, AcceptancesReached
  <2>2. acceptances[n].selectedRevision <= revisions[i]
    BY <1>12 DEF JoinInv, OneWinnerPerSnapshot
  <2>3. acceptances[n].generation \in Nat /\ Current(i).generation \in Nat
    BY <1>2, <1>14 DEF Item
  <2> QED
    BY <1>1, <1>2, <1>7, <2>1, <2>2, <2>3
<1>16. AcceptancesReached'
  <2>1. \A n \in 1..len : acceptances[n].generation <= items'[acceptances[n].item].generation
    BY <1>10, <1>11, <1>12, RecordKept
  <2>2. new.generation <= items'[new.item].generation
    BY <1>4, <1>7, <1>11
  <2> QED
    BY <1>12, <2>1, <2>2 DEF AcceptancesReached
<1>17. ReplayedAcceptanceIsCurrent'
  <2>1. \A n \in 1..len : items'[acceptances[n].item].generation = acceptances[n].generation
            => items'[acceptances[n].item].holder = ActorOf[acceptances[n].worker]
    BY <1>10, <1>11, <1>12, RecordKept
  <2>2. items'[new.item].holder = ActorOf[new.worker]
    BY <1>3, <1>7, <1>11
  <2> QED
    BY <1>12, <2>1, <2>2 DEF ReplayedAcceptanceIsCurrent
<1>18. OneWinnerPerSnapshot'
  <2> DEFINE InOrder(x, y) == x.item = y.item =>
                                /\ x.generation <= y.selectedGeneration
                                /\ x.selectedRevision <= y.selectedRevision
             AtSnapshot(x) == /\ x.generation = x.selectedGeneration + 1
                              /\ x.selectedRevision <= revisions[x.item]
  <2>1. \A n \in 1..len : /\ AtSnapshot(acceptances[n])
                          /\ \A m \in 1..(n - 1) : InOrder(acceptances[m], acceptances[n])
    BY <1>12 DEF JoinInv, OneWinnerPerSnapshot
  <2>2. AtSnapshot(new)
    BY <1>1, <1>3, <1>7
  <2>3. \A m \in 1..len : InOrder(acceptances[m], new)
    BY <1>7, <1>15
  <2> HIDE DEF InOrder, AtSnapshot
  <2>4. \A n \in 1..(len + 1) :
           /\ AtSnapshot(acceptances'[n])
           /\ \A m \in 1..(n - 1) : InOrder(acceptances'[m], acceptances'[n])
    <3> SUFFICES ASSUME NEW n \in 1..(len + 1)
                 PROVE  /\ AtSnapshot(acceptances'[n])
                        /\ \A m \in 1..(n - 1) : InOrder(acceptances'[m], acceptances'[n])
      OBVIOUS
    <3>1. CASE n = len + 1
      BY <1>12, <2>2, <2>3, <3>1
    <3>2. CASE n \in 1..len
      BY <1>12, <2>1, <3>2
    <3> QED
      BY <1>12, <3>1, <3>2
  <2> QED
    BY <1>5, <1>12, <2>4 DEF OneWinnerPerSnapshot, InOrder, AtSnapshot
<1>19. StandingPhasesApart'
  <2>1. \A n \in 1..len :
           /\ items'[acceptances[n].item].status = "active"
           /\ items'[acceptances[n].item].generation = acceptances[n].generation
           /\ items'[acceptances[n].item].expiresAt > now'
           => Standing(acceptances[n])
    BY <1>10, <1>11, <1>12, RecordKept
  <2>2. \A n \in 1..len : Standing(acceptances[n]) =>
           /\ ~(/\ acceptances[n].assignment[1] = "implementation"
                /\ rec.assignment = <<"independent_review", acceptances[n].assignment[2]>>)
           /\ ~(/\ rec.assignment[1] = "implementation"
                /\ acceptances[n].assignment = <<"independent_review", rec.assignment[2]>>)
    <3> SUFFICES ASSUME NEW n \in 1..len, Standing(acceptances[n])
                 PROVE  /\ ~(/\ acceptances[n].assignment[1] = "implementation"
                             /\ rec.assignment = <<"independent_review",
                                                   acceptances[n].assignment[2]>>)
                        /\ ~(/\ rec.assignment[1] = "implementation"
                             /\ acceptances[n].assignment = <<"independent_review",
                                                              rec.assignment[2]>>)
      OBVIOUS
    <3> DEFINE x == acceptances[n].assignment
    <3>1. x \in Assignments
      BY <1>14
    <3>2. rec.assignment[1] # "general" =>
            x # <<Opposite[rec.assignment[1]], rec.assignment[2]>>
      BY <1>8, <1>12 DEF Overlap
    <3>3. x[1] = "implementation" => x = <<"implementation", x[2]>>
      BY <3>1 DEF Assignments
    <3> QED
      BY <3>2, <3>3 DEF Opposite
  <2>3. \A n \in 1..len : Standing(acceptances[n])' => Standing(acceptances[n])
    BY <1>12, <2>1 DEF Standing
  <2>4. \A m, n \in 1..len :
           /\ acceptances[m].assignment[1] = "implementation"
           /\ acceptances[n].assignment = <<"independent_review", acceptances[m].assignment[2]>>
           => ~(Standing(acceptances[m]) /\ Standing(acceptances[n]))
    BY <1>12 DEF JoinInv, StandingPhasesApart
  <2>5. ~(/\ rec.assignment[1] = "implementation"
          /\ rec.assignment = <<"independent_review", rec.assignment[2]>>)
    OBVIOUS
  <2> QED
    BY <1>7, <1>12, <2>2, <2>3, <2>4, <2>5 DEF StandingPhasesApart
<1> QED
  BY <1>10, <1>13, <1>16, <1>17, <1>18, <1>19 DEF JoinInv, LedgerOK

\* A rejection leaves a row as lazy expiry finds it.
LEMMA RejectPreserves ==
    ASSUME JoinInv, NEW w \in Workers, NEW rec, rec.item \in Items, NEW k \in SelectionKeys,
           Reject(w, rec, k)
    PROVE  JoinInv'
<1> DEFINE i == rec.item
<1>1. LedgerOK /\ TypeOK /\ ActorOf[w] \in Actors
  BY WorkersAssumption DEF JoinInv, JoinTypeOK, LedgerOK
<1>2. /\ items' = items \/ items' = [items EXCEPT ![i] = Current(i)]
      /\ Remember(w, k, Outcome(w, rec))
      /\ UNCHANGED <<timers, events, now, revisions, enrolled, acceptances>> /\ Stamp
  BY DEF Reject
<1>3. LedgerOK' /\ RowsFenced
  <2>1. timers' \subseteq Timer /\ events' \subseteq Event /\ now' = now /\ now \in Nat
    BY <1>1, <1>2 DEF TypeOK
  <2>2. CASE items' = items
    BY <1>1, <2>1, <2>2 DEF LedgerOK, TypeOK, ClaimShape, RowsFenced
  <2>3. CASE items' = [items EXCEPT ![i] = Current(i)]
    BY <1>1, <2>1, <2>3, CurrentFenced, RowReplaced
  <2> QED
    BY <1>2, <2>2, <2>3
<1>4. Outcome(w, rec) \in Rejections \cup {"accepted"}
  BY DEF Outcome, Rejections
<1>5. verdicts' \subseteq Verdict
  BY <1>1, <1>2, <1>4 DEF JoinInv, JoinTypeOK, Remember, Verdict
<1>6. touched' \in [Items -> Nat]
  BY <1>2, StampOK DEF JoinInv
<1>7. JoinTypeOK'
  BY <1>2, <1>3, <1>5, <1>6 DEF JoinInv, JoinTypeOK, LedgerOK
<1>8. RevisionsGrow
  BY <1>2 DEF JoinInv, JoinTypeOK, RevisionsGrow
<1> QED
  BY <1>2, <1>3, <1>7, <1>8, QuietPreserves

\* An annotation moves a version and nothing a claim depends on.
LEMMA AnnotatePreserves ==
    ASSUME JoinInv, NEW a \in Actors, NEW i \in Items, NEW k \in Keys \cup {NoKey},
           Annotate(a, i, k)
    PROVE  JoinInv'
<1>1. /\ LedgerOK /\ TypeOK /\ items[i] \in Item /\ items[i].generation \in Nat /\ now \in Nat
      /\ revisions \in [Items -> Nat]
  BY DEF JoinInv, JoinTypeOK, LedgerOK, TypeOK, Item
<1>2. /\ revisions' = [revisions EXCEPT ![i] = @ + 1]
      /\ AppendEvent(k, "item.annotated", i, a, items[i].generation)
      /\ UNCHANGED <<items, timers, now, enrolled, acceptances, verdicts>> /\ Stamp
  BY DEF Annotate
<1>3. events' \subseteq Event
  BY <1>1, <1>2 DEF AppendEvent, TypeOK, Event, EventTypes
<1>4. LedgerOK' /\ RowsFenced
  BY <1>1, <1>2, <1>3 DEF LedgerOK, TypeOK, ClaimShape, RowsFenced
<1>5. revisions' \in [Items -> Nat]
  BY <1>1, <1>2
<1>6. touched' \in [Items -> Nat]
  BY <1>2, StampOK DEF JoinInv
<1>7. JoinTypeOK'
  BY <1>2, <1>4, <1>5, <1>6 DEF JoinInv, JoinTypeOK, LedgerOK
<1>8. RevisionsGrow
  BY <1>1, <1>2 DEF RevisionsGrow
<1> QED
  BY <1>2, <1>4, <1>7, <1>8, QuietPreserves

\* A withdrawn enrolment keeps the claims its acceptances won.
LEMMA WithdrawPreserves ==
    ASSUME JoinInv, NEW w \in Workers, Withdraw(w)
    PROVE  JoinInv'
<1>1. /\ enrolled' \subseteq enrolled
      /\ UNCHANGED <<items, timers, events, now, revisions, touched, acceptances, verdicts>>
  BY DEF Withdraw
<1>2. JoinTypeOK' /\ LedgerOK' /\ RowsFenced
  BY <1>1 DEF JoinInv, JoinTypeOK, TypeOK, LedgerOK, ClaimShape, RowsFenced
<1>3. RevisionsGrow
  BY <1>1 DEF JoinInv, JoinTypeOK, RevisionsGrow
<1> QED
  BY <1>1, <1>2, <1>3, QuietPreserves

\* The rest of the system claims, releases and expires past the join.
LEMMA LedgerPreserves ==
    ASSUME JoinInv, LedgerSide
    PROVE  JoinInv'
<1>1. /\ ClientSteps \/ TimerSteps \/ Tick
      /\ UNCHANGED <<revisions, enrolled, acceptances, verdicts>> /\ Stamp
  BY DEF LedgerSide
<1>2. LedgerOK' /\ RowsFenced
  BY <1>1, LedgerStep DEF JoinInv, JoinTypeOK, LedgerOK
<1>3. touched' \in [Items -> Nat]
  BY <1>1, StampOK DEF JoinInv
<1>4. JoinTypeOK'
  BY <1>1, <1>2, <1>3 DEF JoinInv, JoinTypeOK, LedgerOK
<1>5. RevisionsGrow
  BY <1>1 DEF JoinInv, JoinTypeOK, RevisionsGrow
<1> QED
  BY <1>1, <1>2, <1>4, <1>5, QuietPreserves

\* Stuttering changes nothing.
LEMMA JoinStutterPreserves ==
    ASSUME JoinInv, UNCHANGED joinVars
    PROVE  JoinInv'
<1>1. UNCHANGED <<items, timers, events, now, revisions, touched, enrolled, acceptances, verdicts>>
  BY DEF joinVars, selectionVars
<1>2. JoinTypeOK' /\ LedgerOK' /\ RowsFenced
  BY <1>1 DEF JoinInv, JoinTypeOK, TypeOK, LedgerOK, ClaimShape, RowsFenced
<1>3. RevisionsGrow
  BY <1>1 DEF JoinInv, JoinTypeOK, RevisionsGrow
<1> QED
  BY <1>1, <1>2, <1>3, QuietPreserves

\* Ready items and an empty record satisfy the invariant.
LEMMA JoinInitInv == SelectionInit => JoinInv
<1> SUFFICES ASSUME SelectionInit PROVE JoinInv
  OBVIOUS
<1>1. NewItem \in Item /\ RowShape(NewItem) /\ NewItem.status # "absent"
  BY DEF NewItem, Absent, Item, Statuses, RowShape
<1>2. items \in [Items -> Item] /\ \A i \in Items : items[i] = NewItem
  BY <1>1 DEF SelectionInit
<1>3. TypeOK
  BY <1>2 DEF SelectionInit, TypeOK
<1>4. acceptances \in Seq(Acceptance) /\ DOMAIN acceptances = {}
  BY DEF SelectionInit
<1>5. JoinTypeOK
  BY <1>3, <1>4 DEF SelectionInit, JoinTypeOK
<1>6. ClaimShape /\ \A i \in Items : items[i].status # "absent"
  BY <1>1, <1>2 DEF ClaimShape, RowShape
<1> QED
  BY <1>4, <1>5, <1>6 DEF JoinInv, AcceptancesReached, OneWinnerPerSnapshot,
     ReplayedAcceptanceIsCurrent, StandingPhasesApart

\* Every step of the join and of the ledger beside it preserves the invariant.
LEMMA JoinNextInv == JoinInv /\ [JoinNext]_joinVars => JoinInv'
<1> SUFFICES ASSUME JoinInv, [JoinNext]_joinVars PROVE JoinInv'
  OBVIOUS
<1>1. CASE Selects
  <2>1. PICK w \in Workers, i \in Items, generation \in 0..MaxGeneration,
             revision \in 0..MaxRevision, assignment \in Assignments, k \in SelectionKeys :
          LET rec == [item |-> i, generation |-> generation, revision |-> revision,
                      assignment |-> assignment]
          IN  \/ \E lease \in Leases : Accept(w, rec, lease, k)
              \/ Reject(w, rec, k)
    BY <1>1 DEF Selects
  <2> DEFINE rec == [item |-> i, generation |-> generation, revision |-> revision,
                     assignment |-> assignment]
  <2>2. /\ rec.item \in Items /\ rec.assignment \in Assignments
        /\ \/ \E lease \in Leases : Accept(w, rec, lease, k)
           \/ Reject(w, rec, k)
    BY <2>1
  <2> HIDE DEF rec
  <2> QED
    BY <2>2, AcceptPreserves, RejectPreserves
<1>2. CASE Annotates
  BY <1>2, AnnotatePreserves DEF Annotates
<1>3. CASE Withdraws
  BY <1>3, WithdrawPreserves DEF Withdraws
<1>4. CASE LedgerSide
  BY <1>4, LedgerPreserves
<1>5. CASE UNCHANGED joinVars
  BY <1>5, JoinStutterPreserves
<1> QED
  BY <1>1, <1>2, <1>3, <1>4, <1>5 DEF JoinNext

-----------------------------------------------------------------------------
\* The inductive invariant holds of every state of the join, whatever the
\* claim ledger does beside it.
THEOREM JoinInvariance == JoinSpec => []JoinInv
<1> QED
  BY JoinInitInv, JoinNextInv, PTL DEF JoinSpec

\* The join's rows have their types: acceptances, verdicts and stamps.
THEOREM JoinTypeCorrect == JoinSpec => []JoinTypeOK
<1>1. JoinInv => JoinTypeOK
  BY DEF JoinInv
<1> QED
  BY <1>1, JoinInvariance, PTL

\* Of the workers that bring the same recommendation one is accepted, and none
\* that brings an old one: a grant follows its snapshot directly, and every
\* later snapshot of the item was taken after it (workSelectionClaims.ts
\* accept, the work_changed rejection).
THEOREM OneWinner == JoinSpec => []OneWinnerPerSnapshot
<1>1. JoinInv => OneWinnerPerSnapshot
  BY DEF JoinInv
<1> QED
  BY <1>1, JoinInvariance, PTL

\* The acceptance a retry returns names the claimant of the generation in it.
THEOREM ReplayedAcceptances == JoinSpec => []ReplayedAcceptanceIsCurrent
<1>1. JoinInv => ReplayedAcceptanceIsCurrent
  BY DEF JoinInv
<1> QED
  BY <1>1, JoinInvariance, PTL

\* checkIndependence keeps implementation and review of a candidate apart as
\* long as neither claim has been renewed.
THEOREM PhasesApart == JoinSpec => []StandingPhasesApart
<1>1. JoinInv => StandingPhasesApart
  BY DEF JoinInv
<1> QED
  BY <1>1, JoinInvariance, PTL

-----------------------------------------------------------------------------
\* A new verdict other than acceptance comes from a rejection.
LEMMA RejectionStep ==
    ASSUME JoinInv, JoinNext, NEW v \in verdicts' \ verdicts, v.outcome # "accepted"
    PROVE  \E w \in Workers, rec \in Recommendation, k \in SelectionKeys : Reject(w, rec, k)
<1>1. CASE Selects
  <2>1. PICK w \in Workers, i \in Items, generation \in 0..MaxGeneration,
             revision \in 0..MaxRevision, assignment \in Assignments, k \in SelectionKeys :
          LET rec == [item |-> i, generation |-> generation, revision |-> revision,
                      assignment |-> assignment]
          IN  \/ \E lease \in Leases : Accept(w, rec, lease, k)
              \/ Reject(w, rec, k)
    BY <1>1 DEF Selects
  <2> DEFINE rec == [item |-> i, generation |-> generation, revision |-> revision,
                     assignment |-> assignment]
  <2>2. rec \in Recommendation
    BY BoundsAssumption, RevisionAssumption DEF Recommendation
  <2>3. \/ \E lease \in Leases : Accept(w, rec, lease, k)
        \/ Reject(w, rec, k)
    BY <2>1
  <2> HIDE DEF rec
  <2>4. ASSUME NEW lease \in Leases, Accept(w, rec, lease, k) PROVE FALSE
    BY <2>4 DEF Accept, Remember
  <2> QED
    BY <2>2, <2>3, <2>4
<1>2. CASE Annotates
  BY <1>2 DEF Annotates, Annotate
<1>3. CASE Withdraws
  BY <1>3 DEF Withdraws, Withdraw
<1>4. CASE LedgerSide
  BY <1>4 DEF LedgerSide
<1> QED
  BY <1>1, <1>2, <1>3, <1>4 DEF JoinNext

\* A rejected acceptance accepts nothing and takes no running claim: what it
\* writes is the lazy expiry of a lapsed one.
THEOREM RejectionsTakeNothing == JoinSpec => RejectionTakesNothing
<1>1. JoinInv /\ [JoinNext]_joinVars =>
        [\A v \in verdicts' \ verdicts : v.outcome # "accepted" =>
           /\ acceptances' = acceptances
           /\ \A i \in Items : Live(items[i], now) \/ items'[i].holder # Nobody
                                 => items'[i] = items[i]]_joinVars
  <2> SUFFICES ASSUME JoinInv, JoinNext, NEW v \in verdicts' \ verdicts,
                      v.outcome # "accepted"
               PROVE  /\ acceptances' = acceptances
                      /\ \A i \in Items : Live(items[i], now) \/ items'[i].holder # Nobody
                                            => items'[i] = items[i]
    OBVIOUS
  <2>1. PICK w \in Workers, rec \in Recommendation, k \in SelectionKeys : Reject(w, rec, k)
    BY RejectionStep
  <2>2. /\ acceptances' = acceptances
        /\ items' = items \/ items' = [items EXCEPT ![rec.item] = Current(rec.item)]
    BY <2>1 DEF Reject
  <2>3. LedgerOK /\ items \in [Items -> Item] /\ rec.item \in Items
    BY DEF JoinInv, JoinTypeOK, LedgerOK, TypeOK, Recommendation
  <2>4. \/ Current(rec.item) = items[rec.item]
        \/ Current(rec.item).holder = Nobody /\ ~Live(items[rec.item], now)
    BY <2>3, CurrentFenced
  <2>5. ASSUME NEW i \in Items, Live(items[i], now) \/ items'[i].holder # Nobody
        PROVE  items'[i] = items[i]
    BY <2>2, <2>3, <2>4, <2>5
  <2> QED
    BY <2>2, <2>5
<1> QED
  BY <1>1, JoinInvariance, PTL DEF JoinSpec, RejectionTakesNothing

-----------------------------------------------------------------------------
(* The ledger with the join is still a fenced lease. *)

\* An acceptance takes an item nobody has, under a larger fence.
LEMMA AcceptRefines ==
    ASSUME JoinInv, NEW w \in Workers, NEW rec, rec.item \in Items,
           NEW lease \in Leases, NEW k, Accept(w, rec, lease, k)
    PROVE  Fenced!Next
<1> DEFINE i == rec.item
           a == ActorOf[w]
           granted == ClaimedBy(Current(i), a, now + lease)
<1>1. /\ TypeOK /\ ClaimShape /\ items[i] \in Item /\ now \in Nat /\ a \in Actors
      /\ now + lease \in Nat /\ now + lease > now
  BY WorkersAssumption, LeasesAssumption DEF JoinInv, JoinTypeOK, TypeOK
<1>2. /\ Current(i) \in Item /\ RowShape(Current(i))
      /\ Current(i).generation >= items[i].generation
      /\ Live(items[i], now) => Current(i) = items[i]
  BY <1>1, CurrentRow
<1>3. Current(i).status = "ready"
  BY DEF Accept, Outcome, Available
<1>4. Current(i).holder = Nobody
  BY <1>2, <1>3 DEF RowShape
<1>5. ~Live(items[i], now)
  BY <1>2, <1>4 DEF Live
<1>6. items' = [items EXCEPT ![i] = granted] /\ now' = now
  BY DEF Accept
<1>7. /\ granted \in Item /\ granted.holder = a /\ granted.expiresAt = now + lease
      /\ granted.generation = Current(i).generation + 1
  <2>1. Current(i).generation \in Nat
    BY <1>2 DEF Item
  <2> HIDE DEF a
  <2> QED
    BY <1>1, <2>1 DEF ClaimedBy, Item, Statuses
<1>8. granted.generation > items[i].generation
  BY <1>1, <1>2, <1>7 DEF Item
<1>9. a # Nobody
  BY <1>1, NobodyAssumption
<1> HIDE DEF granted, a, i
<1>10. Live(granted, now)
  BY <1>1, <1>7, <1>9 DEF Live
<1> QED
  BY <1>1, <1>5, <1>6, <1>7, <1>8, <1>10, GrantedRefines DEF i

\* A rejection ends a lapsed claim or nothing.
LEMMA RejectRefines ==
    ASSUME JoinInv, NEW w \in Workers, NEW rec, rec.item \in Items, NEW k, Reject(w, rec, k)
    PROVE  Fenced!Next
<1>1. /\ TypeOK /\ items \in [Items -> Item] /\ now \in Nat
  BY DEF JoinInv, JoinTypeOK, TypeOK
<1>2. \A j \in Items : items'[j] = items[j] \/ items'[j] = Unclaimed(items[j], "ready")
  BY <1>1 DEF Reject, Current, ExpireClaimIfNeeded
<1>3. now' \in Nat /\ now' >= now
  BY <1>1 DEF Reject
<1> QED
  BY <1>1, <1>2, <1>3, OthersRetire

\* Every step of the join, and of the ledger beside it, is a step of the
\* fenced lease, or no step.
LEMMA JoinStepRefines ==
    JoinInv /\ [JoinNext]_joinVars => [Fenced!Next]_(Fenced!vars)
<1> SUFFICES ASSUME JoinInv, [JoinNext]_joinVars PROVE [Fenced!Next]_(Fenced!vars)
  OBVIOUS
<1>1. /\ TypeOK /\ ClaimShape /\ items \in [Items -> Item] /\ now \in Nat
      /\ AbsentUnfenced
  BY DEF JoinInv, JoinTypeOK, TypeOK, AbsentUnfenced
<1>2. CASE Selects
  <2>1. PICK w \in Workers, i \in Items, generation \in 0..MaxGeneration,
             revision \in 0..MaxRevision, assignment \in Assignments, k \in SelectionKeys :
          LET rec == [item |-> i, generation |-> generation, revision |-> revision,
                      assignment |-> assignment]
          IN  \/ \E lease \in Leases : Accept(w, rec, lease, k)
              \/ Reject(w, rec, k)
    BY <1>2 DEF Selects
  <2> DEFINE rec == [item |-> i, generation |-> generation, revision |-> revision,
                     assignment |-> assignment]
  <2>2. /\ rec.item \in Items
        /\ \/ \E lease \in Leases : Accept(w, rec, lease, k)
           \/ Reject(w, rec, k)
    BY <2>1
  <2> HIDE DEF rec
  <2> QED
    BY <2>2, AcceptRefines, RejectRefines
<1>3. CASE Annotates \/ Withdraws \/ UNCHANGED joinVars
  <2>1. items' = items /\ now' = now
    BY <1>3 DEF Annotates, Annotate, Withdraws, Withdraw, joinVars
  <2> QED
    BY <2>1 DEF Fenced!vars, LiveOwner, Fence, Live
<1>4. CASE LedgerSide
  <2>1. CASE ClientSteps
    BY <1>1, <2>1, ClientStepRefines DEF ClientSteps
  <2>2. CASE TimerSteps
    <3>1. PICK tm \in timers : ExpireScheduled(tm)
      BY <2>2 DEF TimerSteps
    <3>2. now' = now
      BY <3>1 DEF ExpireScheduled
    <3> QED
      BY <1>1, <3>1, <3>2, ExpireSparesLive, OthersRetire
  <2>3. CASE Tick
    <3>1. now' = now + 1 /\ items' = items
      BY <2>3 DEF Tick
    <3> QED
      BY <1>1, <3>1, OthersRetire
  <2> QED
    BY <1>4, <2>1, <2>2, <2>3 DEF LedgerSide
<1> QED
  BY <1>2, <1>3, <1>4 DEF JoinNext

\* The join takes part in the protocol of the claim ledger: with acceptances
\* and rejections beside all claim operations, timers and the clock, an item
\* has one owner at most, is never handed over directly, and every grant
\* carries a fresh fence (workSelectionClaims.ts accept with claims.ts).
THEOREM JoinIsFencedLease == JoinSpec => ImplementsFencedClaim
<1>1. SelectionInit => Fenced!Init
  BY DEF SelectionInit, NewItem, Absent, Fenced!Init, LiveOwner, Fence, Live
<1> QED
  BY <1>1, JoinStepRefines, JoinInvariance, PTL
  DEF JoinSpec, ImplementsFencedClaim, Fenced!Spec
=============================================================================
