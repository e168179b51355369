# Stensibly: a TLA+ verification project for the hosted work ledger

Stensibly coordinates people and agents that share work. Its hosted backend
(`convex/`) keeps a ledger of items, claims, reservations, runs and events in a
Convex database; workers, the MCP server and the HTTP API (`src/`) reach it only
through Convex mutations. This project models the mutations that decide *who may
act on what, until when*, and one of the procedures in `src/` that act outside on
their strength (outbound mail), checks them with TLC and proves the central claims
with TLAPS.

## 1. The system

A **Convex mutation** is a serializable transaction: it commits as a whole, or
throws and leaves nothing behind. Two things therefore interleave: the mutations of
different clients (each carrying values its client read earlier), and functions
handed to the **scheduler**, which run once, at or after their time, possibly very
late and long after what they were scheduled for has changed. Responses get lost,
so clients retry under idempotency keys. Leases lapse by the clock, whoever notices.

### Inventory

| Component | State | Operations | Correct when | Modelled in |
|---|---|---|---|---|
| Item claims (`claims.ts`, `lib/claimState.ts`) | claim fields of the item row, pending expiry calls | `acquire`, `renew`, `release`, `expireScheduled`, lazy expiry in every mutation | a running claim is its claimant's alone; every grant has a fresh fence; a lapsed claim is cleaned up | `Items`, `ItemClaims`, `FencedClaim` |
| Item lifecycle (`items.ts`) | item status | `create`, `complete`, `handoff`, `block`, `unblock` | only with the current generation; done is final | `ItemClaims` |
| Event ledger (`lib/domain.ts`, `events.ts`, `artifacts.ts`) | events, by idempotency key | `appendEvent`, `requireMatchingIdempotency`, `record`, `attach` | a key has one effect; a replayed answer does not mislead | `ItemClaims`, `WorkSelection` |
| Reservations (`reservations.ts`) | reservation rows, pending expiry calls | `acquire` (with its sweep), `release`, `expireScheduled` | exclusive is alone; capacity is never exceeded | `Reservations` |
| Exact dispatch (`lib/exactDispatch.ts`) | item row, new `queuedRuns` row | `dispatchHostedExactGeneration` | one open run per item; only the generation the caller saw | `RunnerRuns` |
| Runner runs (`runnerRuns.ts`) | `queuedRuns`, `runnerCommands`, item row | `claim`, `heartbeat`, nine `transition` commands, reconciliation (`get`, `list`, `reconcile`) | a lease generation has one owner; lost runs are abandoned; other people's claims are respected | `RunnerRuns` |
| Supervisor finish (`queuedRuns.ts`) | `queuedRuns`, execution records | `finish` | finished runs stay finished | `RunnerRuns` |
| Work selection join (`workSelectionClaims.ts`) | acceptances, remembered verdicts, item row | `accept` | one winner per snapshot; review and implementation apart | `WorkSelection` |
| Worker enrolment and callsigns (`workerEnrolments.ts`, `callsignLeases.ts`) | enrolments, callsign leases, stored answers, two kinds of expiry call | `reserve`, `renew`, `release`, `enrol`, `heartbeat`, `release` of an enrolment, reads that expire, `expireScheduled` | a callsign has one active lease and a generation names one lease for ever; an enrolment and its lease end together | `Callsigns` (the end of an enrolment also in `WorkSelection`) |
| MCP OAuth grants (`mcpOAuth.ts`) | authorization codes, refresh-token rows, clean-up calls | `createAuthorizationCode`, `exchangeAuthorizationCode`, `rotateRefreshToken`, `cleanupRefreshFamilyScheduled` | a code opens one family; a family has one live token; a replay ends it; a family that is due is deleted | `RefreshFamilies` |
| MCP OAuth clients (`mcpOAuthClientLifecycle.ts`) | client rows, clean-up calls | both `registerClient`s, `reconcileClientLifecycle`, both `createAuthorizationCode`s, `cleanupUnusedClientScheduled` | a client nobody used goes, one with codes or tokens stays | `OAuthClients` |
| Outbound mail (`mailOutbound.ts`, `src/mail-outbound-service.ts`) | effects, the delivery lane of a thread, the provider projection; Gmail's mailbox | `publish`, `reconcile`, each a sequence of calls; `reserveEffect`, `settleEffect` | the ledger agrees with the mailbox; nothing is sent twice | `OutboundMail` |
| Continuations and their supervisor | proposals with generations, jobs | propose, edit, approve, dispatch | an approved proposal becomes one item and one run | planned |
| Legacy runs, wake dispatch, usage reservations, repository writes, runner adapter commands | see PROJECT.json | | | planned or left out, with the reason in PROJECT.json |
| Local SQLite ledger (`src/*.ts`) | one local database | the local counterparts, with a custodian sweep | same promises, one process | not modelled |

### How the parts meet

Everything meets in the **item row**. Claims and lifecycle operations move its
`claimGeneration` and schedule an expiry call. Dispatch takes a claim the same way
but schedules nothing: it queues a *run*, whose own lease (`leaseOwner`,
`leaseExpiresAt`, `leaseGeneration`) then governs the item. Runner operations copy
the run's lease onto the item **without** moving `claimGeneration`; when the lease
lapses, reconciliation releases the item. The join writes a claim and an acceptance
row in one mutation. Hence `RunnerRuns` and `WorkSelection` both EXTEND
`ItemClaims` and let every client operation and timer of it run beside their own.

Three more parts keep tables of their own. Callsign leases are written by two
files: a reservation for a run, and an enrolment that takes a lease with it. A
client's OAuth row must outlive the codes and tokens issued to it, which other
mutations write: `OAuthClients` EXTENDS `RefreshFamilies` and replaces its
code-creating steps by the two that also write the client. Outbound mail is the
one place where a mutation cannot be the whole story: publishing is *read the
projection, reserve, send, settle*, the send is Gmail's, and another process may
reconcile the same effect between any two of these.

### What is hard here

Late and obsolete expiry calls; clean-up by three different mechanisms (lazy,
scheduled, reconciliation) that test different fields; two fences on one row; retries
that return old answers; lapses that nobody has recorded yet when a limit is
counted; retry budgets and limits at their edges; clean-up in batches by calls that
are replaced while they wait; rows of an earlier release with other fields; a process
that stops between an external effect and its record. PROJECT.json lists these under
"hazards", each at its line, with the properties aimed at it.

## 2. Modules

| Module | What it is |
|---|---|
| `Items` | the item record and the patches mutations apply to it |
| `ItemClaims` | claims and lifecycle: rows, scheduler, keyed events, clock |
| `FencedClaim` | abstract promise: one owner, no direct hand-over, fences only grow |
| `ItemClaimsProofs` | TLAPS proofs about `ItemClaims`, refinement included |
| `Reservations`, `ReservationsProofs` | resource reservations and their proofs |
| `FiniteSums` | lemmas about sums over finite sets, for the proof about capacity |
| `RunnerRuns` | dispatch, runner runs, finish, composed with `ItemClaims` |
| `RunnerRunsProofs` | TLAPS proofs about runs and their leases |
| `WorkSelection` | the join, composed with `ItemClaims` |
| `WorkSelectionProofs` | TLAPS proofs about the join |
| `Callsigns` | callsign leases and enrolments over their two tables |
| `CallsignsProofs` | TLAPS proofs about callsign leases and enrolments |
| `RefreshFamilies` | authorization codes and refresh-token families |
| `OAuthClients` | registered clients, composed with `RefreshFamilies` |
| `OAuthProofs` | TLAPS proofs about families, clients and their composition |
| `OutboundMail` | publish and reconcile over effects, lane, projection and mailbox |
| `OutboundMailProofs` | TLAPS proofs about outbound mail |
| `MC*` | what a `.cfg` cannot write: functions as constants |

**Correspondence.** `items[i]` is an `items` row reduced to status, claimant,
`claimExpiresAt` (0 when undefined) and `claimGeneration`; `timers` is what
`ctx.scheduler.runAt` still owes; `events` keeps only events that carry a key, with
the generation the operation left behind; `now` is `Date.now()`. An action is one
mutation that commits; one that throws is no step (its lazy expiry is rolled back
too). The generation a client passes ranges over all values: it may have been read at
any time. Events without a key, activity text, titles, priorities and usage numbers
do not influence a decision and are left out. `version` is left out of `Items`
because the operations there move it exactly with `claimGeneration`; `WorkSelection`
adds what moves it alone (`revisions`) and `updatedAt` (`touched`), which the
capacity scan's index order depends on.

*Callsigns.* A callsign is a name and its collision key, so that two spellings
collide and an invalid one has no key. A rejected command is a step: its answer is
stored under the key, and the expiries made on the way to it are committed. A
command whose key is answered returns the stored result and changes nothing. The
heartbeat's time stamp and the enrolment's descriptive fields are left out.

*OAuth.* A row carries what the code decides by; a deleted one keeps its fields in
the model, so that lineage can be stated. Init contains the rows an earlier release
left: none, a root without a family deadline, a rotated root whose rows disagree on
their expiry, and a root with a clean-up call of the old form. A wrong secret or an
unknown credential finds no row and is no step. A row's deadline beyond the maximum
lifetime, which no mutation writes, is left out, as are rows whose lifecycle fields
contradict each other. What an account may still grant is a role that may change at
any time.

*Outbound mail.* One canonical thread, one account, one mailbox address. A process
is at a program point with what it read (`seen`) or was told (`message`); `Stop`
ends it anywhere, which stands for a crash, a failed call and a thrown conflict
alike. A message is in the mailbox from the moment Gmail accepts it, and the search
finds it: delays of Gmail's index are not modelled, and sending is one
step: a request that Gmail accepts after its sender saw it fail is not either. `overtaken` is a history
variable, no guard reads it.

Operators whose comment starts with *Mutant* are deliberate mistakes, kept beside
what they distort: PROJECT.json's "mutants" names, for every property of every passing
run, one that the property catches. The specification never uses them.

## 3. Runs

All models have a bounded clock and bounded generations: the bounds are guards of
client operations only, so clean-up is never cut off. A state where every client has
reached a bound has no successor, so deadlock is not checked there; progress is stated
as liveness instead. The mail model has no clock and never stops: its run checks
deadlock.

| Run | Instance | Shows |
|---|---|---|
| `item_claims` | 2 actors, 1 item, 2 keys, leases 1-2, time 4, generation 4 | row shape, pending timers, a key counts once, fences, `LapsedClaimReclaimed`, refinement of `FencedClaim` |
| `reservations` | 2 actors, 1 resource, 3 rows, capacities 1-2, time 3 | exclusion, capacity, sweep and expiry end only what lapsed |
| `runner_runs` | 2 interchangeable actors, 1 item, 2 runs, 2 attempts, time 3, generation 3 | one open run, lease generations, retry budget, finality, respect for other claims |
| `runner_capacity` | 2 items of one project with room for one, one command key | pickup limits, replayed runner answers, lost runs are abandoned and give their item back |
| `work_selection` | 2 workers, 1 item, recommendations of every age | a snapshot is accepted once and only while it is exact, replayed acceptances, refinement of `FencedClaim` with the join beside the ledger |
| `work_phases` | 2 workers, implementation and review as 2 items | granted phases never stand together |
| `callsigns` | 1 owner, 2 sessions, 1 run, 2 spellings of a callsign and an invalid name, 2 leases, 2 enrolments, 2 keys each, time 3 | the three states the code throws on are unreachable; a generation names one lease; enrolment and lease end together; a running lease ends only by its holder; what lapsed ends |
| `oauth` | 1 code, 3 token rows, batch 1, 2 clients for 1 place, time 3 | one live token, bounded lineage, replay ends the family, due families are deleted, referenced clients stay, unused ones have their clean-up call |
| `mail` | 2 processes, 2 contents, 2 attempts each | the lane names the unsettled effect, deliveries are in the mailbox, receipts are final, nothing is resent unless a reconcile overtakes a publisher |
| `renewed_claim`, `finished_claim`, `mail_duplicate` | small | documented statements the code does not meet (section 6) |

**Why the bounds are enough.** A lease of 1 and one of 2 give a claim that lapses
while another, or its own renewal, still runs; time 4 lets the longest be granted,
lapse, be granted again and lapse again; generation 4 covers grant, renewal, end and a new
grant. Three reservations are two that fill a capacity and one that is swept
or refused. Two runs on one item are a run and its successor; run generation 5 lets a run be claimed,
fail, be retried and fail for good, and item generation 3 lets somebody unblock and claim the item
while a run of it is still open. `runner_runs` checks only safety and uses
the symmetry of the actors. Two items in the capacity run are what a limit of
one needs.

In `callsigns` a lease of at most 2 in 3 units of time can lapse, be renewed in time
or too late, and be taken again by the other kind of caller. In `oauth` three token
rows are a root, its successor and the successor's successor or a second family beside an old
one; with a batch of 1 a family of two needs a continuation; the family of a code can be
rotated while the call scheduled for it waits. Two clients for one place make the limit and
the sweep happen. A client registered at 1 can be swept by the other at 2 and registered
again at 3 while its first call still waits. Its second deadline, 4, is past the bound, so
that it ends is stated of the calls: `UnusedClientHasCall` says the one that will end it is
pending from the registration on, at every time (theorem `UnusedClientsHaveCalls`), and the
scheduler runs it. In `mail` the two processes are
publisher and reconciler of one effect, or two publishers; the two attempts are what a
resend needs, and the second content is what makes a repeat of the first legitimate.
The theorems below do not depend on the bounds.

**Fairness.** `SchedulerFairness`: the scheduler eventually runs each call it was
given; Convex persists scheduled functions and runs mutations exactly once. It is
weak fairness per item and generation, since a due call stays due until it
runs. `FairRunSpec` adds weak fairness of reconciliation: every runner that asks for work
reconciles first (`runnerRuns.claim`, `list`, `reconcile`), so it assumes that
some runner keeps asking. In `callsigns` the expiry calls of each row, in `oauth` the due
clean-up calls of families as a whole and those of clients as a whole, are weakly fair for
the same reason; nothing is assumed of their order. `mail` assumes no fairness: a
process may stop for ever at any point. No client is assumed to do anything else, and the clock may stop.

## 4. Theorems

All hold for any sets of actors, items, keys and rows, any leases and any bounds; the only
assumptions are the named ASSUMEs (null values lie outside their sets, leases are
positive, bounds are natural numbers), which TLC evaluates in the runs. Every safety
invariant that a passing run checks, and every action property of one, is stated by a
theorem.

*Item claims.* `Invariance` proves the inductive invariant `Inv`. `ClaimHasTimer` is
not inductive alone: that a scheduled call may be dropped when it runs needs the
row's shape (`ClaimShape`), and that no other generation's call is dropped in its place.
`KeyedGrantNamesHolder` needs that no two keys recorded the same fence of an item and
none a fence beyond the row's (`KeyedFencesDistinct`), and that no event speaks of a row
not yet inserted (`AbsentUntouched`). `KeysUnique` is what a retry relies on: a second
effect under a key would be a second event with it. The proof rests on one
lemma, `RewritePreserves`: every client operation replaces one row under a larger
fence and appends at most one event with a free key; five short lemmas show that each
operation has that form. From `Inv` follow `TypeCorrect`, `ClaimsHaveTimers`,
`KeyedOnce`, `ReplayedGrantIsCurrent`, the action properties
`LiveClaimsAreTheHolders`, `FencesAdvance` and `CompletionIsFinal`, and the refinement `LedgerIsFencedLease`: a
client step is a grant or a retirement of one item, a tick retires every owner whose
claim lapses, a scheduled call is invisible because it ends only lapsed claims.

*Reservations.* `Inv` is `TypeOK /\ ExclusiveIsAlone /\ ReservationHasTimer`;
`TypeCorrect`, `Exclusion`, `ReservationsHaveTimers` and `OnlyHolderEndsReservation` follow.
The key step is that `acquire` compares the request with exactly the rows that still
run, because the ones it sweeps are no longer running. `CapacityIsKept` adds up units.
A sum over an arbitrary set of ids means something only because the rows in use are
finitely many, and they are because one is inserted at a time: `CapacityInv` carries that beside
`WithinCapacity`. What a sum does (it does not depend on the order, grows by what is
added, shrinks to a part) is proved in `FiniteSums`: an induction over the subsets of a
finite set, carried out on a smallest counterexample, since the induction theorems take
an operator. `acquire` grants what fits beside everything running on the resource, and
the rows running together agree on the capacity it is compared with.

*Runner runs.* `RunInvariance` proves `RunInv`: the types, `ClaimShape`, what each run row
satisfies by itself (`RunOK`: the shape of its lease, its retry budget, an attempt left
while it is unfinished, an actor), `OneOpenRunPerItem`, `ReplayedLeaseIsOwned`, and that
no recorded answer is of a lease generation its run has not reached. The last is what
makes `ReplayedLeaseIsOwned` inductive: a new owner comes with a generation no answer on record can
show. The argument is one about rows: whatever dispatch, pickup, heartbeat, the nine
commands, reconciliation and finish do, a run row stays, moves while it is open (`Moves`)
or is first inserted (`Queued`); a lemma per operation shows this, and shows
that the item row it writes keeps its shape. From that step form follow
`LeasesAreFenced` and `FinishedRunsAreFinal`; `ForeignClaimsAreRespected` and
`NewClaimantsAreFenced` need, action by action, which item rows are written and whose
claim they showed. `PickupsWithinCapacity` counts: the runs dispatched so far are finitely
many, since a step dispatches one at most, so a count below the limit before a pickup is
within it afterwards; it is the count of the reconciled rows, which is why a limit is
not used up by runs that lapsed. The specification is the whole composition, with every claim
operation and timer running beside the runs.

*The join.* `JoinInvariance` proves `JoinInv`: the types, `ClaimShape`, items once
inserted stay inserted, no acceptance is of a generation its item has not reached, and
the three properties. Every step, the claim ledger's own steps included, changes an item
row only under a larger generation (`RowsFenced`); therefore an acceptance that stands
after a step stood before it (`RecordKept`), and only `Accept` itself needs more. Its snapshot is the row
(`WorkUnchanged`), whose generation is no smaller than any accepted before and whose
revision only grows; that is `OneWinnerPerSnapshot` again, with the new acceptance at the
end. And `Overlap` found no standing acceptance in the opposite role. `OneWinner`, `ReplayedAcceptances` and `PhasesApart` follow;
`RejectionsTakeNothing` is an action property: a rejection writes at most the lazy expiry.
`JoinIsFencedLease` is the refinement of `FencedClaim` by the whole composition: an
acceptance is a grant of an item that nobody has, a rejection at most a retirement, and
the ledger's own steps are what they are without the join (the lemmas `GrantedRefines`,
`ClientStepRefines` and `OthersRetire` serve both specifications). `RunnerRuns` does not
refine `FencedClaim`: a pickup passes the item to the runner under the old claim
generation, and `NewClaimantIsFenced` says what holds instead.

*Callsigns.* `IInv` relates the two tables: a lease was asked for under a key that has
its answer and that no other lease was asked under (`Asked`); rows of one callsign differ in
generation and the active one is the newest (`Newest`); an owner's session has one active
enrolment; an enrolment and the lease it took name each other and agree on session,
generation and expiry (`Linked`); and until that expiry both are active or neither
(`Together`). `Linked` also says that such a lease has no run: this keeps every callsign
command away from it, so that only the enrolment's own operations move its expiry.
A mutation expires rows first and inserts one afterwards, so each part is a predicate on
tables, and the proofs follow it through the table between the two. The number of a new
lease is one more than the largest of its collision key, hence `Newest`; it needs that
the sweep before it has ended every active lease of that key or the request is rejected. From
`IInv` follow `TypeCorrect`, `NoErrorReached`, `GenerationsNameLeases` and
`CallsignIsKept`; `OnlyHolderEnds` goes through the actions, and needs `Together` where
an expiry call of one table ends a row of the other.

*OAuth.* `FamilyInv` holds, besides the types, that rows are inserted in the order of
their ids and belong to a family whose root was inserted, that a token's code and its
predecessor are spent, that neither is shared, and `OneLiveToken`. Every step has one of
three forms: it leaves the rows but for their schedule and for tokens that end
(`Quiet`), inserts a root (`Opens`), or ends a live token and inserts its successor
(`Grows`); a lemma per action shows which. `SingleLiveToken` follows, and with it
`ReplaysEndFamilies`: revoking looks at the newest row only, which suffices because no other
can be live. `ClientsLeaveGrants` is the refinement `OAuthSpec => Spec`: clients change
nothing of codes and tokens. `ClientsStay` adds to the invariant that every reference has
its client's row: a sweep spares referenced clients, and an exchange or a rotation hands a
reference on. It needs that the code of a family's root is spent, so that no new code can
take its place. `UnusedClientsHaveCalls` adds the calls: a sweep leaves no client unused whose
deadline has come, and a call that is run or dropped named a deadline that no unused row has. `LineageBounded` needs more than its own statement, because a successor
is given the deadline of the token it replaces and rows of an earlier release disagree on theirs.
`LineageInv` says of a live token that its deadline is within its root's
expiry, or that the root disagrees with it and no clean-up call is owed to the family
(`Split`). In the second case rotation finds the disagreement and shuts the family down, and no
call exists that could first make the rows agree; pending calls are bounded likewise.

*Outbound mail.* `MailInv` says of each process what it may rely on of what it read
earlier (`Sound`): the thread of a projection seen once is the projection's still, and a message it
was told of is in the mailbox, carries its effect, and is on the thread it saw. With it
`LaneIsTrue`, `DeliveriesAreReal` and `ReceiptsAreFinal` hold for any number of processes,
contents and attempts, wherever processes stop. `NoResendUnlessOvertaken` has an
invariant of its own, `ResendInv`. While the publisher of an effect was not overtaken, the
effect is reserved, it is its content's latest attempt, and no other process works on
it (`PublishesAlone`); so nothing follows its message before its receipt is settled
(`OpenIsLast`), an effect that is failed has no message (`NotInMailbox`), and the last
message of the mailbox is of an unsettled effect or of the projection's content
(`LastStands`). A reservation of the last message's content therefore finds the lane taken
or the content current, and is answered as a replay: what is about to be sent differs
from the last message (`ReservedIsNew`).

## 5. Only model-checked, or not modelled

Liveness (`LapsedClaimReclaimed`, `LapsedReservationEnds`, `LostRunsAreAbandoned`,
`LapsedEnds`, `FamilyIsCleaned`) is beyond the prover and stays with
TLC: it needs fairness and ENABLED. So do the counterexamples of section 6, which are
single behaviours. That the specifications with fairness have the same safety
properties needs no proof of its own: they are conjunctions with the ones proved about.

The limit over all projects of `PickupWithinCapacity` is not reached in `runner_capacity`,
whose project limit is smaller; that clause rests on the theorem.

Left out of the models: `artifacts` rows and payload comparison of replays (a
replay with another payload throws, as any reuse does); scan limits of 100 rows in
`runnerRuns.ts`, of 100 expired codes (`mcpOAuth.ts`) or unused clients
(`mcpOAuthClientLifecycle.ts`) per sweep, and of 20 in `checkIndependence`; runner type and profile
matching; rows of the legacy `runs` table, which also refuse a dispatch;
continuation references on runs; browser login states and the registration wrapper of
OAuth; thread rows, mailbox addresses and the disposition of outbound mail. Other writers of items exist
(`continuations.ts`, `continuationSupervisor.ts`, `completionContinuations.ts`) and
are not composed yet. The repository keeps its own models of other
protocols (`formal/CancellationSettlement.tla`); they are not repeated here.

The models cover a small share of the repository. Most of its lines are the local
command-line tools, runner adapters, GitHub and mail surfaces, validators and the
dashboard, each a large amount of parsing and formatting around little shared state; the
modules here were chosen for the state that several actors and timers write.

## 6. Disagreements between documentation and code

1. `renewed_claim`: reconciling a lapsed run releases the item by the holder's name
   alone, also when the claimant has renewed the claim since; `docs/architecture.md`
   and `docs/convex-backend.md` say expiries are generation-guarded.
2. `finished_claim`: dispatch schedules no expiry call and `queuedRuns.finish` leaves
   the item alone, so a claim whose run was finished is cleaned up by nothing; the
   documentation says every creation schedules an expiry and expired claims return.
3. `mail_duplicate`: reconciling an effect that is still reserved marks it ambiguous and,
   when the mailbox has no message yet, failed. If its publisher was only slow, a second
   publish sends attempt N+1 and the first sends as well. `docs/hosted-gmail-outbound.md`
   calls the next attempt safe after a reservation and says duplicate invocations converge
   with zero duplicate mail. Crashes, lost answers and retries alone never cause a repeat: without such a
   reconcile there is none (`ResendOnlyIfOvertaken`, `NoResendUnlessOvertaken`). That
   holds of the model, where Gmail accepts a message in the step that sends it or never,
   and its search finds the message at once. A request still in flight when `fetch`
   throws, accepted only after a later reconcile found nothing, is not modelled and would
   repeat a message too.

Three observations without a run. The join recognises a live acceptance by the
generation it granted, which a renewal moves, so a renewed implementation claim no
longer keeps its candidate's review apart; `StandingPhasesApart` is stated for claims
not renewed. And the join's capacity scan reads two rows, so two lapsed claims that are not
cleaned up yet hide a live third. In `mail`, a publisher that read the projection before the
first delivery was settled opens a second Gmail thread; its settlement is then refused for its
ancestry, and the effect keeps the lane. `docs/hosted-gmail-outbound.md` says that a material change
after a successful send replies on the existing Gmail thread; no property is stated of this, and
`LaneNamesUnsettled` and `DeliveredIsInMailbox` hold throughout.

## 7. Plan

In this order; each step is a module, its run and, where the prover reaches, its
theorems.

1. Continuations: proposals, edits with generations, lazy expiry, the supervisor's
   job and the dispatch it makes, over the item rows of `ItemClaims`; abstractly, an
   approved proposal is dispatched at most once.
2. Usage reservations: reserve, settle and release of a metered window.
3. Repository writes: write lanes and receipts, beside outbound mail the other
   effect at an external provider.
4. Wake dispatch: callers of exact dispatch that revalidate their own facts.
5. Legacy runs beside queued runs; a liveness property of pickup (a run whose item was completed blocks
   the queue behind it).
6. Proofs beside the new modules. Of the existing ones, what a refinement could still add
   is an abstract statement of outbound mail (a thread on which each content is
   delivered at most once in a row) and of the refresh families.
