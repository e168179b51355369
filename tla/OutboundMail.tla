----------------------------- MODULE OutboundMail -----------------------------
(***************************************************************************)
(* Outbound mail of one canonical thread through one provider account: the *)
(* effects, lane and projection kept by convex/mailOutbound.ts, and the    *)
(* publish and reconcile procedures of src/mail-outbound-service.ts, which *)
(* read, reserve, send and settle in separate calls and may stop between   *)
(* any two of them.  The mailbox is Gmail's.                               *)
(***************************************************************************)
EXTENDS Naturals, Sequences

CONSTANTS
    Procs,       \* processes that publish or reconcile
    Contents,    \* contentFingerprint values
    MaxAttempt,  \* the code's limit on attempts of a content (64)
    None

ASSUME AttemptAssumption == MaxAttempt \in Nat \ {0}
ASSUME NoneAssumption == None \notin Nat /\ None \notin Contents

Attempts == 1..MaxAttempt

\* An effect is named by its content and attempt, as its digest is.
Effects == Contents \X Attempts
NoEffect == <<None, 0>>

Unsettled == {"reserved", "ambiguous"}
Delivered == {"sent", "reconciled"}

VARIABLES
    effects,    \* mailOutboundEffects: state and provider message of each
    lane,       \* mailOutboundDeliveryLanes: the row of this thread, or NoLane
    projection, \* mailOutboundProviderProjections: the row, or NoProjection
    recorded,   \* mailOutboundProviderMessages: <<message, effect>> rows
    mail,       \* external: the messages Gmail accepted, in order
    proc,       \* proc[p]: what a running publish or reconcile knows
    overtaken   \* history: effects reconciled while their publisher still ran

vars == <<effects, lane, projection, recorded, mail, proc, overtaken>>

NoLane == [effect |-> NoEffect, state |-> "none"]
NoProjection == [thread |-> 0, root |-> 0, latest |-> 0, content |-> None]
Idle == [pc |-> "idle", content |-> None, effect |-> NoEffect, seen |-> NoProjection,
         message |-> 0]

MessageIds == 1..Len(mail)

EffectRow == [state : {"none", "failed"} \cup Unsettled \cup Delivered, message : Nat]
LaneRow == [effect : Effects \cup {NoEffect}, state : {"none"} \cup Unsettled]
ProjectionRow == [thread : Nat, root : Nat, latest : Nat, content : Contents \cup {None}]
Mail == [effect : Effects, thread : Nat]
Proc == [pc : {"idle", "published", "reserved", "accepted", "unknown", "refused",
               "reservedSeen", "ambiguousSeen", "unmarked", "marked", "found", "missing"},
         content : Contents \cup {None}, effect : Effects \cup {NoEffect},
         seen : ProjectionRow, message : Nat]

Init ==
    /\ effects = [e \in Effects |-> [state |-> "none", message |-> 0]]
    /\ lane = NoLane
    /\ projection = NoProjection
    /\ recorded = {}
    /\ mail = << >>
    /\ proc = [p \in Procs |-> Idle]
    /\ overtaken = {}

-----------------------------------------------------------------------------
\* A process goes on, or stops with its answer.
Becomes(p, pc) == proc' = [proc EXCEPT ![p].pc = pc]
Ends(p) == proc' = [proc EXCEPT ![p] = Idle]

\* Mutant: a lane of an ambiguous effect does not block.
LaneFreeIfUncertain == lane.state # "reserved"

LaneFree == lane = NoLane

IsLatest(c, a) == /\ effects[<<c, a>>].state # "none"
                  /\ \A b \in Attempts : effects[<<c, b>>].state # "none" => b <= a

\* The attempt reserveEffect would insert for a content.
IsNext(c, a) == IF a = 1 THEN effects[<<c, 1>>].state = "none" ELSE IsLatest(c, a - 1)

\* Mutant: a delivery that a reconcile found does not count.
ReplayedIfSent(c) ==
    \E a \in Attempts : /\ IsLatest(c, a) /\ effects[<<c, a>>].state = "sent"
                        /\ projection.content = c

\* The last attempt was delivered and nothing else was sent since.
Replayed(c) ==
    \E a \in Attempts : /\ IsLatest(c, a) /\ effects[<<c, a>>].state \in Delivered
                        /\ projection.content = c

(* publish: the projection is read first. *)
Publish(p, c) ==
    /\ proc[p].pc = "idle"
    /\ proc' = [proc EXCEPT ![p] = [Idle EXCEPT !.pc = "published", !.content = c,
                                                !.seen = projection]]
    /\ UNCHANGED <<effects, lane, projection, recorded, mail, overtaken>>

(* publish: reserveEffect answers blocked, replay or, at the last attempt, *)
(* throws.                                                                 *)
ReserveRefused(p) ==
    LET c == proc[p].content
    IN  /\ proc[p].pc = "published"
        /\ \/ ~LaneFree
           \/ \E a \in Attempts : IsLatest(c, a) /\ effects[<<c, a>>].state \in Unsettled
           \/ Replayed(c)
           \/ IsLatest(c, MaxAttempt)
        /\ Ends(p)
        /\ UNCHANGED <<effects, lane, projection, recorded, mail, overtaken>>

(* publish: reserveEffect inserts the next attempt and the lane. *)
ReserveEffect(p) ==
    LET c == proc[p].content
    IN  /\ proc[p].pc = "published"
        /\ LaneFree
        /\ ~Replayed(c)
        /\ \E a \in Attempts :
            LET e == <<c, a>>
            IN  /\ IsNext(c, a)
                /\ a > 1 => effects[<<c, a - 1>>].state \notin Unsettled
                /\ effects' = [effects EXCEPT ![e].state = "reserved"]
                /\ lane' = [effect |-> e, state |-> "reserved"]
                /\ proc' = [proc EXCEPT ![p].pc = "reserved", ![p].effect = e]
        /\ UNCHANGED <<projection, recorded, mail, overtaken>>

(* publish: createThread, or replyThread on the thread read at the start.  *)
(* The answer arrives, is lost, or says the message was not taken; an      *)
(* error leaves open whether it was.                                       *)
Send(p) ==
    LET m == Len(mail) + 1
        thread == IF proc[p].seen = NoProjection THEN m ELSE proc[p].seen.thread
        accepted == mail' = Append(mail, [effect |-> proc[p].effect, thread |-> thread])
    IN  /\ proc[p].pc = "reserved"
        /\ \/ accepted /\ proc' = [proc EXCEPT ![p].pc = "accepted", ![p].message = m]
           \/ accepted /\ Becomes(p, "unknown")
           \/ UNCHANGED mail /\ Becomes(p, "unknown")
           \/ UNCHANGED mail /\ Becomes(p, "refused")
        /\ UNCHANGED <<effects, lane, projection, recorded, overtaken>>

-----------------------------------------------------------------------------
\* projectionFromSend, from the projection the process read.
ProjectionFrom(seen, m, c) ==
    IF seen = NoProjection
    THEN [thread |-> mail[m].thread, root |-> m, latest |-> m, content |-> c]
    ELSE [seen EXCEPT !.latest = m, !.content = c]

\* Mutant: any projection may be replaced.
SameAncestryAlways(next) == TRUE

\* upsertProjection accepts it.
SameAncestry(next) ==
    projection = NoProjection \/ (next.thread = projection.thread /\ next.root = projection.root)

\* recordProviderMessage accepts the pair.
Recordable(m, e) == \A r \in recorded : r[1] = m <=> r[2] = e

\* Mutant: an effect may be settled again while its lane is there or gone.
SettleableAgain(e) == effects[e].state # "none"

\* settleEffect finds no receipt, or an ambiguous one, and the effect's lane.
Settleable(e) == effects[e].state \in Unsettled /\ lane.effect = e

\* settleEffect with a receipt that says the message was delivered.
SettleDelivered(e, result, m, next) ==
    /\ Settleable(e) /\ SameAncestry(next) /\ Recordable(m, e)
    /\ effects' = [effects EXCEPT ![e] = [state |-> result, message |-> m]]
    /\ projection' = next
    /\ recorded' = recorded \cup {<<m, e>>}
    /\ lane' = NoLane

\* settleEffect with an ambiguous or a failed receipt.
SettleOpen(e, result) ==
    /\ Settleable(e)
    /\ effects' = [effects EXCEPT ![e].state = result]
    /\ lane' = IF result = "ambiguous" THEN [lane EXCEPT !.state = result] ELSE NoLane
    /\ UNCHANGED <<projection, recorded>>

(* publish: the receipt of the send is stored. *)
SettlePublished(p) ==
    LET e == proc[p].effect
    IN  /\ \/ /\ proc[p].pc = "accepted"
              /\ SettleDelivered(e, "sent", proc[p].message,
                                 ProjectionFrom(proc[p].seen, proc[p].message, e[1]))
           \/ proc[p].pc = "unknown" /\ SettleOpen(e, "ambiguous")
           \/ proc[p].pc = "refused" /\ SettleOpen(e, "failed")
        /\ Ends(p)
        /\ UNCHANGED <<mail, overtaken>>

(* A process stops: it crashed, one of its calls failed, or settleEffect   *)
(* threw.  What it wrote stays.                                            *)
Stop(p) ==
    /\ proc[p].pc # "idle"
    /\ Ends(p)
    /\ UNCHANGED <<effects, lane, projection, recorded, mail, overtaken>>

-----------------------------------------------------------------------------
\* Publishers that reserved an effect and have not stored its receipt.
Publishing(e) == {p \in Procs : /\ proc[p].effect = e
                                /\ proc[p].pc \in {"reserved", "accepted", "unknown", "refused"}}

(* reconcile: the effect is read; a settled one is answered at once. *)
Reconcile(p, e) ==
    /\ proc[p].pc = "idle"
    /\ effects[e].state \in Unsettled
    /\ proc' = [proc EXCEPT ![p] = [Idle EXCEPT !.effect = e, !.pc =
                    IF effects[e].state = "reserved" THEN "reservedSeen" ELSE "ambiguousSeen"]]
    /\ overtaken' = IF Publishing(e) = {} THEN overtaken ELSE overtaken \cup {e}
    /\ UNCHANGED <<effects, lane, projection, recorded, mail>>

(* reconcile: the projection is read. *)
ReadProjection(p) ==
    /\ proc[p].pc \in {"reservedSeen", "ambiguousSeen"}
    /\ proc' = [proc EXCEPT ![p].seen = projection, ![p].pc =
                    IF proc[p].pc = "reservedSeen" THEN "unmarked" ELSE "marked"]
    /\ UNCHANGED <<effects, lane, projection, recorded, mail, overtaken>>

(* reconcile: an effect seen as reserved is settled as ambiguous first. *)
MarkAmbiguous(p) ==
    /\ proc[p].pc = "unmarked"
    /\ SettleOpen(proc[p].effect, "ambiguous")
    /\ Becomes(p, "marked")
    /\ UNCHANGED <<mail, overtaken>>

\* Mutant: a candidate is looked for by its content.
CandidatesByContent(e) == {m \in MessageIds : mail[m].effect[1] = e[1]}

Candidates(e) == {m \in MessageIds : mail[m].effect = e}

(* reconcile: getDeliveryProjection asks Gmail for the message; one on     *)
(* another thread than expected leaves the delivery pending.               *)
Lookup(p) ==
    LET found == Candidates(proc[p].effect)
        seen == proc[p].seen
    IN  /\ proc[p].pc = "marked"
        /\ \/ /\ found = {} /\ Becomes(p, "missing")
           \/ \E m \in found :
                /\ found = {m}
                /\ seen = NoProjection \/ mail[m].thread = seen.thread
                /\ proc' = [proc EXCEPT ![p].pc = "found", ![p].message = m]
        /\ UNCHANGED <<effects, lane, projection, recorded, mail, overtaken>>

(* reconcile: what the mailbox showed is stored. *)
SettleReconciled(p) ==
    LET e == proc[p].effect
    IN  /\ \/ /\ proc[p].pc = "found"
              /\ SettleDelivered(e, "reconciled", proc[p].message,
                                 ProjectionFrom(proc[p].seen, proc[p].message, e[1]))
           \/ proc[p].pc = "missing" /\ SettleOpen(e, "failed")
        /\ Ends(p)
        /\ UNCHANGED <<mail, overtaken>>

-----------------------------------------------------------------------------
Publishes(p) == \/ \E c \in Contents : Publish(p, c)
                \/ ReserveRefused(p)
                \/ ReserveEffect(p)
                \/ Send(p)
                \/ SettlePublished(p)

Reconciles(p) == \/ \E e \in Effects : Reconcile(p, e)
                 \/ ReadProjection(p)
                 \/ MarkAmbiguous(p)
                 \/ Lookup(p)
                 \/ SettleReconciled(p)

Next == \E p \in Procs : Publishes(p) \/ Reconciles(p) \/ Stop(p)

Spec == Init /\ [][Next]_vars

-----------------------------------------------------------------------------
TypeOK ==
    /\ effects \in [Effects -> EffectRow]
    /\ lane \in LaneRow
    /\ projection \in ProjectionRow
    /\ recorded \subseteq Nat \X Effects
    /\ mail \in Seq(Mail)
    /\ proc \in [Procs -> Proc]
    /\ overtaken \subseteq Effects

\* The lane is there exactly as long as one effect is unsettled, and names it
\* and its state: the thread has one delivery of uncertain outcome at most,
\* whichever process settles it, and the lane conflicts are never thrown.
LaneNamesUnsettled ==
    \A e \in Effects : \/ effects[e].state \in Unsettled
                             /\ lane = [effect |-> e, state |-> effects[e].state]
                       \/ effects[e].state \notin Unsettled /\ lane.effect # e

\* What is recorded as delivered is in the mailbox: the message carries the
\* effect and is on the thread of the projection, whose root and latest
\* message are recorded too.
DeliveredIsInMailbox ==
    /\ \A e \in Effects : effects[e].state \in Delivered =>
          /\ effects[e].message \in MessageIds
          /\ mail[effects[e].message].effect = e
          /\ mail[effects[e].message].thread = projection.thread
          /\ <<effects[e].message, e>> \in recorded
    /\ projection # NoProjection =>
          \A m \in {projection.root, projection.latest} :
              \E e \in Effects : effects[e].state \in Delivered /\ effects[e].message = m

\* A receipt that says what became of a message is never replaced, and the
\* provider thread, once known, stays.
SettledIsFinal ==
    [][/\ \A e \in Effects : effects[e].state \in Delivered \cup {"failed"}
                             => effects'[e] = effects[e]
       /\ projection # NoProjection => /\ projection'.thread = projection.thread
                                       /\ projection'.root = projection.root]_vars

Repeated(m) == m > 1 /\ mail[m].effect[1] = mail[m - 1].effect[1]

\* Crashes at any point, lost answers and retries never make Gmail send a
\* content twice in a row, as long as no reconcile overtakes the publisher.
ResendOnlyIfOvertaken ==
    \A m \in MessageIds : Repeated(m) =>
        mail[m].effect \in overtaken \/ mail[m - 1].effect \in overtaken

-----------------------------------------------------------------------------
(* A statement of docs/hosted-gmail-outbound.md that the code does not meet. *)

\* Duplicate invocations converge with zero duplicate mail.
ZeroDuplicateMail == \A m \in MessageIds : ~Repeated(m)
=============================================================================
