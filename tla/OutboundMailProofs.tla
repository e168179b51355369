-------------------------- MODULE OutboundMailProofs --------------------------
(***************************************************************************)
(* Proofs about outbound mail: whichever process stops where, the lane     *)
(* names the one unsettled effect, a receipt is final, and what is         *)
(* recorded as delivered is in the mailbox.                                *)
(*                                                                         *)
(* The invariant says of every process what it may still rely on of what   *)
(* it read or was told earlier (Sound).                                    *)
(***************************************************************************)
EXTENDS OutboundMail, TLAPS

\* What process state r knows holds of the projection and the mailbox.
Sound(r, proj, box) ==
    /\ r \in Proc
    /\ r.pc = "published" => r.content \in Contents
    /\ r.pc \notin {"idle", "published"} => r.effect \in Effects
    /\ r.seen # NoProjection => /\ proj # NoProjection
                                /\ r.seen.thread = proj.thread
                                /\ r.seen.root = proj.root
    /\ r.pc \in {"accepted", "found"} =>
          /\ r.message \in 1..Len(box)
          /\ box[r.message].effect = r.effect
          /\ r.seen # NoProjection => box[r.message].thread = r.seen.thread

Tables ==
    /\ effects \in [Effects -> EffectRow]
    /\ lane \in LaneRow
    /\ projection \in ProjectionRow
    /\ recorded \subseteq Nat \X Effects
    /\ mail \in Seq(Mail)
    /\ overtaken \subseteq Effects

ProcsSound ==
    /\ proc \in [Procs -> Proc]
    /\ \A p \in Procs : Sound(proc[p], projection, mail)

DeliveredIsProjected ==
    \A e \in Effects : effects[e].state \in Delivered => projection # NoProjection

MailInv ==
    /\ Tables /\ ProcsSound
    /\ LaneNamesUnsettled
    /\ DeliveredIsProjected /\ DeliveredIsInMailbox

\* The thread of the projection stays, and the mailbox only grows.
Grows ==
    /\ mail' = mail \/ \E x \in Mail : mail' = Append(mail, x)
    /\ projection # NoProjection => /\ projection' # NoProjection
                                    /\ projection'.thread = projection.thread
                                    /\ projection'.root = projection.root

EffectsKept == \A e \in Effects : effects[e].state \in Delivered \cup {"failed"}
                                  => effects'[e] = effects[e]

LEMMA NoEffectIsNone == NoEffect \notin Effects
BY NoneAssumption DEF NoEffect, Effects, Attempts

LEMMA MailGrows ==
    ASSUME mail \in Seq(Mail), Grows
    PROVE  /\ mail' \in Seq(Mail)
           /\ \A m \in 1..Len(mail) : m \in 1..Len(mail') /\ mail'[m] = mail[m]
BY DEF Grows

LEMMA SoundStays ==
    ASSUME mail \in Seq(Mail), Grows, NEW r, Sound(r, projection, mail)
    PROVE  Sound(r, projection', mail')
<1>1. \A m \in 1..Len(mail) : m \in 1..Len(mail') /\ mail'[m] = mail[m]
  BY MailGrows
<1>2. projection # NoProjection => /\ projection' # NoProjection
                                   /\ projection'.thread = projection.thread
                                   /\ projection'.root = projection.root
  BY DEF Grows
<1> QED  BY <1>1, <1>2 DEF Sound

LEMMA IdleIsSound ==
    ASSUME NEW proj, NEW box
    PROVE  Sound(Idle, proj, box)
<1>1. Idle \in Proc
  BY DEF Idle, Proc, NoProjection, ProjectionRow
<1> QED  BY <1>1 DEF Sound, Idle

\* A step that moves one process and keeps what the others know.
LEMMA ProcStep ==
    ASSUME MailInv, Grows, NEW p \in Procs, NEW r, Sound(r, projection', mail'),
           proc' = [proc EXCEPT ![p] = r]
    PROVE  ProcsSound'
<1>1. r \in Proc /\ proc \in [Procs -> Proc] /\ mail \in Seq(Mail)
  BY DEF Sound, MailInv, ProcsSound, Tables
<1>2. \A q \in Procs : Sound(proc[q], projection', mail')
  BY <1>1, SoundStays DEF MailInv, ProcsSound
<1> QED  BY <1>1, <1>2 DEF ProcsSound

\* A step that leaves the tables alone but for the mailbox.
LEMMA TablesStay ==
    ASSUME MailInv, Grows, UNCHANGED <<effects, lane, projection, recorded>>,
           overtaken' \subseteq Effects, ProcsSound'
    PROVE  MailInv' /\ EffectsKept
<1>1. /\ Tables /\ LaneNamesUnsettled /\ DeliveredIsProjected /\ DeliveredIsInMailbox
  BY DEF MailInv
<1>2. /\ mail' \in Seq(Mail)
      /\ \A m \in 1..Len(mail) : m \in 1..Len(mail') /\ mail'[m] = mail[m]
  BY <1>1, MailGrows DEF Tables
<1>3. Tables' /\ LaneNamesUnsettled' /\ DeliveredIsProjected' /\ EffectsKept
  BY <1>1, <1>2 DEF Tables, LaneNamesUnsettled, DeliveredIsProjected, EffectsKept
<1>4. DeliveredIsInMailbox'
  BY <1>1, <1>2 DEF DeliveredIsInMailbox, MessageIds
<1> QED  BY <1>3, <1>4 DEF MailInv

-----------------------------------------------------------------------------
(* settleEffect and reserveEffect. *)

LEMMA OneRow ==
    ASSUME Tables, NEW e \in Effects, NEW row \in EffectRow,
           effects' = [effects EXCEPT ![e] = row]
    PROVE  /\ effects' \in [Effects -> EffectRow] /\ effects'[e] = row
           /\ \A d \in Effects \ {e} : effects'[d] = effects[d]
BY DEF Tables

\* A step that changes one row which is not yet settled, and not to delivered.
LEMMA OpenStep ==
    ASSUME MailInv, NEW e \in Effects, NEW st \in {"reserved", "ambiguous", "failed"},
           effects[e].state \in Unsettled \cup {"none"},
           effects' = [effects EXCEPT ![e].state = st],
           lane' = IF st \in Unsettled THEN [effect |-> e, state |-> st] ELSE NoLane,
           \A d \in Effects \ {e} : effects[d].state \notin Unsettled,
           UNCHANGED <<projection, recorded, mail, overtaken>>, ProcsSound'
    PROVE  MailInv' /\ EffectsKept
<1> DEFINE row == [effects[e] EXCEPT !.state = st]
<1>1. Tables /\ LaneNamesUnsettled /\ DeliveredIsProjected /\ DeliveredIsInMailbox
  BY DEF MailInv
<1>2. effects[e] \in EffectRow
  BY <1>1 DEF Tables
<1>3. row \in EffectRow /\ row.state = st
  BY <1>2 DEF EffectRow, Unsettled, Delivered
<1>4. effects' = [effects EXCEPT ![e] = row]
  OBVIOUS
<1> HIDE DEF row
<1>5. /\ effects' \in [Effects -> EffectRow] /\ effects'[e] = row
      /\ \A d \in Effects \ {e} : effects'[d] = effects[d]
  BY <1>1, <1>3, <1>4, OneRow
<1>6. lane' \in LaneRow
  BY DEF LaneRow, NoLane, Unsettled
<1>7. Tables'
  BY <1>1, <1>5, <1>6 DEF Tables
<1>8. st \notin Delivered /\ effects[e].state \notin Delivered \cup {"failed"}
  BY DEF Delivered, Unsettled
<1>9. \A d \in Effects : effects'[d].state \in Delivered => d # e /\ effects'[d] = effects[d]
  BY <1>3, <1>5, <1>8
<1>10. EffectsKept
  BY <1>5, <1>8 DEF EffectsKept
<1>11. LaneNamesUnsettled'
  <2>1. \A d \in Effects \ {e} : effects'[d].state \notin Unsettled /\ lane'.effect # d
    BY <1>5, NoEffectIsNone DEF NoLane
  <2>2. st \in Unsettled => lane' = [effect |-> e, state |-> effects'[e].state]
    BY <1>3, <1>5
  <2>3. st \notin Unsettled => lane'.effect # e
    BY NoEffectIsNone DEF NoLane
  <2>4. effects'[e].state = st
    BY <1>3, <1>5
  <2>5. \/ effects'[e].state \in Unsettled /\ lane' = [effect |-> e, state |-> effects'[e].state]
        \/ effects'[e].state \notin Unsettled /\ lane'.effect # e
    BY <2>2, <2>3, <2>4
  <2> QED  BY <2>1, <2>5 DEF LaneNamesUnsettled
<1>12. DeliveredIsProjected'
  BY <1>1, <1>9 DEF DeliveredIsProjected
<1>13. DeliveredIsInMailbox'
  <2>1. \A d \in Effects : effects[d].state \in Delivered => effects'[d] = effects[d]
    BY <1>5, <1>8
  <2>2. projection' = projection /\ recorded' = recorded /\ mail' = mail
    OBVIOUS
  <2>3. \A d \in Effects : effects'[d].state \in Delivered =>
          /\ effects'[d].message \in 1..Len(mail)
          /\ mail[effects'[d].message].effect = d
          /\ mail[effects'[d].message].thread = projection.thread
          /\ <<effects'[d].message, d>> \in recorded
    BY <1>1, <1>9 DEF DeliveredIsInMailbox, MessageIds
  <2>4. projection # NoProjection =>
          \A m \in {projection.root, projection.latest} :
              \E d \in Effects : effects'[d].state \in Delivered /\ effects'[d].message = m
    <3> SUFFICES ASSUME projection # NoProjection, NEW m \in {projection.root, projection.latest}
                 PROVE  \E d \in Effects : effects'[d].state \in Delivered /\ effects'[d].message = m
      OBVIOUS
    <3>1. PICK d \in Effects : effects[d].state \in Delivered /\ effects[d].message = m
      BY <1>1 DEF DeliveredIsInMailbox
    <3> QED  BY <2>1, <3>1
  <2> QED  BY <2>2, <2>3, <2>4 DEF DeliveredIsInMailbox, MessageIds
<1> QED  BY <1>7, <1>10, <1>11, <1>12, <1>13 DEF MailInv

\* settleEffect finds the lane's effect, and no other effect is unsettled.
LEMMA OthersSettled ==
    ASSUME LaneNamesUnsettled, NEW e \in Effects, lane.effect = e
    PROVE  \A d \in Effects \ {e} : effects[d].state \notin Unsettled
BY DEF LaneNamesUnsettled

LEMMA SettleOpenStep ==
    ASSUME MailInv, NEW e \in Effects, NEW st \in {"ambiguous", "failed"}, SettleOpen(e, st),
           UNCHANGED <<mail, overtaken>>, ProcsSound'
    PROVE  MailInv' /\ EffectsKept
<1>1. effects[e].state \in Unsettled /\ lane.effect = e /\ lane \in LaneRow /\ LaneNamesUnsettled
  BY DEF SettleOpen, Settleable, MailInv, Tables
<1>2. \A d \in Effects \ {e} : effects[d].state \notin Unsettled
  BY <1>1, OthersSettled
<1>3. lane' = IF st \in Unsettled THEN [effect |-> e, state |-> st] ELSE NoLane
  BY <1>1 DEF SettleOpen, LaneRow, Unsettled
<1>4. effects' = [effects EXCEPT ![e].state = st] /\ UNCHANGED <<projection, recorded>>
  BY DEF SettleOpen
<1> QED  BY <1>1, <1>2, <1>3, <1>4, OpenStep

\* What ProjectionFrom makes of a message the process knows of.
LEMMA ProjectedMessage ==
    ASSUME MailInv, NEW p \in Procs, proc[p].pc \in {"accepted", "found"}
    PROVE  LET m == proc[p].message
               c == proc[p].effect[1]
               next == ProjectionFrom(proc[p].seen, m, c)
           IN  /\ proc[p].effect \in Effects /\ m \in MessageIds /\ m \in Nat \ {0}
               /\ mail[m].effect = proc[p].effect
               /\ next \in ProjectionRow /\ next # NoProjection
               /\ next.thread = mail[m].thread /\ next.latest = m
               /\ next.root = m \/ (projection # NoProjection /\ next.root = projection.root)
<1> DEFINE m == proc[p].message
           c == proc[p].effect[1]
           seen == proc[p].seen
<1>1. Sound(proc[p], projection, mail) /\ mail \in Seq(Mail)
  BY DEF MailInv, ProcsSound, Tables
<1>2. /\ proc[p].effect \in Effects /\ m \in 1..Len(mail) /\ mail[m].effect = proc[p].effect
      /\ seen # NoProjection => /\ mail[m].thread = seen.thread
                                /\ projection # NoProjection /\ seen.root = projection.root
  BY <1>1 DEF Sound
<1>3. seen \in ProjectionRow /\ c \in Contents
  BY <1>1, <1>2 DEF Sound, Proc, Effects
<1>4. mail[m] \in Mail
  BY <1>1, <1>2
<1>5. mail[m].thread \in Nat /\ m \in Nat \ {0}
  BY <1>1, <1>2, <1>4 DEF Mail
<1>6. CASE seen = NoProjection
  <2> DEFINE next == [thread |-> mail[m].thread, root |-> m, latest |-> m, content |-> c]
  <2>1. ProjectionFrom(seen, m, c) = next
    BY <1>6 DEF ProjectionFrom
  <2>2. next \in ProjectionRow
    BY <1>3, <1>5 DEF ProjectionRow
  <2>3. next.latest # NoProjection.latest
    BY <1>5 DEF NoProjection
  <2>4. next # NoProjection
    BY <2>3
  <2> QED  BY <1>2, <1>5, <2>1, <2>2, <2>4 DEF MessageIds
<1>7. CASE seen # NoProjection
  <2> DEFINE next == [seen EXCEPT !.latest = m, !.content = c]
  <2>1. ProjectionFrom(seen, m, c) = next
    BY <1>7 DEF ProjectionFrom
  <2>2. /\ next \in ProjectionRow /\ next.thread = seen.thread /\ next.root = seen.root
        /\ next.latest = m
    BY <1>3, <1>5 DEF ProjectionRow
  <2>3. next.latest # NoProjection.latest
    BY <1>5, <2>2 DEF NoProjection
  <2>4. next # NoProjection
    BY <2>3
  <2> HIDE DEF next
  <2> QED  BY <1>2, <1>5, <1>7, <2>1, <2>2, <2>4 DEF MessageIds
<1> QED  BY <1>6, <1>7

LEMMA DeliverStep ==
    ASSUME MailInv, NEW p \in Procs, proc[p].pc \in {"accepted", "found"}, NEW st \in Delivered,
           SettleDelivered(proc[p].effect, st, proc[p].message,
                           ProjectionFrom(proc[p].seen, proc[p].message, proc[p].effect[1])),
           Ends(p), UNCHANGED <<mail, overtaken>>
    PROVE  MailInv' /\ EffectsKept /\ Grows
<1> DEFINE e == proc[p].effect
           m == proc[p].message
           next == ProjectionFrom(proc[p].seen, m, e[1])
           row == [state |-> st, message |-> m]
<1>1. Tables /\ LaneNamesUnsettled /\ DeliveredIsProjected /\ DeliveredIsInMailbox
  BY DEF MailInv
<1>2. /\ e \in Effects /\ m \in MessageIds /\ m \in Nat \ {0} /\ mail[m].effect = e
      /\ next \in ProjectionRow /\ next # NoProjection
      /\ next.thread = mail[m].thread /\ next.latest = m
      /\ next.root = m \/ (projection # NoProjection /\ next.root = projection.root)
  BY ProjectedMessage
<1>3. /\ effects[e].state \in Unsettled /\ lane.effect = e
      /\ projection = NoProjection \/ (next.thread = projection.thread /\ next.root = projection.root)
      /\ effects' = [effects EXCEPT ![e] = row]
      /\ projection' = next /\ recorded' = recorded \cup {<<m, e>>} /\ lane' = NoLane
  BY DEF SettleDelivered, Settleable, SameAncestry
<1>4. row \in EffectRow /\ row.state = st /\ row.message = m
  BY <1>2 DEF EffectRow, Delivered
<1> HIDE DEF e, m, next, row
<1>5. /\ effects' \in [Effects -> EffectRow] /\ effects'[e] = row
      /\ \A d \in Effects \ {e} : effects'[d] = effects[d]
  BY <1>1, <1>2, <1>3, <1>4, OneRow
<1>6. \A d \in Effects \ {e} : effects[d].state \notin Unsettled
  BY <1>1, <1>2, <1>3, OthersSettled
<1>7. Grows
  BY <1>2, <1>3 DEF Grows
<1>8. lane' \in LaneRow
  BY <1>3 DEF LaneRow, NoLane
<1>9. Tables'
  BY <1>1, <1>2, <1>3, <1>5, <1>8 DEF Tables
<1>10. effects[e].state \notin Delivered \cup {"failed"} /\ st \notin Unsettled
  BY <1>3 DEF Delivered, Unsettled
<1>11. EffectsKept
  BY <1>5, <1>10 DEF EffectsKept
<1>12. ProcsSound'
  BY <1>7, ProcStep, IdleIsSound DEF Ends
<1>13. LaneNamesUnsettled'
  <2>1. \A d \in Effects : effects'[d].state \notin Unsettled
    BY <1>4, <1>5, <1>6, <1>10
  <2>2. \A d \in Effects : lane'.effect # d
    BY <1>3, NoEffectIsNone DEF NoLane
  <2> QED  BY <2>1, <2>2 DEF LaneNamesUnsettled
<1>14. DeliveredIsProjected'
  BY <1>2, <1>3 DEF DeliveredIsProjected
<1>15. DeliveredIsInMailbox'
  <2>1. ASSUME NEW d \in Effects, effects'[d].state \in Delivered
        PROVE  /\ effects'[d].message \in 1..Len(mail)
               /\ mail[effects'[d].message].effect = d
               /\ mail[effects'[d].message].thread = next.thread
               /\ <<effects'[d].message, d>> \in recorded'
    <3>1. CASE d = e
      BY <1>2, <1>3, <1>4, <1>5, <3>1 DEF MessageIds
    <3>2. CASE d # e
      <4>1. effects'[d] = effects[d] /\ projection # NoProjection
        BY <1>1, <1>5, <2>1, <3>2 DEF DeliveredIsProjected
      <4> QED  BY <1>1, <1>3, <2>1, <4>1 DEF DeliveredIsInMailbox, MessageIds
    <3> QED  BY <3>1, <3>2
  <2>2. \E d \in Effects : effects'[d].state \in Delivered /\ effects'[d].message = m
    BY <1>2, <1>4, <1>5
  <2>3. \E d \in Effects : effects'[d].state \in Delivered /\ effects'[d].message = next.root
    <3>1. CASE next.root = m  BY <2>2, <3>1
    <3>2. CASE projection # NoProjection /\ next.root = projection.root
      <4>1. PICK d \in Effects : effects[d].state \in Delivered /\ effects[d].message = next.root
        BY <1>1, <3>2 DEF DeliveredIsInMailbox
      <4>2. effects'[d] = effects[d]
        BY <1>5, <1>10, <4>1
      <4> QED  BY <4>1, <4>2
    <3> QED  BY <1>2, <3>1, <3>2
  <2> QED  BY <1>2, <1>3, <2>1, <2>2, <2>3 DEF DeliveredIsInMailbox, MessageIds
<1> QED  BY <1>7, <1>9, <1>11, <1>12, <1>13, <1>14, <1>15 DEF MailInv

-----------------------------------------------------------------------------
(* One lemma per step of a process. *)

LEMMA ReserveStep ==
    ASSUME MailInv, NEW p \in Procs, ReserveEffect(p)
    PROVE  MailInv' /\ EffectsKept /\ Grows
<1> DEFINE c == proc[p].content
<1>1. PICK a \in Attempts :
        /\ IsNext(c, a)
        /\ effects' = [effects EXCEPT ![<<c, a>>].state = "reserved"]
        /\ lane' = [effect |-> <<c, a>>, state |-> "reserved"]
        /\ proc' = [proc EXCEPT ![p].pc = "reserved", ![p].effect = <<c, a>>]
  BY DEF ReserveEffect
<1>2. /\ proc[p].pc = "published" /\ lane = NoLane /\ Sound(proc[p], projection, mail)
      /\ UNCHANGED <<projection, recorded, mail, overtaken>> /\ LaneNamesUnsettled
      /\ proc \in [Procs -> Proc]
  BY DEF ReserveEffect, LaneFree, MailInv, ProcsSound
<1> DEFINE e == <<c, a>>
           r == [proc[p] EXCEPT !.pc = "reserved", !.effect = e]
<1>3. c \in Contents /\ proc[p] \in Proc
  BY <1>2 DEF Sound
<1>4. e \in Effects
  BY <1>1, <1>3 DEF Effects
<1>5. effects[e].state = "none"
  <2>1. CASE a = 1
    BY <1>1, <2>1 DEF IsNext
  <2>2. CASE a # 1
    <3>1. \A b \in Attempts : effects[<<c, b>>].state # "none" => b <= a - 1
      BY <1>1, <2>2 DEF IsNext, IsLatest
    <3>2. a \in Nat
      BY <1>1, AttemptAssumption DEF Attempts
    <3> QED  BY <1>1, <3>1, <3>2
  <2> QED  BY <2>1, <2>2
<1>6. \A d \in Effects : effects[d].state \notin Unsettled
  BY <1>2, NoEffectIsNone DEF LaneNamesUnsettled, NoLane
<1>7. Grows
  BY <1>2 DEF Grows
<1>8. /\ r \in Proc /\ r.pc = "reserved" /\ r.effect = e /\ r.seen = proc[p].seen
  BY <1>3, <1>4 DEF Proc
<1>9. proc' = [proc EXCEPT ![p] = r]
  BY <1>1
<1> HIDE DEF r, e
<1>10. Sound(r, projection', mail')
  BY <1>2, <1>4, <1>8 DEF Sound
<1>11. ProcsSound'
  BY <1>7, <1>9, <1>10, ProcStep
<1>12. MailInv' /\ EffectsKept
  <2>1. /\ effects' = [effects EXCEPT ![e].state = "reserved"]
        /\ lane' = [effect |-> e, state |-> "reserved"]
    BY <1>1 DEF e
  <2> QED  BY <1>2, <1>4, <1>5, <1>6, <1>11, <2>1, OpenStep DEF Unsettled
<1> QED  BY <1>7, <1>12

\* A process moves on and no table changes.
LEMMA MoveStep ==
    ASSUME MailInv, NEW p \in Procs, NEW r, Sound(r, projection, mail),
           proc' = [proc EXCEPT ![p] = r],
           UNCHANGED <<effects, lane, projection, recorded, mail>>, overtaken' \subseteq Effects
    PROVE  MailInv' /\ EffectsKept /\ Grows
<1>1. Grows
  BY DEF Grows
<1>2. ProcsSound'
  BY <1>1, ProcStep
<1> QED  BY <1>1, <1>2, TablesStay

\* A process that goes on to a state in which it knows no message.
LEMMA MovedIsSound ==
    ASSUME NEW p \in Procs, NEW proj, NEW box, Sound(proc[p], proj, box),
           proc[p].pc \notin {"idle", "published"},
           NEW pc \in {"unknown", "refused", "marked", "unmarked", "missing"}
    PROVE  Sound([proc[p] EXCEPT !.pc = pc], proj, box)
<1> DEFINE r == [proc[p] EXCEPT !.pc = pc]
<1>1. proc[p] \in Proc /\ proc[p].effect \in Effects
  BY DEF Sound
<1>2. r \in Proc /\ r.pc = pc /\ r.effect = proc[p].effect /\ r.seen = proc[p].seen
  BY <1>1 DEF Proc
<1> HIDE DEF r
<1>3. Sound(r, proj, box)
  BY <1>1, <1>2 DEF Sound
<1> QED  BY <1>3 DEF r

LEMMA SendStep ==
    ASSUME MailInv, NEW p \in Procs, Send(p)
    PROVE  MailInv' /\ EffectsKept /\ Grows
<1> DEFINE m == Len(mail) + 1
           thread == IF proc[p].seen = NoProjection THEN m ELSE proc[p].seen.thread
           x == [effect |-> proc[p].effect, thread |-> thread]
           r == [proc[p] EXCEPT !.pc = "accepted", !.message = m]
<1>1. /\ proc[p].pc = "reserved" /\ UNCHANGED <<effects, lane, projection, recorded, overtaken>>
      /\ \/ mail' = Append(mail, x) /\ proc' = [proc EXCEPT ![p].pc = "accepted", ![p].message = m]
         \/ /\ mail' = Append(mail, x) \/ mail' = mail
            /\ Becomes(p, "unknown") \/ Becomes(p, "refused")
  BY DEF Send
<1>2. /\ Sound(proc[p], projection, mail) /\ mail \in Seq(Mail) /\ Len(mail) \in Nat
      /\ overtaken \subseteq Effects /\ proc \in [Procs -> Proc]
  BY DEF MailInv, ProcsSound, Tables
<1>3. proc[p] \in Proc /\ proc[p].effect \in Effects
  BY <1>1, <1>2 DEF Sound
<1>4. proc[p].seen \in ProjectionRow
  BY <1>3 DEF Proc
<1>5. thread \in Nat
  BY <1>2, <1>4 DEF ProjectionRow
<1>6. x \in Mail /\ x.effect = proc[p].effect /\ x.thread = thread
  BY <1>3, <1>5 DEF Mail
<1>7. /\ r \in Proc /\ r.pc = "accepted" /\ r.message = m /\ r.effect = proc[p].effect
      /\ r.seen = proc[p].seen
  <2>1. m \in Nat
    BY <1>2
  <2> HIDE DEF m
  <2> QED  BY <1>3, <2>1 DEF Proc
<1>8. r.seen # NoProjection => x.thread = r.seen.thread
  BY <1>6, <1>7
<1> HIDE DEF x, r, thread
<1>9. Grows
  <2>1. mail' = mail \/ mail' = Append(mail, x)
    BY <1>1
  <2>2. mail' = mail \/ \E y \in Mail : mail' = Append(mail, y)
    BY <1>6, <2>1
  <2>3. projection' = projection
    BY <1>1
  <2> QED  BY <2>2, <2>3 DEF Grows
<1>10. Sound(proc[p], projection', mail')
  BY <1>2, <1>9, SoundStays
<1>11. CASE mail' = Append(mail, x) /\ proc' = [proc EXCEPT ![p].pc = "accepted", ![p].message = m]
  <2>1. m \in 1..Len(mail') /\ mail'[m] = x
    BY <1>2, <1>6, <1>11
  <2>2. Sound(r, projection', mail')
    BY <1>3, <1>6, <1>7, <1>8, <1>10, <2>1 DEF Sound
  <2>3. proc' = [proc EXCEPT ![p] = r]
    BY <1>11 DEF r
  <2>4. ProcsSound'
    BY <1>9, <2>2, <2>3, ProcStep
  <2> QED  BY <1>1, <1>2, <1>9, <2>4, TablesStay
<1>12. CASE Becomes(p, "unknown") \/ Becomes(p, "refused")
  <2>1. PICK pc \in {"unknown", "refused"} : Becomes(p, pc)
    BY <1>12
  <2>2. Sound([proc[p] EXCEPT !.pc = pc], projection', mail')
    BY <1>1, <1>10, MovedIsSound
  <2>3. proc' = [proc EXCEPT ![p] = [proc[p] EXCEPT !.pc = pc]]
    BY <2>1 DEF Becomes
  <2>4. ProcsSound'
    BY <1>9, <2>2, <2>3, ProcStep
  <2> QED  BY <1>1, <1>2, <1>9, <2>4, TablesStay
<1> QED  BY <1>1, <1>11, <1>12

LEMMA PublishStep ==
    ASSUME MailInv, NEW p \in Procs, Publishes(p)
    PROVE  MailInv' /\ EffectsKept /\ Grows
<1>1. ASSUME NEW c \in Contents, Publish(p, c)
      PROVE  MailInv' /\ EffectsKept /\ Grows
  <2> DEFINE r == [Idle EXCEPT !.pc = "published", !.content = c, !.seen = projection]
  <2>1. projection \in ProjectionRow /\ overtaken \subseteq Effects
    BY DEF MailInv, Tables
  <2>2. Idle \in Proc
    BY IdleIsSound DEF Sound
  <2>3. r \in Proc /\ r.pc = "published" /\ r.content = c /\ r.seen = projection
    BY <2>1, <2>2 DEF Proc
  <2>4. proc' = [proc EXCEPT ![p] = r] /\ UNCHANGED <<effects, lane, projection, recorded, mail, overtaken>>
    BY <1>1 DEF Publish
  <2> HIDE DEF r
  <2>5. Sound(r, projection, mail)
    BY <2>3 DEF Sound
  <2> QED  BY <2>1, <2>4, <2>5, MoveStep
<1>2. CASE ReserveRefused(p)
  <2>1. overtaken \subseteq Effects
    BY DEF MailInv, Tables
  <2> QED  BY <1>2, <2>1, MoveStep, IdleIsSound DEF ReserveRefused, Ends
<1>3. CASE SettlePublished(p)
  <2>1. CASE /\ proc[p].pc = "accepted"
             /\ SettleDelivered(proc[p].effect, "sent", proc[p].message,
                    ProjectionFrom(proc[p].seen, proc[p].message, proc[p].effect[1]))
    BY <1>3, <2>1, DeliverStep DEF SettlePublished, Delivered
  <2>2. CASE /\ proc[p].pc \in {"unknown", "refused"}
             /\ \E st \in {"ambiguous", "failed"} : SettleOpen(proc[p].effect, st)
    <3>1. proc[p].effect \in Effects
      BY <2>2 DEF MailInv, ProcsSound, Sound
    <3>2. UNCHANGED <<projection, mail, overtaken>> /\ Ends(p)
      BY <1>3, <2>2 DEF SettlePublished, SettleOpen
    <3>3. Grows
      BY <3>2 DEF Grows
    <3>4. ProcsSound'
      BY <3>2, <3>3, ProcStep, IdleIsSound DEF Ends
    <3> QED  BY <2>2, <3>1, <3>2, <3>3, <3>4, SettleOpenStep
  <2> QED  BY <1>3, <2>1, <2>2 DEF SettlePublished
<1> QED  BY <1>1, <1>2, <1>3, ReserveStep, SendStep DEF Publishes

LEMMA ReconcileStep ==
    ASSUME MailInv, NEW p \in Procs, Reconciles(p)
    PROVE  MailInv' /\ EffectsKept /\ Grows
<1>0. /\ projection \in ProjectionRow /\ overtaken \subseteq Effects /\ mail \in Seq(Mail)
      /\ Sound(proc[p], projection, mail) /\ proc[p] \in Proc
  BY DEF MailInv, Tables, ProcsSound
<1>1. ASSUME NEW e \in Effects, Reconcile(p, e)
      PROVE  MailInv' /\ EffectsKept /\ Grows
  <2> DEFINE pc == IF effects[e].state = "reserved" THEN "reservedSeen" ELSE "ambiguousSeen"
             r == [Idle EXCEPT !.effect = e, !.pc = pc]
  <2>1. Idle \in Proc /\ Idle.seen = NoProjection
    BY IdleIsSound DEF Sound, Idle
  <2>2. pc \in {"reservedSeen", "ambiguousSeen"}
    OBVIOUS
  <2>3. /\ proc' = [proc EXCEPT ![p] = r] /\ UNCHANGED <<effects, lane, projection, recorded, mail>>
        /\ overtaken' \subseteq Effects
    BY <1>0, <1>1 DEF Reconcile
  <2> HIDE DEF pc
  <2>4. r \in Proc /\ r.pc = pc /\ r.effect = e /\ r.seen = NoProjection
    BY <2>1, <2>2 DEF Proc
  <2> HIDE DEF r
  <2>5. Sound(r, projection, mail)
    BY <2>2, <2>4 DEF Sound
  <2> QED  BY <2>3, <2>5, MoveStep
<1>2. CASE ReadProjection(p)
  <2> DEFINE pc == IF proc[p].pc = "reservedSeen" THEN "unmarked" ELSE "marked"
             r == [proc[p] EXCEPT !.seen = projection, !.pc = pc]
  <2>1. pc \in {"unmarked", "marked"} /\ proc[p].effect \in Effects
    BY <1>0, <1>2 DEF ReadProjection, Sound
  <2>2. /\ proc' = [proc EXCEPT ![p] = r]
        /\ UNCHANGED <<effects, lane, projection, recorded, mail, overtaken>>
    BY <1>2 DEF ReadProjection
  <2> HIDE DEF pc
  <2>3. r \in Proc /\ r.pc = pc /\ r.effect = proc[p].effect /\ r.seen = projection
    BY <1>0, <2>1 DEF Proc
  <2> HIDE DEF r
  <2>4. Sound(r, projection, mail)
    BY <2>1, <2>3 DEF Sound
  <2> QED  BY <1>0, <2>2, <2>4, MoveStep
<1>3. CASE MarkAmbiguous(p)
  <2>1. /\ proc[p].pc = "unmarked" /\ SettleOpen(proc[p].effect, "ambiguous")
        /\ UNCHANGED <<projection, mail, overtaken>>
        /\ proc' = [proc EXCEPT ![p] = [proc[p] EXCEPT !.pc = "marked"]]
    BY <1>3 DEF MarkAmbiguous, SettleOpen, Becomes
  <2>2. proc[p].effect \in Effects
    BY <1>0, <2>1 DEF Sound
  <2>3. Sound([proc[p] EXCEPT !.pc = "marked"], projection', mail')
    BY <1>0, <2>1, MovedIsSound
  <2>4. Grows
    BY <2>1 DEF Grows
  <2>5. ProcsSound'
    BY <2>1, <2>3, <2>4, ProcStep
  <2> QED  BY <2>1, <2>2, <2>4, <2>5, SettleOpenStep
<1>4. CASE Lookup(p)
  <2>1. proc[p].pc = "marked" /\ UNCHANGED <<effects, lane, projection, recorded, mail, overtaken>>
    BY <1>4 DEF Lookup
  <2>2. CASE Becomes(p, "missing")
    <3>1. proc' = [proc EXCEPT ![p] = [proc[p] EXCEPT !.pc = "missing"]]
      BY <2>2 DEF Becomes
    <3>2. Sound([proc[p] EXCEPT !.pc = "missing"], projection, mail)
      BY <1>0, <2>1, MovedIsSound
    <3> QED  BY <1>0, <2>1, <3>1, <3>2, MoveStep
  <2>3. CASE \E m \in Candidates(proc[p].effect) :
                /\ proc[p].seen = NoProjection \/ mail[m].thread = proc[p].seen.thread
                /\ proc' = [proc EXCEPT ![p].pc = "found", ![p].message = m]
    <3>1. PICK m \in Candidates(proc[p].effect) :
                /\ proc[p].seen = NoProjection \/ mail[m].thread = proc[p].seen.thread
                /\ proc' = [proc EXCEPT ![p].pc = "found", ![p].message = m]
      BY <2>3
    <3>2. m \in 1..Len(mail) /\ m \in Nat /\ mail[m].effect = proc[p].effect
      BY <1>0 DEF Candidates, MessageIds
    <3> DEFINE r == [proc[p] EXCEPT !.pc = "found", !.message = m]
    <3>3. /\ r \in Proc /\ r.pc = "found" /\ r.message = m /\ r.effect = proc[p].effect
          /\ r.seen = proc[p].seen
      BY <1>0, <3>2 DEF Proc
    <3>4. proc' = [proc EXCEPT ![p] = r]
      BY <3>1
    <3> HIDE DEF r
    <3>5. Sound(r, projection, mail)
      BY <1>0, <2>1, <3>1, <3>2, <3>3 DEF Sound
    <3> QED  BY <1>0, <2>1, <3>4, <3>5, MoveStep
  <2> QED  BY <1>4, <2>2, <2>3 DEF Lookup
<1>5. CASE SettleReconciled(p)
  <2>1. CASE /\ proc[p].pc = "found"
             /\ SettleDelivered(proc[p].effect, "reconciled", proc[p].message,
                    ProjectionFrom(proc[p].seen, proc[p].message, proc[p].effect[1]))
    BY <1>5, <2>1, DeliverStep DEF SettleReconciled, Delivered
  <2>2. CASE proc[p].pc = "missing" /\ SettleOpen(proc[p].effect, "failed")
    <3>1. proc[p].effect \in Effects
      BY <1>0, <2>2 DEF Sound
    <3>2. UNCHANGED <<projection, mail, overtaken>> /\ Ends(p)
      BY <1>5, <2>2 DEF SettleReconciled, SettleOpen
    <3>3. Grows
      BY <3>2 DEF Grows
    <3>4. ProcsSound'
      BY <3>2, <3>3, ProcStep, IdleIsSound DEF Ends
    <3> QED  BY <2>2, <3>1, <3>2, <3>3, <3>4, SettleOpenStep
  <2> QED  BY <1>5, <2>1, <2>2 DEF SettleReconciled
<1> QED  BY <1>1, <1>2, <1>3, <1>4, <1>5 DEF Reconciles

LEMMA StepKeeps ==
    ASSUME MailInv, [Next]_vars
    PROVE  MailInv' /\ EffectsKept /\ Grows
<1>1. ASSUME NEW p \in Procs, Stop(p)
      PROVE  MailInv' /\ EffectsKept /\ Grows
  <2>1. overtaken \subseteq Effects
    BY DEF MailInv, Tables
  <2> QED  BY <1>1, <2>1, MoveStep, IdleIsSound DEF Stop, Ends
<1>2. CASE UNCHANGED vars
  BY <1>2 DEF vars, MailInv, Tables, ProcsSound, LaneNamesUnsettled, DeliveredIsProjected,
              DeliveredIsInMailbox, MessageIds, EffectsKept, Grows
<1> QED  BY <1>1, <1>2, PublishStep, ReconcileStep DEF Next

LEMMA InitKeeps == Init => MailInv
<1> SUFFICES ASSUME Init PROVE MailInv
  OBVIOUS
<1> DEFINE row == [state |-> "none", message |-> 0]
<1>1. row \in EffectRow /\ row.state \notin Unsettled /\ row.state \notin Delivered
  BY DEF EffectRow, Unsettled, Delivered
<1>2. effects = [e \in Effects |-> row]
  BY DEF Init
<1> HIDE DEF row
<1>3. Tables
  <2>1. NoLane \in LaneRow /\ NoProjection \in ProjectionRow
    BY DEF NoLane, LaneRow, NoProjection, ProjectionRow
  <2>2. << >> \in Seq(Mail)
    OBVIOUS
  <2> QED  BY <1>1, <1>2, <2>1, <2>2 DEF Init, Tables
<1>4. ProcsSound
  <2>1. Sound(Idle, projection, mail) /\ Idle \in Proc
    BY IdleIsSound DEF Sound
  <2> QED  BY <2>1 DEF Init, ProcsSound
<1>5. LaneNamesUnsettled
  BY <1>1, <1>2, NoEffectIsNone DEF Init, LaneNamesUnsettled, NoLane
<1>6. DeliveredIsProjected /\ DeliveredIsInMailbox
  BY <1>1, <1>2 DEF Init, DeliveredIsProjected, DeliveredIsInMailbox
<1> QED  BY <1>3, <1>4, <1>5, <1>6 DEF MailInv

LEMMA MailInvariance == Spec => []MailInv
BY InitKeeps, StepKeeps, PTL DEF Spec

\* The lane of a thread names its one unsettled effect, and is gone when there
\* is none, whichever of several publishers and reconcilers settles it.
THEOREM LaneIsTrue == Spec => []LaneNamesUnsettled
<1>1. MailInv => LaneNamesUnsettled
  BY DEF MailInv
<1> QED  BY <1>1, MailInvariance, PTL

\* What the ledger says was delivered is in the mailbox, under its own effect
\* and on the thread of the projection.
THEOREM DeliveriesAreReal == Spec => []DeliveredIsInMailbox
<1>1. MailInv => DeliveredIsInMailbox
  BY DEF MailInv
<1> QED  BY <1>1, MailInvariance, PTL

\* A final receipt is never replaced, nor is the provider thread once known.
THEOREM ReceiptsAreFinal == Spec => SettledIsFinal
<1>1. MailInv /\ [Next]_vars =>
        [/\ \A e \in Effects : effects[e].state \in Delivered \cup {"failed"}
                               => effects'[e] = effects[e]
         /\ projection # NoProjection => /\ projection'.thread = projection.thread
                                         /\ projection'.root = projection.root]_vars
  BY StepKeeps DEF EffectsKept, Grows
<1> QED  BY <1>1, MailInvariance, PTL DEF Spec, SettledIsFinal

-----------------------------------------------------------------------------
(* Nothing is sent twice in a row unless a reconcile overtakes a publisher. *)
(* An effect nobody overtook is the lane's and its content's latest as long *)
(* as its publisher runs, so its message comes before any later effect is   *)
(* reserved, and a reserve that finds the last message's content current    *)
(* answers replay.                                                          *)

Publishers == {"reserved", "accepted", "unknown", "refused"}

\* No later attempt of the effect's content was reserved.
Latest(rows, e) == \A d \in Effects : d[1] = e[1] /\ rows[d].state # "none" => d[2] <= e[2]

Unsent(box, e) == \A m \in 1..Len(box) : box[m].effect # e

\* Who knows an effect, and what is in the mailbox, was reserved once; so was the
\* first attempt of a later one's content.
Reserved ==
    /\ \A e \in Effects : effects[e].state # "none" => effects[<<e[1], 1>>].state # "none"
    /\ \A p \in Procs : proc[p].effect \in Effects => effects[proc[p].effect].state # "none"
    /\ \A m \in MessageIds : effects[mail[m].effect].state # "none"

\* While the publisher of an effect runs alone, the effect waits for its receipt.
PublishesAlone ==
    \A p \in Procs : proc[p].pc \in Publishers /\ proc[p].effect \notin overtaken =>
        /\ effects[proc[p].effect].state = "reserved" /\ Latest(effects, proc[p].effect)
        /\ \A q \in Procs \ {p} : proc[q].effect # proc[p].effect

\* What is not sent yet, was refused or could not be found is not in the mailbox.
NotInMailbox ==
    /\ \A p \in Procs : /\ proc[p].pc \in {"reserved", "refused", "missing"}
                        /\ proc[p].effect \notin overtaken
                        => Unsent(mail, proc[p].effect)
    /\ \A e \in Effects : effects[e].state = "failed" /\ e \notin overtaken => Unsent(mail, e)

\* No later effect's message follows one whose outcome is open.
OpenIsLast ==
    \A m, n \in MessageIds : m < n /\ effects[mail[m].effect].state \in Unsettled
                             => mail[n].effect \in overtaken

\* The last message is the latest attempt of its content, and the projection's
\* content once it is recorded.
LastStands ==
    LET e == mail[Len(mail)].effect
    IN  mail # << >> /\ e \notin overtaken =>
            /\ Latest(effects, e)
            /\ \/ effects[e].state \in Unsettled
               \/ effects[e].state \in Delivered /\ projection.content = e[1]

\* What is about to be sent differs from the last message.
ReservedIsNew ==
    LET e == mail[Len(mail)].effect
    IN  mail # << >> /\ e \notin overtaken =>
            \A p \in Procs : proc[p].pc = "reserved" /\ proc[p].effect \notin overtaken
                             => proc[p].effect[1] # e[1]

ResendInv ==
    /\ Reserved /\ PublishesAlone /\ NotInMailbox /\ OpenIsLast /\ LastStands /\ ReservedIsNew
    /\ ResendOnlyIfOvertaken

LEMMA OneUnsettled ==
    ASSUME MailInv, NEW d \in Effects, NEW e \in Effects,
           effects[d].state \in Unsettled, effects[e].state \in Unsettled
    PROVE  d = e
BY DEF MailInv, LaneNamesUnsettled

LEMMA SettledIsNotUnsettled ==
    ASSUME NEW st
    PROVE  /\ st \in Unsettled => st \notin Delivered \cup {"failed", "none"}
           /\ st \in Delivered => st \notin {"failed", "none"}
BY DEF Unsettled, Delivered

\* What the invariant of the tables says of messages and processes.
LEMMA KnownEffects ==
    ASSUME MailInv
    PROVE  /\ \A m \in MessageIds : mail[m] \in Mail /\ mail[m].effect \in Effects
           /\ Len(mail) \in Nat /\ (mail # << >> => Len(mail) \in MessageIds)
           /\ proc \in [Procs -> Proc]
           /\ \A p \in Procs : proc[p].pc \notin {"idle", "published"} => proc[p].effect \in Effects
<1>1. mail \in Seq(Mail) /\ ProcsSound
  BY DEF MailInv, Tables
<1>2. \A m \in MessageIds : mail[m] \in Mail
  BY <1>1 DEF MessageIds
<1>3. Len(mail) \in Nat /\ (mail # << >> => Len(mail) \in MessageIds)
  BY <1>1 DEF MessageIds
<1> QED  BY <1>1, <1>2, <1>3 DEF Mail, ProcsSound, Sound

\* A process moves on: nothing is reserved, sent or settled.
LEMMA MoveKeeps ==
    ASSUME MailInv, ResendInv, NEW p \in Procs, NEW r,
           proc' = [proc EXCEPT ![p] = r], UNCHANGED <<effects, projection, mail>>,
           overtaken \subseteq overtaken',
           r.effect \in Effects => effects[r.effect].state # "none",
           r.pc # "reserved",
           r.pc \in Publishers => proc[p].pc \in Publishers /\ r.effect = proc[p].effect,
           r.effect # proc[p].effect /\ r.effect \in Effects =>
               Publishing(r.effect) = {} \/ r.effect \in overtaken',
           r.pc \in {"refused", "missing"} /\ r.effect \notin overtaken'
               => Unsent(mail, r.effect)
    PROVE  ResendInv'
<1>1. /\ proc'[p] = r /\ \A q \in Procs \ {p} : proc'[q] = proc[q]
      /\ \A q \in Procs : proc[q].pc \in Publishers => proc[q].effect \in Effects
  BY KnownEffects DEF Publishers
<1>2. Reserved'
  BY <1>1 DEF ResendInv, Reserved, MessageIds
<1>3. PublishesAlone'
  <2> SUFFICES ASSUME NEW q \in Procs, proc'[q].pc \in Publishers, proc'[q].effect \notin overtaken'
               PROVE  /\ effects[proc'[q].effect].state = "reserved" /\ Latest(effects', proc'[q].effect)
                      /\ \A s \in Procs \ {q} : proc'[s].effect # proc'[q].effect
    BY DEF PublishesAlone
  <2>1. proc[q].pc \in Publishers /\ proc'[q].effect = proc[q].effect
    BY <1>1
  <2>2. /\ effects[proc[q].effect].state = "reserved" /\ Latest(effects, proc[q].effect)
        /\ \A s \in Procs \ {q} : proc[s].effect # proc[q].effect
    BY <2>1 DEF ResendInv, PublishesAlone
  <2>3. q \in Publishing(proc[q].effect) /\ proc[q].effect \in Effects
    BY <1>1, <2>1 DEF Publishing, Publishers
  <2>4. \A s \in Procs \ {q} : proc'[s].effect # proc[q].effect
    BY <1>1, <2>1, <2>2, <2>3
  <2> QED  BY <2>1, <2>2, <2>4 DEF Latest
<1>4. NotInMailbox'
  BY <1>1 DEF ResendInv, NotInMailbox
<1>5. OpenIsLast' /\ ResendOnlyIfOvertaken'
  BY DEF ResendInv, OpenIsLast, ResendOnlyIfOvertaken, Repeated, MessageIds
<1>6. LastStands'
  BY DEF ResendInv, LastStands, Latest
<1>7. ReservedIsNew'
  BY <1>1 DEF ResendInv, ReservedIsNew
<1> QED  BY <1>2, <1>3, <1>4, <1>5, <1>6, <1>7 DEF ResendInv

\* reserveEffect: the lane is free, so the last message's effect is settled, and
\* were it of this content, the reserve would have answered replay.
LEMMA ReserveKeeps ==
    ASSUME MailInv, ResendInv, NEW p \in Procs, ReserveEffect(p)
    PROVE  ResendInv'
<1> DEFINE c == proc[p].content
<1>1. PICK a \in Attempts :
        /\ IsNext(c, a)
        /\ effects' = [effects EXCEPT ![<<c, a>>].state = "reserved"]
        /\ proc' = [proc EXCEPT ![p].pc = "reserved", ![p].effect = <<c, a>>]
  BY DEF ReserveEffect
<1>2. /\ proc[p].pc = "published" /\ lane = NoLane /\ Sound(proc[p], projection, mail)
      /\ ~Replayed(c) /\ UNCHANGED <<projection, mail, overtaken>> /\ LaneNamesUnsettled
      /\ proc \in [Procs -> Proc] /\ effects \in [Effects -> EffectRow]
  BY DEF ReserveEffect, LaneFree, MailInv, ProcsSound, Tables
<1> DEFINE e == <<c, a>>
           r == [proc[p] EXCEPT !.pc = "reserved", !.effect = e]
           row == [effects[e] EXCEPT !.state = "reserved"]
<1>3. c \in Contents /\ proc[p] \in Proc
  BY <1>2 DEF Sound
<1>4. e \in Effects /\ e[1] = c /\ e[2] = a
  BY <1>1, <1>3 DEF Effects
<1>5. effects[e].state = "none" /\ \A b \in Attempts : effects[<<c, b>>].state # "none" => b <= a
  <2>1. CASE a = 1
    <3>1. effects[<<c, 1>>].state = "none"
      BY <1>1, <2>1 DEF IsNext
    <3>2. \A b \in Attempts : <<c, b>> \in Effects /\ <<c, b>>[1] = c
      BY <1>3 DEF Effects
    <3>3. \A b \in Attempts : effects[<<c, b>>].state = "none"
      BY <3>1, <3>2 DEF ResendInv, Reserved
    <3> QED  BY <2>1, <3>1, <3>3
  <2>2. CASE a # 1
    <3>1. \A b \in Attempts : effects[<<c, b>>].state # "none" => b <= a - 1
      BY <1>1, <2>2 DEF IsNext, IsLatest
    <3>2. a \in Nat /\ \A b \in Attempts : b \in Nat
      BY <1>1, AttemptAssumption DEF Attempts
    <3> QED  BY <1>1, <3>1, <3>2
  <2> QED  BY <2>1, <2>2
<1>6. \A d \in Effects : effects[d].state \notin Unsettled
  BY <1>2, NoEffectIsNone DEF LaneNamesUnsettled, NoLane
<1>7. r.pc = "reserved" /\ r.effect = e
  BY <1>3 DEF Proc
<1>8. effects[e] \in EffectRow /\ row.state = "reserved"
  BY <1>2, <1>4 DEF EffectRow
<1>9. /\ proc' = [proc EXCEPT ![p] = r] /\ effects' = [effects EXCEPT ![e] = row]
  BY <1>1
<1> HIDE DEF r, e, row
<1>10. /\ proc'[p] = r /\ \A q \in Procs \ {p} : proc'[q] = proc[q]
       /\ effects'[e] = row /\ \A d \in Effects \ {e} : effects'[d] = effects[d]
  BY <1>2, <1>4, <1>9
<1>11. /\ \A m \in MessageIds : mail[m].effect \in Effects \ {e}
       /\ mail # << >> => Len(mail) \in MessageIds
       /\ \A q \in Procs : proc[q].effect # e
       /\ \A q \in Procs : proc[q].pc \in Publishers => proc[q].effect \in Effects
  BY <1>4, <1>5, KnownEffects DEF ResendInv, Reserved, Publishers
<1>12. Reserved'
  <2>1. e = <<c, 1>> \/ effects[<<c, 1>>].state # "none"
    <3>1. CASE a = 1
      BY <3>1 DEF e
    <3>2. CASE a # 1
      <4>1. effects[<<c, a - 1>>].state # "none" /\ a - 1 \in Attempts
        BY <1>1, <3>2, AttemptAssumption DEF IsNext, IsLatest, Attempts
      <4>2. <<c, a - 1>> \in Effects /\ <<c, a - 1>>[1] = c
        BY <1>3, <4>1 DEF Effects
      <4> QED  BY <4>1, <4>2 DEF ResendInv, Reserved
    <3> QED  BY <3>1, <3>2
  <2>2. \A d \in Effects : <<d[1], 1>> \in Effects
    BY AttemptAssumption DEF Effects, Attempts
  <2>3. \A d \in Effects : effects[d].state # "none" => effects'[d].state # "none"
    BY <1>5, <1>10
  <2>4. effects'[<<c, 1>>].state # "none"
    BY <1>4, <1>8, <1>10, <2>1, <2>2, <2>3
  <2>5. \A d \in Effects : effects'[d].state # "none" => effects'[<<d[1], 1>>].state # "none"
    BY <1>4, <1>10, <2>2, <2>3, <2>4 DEF ResendInv, Reserved
  <2> QED  BY <1>2, <1>7, <1>8, <1>10, <1>11, <2>5 DEF ResendInv, Reserved, MessageIds
\* Who publishes alone is about an effect in the lane, and there is none.
<1>13. \A q \in Procs : proc[q].pc \in Publishers => proc[q].effect \in overtaken
  BY <1>6, <1>11 DEF ResendInv, PublishesAlone, Unsettled
<1>14. PublishesAlone'
  <2>1. \A d \in Effects : d[1] \in Contents /\ d[2] \in Attempts /\ d = <<d[1], d[2]>>
    BY DEF Effects
  <2>2. Latest(effects', e)
    <3> SUFFICES ASSUME NEW d \in Effects, d[1] = e[1], effects'[d].state # "none"
                 PROVE  d[2] <= e[2]
      BY DEF Latest
    <3>1. CASE d = e
      <4>1. a \in Nat
        BY <1>1, AttemptAssumption DEF Attempts
      <4> QED  BY <1>4, <3>1, <4>1
    <3>2. CASE d # e
      <4>1. effects[<<c, d[2]>>].state # "none"
        BY <1>4, <1>10, <2>1, <3>2
      <4> QED  BY <1>4, <1>5, <2>1, <4>1
    <3> QED  BY <3>1, <3>2
  <2> SUFFICES ASSUME NEW q \in Procs, proc'[q].pc \in Publishers, proc'[q].effect \notin overtaken'
               PROVE  /\ effects'[proc'[q].effect].state = "reserved" /\ Latest(effects', proc'[q].effect)
                      /\ \A s \in Procs \ {q} : proc'[s].effect # proc'[q].effect
    BY DEF PublishesAlone
  <2>3. q = p
    BY <1>2, <1>10, <1>13
  <2> QED  BY <1>7, <1>8, <1>10, <1>11, <2>2, <2>3
<1>15. NotInMailbox'
  <2>1. Unsent(mail', e)
    BY <1>2, <1>11 DEF Unsent, MessageIds
  <2>2. \A q \in Procs : /\ proc'[q].pc \in {"reserved", "refused", "missing"}
                         /\ proc'[q].effect \notin overtaken'
                         => Unsent(mail', proc'[q].effect)
    BY <1>2, <1>7, <1>10, <2>1 DEF ResendInv, NotInMailbox
  <2>3. \A d \in Effects : effects'[d].state = "failed" /\ d \notin overtaken'
                           => Unsent(mail', d)
    BY <1>2, <1>10, <2>1 DEF ResendInv, NotInMailbox
  <2> QED  BY <2>2, <2>3 DEF NotInMailbox
<1>16. OpenIsLast' /\ ResendOnlyIfOvertaken'
  BY <1>2, <1>6, <1>10, <1>11 DEF ResendInv, OpenIsLast, ResendOnlyIfOvertaken, Repeated, MessageIds
<1> DEFINE l == mail[Len(mail)].effect
\* The last message is of another content.
<1>17. ASSUME mail # << >>, l \notin overtaken
       PROVE  /\ l \in Effects \ {e} /\ l[1] # c /\ Latest(effects, l)
              /\ effects[l].state \in Delivered /\ projection.content = l[1]
  <2>1. l \in Effects \ {e}
    BY <1>11, <1>17
  <2>2. Latest(effects, l) /\ effects[l].state \in Delivered /\ projection.content = l[1]
    BY <1>6, <1>17, <2>1 DEF ResendInv, LastStands
  <2>3. l[1] \in Contents /\ l[2] \in Attempts /\ l = <<l[1], l[2]>>
    BY <2>1 DEF Effects
  <2>4. IsLatest(l[1], l[2])
    <3>1. effects[<<l[1], l[2]>>].state # "none"
      BY <2>2, <2>3 DEF Delivered
    <3>2. ASSUME NEW b \in Attempts, effects[<<l[1], b>>].state # "none"
          PROVE  b <= l[2]
      <4>1. <<l[1], b>> \in Effects
        BY <2>3 DEF Effects
      <4> QED  BY <2>2, <3>2, <4>1 DEF Latest
    <3> QED  BY <3>1, <3>2 DEF IsLatest
  <2>5. Replayed(l[1])
    BY <2>2, <2>3, <2>4 DEF Replayed
  <2>6. l[1] # c
    BY <1>2, <2>5
  <2> QED  BY <2>1, <2>2, <2>6
<1>18. LastStands'
  <2> SUFFICES ASSUME mail # << >>, l \notin overtaken
               PROVE  Latest(effects', l) /\ effects'[l].state \in Delivered /\ projection.content = l[1]
    BY <1>2 DEF LastStands
  <2>1. /\ l \in Effects \ {e} /\ l[1] # c /\ Latest(effects, l)
        /\ effects[l].state \in Delivered /\ projection.content = l[1]
    BY <1>17
  <2>2. Latest(effects', l)
    BY <1>4, <1>10, <2>1 DEF Latest
  <2> QED  BY <1>10, <2>1, <2>2
<1>19. ReservedIsNew'
  <2> SUFFICES ASSUME mail # << >>, l \notin overtaken, NEW q \in Procs,
                      proc'[q].pc = "reserved", proc'[q].effect \notin overtaken
               PROVE  proc'[q].effect[1] # l[1]
    BY <1>2 DEF ReservedIsNew
  <2>1. q = p
    BY <1>10, <1>13 DEF Publishers
  <2> QED  BY <1>4, <1>7, <1>10, <1>17, <2>1
<1> QED  BY <1>12, <1>14, <1>15, <1>16, <1>18, <1>19 DEF ResendInv

\* Gmail accepts a message: unless the effect was overtaken, the lane names it,
\* so no other outcome is open, and the last message is of another content.
LEMMA AcceptKeeps ==
    ASSUME MailInv, ResendInv, NEW p \in Procs, NEW r, NEW x \in Mail,
           proc[p].pc = "reserved", proc' = [proc EXCEPT ![p] = r],
           r.effect = proc[p].effect, r.pc \in {"accepted", "unknown"},
           mail' = Append(mail, x), x.effect = proc[p].effect,
           UNCHANGED <<effects, projection, overtaken>>
    PROVE  ResendInv'
<1> DEFINE e == proc[p].effect
           n == Len(mail)
<1>1. /\ proc'[p] = r /\ \A q \in Procs \ {p} : proc'[q] = proc[q]
      /\ \A q \in Procs : proc[q].pc \in Publishers => proc[q].effect \in Effects
      /\ e \in Effects /\ proc[p].pc \in Publishers
  BY KnownEffects DEF Publishers
<1>2. /\ n \in Nat /\ Len(mail') = n + 1 /\ mail'[n + 1] = x
      /\ \A m \in 1..n : mail'[m] = mail[m] /\ mail[m].effect \in Effects
      /\ mail' # << >>
      /\ mail # << >> => n \in 1..n
  BY KnownEffects DEF MessageIds, MailInv, Tables
<1>3. \A m \in MessageIds' : m \in 1..n \/ (m = n + 1 /\ mail'[m].effect = e)
  BY <1>2 DEF MessageIds
<1>4. effects' = effects /\ projection' = projection /\ overtaken' = overtaken
  OBVIOUS
<1>5. e \notin overtaken => /\ effects[e].state = "reserved" /\ Latest(effects, e)
                            /\ \A q \in Procs \ {p} : proc[q].effect # e
                            /\ Unsent(mail, e)
  BY <1>1 DEF ResendInv, PublishesAlone, NotInMailbox
<1> HIDE DEF n, e
<1>6. Reserved'
  <2>1. effects[e].state # "none"
    BY <1>1 DEF ResendInv, Reserved, e
  <2>2. \A m \in 1..n : effects[mail[m].effect].state # "none"
    BY DEF ResendInv, Reserved, MessageIds, n
  <2>3. \A m \in MessageIds' : effects[mail'[m].effect].state # "none"
    BY <1>2, <1>3, <2>1, <2>2
  <2>4. \A q \in Procs : proc'[q].effect \in Effects => effects[proc'[q].effect].state # "none"
    BY <1>1, <2>1 DEF ResendInv, Reserved, e
  <2> QED  BY <1>4, <2>3, <2>4 DEF ResendInv, Reserved
<1>7. PublishesAlone'
  BY <1>1, <1>4 DEF ResendInv, PublishesAlone, Publishers
<1>8. NotInMailbox'
  <2>1. ASSUME NEW d, Unsent(mail, d), d # e PROVE Unsent(mail', d)
    BY <1>2, <1>3, <2>1 DEF Unsent, MessageIds, n
  <2>2. ASSUME NEW q \in Procs, proc'[q].pc \in {"reserved", "refused", "missing"},
               proc'[q].effect \notin overtaken
        PROVE  Unsent(mail', proc'[q].effect)
    <3>1. q # p /\ proc'[q] = proc[q]
      BY <1>1, <2>2
    <3>2. proc[q].effect # e
      BY <1>5, <2>2, <3>1
    <3> QED  BY <2>1, <2>2, <3>1, <3>2 DEF ResendInv, NotInMailbox
  <2>3. ASSUME NEW d \in Effects, effects[d].state = "failed", d \notin overtaken
        PROVE  Unsent(mail', d)
    BY <1>5, <2>1, <2>3 DEF ResendInv, NotInMailbox
  <2> QED  BY <1>4, <2>2, <2>3 DEF NotInMailbox
<1>9. OpenIsLast'
  <2> SUFFICES ASSUME NEW m \in MessageIds', NEW k \in MessageIds', m < k,
                      effects[mail'[m].effect].state \in Unsettled
               PROVE  mail'[k].effect \in overtaken
    BY <1>4 DEF OpenIsLast
  <2>1. m \in 1..n /\ mail'[m] = mail[m] /\ mail[m].effect \in Effects
    BY <1>2, <1>3 DEF MessageIds
  <2>2. CASE k \in 1..n
    BY <1>2, <2>1, <2>2 DEF ResendInv, OpenIsLast, MessageIds, n
  <2>3. CASE mail'[k].effect = e
    <3>1. SUFFICES ASSUME e \notin overtaken PROVE FALSE
      BY <2>3
    <3>2. mail[m].effect = e
      BY <1>1, <1>5, <2>1, <3>1, OneUnsettled DEF Unsettled, e
    <3> QED  BY <1>5, <2>1, <3>1, <3>2 DEF Unsent, n
  <2> QED  BY <1>3, <2>2, <2>3
<1>10. mail'[Len(mail')].effect = e
  BY <1>2 DEF e
<1>11. LastStands'
  BY <1>4, <1>5, <1>10 DEF LastStands, Unsettled
<1>12. ReservedIsNew'
  <2> SUFFICES ASSUME e \notin overtaken, NEW q \in Procs, proc'[q].pc = "reserved",
                      proc'[q].effect \notin overtaken
               PROVE  FALSE
    BY <1>4, <1>10 DEF ReservedIsNew
  <2>1. q # p /\ proc'[q] = proc[q]
    BY <1>1
  <2>2. /\ effects[proc[q].effect].state = "reserved" /\ proc[q].effect \in Effects
    BY <1>1, <2>1 DEF ResendInv, PublishesAlone, Publishers
  <2>3. proc[q].effect = e
    BY <1>1, <1>5, <2>2, OneUnsettled DEF Unsettled, e
  <2> QED  BY <1>5, <2>1, <2>3
<1>13. ResendOnlyIfOvertaken'
  <2> SUFFICES ASSUME NEW m \in MessageIds', m > 1, mail'[m].effect[1] = mail'[m - 1].effect[1]
               PROVE  mail'[m].effect \in overtaken \/ mail'[m - 1].effect \in overtaken
    BY <1>4 DEF ResendOnlyIfOvertaken, Repeated
  <2>1. CASE m \in 1..n
    <3>1. m - 1 \in 1..n /\ m \in MessageIds
      BY <1>2, <2>1 DEF MessageIds, n
    <3> QED  BY <1>2, <2>1, <3>1 DEF ResendInv, ResendOnlyIfOvertaken, Repeated
  <2>2. CASE m = n + 1
    <3>1. m - 1 = n /\ n \in 1..n /\ mail'[m].effect = e /\ mail'[m - 1] = mail[n]
      BY <1>2, <2>2 DEF e
    <3>2. mail # << >>
      BY <3>1 DEF n
    <3> QED  BY <3>1, <3>2 DEF ResendInv, ReservedIsNew, e, n
  <2> QED  BY <1>3, <2>1, <2>2
<1> QED  BY <1>6, <1>7, <1>8, <1>9, <1>11, <1>12, <1>13 DEF ResendInv

\* A receipt is stored: a failed one of an effect nobody overtook says that
\* there is no message, a delivered one that the message is the last, or one
\* that an overtaken effect's follows.
LEMMA SettleKeeps ==
    ASSUME MailInv, ResendInv, NEW p \in Procs, NEW r, NEW e \in Effects, NEW row,
           proc' = [proc EXCEPT ![p] = r], e = proc[p].effect,
           r.pc \notin Publishers \cup {"missing"}, r.effect \in {e, NoEffect},
           effects[e].state \in Unsettled, effects' = [effects EXCEPT ![e] = row],
           row.state \in Delivered \cup {"ambiguous", "failed"},
           row.state = "failed" /\ e \notin overtaken => Unsent(mail, e),
           row.state \in Delivered => /\ projection'.content = e[1]
                                      /\ \E m \in MessageIds : mail[m].effect = e,
           row.state \notin Delivered => UNCHANGED projection,
           UNCHANGED <<mail, overtaken>>
    PROVE  ResendInv'
<1>1. /\ proc'[p] = r /\ \A q \in Procs \ {p} : proc'[q] = proc[q]
      /\ \A q \in Procs : proc[q].pc \in Publishers => proc[q].effect \in Effects
  BY KnownEffects DEF Publishers
<1>2. /\ effects'[e] = row /\ \A d \in Effects \ {e} : effects'[d] = effects[d]
      /\ \A d \in Effects \ {e} : effects[d].state \notin Unsettled
  BY OneUnsettled DEF MailInv, Tables
<1>3. row.state # "none" /\ effects[e].state # "none"
  BY SettledIsNotUnsettled DEF Delivered
<1>4. \A d \in Effects : effects'[d].state # "none" <=> effects[d].state # "none"
  BY <1>2, <1>3
<1>5. mail' = mail /\ overtaken' = overtaken /\ MessageIds' = MessageIds
  BY DEF MessageIds
<1>6. /\ \A m \in MessageIds : mail[m].effect \in Effects
      /\ Len(mail) \in Nat /\ (mail # << >> => Len(mail) \in MessageIds)
  BY KnownEffects
<1>7. Reserved'
  <2>1. \A d \in Effects : <<d[1], 1>> \in Effects
    BY AttemptAssumption DEF Effects, Attempts
  <2>2. \A d \in Effects : effects'[d].state # "none" => effects'[<<d[1], 1>>].state # "none"
    BY <1>4, <2>1 DEF ResendInv, Reserved
  <2>3. \A q \in Procs : proc'[q].effect \in Effects => effects'[proc'[q].effect].state # "none"
    BY <1>1, <1>3, <1>4, NoEffectIsNone DEF ResendInv, Reserved
  <2>4. \A m \in MessageIds : effects'[mail[m].effect].state # "none"
    BY <1>4, <1>6 DEF ResendInv, Reserved
  <2> QED  BY <1>5, <2>2, <2>3, <2>4 DEF Reserved
<1>8. ASSUME NEW d \in Effects, Latest(effects, d) PROVE Latest(effects', d)
  BY <1>4, <1>8 DEF Latest
<1>9. PublishesAlone'
  <2> SUFFICES ASSUME NEW q \in Procs, proc'[q].pc \in Publishers, proc'[q].effect \notin overtaken
               PROVE  /\ effects'[proc'[q].effect].state = "reserved"
                      /\ Latest(effects', proc'[q].effect)
                      /\ \A s \in Procs \ {q} : proc'[s].effect # proc'[q].effect
    BY <1>5 DEF PublishesAlone
  <2>1. q # p /\ proc'[q] = proc[q] /\ proc[q].effect \in Effects
    BY <1>1
  <2>2. /\ effects[proc[q].effect].state = "reserved" /\ Latest(effects, proc[q].effect)
        /\ \A s \in Procs \ {q} : proc[s].effect # proc[q].effect
    BY <2>1 DEF ResendInv, PublishesAlone
  <2>3. proc[q].effect # e
    BY <2>1, <2>2
  <2>4. r.effect # proc[q].effect
    BY <2>1, <2>3, NoEffectIsNone
  <2>5. \A s \in Procs \ {q} : proc'[s].effect # proc[q].effect
    BY <1>1, <2>2, <2>4
  <2>6. effects'[proc[q].effect].state = "reserved"
    BY <1>2, <2>1, <2>2, <2>3
  <2>7. Latest(effects', proc[q].effect)
    BY <1>8, <2>1, <2>2
  <2> QED  BY <2>1, <2>5, <2>6, <2>7
<1>10. NotInMailbox'
  <2>1. \A q \in Procs : /\ proc'[q].pc \in {"reserved", "refused", "missing"}
                         /\ proc'[q].effect \notin overtaken
                         => Unsent(mail, proc'[q].effect)
    BY <1>1 DEF ResendInv, NotInMailbox, Publishers
  <2>2. \A d \in Effects : effects'[d].state = "failed" /\ d \notin overtaken => Unsent(mail, d)
    BY <1>2 DEF ResendInv, NotInMailbox
  <2> QED  BY <1>5, <2>1, <2>2 DEF NotInMailbox
<1>11. OpenIsLast'
  <2>1. \A d \in Effects : effects'[d].state \in Unsettled => effects[d].state \in Unsettled
    BY <1>2
  <2> QED  BY <1>5, <1>6, <2>1 DEF ResendInv, OpenIsLast
<1>12. LastStands'
  <2> DEFINE l == mail[Len(mail)].effect
  <2> SUFFICES ASSUME mail # << >>, l \notin overtaken
               PROVE  /\ Latest(effects', l)
                      /\ \/ effects'[l].state \in Unsettled
                         \/ effects'[l].state \in Delivered /\ projection'.content = l[1]
    BY <1>5 DEF LastStands
  <2>1. /\ l \in Effects /\ Len(mail) \in MessageIds /\ Latest(effects, l)
        /\ \/ effects[l].state \in Unsettled
           \/ effects[l].state \in Delivered /\ projection.content = l[1]
    BY <1>6 DEF ResendInv, LastStands
  <2> HIDE DEF l
  <2>2. CASE l = e
    <3>1. row.state # "failed"
      <4>1. SUFFICES ASSUME Unsent(mail, e) PROVE FALSE
        BY <2>2
      <4> QED  BY <2>1, <2>2, <4>1 DEF Unsent, MessageIds, l
    <3>2. row.state \in Unsettled \/ row.state \in Delivered
      BY <3>1 DEF Unsettled
    <3> QED  BY <1>2, <1>8, <2>1, <2>2, <3>2
  <2>3. CASE l # e
    <3>1. effects'[l] = effects[l] /\ effects[l].state \notin Unsettled
      BY <1>2, <2>1, <2>3
    <3>2. row.state \notin Delivered
      <4>1. SUFFICES ASSUME NEW m \in MessageIds, mail[m].effect = e PROVE FALSE
        OBVIOUS
      <4>2. m < Len(mail)
        BY <1>6, <2>3, <4>1 DEF MessageIds, l
      <4> QED  BY <2>1, <4>1, <4>2 DEF ResendInv, OpenIsLast, l
    <3> QED  BY <1>8, <2>1, <3>1, <3>2
  <2> QED  BY <2>2, <2>3
<1>13. ReservedIsNew' /\ ResendOnlyIfOvertaken'
  BY <1>1, <1>5 DEF ResendInv, ReservedIsNew, ResendOnlyIfOvertaken, Repeated, Publishers
<1> QED  BY <1>7, <1>9, <1>10, <1>11, <1>12, <1>13 DEF ResendInv

\* settleEffect of a process, with a receipt that delivers.
LEMMA DeliveryKeeps ==
    ASSUME MailInv, ResendInv, NEW p \in Procs, proc[p].pc \in {"accepted", "found"},
           NEW st \in Delivered,
           SettleDelivered(proc[p].effect, st, proc[p].message,
                           ProjectionFrom(proc[p].seen, proc[p].message, proc[p].effect[1])),
           Ends(p), UNCHANGED <<mail, overtaken>>
    PROVE  ResendInv'
<1> DEFINE e == proc[p].effect
           m == proc[p].message
           row == [state |-> st, message |-> m]
           next == ProjectionFrom(proc[p].seen, m, e[1])
<1>1. e \in Effects /\ m \in MessageIds /\ mail[m].effect = e
  BY ProjectedMessage
<1>2. /\ effects[e].state \in Unsettled /\ effects' = [effects EXCEPT ![e] = row]
      /\ projection' = next /\ proc' = [proc EXCEPT ![p] = Idle]
  BY DEF SettleDelivered, Settleable, Ends
<1>3. next.content = e[1]
  <2>1. proc[p].seen \in ProjectionRow
    BY DEF MailInv, ProcsSound, Proc
  <2> QED  BY <2>1 DEF ProjectionFrom, ProjectionRow
<1>4. row.state = st
  OBVIOUS
<1>5. Idle.effect = NoEffect /\ Idle.pc \notin Publishers \cup {"missing"}
  BY DEF Idle, Publishers
<1> HIDE DEF row, e, m, next
<1> QED  BY <1>1, <1>2, <1>3, <1>4, <1>5, SettledIsNotUnsettled, SettleKeeps DEF e

\* settleEffect of a process, with a receipt that does not.
LEMMA OpenKeeps ==
    ASSUME MailInv, ResendInv, NEW p \in Procs, NEW r, NEW st \in {"ambiguous", "failed"},
           proc[p].pc \notin {"idle", "published"}, SettleOpen(proc[p].effect, st),
           st = "failed" => proc[p].pc \in {"refused", "missing"},
           proc' = [proc EXCEPT ![p] = r], UNCHANGED <<mail, overtaken>>,
           r.pc \in {"idle", "marked"}, r.effect \in {proc[p].effect, NoEffect}
    PROVE  ResendInv'
<1> DEFINE e == proc[p].effect
           row == [effects[e] EXCEPT !.state = st]
<1>1. e \in Effects
  BY KnownEffects
<1>2. effects[e] \in EffectRow
  BY <1>1 DEF MailInv, Tables
<1>3. row.state = st
  BY <1>2 DEF EffectRow
<1>4. /\ effects[e].state \in Unsettled /\ effects' = [effects EXCEPT ![e] = row]
      /\ UNCHANGED projection
  BY DEF SettleOpen, Settleable
<1>5. st = "failed" /\ e \notin overtaken => Unsent(mail, e)
  BY DEF ResendInv, NotInMailbox
<1>6. st \notin Delivered /\ r.pc \notin Publishers \cup {"missing"}
  BY DEF Delivered, Publishers
<1> HIDE DEF row, e
<1> QED  BY <1>1, <1>3, <1>4, <1>5, <1>6, SettleKeeps DEF e

LEMMA PublisherKeeps ==
    ASSUME MailInv, ResendInv, NEW p \in Procs, Publishes(p)
    PROVE  ResendInv'
<1>1. proc[p] \in Proc /\ proc \in [Procs -> Proc] /\ Idle \in Proc
  BY IdleIsSound DEF MailInv, ProcsSound, Sound
<1>2. /\ Idle.effect = NoEffect /\ Idle.pc = "idle" /\ NoEffect \notin Effects
      /\ "idle" \notin Publishers
  BY NoEffectIsNone DEF Idle, Publishers
<1>3. ASSUME NEW c \in Contents, Publish(p, c)
      PROVE  ResendInv'
  <2> DEFINE r == [Idle EXCEPT !.pc = "published", !.content = c, !.seen = projection]
  <2>1. r.pc = "published" /\ r.effect = NoEffect
    BY <1>1, <1>2 DEF Proc
  <2>2. /\ proc' = [proc EXCEPT ![p] = r]
        /\ UNCHANGED <<effects, projection, mail, overtaken>>
    BY <1>3 DEF Publish
  <2> HIDE DEF r
  <2> QED  BY <1>2, <2>1, <2>2, MoveKeeps DEF Publishers
<1>4. CASE ReserveRefused(p)
  BY <1>2, <1>4, MoveKeeps DEF ReserveRefused, Ends
<1>5. CASE Send(p)
  <2> DEFINE m == Len(mail) + 1
             thread == IF proc[p].seen = NoProjection THEN m ELSE proc[p].seen.thread
             x == [effect |-> proc[p].effect, thread |-> thread]
             r == [proc[p] EXCEPT !.pc = "accepted", !.message = m]
             s(pc) == [proc[p] EXCEPT !.pc = pc]
  <2>1. /\ proc[p].pc = "reserved" /\ UNCHANGED <<effects, projection, overtaken>>
        /\ \/ mail' = Append(mail, x) /\ proc' = [proc EXCEPT ![p] = r]
           \/ mail' = Append(mail, x) /\ proc' = [proc EXCEPT ![p] = s("unknown")]
           \/ mail' = mail /\ proc' = [proc EXCEPT ![p] = s("unknown")]
           \/ mail' = mail /\ proc' = [proc EXCEPT ![p] = s("refused")]
    BY <1>5 DEF Send, Becomes
  <2>2. proc[p].effect \in Effects /\ proc[p].seen \in ProjectionRow /\ Len(mail) \in Nat
    BY <1>1, <2>1, KnownEffects DEF Proc
  <2>3. thread \in Nat
    BY <2>2 DEF ProjectionRow
  <2>4. x \in Mail /\ x.effect = proc[p].effect
    BY <2>2, <2>3 DEF Mail
  <2>5. /\ r.pc = "accepted" /\ r.effect = proc[p].effect
        /\ \A pc \in {"unknown", "refused"} : s(pc).pc = pc /\ s(pc).effect = proc[p].effect
    BY <1>1 DEF Proc
  <2> HIDE DEF x, r, s
  <2>6. /\ effects[proc[p].effect].state # "none"
        /\ proc[p].effect \notin overtaken => Unsent(mail, proc[p].effect)
    BY <2>1, <2>2 DEF ResendInv, Reserved, NotInMailbox
  <2>7. CASE mail' = Append(mail, x) /\ proc' = [proc EXCEPT ![p] = r]
    BY <2>1, <2>4, <2>5, <2>7, AcceptKeeps
  <2>8. CASE mail' = Append(mail, x) /\ proc' = [proc EXCEPT ![p] = s("unknown")]
    BY <2>1, <2>4, <2>5, <2>8, AcceptKeeps
  <2>9. CASE \E pc \in {"unknown", "refused"} :
                mail' = mail /\ proc' = [proc EXCEPT ![p] = s(pc)]
    BY <2>1, <2>5, <2>6, <2>9, MoveKeeps DEF Publishers
  <2> QED  BY <2>1, <2>7, <2>8, <2>9
<1>6. CASE SettlePublished(p)
  <2>1. CASE /\ proc[p].pc = "accepted"
             /\ SettleDelivered(proc[p].effect, "sent", proc[p].message,
                    ProjectionFrom(proc[p].seen, proc[p].message, proc[p].effect[1]))
    BY <1>6, <2>1, DeliveryKeeps DEF SettlePublished, Delivered
  <2>2. CASE \/ proc[p].pc = "unknown" /\ SettleOpen(proc[p].effect, "ambiguous")
             \/ proc[p].pc = "refused" /\ SettleOpen(proc[p].effect, "failed")
    BY <1>2, <1>6, <2>2, OpenKeeps DEF SettlePublished, Ends
  <2> QED  BY <1>6, <2>1, <2>2 DEF SettlePublished
<1> QED  BY <1>3, <1>4, <1>5, <1>6, ReserveKeeps DEF Publishes

LEMMA ReconcilerKeeps ==
    ASSUME MailInv, ResendInv, NEW p \in Procs, Reconciles(p)
    PROVE  ResendInv'
<1>1. proc[p] \in Proc /\ Idle \in Proc
  BY IdleIsSound DEF MailInv, ProcsSound, Sound
<1>2. Idle.effect = NoEffect /\ Idle.pc = "idle" /\ NoEffect \notin Effects
  BY NoEffectIsNone DEF Idle
<1>3. proc[p].effect \in Effects => effects[proc[p].effect].state # "none"
  BY DEF ResendInv, Reserved
<1>4. ASSUME NEW e \in Effects, Reconcile(p, e)
      PROVE  ResendInv'
  <2> DEFINE pc == IF effects[e].state = "reserved" THEN "reservedSeen" ELSE "ambiguousSeen"
             r == [Idle EXCEPT !.effect = e, !.pc = pc]
  <2>1. /\ proc' = [proc EXCEPT ![p] = r] /\ UNCHANGED <<effects, projection, mail>>
        /\ effects[e].state \in Unsettled
        /\ overtaken' = IF Publishing(e) = {} THEN overtaken ELSE overtaken \cup {e}
    BY <1>4 DEF Reconcile
  <2>2. pc \in {"reservedSeen", "ambiguousSeen"}
    OBVIOUS
  <2> HIDE DEF pc
  <2>3. r.pc = pc /\ r.effect = e
    BY <1>1 DEF Proc
  <2>4. effects[e].state # "none"
    BY <2>1 DEF Unsettled
  <2> HIDE DEF r
  <2> QED  BY <2>1, <2>2, <2>3, <2>4, MoveKeeps DEF Publishers
<1>5. CASE ReadProjection(p)
  <2> DEFINE pc == IF proc[p].pc = "reservedSeen" THEN "unmarked" ELSE "marked"
             r == [proc[p] EXCEPT !.seen = projection, !.pc = pc]
  <2>1. pc \in {"unmarked", "marked"}
    OBVIOUS
  <2>2. /\ proc' = [proc EXCEPT ![p] = r]
        /\ UNCHANGED <<effects, projection, mail, overtaken>>
    BY <1>5 DEF ReadProjection
  <2> HIDE DEF pc
  <2>3. r.pc = pc /\ r.effect = proc[p].effect
    BY <1>1 DEF Proc
  <2> HIDE DEF r
  <2> QED  BY <1>3, <2>1, <2>2, <2>3, MoveKeeps DEF Publishers
<1>6. CASE MarkAmbiguous(p)
  <2> DEFINE r == [proc[p] EXCEPT !.pc = "marked"]
  <2>1. r.pc = "marked" /\ r.effect = proc[p].effect
    BY <1>1 DEF Proc
  <2>2. /\ proc[p].pc = "unmarked" /\ SettleOpen(proc[p].effect, "ambiguous")
        /\ proc' = [proc EXCEPT ![p] = r] /\ UNCHANGED <<mail, overtaken>>
    BY <1>6 DEF MarkAmbiguous, Becomes
  <2> HIDE DEF r
  <2> QED  BY <2>1, <2>2, OpenKeeps
<1>7. CASE Lookup(p)
  <2> DEFINE r == [proc[p] EXCEPT !.pc = "missing"]
             f(m) == [proc[p] EXCEPT !.pc = "found", !.message = m]
  <2>1. /\ UNCHANGED <<effects, projection, mail, overtaken>>
        /\ \/ Candidates(proc[p].effect) = {} /\ proc' = [proc EXCEPT ![p] = r]
           \/ \E m \in Candidates(proc[p].effect) : proc' = [proc EXCEPT ![p] = f(m)]
    BY <1>7 DEF Lookup, Becomes
  <2>2. /\ r.pc = "missing" /\ r.effect = proc[p].effect
        /\ \A m : f(m).pc = "found" /\ f(m).effect = proc[p].effect
    BY <1>1 DEF Proc
  <2>3. Candidates(proc[p].effect) = {} => Unsent(mail, proc[p].effect)
    BY DEF Candidates, MessageIds, Unsent
  <2> HIDE DEF r, f
  <2> QED  BY <1>3, <2>1, <2>2, <2>3, MoveKeeps DEF Publishers
<1>8. CASE SettleReconciled(p)
  <2>1. CASE /\ proc[p].pc = "found"
             /\ SettleDelivered(proc[p].effect, "reconciled", proc[p].message,
                    ProjectionFrom(proc[p].seen, proc[p].message, proc[p].effect[1]))
    BY <1>8, <2>1, DeliveryKeeps DEF SettleReconciled, Delivered
  <2>2. CASE proc[p].pc = "missing" /\ SettleOpen(proc[p].effect, "failed")
    BY <1>2, <1>8, <2>2, OpenKeeps DEF SettleReconciled, Ends
  <2> QED  BY <1>8, <2>1, <2>2 DEF SettleReconciled
<1> QED  BY <1>4, <1>5, <1>6, <1>7, <1>8 DEF Reconciles

LEMMA ResendStep ==
    ASSUME MailInv, ResendInv, [Next]_vars
    PROVE  ResendInv'
<1>1. Idle.effect = NoEffect /\ Idle.pc = "idle" /\ NoEffect \notin Effects
  BY NoEffectIsNone DEF Idle
<1>2. ASSUME NEW p \in Procs, Stop(p)
      PROVE  ResendInv'
  BY <1>1, <1>2, MoveKeeps DEF Stop, Ends, Publishers
<1>3. CASE UNCHANGED vars
  BY <1>3 DEF vars, ResendInv, Reserved, PublishesAlone, NotInMailbox, OpenIsLast, LastStands,
              ReservedIsNew, ResendOnlyIfOvertaken, Repeated, MessageIds
<1> QED  BY <1>2, <1>3, PublisherKeeps, ReconcilerKeeps DEF Next

\* No content is sent twice in a row, wherever processes stop and whichever
\* answers are lost, unless a reconcile started while the publisher still ran.
THEOREM NoResendUnlessOvertaken == Spec => []ResendOnlyIfOvertaken
<1>1. Init => ResendInv
  <2> SUFFICES ASSUME Init PROVE ResendInv
    OBVIOUS
  <2>1. \A e \in Effects : effects[e].state = "none"
    BY DEF Init
  <2>2. /\ \A p \in Procs : proc[p].effect \notin Effects /\ proc[p].pc = "idle"
        /\ mail = << >> /\ MessageIds = {}
    BY NoEffectIsNone DEF Init, Idle, MessageIds
  <2> QED  BY <2>1, <2>2 DEF ResendInv, Reserved, PublishesAlone, NotInMailbox, OpenIsLast,
                             LastStands, ReservedIsNew, ResendOnlyIfOvertaken, Publishers
<1>2. ResendInv => ResendOnlyIfOvertaken
  BY DEF ResendInv
<1> QED  BY <1>1, <1>2, ResendStep, MailInvariance, PTL DEF Spec
=============================================================================
