---------------------------- MODULE FencedClaim ----------------------------
(***************************************************************************)
(* What the claim ledger promises, without time, timers, statuses or       *)
(* idempotency keys: an item has at most one owner, ownership never passes *)
(* straight from one actor to another, and every grant carries a fence no  *)
(* earlier grant of the item carried.  Who may end ownership, and when, is *)
(* left open: release, completion, a lapse and a late timer all do.        *)
(***************************************************************************)
EXTENDS Integers

CONSTANTS Items, Actors, Nobody

VARIABLES
    owner,      \* owner[i]: the actor that may act as the claimant of i
    fence       \* fence[i]: the claim generation of i

vars == <<owner, fence>>

Init ==
    /\ owner = [i \in Items |-> Nobody]
    /\ fence = [i \in Items |-> 0]

\* An unowned item, or one the actor already owns, is granted to the actor
\* under a larger fence.
Grant(i, a) ==
    /\ owner[i] \in {a, Nobody}
    /\ owner' = [owner EXCEPT ![i] = a]
    /\ fence'[i] > fence[i]
    /\ fence' = [fence EXCEPT ![i] = fence'[i]]

\* Any number of items lose their owner (the clock can lapse several claims
\* at once) or move their fence while unowned.
Retire ==
    /\ owner' \in [Items -> Actors \cup {Nobody}]
    /\ DOMAIN fence' = Items
    /\ \A i \in Items :
          \/ owner'[i] = owner[i] /\ fence'[i] = fence[i]
          \/ owner'[i] = Nobody /\ fence'[i] >= fence[i]

Next == Retire \/ \E i \in Items, a \in Actors : Grant(i, a)

Spec == Init /\ [][Next]_vars
=============================================================================
