----------------------------- MODULE OAuthProofs -----------------------------
(***************************************************************************)
(* Proofs about refresh-token families and the clients beside them.        *)
(*                                                                         *)
(* Every step leaves the rows as they are but for their schedule and for   *)
(* tokens that end (Quiet), inserts the root of a new family (Opens), or   *)
(* ends a live token and inserts its successor (Grows).                    *)
(***************************************************************************)
EXTENDS OAuthClients, TLAPS

Over == {"consumed", "revoked", "deleted"}

\* What never changes of a row, and what may become of its status.
Kept(u) ==
    /\ tokens'[u].family = tokens[u].family
    /\ tokens'[u].code = tokens[u].code
    /\ tokens'[u].parent = tokens[u].parent
    /\ tokens'[u].expiresAt = tokens[u].expiresAt
    /\ \/ tokens'[u].status = tokens[u].status
       \/ tokens[u].status # "free" /\ tokens'[u].status \in Over
    /\ tokens[u].status = "deleted" => tokens'[u].status = "deleted"

Quiet == \A u \in TokenIds : Kept(u)

Opens ==
    \E c \in CodeIds, t \in TokenIds :
        /\ codes[c].status = "live" /\ codes'[c].status = "deleted"
        /\ NextFree(tokens, t)
        /\ tokens'[t].status = "live" /\ tokens'[t].family = t
        /\ tokens'[t].code = c /\ tokens'[t].parent = None
        /\ \A u \in TokenIds \ {t} : Kept(u)

Grows ==
    \E t, n \in TokenIds :
        /\ tokens[t].status = "live" /\ tokens'[t].status = "consumed"
        /\ NextFree(tokens, n)
        /\ tokens'[n].status = "live" /\ tokens'[n].family = tokens[t].family
        /\ tokens'[n].code = None /\ tokens'[n].parent = t
        /\ \A u \in TokenIds \ {n} : Kept(u)

\* No code is taken up again.
CodesKept ==
    \A c \in CodeIds : codes[c].status = "deleted" => codes'[c].status = "deleted"

FreeRows ==
    \A u \in TokenIds : tokens[u].status = "free" =>
        tokens[u].family = None /\ tokens[u].code = None /\ tokens[u].parent = None

\* Rows are inserted in the order of their ids.
Inserted ==
    \A u, v \in TokenIds : tokens[u].status = "free" /\ tokens[v].status # "free" => v < u

Rooted ==
    \A u \in TokenIds : tokens[u].status # "free" =>
        tokens[u].family \in TokenIds /\ tokens[tokens[u].family].status # "free"

CodesSpent ==
    \A u \in TokenIds : tokens[u].code # None => codes[tokens[u].code].status = "deleted"

ParentsSpent ==
    \A u \in TokenIds : tokens[u].parent # None => tokens[tokens[u].parent].status \in Over

\* A code opens one family, a token has one successor.
Unshared ==
    \A t, u \in TokenIds : t # u =>
        /\ tokens[t].code = tokens[u].code => tokens[t].code = None
        /\ tokens[t].parent = tokens[u].parent => tokens[t].parent = None

FamilyInv ==
    /\ TypeOK
    /\ FreeRows /\ Inserted /\ Rooted
    /\ OneLiveToken
    /\ CodesSpent /\ ParentsSpent /\ Unshared

LEMMA NoneIsNoId == None \notin TokenIds /\ None \notin CodeIds
BY NoneAssumption, IdsAssumption

-----------------------------------------------------------------------------
(* What the operators on rows return and keep. *)

LEMMA ScheduledRows ==
    ASSUME NEW rows \in [TokenIds -> Token], NEW c \in TokenIds, NEW d \in Nat
    PROVE  /\ Scheduled(rows, c, d) \in [TokenIds -> Token]
           /\ \A u \in TokenIds :
                /\ Scheduled(rows, c, d)[u].status = rows[u].status
                /\ Scheduled(rows, c, d)[u].family = rows[u].family
                /\ Scheduled(rows, c, d)[u].code = rows[u].code
                /\ Scheduled(rows, c, d)[u].parent = rows[u].parent
                /\ Scheduled(rows, c, d)[u].expiresAt = rows[u].expiresAt
                /\ Scheduled(rows, c, d)[u].account = rows[u].account
                /\ Scheduled(rows, c, d)[u].write = rows[u].write
<1>1. NextGeneration(rows[c].generation) \in Int
  BY DEF NextGeneration, Token
<1>2. CASE ScheduleNeeded(rows, c, d)
  <2> DEFINE row == [rows[c] EXCEPT !.familyExpiresAt = d, !.scheduledAt = d,
                                    !.generation = NextGeneration(rows[c].generation)]
  <2>1. /\ row \in Token
        /\ row.status = rows[c].status /\ row.family = rows[c].family
        /\ row.code = rows[c].code /\ row.parent = rows[c].parent
        /\ row.expiresAt = rows[c].expiresAt
        /\ row.account = rows[c].account /\ row.write = rows[c].write
    BY <1>1 DEF Token
  <2>2. Scheduled(rows, c, d) = [rows EXCEPT ![c] = row]
    BY <1>2 DEF Scheduled
  <2> QED  BY <2>1, <2>2
<1>3. CASE ~ScheduleNeeded(rows, c, d)
  BY <1>3 DEF Scheduled
<1> QED  BY <1>2, <1>3

LEMMA RevokedRows ==
    ASSUME NEW rows \in [TokenIds -> Token], NEW f
    PROVE  /\ FamilyRevoked(rows, f) \in [TokenIds -> Token]
           /\ \A u \in TokenIds :
                /\ FamilyRevoked(rows, f)[u].status \in {rows[u].status, "revoked"}
                /\ rows[u].status # "live" => FamilyRevoked(rows, f)[u].status = rows[u].status
                /\ FamilyRevoked(rows, f)[u].family = rows[u].family
                /\ FamilyRevoked(rows, f)[u].code = rows[u].code
                /\ FamilyRevoked(rows, f)[u].parent = rows[u].parent
                /\ FamilyRevoked(rows, f)[u].expiresAt = rows[u].expiresAt
BY DEF FamilyRevoked, Token

LEMMA ScheduledCalls ==
    ASSUME TypeOK, NEW rows \in [TokenIds -> Token], NEW c \in TokenIds, NEW d \in Nat,
           rows[c].family \in TokenIds
    PROVE  ScheduledJobs(rows, c, d) \subseteq Job
<1>1. NextGeneration(rows[c].generation) \in Int
  BY DEF NextGeneration, Token
<1>2. Max2(now, d) \in Nat
  BY DEF Max2, TypeOK
<1>3. [family |-> rows[c].family, deadline |-> d,
       generation |-> NextGeneration(rows[c].generation), continuation |-> FALSE,
       legacy |-> FALSE, at |-> Max2(now, d)] \in Job
  BY <1>1, <1>2 DEF Job
<1> QED  BY <1>3 DEF ScheduledJobs

LEMMA DeadlineIsTime ==
    ASSUME NEW rows \in [TokenIds -> Token], NEW c \in TokenIds
    PROVE  Deadline(rows, c) \in Nat
BY DEF Deadline, Token

-----------------------------------------------------------------------------
(* One lemma per action: the types, and the form of the step. *)

LEMMA CreateCodeStep ==
    ASSUME TypeOK, NEW c \in CodeIds, NEW a \in Accounts, NEW write \in BOOLEAN,
           NEW offline \in BOOLEAN, NEW x \in Nat, CreateCode(c, a, write, offline, x)
    PROVE  TypeOK' /\ Quiet /\ CodesKept
<1>1. [status |-> "live", account |-> a, write |-> write, offline |-> offline,
       expiresAt |-> x] \in Code
  BY DEF Code
<1>2. \A d \in CodeIds : [codes[d] EXCEPT !.status = "deleted"] \in Code
  BY DEF TypeOK, Code
<1>3. codes' \in [CodeIds -> Code]
  BY <1>1, <1>2 DEF CreateCode, TypeOK
<1>4. CodesKept
  BY DEF CreateCode, CodesKept, NextFree
<1>5. TypeOK'
  BY <1>3 DEF CreateCode, TypeOK
<1>6. Quiet
  BY DEF CreateCode, Quiet, Kept
<1> QED  BY <1>4, <1>5, <1>6

LEMMA CodeGone ==
    ASSUME TypeOK, NEW c \in CodeIds, codes' = [codes EXCEPT ![c].status = "deleted"]
    PROVE  codes' \in [CodeIds -> Code] /\ CodesKept /\ codes'[c].status = "deleted"
BY DEF TypeOK, Code, CodesKept

LEMMA RedeemCodeStep ==
    ASSUME TypeOK, NEW c \in CodeIds, NEW matches \in BOOLEAN, RedeemCode(c, matches)
    PROVE  TypeOK' /\ Quiet /\ CodesKept
<1>1. codes' \in [CodeIds -> Code] /\ CodesKept
  BY CodeGone DEF RedeemCode
<1>2. UNCHANGED <<tokens, role, jobs, now>>
  BY DEF RedeemCode
<1> QED  BY <1>1, <1>2 DEF TypeOK, Quiet, Kept

LEMMA ExchangeCodeStep ==
    ASSUME TypeOK, NEW c \in CodeIds, NEW x \in Nat, ExchangeCode(c, x)
    PROVE  TypeOK' /\ Opens /\ CodesKept
<1>1. codes' \in [CodeIds -> Code] /\ CodesKept /\ codes'[c].status = "deleted"
  BY CodeGone DEF ExchangeCode, CodeDeleted
<1> DEFINE row(t) == [status |-> "live", account |-> codes[c].account, family |-> t,
                      code |-> c, parent |-> None, write |-> codes[c].write,
                      expiresAt |-> x, familyExpiresAt |-> x, scheduledAt |-> x,
                      generation |-> -1]
           call(t) == [family |-> t, deadline |-> x, generation |-> -1,
                       continuation |-> FALSE, legacy |-> FALSE, at |-> x]
<1>2. PICK t \in TokenIds : /\ NextFree(tokens, t)
                            /\ tokens' = [tokens EXCEPT ![t] = row(t)]
                            /\ jobs' = jobs \cup {call(t)}
  BY DEF ExchangeCode
<1>3. row(t) \in Token
  <2>1. codes[c] \in Code
    BY DEF TypeOK
  <2>2. codes[c].account \in Accounts \cup {None} /\ codes[c].write \in BOOLEAN
    BY <2>1 DEF Code
  <2> QED  BY <2>2 DEF Token
<1>4. call(t) \in Job
  BY DEF Job
<1>5. TypeOK'
  <2>1. tokens' \in [TokenIds -> Token]
    BY <1>2, <1>3 DEF TypeOK
  <2>2. jobs' \subseteq Job
    BY <1>2, <1>4 DEF TypeOK
  <2>3. role' = role /\ now' = now
    BY DEF ExchangeCode
  <2> QED  BY <1>1, <2>1, <2>2, <2>3 DEF TypeOK
<1>6. Opens
  <2>1. /\ tokens'[t].status = "live" /\ tokens'[t].family = t
        /\ tokens'[t].code = c /\ tokens'[t].parent = None
    BY <1>2 DEF TypeOK
  <2>2. \A u \in TokenIds \ {t} : Kept(u)
    BY <1>2 DEF Kept, TypeOK
  <2>3. codes[c].status = "live"
    BY DEF ExchangeCode
  <2> QED  BY <1>1, <1>2, <2>1, <2>2, <2>3 DEF Opens
<1> QED  BY <1>1, <1>5, <1>6

LEMMA MembersAreRows ==
    ASSUME TypeOK, NEW f, NEW c \in TokenIds, IsCoordinator(tokens, f, c) \/ IsNewest(tokens, f, c)
    PROVE  tokens[c].family = f /\ tokens[c].status \in Stored
BY DEF IsCoordinator, IsOldest, IsNewest, Family

LEMMA FailClosedStep ==
    ASSUME TypeOK, Rooted, NEW t \in TokenIds, FailClosed(t)
    PROVE  TypeOK' /\ Quiet /\ CodesKept
<1> DEFINE f == tokens[t].family
<1>1. PICK c \in TokenIds, w \in TokenIds :
          /\ IsCoordinator(tokens, f, c)
          /\ tokens' = Scheduled(FamilyRevoked(tokens, f), c, FailClosedDeadline(c))
          /\ jobs' = jobs \cup ScheduledJobs(tokens, c, FailClosedDeadline(c))
  BY DEF FailClosed
<1>2. FailClosedDeadline(c) \in Nat
  <2>1. tokens[c] \in Token
    BY DEF TypeOK
  <2>2. tokens[c].scheduledAt \in Nat \cup {None} /\ now \in Nat
    BY <2>1 DEF Token, TypeOK
  <2> QED  BY <2>2 DEF FailClosedDeadline
<1>3. tokens[c].family \in TokenIds
  BY <1>1, MembersAreRows DEF Rooted, Stored
<1>4. tokens \in [TokenIds -> Token]
  BY DEF TypeOK
<1> DEFINE revoked == FamilyRevoked(tokens, f)
<1>5. revoked \in [TokenIds -> Token]
  BY <1>4, RevokedRows
<1>6. tokens' \in [TokenIds -> Token]
  BY <1>1, <1>2, <1>5, ScheduledRows
<1>7. jobs' \subseteq Job
  BY <1>1, <1>2, <1>3, <1>4, ScheduledCalls DEF TypeOK
<1>8. UNCHANGED <<codes, role, now>>
  BY DEF FailClosed
<1>9. Quiet
  <2> SUFFICES ASSUME NEW u \in TokenIds PROVE Kept(u)
    BY DEF Quiet
  <2>1. /\ tokens'[u].status = revoked[u].status /\ tokens'[u].family = revoked[u].family
        /\ tokens'[u].code = revoked[u].code /\ tokens'[u].parent = revoked[u].parent
        /\ tokens'[u].expiresAt = revoked[u].expiresAt
    BY <1>1, <1>2, <1>5, ScheduledRows
  <2>2. /\ revoked[u].status \in {tokens[u].status, "revoked"}
        /\ tokens[u].status # "live" => revoked[u].status = tokens[u].status
        /\ revoked[u].family = tokens[u].family
        /\ revoked[u].code = tokens[u].code
        /\ revoked[u].parent = tokens[u].parent
        /\ revoked[u].expiresAt = tokens[u].expiresAt
    BY <1>4, RevokedRows
  <2> QED  BY <2>1, <2>2 DEF Kept, Over
<1> QED  BY <1>6, <1>7, <1>8, <1>9 DEF TypeOK, CodesKept

LEMMA RotateStep ==
    ASSUME TypeOK, Rooted, NEW t \in TokenIds, NEW x \in Nat, Rotate(t, x)
    PROVE  TypeOK' /\ (Quiet \/ Grows) /\ CodesKept
<1> DEFINE f == tokens[t].family
           d(c) == Deadline(tokens, c)
           rows(c) == Scheduled(tokens, c, d(c))
           expired(c) == tokens[t].expiresAt <= now \/ d(c) <= now
           authorised == Authorised(tokens[t].account, tokens[t].write)
           row(c) == [status |-> "live", account |-> tokens[t].account,
                      family |-> f, code |-> None, parent |-> t,
                      write |-> tokens[t].write, expiresAt |-> NextExpiry(x, d(c)),
                      familyExpiresAt |-> d(c), scheduledAt |-> None, generation |-> 0]
<1>1. PICK c \in TokenIds, w \in TokenIds :
          /\ IsCoordinator(tokens, f, c)
          /\ jobs' = jobs \cup ScheduledJobs(tokens, c, d(c))
          /\ \/ /\ Spent(t) \/ (~expired(c) /\ ~authorised)
                /\ tokens' = FamilyRevoked(rows(c), f)
             \/ /\ ~Spent(t) /\ expired(c)
                /\ tokens' = [rows(c) EXCEPT ![t].status = "revoked"]
             \/ /\ ~Spent(t) /\ ~expired(c) /\ authorised
                /\ \E n \in TokenIds :
                    /\ NextFree(tokens, n)
                    /\ tokens' = [rows(c) EXCEPT ![t].status = "consumed", ![n] = row(c)]
  BY DEF Rotate
<1>2. /\ tokens \in [TokenIds -> Token] /\ d(c) \in Nat
      /\ tokens[t].status \in Stored /\ UNCHANGED <<codes, role, now>>
  BY DeadlineIsTime DEF TypeOK, Rotate
<1>3. tokens[c].family \in TokenIds
  BY <1>1, MembersAreRows DEF Rooted, Stored
<1>4. jobs' \subseteq Job
  BY <1>1, <1>2, <1>3, ScheduledCalls DEF TypeOK
<1>5. /\ rows(c) \in [TokenIds -> Token]
      /\ \A u \in TokenIds :
           /\ rows(c)[u].status = tokens[u].status /\ rows(c)[u].family = tokens[u].family
           /\ rows(c)[u].code = tokens[u].code /\ rows(c)[u].parent = tokens[u].parent
           /\ rows(c)[u].expiresAt = tokens[u].expiresAt
  BY <1>2, ScheduledRows
<1> HIDE DEF rows
<1>6. SUFFICES tokens' \in [TokenIds -> Token] /\ (Quiet \/ Grows)
  BY <1>2, <1>4 DEF TypeOK, CodesKept
<1>7. CASE tokens' = FamilyRevoked(rows(c), f)
  <2>1. tokens' \in [TokenIds -> Token]
    BY <1>5, <1>7, RevokedRows
  <2>2. ASSUME NEW u \in TokenIds PROVE Kept(u)
    <3>1. /\ tokens'[u].status \in {rows(c)[u].status, "revoked"}
          /\ rows(c)[u].status # "live" => tokens'[u].status = rows(c)[u].status
          /\ tokens'[u].family = rows(c)[u].family
          /\ tokens'[u].code = rows(c)[u].code
          /\ tokens'[u].parent = rows(c)[u].parent
          /\ tokens'[u].expiresAt = rows(c)[u].expiresAt
      BY <1>5, <1>7, RevokedRows
    <3> QED  BY <3>1, <1>5 DEF Kept, Over
  <2> QED  BY <2>1, <2>2 DEF Quiet
<1>8. CASE tokens' = [rows(c) EXCEPT ![t].status = "revoked"]
  <2> DEFINE r == [rows(c)[t] EXCEPT !.status = "revoked"]
  <2>1. /\ r \in Token /\ r.status = "revoked" /\ r.family = rows(c)[t].family
        /\ r.code = rows(c)[t].code /\ r.parent = rows(c)[t].parent
        /\ r.expiresAt = rows(c)[t].expiresAt
    BY <1>5 DEF Token
  <2>2. tokens' = [rows(c) EXCEPT ![t] = r]
    BY <1>8
  <2> HIDE DEF r
  <2>3. tokens' \in [TokenIds -> Token]
    BY <2>1, <2>2, <1>5
  <2>4. ASSUME NEW u \in TokenIds PROVE Kept(u)
    BY <2>1, <2>2, <1>2, <1>5 DEF Kept, Over, Stored
  <2> QED  BY <2>3, <2>4 DEF Quiet
<1>9. CASE /\ ~Spent(t)
           /\ \E n \in TokenIds :
                  /\ NextFree(tokens, n)
                  /\ tokens' = [rows(c) EXCEPT ![t].status = "consumed", ![n] = row(c)]
  <2>1. PICK n \in TokenIds :
            /\ NextFree(tokens, n)
            /\ tokens' = [rows(c) EXCEPT ![t].status = "consumed", ![n] = row(c)]
    BY <1>9
  <2>2. tokens[t].status = "live" /\ n # t
    BY <1>9, <1>2, <2>1 DEF Spent, Stored, NextFree
  <2> DEFINE r == [rows(c)[t] EXCEPT !.status = "consumed"]
  <2>3. /\ r \in Token /\ r.status = "consumed" /\ r.family = rows(c)[t].family
        /\ r.code = rows(c)[t].code /\ r.parent = rows(c)[t].parent
        /\ r.expiresAt = rows(c)[t].expiresAt
    BY <1>5 DEF Token
  <2>4. row(c) \in Token
    <3>1. tokens[t] \in Token
      BY <1>2
    <3>2. tokens[t].account \in Accounts \cup {None} /\ tokens[t].write \in BOOLEAN
      BY <3>1 DEF Token
    <3>3. f \in TokenIds
      BY <1>2 DEF Rooted, Stored
    <3>4. NextExpiry(x, d(c)) \in Nat
      BY <1>2 DEF NextExpiry, Min2
    <3> QED  BY <3>2, <3>3, <3>4, <1>2 DEF Token
  <2>5. /\ row(c).status = "live" /\ row(c).family = f
        /\ row(c).code = None /\ row(c).parent = t
    OBVIOUS
  <2>6. tokens' = [[rows(c) EXCEPT ![t] = r] EXCEPT ![n] = row(c)]
    BY <2>1
  <2> HIDE DEF r, row
  <2>7. tokens' \in [TokenIds -> Token] /\ tokens'[n] = row(c) /\ tokens'[t] = r
    BY <1>5, <2>2, <2>3, <2>4, <2>6
  <2>8. ASSUME NEW u \in TokenIds \ {n} PROVE Kept(u)
    BY <1>5, <2>2, <2>3, <2>6, <2>7 DEF Kept, Over
  <2>9. Grows
    BY <2>1, <2>2, <2>3, <2>5, <2>7, <2>8 DEF Grows
  <2> QED  BY <2>7, <2>9
<1> QED  BY <1>1, <1>7, <1>8, <1>9

\* A clean-up call leaves the rows, schedules again, or deletes a batch.
LEMMA CleanupStep ==
    ASSUME TypeOK, Rooted, NEW j \in jobs, Cleanup(j)
    PROVE  TypeOK' /\ Quiet /\ CodesKept
<1> DEFINE f == j.family
<1>1. /\ tokens \in [TokenIds -> Token] /\ now \in Nat /\ jobs \subseteq Job /\ j \in Job
      /\ UNCHANGED <<codes, role, now>>
  BY DEF TypeOK, Cleanup
<1>2. /\ j.family \in TokenIds /\ j.deadline \in Nat /\ j.generation \in Int
      /\ j.continuation \in BOOLEAN
  BY <1>1 DEF Job
<1>3. SUFFICES tokens' \in [TokenIds -> Token] /\ jobs' \subseteq Job /\ Quiet
  BY <1>1 DEF TypeOK, CodesKept
<1>4. CASE UNCHANGED tokens /\ jobs' = jobs \ {j}
  BY <1>1, <1>4 DEF Quiet, Kept
<1> DEFINE agreed(w) == \A u \in Oldest(f, Batch + 1) \cup {w} : Deadline(tokens, u) = j.deadline
           canonical(w) == IF j.continuation \/ agreed(w) THEN j.deadline
                           ELSE Min2(j.deadline, now)
           rows(c) == IF j.continuation THEN tokens
                      ELSE [tokens EXCEPT ![c].scheduledAt = None]
           calls(w) == {[family |-> f, deadline |-> canonical(w),
                         generation |-> j.generation, continuation |-> TRUE,
                         legacy |-> FALSE, at |-> now] :
                           t \in Family(tokens, f) \ Oldest(f, Batch)}
<1>5. CASE ~(UNCHANGED tokens /\ jobs' = jobs \ {j})
  <2>1. PICK c \in TokenIds, w \in TokenIds :
          /\ IsCoordinator(tokens, f, c)
          /\ \/ /\ tokens' = Scheduled(tokens, c, canonical(w))
                /\ jobs' = (jobs \ {j}) \cup ScheduledJobs(tokens, c, canonical(w))
             \/ /\ tokens' = Scheduled(rows(c), c, canonical(w))
                /\ jobs' = (jobs \ {j}) \cup ScheduledJobs(rows(c), c, canonical(w))
             \/ /\ tokens' = [t \in TokenIds |-> IF t \in Oldest(f, Batch)
                                  THEN [rows(c)[t] EXCEPT !.status = "deleted"] ELSE rows(c)[t]]
                /\ jobs' = (jobs \ {j}) \cup calls(w)
    BY <1>5 DEF Cleanup
  <2>2. canonical(w) \in Nat
    BY <1>1, <1>2 DEF Min2
  <2>3. tokens[c].family \in TokenIds
    BY <2>1, MembersAreRows DEF Rooted, Stored
  <2>4. /\ rows(c) \in [TokenIds -> Token]
        /\ \A u \in TokenIds :
             /\ rows(c)[u].status = tokens[u].status /\ rows(c)[u].family = tokens[u].family
             /\ rows(c)[u].code = tokens[u].code /\ rows(c)[u].parent = tokens[u].parent
             /\ rows(c)[u].expiresAt = tokens[u].expiresAt
    <3> DEFINE r == [tokens[c] EXCEPT !.scheduledAt = None]
    <3>1. /\ r \in Token /\ r.status = tokens[c].status /\ r.family = tokens[c].family
          /\ r.code = tokens[c].code /\ r.parent = tokens[c].parent
          /\ r.expiresAt = tokens[c].expiresAt
      BY <1>1 DEF Token
    <3>2. rows(c) = IF j.continuation THEN tokens ELSE [tokens EXCEPT ![c] = r]
      OBVIOUS
    <3> HIDE DEF r, rows
    <3> QED  BY <1>1, <3>1, <3>2
  <2> HIDE DEF rows, canonical
  <2>5. CASE /\ tokens' = Scheduled(tokens, c, canonical(w))
             /\ jobs' = (jobs \ {j}) \cup ScheduledJobs(tokens, c, canonical(w))
    <3>1. jobs' \subseteq Job
      BY <1>1, <2>2, <2>3, <2>5, ScheduledCalls
    <3>2. tokens' \in [TokenIds -> Token] /\ Quiet
      BY <1>1, <2>2, <2>5, ScheduledRows DEF Quiet, Kept
    <3> QED  BY <3>1, <3>2
  <2>6. CASE /\ tokens' = Scheduled(rows(c), c, canonical(w))
             /\ jobs' = (jobs \ {j}) \cup ScheduledJobs(rows(c), c, canonical(w))
    <3>1. jobs' \subseteq Job
      BY <1>1, <2>2, <2>3, <2>4, <2>6, ScheduledCalls
    <3>2. tokens' \in [TokenIds -> Token] /\ Quiet
      BY <2>2, <2>4, <2>6, ScheduledRows DEF Quiet, Kept
    <3> QED  BY <3>1, <3>2
  <2>7. CASE /\ tokens' = [t \in TokenIds |-> IF t \in Oldest(f, Batch)
                               THEN [rows(c)[t] EXCEPT !.status = "deleted"] ELSE rows(c)[t]]
             /\ jobs' = (jobs \ {j}) \cup calls(w)
    <3>1. [family |-> f, deadline |-> canonical(w), generation |-> j.generation,
           continuation |-> TRUE, legacy |-> FALSE, at |-> now] \in Job
      BY <1>1, <1>2, <2>2 DEF Job
    <3>2. jobs' \subseteq Job
      BY <1>1, <2>7, <3>1
    <3>3. \A u \in TokenIds : LET r == [rows(c)[u] EXCEPT !.status = "deleted"]
              IN  /\ r \in Token /\ r.status = "deleted" /\ r.family = rows(c)[u].family
                  /\ r.code = rows(c)[u].code /\ r.parent = rows(c)[u].parent
                  /\ r.expiresAt = rows(c)[u].expiresAt
      BY <2>4 DEF Token
    <3>4. tokens' \in [TokenIds -> Token]
      BY <2>4, <2>7, <3>3
    <3>5. \A u \in Oldest(f, Batch) : tokens[u].status # "free"
      BY DEF Oldest, Family, Stored
    <3>6. Quiet
      BY <2>4, <2>7, <3>3, <3>5 DEF Quiet, Kept, Over
    <3> QED  BY <3>2, <3>4, <3>6
  <2> QED  BY <2>1, <2>5, <2>6, <2>7
<1> QED  BY <1>4, <1>5

-----------------------------------------------------------------------------
(* The three forms of a step keep the invariant. *)

FamilyParts == FreeRows /\ Inserted /\ Rooted /\ OneLiveToken
               /\ CodesSpent /\ ParentsSpent /\ Unshared

LEMMA QuietKeeps ==
    ASSUME FamilyInv, TypeOK', Quiet, CodesKept
    PROVE  FamilyParts'
<1> USE DEF FamilyInv
<1>1. \A u \in TokenIds : Kept(u)
  BY DEF Quiet
<1>2. FreeRows' /\ Inserted' /\ Rooted'
  BY <1>1 DEF FreeRows, Inserted, Rooted, Kept, Over
<1>3. OneLiveToken'
  BY <1>1 DEF OneLiveToken, Kept, Over
<1>4. CodesSpent'
  <2> SUFFICES ASSUME NEW u \in TokenIds, tokens'[u].code # None
               PROVE  codes'[tokens'[u].code].status = "deleted"
    BY DEF CodesSpent
  <2>1. tokens[u].code \in CodeIds \cup {None}
    BY DEF TypeOK, Token
  <2> QED  BY <1>1, <2>1 DEF CodesSpent, CodesKept, Kept
<1>5. ParentsSpent'
  <2> SUFFICES ASSUME NEW u \in TokenIds, tokens'[u].parent # None
               PROVE  tokens'[tokens'[u].parent].status \in Over
    BY DEF ParentsSpent
  <2>1. tokens[u].parent \in TokenIds \cup {None}
    BY DEF TypeOK, Token
  <2> QED  BY <1>1, <2>1 DEF ParentsSpent, Kept
<1>6. Unshared'
  BY <1>1 DEF Unshared, Kept
<1> QED  BY <1>2, <1>3, <1>4, <1>5, <1>6 DEF FamilyParts

LEMMA OpensKeeps ==
    ASSUME FamilyInv, TypeOK', Opens, CodesKept
    PROVE  FamilyParts'
<1> USE DEF FamilyInv
<1>1. PICK c \in CodeIds, t \in TokenIds :
        /\ codes[c].status = "live" /\ codes'[c].status = "deleted"
        /\ NextFree(tokens, t)
        /\ tokens'[t].status = "live" /\ tokens'[t].family = t
        /\ tokens'[t].code = c /\ tokens'[t].parent = None
        /\ \A u \in TokenIds \ {t} : Kept(u)
  BY DEF Opens
<1>2. /\ tokens[t].status = "free"
      /\ \A u \in TokenIds : u < t => tokens[u].status # "free"
      /\ \A u \in TokenIds : u \in Nat
  BY <1>1, IdsAssumption DEF NextFree, TypeOK
<1>3. \A u \in TokenIds : /\ tokens[u].code \in CodeIds \cup {None}
                          /\ tokens[u].parent \in TokenIds \cup {None}
  BY DEF TypeOK, Token
<1>4. \A u \in TokenIds : tokens[u].family # t
  BY <1>2, NoneIsNoId DEF FreeRows, Rooted
<1>5. FreeRows' /\ Inserted' /\ Rooted'
  <2>1. FreeRows'
    BY <1>1 DEF FreeRows, Kept, Over
  <2>2. Inserted'
    BY <1>1, <1>2 DEF Inserted, Kept, Over
  <2>3. Rooted'
    BY <1>1, <1>2, <1>4 DEF Rooted, Kept, Over
  <2> QED  BY <2>1, <2>2, <2>3
<1>6. OneLiveToken'
  BY <1>1, <1>2, <1>4 DEF OneLiveToken, Kept, Over
<1>7. CodesSpent'
  BY <1>1, <1>3 DEF CodesSpent, CodesKept, Kept
<1>8. ParentsSpent'
  BY <1>1, <1>2, <1>3 DEF ParentsSpent, Kept, Over
<1>9. Unshared'
  <2>1. \A u \in TokenIds : tokens[u].code # c
    BY <1>1, NoneIsNoId DEF CodesSpent
  <2> QED  BY <1>1, <2>1 DEF Unshared, Kept
<1> QED  BY <1>5, <1>6, <1>7, <1>8, <1>9 DEF FamilyParts

LEMMA GrowsKeeps ==
    ASSUME FamilyInv, TypeOK', Grows, CodesKept
    PROVE  FamilyParts'
<1> USE DEF FamilyInv
<1>1. PICK t \in TokenIds, n \in TokenIds :
        /\ tokens[t].status = "live" /\ tokens'[t].status = "consumed"
        /\ NextFree(tokens, n)
        /\ tokens'[n].status = "live" /\ tokens'[n].family = tokens[t].family
        /\ tokens'[n].code = None /\ tokens'[n].parent = t
        /\ \A u \in TokenIds \ {n} : Kept(u)
  BY DEF Grows
<1>2. /\ tokens[n].status = "free" /\ n # t
      /\ \A u \in TokenIds : u < n => tokens[u].status # "free"
      /\ \A u \in TokenIds : u \in Nat
  BY <1>1, IdsAssumption DEF NextFree, TypeOK
<1>3. \A u \in TokenIds : /\ tokens[u].code \in CodeIds \cup {None}
                          /\ tokens[u].parent \in TokenIds \cup {None}
  BY DEF TypeOK, Token
<1>4. tokens[t].family \in TokenIds /\ tokens[t].family # n
  BY <1>1, <1>2 DEF Rooted
<1>5. FreeRows' /\ Inserted' /\ Rooted'
  <2>1. FreeRows'
    BY <1>1 DEF FreeRows, Kept, Over
  <2>2. Inserted'
    BY <1>1, <1>2 DEF Inserted, Kept, Over
  <2>3. Rooted'
    BY <1>1, <1>2, <1>4 DEF Rooted, Kept, Over
  <2> QED  BY <2>1, <2>2, <2>3
<1>6. OneLiveToken'
  <2> SUFFICES ASSUME NEW v \in TokenIds, NEW u \in TokenIds, tokens'[v].status = "live",
                      tokens'[u].family = tokens'[v].family
               PROVE  u <= v
    BY DEF OneLiveToken
  <2>1. CASE v = n
    <3>1. CASE u = n  BY <1>2, <2>1, <3>1
    <3>2. CASE u # n
      <4>1. tokens[u].status # "free"
        BY <1>1, <1>4, <2>1, <3>2, NoneIsNoId DEF FreeRows, Kept
      <4> QED  BY <1>2, <2>1, <4>1 DEF Inserted
    <3> QED  BY <3>1, <3>2
  <2>2. CASE v # n
    <3>1. tokens[v].status = "live" /\ v # t
      BY <1>1, <2>2 DEF Kept, Over
    <3>2. tokens[v].family # tokens[t].family
      BY <1>1, <1>2, <3>1 DEF OneLiveToken
    <3>3. u # n
      BY <1>1, <2>2, <3>2 DEF Kept
    <3> QED  BY <1>1, <2>2, <3>1, <3>3 DEF OneLiveToken, Kept
  <2> QED  BY <2>1, <2>2
<1>7. CodesSpent'
  BY <1>1, <1>3 DEF CodesSpent, CodesKept, Kept
<1>8. ParentsSpent'
  BY <1>1, <1>2, <1>3 DEF ParentsSpent, Kept, Over
<1>9. Unshared'
  <2>1. \A u \in TokenIds : tokens[u].parent # t
    BY <1>1, NoneIsNoId DEF ParentsSpent, Over
  <2> QED  BY <1>1, <2>1 DEF Unshared, Kept
<1> QED  BY <1>5, <1>6, <1>7, <1>8, <1>9 DEF FamilyParts

-----------------------------------------------------------------------------
\* Every step of Next has one of the three forms, or changes no row.
LEMMA StepForms ==
    ASSUME FamilyInv, [Next]_vars
    PROVE  TypeOK' /\ CodesKept /\ (Quiet \/ Opens \/ Grows)
<1> USE DEF FamilyInv
<1>0. \A x \in now..(now + MaxCode + 1) : x \in Nat
  BY DEF TypeOK
<1>00. \A x \in now..(now + MaxRefresh + 1) : x \in Nat
  BY DEF TypeOK
<1>1. CASE CodeRequests
  BY <1>0, <1>00, <1>1, CreateCodeStep, RedeemCodeStep, ExchangeCodeStep DEF CodeRequests
<1>2. CASE TokenRequests
  BY <1>00, <1>2, FailClosedStep, RotateStep DEF TokenRequests
<1>3. CASE \E j \in jobs : Cleanup(j)
  BY <1>3, CleanupStep
<1>4. CASE \E a \in Accounts, r \in Roles : SetRole(a, r)
  BY <1>4 DEF SetRole, TypeOK, CodesKept, Quiet, Kept
<1>5. CASE Tick
  BY <1>5 DEF Tick, TypeOK, CodesKept, Quiet, Kept
<1>6. CASE UNCHANGED vars
  BY <1>6 DEF vars, TypeOK, CodesKept, Quiet, Kept
<1> QED  BY <1>1, <1>2, <1>3, <1>4, <1>5, <1>6 DEF Next

LEMMA StepKeeps ==
    ASSUME FamilyInv, [Next]_vars
    PROVE  FamilyInv'
<1>1. TypeOK' /\ CodesKept /\ (Quiet \/ Opens \/ Grows)
  BY StepForms
<1>2. FamilyParts'
  BY <1>1, QuietKeeps, OpensKeeps, GrowsKeeps
<1> QED  BY <1>1, <1>2 DEF FamilyInv, FamilyParts

LEMMA LegacyTokenRow ==
    ASSUME NEW a \in Accounts, NEW st \in {"live", "consumed"}, NEW f \in TokenIds,
           NEW x \in Nat, NEW d \in Nat \cup {None}, NEW g \in {0, 1}
    PROVE  LET k == LegacyToken(a, st, f, x, d, g)
           IN  /\ k \in Token /\ k.status = st /\ k.family = f
               /\ k.code = None /\ k.parent = None
<1>1. LegacyToken(a, st, f, x, d, g) \in Token
  BY DEF LegacyToken, Token
<1> QED  BY <1>1 DEF LegacyToken

LEMMA FreeTokenRow ==
    /\ FreeToken \in Token /\ FreeToken.status = "free" /\ FreeToken.family = None
    /\ FreeToken.code = None /\ FreeToken.parent = None
BY DEF FreeToken, Token

\* The rows of an earlier release: nothing, a root, or a root and its successor.
LegacyForm(r, t) ==
    /\ \A u \in TokenIds \ {r, t} : tokens[u] = FreeToken
    /\ \/ tokens[r] = FreeToken /\ tokens[t] = FreeToken
       \/ /\ tokens[r].status = "live" /\ tokens[r].family = r /\ tokens[r].code = None
          /\ tokens[r].parent = None /\ tokens[t] = FreeToken
       \/ /\ tokens[r].status = "consumed" /\ tokens[r].family = r /\ tokens[r].code = None
          /\ tokens[r].parent = None
          /\ tokens[t].status = "live" /\ tokens[t].family = r /\ tokens[t].code = None
          /\ tokens[t].parent = None

LEMMA InitForm ==
    ASSUME Init
    PROVE  TypeOK /\ \E r, t \in TokenIds : FirstIds(r, t) /\ LegacyForm(r, t)
<1> DEFINE free == [u \in TokenIds |-> FreeToken]
           root(a, r) == LegacyToken(a, "live", r, MaxRefresh, None, 0)
           used(a, r) == LegacyToken(a, "consumed", r, MaxRefresh, None, 0)
           next(a, r) == LegacyToken(a, "live", r, MaxRefresh + 1, None, 0)
           timed(a, r) == LegacyToken(a, "live", r, MaxRefresh, MaxRefresh, 1)
           call(r) == [family |-> r, deadline |-> MaxRefresh, generation |-> 1,
                       continuation |-> FALSE, legacy |-> TRUE, at |-> MaxRefresh]
<1>1. PICK a \in Accounts, r \in TokenIds, t \in TokenIds : FirstIds(r, t) /\ LegacyRows(a, r, t)
  BY DEF Init
<1>2. \/ tokens = free /\ jobs = {}
      \/ tokens = [free EXCEPT ![r] = root(a, r)] /\ jobs = {}
      \/ tokens = [free EXCEPT ![r] = used(a, r), ![t] = next(a, r)] /\ jobs = {}
      \/ tokens = [free EXCEPT ![r] = timed(a, r)] /\ jobs = {call(r)}
  BY <1>1 DEF LegacyRows
<1> DEFINE dates == Nat \cup {None}
<1>0. None \in dates /\ MaxRefresh \in dates /\ MaxRefresh \in Nat /\ MaxRefresh + 1 \in Nat
  BY BoundsAssumption
<1> HIDE DEF dates
<1>00. \A st \in {"live", "consumed"}, x \in Nat, d \in dates, g \in {0, 1} :
         LET k == LegacyToken(a, st, r, x, d, g)
         IN  k \in Token /\ k.status = st /\ k.family = r /\ k.code = None /\ k.parent = None
  BY LegacyTokenRow DEF dates
<1>3. /\ root(a, r) \in Token /\ root(a, r).status = "live" /\ root(a, r).family = r
      /\ root(a, r).code = None /\ root(a, r).parent = None
  BY <1>0, <1>00
<1>4. /\ next(a, r) \in Token /\ next(a, r).status = "live" /\ next(a, r).family = r
      /\ next(a, r).code = None /\ next(a, r).parent = None
  BY <1>0, <1>00
<1>5. /\ used(a, r) \in Token /\ used(a, r).status = "consumed" /\ used(a, r).family = r
      /\ used(a, r).code = None /\ used(a, r).parent = None
  BY <1>0, <1>00
<1>6. /\ timed(a, r) \in Token /\ timed(a, r).status = "live" /\ timed(a, r).family = r
      /\ timed(a, r).code = None /\ timed(a, r).parent = None
  BY <1>0, <1>00
<1>7. call(r) \in Job
  BY BoundsAssumption DEF Job
<1>8. r # t
  BY <1>1 DEF FirstIds
<1> HIDE DEF root, next, used, timed, call
<1>9. TypeOK
  <2>1. tokens \in [TokenIds -> Token]
    BY <1>2, <1>3, <1>4, <1>5, <1>6, FreeTokenRow
  <2>2. jobs \subseteq Job
    BY <1>2, <1>7
  <2>3. FreeCode \in Code
    BY DEF FreeCode, Code
  <2> QED  BY <2>1, <2>2, <2>3 DEF Init, TypeOK
<1>10. LegacyForm(r, t)
  BY <1>2, <1>3, <1>4, <1>5, <1>6, <1>8 DEF LegacyForm
<1> QED  BY <1>1, <1>9, <1>10

LEMMA InitKeeps == Init => FamilyInv
<1> SUFFICES ASSUME Init PROVE FamilyInv
  OBVIOUS
<1>1. TypeOK
  BY InitForm
<1>2. PICK r \in TokenIds, t \in TokenIds : FirstIds(r, t) /\ LegacyForm(r, t)
  BY InitForm
<1>3. /\ \A u \in TokenIds : u \in Nat
      /\ r # t /\ \A u \in TokenIds : r <= u /\ (u # r => t <= u)
  BY <1>2, IdsAssumption DEF FirstIds
<1>4. \A u \in TokenIds : tokens[u].code = None /\ tokens[u].parent = None
  BY <1>2, FreeTokenRow DEF LegacyForm
<1>5. FreeRows /\ Inserted /\ Rooted /\ OneLiveToken
  BY <1>2, <1>3, FreeTokenRow, NoneIsNoId DEF LegacyForm, FreeRows, Inserted, Rooted, OneLiveToken
<1> QED  BY <1>1, <1>4, <1>5 DEF FamilyInv, CodesSpent, ParentsSpent, Unshared

LEMMA FamilyInvariance == Spec => []FamilyInv
BY InitKeeps, StepKeeps, PTL DEF Spec

\* A family never has two live tokens, and the live one is its newest row,
\* whatever is rotated, replayed, revoked or deleted in between.
THEOREM SingleLiveToken == Spec => []OneLiveToken
<1>1. FamilyInv => OneLiveToken
  BY DEF FamilyInv
<1> QED  BY <1>1, FamilyInvariance, PTL

-----------------------------------------------------------------------------
(* Families that have ended. *)

LEMMA EndedStays ==
    ASSUME FamilyInv, Quiet \/ Opens \/ Grows,
           NEW f \in TokenIds, tokens[f].status # "free", Live(f) = {}
    PROVE  Live(f)' = {}
<1> SUFFICES ASSUME NEW v \in TokenIds, tokens'[v].family = f, tokens'[v].status = "live"
             PROVE  FALSE
  BY DEF Live
<1>1. ASSUME Kept(v) PROVE FALSE
  BY <1>1 DEF Kept, Over, Live
<1>2. CASE Quiet
  BY <1>1, <1>2 DEF Quiet
<1>3. CASE Opens
  <2>1. PICK t \in TokenIds : /\ NextFree(tokens, t) /\ tokens'[t].family = t
                              /\ \A u \in TokenIds \ {t} : Kept(u)
    BY <1>3 DEF Opens
  <2>2. v # t
    BY <2>1 DEF NextFree
  <2> QED  BY <1>1, <2>1, <2>2
<1>4. CASE Grows
  <2>1. PICK t \in TokenIds, n \in TokenIds :
          /\ tokens[t].status = "live" /\ tokens'[n].family = tokens[t].family
          /\ \A u \in TokenIds \ {n} : Kept(u)
    BY <1>4 DEF Grows
  <2>2. v # n
    BY <2>1 DEF Live
  <2> QED  BY <1>1, <2>1, <2>2
<1> QED  BY <1>2, <1>3, <1>4

\* Where the live token is the newest row, revoking a family ends it.
LEMMA RevokingEnds ==
    ASSUME NEW rows \in [TokenIds -> Token], NEW f,
           \A v, u \in TokenIds :
               rows[v].status = "live" /\ rows[u].family = rows[v].family => u <= v
    PROVE  \A v \in TokenIds : FamilyRevoked(rows, f)[v].family = f
                               => FamilyRevoked(rows, f)[v].status # "live"
<1> SUFFICES ASSUME NEW v \in TokenIds, FamilyRevoked(rows, f)[v].family = f,
                    FamilyRevoked(rows, f)[v].status = "live"
             PROVE  FALSE
  OBVIOUS
<1>1. rows[v].family = f /\ rows[v].status = "live"
  BY RevokedRows
<1>2. IsNewest(rows, f, v)
  BY <1>1 DEF IsNewest, Family, Stored
<1>3. FamilyRevoked(rows, f)[v] = [rows[v] EXCEPT !.status = "revoked"]
  BY <1>1, <1>2 DEF FamilyRevoked
<1>4. rows[v] \in Token
  OBVIOUS
<1> QED  BY <1>3, <1>4 DEF Token

LEMMA ReplayRevokes ==
    ASSUME FamilyInv, NEW t \in TokenIds, tokens[t].status \in {"consumed", "revoked"},
           Rotate(t, now) \/ FailClosed(t)
    PROVE  Live(tokens[t].family)' = {}
<1> DEFINE f == tokens[t].family
<1>1. /\ tokens \in [TokenIds -> Token] /\ now \in Nat /\ TypeOK /\ Rooted
      /\ \A v, u \in TokenIds :
           tokens[v].status = "live" /\ tokens[u].family = tokens[v].family => u <= v
  BY DEF FamilyInv, TypeOK, OneLiveToken
<1>2. tokens'[t].family = f
  <2>1. CASE Rotate(t, now)
    <3>1. Quiet \/ Grows
      BY <1>1, <2>1, RotateStep
    <3>2. CASE Quiet
      BY <3>2 DEF Quiet, Kept
    <3>3. CASE Grows
      BY <3>3 DEF Grows, Kept, NextFree
    <3> QED  BY <3>1, <3>2, <3>3
  <2>2. CASE FailClosed(t)
    BY <1>1, <2>2, FailClosedStep DEF Quiet, Kept
  <2> QED  BY <2>1, <2>2
<1>3. SUFFICES \A v \in TokenIds : tokens'[v].family = f => tokens'[v].status # "live"
  BY <1>2 DEF Live
<1>4. CASE FailClosed(t)
  <2>1. PICK c \in TokenIds : tokens' = Scheduled(FamilyRevoked(tokens, f), c, FailClosedDeadline(c))
    BY <1>4 DEF FailClosed
  <2>2. FailClosedDeadline(c) \in Nat
    <3>1. tokens[c] \in Token
      BY <1>1
    <3>2. tokens[c].scheduledAt \in Nat \cup {None}
      BY <3>1 DEF Token
    <3> QED  BY <1>1, <3>2 DEF FailClosedDeadline
  <2> DEFINE rows == FamilyRevoked(tokens, f)
  <2>3. /\ rows \in [TokenIds -> Token]
        /\ \A v \in TokenIds : rows[v].family = f => rows[v].status # "live"
    BY <1>1, RevokedRows, RevokingEnds
  <2> HIDE DEF rows
  <2>4. \A v \in TokenIds : /\ tokens'[v].family = rows[v].family
                            /\ tokens'[v].status = rows[v].status
    BY <2>1, <2>2, <2>3, ScheduledRows DEF rows
  <2> QED  BY <2>3, <2>4
<1>5. CASE Rotate(t, now)
  <2>1. PICK c \in TokenIds : tokens' = FamilyRevoked(Scheduled(tokens, c, Deadline(tokens, c)), f)
    BY <1>5 DEF Rotate, Spent
  <2> DEFINE rows == Scheduled(tokens, c, Deadline(tokens, c))
  <2>2. /\ rows \in [TokenIds -> Token]
        /\ \A v \in TokenIds : rows[v].family = tokens[v].family /\ rows[v].status = tokens[v].status
    BY <1>1, DeadlineIsTime, ScheduledRows
  <2> HIDE DEF rows
  <2>3. \A v, u \in TokenIds :
            rows[v].status = "live" /\ rows[u].family = rows[v].family => u <= v
    BY <1>1, <2>2
  <2>4. \A v \in TokenIds : FamilyRevoked(rows, f)[v].family = f
                            => FamilyRevoked(rows, f)[v].status # "live"
    BY <2>2, <2>3, RevokingEnds
  <2> QED  BY <2>1, <2>4 DEF rows
<1> QED  BY <1>4, <1>5

\* A token that was used or revoked ends its family when it is presented
\* again, and no family that has ended gets a live token again.
THEOREM ReplaysEndFamilies == Spec => ReplayEndsFamily
<1> DEFINE A == /\ \A f \in TokenIds : Live(f) = {} /\ tokens[f].status # "free" => Live(f)' = {}
                /\ \A t \in TokenIds :
                     /\ tokens[t].status \in {"consumed", "revoked"}
                     /\ Rotate(t, now) \/ FailClosed(t)
                     => Live(tokens[t].family)' = {}
<1>1. FamilyInv /\ [Next]_vars => [A]_vars
  <2> SUFFICES ASSUME FamilyInv, [Next]_vars PROVE A
    OBVIOUS
  <2>1. Quiet \/ Opens \/ Grows
    BY StepForms
  <2> QED  BY <2>1, EndedStays, ReplayRevokes
<1> QED  BY <1>1, FamilyInvariance, PTL DEF Spec, ReplayEndsFamily

-----------------------------------------------------------------------------
(* No successor outlives the token its code was exchanged for.  A live token *)
(* has a deadline within its root's expiry, or its root disagrees with it    *)
(* and no call is owed to the family, so that rotateRefreshToken shuts the   *)
(* family down before a clean-up call can make the two agree.                *)

Bounded(u) == Deadline(tokens, u) <= tokens[tokens[u].family].expiresAt

Split(u) ==
    LET f == tokens[u].family
    IN  /\ f \in Family(tokens, f) /\ Deadline(tokens, f) # Deadline(tokens, u)
        /\ \A j \in jobs : j.family # f

LiveBounded == \A u \in TokenIds : tokens[u].status = "live" => Bounded(u) \/ Split(u)

\* A batch's next call is due, and a call of the old form asks for no more than
\* the root's expiry.
JobsBounded ==
    \A j \in jobs :
        /\ j.continuation => j.deadline <= now /\ j.generation < 0
        /\ j.generation >= 0 => /\ tokens[j.family].status # "free"
                                /\ j.deadline <= tokens[j.family].expiresAt

SuccessorsBounded ==
    \A t \in TokenIds : tokens[t].parent # None =>
        tokens[t].expiresAt <= tokens[tokens[t].family].expiresAt

LineageInv == FamilyInv /\ LiveBounded /\ JobsBounded /\ SuccessorsBounded

\* A step that is about the family f: the rows of the others stay, and so do
\* the calls owed to them.
Elsewhere(f) ==
    /\ \A u \in TokenIds :
        /\ tokens[u].status # "free" /\ tokens[u].family # f => tokens'[u] = tokens[u]
        /\ tokens[u].status = "free" => tokens'[u] = tokens[u] \/ tokens'[u].family = f
    /\ \A j \in jobs' : j \in jobs \/ j.family = f

\* What every step keeps of a row that is in use, the newest of a family or not.
RowsKept == \A u \in TokenIds : tokens[u].status # "free" => Kept(u)

LEMMA FormsKeepRows ==
    ASSUME Quiet \/ Opens \/ Grows
    PROVE  RowsKept
<1>1. CASE Quiet
  BY <1>1 DEF Quiet, RowsKept
<1>2. CASE Opens
  BY <1>2 DEF Opens, NextFree, RowsKept
<1>3. CASE Grows
  BY <1>3 DEF Grows, NextFree, RowsKept
<1> QED  BY <1>1, <1>2, <1>3

\* The live tokens of the other families stay bounded.
LEMMA OthersBounded ==
    ASSUME LineageInv, TypeOK', RowsKept, NEW f, Elsewhere(f),
           NEW u \in TokenIds, tokens'[u].status = "live", tokens'[u].family # f
    PROVE  Bounded(u)' \/ Split(u)'
<1>1. FreeRows /\ Rooted /\ LiveBounded
  BY DEF LineageInv, FamilyInv
<1>2. tokens[u].status # "free"
  <2>1. SUFFICES ASSUME tokens[u].status = "free" PROVE FALSE
    OBVIOUS
  <2>2. tokens'[u] = tokens[u]
    BY <2>1 DEF Elsewhere
  <2> QED  BY <2>1, <2>2
<1>3. Kept(u)
  BY <1>2 DEF RowsKept
<1>4. tokens[u].family # f /\ tokens'[u] = tokens[u]
  BY <1>2, <1>3 DEF Kept, Elsewhere
<1> DEFINE g == tokens[u].family
<1>5. /\ g \in TokenIds /\ tokens[g].status # "free" /\ g # f
      /\ tokens'[u].family = g /\ tokens'[g].expiresAt = tokens[g].expiresAt
  BY <1>1, <1>2, <1>4 DEF Rooted, RowsKept, Kept
<1>6. CASE Bounded(u)
  BY <1>4, <1>5, <1>6 DEF Bounded, Deadline
<1>7. CASE Split(u)
  <2>1. tokens[g].family = g /\ tokens[g].status \in Stored
    BY <1>7 DEF Split, Family
  <2>2. tokens'[g] = tokens[g]
    BY <1>5, <2>1 DEF Elsewhere
  <2>3. g \in Family(tokens, g)' /\ Deadline(tokens, g)' # Deadline(tokens, u)'
    BY <1>4, <1>7, <2>1, <2>2, <1>5 DEF Split, Family, Deadline
  <2>4. \A j \in jobs' : j.family # g
    BY <1>5, <1>7 DEF Split, Elsewhere
  <2> QED  BY <1>4, <2>3, <2>4 DEF Split
<1> QED  BY <1>1, <1>4, <1>6, <1>7 DEF LiveBounded

\* A call that is still owed keeps its bounds as the clock moves on.
JobBounded(j) ==
    /\ j.continuation => j.deadline <= now /\ j.generation < 0
    /\ j.generation >= 0 => /\ tokens[j.family].status # "free"
                            /\ j.deadline <= tokens[j.family].expiresAt

LEMMA JobStaysBounded ==
    ASSUME LineageInv, RowsKept, now' \in Nat, now' >= now, NEW j \in jobs
    PROVE  JobBounded(j)'
<1>1. /\ j \in Job /\ now \in Nat
      /\ j.continuation => j.deadline <= now /\ j.generation < 0
      /\ j.generation >= 0 => /\ tokens[j.family].status # "free"
                              /\ j.deadline <= tokens[j.family].expiresAt
  BY DEF LineageInv, FamilyInv, TypeOK, JobsBounded
<1>2. j.family \in TokenIds /\ j.deadline \in Nat /\ j.generation \in Int
  BY <1>1 DEF Job
<1>3. j.continuation => j.deadline <= now'
  BY <1>1, <1>2
<1>4. j.generation >= 0 => /\ tokens'[j.family].status # "free"
                           /\ j.deadline <= tokens'[j.family].expiresAt
  BY <1>1, <1>2 DEF RowsKept, Kept, Over
<1> QED  BY <1>1, <1>3, <1>4 DEF JobBounded

\* A successor that was there keeps its expiry, and its root does.
LEMMA SuccessorStaysBounded ==
    ASSUME LineageInv, RowsKept, NEW u \in TokenIds, tokens[u].status # "free",
           tokens'[u].parent # None
    PROVE  tokens'[u].expiresAt <= tokens'[tokens'[u].family].expiresAt
<1>1. Rooted /\ SuccessorsBounded
  BY DEF LineageInv, FamilyInv
<1>2. tokens[u].family \in TokenIds /\ tokens[tokens[u].family].status # "free"
  BY <1>1 DEF Rooted
<1>3. Kept(u) /\ Kept(tokens[u].family)
  BY <1>2 DEF RowsKept
<1> QED  BY <1>1, <1>3 DEF Kept, SuccessorsBounded

\* What is left to show of a step about one family: its live tokens, the row it
\* inserts and the calls it asks for.
FamilyBounded(f) ==
    /\ \A u \in TokenIds : tokens'[u].status = "live" /\ tokens'[u].family = f => Bounded(u)'
    /\ \A u \in TokenIds : tokens[u].status = "free" /\ tokens'[u].parent # None =>
           tokens'[u].expiresAt <= tokens'[tokens'[u].family].expiresAt
    /\ \A j \in jobs' : j \in jobs \/ JobBounded(j)'

LEMMA FamilyStepKeeps ==
    ASSUME LineageInv, TypeOK', RowsKept, now' >= now, NEW f, Elsewhere(f), FamilyBounded(f)
    PROVE  (LiveBounded /\ JobsBounded /\ SuccessorsBounded)'
<1>1. now' \in Nat
  BY DEF TypeOK
<1>2. LiveBounded'
  BY OthersBounded DEF FamilyBounded, LiveBounded
<1>3. \A j \in jobs' : JobBounded(j)'
  BY <1>1, JobStaysBounded DEF FamilyBounded
<1>4. JobsBounded'
  BY <1>3 DEF JobsBounded, JobBounded
<1>5. SuccessorsBounded'
  BY SuccessorStaysBounded DEF FamilyBounded, SuccessorsBounded
<1> QED  BY <1>2, <1>4, <1>5

LEMMA NextGenerationIsBelow ==
    ASSUME NEW g \in Int
    PROVE  NextGeneration(g) < 0
BY DEF NextGeneration

\* Scheduling sets the coordinator's deadline, and no other row's.
LEMMA ScheduledDeadlines ==
    ASSUME NEW rows \in [TokenIds -> Token], NEW c \in TokenIds, NEW d \in Nat
    PROVE  /\ \A u \in TokenIds \ {c} : Scheduled(rows, c, d)[u] = rows[u]
           /\ \A u \in TokenIds : Deadline(Scheduled(rows, c, d), u) =
                                      IF u = c THEN d ELSE Deadline(rows, u)
<1>1. CASE ScheduleNeeded(rows, c, d)
  <2> DEFINE row == [rows[c] EXCEPT !.familyExpiresAt = d, !.scheduledAt = d,
                                    !.generation = NextGeneration(rows[c].generation)]
  <2>1. row.familyExpiresAt = d
    BY DEF Token
  <2>2. Scheduled(rows, c, d) = [rows EXCEPT ![c] = row]
    BY <1>1 DEF Scheduled
  <2>3. d # None
    BY NoneAssumption
  <2> HIDE DEF row
  <2> QED  BY <2>1, <2>2, <2>3 DEF Deadline
<1>2. CASE ~ScheduleNeeded(rows, c, d)
  <2>1. Scheduled(rows, c, d) = rows /\ rows[c].familyExpiresAt = d
    BY <1>2 DEF Scheduled, ScheduleNeeded
  <2> QED  BY <2>1, NoneAssumption DEF Deadline
<1> QED  BY <1>1, <1>2

\* A call that is asked for is of the family and of the current form.
LEMMA ScheduledCallsBounded ==
    ASSUME NEW rows \in [TokenIds -> Token], NEW c \in TokenIds, NEW d,
           NEW j \in ScheduledJobs(rows, c, d)
    PROVE  j.family = rows[c].family /\ j.generation < 0 /\ ~j.continuation
<1>1. NextGeneration(rows[c].generation) < 0
  BY NextGenerationIsBelow DEF Token
<1>2. j = [family |-> rows[c].family, deadline |-> d,
           generation |-> NextGeneration(rows[c].generation), continuation |-> FALSE,
           legacy |-> FALSE, at |-> Max2(now, d)]
  BY DEF ScheduledJobs
<1> QED  BY <1>1, <1>2

LEMMA CurrentCallIsBounded ==
    ASSUME NEW j, j.generation \in Int, j.generation < 0, ~j.continuation
    PROVE  JobBounded(j)'
BY DEF JobBounded

\* The live token of a family is the newest of its rows.
LEMMA LiveIsNewest ==
    ASSUME TypeOK, OneLiveToken, NEW u \in TokenIds, tokens[u].status = "live",
           NEW w \in TokenIds, IsNewest(tokens, tokens[u].family, w)
    PROVE  u = w
<1>1. u \in Family(tokens, tokens[u].family)
  BY DEF Family, Stored
<1>2. u <= w /\ w <= u
  BY <1>1 DEF IsNewest, Family, OneLiveToken
<1> QED  BY <1>2, IdsAssumption

LEMMA ExchangeCodeBounds ==
    ASSUME LineageInv, NEW c \in CodeIds, NEW x \in Nat, ExchangeCode(c, x)
    PROVE  \E f \in TokenIds : Elsewhere(f) /\ FamilyBounded(f)
<1> DEFINE row(t) == [status |-> "live", account |-> codes[c].account, family |-> t,
                      code |-> c, parent |-> None, write |-> codes[c].write,
                      expiresAt |-> x, familyExpiresAt |-> x, scheduledAt |-> x,
                      generation |-> -1]
           call(t) == [family |-> t, deadline |-> x, generation |-> -1,
                       continuation |-> FALSE, legacy |-> FALSE, at |-> x]
<1>1. PICK t \in TokenIds : /\ NextFree(tokens, t)
                            /\ tokens' = [tokens EXCEPT ![t] = row(t)]
                            /\ jobs' = jobs \cup {call(t)}
  BY DEF ExchangeCode
<1>2. /\ tokens \in [TokenIds -> Token] /\ FreeRows /\ Rooted /\ tokens[t].status = "free"
  BY <1>1 DEF LineageInv, FamilyInv, TypeOK, NextFree
<1>3. /\ row(t).family = t /\ row(t).expiresAt = x /\ row(t).familyExpiresAt = x
      /\ row(t).parent = None
      /\ call(t).family = t /\ call(t).generation = -1 /\ ~call(t).continuation
  OBVIOUS
<1> HIDE DEF row, call
<1>4. tokens'[t] = row(t) /\ \A u \in TokenIds \ {t} : tokens'[u] = tokens[u]
  BY <1>1, <1>2
<1>5. Elsewhere(t)
  BY <1>1, <1>2, <1>3, <1>4 DEF Elsewhere
<1>6. \A u \in TokenIds \ {t} : tokens[u].family # t
  BY <1>2, NoneIsNoId DEF FreeRows, Rooted
<1>7. \A u \in TokenIds : tokens'[u].status = "live" /\ tokens'[u].family = t => u = t
  BY <1>4, <1>6
<1>8. Bounded(t)'
  <2>1. x # None /\ x <= x
    BY NoneAssumption
  <2> QED  BY <1>3, <1>4, <2>1 DEF Bounded, Deadline
<1>9. \A u \in TokenIds : tokens[u].status = "free" => tokens'[u].parent = None
  BY <1>2, <1>3, <1>4 DEF FreeRows
<1>10. JobBounded(call(t))'
  <2>1. call(t).generation \in Int /\ call(t).generation < 0
    BY <1>3
  <2> QED  BY <1>3, <2>1, CurrentCallIsBounded
<1>11. FamilyBounded(t)
  BY <1>1, <1>7, <1>8, <1>9, <1>10 DEF FamilyBounded
<1> QED  BY <1>5, <1>11

LEMMA FailClosedBounds ==
    ASSUME LineageInv, NEW t \in TokenIds, FailClosed(t)
    PROVE  \E f \in TokenIds : Elsewhere(f) /\ FamilyBounded(f)
<1> DEFINE f == tokens[t].family
           revoked == FamilyRevoked(tokens, f)
<1>1. PICK c \in TokenIds :
          /\ IsCoordinator(tokens, f, c)
          /\ tokens' = Scheduled(revoked, c, FailClosedDeadline(c))
          /\ jobs' = jobs \cup ScheduledJobs(tokens, c, FailClosedDeadline(c))
  BY DEF FailClosed
<1>2. /\ tokens \in [TokenIds -> Token] /\ TypeOK /\ FreeRows /\ Rooted /\ now \in Nat
      /\ \A v, u \in TokenIds :
           tokens[v].status = "live" /\ tokens[u].family = tokens[v].family => u <= v
  BY DEF LineageInv, FamilyInv, TypeOK, OneLiveToken
<1>3. FailClosedDeadline(c) \in Nat
  <2>1. tokens[c].scheduledAt \in Nat \cup {None}
    BY <1>2 DEF Token
  <2> QED  BY <1>2, <2>1 DEF FailClosedDeadline
<1>4. f \in TokenIds /\ tokens[c].family = f /\ tokens[c].status \in Stored
  BY <1>1, <1>2, MembersAreRows DEF FailClosed, Rooted, Stored
<1>5. /\ revoked \in [TokenIds -> Token]
      /\ \A u \in TokenIds : /\ revoked[u].family = tokens[u].family
                             /\ revoked[u].parent = tokens[u].parent
                             /\ revoked[u].family = f => revoked[u].status # "live"
  BY <1>2, RevokedRows, RevokingEnds
<1>6. \A u \in TokenIds : tokens[u].family # f => revoked[u] = tokens[u]
  BY DEF FamilyRevoked, IsNewest, Family
<1> HIDE DEF revoked
<1>7. /\ \A u \in TokenIds : /\ tokens'[u].status = revoked[u].status
                             /\ tokens'[u].family = revoked[u].family
                             /\ tokens'[u].parent = revoked[u].parent
      /\ \A u \in TokenIds \ {c} : tokens'[u] = revoked[u]
  BY <1>1, <1>3, <1>5, ScheduledRows, ScheduledDeadlines
<1>8. \A u \in TokenIds : tokens[u].family # f => tokens'[u] = tokens[u]
  BY <1>4, <1>6, <1>7
<1>9. \A j \in ScheduledJobs(tokens, c, FailClosedDeadline(c)) :
        j.family = f /\ JobBounded(j)'
  <2> SUFFICES ASSUME NEW j \in ScheduledJobs(tokens, c, FailClosedDeadline(c))
               PROVE  j.family = f /\ JobBounded(j)'
    OBVIOUS
  <2>1. j.family = f /\ j.generation < 0 /\ ~j.continuation
    BY <1>2, <1>4, ScheduledCallsBounded
  <2>2. j \in Job
    BY <1>2, <1>3, <1>4, ScheduledCalls
  <2> QED  BY <2>1, <2>2, CurrentCallIsBounded DEF Job
<1>10. Elsewhere(f)
  <2>1. \A u \in TokenIds : tokens[u].status = "free" => tokens[u].family # f
    BY <1>2, <1>4, NoneIsNoId DEF FreeRows
  <2> QED  BY <1>1, <1>8, <1>9, <2>1 DEF Elsewhere
<1>11. FamilyBounded(f)
  <2>1. \A u \in TokenIds : tokens[u].status = "free" => tokens'[u].parent = None
    BY <1>2, <1>5, <1>7 DEF FreeRows
  <2>2. \A u \in TokenIds : ~(tokens'[u].status = "live" /\ tokens'[u].family = f)
    BY <1>5, <1>7
  <2> QED  BY <1>1, <1>9, <2>1, <2>2 DEF FamilyBounded
<1> QED  BY <1>4, <1>10, <1>11

\* The call that Scheduled asks for is of the coordinator's family.
LEMMA AskedCallsAreBounded ==
    ASSUME TypeOK, NEW rows \in [TokenIds -> Token], NEW c \in TokenIds, NEW d \in Nat,
           rows[c].family \in TokenIds, NEW j \in ScheduledJobs(rows, c, d)
    PROVE  j.family = rows[c].family /\ JobBounded(j)'
<1>1. j.family = rows[c].family /\ j.generation < 0 /\ ~j.continuation
  BY ScheduledCallsBounded
<1>2. j \in Job
  BY ScheduledCalls
<1> QED  BY <1>1, <1>2, CurrentCallIsBounded DEF Job

LEMMA RotateBounds ==
    ASSUME LineageInv, NEW t \in TokenIds, NEW x \in Nat, Rotate(t, x)
    PROVE  \E f \in TokenIds : Elsewhere(f) /\ FamilyBounded(f)
<1> DEFINE f == tokens[t].family
           d(c) == Deadline(tokens, c)
           rows(c) == Scheduled(tokens, c, d(c))
           expired(c) == tokens[t].expiresAt <= now \/ d(c) <= now
           authorised == Authorised(tokens[t].account, tokens[t].write)
           row(c) == [status |-> "live", account |-> tokens[t].account,
                      family |-> f, code |-> None, parent |-> t,
                      write |-> tokens[t].write, expiresAt |-> NextExpiry(x, d(c)),
                      familyExpiresAt |-> d(c), scheduledAt |-> None, generation |-> 0]
<1>1. PICK c \in TokenIds, w \in TokenIds :
          /\ IsCoordinator(tokens, f, c) /\ IsNewest(tokens, f, w)
          /\ Agree({c, t, w})
          /\ jobs' = jobs \cup ScheduledJobs(tokens, c, d(c))
          /\ \/ /\ Spent(t) \/ (~expired(c) /\ ~authorised)
                /\ tokens' = FamilyRevoked(rows(c), f)
             \/ /\ ~Spent(t) /\ expired(c)
                /\ tokens' = [rows(c) EXCEPT ![t].status = "revoked"]
             \/ /\ ~Spent(t) /\ ~expired(c) /\ authorised
                /\ \E n \in TokenIds :
                    /\ NextFree(tokens, n)
                    /\ tokens' = [rows(c) EXCEPT ![t].status = "consumed", ![n] = row(c)]
  BY DEF Rotate
<1>2. /\ tokens \in [TokenIds -> Token] /\ d(c) \in Nat /\ tokens[t].status \in Stored
      /\ TypeOK /\ FreeRows /\ Rooted /\ OneLiveToken /\ LiveBounded
  BY DeadlineIsTime DEF LineageInv, FamilyInv, TypeOK, Rotate
<1>3. f \in TokenIds /\ tokens[f].status # "free" /\ tokens[c].family = f
  BY <1>1, <1>2, MembersAreRows DEF Rooted, Stored
<1>33. SUFFICES Elsewhere(f) /\ FamilyBounded(f)
  BY <1>3
<1>4. /\ rows(c) \in [TokenIds -> Token]
      /\ \A u \in TokenIds :
           /\ rows(c)[u].status = tokens[u].status /\ rows(c)[u].family = tokens[u].family
           /\ rows(c)[u].parent = tokens[u].parent
           /\ rows(c)[u].expiresAt = tokens[u].expiresAt
      /\ \A u \in TokenIds \ {c} : rows(c)[u] = tokens[u]
  BY <1>2, ScheduledRows, ScheduledDeadlines
<1>5. \A j \in ScheduledJobs(tokens, c, d(c)) : j.family = f /\ JobBounded(j)'
  BY <1>2, <1>3, AskedCallsAreBounded
<1>6. \A u \in TokenIds : tokens[u].status = "free" => tokens[u].family # f
  BY <1>2, <1>3, NoneIsNoId DEF FreeRows
<1>7. \A u \in TokenIds : u # c /\ u # t => rows(c)[u] = tokens[u]
  BY <1>4
<1> HIDE DEF rows
\* No token is inserted: the family has no live one left.
<1>8. ASSUME \A u \in TokenIds : /\ tokens[u].family # f => tokens'[u] = rows(c)[u]
                                 /\ tokens'[u].family = rows(c)[u].family
                                 /\ tokens'[u].parent = rows(c)[u].parent
                                 /\ tokens[u].family = f => tokens'[u].status # "live"
      PROVE  Elsewhere(f) /\ FamilyBounded(f)
  <2>1. \A u \in TokenIds : tokens[u].family # f => tokens'[u] = tokens[u]
    BY <1>3, <1>4, <1>8
  <2>2. Elsewhere(f)
    BY <1>1, <1>5, <1>6, <2>1 DEF Elsewhere
  <2>3. \A u \in TokenIds : tokens[u].status = "free" => tokens'[u].parent = None
    BY <1>2, <1>4, <1>8 DEF FreeRows
  <2>4. \A u \in TokenIds : ~(tokens'[u].status = "live" /\ tokens'[u].family = f)
    BY <1>4, <1>8
  <2> QED  BY <1>1, <1>5, <2>2, <2>3, <2>4 DEF FamilyBounded
<1>9. CASE tokens' = FamilyRevoked(rows(c), f)
  <2>1. \A v, u \in TokenIds :
            rows(c)[v].status = "live" /\ rows(c)[u].family = rows(c)[v].family => u <= v
    BY <1>2, <1>4 DEF OneLiveToken
  <2>2. \A v \in TokenIds : tokens'[v].family = f => tokens'[v].status # "live"
    BY <1>4, <1>9, <2>1, RevokingEnds
  <2>3. \A v \in TokenIds : /\ tokens'[v].family = rows(c)[v].family
                            /\ tokens'[v].parent = rows(c)[v].parent
    BY <1>4, <1>9, RevokedRows
  <2>4. \A v \in TokenIds : tokens[v].family # f => tokens'[v] = rows(c)[v]
    BY <1>4, <1>9 DEF FamilyRevoked, IsNewest, Family
  <2> QED  BY <1>3, <1>4, <1>8, <2>2, <2>3, <2>4
\* The token presented is the live one, and nothing else is live beside it.
<1>10. ASSUME ~Spent(t), NEW u \in TokenIds, tokens[u].family = f, tokens[u].status = "live"
       PROVE  u = t
  <2>1. tokens[t].status = "live"
    BY <1>2, <1>10 DEF Spent, Stored
  <2>2. u <= t /\ t <= u
    BY <1>2, <1>10, <2>1 DEF OneLiveToken
  <2> QED  BY <2>2, IdsAssumption
<1>11. CASE ~Spent(t) /\ tokens' = [rows(c) EXCEPT ![t].status = "revoked"]
  <2> DEFINE r == [rows(c)[t] EXCEPT !.status = "revoked"]
  <2>1. /\ r.status = "revoked" /\ r.family = rows(c)[t].family /\ r.parent = rows(c)[t].parent
    BY <1>4 DEF Token
  <2>2. tokens' = [rows(c) EXCEPT ![t] = r]
    BY <1>11
  <2> HIDE DEF r
  <2>3. tokens'[t] = r /\ \A u \in TokenIds \ {t} : tokens'[u] = rows(c)[u]
    BY <1>4, <2>2
  <2> QED  BY <1>4, <1>8, <1>10, <1>11, <2>1, <2>3
<1>12. CASE /\ ~Spent(t)
            /\ \E n \in TokenIds :
                   /\ NextFree(tokens, n)
                   /\ tokens' = [rows(c) EXCEPT ![t].status = "consumed", ![n] = row(c)]
  <2>1. PICK n \in TokenIds :
            /\ NextFree(tokens, n)
            /\ tokens' = [rows(c) EXCEPT ![t].status = "consumed", ![n] = row(c)]
    BY <1>12
  <2>2. /\ tokens[t].status = "live" /\ tokens[n].status = "free"
        /\ n # t /\ n # f /\ n # c /\ tokens[n].family # f
    BY <1>1, <1>2, <1>3, <1>6, <1>12, <2>1, MembersAreRows DEF Spent, Stored, NextFree
  \* The presented token agrees with the coordinator, so its root bounds it.
  <2>3. d(c) <= tokens[f].expiresAt
    <3>1. Deadline(tokens, t) = d(c)
      BY <1>1 DEF Agree
    <3>2. CASE Bounded(t)
      BY <3>1, <3>2 DEF Bounded
    <3>3. CASE Split(t)
      <4>1. c = f
        BY <1>1, <3>3 DEF Split, IsCoordinator
      <4> QED  BY <3>1, <3>3, <4>1 DEF Split
    <3> QED  BY <1>2, <2>2, <3>2, <3>3 DEF LiveBounded
  <2> DEFINE r == [rows(c)[t] EXCEPT !.status = "consumed"]
  <2>4. /\ r.status = "consumed" /\ r.family = f /\ r.expiresAt = tokens[t].expiresAt
    BY <1>4 DEF Token
  <2>5. /\ row(c).family = f /\ row(c).expiresAt = NextExpiry(x, d(c))
        /\ row(c).familyExpiresAt = d(c)
    OBVIOUS
  <2>6. tokens' = [[rows(c) EXCEPT ![t] = r] EXCEPT ![n] = row(c)]
    BY <2>1
  <2> HIDE DEF r, row
  <2>7. /\ tokens'[n] = row(c) /\ tokens'[t] = r
        /\ \A u \in TokenIds \ {t, n} : tokens'[u] = rows(c)[u]
    BY <1>4, <2>2, <2>6
  <2>8. tokens'[f].expiresAt = tokens[f].expiresAt
    BY <1>3, <1>4, <2>2, <2>4, <2>7
  <2>9. Elsewhere(f)
    <3>1. \A u \in TokenIds \ {n} : tokens[u].family # f => tokens'[u] = tokens[u]
      BY <1>3, <1>4, <2>7
    <3>2. tokens'[n].family = f
      BY <2>5, <2>7
    <3>3. tokens[n].status = "free"
      BY <2>2
    <3>4. \A j \in jobs' : j \in jobs \/ j.family = f
      BY <1>1, <1>5
    <3> QED  BY <1>6, <3>1, <3>2, <3>3, <3>4 DEF Elsewhere
  <2>10. NextExpiry(x, d(c)) <= d(c)
    BY <1>2 DEF NextExpiry, Min2
  <2>11. Bounded(n)'
    <3>1. Deadline(tokens, n)' = d(c)
      BY <1>2, <2>5, <2>7, NoneAssumption DEF Deadline
    <3> QED  BY <2>3, <2>5, <2>7, <2>8, <3>1 DEF Bounded
  <2>12. \A u \in TokenIds : tokens'[u].status = "live" /\ tokens'[u].family = f => u = n
    BY <1>4, <1>10, <1>12, <2>4, <2>7
  <2>13. tokens'[n].expiresAt <= tokens'[tokens'[n].family].expiresAt
    <3>1. tokens[f].expiresAt \in Nat /\ NextExpiry(x, d(c)) \in Nat
      BY <1>2, <1>3 DEF Token, NextExpiry, Min2
    <3> QED  BY <1>2, <2>3, <2>5, <2>7, <2>8, <2>10, <3>1
  <2>14. \A u \in TokenIds \ {n} : tokens[u].status = "free" => tokens'[u].parent = None
    BY <1>2, <1>4, <2>2, <2>7 DEF FreeRows
  <2>15. FamilyBounded(f)
    BY <1>1, <1>5, <2>11, <2>12, <2>13, <2>14 DEF FamilyBounded
  <2> QED  BY <2>9, <2>15
<1> QED  BY <1>1, <1>9, <1>11, <1>12

\* A clean-up call moves the live token's deadline within its root's expiry, or
\* finds the family due and deletes rows.
LEMMA CleanupBounds ==
    ASSUME LineageInv, NEW j \in jobs, Cleanup(j)
    PROVE  \E f \in TokenIds : Elsewhere(f) /\ FamilyBounded(f)
<1> DEFINE f == j.family
<1>1. /\ tokens \in [TokenIds -> Token] /\ now \in Nat /\ j \in Job /\ now' = now
      /\ TypeOK /\ FreeRows /\ Rooted /\ OneLiveToken /\ LiveBounded
  BY DEF LineageInv, FamilyInv, TypeOK, Cleanup
<1>2. /\ j.family \in TokenIds /\ j.deadline \in Nat /\ j.generation \in Int
      /\ j.continuation \in BOOLEAN
  BY <1>1 DEF Job
<1>3. /\ j.continuation => j.deadline <= now /\ j.generation < 0
      /\ j.generation >= 0 => j.deadline <= tokens[f].expiresAt
  BY DEF LineageInv, JobsBounded
<1>4. \A u \in TokenIds : tokens[u].status = "live" /\ tokens[u].family = f
                          => Deadline(tokens, u) <= tokens[f].expiresAt
  BY <1>1 DEF LiveBounded, Split, Bounded
<1>5. \A u \in TokenIds : tokens[u].status = "free" => tokens[u].family # f
  BY <1>1, <1>2, NoneIsNoId DEF FreeRows
<1>6. SUFFICES Elsewhere(f) /\ FamilyBounded(f)
  BY <1>2
\* Rows change in the family only, and lose no more than their status and schedule.
<1>7. ASSUME \A u \in TokenIds :
               /\ tokens[u].family # f => tokens'[u] = tokens[u]
               /\ tokens'[u].family = tokens[u].family
               /\ tokens'[u].parent = tokens[u].parent
               /\ tokens'[u].expiresAt = tokens[u].expiresAt
               /\ tokens'[u].status = "live" => tokens[u].status = "live",
             \A u \in TokenIds : tokens'[u].status = "live" /\ tokens[u].family = f =>
                 Deadline(tokens', u) \in {Deadline(tokens, u)} \cup {k \in Nat : k <= tokens[f].expiresAt},
             \A i \in jobs' : i \in jobs \/ (i.family = f /\ JobBounded(i)')
      PROVE  Elsewhere(f) /\ FamilyBounded(f)
  <2>1. Elsewhere(f)
    BY <1>5, <1>7 DEF Elsewhere
  <2>2. ASSUME NEW u \in TokenIds, tokens'[u].status = "live", tokens'[u].family = f
        PROVE  Bounded(u)'
    <3>1. Deadline(tokens', u) <= tokens[f].expiresAt
      BY <1>4, <1>7, <2>2
    <3> QED  BY <1>2, <1>7, <2>2, <3>1 DEF Bounded
  <2>3. \A u \in TokenIds : tokens[u].status = "free" => tokens'[u].parent = None
    BY <1>1, <1>7 DEF FreeRows
  <2> QED  BY <1>7, <2>1, <2>2, <2>3 DEF FamilyBounded
<1>8. CASE UNCHANGED tokens /\ jobs' = jobs \ {j}
  BY <1>7, <1>8
<1> DEFINE agreed(w) == \A u \in Oldest(f, Batch + 1) \cup {w} : Deadline(tokens, u) = j.deadline
           canonical(w) == IF j.continuation \/ agreed(w) THEN j.deadline
                           ELSE Min2(j.deadline, now)
           rows(c) == IF j.continuation THEN tokens
                      ELSE [tokens EXCEPT ![c].scheduledAt = None]
           calls(w) == {[family |-> f, deadline |-> canonical(w),
                         generation |-> j.generation, continuation |-> TRUE,
                         legacy |-> FALSE, at |-> now] :
                           t \in Family(tokens, f) \ Oldest(f, Batch)}
<1>9. CASE ~(UNCHANGED tokens /\ jobs' = jobs \ {j})
  <2>1. PICK c \in TokenIds, w \in TokenIds :
          /\ IsCoordinator(tokens, f, c) /\ IsNewest(tokens, f, w)
          /\ \/ /\ j.generation > 0
                /\ tokens' = Scheduled(tokens, c, canonical(w))
                /\ jobs' = (jobs \ {j}) \cup ScheduledJobs(tokens, c, canonical(w))
             \/ /\ canonical(w) > now
                /\ tokens' = Scheduled(rows(c), c, canonical(w))
                /\ jobs' = (jobs \ {j}) \cup ScheduledJobs(rows(c), c, canonical(w))
             \/ /\ j.continuation \/ j.generation < 0
                /\ ~(canonical(w) > now)
                /\ tokens' = [t \in TokenIds |-> IF t \in Oldest(f, Batch)
                                  THEN [rows(c)[t] EXCEPT !.status = "deleted"] ELSE rows(c)[t]]
                /\ jobs' = (jobs \ {j}) \cup calls(w)
    BY <1>9 DEF Cleanup
  <2>2. canonical(w) \in Nat /\ canonical(w) <= j.deadline
    BY <1>1, <1>2 DEF Min2
  <2>3. tokens[c].family = f
    BY <1>1, <2>1, MembersAreRows
  <2>4. /\ rows(c) \in [TokenIds -> Token]
        /\ \A u \in TokenIds :
             /\ rows(c)[u].status = tokens[u].status /\ rows(c)[u].family = tokens[u].family
             /\ rows(c)[u].parent = tokens[u].parent
             /\ rows(c)[u].expiresAt = tokens[u].expiresAt
             /\ Deadline(rows(c), u) = Deadline(tokens, u)
             /\ u # c => rows(c)[u] = tokens[u]
    <3> DEFINE r == [tokens[c] EXCEPT !.scheduledAt = None]
    <3>1. /\ r \in Token /\ r.status = tokens[c].status /\ r.family = tokens[c].family
          /\ r.parent = tokens[c].parent /\ r.expiresAt = tokens[c].expiresAt
          /\ r.familyExpiresAt = tokens[c].familyExpiresAt
      BY <1>1 DEF Token
    <3>2. rows(c) = IF j.continuation THEN tokens ELSE [tokens EXCEPT ![c] = r]
      OBVIOUS
    <3> HIDE DEF r, rows
    <3> QED  BY <1>1, <3>1, <3>2 DEF Deadline
  \* A live coordinator is the newest row, whose deadline the call goes by.
  <2>5. ASSUME tokens[c].status = "live", agreed(w)
        PROVE  canonical(w) <= tokens[f].expiresAt
    <3>1. c = w
      BY <1>1, <2>1, <2>3, <2>5, LiveIsNewest
    <3>2. Deadline(tokens, c) = j.deadline
      BY <2>5, <3>1
    <3> QED  BY <1>4, <2>3, <2>5, <3>2
  <2>6. canonical(w) > now => agreed(w)
    BY <1>1, <1>2, <1>3 DEF Min2
  <2> HIDE DEF rows, canonical, agreed
  <2>7. ASSUME NEW old \in [TokenIds -> Token],
               \A u \in TokenIds :
                 /\ old[u].status = tokens[u].status /\ old[u].family = tokens[u].family
                 /\ old[u].parent = tokens[u].parent
                 /\ old[u].expiresAt = tokens[u].expiresAt
                 /\ Deadline(old, u) = Deadline(tokens, u)
                 /\ u # c => old[u] = tokens[u],
               tokens' = Scheduled(old, c, canonical(w)),
               jobs' = (jobs \ {j}) \cup ScheduledJobs(old, c, canonical(w)),
               tokens[c].status = "live" => canonical(w) <= tokens[f].expiresAt
        PROVE  Elsewhere(f) /\ FamilyBounded(f)
    <3>1. \A u \in TokenIds :
            /\ tokens'[u].status = old[u].status /\ tokens'[u].family = old[u].family
            /\ tokens'[u].parent = old[u].parent
            /\ tokens'[u].expiresAt = old[u].expiresAt
            /\ u # c => tokens'[u] = old[u]
            /\ Deadline(tokens', u) = IF u = c THEN canonical(w) ELSE Deadline(old, u)
      BY <2>2, <2>7, ScheduledRows, ScheduledDeadlines
    <3>2. old[c].family = f
      BY <2>3, <2>7
    <3>3. \A i \in ScheduledJobs(old, c, canonical(w)) : i.family = f /\ JobBounded(i)'
      BY <1>1, <1>2, <2>2, <3>2, AskedCallsAreBounded
    <3>4. \A u \in TokenIds : tokens'[u].status = "live" /\ tokens[u].family = f =>
             Deadline(tokens', u) \in {Deadline(tokens, u)} \cup {k \in Nat : k <= tokens[f].expiresAt}
      BY <2>2, <2>7, <3>1
    <3>5. \A i \in jobs' : i \in jobs \/ (i.family = f /\ JobBounded(i)')
      BY <2>7, <3>3
    <3>6. \A u \in TokenIds :
               /\ tokens[u].family # f => tokens'[u] = tokens[u]
               /\ tokens'[u].family = tokens[u].family
               /\ tokens'[u].parent = tokens[u].parent
               /\ tokens'[u].expiresAt = tokens[u].expiresAt
               /\ tokens'[u].status = "live" => tokens[u].status = "live"
      BY <2>3, <2>7, <3>1
    <3> QED  BY <1>7, <3>4, <3>5, <3>6
  <2>8. CASE /\ j.generation > 0
             /\ tokens' = Scheduled(tokens, c, canonical(w))
             /\ jobs' = (jobs \ {j}) \cup ScheduledJobs(tokens, c, canonical(w))
    <3>1. canonical(w) <= tokens[f].expiresAt
      <4>1. tokens[f].expiresAt \in Nat
        BY <1>1, <1>2 DEF Token
      <4> QED  BY <1>2, <1>3, <2>2, <2>8, <4>1
    <3> QED  BY <1>1, <2>7, <2>8, <3>1
  <2>9. CASE /\ canonical(w) > now
             /\ tokens' = Scheduled(rows(c), c, canonical(w))
             /\ jobs' = (jobs \ {j}) \cup ScheduledJobs(rows(c), c, canonical(w))
    BY <2>4, <2>5, <2>6, <2>7, <2>9
  <2>10. CASE /\ j.continuation \/ j.generation < 0
              /\ ~(canonical(w) > now)
              /\ tokens' = [t \in TokenIds |-> IF t \in Oldest(f, Batch)
                                THEN [rows(c)[t] EXCEPT !.status = "deleted"] ELSE rows(c)[t]]
              /\ jobs' = (jobs \ {j}) \cup calls(w)
    <3> DEFINE gone(u) == [rows(c)[u] EXCEPT !.status = "deleted"]
    <3>1. \A u \in TokenIds :
            /\ gone(u).status = "deleted" /\ gone(u).family = rows(c)[u].family
            /\ gone(u).parent = rows(c)[u].parent /\ gone(u).expiresAt = rows(c)[u].expiresAt
            /\ gone(u).familyExpiresAt = rows(c)[u].familyExpiresAt
      BY <2>4 DEF Token
    <3>2. \A u \in TokenIds : tokens'[u] = IF u \in Oldest(f, Batch) THEN gone(u) ELSE rows(c)[u]
      BY <2>10
    <3> HIDE DEF gone
    <3>3. \A u \in Oldest(f, Batch) : tokens[u].family = f
      BY DEF Oldest, Family
    <3>4. \A u \in TokenIds :
               /\ tokens[u].family # f => tokens'[u] = tokens[u]
               /\ tokens'[u].family = tokens[u].family
               /\ tokens'[u].parent = tokens[u].parent
               /\ tokens'[u].expiresAt = tokens[u].expiresAt
               /\ tokens'[u].status = "live" => tokens[u].status = "live"
      BY <2>3, <2>4, <3>1, <3>2, <3>3
    <3>5. \A u \in TokenIds : Deadline(tokens', u) = Deadline(tokens, u)
      BY <2>4, <3>1, <3>2 DEF Deadline
    <3>6. \A i \in calls(w) : i.family = f /\ i.deadline = canonical(w)
                              /\ i.generation = j.generation
      OBVIOUS
    <3>7. j.generation < 0 /\ canonical(w) <= now
      BY <1>1, <1>3, <2>2, <2>10
    <3> HIDE DEF calls
    <3>8. \A i \in calls(w) : JobBounded(i)'
      BY <1>1, <1>2, <2>2, <3>6, <3>7 DEF JobBounded
    <3>9. \A i \in jobs' : i \in jobs \/ (i.family = f /\ JobBounded(i)')
      BY <2>10, <3>6, <3>8
    <3> QED  BY <1>7, <3>4, <3>5, <3>9
  <2> QED  BY <2>1, <2>8, <2>9, <2>10
<1> QED  BY <1>8, <1>9

\* A step that touches no row and no call is about no family.
LEMMA OtherStepBounds ==
    ASSUME LineageInv, UNCHANGED <<tokens, jobs>>
    PROVE  Elsewhere(None) /\ FamilyBounded(None)
<1>1. FreeRows /\ Rooted
  BY DEF LineageInv, FamilyInv
<1>2. Elsewhere(None)
  BY DEF Elsewhere
<1>3. \A u \in TokenIds : ~(tokens[u].status = "live" /\ tokens[u].family = None)
  BY <1>1, NoneIsNoId DEF Rooted
<1>4. \A u \in TokenIds : tokens[u].status = "free" => tokens[u].parent = None
  BY <1>1 DEF FreeRows
<1> QED  BY <1>2, <1>3, <1>4 DEF FamilyBounded

LEMMA LineageStepKeeps ==
    ASSUME LineageInv, [Next]_vars
    PROVE  LineageInv'
<1>1. FamilyInv /\ TypeOK /\ now \in Nat
  BY DEF LineageInv, FamilyInv, TypeOK
<1>2. FamilyInv' /\ TypeOK' /\ RowsKept
  BY <1>1, StepKeeps, StepForms, FormsKeepRows
<1>3. \/ \E f \in TokenIds : Elsewhere(f) /\ FamilyBounded(f)
      \/ UNCHANGED <<tokens, jobs>>
  <2>1. CASE CodeRequests
    <3>1. PICK c \in CodeIds :
            \/ \E a \in Accounts, write, offline \in BOOLEAN, x \in now..(now + MaxCode + 1) :
                  CreateCode(c, a, write, offline, x)
            \/ \E matches \in BOOLEAN : RedeemCode(c, matches)
            \/ \E x \in now..(now + MaxRefresh + 1) : ExchangeCode(c, x)
      BY <2>1 DEF CodeRequests
    <3>2. ASSUME NEW x \in now..(now + MaxRefresh + 1), ExchangeCode(c, x)
          PROVE  \E f \in TokenIds : Elsewhere(f) /\ FamilyBounded(f)
      <4>1. x \in Nat
        BY <1>1
      <4> QED  BY <3>2, <4>1, ExchangeCodeBounds
    <3> QED  BY <3>1, <3>2 DEF CreateCode, RedeemCode
  <2>2. CASE TokenRequests
    <3>1. PICK t \in TokenIds :
            FailClosed(t) \/ \E x \in now..(now + MaxRefresh + 1) : Rotate(t, x)
      BY <2>2 DEF TokenRequests
    <3>2. ASSUME NEW x \in now..(now + MaxRefresh + 1), Rotate(t, x)
          PROVE  \E f \in TokenIds : Elsewhere(f) /\ FamilyBounded(f)
      <4>1. x \in Nat
        BY <1>1
      <4> QED  BY <3>2, <4>1, RotateBounds
    <3> QED  BY <3>1, <3>2, FailClosedBounds
  <2>3. CASE \E j \in jobs : Cleanup(j)
    BY <2>3, CleanupBounds
  <2>4. CASE \E a \in Accounts, r \in Roles : SetRole(a, r)
    BY <2>4 DEF SetRole
  <2>5. CASE Tick \/ UNCHANGED vars
    BY <2>5 DEF Tick, vars
  <2> QED  BY <2>1, <2>2, <2>3, <2>4, <2>5 DEF Next
<1>4. now' = now \/ now' = now + 1
  BY DEF Next, CodeRequests, CreateCode, RedeemCode, ExchangeCode, TokenRequests, FailClosed,
         Rotate, Cleanup, SetRole, Tick, vars
<1>5. \E f : Elsewhere(f) /\ FamilyBounded(f)
  BY <1>3, OtherStepBounds
<1>6. now' >= now
  BY <1>1, <1>4
<1>7. (LiveBounded /\ JobsBounded /\ SuccessorsBounded)'
  BY <1>2, <1>5, <1>6, FamilyStepKeeps
<1> QED  BY <1>2, <1>7 DEF LineageInv

\* The rows of an earlier release: a root bounds itself, a rotated root
\* disagrees with its successor and no call is owed to it, and the call of the
\* old form carries its root's expiry.
LEMMA LineageInit == Init => LineageInv
<1> SUFFICES ASSUME Init PROVE LineageInv
  OBVIOUS
<1> DEFINE free == [u \in TokenIds |-> FreeToken]
           root(a, r) == LegacyToken(a, "live", r, MaxRefresh, None, 0)
           used(a, r) == LegacyToken(a, "consumed", r, MaxRefresh, None, 0)
           next(a, r) == LegacyToken(a, "live", r, MaxRefresh + 1, None, 0)
           timed(a, r) == LegacyToken(a, "live", r, MaxRefresh, MaxRefresh, 1)
           call(r) == [family |-> r, deadline |-> MaxRefresh, generation |-> 1,
                       continuation |-> FALSE, legacy |-> TRUE, at |-> MaxRefresh]
<1>1. PICK a \in Accounts, r \in TokenIds, t \in TokenIds : FirstIds(r, t) /\ LegacyRows(a, r, t)
  BY DEF Init
<1>2. \/ tokens = free /\ jobs = {}
      \/ tokens = [free EXCEPT ![r] = root(a, r)] /\ jobs = {}
      \/ tokens = [free EXCEPT ![r] = used(a, r), ![t] = next(a, r)] /\ jobs = {}
      \/ tokens = [free EXCEPT ![r] = timed(a, r)] /\ jobs = {call(r)}
  BY <1>1 DEF LegacyRows
<1>3. FamilyInv
  BY InitKeeps
<1>4. r # t
  BY <1>1 DEF FirstIds
<1>5. /\ root(a, r).status = "live" /\ root(a, r).family = r
      /\ root(a, r).familyExpiresAt = None /\ root(a, r).expiresAt = MaxRefresh
      /\ root(a, r).parent = None
  BY DEF LegacyToken
<1>6. /\ used(a, r).status = "consumed" /\ used(a, r).family = r
      /\ used(a, r).familyExpiresAt = None /\ used(a, r).expiresAt = MaxRefresh
      /\ used(a, r).parent = None
  BY DEF LegacyToken
<1>7. /\ next(a, r).status = "live" /\ next(a, r).family = r
      /\ next(a, r).familyExpiresAt = None /\ next(a, r).expiresAt = MaxRefresh + 1
      /\ next(a, r).parent = None
  BY DEF LegacyToken
<1>8. /\ timed(a, r).status = "live" /\ timed(a, r).family = r
      /\ timed(a, r).familyExpiresAt = MaxRefresh /\ timed(a, r).expiresAt = MaxRefresh
      /\ timed(a, r).parent = None
  BY DEF LegacyToken
<1>9. /\ call(r).family = r /\ call(r).deadline = MaxRefresh /\ ~call(r).continuation
  OBVIOUS
<1>10. MaxRefresh \in Nat /\ MaxRefresh # None /\ now \in Nat
  BY BoundsAssumption, NoneAssumption DEF Init
<1> HIDE DEF root, used, next, timed, call
<1>11. CASE tokens = free /\ jobs = {}
  BY <1>3, <1>11, FreeTokenRow DEF LineageInv, LiveBounded, JobsBounded, SuccessorsBounded
<1>12. CASE tokens = [free EXCEPT ![r] = root(a, r)] /\ jobs = {}
  <2>1. tokens[r] = root(a, r) /\ \A u \in TokenIds \ {r} : tokens[u] = FreeToken
    BY <1>12
  <2>2. Bounded(r)
    BY <1>5, <1>10, <2>1 DEF Bounded, Deadline
  <2> QED  BY <1>3, <1>5, <1>12, <2>1, <2>2, FreeTokenRow
           DEF LineageInv, LiveBounded, JobsBounded, SuccessorsBounded
<1>13. CASE tokens = [free EXCEPT ![r] = used(a, r), ![t] = next(a, r)] /\ jobs = {}
  <2>1. /\ tokens[r] = used(a, r) /\ tokens[t] = next(a, r)
        /\ \A u \in TokenIds \ {r, t} : tokens[u] = FreeToken
    BY <1>4, <1>13
  <2>2. Split(t)
    <3>1. r \in Family(tokens, r)
      BY <1>6, <2>1 DEF Family, Stored
    <3>2. Deadline(tokens, r) # Deadline(tokens, t)
      BY <1>6, <1>7, <1>10, <2>1 DEF Deadline
    <3> QED  BY <1>7, <1>13, <2>1, <3>1, <3>2 DEF Split
  <2> QED  BY <1>3, <1>6, <1>7, <1>13, <2>1, <2>2, FreeTokenRow
           DEF LineageInv, LiveBounded, JobsBounded, SuccessorsBounded
<1>14. CASE tokens = [free EXCEPT ![r] = timed(a, r)] /\ jobs = {call(r)}
  <2>1. tokens[r] = timed(a, r) /\ \A u \in TokenIds \ {r} : tokens[u] = FreeToken
    BY <1>14
  <2>2. Bounded(r)
    BY <1>8, <1>10, <2>1 DEF Bounded, Deadline
  <2>3. JobsBounded
    BY <1>8, <1>9, <1>10, <1>14, <2>1 DEF JobsBounded
  <2> QED  BY <1>3, <1>8, <2>1, <2>2, <2>3, FreeTokenRow
           DEF LineageInv, LiveBounded, SuccessorsBounded
<1> QED  BY <1>2, <1>11, <1>12, <1>13, <1>14

\* One code opens one family, one token has one successor, and no successor
\* outlives the token the code was exchanged for, whatever is presented twice,
\* shut down, scheduled again or deleted in between.
THEOREM LineageBounded == Spec => []LineageIsBounded
<1>1. LineageInv => LineageIsBounded
  BY DEF LineageInv, FamilyInv, Unshared, SuccessorsBounded, LineageIsBounded
<1> QED  BY <1>1, LineageInit, LineageStepKeeps, PTL DEF Spec

-----------------------------------------------------------------------------
(* The clients beside the grants. *)

\* A step of the composition is a step of the grants alone, or leaves them.
LEMMA GrantsStep ==
    ASSUME TypeOK, [OAuthNext]_oauthVars
    PROVE  [Next]_vars
<1>1. CASE ClientRequests
  <2>1. PICK k \in Clients :
          \/ RegisterAgain(k) \/ RegisterClient(k) \/ RegisterPlainClient(k)
          \/ ReconcileClient(k)
          \/ \E c \in CodeIds, a \in Accounts, write, offline \in BOOLEAN,
                x \in now..(now + MaxCode + 1) :
                \/ CreateClientCode(k, c, a, write, offline, x)
                \/ CreatePlainCode(k, c, a, write, offline, x)
    BY <1>1 DEF ClientRequests
  <2>2. CASE RegisterAgain(k) \/ RegisterClient(k) \/ RegisterPlainClient(k) \/ ReconcileClient(k)
    BY <2>2 DEF RegisterAgain, RegisterClient, RegisterPlainClient, ReconcileClient
  <2>3. CASE \E c \in CodeIds, a \in Accounts, write, offline \in BOOLEAN,
                x \in now..(now + MaxCode + 1) :
                \/ CreateClientCode(k, c, a, write, offline, x)
                \/ CreatePlainCode(k, c, a, write, offline, x)
    BY <2>3 DEF CreateClientCode, CreatePlainCode, Next, CodeRequests
  <2> QED  BY <2>1, <2>2, <2>3
<1>2. CASE GrantSteps
  BY <1>2 DEF GrantSteps, Next, CodeRequests
<1>3. CASE \E j \in clientJobs : CleanupClient(j)
  BY <1>3 DEF CleanupClient
<1>4. CASE UNCHANGED oauthVars
  BY <1>4 DEF oauthVars, vars
<1> QED  BY <1>1, <1>2, <1>3, <1>4 DEF OAuthNext

\* Clients and their clean-up change nothing of codes and tokens: what holds of
\* the grants holds of the grants beside their clients.
THEOREM ClientsLeaveGrants == OAuthSpec => Spec
<1>1. OAuthInit => Init
  BY DEF OAuthInit
<1>2. FamilyInv /\ [OAuthNext]_oauthVars => [Next]_vars
  BY GrantsStep DEF FamilyInv
<1>3. FamilyInv /\ [OAuthNext]_oauthVars => FamilyInv'
  BY <1>2, StepKeeps
<1> QED  BY <1>1, <1>2, <1>3, InitKeeps, PTL DEF OAuthSpec, Spec

ClientInv ==
    /\ FamilyInv
    /\ clients \in [Clients -> Client]
    /\ codeClient \in [CodeIds -> Clients \cup {None}]
    /\ ReferencedClientStays

\* A step of a client's own: no code or token is touched, and the client of an
\* outstanding one is not deleted.
LEMMA ClientStepKeeps ==
    ASSUME ClientInv, UNCHANGED vars, UNCHANGED codeClient,
           clients' \in [Clients -> Client],
           \A k \in Registered : References(k) => clients'[k].status # "absent"
    PROVE  ReferencedClientStays'
<1>1. /\ \A c \in CodeIds : codes[c].status = "live" => codeClient[c] \in Registered
      /\ \A t \in TokenIds : tokens[t].status \in Stored => TokenClient(t) \in Registered
  BY DEF ClientInv, ReferencedClientStays
<1>2. \A t \in TokenIds : TokenClient(t)' = TokenClient(t)
  BY DEF TokenClient, vars
<1>3. \A k \in Registered : References(k) => k \in Registered'
  BY DEF Registered
<1>4. \A c \in CodeIds : codes'[c].status = "live" => codeClient'[c] \in Registered'
  BY <1>1, <1>3 DEF References, vars
<1>5. \A t \in TokenIds : tokens'[t].status \in Stored => TokenClient(t) \in Registered'
  BY <1>1, <1>3 DEF References, vars
<1> QED  BY <1>2, <1>4, <1>5 DEF ReferencedClientStays

LEMMA RowIsClient ==
    ASSUME NEW st \in {"absent", "legacy", "unused", "used"}, NEW x \in Nat
    PROVE  Row(st, x) \in Client /\ Row(st, x).status = st
BY DEF Row, Client

LEMMA SweptClients ==
    ASSUME clients \in [Clients -> Client], NEW K
    PROVE  /\ Swept(K) \in [Clients -> Client]
           /\ \A k \in Registered : References(k) => Swept(K)[k].status # "absent"
<1>1. /\ Row("used", 0) \in Client /\ Row("used", 0).status = "used"
      /\ Row("absent", 0) \in Client
  BY RowIsClient
<1> QED  BY <1>1 DEF Swept, Registered

\* A code is issued to a client that has a row and keeps it.
LEMMA CodeStepKeeps ==
    ASSUME ClientInv, NEW k \in Registered, NEW c \in CodeIds, NEW a \in Accounts,
           NEW write \in BOOLEAN, NEW offline \in BOOLEAN, NEW x \in Nat,
           CreateCode(c, a, write, offline, x),
           codeClient' = [codeClient EXCEPT ![c] = k],
           \A l \in Registered : l \in Registered'
    PROVE  ReferencedClientStays'
<1>1. /\ \A d \in CodeIds : codes[d].status = "live" => codeClient[d] \in Registered
      /\ \A t \in TokenIds : tokens[t].status \in Stored => TokenClient(t) \in Registered
      /\ codeClient \in [CodeIds -> Clients \cup {None}]
      /\ codes \in [CodeIds -> Code] /\ tokens \in [TokenIds -> Token]
      /\ FreeRows /\ Rooted /\ CodesSpent
  BY DEF ClientInv, ReferencedClientStays, FamilyInv, TypeOK
<1>2. tokens' = tokens /\ codes[c].status = "free"
  BY DEF CreateCode, NextFree
<1>3. \A d \in CodeIds \ {c} : codes'[d].status = "live" => codes[d].status = "live"
  BY <1>1 DEF CreateCode, Code
<1>4. \A d \in CodeIds : codes'[d].status = "live" => codeClient'[d] \in Registered'
  BY <1>1, <1>3
<1>5. ASSUME NEW t \in TokenIds, tokens'[t].status \in Stored
      PROVE  TokenClient(t)' \in Registered'
  <2>1. tokens[t].family \in TokenIds
    BY <1>1, <1>2, <1>5 DEF Rooted, Stored
  <2>2. tokens[tokens[t].family].code \in CodeIds \cup {None}
    BY <1>1, <2>1 DEF Token
  <2>3. tokens[tokens[t].family].code # c
    BY <1>1, <1>2, <2>1, NoneIsNoId DEF CodesSpent
  <2>4. TokenClient(t)' = TokenClient(t)
    BY <1>1, <1>2, <2>2, <2>3 DEF TokenClient
  <2> QED  BY <1>1, <1>2, <1>5, <2>4
<1> QED  BY <1>4, <1>5 DEF ReferencedClientStays

LEMMA GrantCodes ==
    ASSUME TypeOK, GrantSteps
    PROVE  \A d \in CodeIds : codes'[d].status = "live" => codes[d].status = "live"
<1>1. codes \in [CodeIds -> Code]
  BY DEF TypeOK
<1>2. ASSUME NEW c \in CodeIds, codes' = [codes EXCEPT ![c].status = "deleted"]
      PROVE  \A d \in CodeIds : codes'[d].status = "live" => codes[d].status = "live"
  BY <1>1, <1>2 DEF Code
<1>3. \/ \E c \in CodeIds : codes' = [codes EXCEPT ![c].status = "deleted"]
      \/ UNCHANGED codes
  BY DEF GrantSteps, RedeemCode, ExchangeCode, CodeDeleted, TokenRequests, FailClosed, Rotate,
         Cleanup, SetRole, Tick
<1> QED  BY <1>2, <1>3

\* A grant's step hands a reference on: from the code to the token it gives,
\* from a token to its successor.
LEMMA GrantStepKeeps ==
    ASSUME ClientInv, GrantSteps, [Next]_vars
    PROVE  ReferencedClientStays'
<1>1. /\ \A d \in CodeIds : codes[d].status = "live" => codeClient[d] \in Registered
      /\ \A t \in TokenIds : tokens[t].status \in Stored => TokenClient(t) \in Registered
      /\ TypeOK /\ Rooted /\ FamilyInv
  BY DEF ClientInv, ReferencedClientStays, FamilyInv
<1>2. codeClient' = codeClient /\ Registered' = Registered
  BY DEF GrantSteps, clientVars, Registered
<1>3. \A d \in CodeIds : codes'[d].status = "live" => codeClient'[d] \in Registered'
  BY <1>1, <1>2, GrantCodes
<1>4. Quiet \/ Opens \/ Grows
  BY <1>1, StepForms
<1>5. ASSUME NEW t \in TokenIds, tokens[t].status \in Stored, tokens'[t].family = tokens[t].family,
             tokens'[tokens[t].family].code = tokens[tokens[t].family].code
      PROVE  TokenClient(t)' \in Registered'
  <2>1. TokenClient(t)' = TokenClient(t)
    BY <1>2, <1>5 DEF TokenClient
  <2> QED  BY <1>1, <1>2, <1>5, <2>1
<1>6. \A t \in TokenIds : tokens[t].status \in Stored => /\ tokens[t].family \in TokenIds
                                                         /\ tokens[tokens[t].family].status # "free"
  BY <1>1 DEF Rooted, Stored
<1>7. ASSUME NEW t \in TokenIds, Kept(t), tokens'[t].status \in Stored
      PROVE  tokens[t].status \in Stored
  <2>1. tokens[t].status \in {"free", "live", "consumed", "revoked", "deleted"}
    BY <1>1 DEF TypeOK, Token
  <2> QED  BY <1>7, <2>1 DEF Kept, Stored
<1>8. ASSUME NEW t \in TokenIds, Kept(t), tokens'[t].status \in Stored,
             \A u \in TokenIds : tokens[u].status # "free" => Kept(u)
      PROVE  TokenClient(t)' \in Registered'
  <2>1. tokens[t].status \in Stored
    BY <1>7, <1>8
  <2>2. Kept(tokens[t].family)
    BY <1>6, <1>8, <2>1
  <2> QED  BY <1>5, <1>8, <2>1, <2>2 DEF Kept
<1>9. CASE Quiet
  BY <1>3, <1>8, <1>9 DEF Quiet, ReferencedClientStays
<1>10. CASE Opens
  <2>1. PICK c \in CodeIds, n \in TokenIds :
          /\ codes[c].status = "live" /\ NextFree(tokens, n)
          /\ tokens'[n].family = n /\ tokens'[n].code = c
          /\ \A u \in TokenIds \ {n} : Kept(u)
    BY <1>10 DEF Opens
  <2>2. TokenClient(n)' \in Registered'
    BY <1>1, <1>2, <2>1, NoneIsNoId DEF TokenClient
  <2>3. ASSUME NEW t \in TokenIds \ {n}, tokens'[t].status \in Stored
        PROVE  TokenClient(t)' \in Registered'
    BY <1>8, <2>1, <2>3 DEF NextFree
  <2> QED  BY <1>3, <2>2, <2>3 DEF ReferencedClientStays
<1>11. CASE Grows
  <2>1. PICK p \in TokenIds, n \in TokenIds :
          /\ tokens[p].status = "live" /\ NextFree(tokens, n)
          /\ tokens'[n].family = tokens[p].family
          /\ \A u \in TokenIds \ {n} : Kept(u)
    BY <1>11 DEF Grows
  <2>2. TokenClient(n)' \in Registered'
    <3>1. tokens[p].status \in Stored
      BY <2>1 DEF Stored
    <3>2. tokens[p].family \in TokenIds /\ tokens[p].family # n
      BY <1>6, <2>1, <3>1 DEF NextFree
    <3>3. tokens'[tokens[p].family].code = tokens[tokens[p].family].code
      BY <2>1, <3>2 DEF Kept
    <3>4. TokenClient(n)' = TokenClient(p)
      BY <1>2, <2>1, <3>3 DEF TokenClient
    <3> QED  BY <1>1, <1>2, <3>1, <3>4
  <2>3. ASSUME NEW t \in TokenIds \ {n}, tokens'[t].status \in Stored
        PROVE  TokenClient(t)' \in Registered'
    BY <1>8, <2>1, <2>3 DEF NextFree
  <2> QED  BY <1>3, <2>2, <2>3 DEF ReferencedClientStays
<1> QED  BY <1>4, <1>9, <1>10, <1>11

LEMMA ClientInvKept ==
    ASSUME ClientInv, [OAuthNext]_oauthVars
    PROVE  ClientInv'
<1> DEFINE Typed == /\ clients \in [Clients -> Client]
                    /\ codeClient \in [CodeIds -> Clients \cup {None}]
<1>1. TypeOK /\ FamilyInv /\ ReferencedClientStays /\ Typed /\ now \in Nat
  BY DEF ClientInv, FamilyInv, TypeOK
<1>2. [Next]_vars
  BY <1>1, GrantsStep
<1>3. FamilyInv'
  BY <1>1, <1>2, StepKeeps
<1>4. SUFFICES Typed' /\ ReferencedClientStays'
  BY <1>3 DEF ClientInv
<1>5. \A x \in Nat : Row("unused", x) \in Client /\ Row("unused", x).status = "unused"
  BY RowIsClient
<1>6. /\ Row("used", 0) \in Client /\ Row("used", 0).status = "used"
      /\ Row("legacy", 0) \in Client /\ Row("legacy", 0).status = "legacy"
  BY RowIsClient
<1>7. ASSUME NEW k \in Clients, NEW row \in Client, row.status # "absent", UNCHANGED vars,
             UNCHANGED codeClient, NEW rows \in [Clients -> Client],
             \A l \in Registered : References(l) => rows[l].status # "absent",
             clients' = [rows EXCEPT ![k] = row]
      PROVE  Typed' /\ ReferencedClientStays'
  BY <1>1, <1>7, ClientStepKeeps
<1>8. \A l \in Registered : References(l) => clients[l].status # "absent"
  BY DEF Registered
<1>9. ASSUME NEW k \in Clients,
             RegisterAgain(k) \/ RegisterPlainClient(k) \/ ReconcileClient(k)
      PROVE  Typed' /\ ReferencedClientStays'
  BY <1>1, <1>6, <1>7, <1>8, <1>9 DEF RegisterAgain, RegisterPlainClient, ReconcileClient
<1>10. ASSUME NEW K, clients' = Swept(K), UNCHANGED vars, UNCHANGED codeClient
       PROVE  Typed' /\ ReferencedClientStays'
  BY <1>1, <1>10, SweptClients, ClientStepKeeps
<1>11. ASSUME NEW k \in Clients, RegisterClient(k)
       PROVE  Typed' /\ ReferencedClientStays'
  <2>1. UNCHANGED vars /\ UNCHANGED codeClient
    BY <1>11 DEF RegisterClient
  <2>2. CASE clients' = Swept(Unclaimed)
    BY <1>10, <2>1, <2>2
  <2>3. CASE clients' = [Swept(Unclaimed) EXCEPT ![k] = Row("unused", now + UnusedLife)]
    <3>1. now + UnusedLife \in Nat
      BY <1>1, ClientsAssumption
    <3>2. /\ Row("unused", now + UnusedLife) \in Client
          /\ Row("unused", now + UnusedLife).status # "absent"
      BY <1>5, <3>1
    <3>3. /\ Swept(Unclaimed) \in [Clients -> Client]
          /\ \A l \in Registered : References(l) => Swept(Unclaimed)[l].status # "absent"
      BY <1>1, SweptClients
    <3> QED  BY <1>7, <2>1, <2>3, <3>2, <3>3
  <2> QED  BY <1>11, <2>2, <2>3 DEF RegisterClient
<1>12. ASSUME NEW k \in Clients, NEW c \in CodeIds, NEW a \in Accounts, NEW write \in BOOLEAN,
              NEW offline \in BOOLEAN, NEW x \in now..(now + MaxCode + 1),
              \/ CreateClientCode(k, c, a, write, offline, x)
              \/ CreatePlainCode(k, c, a, write, offline, x)
       PROVE  Typed' /\ ReferencedClientStays'
  <2>1. x \in Nat
    BY <1>1
  <2>2. /\ k \in Registered /\ CreateCode(c, a, write, offline, x)
        /\ codeClient' = [codeClient EXCEPT ![c] = k]
        /\ clients' = clients \/ clients' = [clients EXCEPT ![k] = Row("used", 0)]
    BY <1>12 DEF CreateClientCode, CreatePlainCode
  <2>3. Typed' /\ \A l \in Registered : l \in Registered'
    BY <1>1, <1>6, <2>2 DEF Registered
  <2> HIDE DEF Typed
  <2>4. ReferencedClientStays'
    BY <2>1, <2>2, <2>3, CodeStepKeeps, Zenon
  <2> QED  BY <2>3, <2>4
<1>13. CASE ClientRequests
  BY <1>9, <1>11, <1>12, <1>13 DEF ClientRequests
<1>14. CASE GrantSteps
  <2>1. UNCHANGED clientVars
    BY <1>14 DEF GrantSteps
  <2>2. ReferencedClientStays'
    BY <1>2, <1>14, GrantStepKeeps
  <2> QED  BY <1>1, <2>1, <2>2 DEF clientVars
<1>15. CASE \E j \in clientJobs : CleanupClient(j)
  BY <1>10, <1>15 DEF CleanupClient
<1>16. CASE UNCHANGED oauthVars
  BY <1>1, <1>16 DEF oauthVars, ReferencedClientStays, TokenClient, Registered
<1> QED  BY <1>13, <1>14, <1>15, <1>16 DEF OAuthNext

LEMMA ClientsInit == OAuthInit => ClientInv
<1> SUFFICES ASSUME OAuthInit PROVE ClientInv
  OBVIOUS
<1>1. FamilyInv
  BY InitKeeps DEF OAuthInit
<1>2. clients \in [Clients -> Client] /\ codeClient \in [CodeIds -> Clients \cup {None}]
  BY RowIsClient DEF OAuthInit
<1>3. \A c \in CodeIds : codes[c].status # "live"
  BY DEF OAuthInit, Init, FreeCode
<1>4. ASSUME NEW t \in TokenIds, tokens[t].status \in Stored
      PROVE  TokenClient(t) \in Registered
  <2>1. TokenClient(t) = LegacyClient
    <3>1. PICK r \in TokenIds, s \in TokenIds : LegacyForm(r, s)
      BY InitForm DEF OAuthInit
    <3>2. \A u \in TokenIds : tokens[u].code = None
      BY <3>1, FreeTokenRow DEF LegacyForm
    <3>3. tokens[t].family \in TokenIds
      BY <1>1, <1>4 DEF FamilyInv, Rooted, Stored
    <3> QED  BY <3>2, <3>3 DEF TokenClient
  <2>2. tokens[t].status # "free"
    BY <1>4 DEF Stored
  <2>3. clients[LegacyClient] = Row("legacy", 0)
    BY <2>2, ClientsAssumption DEF OAuthInit
  <2> QED  BY <2>1, <2>3, ClientsAssumption, RowIsClient DEF Registered
<1> QED  BY <1>1, <1>2, <1>3, <1>4 DEF ClientInv, ReferencedClientStays

\* A client that a code or a token still refers to keeps its row, whatever the
\* two registrations, the sweeps and the scheduled calls do meanwhile.
THEOREM ClientsStay == OAuthSpec => []ReferencedClientStays
<1>1. OAuthInit => ClientInv
  BY ClientsInit
<1>2. ClientInv => ReferencedClientStays
  BY DEF ClientInv
<1> QED  BY <1>1, <1>2, ClientInvKept, PTL DEF OAuthSpec

-----------------------------------------------------------------------------
\* What a sweep leaves unused it leaves as it was.
LEMMA SweptUnused ==
    ASSUME clients \in [Clients -> Client], NEW K, NEW k \in Clients,
           Swept(K)[k].status = "unused"
    PROVE  k \notin K /\ Swept(K)[k] = clients[k]
<1>1. Row("used", 0).status # "unused" /\ Row("absent", 0).status # "unused"
  BY RowIsClient
<1> QED  BY <1>1 DEF Swept

\* A row that is not used yet was so before and had its call, or is new.
LEMMA UnusedRowsKeep ==
    ASSUME UnusedClientHasCall, clientJobs \subseteq clientJobs',
           \A k \in Clients : clients'[k].status = "unused" =>
               \/ clients'[k] = clients[k]
               \/ [client |-> k, at |-> clients'[k].unusedExpiresAt] \in clientJobs'
    PROVE  UnusedClientHasCall'
BY DEF UnusedClientHasCall

LEMMA ClientCallsKept ==
    ASSUME ClientInv, UnusedClientHasCall, [OAuthNext]_oauthVars
    PROVE  UnusedClientHasCall'
<1>1. clients \in [Clients -> Client] /\ now \in Nat
  BY DEF ClientInv, FamilyInv, TypeOK
<1>2. Row("used", 0).status # "unused" /\ Row("legacy", 0).status # "unused"
  BY RowIsClient
<1>3. ASSUME UNCHANGED clientJobs, NEW k \in Clients, NEW row, row.status # "unused",
             clients' = clients \/ clients' = [clients EXCEPT ![k] = row]
      PROVE  UnusedClientHasCall'
  BY <1>1, <1>3, UnusedRowsKeep
<1>4. ASSUME NEW k \in Clients, RegisterClient(k)
      PROVE  UnusedClientHasCall'
  <2>1. ASSUME NEW l \in Clients, Swept(Unclaimed)[l].status = "unused"
        PROVE  Swept(Unclaimed)[l] = clients[l]
    BY <1>1, <2>1, SweptUnused
  <2>2. CASE clients' = Swept(Unclaimed) /\ UNCHANGED clientJobs
    BY <2>1, <2>2, UnusedRowsKeep
  <2>3. CASE /\ clients' = [Swept(Unclaimed) EXCEPT ![k] = Row("unused", now + UnusedLife)]
             /\ ScheduleCleanup(k)
    <3>1. DOMAIN Swept(Unclaimed) = Clients
      BY DEF Swept
    <3>2. /\ clientJobs \subseteq clientJobs'
          /\ [client |-> k, at |-> now + UnusedLife] \in clientJobs'
      BY <2>3 DEF ScheduleCleanup
    <3>3. clients'[k].unusedExpiresAt = now + UnusedLife
      BY <2>3, <3>1 DEF Row
    <3>4. \A l \in Clients \ {k} : clients'[l] = Swept(Unclaimed)[l]
      BY <2>3, <3>1
    <3> QED  BY <2>1, <3>2, <3>3, <3>4, UnusedRowsKeep
  <2> QED  BY <1>4, <2>2, <2>3 DEF RegisterClient
<1>5. CASE ClientRequests
  <2>1. ASSUME NEW k \in Clients,
               RegisterAgain(k) \/ RegisterPlainClient(k) \/ ReconcileClient(k)
        PROVE  UnusedClientHasCall'
    BY <1>2, <1>3, <2>1 DEF RegisterAgain, RegisterPlainClient, ReconcileClient
  <2>2. ASSUME NEW k \in Clients, NEW c \in CodeIds, NEW a \in Accounts, NEW write \in BOOLEAN,
               NEW offline \in BOOLEAN, NEW x \in now..(now + MaxCode + 1),
               \/ CreateClientCode(k, c, a, write, offline, x)
               \/ CreatePlainCode(k, c, a, write, offline, x)
        PROVE  UnusedClientHasCall'
    BY <1>2, <1>3, <2>2 DEF CreateClientCode, CreatePlainCode
  <2> QED  BY <1>4, <1>5, <2>1, <2>2 DEF ClientRequests
<1>6. ASSUME NEW j \in clientJobs, CleanupClient(j)
      PROVE  UnusedClientHasCall'
  <2> DEFINE K == {k \in {j.client} \cap Unclaimed : clients[k].unusedExpiresAt = j.at}
  <2>1. /\ clients' = Swept(K) /\ clientJobs' = clientJobs \ {j} /\ j.at <= now
    BY <1>6 DEF CleanupClient
  <2>2. ASSUME NEW k \in Clients, clients'[k].status = "unused"
        PROVE  [client |-> k, at |-> clients'[k].unusedExpiresAt] \in clientJobs'
    <3>1. k \notin K /\ clients'[k] = clients[k]
      BY <1>1, <2>1, <2>2, SweptUnused
    <3>2. [client |-> k, at |-> clients[k].unusedExpiresAt] \in clientJobs
      BY <2>2, <3>1 DEF UnusedClientHasCall
    <3>3. [client |-> k, at |-> clients[k].unusedExpiresAt] # j
      BY <2>1, <2>2, <3>1 DEF Unclaimed
    <3> QED  BY <2>1, <3>1, <3>2, <3>3
  <2> QED  BY <2>2 DEF UnusedClientHasCall
<1>7. CASE UNCHANGED clientVars
  BY <1>7 DEF clientVars, UnusedClientHasCall
<1> QED  BY <1>5, <1>6, <1>7 DEF OAuthNext, GrantSteps, oauthVars, clientVars

\* Whichever calls are owed, dropped or replaced, a client that nobody has used
\* has a call for the deadline its row names.
THEOREM UnusedClientsHaveCalls == OAuthSpec => []UnusedClientHasCall
<1>1. OAuthInit => ClientInv
  BY ClientsInit
<1>2. OAuthInit => UnusedClientHasCall
  <2>1. Row("legacy", 0).status # "unused" /\ Row("absent", 0).status # "unused"
    BY RowIsClient
  <2> QED  BY <2>1 DEF OAuthInit, UnusedClientHasCall
<1> QED  BY <1>1, <1>2, ClientInvKept, ClientCallsKept, PTL DEF OAuthSpec
=============================================================================
