--------------------------- MODULE RefreshFamilies ---------------------------
(***************************************************************************)
(* OAuth authorization codes and refresh-token families                    *)
(* (convex/mcpOAuth.ts).  A code is exchanged for the root of a family, a  *)
(* refresh replaces the newest token by the next, and a scheduled call     *)
(* deletes the family in batches once its deadline has passed.  The rows   *)
(* may have been written by an earlier release, without a deadline of the  *)
(* family, or with a call that names no workspace.                         *)
(* A mutation is one action; one that throws, or that meets an unknown     *)
(* credential, a wrong secret or another client, changes nothing.          *)
(***************************************************************************)
EXTENDS Integers, FiniteSets

CONSTANTS
    Accounts,
    CodeIds,    \* ids of the code rows, in insertion order
    TokenIds,   \* ids of the token rows, in insertion order
    MaxCode,    \* MAX_CODE_LIFETIME_MS
    MaxRefresh, \* MAX_REFRESH_LIFETIME_MS
    Batch,      \* REFRESH_CLEANUP_BATCH_SIZE
    MaxTime,    \* bound: the clock stops here
    None

ASSUME IdsAssumption == CodeIds \subseteq Nat /\ TokenIds \subseteq Nat
ASSUME BoundsAssumption ==
    /\ MaxCode \in Nat /\ MaxRefresh \in Nat /\ MaxTime \in Nat
    /\ Batch \in Nat \ {0}
ASSUME NoneAssumption == None \notin Nat /\ None \notin Accounts

VARIABLES
    codes,   \* the mcpOAuthCodes rows
    tokens,  \* the mcpOAuthRefreshTokens rows; a deleted one keeps its fields
    role,    \* role[a]: what the account's membership allows
    jobs,    \* cleanupRefreshFamilyScheduled calls still owed
    now      \* Date.now()

vars == <<codes, tokens, role, jobs, now>>

Roles == {"none", "read", "write"}

Code == [status : {"free", "live", "deleted"}, account : Accounts \cup {None},
         write : BOOLEAN, offline : BOOLEAN, expiresAt : Nat]

\* consumed: consumedAt is set; revoked: revokedAt is set.  `code' and `parent'
\* record what the token was given for.
Token == [status : {"free", "live", "consumed", "revoked", "deleted"},
          account : Accounts \cup {None}, family : TokenIds \cup {None},
          code : CodeIds \cup {None}, parent : TokenIds \cup {None},
          write : BOOLEAN, expiresAt : Nat, familyExpiresAt : Nat \cup {None},
          scheduledAt : Nat \cup {None}, generation : Int]

Job == [family : TokenIds, deadline : Nat, generation : Int,
        continuation : BOOLEAN, legacy : BOOLEAN, at : Nat]

FreeCode == [status |-> "free", account |-> None, write |-> FALSE, offline |-> FALSE,
             expiresAt |-> 0]

FreeToken == [status |-> "free", account |-> None, family |-> None, code |-> None,
              parent |-> None, write |-> FALSE, expiresAt |-> 0, familyExpiresAt |-> None,
              scheduledAt |-> None, generation |-> 0]

\* A row of an earlier release, which knew no deadline of a family (d = None)
\* or scheduled its cleanup in another form (g > 0).
LegacyToken(a, st, f, x, d, g) ==
    [status |-> st, account |-> a, family |-> f, code |-> None, parent |-> None,
     write |-> FALSE, expiresAt |-> x, familyExpiresAt |-> d, scheduledAt |-> d,
     generation |-> g]

\* What an earlier release left: nothing; a root; a rotated root, each row with
\* its own expiry; a root with a deadline and a call of the old form.
LegacyRows(a, r, t) ==
    LET free == [u \in TokenIds |-> FreeToken]
    IN  \/ tokens = free /\ jobs = {}
        \/ /\ tokens = [free EXCEPT ![r] = LegacyToken(a, "live", r, MaxRefresh, None, 0)]
           /\ jobs = {}
        \/ /\ tokens = [free EXCEPT ![r] = LegacyToken(a, "consumed", r, MaxRefresh, None, 0),
                                    ![t] = LegacyToken(a, "live", r, MaxRefresh + 1, None, 0)]
           /\ jobs = {}
        \/ /\ tokens = [free EXCEPT ![r] = LegacyToken(a, "live", r, MaxRefresh, MaxRefresh, 1)]
           /\ jobs = {[family |-> r, deadline |-> MaxRefresh, generation |-> 1,
                       continuation |-> FALSE, legacy |-> TRUE, at |-> MaxRefresh]}

FirstIds(r, t) == r # t /\ \A u \in TokenIds : r <= u /\ (u # r => t <= u)

Init ==
    /\ codes = [c \in CodeIds |-> FreeCode]
    /\ \E a \in Accounts, r, t \in TokenIds : FirstIds(r, t) /\ LegacyRows(a, r, t)
    /\ role \in [Accounts -> Roles]
    /\ now = 1

\* The id the next insert gives out.
NextFree(rows, i) == /\ rows[i].status = "free"
                     /\ \A j \in DOMAIN rows : j < i => rows[j].status # "free"

Stored == {"live", "consumed", "revoked"}
Min2(x, y) == IF x <= y THEN x ELSE y
Max2(x, y) == IF x <= y THEN y ELSE x

-----------------------------------------------------------------------------
\* The account may still grant what was asked for (readAccountPrincipal,
\* authorisedScopes).
Authorised(a, write) == role[a] = "write" \/ (role[a] = "read" /\ ~write)

Family(rows, f) == {t \in TokenIds : rows[t].family = f /\ rows[t].status \in Stored}

IsOldest(rows, f, t) == t \in Family(rows, f) /\ \A u \in Family(rows, f) : t <= u

\* Mutant: the edge read in the wrong order.
IsNewestAscending(rows, f, t) == t \in Family(rows, f) /\ \A u \in Family(rows, f) : t <= u

IsNewest(rows, f, t) == t \in Family(rows, f) /\ \A u \in Family(rows, f) : u <= t

\* The row that carries the family's schedule: its root, else its oldest row.
IsCoordinator(rows, f, c) ==
    IF f \in Family(rows, f) THEN c = f ELSE IsOldest(rows, f, c)

\* refreshTokenFamilyExpiry
Deadline(rows, t) ==
    IF rows[t].familyExpiresAt # None THEN rows[t].familyExpiresAt ELSE rows[t].expiresAt

NextGeneration(g) == IF g < 0 THEN g - 1 ELSE -(g + 1)

\* ensureRefreshFamilyCleanupScheduled would change something.
ScheduleNeeded(rows, c, d) ==
    ~ (rows[c].familyExpiresAt = d /\ rows[c].scheduledAt = d /\ rows[c].generation < 0)

Scheduled(rows, c, d) ==
    IF ScheduleNeeded(rows, c, d)
    THEN [rows EXCEPT ![c].familyExpiresAt = d, ![c].scheduledAt = d,
                      ![c].generation = NextGeneration(@)]
    ELSE rows

ScheduledJobs(rows, c, d) ==
    IF ScheduleNeeded(rows, c, d)
    THEN {[family |-> rows[c].family, deadline |-> d,
           generation |-> NextGeneration(rows[c].generation), continuation |-> FALSE,
           legacy |-> FALSE, at |-> Max2(now, d)]}
    ELSE {}

\* revokeRefreshFamily: the newest row is the only one that can be live.
FamilyRevoked(rows, f) ==
    [t \in TokenIds |-> IF IsNewest(rows, f, t) /\ rows[t].status = "live"
                        THEN [rows[t] EXCEPT !.status = "revoked"] ELSE rows[t]]

-----------------------------------------------------------------------------
(* createAuthorizationCode *)
CreateCode(c, a, write, offline, x) ==
    /\ NextFree(codes, c)
    /\ Authorised(a, write)
    /\ x > now /\ x <= now + MaxCode
    /\ codes' = [d \in CodeIds |->
           IF d = c THEN [status |-> "live", account |-> a, write |-> write,
                          offline |-> offline, expiresAt |-> x]
           ELSE IF codes[d].status = "live" /\ codes[d].expiresAt <= now
                THEN [codes[d] EXCEPT !.status = "deleted"] ELSE codes[d]]
    /\ UNCHANGED <<tokens, role, jobs, now>>

\* Mutant: the code is left for a second exchange.
CodeKept(c) == UNCHANGED codes

CodeDeleted(c) == codes' = [codes EXCEPT ![c].status = "deleted"]

(* exchangeAuthorizationCode that gives no refresh token: the code lapsed, *)
(* the request does not match it, the account lost the scopes, or offline  *)
(* access was not asked for.  The code is gone in each case.               *)
RedeemCode(c, matches) ==
    /\ codes[c].status = "live"
    /\ \/ codes[c].expiresAt <= now
       \/ ~matches
       \/ ~Authorised(codes[c].account, codes[c].write)
       \/ ~codes[c].offline
    /\ codes' = [codes EXCEPT ![c].status = "deleted"]
    /\ UNCHANGED <<tokens, role, jobs, now>>

(* exchangeAuthorizationCode with offline access: the root of a family. *)
ExchangeCode(c, x) ==
    /\ codes[c].status = "live"
    /\ codes[c].expiresAt > now
    /\ Authorised(codes[c].account, codes[c].write)
    /\ codes[c].offline
    /\ x > now /\ x <= now + MaxRefresh
    /\ \E t \in TokenIds :
        /\ NextFree(tokens, t)
        /\ tokens' = [tokens EXCEPT ![t] =
               [status |-> "live", account |-> codes[c].account, family |-> t, code |-> c,
                parent |-> None, write |-> codes[c].write, expiresAt |-> x,
                familyExpiresAt |-> x, scheduledAt |-> x, generation |-> -1]]
        /\ jobs' = jobs \cup {[family |-> t, deadline |-> x, generation |-> -1,
                               continuation |-> FALSE, legacy |-> FALSE, at |-> x]}
    /\ CodeDeleted(c)
    /\ UNCHANGED <<role, now>>

-----------------------------------------------------------------------------
\* Mutant: a revoked token is refused, a consumed one is not.
SpentIfRevoked(t) == tokens[t].status = "revoked"

Spent(t) == tokens[t].status \in {"consumed", "revoked"}

\* Mutant: the requested expiry is taken as it is.
NextExpiryAsRequested(x, d) == x

NextExpiry(x, d) == Min2(x, d)

\* The rows rotateRefreshToken reads agree on the family's deadline.
Agree(S) == \A u, v \in S : Deadline(tokens, u) = Deadline(tokens, v)

\* failClosedCleanupDeadline
FailClosedDeadline(c) ==
    IF tokens[c].scheduledAt # None /\ tokens[c].scheduledAt <= now /\ tokens[c].generation # 0
    THEN tokens[c].scheduledAt ELSE now

(* rotateRefreshToken of a family whose rows disagree: it is shut down. *)
FailClosed(t) ==
    LET f == tokens[t].family
    IN  /\ tokens[t].status \in Stored
        /\ \E c, w \in TokenIds :
            /\ IsCoordinator(tokens, f, c) /\ IsNewest(tokens, f, w)
            /\ ~Agree({c, t, w})
            /\ tokens' = Scheduled(FamilyRevoked(tokens, f), c, FailClosedDeadline(c))
            /\ jobs' = jobs \cup ScheduledJobs(tokens, c, FailClosedDeadline(c))
        /\ UNCHANGED <<codes, role, now>>

(* rotateRefreshToken of a consistent family: a replay or a lost account   *)
(* revokes it, an expired token is revoked, any other gives the next one.  *)
Rotate(t, x) ==
    LET f == tokens[t].family
    IN  /\ tokens[t].status \in Stored
        /\ \E c, w \in TokenIds :
            LET d == Deadline(tokens, c)
                rows == Scheduled(tokens, c, d)
                expired == tokens[t].expiresAt <= now \/ d <= now
                authorised == Authorised(tokens[t].account, tokens[t].write)
            IN  /\ IsCoordinator(tokens, f, c) /\ IsNewest(tokens, f, w)
                /\ Agree({c, t, w})
                /\ jobs' = jobs \cup ScheduledJobs(tokens, c, d)
                /\ \/ /\ Spent(t) \/ (~expired /\ ~authorised)
                      /\ tokens' = FamilyRevoked(rows, f)
                   \/ /\ ~Spent(t) /\ expired
                      /\ tokens' = [rows EXCEPT ![t].status = "revoked"]
                   \/ /\ ~Spent(t) /\ ~expired /\ authorised
                      /\ x > now /\ x <= now + MaxRefresh
                      /\ \E n \in TokenIds :
                         /\ NextFree(tokens, n)
                         /\ tokens' = [rows EXCEPT ![t].status = "consumed", ![n] =
                                [status |-> "live", account |-> tokens[t].account,
                                 family |-> f, code |-> None, parent |-> t,
                                 write |-> tokens[t].write, expiresAt |-> NextExpiry(x, d),
                                 familyExpiresAt |-> d, scheduledAt |-> None,
                                 generation |-> 0]]
        /\ UNCHANGED <<codes, role, now>>

-----------------------------------------------------------------------------
\* The k oldest rows of a family.
Oldest(f, k) == {t \in Family(tokens, f) :
                    Cardinality({u \in Family(tokens, f) : u < t}) < k}

\* Mutant: only a call of the current form is looked for.
MatchesCurrentForm(c, j) ==
    /\ tokens[c].scheduledAt = j.deadline /\ tokens[c].generation = j.generation
    /\ j.generation < 0

\* The call is the one the coordinator waits for.
Matches(c, j) ==
    /\ tokens[c].scheduledAt = j.deadline /\ tokens[c].generation = j.generation
    /\ j.generation < 0 \/ j.legacy

\* No row is left, or the call names no workspace and its root is gone.
NothingToClean(j) ==
    \/ Family(tokens, j.family) = {}
    \/ j.legacy /\ j.family \notin Family(tokens, j.family)

(* cleanupRefreshFamilyScheduled: a call that was replaced leaves the rows *)
(* alone, one of the old form is scheduled again in the current form, and  *)
(* the right one deletes a batch and asks for the next.                    *)
Cleanup(j) ==
    LET f == j.family
    IN  /\ j \in jobs /\ j.at <= now
        /\ \/ /\ NothingToClean(j)
              /\ jobs' = jobs \ {j} /\ UNCHANGED tokens
           \/ \E c, w \in TokenIds :
              LET agreed == \A u \in Oldest(f, Batch + 1) \cup {w} :
                                Deadline(tokens, u) = j.deadline
                  canonical == IF j.continuation \/ agreed THEN j.deadline
                               ELSE Min2(j.deadline, now)
                  rows == IF j.continuation THEN tokens
                          ELSE [tokens EXCEPT ![c].scheduledAt = None]
              IN  /\ ~NothingToClean(j)
                  /\ IsCoordinator(tokens, f, c) /\ IsNewest(tokens, f, w)
                  /\ \/ /\ ~j.continuation /\ ~Matches(c, j)
                        /\ jobs' = jobs \ {j} /\ UNCHANGED tokens
                     \/ /\ ~j.continuation /\ Matches(c, j) /\ j.generation > 0
                        /\ tokens' = Scheduled(tokens, c, canonical)
                        /\ jobs' = (jobs \ {j}) \cup ScheduledJobs(tokens, c, canonical)
                     \/ /\ j.continuation \/ (Matches(c, j) /\ j.generation < 0)
                        /\ IF canonical > now
                           THEN /\ tokens' = Scheduled(rows, c, canonical)
                                /\ jobs' = (jobs \ {j}) \cup ScheduledJobs(rows, c, canonical)
                           ELSE /\ tokens' = [t \in TokenIds |->
                                      IF t \in Oldest(f, Batch)
                                      THEN [rows[t] EXCEPT !.status = "deleted"] ELSE rows[t]]
                                /\ jobs' = (jobs \ {j}) \cup
                                      {[family |-> f, deadline |-> canonical,
                                        generation |-> j.generation, continuation |-> TRUE,
                                        legacy |-> FALSE, at |-> now] :
                                          t \in Family(tokens, f) \ Oldest(f, Batch)}
        /\ UNCHANGED <<codes, role, now>>

(* The account's membership is changed, revoked or restored, or the account *)
(* is disabled.                                                             *)
SetRole(a, r) ==
    /\ role[a] # r
    /\ role' = [role EXCEPT ![a] = r]
    /\ UNCHANGED <<codes, tokens, jobs, now>>

Tick == now < MaxTime /\ now' = now + 1 /\ UNCHANGED <<codes, tokens, role, jobs>>

-----------------------------------------------------------------------------
CodeRequests ==
    \E c \in CodeIds :
        \/ \E a \in Accounts, write, offline \in BOOLEAN, x \in now..(now + MaxCode + 1) :
              CreateCode(c, a, write, offline, x)
        \/ \E matches \in BOOLEAN : RedeemCode(c, matches)
        \/ \E x \in now..(now + MaxRefresh + 1) : ExchangeCode(c, x)

TokenRequests ==
    \E t \in TokenIds :
        \/ FailClosed(t)
        \/ \E x \in now..(now + MaxRefresh + 1) : Rotate(t, x)

Next == \/ CodeRequests
        \/ TokenRequests
        \/ \E j \in jobs : Cleanup(j)
        \/ \E a \in Accounts, r \in Roles : SetRole(a, r)
        \/ Tick

Spec == Init /\ [][Next]_vars

-----------------------------------------------------------------------------
TypeOK ==
    /\ codes \in [CodeIds -> Code]
    /\ tokens \in [TokenIds -> Token]
    /\ role \in [Accounts -> Roles]
    /\ jobs \subseteq Job
    /\ now \in Nat

Live(f) == {t \in TokenIds : tokens[t].family = f /\ tokens[t].status = "live"}

\* A family has one live token at most, and it is the newest row, the only one
\* that a revocation of the family looks at.
OneLiveToken ==
    \A t, u \in TokenIds :
        tokens[t].status = "live" /\ tokens[u].family = tokens[t].family => u <= t

\* A code opens one family and a token has one successor, whatever is retried
\* or presented twice, and no successor outlives the token the code was
\* exchanged for.
LineageIsBounded ==
    \A t \in TokenIds :
        /\ \A u \in TokenIds \ {t} : tokens[t].code = tokens[u].code => tokens[t].code = None
        /\ \A u \in TokenIds \ {t} : tokens[t].parent = tokens[u].parent => tokens[t].parent = None
        /\ tokens[t].parent # None =>
              tokens[t].expiresAt <= tokens[tokens[t].family].expiresAt

\* Presenting a spent token ends its family, and a family that has ended gets
\* no live token again.
ReplayEndsFamily ==
    [][/\ \A f \in TokenIds : Live(f) = {} /\ tokens[f].status # "free" => Live(f)' = {}
       /\ \A t \in TokenIds :
            /\ tokens[t].status \in {"consumed", "revoked"}
            /\ Rotate(t, now) \/ FailClosed(t)
            => Live(tokens[t].family)' = {}]_vars

\* A family that is due is deleted to the last row, although the rows are
\* deleted in batches and calls are replaced while they wait.
FamilyIsCleaned ==
    \A f \in TokenIds :
        (\E c \in TokenIds : /\ IsCoordinator(tokens, f, c)
                             /\ tokens[c].scheduledAt \in 1..now)
        ~> Family(tokens, f) = {}
=============================================================================
