---------------------------- MODULE OAuthClients ----------------------------
(***************************************************************************)
(* Registered OAuth clients (convex/mcpOAuthClientLifecycle.ts) beside the *)
(* codes and refresh tokens they obtain.  A client that nobody used within *)
(* its first day is deleted by a scheduled call or by a later              *)
(* registration; one with codes or tokens must stay.  Clients and codes    *)
(* are also written by the older mutations of convex/mcpOAuth.ts, which do *)
(* not know of the lifecycle.  Rows whose lifecycle fields contradict each *)
(* other, which no mutation writes, are left out.                          *)
(***************************************************************************)
EXTENDS RefreshFamilies

CONSTANTS
    Clients,      \* client ids
    LegacyClient, \* the client of the tokens an earlier release left
    MaxClients,   \* MAX_CLIENTS_PER_WORKSPACE
    UnusedLife    \* UNUSED_CLIENT_LIFETIME_MS

ASSUME ClientsAssumption ==
    LegacyClient \in Clients /\ None \notin Clients /\ MaxClients \in Nat /\ UnusedLife \in Nat

VARIABLES
    clients,    \* the mcpOAuthClients rows
    codeClient, \* codeClient[c]: clientExternalId of a code, which its tokens copy
    clientJobs  \* cleanupUnusedClientScheduled calls still owed

clientVars == <<clients, codeClient, clientJobs>>
oauthVars == <<codes, tokens, role, jobs, now, clients, codeClient, clientJobs>>

\* legacy: the row has no lifecycle fields.
Client == [status : {"absent", "legacy", "unused", "used"}, unusedExpiresAt : Nat]
ClientJob == [client : Clients, at : Nat]

Row(st, x) == [status |-> st, unusedExpiresAt |-> x]

OAuthInit ==
    /\ Init
    /\ clients = [k \in Clients |->
           Row(IF k = LegacyClient /\ \E t \in TokenIds : tokens[t].status # "free"
               THEN "legacy" ELSE "absent", 0)]
    /\ codeClient = [c \in CodeIds |-> None]
    /\ clientJobs = {}

-----------------------------------------------------------------------------
TokenClient(t) ==
    LET c == tokens[tokens[t].family].code
    IN  IF c = None THEN LegacyClient ELSE codeClient[c]

\* Mutant: the tokens of a client are not looked at.
ReferencesByCode(k) == \E c \in CodeIds : codes[c].status = "live" /\ codeClient[c] = k

\* clientHasReferences
References(k) ==
    \/ \E c \in CodeIds : codes[c].status = "live" /\ codeClient[c] = k
    \/ \E t \in TokenIds : tokens[t].status \in Stored /\ TokenClient(t) = k

Registered == {k \in Clients : clients[k].status # "absent"}

Unclaimed == {k \in Clients : clients[k].status = "unused" /\ clients[k].unusedExpiresAt <= now}

\* A client past its first day is kept if something refers to it.
Swept(K) == [k \in Clients |-> IF k \notin K THEN clients[k]
                               ELSE IF References(k) THEN Row("used", 0) ELSE Row("absent", 0)]

(* registerClient of a client that is there: only an expired one that is   *)
(* referred to changes.                                                    *)
RegisterAgain(k) ==
    /\ k \in Unclaimed /\ References(k)
    /\ clients' = [clients EXCEPT ![k] = Row("used", 0)]
    /\ UNCHANGED <<vars, codeClient, clientJobs>>

\* Mutant: a call still owed for the id is taken for this registration's.
ScheduleCleanupOncePerId(k) ==
    clientJobs' = IF \E j \in clientJobs : j.client = k THEN clientJobs
                  ELSE clientJobs \cup {[client |-> k, at |-> now + UnusedLife]}

ScheduleCleanup(k) == clientJobs' = clientJobs \cup {[client |-> k, at |-> now + UnusedLife]}

(* registerClient of a new client: expired ones make room first, also when *)
(* the limit then refuses the registration.                                *)
RegisterClient(k) ==
    LET left == {l \in Clients : Swept(Unclaimed)[l].status # "absent"}
    IN  /\ k \notin Registered
        /\ IF Cardinality(left) >= MaxClients
           THEN clients' = Swept(Unclaimed) /\ UNCHANGED clientJobs
           ELSE /\ clients' = [Swept(Unclaimed) EXCEPT ![k] = Row("unused", now + UnusedLife)]
                /\ ScheduleCleanup(k)
        /\ UNCHANGED <<vars, codeClient>>

(* The older registerClient: a row without a lifecycle. *)
RegisterPlainClient(k) ==
    /\ k \notin Registered
    /\ Cardinality(Registered) < MaxClients
    /\ clients' = [clients EXCEPT ![k] = Row("legacy", 0)]
    /\ UNCHANGED <<vars, codeClient, clientJobs>>

(* reconcileClientLifecycle, which the Worker calls before each request. *)
ReconcileClient(k) ==
    /\ clients[k].status \in {"legacy", "unused"} /\ References(k)
    /\ clients' = [clients EXCEPT ![k] = Row("used", 0)]
    /\ UNCHANGED <<vars, codeClient, clientJobs>>

(* createAuthorizationCode: the client is used from now on. *)
CreateClientCode(k, c, a, write, offline, x) ==
    /\ k \in Registered \ Unclaimed
    /\ CreateCode(c, a, write, offline, x)
    /\ clients' = [clients EXCEPT ![k] = Row("used", 0)]
    /\ codeClient' = [codeClient EXCEPT ![c] = k]
    /\ UNCHANGED clientJobs

(* The older createAuthorizationCode: any row will do, and it stays. *)
CreatePlainCode(k, c, a, write, offline, x) ==
    /\ k \in Registered
    /\ CreateCode(c, a, write, offline, x)
    /\ codeClient' = [codeClient EXCEPT ![c] = k]
    /\ UNCHANGED <<clients, clientJobs>>

(* cleanupUnusedClientScheduled: a call of an earlier registration under   *)
(* the same id finds another deadline.                                     *)
CleanupClient(j) ==
    /\ j \in clientJobs /\ j.at <= now
    /\ clientJobs' = clientJobs \ {j}
    /\ clients' = Swept({k \in {j.client} \cap Unclaimed : clients[k].unusedExpiresAt = j.at})
    /\ UNCHANGED <<vars, codeClient>>

-----------------------------------------------------------------------------
ClientRequests ==
    \E k \in Clients :
        \/ RegisterAgain(k)
        \/ RegisterClient(k)
        \/ RegisterPlainClient(k)
        \/ ReconcileClient(k)
        \/ \E c \in CodeIds, a \in Accounts, write, offline \in BOOLEAN,
              x \in now..(now + MaxCode + 1) :
              \/ CreateClientCode(k, c, a, write, offline, x)
              \/ CreatePlainCode(k, c, a, write, offline, x)

GrantSteps ==
    /\ \/ \E c \in CodeIds : \/ \E matches \in BOOLEAN : RedeemCode(c, matches)
                             \/ \E x \in now..(now + MaxRefresh + 1) : ExchangeCode(c, x)
       \/ TokenRequests
       \/ \E j \in jobs : Cleanup(j)
       \/ \E a \in Accounts, r \in Roles : SetRole(a, r)
       \/ Tick
    /\ UNCHANGED clientVars

OAuthNext == ClientRequests \/ GrantSteps \/ \E j \in clientJobs : CleanupClient(j)

OAuthSpec == OAuthInit /\ [][OAuthNext]_oauthVars

\* Calls that are due do not wait for ever; nothing is assumed of their order.
OAuthFairSpec ==
    /\ OAuthSpec
    /\ WF_oauthVars(\E j \in clientJobs : CleanupClient(j))
    /\ WF_oauthVars((\E j \in jobs : Cleanup(j)) /\ UNCHANGED clientVars)

-----------------------------------------------------------------------------
OAuthTypeOK ==
    /\ TypeOK
    /\ clients \in [Clients -> Client]
    /\ codeClient \in [CodeIds -> Clients \cup {None}]
    /\ clientJobs \subseteq ClientJob

\* Every outstanding code and token has its client's row, whichever of the two
\* createAuthorizationCode mutations wrote the code.
ReferencedClientStays ==
    /\ \A c \in CodeIds : codes[c].status = "live" => codeClient[c] \in Registered
    /\ \A t \in TokenIds : tokens[t].status \in Stored => TokenClient(t) \in Registered

\* A client not used yet has a cleanup call of its own deadline ahead, also when
\* its id was swept and registered again while the call for its first deadline
\* waited: no call that is run, dropped or still owed stands for another one.
UnusedClientHasCall ==
    \A k \in Clients :
        clients[k].status = "unused"
        => [client |-> k, at |-> clients[k].unusedExpiresAt] \in clientJobs
=============================================================================
