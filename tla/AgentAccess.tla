---------------------------- MODULE AgentAccess ----------------------------
(***************************************************************************)
(* An agent's requests between the bearer token and the commit             *)
(* (services/credentials.py, api/middleware.py, api/deps.py,               *)
(* mcp/runtime.py, db.py).                                                 *)
(*                                                                         *)
(* Credential and agent are read, one after the other, in a transaction    *)
(* that ends before the handler's begins, so the owner's revocation or     *)
(* suspension may fall into every gap.  Every transaction holds a          *)
(* connection of a bounded pool, and a denial is recorded on a second one  *)
(* while the first is held.  The owner's own requests are single steps;    *)
(* what they and other agents do with the pool is a number of connections. *)
(*                                                                         *)
(* Definitions marked "Fault" are wrong on purpose, as in MoneyMovement.   *)
(***************************************************************************)
EXTENDS Naturals, FiniteSets

CONSTANTS
    Requests,     \* requests of the agent; each is sent at most once
    Credentials,  \* credentials the owner may issue for it
    PoolSize      \* connections the engine hands out at a time

ASSUME PoolIsNotEmpty == PoolSize \in Nat \ {0}

VARIABLES
    standing,    \* the agent's status
    credential,  \* credential -> its kind and status
    expired,     \* credentials whose expires_at has passed
    request,     \* request -> its door, its credential, whether policy rules on it
    stage,       \* request -> how far it is
    saw,         \* request -> the agent's status its handler works with
    outcome,     \* request -> what its caller is told
    denials,     \* requests whose denial is on record
    effects,     \* requests whose effect is committed
    elsewhere,   \* connections that requests of others hold
    doomed,      \* history: requests that came too late for their credential
    frozen       \* history: requests the suspension came in time for

ownerVars == <<standing, credential, expired>>
accessVars ==
    <<ownerVars, request, stage, saw, outcome, denials, effects, elsewhere, doomed, frozen>>

Stages == {"outside", "arrived", "known", "resolved", "begun", "denying", "ended"}
Outcomes == {"none", "ok", "unauthorized", "denied", "fault"}
Asks == [door : {"rest", "mcp"}, credential : Credentials, ruled : BOOLEAN]

AccessTypeOK ==
    /\ standing \in {"active", "suspended"}
    /\ credential \in [Credentials -> [kind : {"api", "mcp"},
                                       status : {"unissued", "active", "revoked"}]]
    /\ expired \in SUBSET Credentials
    /\ request \in [Requests -> Asks]
    /\ stage \in [Requests -> Stages]
    /\ saw \in [Requests -> {"active", "suspended"}]
    /\ outcome \in [Requests -> Outcomes]
    /\ denials \in SUBSET Requests /\ effects \in SUBSET Requests
    /\ elsewhere \in 0..PoolSize
    /\ doomed \in SUBSET Requests /\ frozen \in SUBSET Requests

AccessInit ==
    /\ standing = "active"
    /\ credential = [c \in Credentials |-> [kind |-> "api", status |-> "unissued"]]
    /\ expired = {}
    /\ request \in [Requests -> Asks]
    /\ stage = [r \in Requests |-> "outside"]
    /\ saw = [r \in Requests |-> "active"]
    /\ outcome = [r \in Requests |-> "none"]
    /\ denials = {} /\ effects = {} /\ elsewhere = 0 /\ doomed = {} /\ frozen = {}

\* A session has its connection from its first statement to its end.
InUse == {r \in Requests : stage[r] \in {"known", "begun", "denying"}}
Available == Cardinality(InUse) + elsewhere < PoolSize

Goto(r, s) == stage' = [stage EXCEPT ![r] = s]
Answer(r, o) == Goto(r, "ended") /\ outcome' = [outcome EXCEPT ![r] = o]

----------------------------------------------------------------------------
(***************************************************************************)
(* The principal is resolved.                                              *)
(***************************************************************************)

\* The agent's status will still be looked at: by resolve_token, and by the
\* engine with the row that a REST handler reads for itself.
Unseen(r) ==
    \/ stage[r] \in {"arrived", "known"}
    \/ stage[r] = "resolved" /\ request[r].door = "rest" /\ request[r].ruled

Usable(c) == credential[c].status = "active" /\ c \notin expired

\* A token is known to a client only after its credential has been issued.
Arrive(r) ==
    /\ stage[r] = "outside" /\ credential[request[r].credential].status # "unissued"
    /\ Goto(r, "arrived")
    /\ doomed' = IF Usable(request[r].credential) THEN doomed ELSE doomed \cup {r}
    /\ frozen' = IF standing = "active" THEN frozen ELSE frozen \cup {r}
    /\ UNCHANGED <<ownerVars, request, saw, outcome, denials, effects, elsewhere>>

\* Fault: a token is known as long as its row exists.
ReadAnyCredential(r) ==
    /\ stage[r] = "arrived" /\ Available
    /\ Goto(r, "known")
    /\ UNCHANGED <<ownerVars, request, saw, outcome, denials, effects, doomed, frozen, elsewhere>>

\* SELECT by token hash among the active ones, then the expiry.
ReadCredential(r) ==
    /\ stage[r] = "arrived" /\ Available
    /\ IF Usable(request[r].credential)
       THEN Goto(r, "known") /\ UNCHANGED outcome
       ELSE Answer(r, "unauthorized")
    /\ UNCHANGED <<ownerVars, request, saw, denials, effects, doomed, frozen, elsewhere>>

\* Fault: the row is written back as it was read.
TouchRow(c) == credential' = [credential EXCEPT ![c].status = "active"]

\* The commit writes last_used_at and no other column.
Touch(c) == UNCHANGED credential

\* A later statement reads the agent.  The tool runtime also wants a credential
\* of kind "mcp"; the REST door takes every kind.  The commit gives the
\* connection back.
ReadAgent(r) ==
    LET c == request[r].credential
        known == /\ standing = "active"
                 /\ request[r].door = "mcp" => credential[c].kind = "mcp"
    IN  /\ stage[r] = "known"
        /\ \/ known /\ Goto(r, "resolved") /\ Touch(c) /\ UNCHANGED outcome
           \/ ~known /\ Answer(r, "unauthorized") /\ UNCHANGED credential
        /\ saw' = [saw EXCEPT ![r] = standing]
        /\ UNCHANGED <<standing, expired, request, denials, effects, doomed, frozen, elsewhere>>

----------------------------------------------------------------------------
(***************************************************************************)
(* The handler runs.                                                       *)
(***************************************************************************)

\* Fault: the route works with the rows the middleware has read.
BeginWithThePrincipal(r) ==
    /\ stage[r] = "resolved" /\ Available
    /\ Goto(r, "begun")
    /\ UNCHANGED <<ownerVars, request, saw, outcome, denials, effects, doomed, frozen, elsewhere>>

\* The route reads credential and agent again, in its own session, without
\* judging them; a tool keeps the objects of its first transaction.
BeginHandler(r) ==
    /\ stage[r] = "resolved" /\ Available
    /\ Goto(r, "begun")
    /\ saw' = IF request[r].door = "rest" THEN [saw EXCEPT ![r] = standing] ELSE saw
    /\ UNCHANGED <<ownerVars, request, outcome, denials, effects, doomed, frozen, elsewhere>>

\* The engine denies a suspended agent, or anyone under another rule.
Deny(r) ==
    /\ stage[r] = "begun" /\ request[r].ruled
    /\ Goto(r, "denying")
    /\ UNCHANGED <<ownerVars, request, saw, outcome, denials, effects, doomed, frozen, elsewhere>>

Commit(r) ==
    /\ stage[r] = "begun"
    /\ request[r].ruled => saw[r] = "active"
    /\ effects' = effects \cup {r}
    /\ Answer(r, "ok")
    /\ UNCHANGED <<ownerVars, request, saw, denials, doomed, frozen, elsewhere>>

\* Fault: the record is written in the session that is rolled back.
RecordInRequest(r) ==
    /\ stage[r] = "denying"
    /\ Answer(r, "denied")
    /\ UNCHANGED <<ownerVars, request, saw, denials, effects, doomed, frozen, elsewhere>>

\* The record is committed on a second connection; then the request's own
\* transaction is rolled back.
RecordDenial(r) ==
    /\ stage[r] = "denying" /\ Available
    /\ denials' = denials \cup {r}
    /\ Answer(r, "denied")
    /\ UNCHANGED <<ownerVars, request, saw, effects, doomed, frozen, elsewhere>>

\* Fault: waiting for a second connection knows no timeout.
TimeOutFirst(r) ==
    /\ stage[r] \in {"arrived", "resolved"} /\ ~Available
    /\ Answer(r, "fault")
    /\ UNCHANGED <<ownerVars, request, saw, denials, effects, doomed, frozen, elsewhere>>

\* The pool gives up on a request that waits too long for a connection; the
\* one it may hold goes back.
TimeOut(r) ==
    /\ stage[r] \in {"arrived", "resolved", "denying"} /\ ~Available
    /\ Answer(r, "fault")
    /\ UNCHANGED <<ownerVars, request, saw, denials, effects, doomed, frozen, elsewhere>>

----------------------------------------------------------------------------
(***************************************************************************)
(* The owner and the clock.                                                *)
(***************************************************************************)
Issue(c, kind) ==
    /\ credential[c].status = "unissued"
    /\ credential' = [credential EXCEPT ![c] = [kind |-> kind, status |-> "active"]]
    /\ UNCHANGED <<standing, expired, request, stage, saw, outcome, denials, effects,
                   doomed, frozen, elsewhere>>

\* Requests whose credential is still to be read are too late from now on.
Doom(c) ==
    doomed' = doomed \cup {r \in Requests : request[r].credential = c /\ stage[r] = "arrived"}

Revoke(c) ==
    /\ credential[c].status = "active"
    /\ credential' = [credential EXCEPT ![c].status = "revoked"]
    /\ Doom(c)
    /\ UNCHANGED <<standing, expired, request, stage, saw, outcome, denials, effects, frozen, elsewhere>>

ExpireCredential(c) ==
    /\ credential[c].status # "unissued" /\ c \notin expired
    /\ expired' = expired \cup {c}
    /\ Doom(c)
    /\ UNCHANGED <<standing, credential, request, stage, saw, outcome, denials, effects, frozen, elsewhere>>

\* Requests of others take connections and give them back.
UsePool(n) ==
    /\ elsewhere # n /\ Cardinality(InUse) + n <= PoolSize
    /\ elsewhere' = n
    /\ UNCHANGED <<ownerVars, request, stage, saw, outcome, denials, effects, doomed, frozen>>

SetStanding(s) ==
    /\ standing # s
    /\ standing' = s
    /\ LET unseen == {r \in Requests : Unseen(r)}
       IN  frozen' = IF s = "suspended" THEN frozen \cup unseen ELSE frozen \ unseen
    /\ UNCHANGED <<credential, expired, request, stage, saw, outcome, denials, effects, doomed, elsewhere>>

RequestStep(r) ==
    \/ ReadCredential(r) \/ ReadAgent(r)
    \/ BeginHandler(r) \/ Deny(r) \/ Commit(r) \/ RecordDenial(r)
    \/ TimeOut(r)

AccessNext ==
    \/ \E r \in Requests : Arrive(r) \/ RequestStep(r)
    \/ \E c \in Credentials :
          \/ \E kind \in {"api", "mcp"} : Issue(c, kind)
          \/ Revoke(c) \/ ExpireCredential(c)
    \/ \E s \in {"active", "suspended"} : SetStanding(s)
    \/ \E n \in 0..PoolSize : UsePool(n)

\* The event loop runs every task that can go on, and the pool's timeout fires.
AccessFairness == \A r \in Requests : WF_accessVars(RequestStep(r))

AccessSpec == AccessInit /\ [][AccessNext]_accessVars /\ AccessFairness

----------------------------------------------------------------------------
(***************************************************************************)
(* Properties.                                                             *)
(***************************************************************************)

\* A request that arrives, or is still waiting for a connection, when its
\* credential is revoked or expires has no effect, whatever others that use
\* the credential do meanwhile.
RevocationStops == doomed \cap effects = {}

\* A suspension stops every request whose agent is still to be read.  For a REST
\* request the engine rules on that is the second reading: it is stopped even
\* if it has been authenticated before.
SuspensionStops == frozen \cap effects = {}

\* Who is told "denied" finds the denial on record and nothing done, although
\* the request's own transaction is rolled back.
DenialsAreRecorded ==
    \A r \in Requests : outcome[r] = "denied" => r \in denials \ effects

\* Every request ends, even if requests that are denied at the same time hold
\* all connections and each waits for one more.
RequestsEnd == \A r \in Requests : stage[r] = "arrived" ~> stage[r] = "ended"

=============================================================================
