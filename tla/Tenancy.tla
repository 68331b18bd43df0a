------------------------------ MODULE Tenancy ------------------------------
(***************************************************************************)
(* Who reaches which row: the lookups of the services, the operations that *)
(* go through them, and the two doors (api/routes, mcp/app.py).            *)
(*                                                                         *)
(* A principal is an owner, with an owner key, or an agent, with one       *)
(* credential.  Rows of all owners lie in the same tables; every service   *)
(* filters for itself, a few read a row by the id that another row holds,  *)
(* without a filter.  A request is one step; what it does to money is the  *)
(* matter of MoneyMovement, and expiry has no principal.                   *)
(*                                                                         *)
(* Definitions marked "Fault" are wrong on purpose, as in MoneyMovement.   *)
(***************************************************************************)
EXTENDS Naturals, FiniteSets

CONSTANTS
    Owners, Agents,
    Founded,      \* agents and payees that exist from the start -> their owner
    ScopesOf,     \* agent -> scopes of its credential
    Counterparties, Quotes, Payments, Transfers, Cards, Accounts, Endpoints,
    MaxChanges,   \* bound: rows that are added, agents that are reshaped
    Nobody        \* no agent, no row

VARIABLES
    row,       \* id -> its row, Nobody if there is none
    approval,  \* id -> the approval raised on it
    shaped     \* the agent whose profile, status, policy or credentials have changed

tenancyVars == <<row, approval, shaped>>

Held == Counterparties \cup Payments \cup Transfers  \* what approvals are raised on
Things == Held \cup Quotes \cup Cards \cup Accounts \cup Endpoints

Rows == [owner : Owners, agent : Agents \cup {Nobody},
         status : {"active", "frozen", "unverified", "verified", "blocked", "rotated"},
         refs : SUBSET (Things \cup Owners \cup Agents)]
Approvals == [owner : Owners, agent : Agents,
              status : {"pending", "approved", "rejected", "expired"}]

TenancyTypeOK ==
    /\ row \in [Things \cup Agents -> Rows \cup {Nobody}]
    /\ approval \in [Held -> Approvals \cup {Nobody}]
    /\ shaped \in Agents \cup {Nobody}

\* Ids carry the prefix of their table (ids.py).
ASSUME IdsAreDistinct ==
    /\ Owners \cap (Things \cup Agents) = {} /\ Things \cap Agents = {}
    /\ Endpoints \cap (Held \cup Quotes \cup Cards \cup Accounts) = {}
    /\ (Cards \cup Accounts) \cap (Held \cup Quotes) = {} /\ Cards \cap Accounts = {}
    /\ Quotes \cap Counterparties = {}
ASSUME FoundedIsOwned ==
    DOMAIN Founded \subseteq Agents \cup Counterparties /\ \A i \in DOMAIN Founded : Founded[i] \in Owners
ASSUME NobodyIsNoRow == Nobody \notin Rows \cup Approvals \cup Agents

Row(o, a, s, refs) == [owner |-> o, agent |-> a, status |-> s, refs |-> refs]

TenancyInit ==
    /\ row = [i \in Things \cup Agents |->
                IF i \notin DOMAIN Founded THEN Nobody
                ELSE IF i \in Agents THEN Row(Founded[i], i, "active", {})
                ELSE Row(Founded[i], Nobody, "verified", {})]
    /\ approval = [i \in Held |-> Nobody]
    /\ shaped = Nobody

Exists(i) == row[i] # Nobody
Principals == Owners \cup {a \in Agents : Exists(a)}
Tenant(p) == IF p \in Owners THEN p ELSE row[p].owner

\* require_owner and require_scope: owner keys carry every scope.
IsOwner(p) == p \in Owners
Has(p, scope) == ~IsOwner(p) => scope \in ScopesOf[p]

----------------------------------------------------------------------------
(***************************************************************************)
(* The lookups that the operations go through.                             *)
(***************************************************************************)
FindAgent(p, a) ==
    /\ ~IsOwner(p) => p = a
    /\ Exists(a) /\ row[a].owner = Tenant(p)

\* Rows of the tenant; an agent is shown only those that carry its id.
Reach(p, i) ==
    /\ Exists(i) /\ row[i].owner = Tenant(p)
    /\ ~IsOwner(p) => row[i].agent = p

\* Payees are shared by all agents of an owner.
FindCounterparty(p, c) ==
    Has(p, "counterparties:read") /\ Exists(c) /\ row[c].owner = Tenant(p)

\* Fault: payments are shared by all agents of an owner.
FindAnyPayment(p, x) == Has(p, "payments:read") /\ Exists(x) /\ row[x].owner = Tenant(p)

FindPayment(p, x) == Has(p, "payments:read") /\ Reach(p, x)

\* Agents see the approvals that their own actions have raised.
FindApproval(p, i) ==
    /\ Has(p, "approvals:read")
    /\ approval[i] # Nobody /\ approval[i].owner = Tenant(p)
    /\ ~IsOwner(p) => approval[i].agent = p

FindCardForFreeze(p, k) == Reach(p, k)
FindEndpoint(p, w) == IsOwner(p) /\ Exists(w) /\ row[w].owner = Tenant(p)

----------------------------------------------------------------------------
(***************************************************************************)
(* The operations.                                                         *)
(***************************************************************************)
Added == {i \in (Things \cup Agents) \ DOMAIN Founded : Exists(i)}
Changes == Cardinality(Added) + IF shaped = Nobody THEN 0 ELSE 1

Insert(i, r) ==
    /\ ~Exists(i) /\ Changes < MaxChanges
    /\ row' = [row EXCEPT ![i] = r]

SetStatus(i, s) == row' = [row EXCEPT ![i].status = s]

\* An agent's action may be held, an owner's is not ruled on.
MayHold(p) == IF IsOwner(p) THEN {FALSE} ELSE BOOLEAN

Raise(p, i, held) ==
    approval' = IF held
                THEN [approval EXCEPT ![i] = [owner |-> Tenant(p), agent |-> p,
                                              status |-> "pending"]]
                ELSE approval

CreateAgent(p, a) ==
    /\ IsOwner(p) /\ Insert(a, Row(p, a, "active", {}))
    /\ UNCHANGED <<approval, shaped>>

\* A change to what the agent is or may do.
Shape(a) ==
    /\ Changes < MaxChanges
    /\ shaped' = a
    /\ UNCHANGED <<row, approval>>

UpdateAgent(p, a) == IsOwner(p) /\ FindAgent(p, a) /\ Shape(a)
SetAgentStatus(p, a) == IsOwner(p) /\ FindAgent(p, a) /\ Shape(a)
ReplacePolicy(p, a) == IsOwner(p) /\ FindAgent(p, a) /\ Shape(a)
IssueCredential(p, a) == IsOwner(p) /\ FindAgent(p, a) /\ Shape(a)

\* A credential is found by its own owner_id, not through its agent.
RevokeCredential(p, a) == IsOwner(p) /\ Exists(a) /\ row[a].owner = Tenant(p) /\ Shape(a)

CreateCounterparty(p, c) ==
    /\ Has(p, "counterparties:create")
    /\ Insert(c, Row(Tenant(p), IF IsOwner(p) THEN Nobody ELSE p, "unverified", {}))
    /\ \E held \in MayHold(p) : Raise(p, c, held)
    /\ UNCHANGED shaped

VerifyCounterparty(p, c) ==
    /\ IsOwner(p) /\ FindCounterparty(p, c)
    /\ SetStatus(c, "verified")
    /\ UNCHANGED <<approval, shaped>>

CreateQuote(p, a, q) ==
    /\ Has(p, "quotes:create") /\ FindAgent(p, a)
    /\ Insert(q, Row(Tenant(p), a, "active", {}))
    /\ UNCHANGED <<approval, shaped>>

\* Fault: a quote is taken by its id.
AnyQuote(p, a, q) == Exists(q)

\* A quote of the tenant for the very agent that pays.
QuoteFor(p, a, q) == Exists(q) /\ row[q].owner = Tenant(p) /\ row[q].agent = a

CreatePayment(p, a, c, quotes, x) ==
    /\ Has(p, "payments:create") /\ FindAgent(p, a) /\ FindCounterparty(p, c)
    /\ \A q \in quotes : QuoteFor(p, a, q)
    /\ \E held \in MayHold(p) :
          /\ Insert(x, Row(Tenant(p), a, "active", {c} \cup quotes))
          /\ Raise(p, x, held)
    /\ UNCHANGED shaped

CancelPayment(p, x) ==
    /\ Has(p, "payments:create") /\ FindPayment(p, x)
    /\ approval[x] # Nobody /\ approval[x].status = "pending"
    /\ approval' = [approval EXCEPT ![x].status = "expired"]
    /\ UNCHANGED <<row, shaped>>

\* _validate_holder: the treasury of one's own account, or an agent one finds.
HolderOk(p, h) == IF h \in Owners THEN h = Tenant(p) ELSE FindAgent(p, h)

CreateTransfer(p, source, destination, t) ==
    /\ Has(p, "transfers:create") /\ source # destination
    /\ ~IsOwner(p) => source = p
    /\ HolderOk(p, source) /\ HolderOk(p, destination)
    /\ \E held \in MayHold(p) :
          /\ Insert(t, Row(Tenant(p), IF IsOwner(p) THEN Nobody ELSE p, "active",
                           {source, destination}))
          /\ Raise(p, t, held)
    /\ UNCHANGED shaped

\* The approval is looked up for the principal, what it is about by its id.
Decide(p, i, verdict) ==
    /\ IsOwner(p) /\ FindApproval(p, i)
    /\ approval[i].status = "pending"
    /\ approval' = [approval EXCEPT ![i].status = verdict]
    /\ IF i \in Counterparties
       THEN SetStatus(i, IF verdict = "approved" THEN "verified" ELSE "blocked")
       ELSE UNCHANGED row
    /\ UNCHANGED shaped

CreateCard(p, a, k) ==
    /\ IsOwner(p) /\ FindAgent(p, a)
    /\ Insert(k, Row(Tenant(p), a, "active", {}))
    /\ UNCHANGED <<approval, shaped>>

FreezeCard(p, k) ==
    /\ Has(p, "cards:freeze") /\ FindCardForFreeze(p, k)
    /\ SetStatus(k, "frozen")
    /\ UNCHANGED <<approval, shaped>>

\* Fault: who may freeze may unfreeze.
UnfreezeOwnCard(p, k) ==
    /\ Has(p, "cards:freeze") /\ FindCardForFreeze(p, k)
    /\ row[k].status = "frozen" /\ SetStatus(k, "active")
    /\ UNCHANGED <<approval, shaped>>

UnfreezeCard(p, k) ==
    /\ IsOwner(p) /\ FindCardForFreeze(p, k)
    /\ row[k].status = "frozen" /\ SetStatus(k, "active")
    /\ UNCHANGED <<approval, shaped>>

CreateAccount(p, a, v) ==
    /\ IsOwner(p) /\ FindAgent(p, a)
    /\ Insert(v, Row(Tenant(p), a, "active", {}))
    /\ UNCHANGED <<approval, shaped>>

CreateEndpoint(p, w) ==
    /\ IsOwner(p) /\ Insert(w, Row(p, Nobody, "active", {}))
    /\ UNCHANGED <<approval, shaped>>

DeleteEndpoint(p, w) ==
    /\ FindEndpoint(p, w)
    /\ row' = [row EXCEPT ![w] = Nobody]
    /\ UNCHANGED <<approval, shaped>>

RotateSecret(p, w) ==
    /\ FindEndpoint(p, w)
    /\ SetStatus(w, "rotated")
    /\ UNCHANGED <<approval, shaped>>

----------------------------------------------------------------------------
(***************************************************************************)
(* The doors.  A route takes the ids its caller sends; a tool acts for the *)
(* agent whose credential it is called with.                               *)
(***************************************************************************)
AgentRoutes(p) ==
    \E a \in Agents : CreateAgent(p, a) \/ UpdateAgent(p, a) \/ SetAgentStatus(p, a)
PolicyRoutes(p) == \E a \in Agents : ReplacePolicy(p, a)
CredentialRoutes(p) == \E a \in Agents : IssueCredential(p, a) \/ RevokeCredential(p, a)
CounterpartyRoutes(p) ==
    \E c \in Counterparties : CreateCounterparty(p, c) \/ VerifyCounterparty(p, c)
QuoteRoutes(p) == \E a \in Agents, q \in Quotes : CreateQuote(p, a, q)
PaymentRoutes(p) ==
    \E x \in Payments :
       \/ \E a \in Agents, c \in Counterparties, quotes \in {{}} \cup {{q} : q \in Quotes} :
             CreatePayment(p, a, c, quotes, x)
       \/ CancelPayment(p, x)
TransferRoutes(p) ==
    \E source, destination \in Owners \cup Agents, t \in Transfers :
       CreateTransfer(p, source, destination, t)
ApprovalRoutes(p) == \E i \in Held, v \in {"approved", "rejected"} : Decide(p, i, v)
CardRoutes(p) ==
    \E k \in Cards : \/ \E a \in Agents : CreateCard(p, a, k)
                     \/ FreezeCard(p, k) \/ UnfreezeCard(p, k)
AccountRoutes(p) == \E a \in Agents, v \in Accounts : CreateAccount(p, a, v)
EndpointRoutes(p) ==
    \E w \in Endpoints : CreateEndpoint(p, w) \/ DeleteEndpoint(p, w) \/ RotateSecret(p, w)

Request(p) ==
    \/ AgentRoutes(p) \/ PolicyRoutes(p) \/ CredentialRoutes(p)
    \/ CounterpartyRoutes(p) \/ QuoteRoutes(p) \/ PaymentRoutes(p) \/ TransferRoutes(p)
    \/ ApprovalRoutes(p) \/ CardRoutes(p) \/ AccountRoutes(p) \/ EndpointRoutes(p)

CounterpartyTool(a) == \E c \in Counterparties : CreateCounterparty(a, c)
QuoteTool(a) == \E q \in Quotes : CreateQuote(a, a, q)
PaymentTool(a) ==
    \E c \in Counterparties, quotes \in {{}} \cup {{q} : q \in Quotes}, x \in Payments :
       CreatePayment(a, a, c, quotes, x)
CancelTool(a) == \E x \in Payments : CancelPayment(a, x)
TransferTool(a) ==
    \E destination \in Owners \cup Agents, t \in Transfers :
       CreateTransfer(a, a, destination, t)
CardTool(a) == \E k \in Cards : FreezeCard(a, k)

Tool(a) ==
    \/ CounterpartyTool(a) \/ QuoteTool(a) \/ PaymentTool(a) \/ CancelTool(a)
    \/ TransferTool(a) \/ CardTool(a)

TenancyNext ==
    \/ \E p \in Principals : Request(p)
    \/ \E a \in Agents \cap Principals : Tool(a)

TenancySpec == TenancyInit /\ [][TenancyNext]_tenancyVars

----------------------------------------------------------------------------
(***************************************************************************)
(* Properties.                                                             *)
(***************************************************************************)
TenantOf(j) == IF j \in Owners THEN j ELSE row[j].owner

\* A row and everything it names belong to the same owner: payee, quote, holders
\* of a transfer, the agent it is made for and the approval raised on it; the
\* quote of a payment is one for the agent that pays.
ReferencesStayInTenant ==
    \A i \in {j \in Things : Exists(j)} :
       /\ \A j \in row[i].refs : TenantOf(j) = row[i].owner
       /\ \A q \in row[i].refs \cap Quotes : row[q].agent = row[i].agent
       /\ row[i].agent # Nobody => row[row[i].agent].owner = row[i].owner
       /\ i \in Held /\ approval[i] # Nobody =>
             approval[i].owner = row[i].owner /\ approval[i].agent = row[i].agent

\* Rows and approvals a step has added, changed or deleted.
Changed ==
    LET rows == {i \in Things \cup Agents : row'[i] # row[i]}
    IN  {IF Exists(i) THEN row[i] ELSE row'[i] : i \in rows}
        \cup {approval'[i] : i \in {j \in Held : approval'[j] # approval[j]}}

Stranger(p, r) == Tenant(p) # r.owner \/ (~IsOwner(p) /\ r.agent # p)

\* No request changes a row or an approval of another tenant, and none of an
\* agent changes what its owner or another agent has, through whatever chain of
\* ids, at either door.
ChangesStayInTenant ==
    [][\A r \in Changed, p \in Principals :
          Stranger(p, r) => ~Request(p) /\ (p \in Agents => ~Tool(p))]_tenancyVars

\* A change to the box itself.
Unboxed ==
    \/ shaped' # shaped
    \/ \E i \in Agents \cup Accounts \cup Endpoints : row'[i] # row[i]
    \/ \E i \in Held : approval'[i] # approval[i] /\ approval'[i].status \in {"approved", "rejected"}
    \/ \E k \in Cards : row'[k] # row[k] /\ row'[k].status # "frozen"
    \/ \E c \in Counterparties : Exists(c) /\ row'[c] # row[c]

\* Agents operate inside the box, only the owner reshapes it: no request of an
\* agent, through either door, changes an agent, decides, confirms a payee or
\* gives back what was frozen, and no agent, card, account or endpoint appears.
AgentsStayInTheBox ==
    [][Unboxed => \A a \in Agents \cap Principals : ~Request(a) /\ ~Tool(a)]_tenancyVars

=============================================================================
