--------------------------- MODULE TenancyProofs ---------------------------
(***************************************************************************)
(* No row reaches another tenant, for every set of owners, agents, rows    *)
(* and scopes and every number of changes.                                 *)
(***************************************************************************)
EXTENDS Tenancy, TLAPS

\* What may be referred to and is never deleted.
Present(j) == j \in Owners \/ (j \in (Things \ Endpoints) \cup Agents /\ Exists(j))

\* A row that refers to its own tenant only.
Sound(r) ==
    /\ \A j \in r.refs : Present(j) /\ TenantOf(j) = r.owner
    /\ \A q \in r.refs \cap Quotes : row[q].agent = r.agent
    /\ r.agent # Nobody => Exists(r.agent) /\ row[r.agent].owner = r.owner

RowsAreSound == \A i \in Things : Exists(i) => Sound(row[i])

\* An approval belongs to a row, its owner and its agent.
ApprovalsFit ==
    \A i \in Held : approval[i] # Nobody =>
       Exists(i) /\ approval[i].owner = row[i].owner /\ approval[i].agent = row[i].agent

TenancyInv == TenancyTypeOK /\ RowsAreSound /\ ApprovalsFit

LEMMA TenancyInvInit == TenancyInit => TenancyInv
  <1> SUFFICES ASSUME TenancyInit PROVE TenancyInv
    OBVIOUS
  <1>1. TenancyTypeOK
    BY FoundedIsOwned, IdsAreDistinct DEF TenancyInit, TenancyTypeOK, Row, Rows, Things, Held
  <1>2. ASSUME NEW i \in Things, Exists(i) PROVE Sound(row[i])
    <2>1. row[i].refs = {} /\ row[i].agent = Nobody
      BY <1>2, IdsAreDistinct DEF TenancyInit, Row, Exists
    <2> QED
      BY <2>1 DEF Sound
  <1> QED
    BY <1>1, <1>2 DEF TenancyInit, TenancyInv, RowsAreSound, ApprovalsFit

----------------------------------------------------------------------------
(***************************************************************************)
(* Steps that add, restamp or delete one row.                              *)
(***************************************************************************)

\* A sound row stays sound as long as what it may refer to is neither deleted
\* nor given away.
LEMMA SoundStays ==
    ASSUME NEW r,
           \A j \in (Things \ Endpoints) \cup Agents : Exists(j) =>
              row'[j] # Nobody /\ row'[j].owner = row[j].owner /\ row'[j].agent = row[j].agent,
           Sound(r), r.agent \in Agents \cup {Nobody}
    PROVE  Sound(r)'
  BY IdsAreDistinct DEF Sound, Present, TenantOf, Exists, Things, Held

LEMMA InsertKeeps ==
    ASSUME TenancyInv, NEW i \in Things \cup Agents, NEW r \in Rows, Insert(i, r),
           i \in Things => Sound(r), shaped' \in Agents \cup {Nobody},
           \/ approval' = approval
           \/ /\ i \in Held /\ r.agent \in Agents
              /\ approval' = [approval EXCEPT ![i] =
                                [owner |-> r.owner, agent |-> r.agent, status |-> "pending"]]
    PROVE  TenancyInv'
  <1> USE DEF TenancyInv, TenancyTypeOK
  <1>1. row' = [row EXCEPT ![i] = r] /\ row[i] = Nobody /\ r # Nobody
    BY NobodyIsNoRow DEF Insert, Exists
  <1>2. TenancyTypeOK'
    BY <1>1 DEF Rows, Approvals
  <1>3. \A j \in (Things \ Endpoints) \cup Agents : Exists(j) =>
           row'[j] # Nobody /\ row'[j].owner = row[j].owner /\ row'[j].agent = row[j].agent
    BY <1>1 DEF Exists
  <1>4. ASSUME NEW j \in Things, Exists(j)' PROVE Sound(row[j])'
    <2>1. CASE j = i
      BY <1>1, <1>3, <2>1, SoundStays DEF Rows
    <2>2. CASE j # i
      BY <1>1, <1>3, <1>4, <2>2, SoundStays DEF RowsAreSound, Exists, Rows
    <2> QED
      BY <2>1, <2>2
  <1>5. ApprovalsFit'
    BY <1>1 DEF ApprovalsFit, Exists, Things, Approvals
  <1> QED
    BY <1>2, <1>4, <1>5 DEF RowsAreSound

LEMMA StatusKeeps ==
    ASSUME TenancyInv, NEW i \in Things, Exists(i),
           NEW s \in {"active", "frozen", "verified", "blocked", "rotated"},
           SetStatus(i, s), shaped' = shaped,
           approval' \in [Held -> Approvals \cup {Nobody}],
           \A j \in Held : approval'[j] # Nobody =>
              approval[j] # Nobody /\ approval'[j].owner = approval[j].owner
                                   /\ approval'[j].agent = approval[j].agent
    PROVE  TenancyInv'
  <1> USE DEF TenancyInv, TenancyTypeOK
  <1>1. row[i] \in Rows /\ row' = [row EXCEPT ![i] = [row[i] EXCEPT !.status = s]]
    BY DEF SetStatus, Exists
  <1>0. PICK r \in Rows : r = [row[i] EXCEPT !.status = s]
    BY <1>1 DEF Rows
  <1>2. r \in Rows /\ r # Nobody /\ r.owner = row[i].owner /\ r.agent = row[i].agent
        /\ r.refs = row[i].refs
    BY <1>0, <1>1, NobodyIsNoRow DEF Rows
  <1>3. row' = [row EXCEPT ![i] = r]
    BY <1>0, <1>1
  <1>4. TenancyTypeOK'
    BY <1>2, <1>3
  <1>5. \A j \in (Things \ Endpoints) \cup Agents : Exists(j) =>
           row'[j] # Nobody /\ row'[j].owner = row[j].owner /\ row'[j].agent = row[j].agent
    BY <1>2, <1>3 DEF Exists
  <1>6. ASSUME NEW j \in Things, Exists(j)' PROVE Sound(row[j])'
    <2>1. CASE j = i
      <3>1. Sound(r)
        BY <1>2 DEF RowsAreSound, Sound
      <3>2. r.agent \in Agents \cup {Nobody}
        BY <1>2 DEF Rows
      <3>3. Sound(r)'
        BY <3>1, <3>2, <1>5, SoundStays
      <3> QED
        BY <1>3, <2>1, <3>3
    <2>2. CASE j # i
      BY <1>3, <1>5, <1>6, <2>2, SoundStays DEF RowsAreSound, Exists, Rows
    <2> QED
      BY <2>1, <2>2
  <1>7. ApprovalsFit'
    BY <1>2, <1>3 DEF ApprovalsFit, Exists, Things
  <1> QED
    BY <1>4, <1>6, <1>7 DEF RowsAreSound

----------------------------------------------------------------------------
(***************************************************************************)
(* The operations.                                                         *)
(***************************************************************************)

\* A principal belongs to an owner.
LEMMA TenantIsOwner ==
    ASSUME TenancyTypeOK, NEW p \in Principals
    PROVE  Tenant(p) \in Owners /\ (~IsOwner(p) => p \in Agents /\ Exists(p))
  BY DEF TenancyTypeOK, Principals, Tenant, IsOwner, Exists, Rows

\* An agent, the policies and the credentials of one: no row refers to those.
LEMMA AgentOperationsKeep ==
    ASSUME TenancyInv, NEW p \in Principals, NEW a \in Agents,
           \/ CreateAgent(p, a) \/ UpdateAgent(p, a) \/ SetAgentStatus(p, a)
           \/ ReplacePolicy(p, a) \/ IssueCredential(p, a) \/ RevokeCredential(p, a)
    PROVE  TenancyInv'
  <1>1. CASE CreateAgent(p, a)
    <2>1. Row(p, a, "active", {}) \in Rows
      BY <1>1 DEF CreateAgent, IsOwner, Row, Rows
    <2>2. a \notin Things
      BY IdsAreDistinct
    <2>3. Insert(a, Row(p, a, "active", {})) /\ approval' = approval
          /\ shaped' \in Agents \cup {Nobody}
      BY <1>1 DEF CreateAgent, TenancyInv, TenancyTypeOK
    <2> QED
      BY <2>1, <2>2, <2>3, InsertKeeps
  <1>2. CASE Shape(a)
    BY <1>2 DEF Shape, TenancyInv, TenancyTypeOK, RowsAreSound, ApprovalsFit,
       Sound, Present, TenantOf, Exists
  <1> QED
    BY <1>1, <1>2 DEF UpdateAgent, SetAgentStatus, ReplacePolicy, IssueCredential,
       RevokeCredential

LEMMA CreateCounterpartyKeeps ==
    ASSUME TenancyInv, NEW p \in Principals, NEW c \in Counterparties,
           CreateCounterparty(p, c)
    PROVE  TenancyInv'
  <1> DEFINE a == IF IsOwner(p) THEN Nobody ELSE p
             r == Row(Tenant(p), a, "unverified", {})
  <1>1. PICK held \in MayHold(p) : Raise(p, c, held)
    BY DEF CreateCounterparty
  <1>2. r \in Rows /\ r.owner = Tenant(p) /\ r.agent = a /\ r.refs = {}
    BY TenantIsOwner DEF Row, Rows, TenancyInv
  <1>3. ~IsOwner(p) => p \in Agents /\ Exists(p) /\ row[p].owner = Tenant(p)
    BY TenantIsOwner DEF TenancyInv, Tenant, IsOwner
  <1>4. Sound(r)
    BY <1>2, <1>3 DEF Sound
  <1>5. held => ~IsOwner(p) /\ a = p
    BY <1>1 DEF MayHold
  <1> HIDE DEF r
  <1>6. Insert(c, r) /\ shaped' = shaped
    BY DEF CreateCounterparty, r
  <1>7. \/ approval' = approval
        \/ /\ c \in Held /\ r.agent \in Agents
           /\ approval' = [approval EXCEPT ![c] =
                             [owner |-> r.owner, agent |-> r.agent, status |-> "pending"]]
    BY <1>1, <1>2, <1>3, <1>5 DEF Raise, Held
  <1> QED
    BY <1>2, <1>4, <1>6, <1>7, InsertKeeps DEF TenancyInv, TenancyTypeOK, Things, Held

LEMMA CreateQuoteKeeps ==
    ASSUME TenancyInv, NEW p \in Principals, NEW a \in Agents, NEW q \in Quotes,
           CreateQuote(p, a, q)
    PROVE  TenancyInv'
  <1> DEFINE r == Row(Tenant(p), a, "active", {})
  <1>1. r \in Rows /\ r.owner = Tenant(p) /\ r.agent = a /\ r.refs = {}
    BY TenantIsOwner DEF Row, Rows, TenancyInv
  <1>2. Sound(r)
    BY <1>1 DEF Sound, CreateQuote, FindAgent
  <1> QED
    BY <1>1, <1>2, InsertKeeps DEF CreateQuote, TenancyInv, TenancyTypeOK, Things

LEMMA CreatePaymentKeeps ==
    ASSUME TenancyInv, NEW p \in Principals, NEW a \in Agents, NEW c \in Counterparties,
           NEW quotes \in SUBSET Quotes, NEW x \in Payments,
           CreatePayment(p, a, c, quotes, x)
    PROVE  TenancyInv'
  <1> DEFINE r == Row(Tenant(p), a, "active", {c} \cup quotes)
  <1>1. PICK held \in MayHold(p) : Insert(x, r) /\ Raise(p, x, held)
    BY DEF CreatePayment
  <1>2. /\ r \in Rows /\ r.owner = Tenant(p) /\ r.agent = a /\ r.refs = {c} \cup quotes
    BY TenantIsOwner DEF Row, Rows, TenancyInv, Things, Held
  <1>3. Exists(a) /\ row[a].owner = Tenant(p) /\ (~IsOwner(p) => p = a)
    BY DEF CreatePayment, FindAgent
  <1>4. Sound(r)
    <2>1. \A q \in quotes : Exists(q) /\ row[q].owner = Tenant(p) /\ row[q].agent = a
      BY DEF CreatePayment, QuoteFor
    <2>2. Exists(c) /\ row[c].owner = Tenant(p)
      BY DEF CreatePayment, FindCounterparty
    <2>3. \A j \in {c} \cup quotes : j \in Things \ Endpoints /\ j \notin Owners
      BY IdsAreDistinct DEF Things, Held
    <2>4. {c} \cap Quotes = {}
      BY IdsAreDistinct
    <2> QED
      BY <1>2, <1>3, <2>1, <2>2, <2>3, <2>4 DEF Sound, Present, TenantOf
  <1>5. held => ~IsOwner(p)
    BY <1>1 DEF MayHold
  <1> HIDE DEF r
  <1>6. \/ approval' = approval
        \/ /\ x \in Held /\ r.agent \in Agents
           /\ approval' = [approval EXCEPT ![x] =
                             [owner |-> r.owner, agent |-> r.agent, status |-> "pending"]]
    BY <1>1, <1>2, <1>3, <1>5 DEF Raise, Held
  <1>7. shaped' \in Agents \cup {Nobody}
    BY DEF CreatePayment, TenancyInv, TenancyTypeOK
  <1> QED
    BY <1>1, <1>2, <1>4, <1>6, <1>7, InsertKeeps DEF Things, Held

LEMMA CreateTransferKeeps ==
    ASSUME TenancyInv, NEW p \in Principals, NEW source \in Owners \cup Agents,
           NEW destination \in Owners \cup Agents, NEW t \in Transfers,
           CreateTransfer(p, source, destination, t)
    PROVE  TenancyInv'
  <1> DEFINE a == IF IsOwner(p) THEN Nobody ELSE p
             r == Row(Tenant(p), a, "active", {source, destination})
  <1>1. PICK held \in MayHold(p) : Insert(t, r) /\ Raise(p, t, held)
    BY DEF CreateTransfer
  <1>2. ~IsOwner(p) => p \in Agents /\ Exists(p) /\ row[p].owner = Tenant(p)
    BY TenantIsOwner DEF TenancyInv, Tenant, IsOwner
  <1>3. r \in Rows /\ r.owner = Tenant(p) /\ r.agent = a /\ r.refs = {source, destination}
    BY <1>2, TenantIsOwner DEF Row, Rows, TenancyInv
  <1>4. Sound(r)
    <2>1. \A j \in {source, destination} : Present(j) /\ TenantOf(j) = Tenant(p)
      BY DEF CreateTransfer, HolderOk, FindAgent, Present, TenantOf
    <2>2. {source, destination} \cap Quotes = {}
      BY IdsAreDistinct DEF Things
    <2> QED
      BY <1>2, <1>3, <2>1, <2>2 DEF Sound
  <1>5. held => ~IsOwner(p) /\ a = p
    BY <1>1 DEF MayHold
  <1> HIDE DEF r
  <1>6. \/ approval' = approval
        \/ /\ t \in Held /\ r.agent \in Agents
           /\ approval' = [approval EXCEPT ![t] =
                             [owner |-> r.owner, agent |-> r.agent, status |-> "pending"]]
    BY <1>1, <1>2, <1>3, <1>5 DEF Raise, Held
  <1>7. shaped' \in Agents \cup {Nobody}
    BY DEF CreateTransfer, TenancyInv, TenancyTypeOK
  <1> QED
    BY <1>1, <1>3, <1>4, <1>6, <1>7, InsertKeeps DEF Things, Held

\* A decision, or its cancellation, changes statuses only.
LEMMA DecisionsKeep ==
    ASSUME TenancyInv, NEW p \in Principals, NEW i \in Held,
           \/ \E verdict \in {"approved", "rejected"} : Decide(p, i, verdict)
           \/ i \in Payments /\ CancelPayment(p, i)
           \/ i \in Counterparties /\ VerifyCounterparty(p, i)
    PROVE  TenancyInv'
  <1> USE DEF TenancyInv, TenancyTypeOK
  <1>1. i \in Things
    BY DEF Things
  <1>2. ASSUME NEW v \in {"approved", "rejected", "expired"}, approval[i] # Nobody,
               approval' = [approval EXCEPT ![i].status = v]
        PROVE  /\ approval' \in [Held -> Approvals \cup {Nobody}]
               /\ \A j \in Held : approval'[j] # Nobody =>
                     approval[j] # Nobody /\ approval'[j].owner = approval[j].owner
                                          /\ approval'[j].agent = approval[j].agent
    BY <1>2 DEF Approvals
  <1>3. ASSUME NEW v \in {"approved", "rejected", "expired"}, approval[i] # Nobody,
               approval' = [approval EXCEPT ![i].status = v],
               UNCHANGED <<row, shaped>>
        PROVE  TenancyInv'
    <2>1. TenancyTypeOK' /\ ApprovalsFit'
      BY <1>2, <1>3 DEF ApprovalsFit, Exists
    <2>2. RowsAreSound'
      BY <1>3 DEF RowsAreSound, Sound, Present, TenantOf, Exists
    <2> QED
      BY <2>1, <2>2
  <1>4. ASSUME NEW v \in {"approved", "rejected"}, Decide(p, i, v)
        PROVE  TenancyInv'
    <2>1. approval[i] # Nobody /\ approval' = [approval EXCEPT ![i].status = v]
          /\ shaped' = shaped
      BY <1>4 DEF Decide, FindApproval
    <2>2. CASE i \in Counterparties
      <3>1. PICK s \in {"verified", "blocked"} : SetStatus(i, s)
        BY <1>4, <2>2 DEF Decide
      <3>2. Exists(i)
        BY <2>1 DEF ApprovalsFit
      <3> QED
        BY <1>1, <1>2, <2>1, <3>1, <3>2, StatusKeeps
    <2>3. CASE i \notin Counterparties
      BY <1>3, <1>4, <2>1, <2>3 DEF Decide
    <2> QED
      BY <2>2, <2>3
  <1>5. CASE CancelPayment(p, i)
    BY <1>3, <1>5 DEF CancelPayment
  <1>6. CASE VerifyCounterparty(p, i)
    BY <1>1, <1>6, StatusKeeps DEF VerifyCounterparty, FindCounterparty
  <1> QED
    BY <1>4, <1>5, <1>6

\* Cards, accounts and endpoints.
LEMMA ProductsKeep ==
    ASSUME TenancyInv, NEW p \in Principals,
           \/ \E a \in Agents, k \in Cards : CreateCard(p, a, k)
           \/ \E a \in Agents, v \in Accounts : CreateAccount(p, a, v)
           \/ \E k \in Cards : FreezeCard(p, k) \/ UnfreezeCard(p, k)
    PROVE  TenancyInv'
  <1> USE DEF TenancyInv, TenancyTypeOK
  <1>1. ASSUME NEW a \in Agents, NEW i \in Cards \cup Accounts,
               FindAgent(p, a), Insert(i, Row(Tenant(p), a, "active", {})),
               UNCHANGED <<approval, shaped>>
        PROVE  TenancyInv'
    <2> DEFINE r == Row(Tenant(p), a, "active", {})
    <2>1. r \in Rows /\ r.owner = Tenant(p) /\ r.agent = a /\ r.refs = {}
      BY TenantIsOwner DEF Row, Rows
    <2>2. Sound(r)
      BY <1>1, <2>1 DEF Sound, FindAgent
    <2> QED
      BY <1>1, <2>1, <2>2, InsertKeeps DEF Things
  <1>2. ASSUME NEW k \in Cards, FreezeCard(p, k) \/ UnfreezeCard(p, k)
        PROVE  TenancyInv'
    BY <1>2, StatusKeeps DEF FreezeCard, UnfreezeCard, FindCardForFreeze, Reach, Things
  <1> QED
    BY <1>1, <1>2 DEF CreateCard, CreateAccount

LEMMA EndpointsKeep ==
    ASSUME TenancyInv, NEW p \in Principals, NEW w \in Endpoints,
           CreateEndpoint(p, w) \/ DeleteEndpoint(p, w) \/ RotateSecret(p, w)
    PROVE  TenancyInv'
  <1> USE DEF TenancyInv, TenancyTypeOK
  <1>1. w \in Things /\ w \notin Held \cup Agents
    BY IdsAreDistinct DEF Things
  <1>2. CASE CreateEndpoint(p, w)
    <2> DEFINE r == Row(p, Nobody, "active", {})
    <2>1. r \in Rows /\ r.agent = Nobody /\ r.refs = {}
      BY <1>2 DEF CreateEndpoint, IsOwner, Row, Rows
    <2>2. Sound(r)
      BY <2>1 DEF Sound
    <2> QED
      BY <1>1, <1>2, <2>1, <2>2, InsertKeeps DEF CreateEndpoint
  <1>3. CASE DeleteEndpoint(p, w)
    <2>1. row' = [row EXCEPT ![w] = Nobody] /\ UNCHANGED <<approval, shaped>>
      BY <1>3 DEF DeleteEndpoint
    <2>2. \A j \in (Things \ Endpoints) \cup Agents : Exists(j) =>
             row'[j] # Nobody /\ row'[j].owner = row[j].owner /\ row'[j].agent = row[j].agent
      BY <1>1, <2>1 DEF Exists
    <2>3. ASSUME NEW j \in Things, Exists(j)' PROVE Sound(row[j])'
      <3>1. PICK r \in Rows : r = row[j] /\ row'[j] = r /\ Exists(j)
        BY <1>1, <2>1, <2>3 DEF Exists
      <3>2. Sound(r) /\ r.agent \in Agents \cup {Nobody}
        BY <3>1 DEF RowsAreSound, Rows
      <3>3. Sound(r)'
        BY <2>2, <3>2, SoundStays
      <3> QED
        BY <3>1, <3>3
    <2>4. ApprovalsFit'
      BY <1>1, <2>1 DEF ApprovalsFit, Exists, Things
    <2> QED
      BY <2>1, <2>3, <2>4 DEF RowsAreSound
  <1>4. CASE RotateSecret(p, w)
    BY <1>1, <1>4, StatusKeeps DEF RotateSecret, FindEndpoint
  <1> QED
    BY <1>2, <1>3, <1>4

----------------------------------------------------------------------------
LEMMA RequestKeeps ==
    ASSUME TenancyInv, NEW p \in Principals, Request(p)
    PROVE  TenancyInv'
  <1>1. CASE AgentRoutes(p) \/ PolicyRoutes(p) \/ CredentialRoutes(p)
    BY <1>1, AgentOperationsKeep DEF AgentRoutes, PolicyRoutes, CredentialRoutes
  <1>2. CASE CounterpartyRoutes(p) \/ ApprovalRoutes(p)
    BY <1>2, CreateCounterpartyKeeps, DecisionsKeep DEF CounterpartyRoutes, ApprovalRoutes, Held
  <1>3. CASE QuoteRoutes(p)
    BY <1>3, CreateQuoteKeeps DEF QuoteRoutes
  <1>4. CASE PaymentRoutes(p)
    <2>1. \A quotes \in {{}} \cup {{q} : q \in Quotes} : quotes \in SUBSET Quotes
      OBVIOUS
    <2>2. ASSUME NEW a \in Agents, NEW c \in Counterparties, NEW x \in Payments,
                 NEW quotes \in {{}} \cup {{q} : q \in Quotes},
                 CreatePayment(p, a, c, quotes, x)
          PROVE  TenancyInv'
      BY <2>1, <2>2, CreatePaymentKeeps
    <2>3. ASSUME NEW x \in Payments, CancelPayment(p, x) PROVE TenancyInv'
      BY <2>3, DecisionsKeep DEF Held
    <2> QED
      BY <1>4, <2>2, <2>3 DEF PaymentRoutes
  <1>5. CASE TransferRoutes(p)
    BY <1>5, CreateTransferKeeps DEF TransferRoutes
  <1>6. CASE CardRoutes(p) \/ AccountRoutes(p)
    BY <1>6, ProductsKeep DEF CardRoutes, AccountRoutes
  <1>7. CASE EndpointRoutes(p)
    BY <1>7, EndpointsKeep DEF EndpointRoutes
  <1> QED
    BY <1>1, <1>2, <1>3, <1>4, <1>5, <1>6, <1>7 DEF Request

\* What a tool does, a route lets its agent do as well.
LEMMA ToolIsRequest ==
    ASSUME NEW a \in Agents, Tool(a)
    PROVE  Request(a)
  <1>1. CounterpartyTool(a) => CounterpartyRoutes(a)
    BY DEF CounterpartyTool, CounterpartyRoutes
  <1>2. QuoteTool(a) => QuoteRoutes(a)
    BY DEF QuoteTool, QuoteRoutes
  <1>3. PaymentTool(a) \/ CancelTool(a) => PaymentRoutes(a)
    BY DEF PaymentTool, CancelTool, PaymentRoutes
  <1>4. TransferTool(a) => TransferRoutes(a)
    BY DEF TransferTool, TransferRoutes
  <1>5. CardTool(a) => CardRoutes(a)
    BY DEF CardTool, CardRoutes
  <1> QED
    BY <1>1, <1>2, <1>3, <1>4, <1>5 DEF Tool, Request

LEMMA TenancyInvStep == TenancyInv /\ [TenancyNext]_tenancyVars => TenancyInv'
  <1> SUFFICES ASSUME TenancyInv, [TenancyNext]_tenancyVars PROVE TenancyInv'
    OBVIOUS
  <1>1. CASE TenancyNext
    BY <1>1, RequestKeeps, ToolIsRequest DEF TenancyNext
  <1>2. CASE UNCHANGED tenancyVars
    BY <1>2 DEF tenancyVars, TenancyInv, TenancyTypeOK, RowsAreSound, ApprovalsFit, Sound,
       Present, TenantOf, Exists
  <1> QED
    BY <1>1, <1>2

LEMMA TenancyInvariant == TenancySpec => []TenancyInv
  BY TenancyInvInit, TenancyInvStep, PTL DEF TenancySpec

\* Payee, quote, holders, agent and approval of a row belong to its owner,
\* whatever the owners' agents do and however many there are.
THEOREM RowsStayInTenant == TenancySpec => []ReferencesStayInTenant
  <1>1. TenancyInv => ReferencesStayInTenant
    BY DEF TenancyInv, RowsAreSound, ApprovalsFit, Sound, ReferencesStayInTenant
  <1> QED
    BY <1>1, TenancyInvariant, PTL

----------------------------------------------------------------------------
(***************************************************************************)
(* Who changes what.  A request changes what is its principal's own.       *)
(***************************************************************************)
Own(p, r) == Tenant(p) = r.owner /\ (IsOwner(p) \/ r.agent = p)

ChangesOwn(p) == \A r \in Changed : Own(p, r)

\* A row is added.
LEMMA InsertChangesOwn ==
    ASSUME TenancyInv, NEW p \in Principals, NEW i \in Things \cup Agents, NEW r \in Rows,
           Insert(i, r), Own(p, r),
           \/ approval' = approval
           \/ /\ i \in Held /\ ~IsOwner(p)
              /\ approval' = [approval EXCEPT ![i] =
                                [owner |-> Tenant(p), agent |-> p, status |-> "pending"]]
    PROVE  ChangesOwn(p)
  <1>1. \A j \in Things \cup Agents : row'[j] # row[j] => j = i /\ ~Exists(j) /\ row'[j] = r
    BY DEF TenancyInv, TenancyTypeOK, Insert
  <1>2. \A j \in Held : approval'[j] # approval[j] => Own(p, approval'[j])
    BY DEF TenancyInv, TenancyTypeOK, Own
  <1> QED
    BY <1>1, <1>2 DEF ChangesOwn, Changed

\* A row or an approval that the principal has found changes.
LEMMA FoundChangesOwn ==
    ASSUME TenancyInv, NEW p \in Principals, NEW i \in Things, Exists(i), Own(p, row[i]),
           \A j \in (Things \cup Agents) \ {i} : row'[j] = row[j],
           \/ UNCHANGED approval
           \/ /\ i \in Held /\ approval[i] # Nobody
              /\ \E v \in {"approved", "rejected", "expired"} :
                    approval' = [approval EXCEPT ![i].status = v]
    PROVE  ChangesOwn(p)
  <1>1. \A j \in Things \cup Agents : row'[j] # row[j] => j = i
    OBVIOUS
  <1>2. ASSUME NEW j \in Held, approval'[j] # approval[j] PROVE Own(p, approval'[j])
    <2>1. j = i /\ approval[i] \in Approvals
      BY <1>2 DEF TenancyInv, TenancyTypeOK
    <2>2. approval'[i].owner = approval[i].owner /\ approval'[i].agent = approval[i].agent
      BY <1>2, <2>1 DEF TenancyInv, TenancyTypeOK, Approvals
    <2>3. approval[i].owner = row[i].owner /\ approval[i].agent = row[i].agent
      BY <1>2, <2>1 DEF TenancyInv, ApprovalsFit
    <2> QED
      BY <2>1, <2>2, <2>3 DEF Own
  <1> QED
    BY <1>1, <1>2 DEF ChangesOwn, Changed

LEMMA AgentOperationsChangeOwn ==
    ASSUME TenancyInv, NEW p \in Principals, NEW a \in Agents,
           \/ CreateAgent(p, a) \/ UpdateAgent(p, a) \/ SetAgentStatus(p, a)
           \/ ReplacePolicy(p, a) \/ IssueCredential(p, a) \/ RevokeCredential(p, a)
    PROVE  ChangesOwn(p)
  <1>1. CASE CreateAgent(p, a)
    <2> DEFINE r == Row(p, a, "active", {})
    <2>1. r \in Rows /\ Own(p, r)
      BY <1>1 DEF CreateAgent, IsOwner, Row, Rows, Own, Tenant
    <2> QED
      BY <1>1, <2>1, InsertChangesOwn DEF CreateAgent
  <1>2. CASE Shape(a)
    BY <1>2 DEF Shape, ChangesOwn, Changed
  <1> QED
    BY <1>1, <1>2 DEF UpdateAgent, SetAgentStatus, ReplacePolicy, IssueCredential,
       RevokeCredential

\* What an agent raises is its own.
LEMMA RaisedIsOwn ==
    ASSUME NEW p \in Principals, NEW i \in Held, NEW held \in MayHold(p), Raise(p, i, held)
    PROVE  \/ approval' = approval
           \/ /\ i \in Held /\ ~IsOwner(p)
              /\ approval' = [approval EXCEPT ![i] =
                                [owner |-> Tenant(p), agent |-> p, status |-> "pending"]]
  BY DEF MayHold, Raise

LEMMA CreationsChangeOwn ==
    ASSUME TenancyInv, NEW p \in Principals,
           \/ \E c \in Counterparties : CreateCounterparty(p, c)
           \/ \E a \in Agents, q \in Quotes : CreateQuote(p, a, q)
           \/ \E a \in Agents, c \in Counterparties, quotes \in SUBSET Quotes, x \in Payments :
                 CreatePayment(p, a, c, quotes, x)
           \/ \E source, destination \in Owners \cup Agents, t \in Transfers :
                 CreateTransfer(p, source, destination, t)
           \/ \E a \in Agents, k \in Cards : CreateCard(p, a, k)
           \/ \E a \in Agents, v \in Accounts : CreateAccount(p, a, v)
           \/ \E w \in Endpoints : CreateEndpoint(p, w)
    PROVE  ChangesOwn(p)
  <1> DEFINE maker == IF IsOwner(p) THEN Nobody ELSE p
  <1>1. Tenant(p) \in Owners /\ maker \in Agents \cup {Nobody}
    BY TenantIsOwner DEF TenancyInv
  <1>2. ASSUME NEW i \in Things, NEW a \in Agents \cup {Nobody}, IsOwner(p) \/ a = p,
               NEW st \in {"active", "unverified"},
               NEW refs \in SUBSET (Things \cup Owners \cup Agents),
               Insert(i, Row(Tenant(p), a, st, refs)),
               \/ approval' = approval
               \/ i \in Held /\ \E held \in MayHold(p) : Raise(p, i, held)
        PROVE  ChangesOwn(p)
    <2> DEFINE r == Row(Tenant(p), a, st, refs)
    <2>1. r \in Rows /\ Own(p, r)
      BY <1>1, <1>2 DEF Row, Rows, Own
    <2> HIDE DEF r
    <2>2. Insert(i, r)
      BY <1>2 DEF r
    <2> QED
      BY <1>2, <2>1, <2>2, RaisedIsOwn, InsertChangesOwn
  <1>3. ASSUME NEW c \in Counterparties, CreateCounterparty(p, c) PROVE ChangesOwn(p)
    <2>1. c \in Things /\ c \in Held /\ (IsOwner(p) \/ maker = p)
      BY DEF Things, Held
    <2> QED
      BY <1>1, <1>2, <1>3, <2>1 DEF CreateCounterparty, Things, Held
  <1>4. ASSUME NEW a \in Agents, NEW q \in Quotes, CreateQuote(p, a, q) PROVE ChangesOwn(p)
    BY <1>2, <1>4 DEF CreateQuote, FindAgent, Things
  <1>5. ASSUME NEW a \in Agents, NEW c \in Counterparties, NEW quotes \in SUBSET Quotes,
               NEW x \in Payments, CreatePayment(p, a, c, quotes, x)
        PROVE  ChangesOwn(p)
    <2>1. {c} \cup quotes \in SUBSET (Things \cup Owners \cup Agents)
      BY DEF Things, Held
    <2>2. IsOwner(p) \/ a = p
      BY <1>5 DEF CreatePayment, FindAgent
    <2>3. /\ Insert(x, Row(Tenant(p), a, "active", {c} \cup quotes))
          /\ \E held \in MayHold(p) : Raise(p, x, held)
      BY <1>5 DEF CreatePayment
    <2>4. x \in Things /\ x \in Held
      BY DEF Things, Held
    <2> QED
      BY <1>2, <2>1, <2>2, <2>3, <2>4
  <1>6. ASSUME NEW source \in Owners \cup Agents, NEW destination \in Owners \cup Agents,
               NEW t \in Transfers, CreateTransfer(p, source, destination, t)
        PROVE  ChangesOwn(p)
    <2>1. {source, destination} \in SUBSET (Things \cup Owners \cup Agents)
      OBVIOUS
    <2>2. IsOwner(p) \/ maker = p
      OBVIOUS
    <2>3. /\ Insert(t, Row(Tenant(p), maker, "active", {source, destination}))
          /\ \E held \in MayHold(p) : Raise(p, t, held)
      BY <1>6 DEF CreateTransfer
    <2>4. t \in Things /\ t \in Held
      BY DEF Things, Held
    <2> HIDE DEF maker
    <2> QED
      BY <1>1, <1>2, <2>1, <2>2, <2>3, <2>4
  <1>7. ASSUME NEW a \in Agents, NEW i \in Cards \cup Accounts, IsOwner(p),
               Insert(i, Row(Tenant(p), a, "active", {})), approval' = approval
        PROVE  ChangesOwn(p)
    BY <1>2, <1>7 DEF Things
  <1>8. ASSUME NEW w \in Endpoints, CreateEndpoint(p, w) PROVE ChangesOwn(p)
    <2>1. IsOwner(p) /\ Tenant(p) = p
      BY <1>8 DEF CreateEndpoint, IsOwner, Tenant
    <2> QED
      BY <1>2, <1>8, <2>1 DEF CreateEndpoint, Things
  <1> QED
    BY <1>3, <1>4, <1>5, <1>6, <1>7, <1>8 DEF CreateCard, CreateAccount

LEMMA FindingsChangeOwn ==
    ASSUME TenancyInv, NEW p \in Principals,
           \/ \E i \in Held, v \in {"approved", "rejected"} : Decide(p, i, v)
           \/ \E x \in Payments : CancelPayment(p, x)
           \/ \E c \in Counterparties : VerifyCounterparty(p, c)
           \/ \E k \in Cards : FreezeCard(p, k) \/ UnfreezeCard(p, k)
           \/ \E w \in Endpoints : DeleteEndpoint(p, w) \/ RotateSecret(p, w)
    PROVE  ChangesOwn(p)
  <1>1. ASSUME NEW i \in Held, NEW v \in {"approved", "rejected"}, Decide(p, i, v)
        PROVE  ChangesOwn(p)
    <2>1. approval[i] # Nobody /\ approval[i].owner = Tenant(p) /\ IsOwner(p)
      BY <1>1 DEF Decide, FindApproval
    <2>2. Exists(i) /\ Own(p, row[i]) /\ i \in Things
      BY <2>1 DEF TenancyInv, ApprovalsFit, Own, Things
    <2>3. \A j \in (Things \cup Agents) \ {i} : row'[j] = row[j]
      BY <1>1 DEF Decide, SetStatus, TenancyInv, TenancyTypeOK
    <2> QED
      BY <1>1, <2>1, <2>2, <2>3, FoundChangesOwn DEF Decide
  <1>2. ASSUME NEW x \in Payments, CancelPayment(p, x) PROVE ChangesOwn(p)
    BY <1>2, FoundChangesOwn DEF CancelPayment, FindPayment, Reach, Own, Things, Held
  <1>3. ASSUME NEW i \in Things, Exists(i), Own(p, row[i]), approval' = approval,
               \E new : row' = [row EXCEPT ![i] = new]
        PROVE  ChangesOwn(p)
    <2>1. \A j \in (Things \cup Agents) \ {i} : row'[j] = row[j]
      BY <1>3 DEF TenancyInv, TenancyTypeOK
    <2> QED
      BY <1>3, <2>1, FoundChangesOwn
  <1>4. ASSUME NEW c \in Counterparties, VerifyCounterparty(p, c) PROVE ChangesOwn(p)
    BY <1>3, <1>4 DEF VerifyCounterparty, FindCounterparty, SetStatus, Own, Things, Held
  <1>5. ASSUME NEW k \in Cards, FreezeCard(p, k) \/ UnfreezeCard(p, k) PROVE ChangesOwn(p)
    BY <1>3, <1>5 DEF FreezeCard, UnfreezeCard, FindCardForFreeze, Reach, SetStatus, Own, Things
  <1>6. ASSUME NEW w \in Endpoints, DeleteEndpoint(p, w) \/ RotateSecret(p, w)
        PROVE  ChangesOwn(p)
    BY <1>3, <1>6 DEF DeleteEndpoint, RotateSecret, FindEndpoint, SetStatus, Own, Things
  <1> QED
    BY <1>1, <1>2, <1>4, <1>5, <1>6

LEMMA RequestChangesOwn ==
    ASSUME TenancyInv, NEW p \in Principals, Request(p)
    PROVE  ChangesOwn(p)
  <1>1. CASE AgentRoutes(p) \/ PolicyRoutes(p) \/ CredentialRoutes(p)
    BY <1>1, AgentOperationsChangeOwn DEF AgentRoutes, PolicyRoutes, CredentialRoutes
  <1>2. CASE CounterpartyRoutes(p) \/ ApprovalRoutes(p) \/ CardRoutes(p)
             \/ AccountRoutes(p) \/ EndpointRoutes(p)
    BY <1>2, CreationsChangeOwn, FindingsChangeOwn
    DEF CounterpartyRoutes, ApprovalRoutes, CardRoutes, AccountRoutes, EndpointRoutes
  <1>3. CASE QuoteRoutes(p) \/ TransferRoutes(p)
    BY <1>3, CreationsChangeOwn DEF QuoteRoutes, TransferRoutes
  <1>4. CASE PaymentRoutes(p)
    <2>1. \A quotes \in {{}} \cup {{q} : q \in Quotes} : quotes \in SUBSET Quotes
      OBVIOUS
    <2> QED
      BY <1>4, <2>1, CreationsChangeOwn, FindingsChangeOwn DEF PaymentRoutes
  <1> QED
    BY <1>1, <1>2, <1>3, <1>4 DEF Request

\* No request changes a row or an approval of another tenant, and none of an
\* agent what is its owner's or another agent's, at either door.
THEOREM NobodyChangesAStrangersRow == TenancySpec => ChangesStayInTenant
  <1>1. ASSUME TenancyInv
        PROVE  \A r \in Changed, p \in Principals :
                  Stranger(p, r) => ~Request(p) /\ (p \in Agents => ~Tool(p))
    <2>1. ASSUME NEW r \in Changed, NEW p \in Principals, Request(p)
          PROVE  ~Stranger(p, r)
      BY <1>1, <2>1, RequestChangesOwn DEF ChangesOwn, Own, Stranger
    <2> QED
      BY <2>1, ToolIsRequest
  <1>2. TenancyInv => [\A r \in Changed, p \in Principals :
            Stranger(p, r) => ~Request(p) /\ (p \in Agents => ~Tool(p))]_tenancyVars
    BY <1>1
  <1> QED
    BY <1>2, TenancyInvInit, TenancyInvStep, PTL DEF TenancySpec, ChangesStayInTenant

----------------------------------------------------------------------------
(***************************************************************************)
(* The box.  Without the owner's key six operations are left.              *)
(***************************************************************************)
LEMMA OperationsOfAgents ==
    ASSUME NEW p \in Agents, Request(p)
    PROVE  \/ \E c \in Counterparties : CreateCounterparty(p, c)
           \/ \E a \in Agents, q \in Quotes : CreateQuote(p, a, q)
           \/ \E a \in Agents, c \in Counterparties, quotes \in SUBSET Quotes, x \in Payments :
                 CreatePayment(p, a, c, quotes, x)
           \/ \E x \in Payments : CancelPayment(p, x)
           \/ \E source, destination \in Owners \cup Agents, t \in Transfers :
                 CreateTransfer(p, source, destination, t)
           \/ \E k \in Cards : FreezeCard(p, k)
  <1>1. ~IsOwner(p)
    BY IdsAreDistinct DEF IsOwner
  <1>2. ~AgentRoutes(p) /\ ~PolicyRoutes(p) /\ ~CredentialRoutes(p) /\ ~ApprovalRoutes(p)
        /\ ~AccountRoutes(p) /\ ~EndpointRoutes(p)
    BY <1>1 DEF AgentRoutes, PolicyRoutes, CredentialRoutes, ApprovalRoutes, AccountRoutes,
       EndpointRoutes, CreateAgent, UpdateAgent, SetAgentStatus, ReplacePolicy,
       IssueCredential, RevokeCredential, Decide, CreateAccount, CreateEndpoint,
       DeleteEndpoint, RotateSecret, FindEndpoint
  <1>3. CardRoutes(p) => \E k \in Cards : FreezeCard(p, k)
    BY <1>1 DEF CardRoutes, CreateCard, UnfreezeCard
  <1>4. CounterpartyRoutes(p) => \E c \in Counterparties : CreateCounterparty(p, c)
    BY <1>1 DEF CounterpartyRoutes, VerifyCounterparty
  <1>5. PaymentRoutes(p) =>
           \/ \E a \in Agents, c \in Counterparties, quotes \in SUBSET Quotes, x \in Payments :
                 CreatePayment(p, a, c, quotes, x)
           \/ \E x \in Payments : CancelPayment(p, x)
    <2>1. \A quotes \in {{}} \cup {{q} : q \in Quotes} : quotes \in SUBSET Quotes
      OBVIOUS
    <2> QED
      BY <2>1 DEF PaymentRoutes
  <1> QED
    BY <1>2, <1>3, <1>4, <1>5 DEF Request, QuoteRoutes, TransferRoutes

LEMMA AgentLeavesTheBox ==
    ASSUME TenancyInv, NEW p \in Agents, Request(p)
    PROVE  ~Unboxed
  <1> USE DEF TenancyInv, TenancyTypeOK
  <1>1. ASSUME NEW i \in Held \cup Quotes, NEW r, Insert(i, r), shaped' = shaped,
               \/ approval' = approval
               \/ i \in Held /\ \E held \in BOOLEAN : Raise(p, i, held)
        PROVE  ~Unboxed
    <2>1. \A j \in Things \cup Agents : row'[j] # row[j] => j = i /\ ~Exists(j)
      BY <1>1 DEF Insert
    <2>2. i \notin Agents \cup Accounts \cup Endpoints \cup Cards
      BY IdsAreDistinct DEF Things
    <2>3. \A j \in Held : approval'[j] # approval[j] => approval'[j].status = "pending"
      BY <1>1 DEF Raise
    <2> QED
      BY <1>1, <2>1, <2>2, <2>3 DEF Unboxed, Things, Held
  <1>2. MayHold(p) \subseteq BOOLEAN
    BY DEF MayHold
  <1>3. ASSUME NEW c \in Counterparties, CreateCounterparty(p, c) PROVE ~Unboxed
    BY <1>1, <1>2, <1>3 DEF CreateCounterparty, Held
  <1>4. ASSUME NEW a \in Agents, NEW q \in Quotes, CreateQuote(p, a, q) PROVE ~Unboxed
    BY <1>1, <1>4 DEF CreateQuote
  <1>5. ASSUME NEW a \in Agents, NEW c \in Counterparties, NEW quotes \in SUBSET Quotes,
               NEW x \in Payments, CreatePayment(p, a, c, quotes, x)
        PROVE  ~Unboxed
    BY <1>1, <1>2, <1>5 DEF CreatePayment, Held
  <1>6. ASSUME NEW source \in Owners \cup Agents, NEW destination \in Owners \cup Agents,
               NEW t \in Transfers, CreateTransfer(p, source, destination, t)
        PROVE  ~Unboxed
    BY <1>1, <1>2, <1>6 DEF CreateTransfer, Held
  <1>7. ASSUME NEW x \in Payments, CancelPayment(p, x) PROVE ~Unboxed
    <2>1. /\ approval' = [approval EXCEPT ![x].status = "expired"]
          /\ x \in Held /\ approval[x] \in Approvals
          /\ UNCHANGED <<row, shaped>>
      BY <1>7 DEF CancelPayment, Held
    <2>2. \A j \in Held : approval'[j] # approval[j] => approval'[j].status = "expired"
      BY <2>1 DEF Approvals
    <2> QED
      BY <2>1, <2>2 DEF Unboxed
  <1>8. ASSUME NEW k \in Cards, FreezeCard(p, k) PROVE ~Unboxed
    <2>1. k \in Things /\ row[k] \in Rows /\ UNCHANGED <<approval, shaped>>
          /\ row' = [row EXCEPT ![k].status = "frozen"]
      BY <1>8 DEF FreezeCard, FindCardForFreeze, Reach, Exists, SetStatus, Things
    <2>2. \A j \in Things \cup Agents : row'[j] # row[j] => j = k /\ row'[j].status = "frozen"
      BY <2>1 DEF Rows
    <2>3. k \notin Agents \cup Accounts \cup Endpoints \cup Counterparties
      BY IdsAreDistinct DEF Things, Held
    <2> QED
      BY <2>1, <2>2, <2>3 DEF Unboxed, Things, Held
  <1> QED
    BY <1>3, <1>4, <1>5, <1>6, <1>7, <1>8, OperationsOfAgents

\* Only the owner reshapes the box: whatever an agent asks for, at either door,
\* no agent changes, nothing is decided, confirmed or unfrozen, and no agent,
\* card, account or endpoint appears.
THEOREM BoxIsTheOwners == TenancySpec => AgentsStayInTheBox
  <1>1. TenancyInv => [Unboxed => \A a \in Agents \cap Principals :
                                    ~Request(a) /\ ~Tool(a)]_tenancyVars
    BY AgentLeavesTheBox, ToolIsRequest
  <1> QED
    BY <1>1, TenancyInvInit, TenancyInvStep, PTL DEF TenancySpec, AgentsStayInTheBox

=============================================================================
