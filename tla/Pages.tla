------------------------------- MODULE Pages -------------------------------
(***************************************************************************)
(* A client walks through a list, page by page, while rows are added and   *)
(* change their status (the list functions of the services, ListEnvelope   *)
(* in the routes, the list tools of mcp/app.py).                           *)
(*                                                                         *)
(* Ids are ULIDs; here, their order.  They are drawn before the commit, so *)
(* a row may appear below the newest one.  Pages go down from the newest   *)
(* id; the last id of a page is the cursor of the next.                    *)
(*                                                                         *)
(* Definitions marked "Fault" are wrong on purpose, as in MoneyMovement.   *)
(***************************************************************************)
EXTENDS Naturals, FiniteSets

CONSTANTS
    MaxId,      \* bound: rows
    Limits,     \* page sizes a client asks for, at least 1 (the routes see to it)
    Viewer,     \* an agent
    OwnerView,  \* the owner as a viewer, or as the one a row belongs to
    Whatever    \* no filter, no cursor, no row

ASSUME PagesHoldRows == MaxId \in Nat /\ Limits \subseteq Nat \ {0}
ASSUME WhateverIsNoRow == Whatever \notin Nat

VARIABLES
    shelf,   \* id -> its row
    walk,    \* the client's query and how far it is
    given,   \* id -> times it was returned on this walk
    steady   \* history: ids that have been on the list since the walk began

pagesVars == <<shelf, walk, given, steady>>

RowIds == 1..MaxId
States == {"open", "closed"}
Parties == {Viewer, OwnerView}
ShelfRows == [agent : Parties, status : States]
Query(list, viewers, agents, statuses) ==
    [list : {list}, viewer : viewers, agent : agents, status : statuses]

\* What the routes take.
Agent == {Viewer, Whatever}
Status == {"open", Whatever}
AgentQueries == Query("agents", {OwnerView}, {Whatever}, Status)
PaymentQueries == Query("payments", Parties, Agent, Status)
TransferQueries == Query("transfers", Parties, Agent, {Whatever})
ApprovalQueries == Query("approvals", Parties, Agent, Status)
CounterpartyQueries == Query("counterparties", Parties, {Whatever}, Status)
EventQueries == Query("events", Parties, Agent, Status)
BalanceQueries == Query("balances", {OwnerView}, {Whatever}, {Whatever})

\* A tool asks for no agent: it lists what its own agent is shown.
Own(queries) == {q \in queries : q.viewer = Viewer /\ q.agent = Whatever}
PaymentTool == Own(PaymentQueries)
TransferTool == Own(TransferQueries)
CounterpartyTool == Own(CounterpartyQueries)
ApprovalTool == Own(ApprovalQueries)
EventTool == Own(EventQueries)

Queries ==
    AgentQueries \cup PaymentQueries \cup TransferQueries \cup ApprovalQueries
    \cup CounterpartyQueries \cup EventQueries \cup BalanceQueries
    \cup PaymentTool \cup TransferTool \cup CounterpartyTool \cup ApprovalTool \cup EventTool

PagesTypeOK ==
    /\ shelf \in [RowIds -> ShelfRows \cup {Whatever}]
    /\ walk \in [query : Queries, cursor : RowIds \cup {Whatever},
                 stage : {"idle", "walking", "done"}]
    /\ given \in [RowIds -> 0..1]
    /\ steady \in SUBSET RowIds

PagesInit ==
    /\ shelf = [i \in RowIds |-> Whatever]
    /\ walk \in [query : Queries, cursor : {Whatever}, stage : {"idle"}]
    /\ given = [i \in RowIds |-> 0] /\ steady = {}

----------------------------------------------------------------------------
(***************************************************************************)
(* The filters.  An agent sees its own rows whatever agent it asks for.    *)
(***************************************************************************)
OfAgent(q, r) ==
    IF q.viewer # OwnerView THEN r.agent = q.viewer
    ELSE q.agent # Whatever => r.agent = q.agent

OfStatus(q, r) == q.status # Whatever => r.status = q.status

\* What the lists filter by.  Counterparties belong to all agents of an owner,
\* events have a type in place of a status, and an agent has one balance, which
\* it is given without a query.
AgentsShow(q, r) == OfStatus(q, r)
PaymentsShow(q, r) == OfAgent(q, r) /\ OfStatus(q, r)
TransfersShow(q, r) == OfAgent(q, r)
ApprovalsShow(q, r) == OfAgent(q, r) /\ OfStatus(q, r)
CounterpartiesShow(q, r) == OfStatus(q, r)
EventsShow(q, r) == OfAgent(q, r) /\ OfStatus(q, r)

Shows(q, r) ==
    /\ r # Whatever
    /\ q.list = "agents" => AgentsShow(q, r)
    /\ q.list = "payments" => PaymentsShow(q, r)
    /\ q.list = "transfers" => TransfersShow(q, r)
    /\ q.list = "approvals" => ApprovalsShow(q, r)
    /\ q.list = "counterparties" => CounterpartiesShow(q, r)
    /\ q.list = "events" => EventsShow(q, r)

OnList == {i \in RowIds : Shows(walk.query, shelf[i])}

----------------------------------------------------------------------------
(***************************************************************************)
(* The client and the page it gets.                                        *)
(***************************************************************************)
StartWalk ==
    /\ walk.stage = "idle"
    /\ walk' = [walk EXCEPT !.stage = "walking"]
    /\ steady' = OnList
    /\ UNCHANGED <<shelf, given>>

\* Fault: a page begins with the row its cursor names.
AtOrBelow(cursor) == {i \in RowIds : cursor # Whatever => i <= cursor}

Below(cursor) == {i \in RowIds : cursor # Whatever => i < cursor}

Newest(n, S) == {i \in S : Cardinality({j \in S : j > i}) < n}
LastOf(S) == CHOOSE i \in S : \A j \in S : i <= j

\* Fault: the cursor is taken from the row that was fetched to look ahead.
CursorAhead(rows, limit) == LastOf(rows)

NextCursor(rows, limit) == LastOf(Newest(limit, rows))

\* One row more than the page holds is fetched; it only says whether to go on.
FetchPage(limit) ==
    LET rows == Newest(limit + 1, OnList \cap Below(walk.cursor))
        page == Newest(limit, rows)
        hasMore == Cardinality(rows) > limit
    IN  /\ walk.stage = "walking"
        /\ given' = [i \in RowIds |-> given[i] + IF i \in page THEN 1 ELSE 0]
        /\ walk' = IF hasMore THEN [walk EXCEPT !.cursor = NextCursor(rows, limit)]
                   ELSE [walk EXCEPT !.stage = "done"]
        /\ UNCHANGED <<shelf, steady>>

\* Others go on meanwhile.
KeepSteady == steady' = {i \in steady : Shows(walk.query, shelf'[i])}

AddRow(i, r) ==
    /\ shelf[i] = Whatever
    /\ shelf' = [shelf EXCEPT ![i] = r]
    /\ UNCHANGED <<walk, given, steady>>

ChangeStatus(i, s) ==
    /\ shelf[i] # Whatever /\ shelf[i].status # s
    /\ walk.query.list # "events"
    /\ shelf' = [shelf EXCEPT ![i].status = s]
    /\ KeepSteady
    /\ UNCHANGED <<walk, given>>

PagesNext ==
    \/ StartWalk
    \/ \E limit \in Limits : FetchPage(limit)
    \/ \E i \in RowIds : \/ \E r \in ShelfRows : AddRow(i, r)
                         \/ \E s \in States : ChangeStatus(i, s)

PagesSpec == PagesInit /\ [][PagesNext]_pagesVars

----------------------------------------------------------------------------
(***************************************************************************)
(* Properties.                                                             *)
(***************************************************************************)

\* Whatever is added or changed during a walk and however large its pages are,
\* no row is returned twice, and a walk that has reached its end has returned
\* every row that was on the list all the time.
WalksAreComplete ==
    /\ \A i \in RowIds : given[i] <= 1
    /\ walk.stage = "done" => \A i \in steady : given[i] = 1

=============================================================================
