# A verification project for osenstack

osenstack is the backend of a payments product for software agents: an owner
funds agents, an agent pays counterparties within a policy, and what the policy
does not let through waits for the owner. It is Python (FastAPI, SQLAlchemy
async, Celery) over PostgreSQL. This directory holds TLA+ models of its core,
the TLC configurations that check them, and TLAPS proofs. Paths below are
relative to `src/src/enos` unless they start otherwise.

## 1. The system

The code runs in three roles that share one database: `api` (REST, `/v1`), `mcp`
(nineteen tools for agents) and `worker` (Celery beat starts the expiry of
approvals every 60 s). All state is in PostgreSQL at READ COMMITTED. No row is
selected FOR UPDATE and no table has a version column; a request is one session,
committed after its answer has been sent (`db.py:30`).

| component | state | operations | what makes it correct |
|---|---|---|---|
| ledger (`services/ledger.py`, `ledger/posting.py`) | append-only entries, one balance row per holder with `available` and `pending_out` | fund, reserve, release, pay out, internal transfer | `available` derives from the entries less the holds; nobody overdraws |
| payments (`services/payments.py`) | payment rows | create (pay, hold, deny), execute after approval, cancel | each payment posts one journal, or none; a hold is released or consumed once |
| transfers (`services/transfers.py`) | transfer rows | create, execute after approval | the same, between holders of one owner |
| approvals (`services/approvals.py`, `worker/app.py`) | approval rows with `expires_at` | approve, reject, expire | one decision, agreeing with the row it is about; an overdue one only expires; every hold ends |
| counterparties (`services/counterparties.py`) | `unverified`, `verified`, `blocked` | create, verify, decided through approvals | an agent on its own pays only whom the policy lets it pay |
| policy engine (`policy/engine.py`) | none, a pure function | evaluate | stricter documents and larger requests never rule more mildly; amounts never decide about a denial |
| policy gate (`services/policy_gate.py`, `usage.py`, `policies.py`) | policy versions, `policy.evaluation` events; usage is aggregated from rows | evaluate, replace policy | limits bind the agent per day and month under the version in force |
| idempotency (`api/middleware.py`, `mcp/runtime.py`) | `idempotency_keys`, shared by both doors; `mcp_audit` | look up, run, store, audit | one effect per key and window; replays and audit rows are true |
| authentication (`services/credentials.py`, `context.py`, `api/deps.py`) | credentials with a kind, scopes, a status and an expiry; the agent's status | resolve, issue, revoke, suspend, reactivate | what comes after a revocation or a suspension is stopped |
| quotes, providers (`services/quotes.py`, `providers/`) | quotes with a lifetime; the sandbox's table of rates | quote, dispatch, reprice | a quote is firm while it lives, and repriced with both amounts on record afterwards |
| cards, virtual accounts, webhooks (`services/cards.py`, `virtual_accounts.py`, `webhooks.py`) | rows of one owner | create, freeze, unfreeze, rotate, delete | an agent may freeze its cards and nothing else |
| the two doors (`api/routes`, `mcp/app.py`) | none | each route and tool calls one service | no row of another tenant is read into or changed by a request; an agent stays in its box |
| lists (the `list_*` functions, `api/envelope.py`) | none; the cursor is the client's | one page | a walk skips and repeats nothing |
| money columns (`models/base.py`) | `NUMERIC(38, 9)` | round on write | sums that are kept twice agree |
| activity log, owners | rows that are only added, or only read | record, list | see section 7 |

**Interaction.** Routes and tools call the same services. `create_payment` calls
the quotes, the ledger (cover), the policy gate (ruling), then either the ledger
(reserve) and `raise_approval`, or the ledger (pay out) and the provider.
`approve` calls back into payments or transfers; the worker releases holds
itself. The idempotency middleware wraps all of this in other transactions.

**What is hard here.** Two requests on one balance, one approval or one policy
limit overlap without locks. The check of a key, the effect and the record of the
key are three transactions, and the answer leaves before the second. Holds are
ended by many handlers (approve, reject, cancel and expire for payments; all of
these but cancel for transfers). An approval can be pending and overdue. Usage
windows start at midnight while held movements run days later. A principal is
resolved in a transaction that ends before the handler's begins. A denial needs a
second connection while the request holds its first. Every lookup filters tenant
and agent for itself, and the filters differ. Amounts of any
length meet sums of 28 digits and columns of nine decimals that round one by one.
`PROJECT.json` lists these hazards, each at its line, with the properties that
cover it.

## 2. The modules

| module | models | extends or uses |
|---|---|---|
| `MoneyMovement` | ledger, payments, transfers, counterparties, approvals, worker; one action per handler | - |
| `HeldFunds` | the contract of the money core: what a holder owns, and movements that are open, held, done or void | abstract specification of `MoneyMovement`, and of `ConcurrentRequests` as long as nothing races |
| `MoneyMovementProofs` | theorems about `MoneyMovement` | `MoneyMovement` |
| `PolicyEngine` | `evaluate` as an operator | - |
| `PolicyGate` | the handlers with the engine deciding: versions, usage windows, the calendar | `MoneyMovement`, `PolicyEngine` |
| `PolicyGateProofs` | theorems about `PolicyGate` | `PolicyGate`, `MoneyMovementProofs` |
| `PolicyOrder` | the engine asked again while everything only tightens | `PolicyEngine` |
| `ConcurrentRequests` | overlapping transactions on one agent's payments | - |
| `ConcurrentRequestsProofs` | theorems about `ConcurrentRequests` | `ConcurrentRequests`, `HeldFunds` |
| `Idempotency` | the keys of one credential at both doors | - |
| `IdempotencyProofs` | theorems about `Idempotency` | `Idempotency` |
| `AgentAccess` | a request from its token to its commit: credential, agent, handler, denial, connection pool | - |
| `PolicyVersions` | writers and readers of one agent's policy that overlap | - |
| `Pages` | the lists of all services, page by page, while rows change | - |
| `Tenancy` | who reaches which row: all operations, at both doors, for several owners | - |
| `TenancyProofs` | theorems about `Tenancy` | `Tenancy` |
| `MoneyColumns` | what a money column keeps of an amount | - |
| `QuotedPayments` | quotes in a moving market and the payments made on them | `MoneyColumns` |
| `QuotedPaymentsProofs` | theorems about `QuotedPayments` | `QuotedPayments` |
| `Rounding` | amounts with more digits than a column keeps, and sums with more than Decimal keeps | `MoneyColumns` |
| `MCOverlapping` | the five components whose steps interleave side by side: `AgentAccess`, `PolicyVersions`, `Pages`, `ConcurrentRequests`, `Idempotency` | `MCConcurrentRequests` and the other four |
| `OverlappingProofs` | theorems about the first three, and the types of all five | `MCOverlapping`, `ConcurrentRequestsProofs`, `IdempotencyProofs` |
| `MCSequential` | `Tenancy`, `QuotedPayments`, `Rounding` and `PolicyOrder` side by side | the four |
| `SequentialProofs` | theorems about `PolicyOrder` and `Rounding`, and the types of all four | `MCSequential`, `TenancyProofs`, `QuotedPaymentsProofs` |
| other `MC...` | an instance for TLC: values of constants, symmetry | the module of that name |

Operators marked "Fault" are deliberate slips. No action uses them; each shows,
put in the place of the definition it follows, that some property notices.

### State and code

*MoneyMovement.* `net` is the sum of an account's `ledger_entries`, credits less
debits; `available` and `pendingOut` are the columns of `balances`; `status`,
`source`, `destination`, `amount` the rows of `payments` and `transfers`
("none" before the insert); `approval` the status of the approval a row points
to, `overdue` those whose `expires_at` has passed; `evaluation` the outcome of
the `policy.evaluation` event. An action is a handler from its first read to its
commit. A refused request rolls back and is no step, except a denial, whose event
is committed in a session of its own (`policy_gate.py:102`). Requests are
*serial* here and in `PolicyGate`; overlap is the subject of
`ConcurrentRequests`. The agent's transfer goes to the treasury only, because
`_validate_holder` (`transfers.py:18`) accepts for an agent nothing else that
passes the tenant check. The policy's outcome is a free input here, so that
everything that holds does so for every policy.

*PolicyGate* fixes that input: `AgentPayment`, `AgentTransfer` and
`AgentCounterparty` compute it with `Evaluate` from the version in force, the
counterparty's status and `Used`, the movements of the day or month that count
(`usage.py`). `ruledUnder` is the version the event records.

*ConcurrentRequests.* `work[r]` is a transaction: begin (the first SELECT and
its check), the read of the balance row into `seen[r]`, the ruling, then one step
with all writes. One step is enough for the writes: all writing handlers update
the agent's balance row, whose lock is held to the commit. What is written is
computed from `seen`, and only for the columns that change (`Columns`), as
SQLAlchemy emits it. A transaction may roll back at any point. `raced` is a
history variable: it notes that a commit overwrote a column that had changed
since it was read, or a decision it had not seen. The policy is a daily limit.
Dispatch settles at once.

*Idempotency.* `at[c]` is where a call is: found a stale record, in its handler,
answered but not committed (REST), settled but not recorded, closing (MCP audit).
`Die` ends a call at any of them. `record[k]` is the row, `old` the rows past
the window. `recent` and `disturbed` are history: committed calls of the current
window, and keys on which calls overlapped or died between commit and record.
The locked FastAPI (0.139) exits a dependency with yield after the response is
sent, hence `CommitRest` after "answered".

*AgentAccess.* `stage[r]` is where a request is: waiting for a connection
("arrived"), between the two reads of `resolve_token` ("known": credential read,
agent not), authenticated, in its handler, on its way to record a denial. The
REST door reads credential and agent a second time for the route
(`api/deps.py`), without judging them; the engine then judges the agent. The tool
runtime works with the objects it has. `elsewhere` counts connections of other
requests. `doomed` and `frozen` are history: requests whose credential was still
to be read when it was revoked or expired, and requests whose agent was still to
be looked at when it was suspended.

*PolicyVersions.* `inForce` is `agents.policy_version`, `documents` the rows of
`policies`. A writer reads, flushes (and waits there for another writer's index
entry) and commits, or fails on the unique constraint. A reader takes the version
and the document in two statements.

*Pages.* A list is a query: which service, seen by whom, filtered by agent and
status. Ids are drawn before the commit, so a row may appear below the newest.
`AgentQueries` to `BalanceQueries` are what the routes accept, `PaymentTool` to
`EventTool` what the tools do.

*Tenancy.* `row[i]` holds what access depends on: the owner, the agent, a status,
and `refs`, the ids the row names. An operation is one step with its real lookup
as guard. A route takes any ids its caller sends; a tool puts its own agent where
the route has a parameter. `shaped` notes an agent whose profile, status, policy
or credentials changed. Money and policy are free: a request may be held or not.

*QuotedPayments.* `quote`, `payment` and the amounts an approval records are
rows; `market` is what the router answers, `stale` the quotes out of time.
A rate is a fraction, `n` there for `d` at home. Amounts asked for are in parts of a
stored unit, the ninth digit of `NUMERIC(38, 9)`; prices are in cents (`ToCents`, that is
`quantize(_CENT, ROUND_HALF_UP)`); and a row keeps `Stored` of each. A price is
computed from the amount asked for and, when the payment is repriced, from the
amount in the payment's row, so three roundings lie between what was quoted and what
is delivered. `AmountsAreShort` keeps products with a rate below Decimal's 28 digits,
where they are exact and quotients right to the cent.

*Rounding.* Amounts are in parts of a stored unit. `availableColumn`,
`pendingColumn`, `heldColumn` and `entries` are each rounded when written
(`Stored`); a sum of a column and an amount is rounded before by Decimal's default
context, half to even (`Kept`), to a multiple of `Grain`, what the last of its 28
digits is worth. `Covers` compares the exact amount with the stored balance;
`Balances` is the check of `post_journal`, whose own addition has 28 digits too. `ties` and
`closeCalls` are history. `GrainsFit` says that half a stored unit is a multiple of
each grain, as it is for sums below 10^18; sums beyond `InReach` are not
looked at.

## 3. What the runs show

| run | question | bounds |
|---|---|---|
| `money_safety` | Do holds, rows, approvals, journals and balances agree after any sequence of calls? `BalanceDerives`, `PendingOutIsHeld`, `Solvent`, `SettlementIsPaid`, `ApprovalMatchesRow`, `DecisionsAreFinal`, `OverdueOnlyExpires` | 2 agents, 2 payments, 1 transfer, 1 counterparty, amounts to 2, funding to 3 |
| `money_contract` | Do the handlers implement `HeldFunds`, its liveness included? `KeepsContract`, `HoldsEnd` | 1 agent, 2 payments, 1 transfer |
| `money_dispatch` | finding 1 | 1 payment, any `DispatchResults` |
| `policy_gate` | Is an agent bound by its limits and by the review of payees over days and policy versions? `LimitsBindTheAgent`, `VelocityBindsTheAgent`, `NewPayeesWereConfirmed`, `GateTypeOK` | 2 documents, 2 versions, 3 days in months of 2, 1 payment, 1 transfer |
| `concurrent_derives`, `concurrent_limits` | findings 2 and 3 | 2 transactions, 2 payments |
| `concurrent_spends`, `concurrent_decisions` | findings 6 and 7 | 2 transactions, 2 payments; funds for only one, or every payment of the agent held |
| `idempotency_once` | finding 4 | 2 calls |
| `overlapping` | Does a revocation or suspension stop what comes after it, and does every request end with a full pool? `RevocationStops`, `SuspensionStops`, `DenialsAreRecorded`, `RequestsEnd`. Do versions stay apart? `VersionsAreDistinct`. Does a walk through a list skip or repeat? `WalksAreComplete`. What survives overlapping transactions? `HeldTogether` unconditionally; `DerivesUnlessOverwritten`, `ExactUnlessRaced` as long as nothing is overwritten unseen. What do keys guarantee? `RecordsAreTrue`, `RecordsAreKept`, `AuditIsTrue` always; `OneEffectUnlessRaced` for retries that wait | 2 requests on 1 credential, 2 connections; 3 writers, 1 reader; 3 rows, pages of 1 and 2; 2 transactions at a time on 2 payments, funds for only one of them; 3 calls, 1 key, 1 body at each of two doors |
| `sequential` | Does a chain of calls leave the tenant or the box? `ReferencesStayInTenant`, `ChangesStayInTenant`, `AgentsStayInTheBox`. Are quotes firm? `QuotesAreFirm`, `BothAmountsAreRecorded`, `RepricedWithinRounding`. How far do rounded columns drift? `DriftIsBounded`. Can tightening loosen a ruling? `RulingOnlyTightens`, `DenialsAreCategorical` | 2 owners, 4 agents, 2 changes that add or reshape; 1 quote and 1 payment at 2 rates, 9 amounts in twentieths of a unit, 2 units to a cent; the same amounts in 3 movements, funding to 6 units, 40 for the largest coefficient; limits 1, amounts 1 and 2 |
| `rounding_columns` | finding 5 | 2 movements, amounts to 10 quarters |

The runs `overlapping` and `sequential` hold several components that share no
variable: `focus` picks one at the start, and the others stay as they begin. Their
state spaces add up and do not multiply; each component is explored as by a run
of its own, and that none of them behaves otherwise than alone is proved
(`ComponentsInterleave`, `ComponentsAlternate`).

**Why the bounds are enough.** The money invariants are sums over movements that
meet in one holder's columns: two movements of one holder and a third of another
kind give every pair of interfering handlers, amounts 1 and 2 tell which hold
was released, and funding 3 lets two but not all of the movements through. The
proofs remove these bounds for the theorems of section 5. A lost update needs two
transactions, and they are reused, so that later ones meet what earlier ones have
left. A request in a gap and the owner's call that falls into it are two actors;
the second request on the same credential is there to use it meanwhile and to
take the second connection. Two connections for two denied requests are the
smallest pool that everyone can fill and wait on. Three versions make a writer
that has read neither the first nor the second; three rows make a page, its
look-ahead row and one beyond. In `Tenancy` the founded rows give every
combination of own, sibling's and stranger's; two changes add a quote and the
payment on it, or a payment and what is raised on it, and decisions,
freezes and cancellations are not counted. The rates 9/10 and 5/2 lose units in
either direction. The nine amounts, from 7 to 136 twentieths of a stored unit, lie below,
on and just above half a unit and between whole cents and units, so that each of the
roundings of a quote moves something; and since coefficients end at 40, sums from 40
parts on, two stored units, are kept in tens: a sum may meet a half only after
Decimal has rounded it, which is when the drift exceeds the ties. A stale key needs three calls: one that leaves the record, two
that find it, the slower of which may meet the fresh record of the faster. The calendar has two months and a
day boundary within one of them. `Cardinality({u \in S \X 1..n : ...})` counts
the units of a set of movements, which is its sum and needs no recursion.

**Deadlock** is not checked: every model is finite by its ids and bounds, so each
of them stops when ids are used up.

**Fairness.** `WF(ExpireStale)`: Celery beat starts the task every 60 s
(`worker/app.py:17`) whether or not earlier runs failed. `WF(FallDue(s))`: time
passes. `AccessFairness` is weak fairness of the steps of each request: the event
loop runs every task that can go on, and the pool's timeout (SQLAlchemy's default,
30 s) fires for one that cannot. Nothing is assumed of owners, agents or clients, nor
that connections held by others come back. `money_contract` uses the first two,
`overlapping` the third.

## 4. Findings

1. `DispatchedIsNotCancelled` (`payments.py:192`). The API says a dispatched
   payment cannot be cancelled (`src/docs/agent_os_openapi.yaml:589`). After an
   approval the row keeps `pending_approval` unless the provider answers
   "completed", and then `cancel_payment` releases a hold that was consumed. The
   sandbox always completes; any asynchronous provider reaches it. `Solvent`,
   `PendingOutIsHeld` and the rest are stated for `SettlesAtOnce`, that is, for
   the sandbox; `BalanceDerives` does not depend on it.
2. `BalanceDerives` under overlap (`ledger.py:127`): a lost update of a balance
   column.
3. `OverLimitIsHeld` (`policy_gate.py:55`): two overlapping payments exceed a
   daily limit together.
4. `SameRequestOnce` (`api/middleware.py:139`): a retry that overtakes its first
   attempt is executed as well; so is one that waits for it, if the first dies between
   its commit and the record of its key (`middleware.py:188`).
5. `ColumnsAgree` (`models/base.py:9`): an outgoing amount that ends in exactly half
   of the ninth digit is rounded up in the entry and taken from the balance
   rounded the other way. `DriftIsBounded` says how far the two part at most: by one
   stored unit for each such amount, and possibly for each that is so close to a half
   that 28 digits do not tell (10 less 5e-10 + 1e-34 stays 10).
6. `PaymentsAreCovered` (`ledger.py:115`): two overlapping payments both find the
   balance that covers one of them, and are both accepted
   (`src/tests/test_payments_policy.py:168` has the second refused).
7. `OnlyCompletedWasPaid` (`approvals.py:51`): two overlapping decisions both find the
   approval pending (`src/tests/test_approvals.py:103` has the second refused). Two
   approvals pay twice; an approval and a rejection leave a cancelled payment that
   has gone out and whose hold has been given back.

`ExactUnlessRaced` says that 2, 6 and 7 need a commit that overwrites what it has not
seen; `DerivesUnlessOverwritten` says the same of 2 alone.

Not runs, because one step shows them; a docstring or document says otherwise:

- `src/docs/agent_os_openapi.yaml:521`: a 201 means that the payment is accepted. The
  answer leaves before the commit (`db.py:35`), which may fail; `RecordsAreTrue` says
  that such an answer is never replayed, so that a retry is carried out.
- `mcp/runtime.py:7`: every invocation writes an audit row. `_write_audit` returns
  without one for a call that does not authenticate (`runtime.py:56`).
- `mcp/app.py:264`: an agent can transfer to a sibling agent. `_validate_holder` looks
  the destination up as the agent sees it, and finds only itself (`agents.py`); the
  only destination left is the treasury.
- `src/docs/agent_os_openapi.yaml:228`: cards of a suspended agent decline. Suspension
  changes the agent's row only.
- `src/docs/agent_os_openapi.yaml:267`: credentials of kind `mcp` are for the tool
  server. The REST door takes every kind; only the other direction is refused.
- `src/docs/agent_os_openapi.yaml:1094`: the old secret remains valid for 24 h. A second
  rotation overwrites `previous_secret_hash` whenever it comes (`webhooks.py:94`).
- `src/docs/agent_os_openapi.yaml:917`: an approval of a repriced action records both
  amounts. It does so only if they differ.
- `src/docs/agent_os_openapi.yaml:1520`: a quote is for cross-currency payments. A quote
  is accepted whatever its currency, also one that is not the payee's
  (`payments.py:55`).
- `ledger/posting.py:25`: entries are positive. An amount below half of the ninth
  digit is positive when it is checked and stored as 0.
- `policy_gate.py:97`: the record of a denial survives the 403. If the pool gives the
  second connection too late, the caller gets a 500 and there is no record
  (`TimeOut` of a request that is "denying").

## 5. What is proved

For every set of agents and ids and every bound (`MoneyMovementProofs`):

| theorem | says | assumes |
|---|---|---|
| `TypeCorrect` | `[]TypeOK` | the ASSUMEs of the module |
| `LedgerInvariant` | `[]BalanceDerives`, the sentence at the top of `ledger.py` | the same |
| `RowsAgree` | `[]ApprovalMatchesRow` | also `SettlesAtOnce` |
| `HoldsAreExact` | `[]PendingOutIsHeld` | also `SettlesAtOnce` |
| `NobodyOverdraws` | `[]Solvent` | also `SettlesAtOnce` |
| `NoSecondDecision` | `DecisionsAreFinal` | also `SettlesAtOnce` |
| `EachPaymentPostsOnce` | `[]SettlementIsPaid` | also `SettlesAtOnce` |
| `TooLateToDecide` | `OverdueOnlyExpires` | also `SettlesAtOnce` |
| `HandlersKeepTheContract` | initial states and every step are those of `HeldFunds`: the safety half of `KeepsContract` | also `SettlesAtOnce` |

The ASSUMEs say that names are distinct, ids are finite in number, bounds are
naturals and a provider answers one of three words. The inductive invariant is
`TypeOK /\ ApprovalMatchesRow /\ BalanceDerives /\ PendingOutIsHeld /\ Solvent`,
built up in this order. `ApprovalMatchesRow` is needed because
`ApprovePayment` looks at the approval only: that the row is still held, so that
the amount is really in `pendingOut`, is not in its guard. `PendingOutIsHeld`
needs it for the same reason, and `Solvent` needs `PendingOutIsHeld` for the
columns a release subtracts from. `SettlementIsPaid` is added with `HeldNamesFit`: no
held transfer names the settlement account, and every held payment does. The
refinement needs all of it but `Solvent`: a request is one the contract allows because the column it is compared
with is what the contract lets spend (`AvailableIsSpendable`), and a release or
approval finds the row in the stage the contract asks for. Sums enter through five lemmas on `Value`
(finite, of one, of a disjoint union, with, without); the library's induction
over finite sets cannot be used, and is not needed since a sum is a cardinality.

For all agents, ids and documents, every calendar and any number of versions
(`PolicyGateProofs`). Beside the ASSUMEs of `MoneyMovement` it needs that a limit is
an integer or not set, that the mark of an unset field is neither a number nor a
payee, and that a month has a day:

| theorem | says | assumes |
|---|---|---|
| `GateTypeCorrect` | `[]GateTypeOK` | the ASSUMEs |
| `SpendingIsLimited` | `[]LimitsBindTheAgent` | the same |
| `FrequencyIsLimited` | `[]VelocityBindsTheAgent` | the same |
| `OnlyKnownArePaid` | `[]NewPayeesWereConfirmed` | the same |
| `AllowedIsFinal` | no step changes what the policy allowed: row, payee, day, version | the same |
| `GateStaysWithinTheFlow` | `GateSpec` implies `MoneyMovement`'s `Init` and `[][Next]_vars` | the same |
| `GatedMoneyKeepsTheContract` | the invariants and the contract of the money core, with the engine deciding | also `SettlesAtOnce` |

None of the limits depends on what a provider answers. Limits look at a set of
movements of the past, of which the
engine has only seen those in `Used`; the argument is that the two agree. An
allowed movement has no approval (`ApprovalsWereHeld`), so it went through and stays
so (`AllowedWentThrough`, `AllowedStays`) and is counted by every later ruling
(`AutonomousIsUsed`). A step adds at most one allowed movement
(`OneAdded`), on today's date; the sum with it is what the engine compared
with the limit of the version in force (`SpendStep`, `FrequencyStep`), or a sum
that has not changed keeps its old witness, since a version once written stays
(`VersionsStay`). `DayFits` and `MonthFits` tie `createdOn` to the two windows
of `usage.py`. `NewPayeesWereConfirmed` looks at the payee's status now while the
ruling looked at it then: `CounterpartiesStay` says that no counterparty becomes
unverified again. `GateInv`, the conjunction of these, is inductive.

For every document, action and agent (`SequentialProofs`): `OnlyTightens`
(`RulingOnlyTightens`) and `AmountNeverDenies` (`DenialsAreCategorical`). The
argument: severity grows with the sets of rules that hit (`MoreHitsAreMoreSevere`),
and each kind of step only adds to them (`DocumentStep`, `DemandStep`,
`StandingStep`).

For any number of requests, credentials and connections (`OverlappingProofs`,
from `PoolIsNotEmpty` alone):

| theorem | says |
|---|---|
| `RevokedIsStopped` | `[]RevocationStops` |
| `SuspendedIsStopped` | `[]SuspensionStops` |
| `DeniedIsRecorded` | `[]DenialsAreRecorded` |

The inductive invariant `AccessInv` adds to the three what makes them last.
`LateOnesAreStopped`: a request that is too late has not got past the read of its
credential, and the credential stays unusable, for which `TokensAreIssued` is
needed (an unissued credential could still become usable). `FrozenOnesAreStopped`:
a request the suspension came in time for either still has its look at the agent
before it, or has seen "suspended" and is ruled on. `AnswersAreFinal`: an effect is
told as one, so a caller who is told "denied" has none.

For any number of writers and readers of a policy, and for any number of rows and
every size of page (`OverlappingProofs`; writers are finite in number and no readers,
ids are numbers, a page holds a row, and "no cursor" is no id):

| theorem | says |
|---|---|
| `HistoryIsUnbroken` | `[]VersionsAreDistinct` |
| `NoRowIsMissed` | `[]WalksAreComplete` |
| `OverlappingTypeCorrect` | `[]OverlappingTypeOK` |

The unique constraint only excludes two rows of one version. That there is no gap
either and that the newest is in force needs `BasesAreOld`: a writer that has flushed
has read the version in force, because nobody else can have committed since, and
there is one such writer at most. `RulingsAreCurrent` carries what a
reader has found. For the lists, `GivenDownToTheCursor` says that nothing below the
cursor has been given and all that was on the list all the time above it has; the
lemmas from `SomethingIsLeast` to `PageOf` show for every set of ids that a page,
cut from one row more than it shows, is a stretch of the list without holes. Where
`Pages` chooses the largest id they use that < is well-founded on the naturals.

For all sets of owners, agents, rows and scopes and any number of changes
(`TenancyProofs`, from the ASSUMEs that ids are distinct and what exists from the
start has an owner):

| theorem | says |
|---|---|
| `RowsStayInTenant` | `[]ReferencesStayInTenant` |
| `NobodyChangesAStrangersRow` | `ChangesStayInTenant` |
| `BoxIsTheOwners` | `AgentsStayInTheBox` |

The inductive invariant `TenancyInv` says in addition that what a row names exists
and that approvals belong to existing rows: rows are never deleted but for endpoints,
which nothing refers to, and no operation restamps owner or agent. The proof has
one lemma per group of operations, two for steps that add a row or change a
status, and `ToolIsRequest`: a tool does what a route can do, so nothing
is proved twice. The second theorem needs the invariant where a lookup does not tell:
a decision finds the approval and changes the payee it is about, a cancellation finds the
payment and changes its approval; `ApprovalsFit` ties the two together. The third
follows from the six operations that are left without the owner's key.

For any number of overlapping transactions and payments (`ConcurrentRequestsProofs`;
the ASSUMEs say that payments are finite in number and that an amount is at most
the opening balance, so that `Value` counts every unit of it):

| theorem | says |
|---|---|
| `OverlapKeepsTypes` | `[]ConcurrentTypeOK` |
| `NoOrphanedHold` | `[]HeldTogether` |
| `DerivesUntilOverwritten` | `[]DerivesUnlessOverwritten` |
| `ExactUntilRaced` | `[]ExactUnlessRaced` |
| `UnracedIsSerial` | as long as `raced` is empty, each commit is a step of `HeldFunds` and no other step shows |

The first three need no more than types: a commit writes `status` and `approval`
together, and moves columns and ledger by the same amount unless `raced` notes that
it did not. The fourth is about sums over payments and needs `WorksFit`: a payment
under creation has one transaction that knows it, is in no row yet, and was found
covered when the balance was read. Without it two transactions could create one row,
or a commit could subtract what was never there. The invariant is
`ConcurrentTypeOK /\ HeldTogether /\ WorksFit /\ ExactUnlessRaced`; `Value` is split by
the payment that is committed, as in `MoneyMovementProofs`.

The last one relates the two models of the money core. Overlapping transactions
are serial until the first race: a commit does what one
request of the contract does, in the state it finds at the commit and not in the one
it has read. A create was compared with the balance it read, so this needs
`SeenIsCurrent`; a decision finds its payment still on hold by `HeldTogether`. The
opening balance is a deposit made before, and the accounts that are paid are one.
Without the condition on `raced` it is false, which finding 2 shows from outside.

For any number of calls, keys and bodies (`IdempotencyProofs`, from
`NothingIsNoCall`, that the mark of an absent value is not a value):

| theorem | says |
|---|---|
| `KeysTypeCorrect` | `[]KeysTypeOK` |
| `WaitingRetriesHaveOneEffect` | `[]OneEffectUnlessRaced` |
| `ReplaysAreTrue` | `[]RecordsAreTrue` |
| `AuditRowsAreTrue` | `[]AuditIsTrue` |
| `NoRecordIsLost` | `RecordsAreKept` |

The inductive invariant `KeysInv` has four parts beside the type and the goal.
`CallsFit`: where a call is, how it ended and whether it is committed agree.
`RecordsFit`: a record is of a call that is over. `FoundFit`: the record that a call
has found overage is overage as long as it is there, which is why its late DELETE
takes away no fresh record. `UndisturbedFit`: on an undisturbed key one call is under
way at most, and there is no other effect and no usable record while it runs.

For all rates, amounts, quotes and payments (`QuotedPaymentsProofs`, from the
ASSUMEs that rates are fractions above zero, a stored unit has a part and a cent a
stored unit, and the marks of absence are no values):

| theorem | says |
|---|---|
| `RepricingIsRecorded` | `[]BothAmountsAreRecorded` |
| `LiveQuotesAreFirm` | `QuotesAreFirm` |
| `RoundingIsBounded` | `[]RepricedWithinRounding` |

The inductive invariant `QuotesInv` adds to the type what a payment keeps of its
quote (`PaymentsFollowQuotes`): the quote exists, and a held payment still promises
the quote's amount. The third theorem needs in addition that a quote's amounts are
what the router's rate gives for some amount in one direction or the other
(`PricesAreRouted`), the amount asked for, of which the row has kept a rounded one. Its
arithmetic: `HalfUpBounds`, that rounding half up moves a fraction by half a
unit at most; `PriceInCents`, that a price is so many whole cents and its row keeps it
as it is; `PricedAndRepriced` for a quote of an amount at home, priced from what was
asked and priced again from what was stored; `ThereAndBack` for one of an amount there.
`AmountsAreShort` is not used by the proof: it is what makes `Route` true of Decimal.

For amounts of any length (`SequentialProofs`, from the ASSUMEs that a unit has a
part, half of it is a multiple of every grain, bounds are naturals and movements are
finite in number): `DriftIsKnown` (`[]DriftIsBounded`). Decimal's rounding is harmless unless it
lands on the half: `StoredOfKept` says that what is stored of a rounded sum is
what is stored of the exact one, or one unit more if a half lies within half a grain above
it. With `StoredOfSum` and `StoredOfRest`, the column's part, this gives `GainOfSum`
and `GainOfRest`: what comes in or goes out may leave one unit more in the column than in
the entry, what goes out in a tie does, and else only an amount as close to the half as the
grain of its sum. `GrainGrows` replaces that grain by the one of the largest sum the
request computes, which the history variable looks at. `OnHoldWith` adds up
`pending_out`. The inductive invariant `RoundingInv` says besides that only what was moved is on hold, and that no hold
exceeds the largest amount, so that each unit of it is counted.
`SequentialTypeCorrect` (`[]SequentialTypeOK`) puts the four components
together; that rounding never makes `available` negative is part of it.

**Model-checked only.** Liveness: `HoldsEnd`, `RequestsEnd` and the promise of
`KeepsContract` that holds are resolved; the prover has no rule for fairness. Every
invariant and every action property that a passing run checks is
also a theorem. That `BalanceDerives` holds whatever a provider answers is
`LedgerInvariant`; the run checks it for the sandbox. Theorems are about the
specification of their own component; the runs `overlapping` and `sequential` check
the same formulas of the components side by side, which the two lemmas named in
section 3 reduce to it.

## 6. Plan

The modules of section 2 are complete as far as section 7 says, and the invariants of
the runs are proved. What would say more:

1. Which of the properties that need `SettlesAtOnce` hold in part for a provider that
   settles later (finding 1 breaks them as they stand).
2. Overlap under limits: by how much overlapping payments can exceed a daily
   limit (finding 3), as a bound in the number of transactions.

## 7. Not modelled

- Serialization, validation of single fields, headers, error wording: no property is
  about them. `schemas/` enters where a field limits what a request can ask.
- Getters, resources and the prompt of the tool server: they change nothing and
  return what the lookups of `Tenancy` reach.
- Owner profile: read only; its verification status is a constant of `PolicyGate`.
- The activity log, except the `policy.evaluation` events and the feed as a list: other
  events are written with the row they are about, in its transaction, and read by
  nothing else.
- Webhook deliveries: this commit has none. Routing fees: recorded, never charged.
- State of the card issuer: the sandbox keeps none; its reference of a card depends on
  agent and label only, so two cards with one label share it.
- A batch of expiries that fails every time (`approvals.py:188`): a failing run rolls
  back as a whole and is no step; `HoldsEnd` is about a worker whose later runs
  succeed.
- A commit whose outcome the session does not learn: in `Idempotency` a call that dies
  is committed or not, and `Die` before the commit means it is not. The sessions of
  the idempotency middleware are not in the pool of `AgentAccess`: they are opened
  and closed before the request's own and after it.
- The currency of a payment on a quote: `PolicyGate` rules every payment in the currency of
  the counterparty's account, the code in the payment's destination currency
  (`payments.py:126`), which is the same unless a quote names another.
- Lazy creation of balance rows (`ledger.py:60`): rows exist from the start. The loser
  of the insert fails on the unique constraint, which is a rollback.
- Migrations: generated. Statuses no code sets (`failed`, `returned`, `terminated`) do not
  occur. The currency breakdown of a balance is left out; a limit's own currency is
  ignored by the engine (`engine.py:80`) and so here.
- A page size of 0, which the tools let through and the routes do not: the list says
  that there is more and has no cursor.
- The split of connections between processes: one pool is one process.
