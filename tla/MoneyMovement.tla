--------------------------- MODULE MoneyMovement ---------------------------
(***************************************************************************)
(* The money of one owner account: the ledger, the materialized balances,  *)
(* payments, transfers, counterparties and the approvals that hold them.   *)
(*                                                                         *)
(* Every action is one request handler (or one run of the worker task)     *)
(* executed as one database transaction, from its first read to its        *)
(* commit; a request that is refused rolls back and is not a step, except  *)
(* a policy denial, whose evaluation record is committed on its own.       *)
(* Transactions that overlap are the subject of ConcurrentRequests.        *)
(*                                                                         *)
(* What the policy engine decides is an input here (module PolicyEngine    *)
(* says which decision it is).  Definitions marked "Fault" are wrong on    *)
(* purpose: each is a slip the code could have made, and shows that a      *)
(* property notices it.  No action uses them.                              *)
(***************************************************************************)
EXTENDS Integers, FiniteSets

CONSTANTS
    Agents,          \* agents of the owner, the holders of agent balances
    Treasury,        \* the owner as a balance holder
    Payments,        \* ids a created payment row may get
    Transfers,       \* ids a created transfer row may get
    Counterparties,  \* ids a created counterparty row may get
    MaxAmount,       \* bound: largest amount of one movement, in minor units
    MaxFunding,      \* bound: most that is ever credited from outside
    DispatchResults  \* what the routing provider may answer to a dispatch

Settlement == "settlement"
Funding == "funding"
SystemAccounts == {Settlement, Funding}
Holders == Agents \cup {Treasury}
Accounts == Holders \cup SystemAccounts
Movements == Payments \cup Transfers
Subjects == Movements \cup Counterparties
Amounts == 1 .. MaxAmount

\* Holders are not system accounts, and an id names one kind of row.
ASSUME NamesAreDistinct ==
    /\ Holders \cap SystemAccounts = {}
    /\ Treasury \notin Agents
    /\ Payments \cap Transfers = {}
    /\ Movements \cap Counterparties = {}

\* Only finitely many ids are ever drawn, so sums of rows are finite.
ASSUME FinitelyManyMovements == IsFiniteSet(Movements)

ASSUME BoundsAreNaturals == MaxAmount \in Nat /\ MaxFunding \in Nat

\* DispatchResult.status, providers/base.py.
ASSUME DispatchAnswers ==
    DispatchResults \subseteq {"completed", "processing", "failed"}

\* The answer of the sandbox, the only provider there is (providers/sandbox.py).
\* What depends on it says so.
SettlesAtOnce == DispatchResults \subseteq {"completed"}

VARIABLES
    net,           \* account -> credits minus debits of its ledger entries
    available,     \* holder  -> balances.available
    pendingOut,    \* holder  -> balances.pending_out
    status,        \* movement -> status of its row, "none" before the insert
    source,        \* movement -> the holder it is paid from
    destination,   \* movement -> the account its journal credits
    amount,        \* movement -> its amount in the owner's currency
    counterparty,  \* counterparty -> status of its row, "none" before
    evaluation,    \* subject -> outcome of its policy.evaluation event
    approval,      \* subject -> status of the approval raised on it
    overdue        \* subjects whose approval's expires_at has passed

ledgerVars == <<net, available, pendingOut>>
rowVars == <<status, source, destination, amount>>
approvalVars == <<approval, overdue>>
vars == <<net, available, pendingOut, status, source, destination, amount,
          counterparty, evaluation, approval, overdue>>

MovementStatus ==
    {"none", "pending_approval", "processing", "completed", "cancelled"}
CounterpartyStatus == {"none", "unverified", "verified", "blocked"}
ApprovalStatus == {"none", "pending", "approved", "rejected", "expired"}
Evaluations == {"none", "allow", "hold", "deny"}

TypeOK ==
    /\ net \in [Accounts -> Int]
    /\ available \in [Holders -> Int]
    /\ pendingOut \in [Holders -> Int]
    /\ status \in [Movements -> MovementStatus]
    /\ source \in [Movements -> Holders]
    /\ destination \in [Movements -> Accounts]
    /\ amount \in [Movements -> 0 .. MaxAmount]
    /\ counterparty \in [Counterparties -> CounterpartyStatus]
    /\ evaluation \in [Subjects -> Evaluations]
    /\ approval \in [Subjects -> ApprovalStatus]
    /\ overdue \in SUBSET Subjects

Init ==
    /\ net = [a \in Accounts |-> 0]
    /\ available = [h \in Holders |-> 0]
    /\ pendingOut = [h \in Holders |-> 0]
    /\ status = [m \in Movements |-> "none"]
    /\ source = [m \in Movements |-> Treasury]
    /\ destination = [m \in Movements |-> Settlement]
    /\ amount = [m \in Movements |-> 0]
    /\ counterparty = [c \in Counterparties |-> "none"]
    /\ evaluation = [s \in Subjects |-> "none"]
    /\ approval = [s \in Subjects |-> "none"]
    /\ overdue = {}

----------------------------------------------------------------------------
(***************************************************************************)
(* Sums.  The value of a set of movements is the sum of their amounts,     *)
(* counted as its units: one pair per movement and minor unit.  Written as *)
(* a cardinality, it needs no recursion.                                   *)
(***************************************************************************)
Units(S, amt) == {u \in S \X Amounts : u[2] <= amt[u[1]]}
Value(S) == Cardinality(Units(S, amount))

HeldFrom(h) == {m \in Movements : status[m] = "pending_approval" /\ source[m] = h}
Executed(m) == status[m] \in {"processing", "completed"}

----------------------------------------------------------------------------
(***************************************************************************)
(* services/ledger.py: the primitives that move funds.                     *)
(***************************************************************************)
PostJournal(debited, credited, a) ==
    net' = [net EXCEPT ![debited] = @ - a, ![credited] = @ + a]

\* Fault: funds on hold still count as spendable.
EnsureOwned(h, a) == available[h] + pendingOut[h] >= a

EnsureAvailable(h, a) == available[h] >= a

Reserve(h, a) ==
    /\ EnsureAvailable(h, a)
    /\ available' = [available EXCEPT ![h] = @ - a]
    /\ pendingOut' = [pendingOut EXCEPT ![h] = @ + a]

\* Fault: the release gives the money back but keeps it on hold.
ReleaseTwiceCounted(h, a) ==
    /\ available' = [available EXCEPT ![h] = @ + a]
    /\ UNCHANGED pendingOut

ReleaseReservation(h, a) ==
    /\ pendingOut' = [pendingOut EXCEPT ![h] = @ - a]
    /\ available' = [available EXCEPT ![h] = @ + a]

\* Fault: an approved payment is taken from the available column.
PayOutOfAvailable(h, a, fromReservation) ==
    /\ available' = [available EXCEPT ![h] = @ - a]
    /\ UNCHANGED pendingOut
    /\ PostJournal(h, Settlement, a)

\* Fault: the journal was posted, or so it is thought, when the hold was made.
PayOutUnposted(h, a, fromReservation) ==
    \/ /\ fromReservation
       /\ pendingOut' = [pendingOut EXCEPT ![h] = @ - a]
       /\ UNCHANGED <<net, available>>
    \/ /\ ~fromReservation
       /\ EnsureAvailable(h, a)
       /\ available' = [available EXCEPT ![h] = @ - a]
       /\ UNCHANGED pendingOut
       /\ PostJournal(h, Settlement, a)

PayOut(h, a, fromReservation) ==
    /\ \/ /\ fromReservation
          /\ pendingOut' = [pendingOut EXCEPT ![h] = @ - a]
          /\ UNCHANGED available
       \/ /\ ~fromReservation
          /\ EnsureAvailable(h, a)
          /\ available' = [available EXCEPT ![h] = @ - a]
          /\ UNCHANGED pendingOut
    /\ PostJournal(h, Settlement, a)

InternalTransfer(src, dst, a, fromReservation) ==
    /\ \/ /\ fromReservation
          /\ pendingOut' = [pendingOut EXCEPT ![src] = @ - a]
          /\ available' = [available EXCEPT ![dst] = @ + a]
       \/ /\ ~fromReservation
          /\ EnsureAvailable(src, a)
          /\ available' = [available EXCEPT ![src] = @ - a, ![dst] = @ + a]
          /\ UNCHANGED pendingOut
    /\ PostJournal(src, dst, a)

\* Money enters the account (sandbox top-up, inbound credit).
Fund(h, a) ==
    /\ a - net[Funding] <= MaxFunding
    /\ PostJournal(Funding, h, a)
    /\ available' = [available EXCEPT ![h] = @ + a]
    /\ UNCHANGED <<pendingOut, status, source, destination, amount,
                   counterparty, evaluation, approval, overdue>>

----------------------------------------------------------------------------
(***************************************************************************)
(* services/payments.py and services/transfers.py                          *)
(***************************************************************************)
InsertMovement(m, st, src, dst, a) ==
    /\ status[m] = "none"
    /\ status' = [status EXCEPT ![m] = st]
    /\ source' = [source EXCEPT ![m] = src]
    /\ destination' = [destination EXCEPT ![m] = dst]
    /\ amount' = [amount EXCEPT ![m] = a]

\* The policy.evaluation event of the request that was given id s; an owner
\* key is not evaluated, so the request records nothing.
RecordEvaluation(s, outcome) ==
    /\ evaluation[s] = "none"
    /\ evaluation' = [evaluation EXCEPT ![s] = outcome]

RaiseApproval(s) == approval' = [approval EXCEPT ![s] = "pending"]

\* Only an answer that settles the payment at once is noted in its status.
StatusAfterDispatch(st, result) == IF result = "completed" THEN "completed" ELSE st

\* POST /payments that goes through: by the owner key (not evaluated) or by
\* an agent whose policy allows it.  The journal is posted, then dispatched.
CreatePayment(m, src, a, outcome, result) ==
    /\ outcome \in {"none", "allow"}
    /\ RecordEvaluation(m, outcome)
    /\ InsertMovement(m, StatusAfterDispatch("processing", result), src, Settlement, a)
    /\ PayOut(src, a, FALSE)
    /\ UNCHANGED <<counterparty, approval, overdue>>

\* POST /payments held by a policy rule: funds are reserved, no journal.
HoldPayment(m, src, a) ==
    /\ RecordEvaluation(m, "hold")
    /\ InsertMovement(m, "pending_approval", src, Settlement, a)
    /\ Reserve(src, a)
    /\ RaiseApproval(m)
    /\ UNCHANGED <<net, counterparty, overdue>>

\* POST /transfers that goes through.  The owner key moves money between any
\* two holders; an agent key only out of its own balance, and the tenant check
\* on the destination lets it name no other holder than the treasury.
CreateTransfer(m, src, dst, a, outcome) ==
    /\ src # dst
    /\ \/ outcome = "none"
       \/ outcome = "allow" /\ src \in Agents /\ dst = Treasury
    /\ RecordEvaluation(m, outcome)
    /\ InsertMovement(m, "completed", src, dst, a)
    /\ InternalTransfer(src, dst, a, FALSE)
    /\ UNCHANGED <<counterparty, approval, overdue>>

\* POST /transfers of an agent, held by a policy rule.
HoldTransfer(m, src, a) ==
    /\ RecordEvaluation(m, "hold")
    /\ InsertMovement(m, "pending_approval", src, Treasury, a)
    /\ Reserve(src, a)
    /\ RaiseApproval(m)
    /\ UNCHANGED <<net, counterparty, overdue>>

\* A denied request rolls back; its evaluation record survives it.  Funds are
\* checked before the policy is, so a request without cover leaves no record.
DenyMovement(m, src, a) ==
    /\ status[m] = "none"
    /\ EnsureAvailable(src, a)
    /\ RecordEvaluation(m, "deny")
    /\ UNCHANGED <<net, available, pendingOut, status, source, destination,
                   amount, counterparty, approval, overdue>>

\* Fault: cancelling forgets the approval.
CancelRowOnly(m) ==
    /\ status[m] = "pending_approval"
    /\ ReleaseReservation(source[m], amount[m])
    /\ status' = [status EXCEPT ![m] = "cancelled"]
    /\ UNCHANGED <<net, source, destination, amount, counterparty, evaluation,
                   approval, overdue>>

\* POST /payments/{id}/cancel: only while held; a pending approval expires.
CancelPayment(m) ==
    /\ status[m] = "pending_approval"
    /\ ReleaseReservation(source[m], amount[m])
    /\ status' = [status EXCEPT ![m] = "cancelled"]
    /\ approval' = [approval EXCEPT ![m] = IF @ = "pending" THEN "expired" ELSE @]
    /\ UNCHANGED <<net, source, destination, amount, counterparty, evaluation,
                   overdue>>

----------------------------------------------------------------------------
(***************************************************************************)
(* services/counterparties.py                                              *)
(***************************************************************************)

\* POST /counterparties, not denied.  A held creation still creates the row,
\* and raises an approval on it; no money is involved.
CreateCounterparty(c, outcome) ==
    /\ counterparty[c] = "none"
    /\ RecordEvaluation(c, outcome)
    /\ counterparty' = [counterparty EXCEPT ![c] = "unverified"]
    /\ \/ outcome = "hold" /\ RaiseApproval(c)
       \/ outcome # "hold" /\ UNCHANGED approval
    /\ UNCHANGED <<net, available, pendingOut, status, source, destination,
                   amount, overdue>>

DenyCounterparty(c) ==
    /\ counterparty[c] = "none"
    /\ RecordEvaluation(c, "deny")
    /\ UNCHANGED <<net, available, pendingOut, status, source, destination,
                   amount, counterparty, approval, overdue>>

\* The owner confirms a counterparty, whatever its status was.
VerifyCounterparty(c) ==
    /\ counterparty[c] # "none"
    /\ counterparty' = [counterparty EXCEPT ![c] = "verified"]
    /\ UNCHANGED <<net, available, pendingOut, status, source, destination,
                   amount, evaluation, approval, overdue>>

----------------------------------------------------------------------------
(***************************************************************************)
(* services/approvals.py                                                   *)
(***************************************************************************)
\* Fault: the handlers look at the expiry but not at the status.
RequireRaised(s) == approval[s] # "none" /\ s \notin overdue

\* Fault: the handlers look at the status but not at the expiry.
RequireUndecided(s) == approval[s] = "pending"

RequirePending(s) == approval[s] = "pending" /\ s \notin overdue

Decide(s, outcome) == approval' = [approval EXCEPT ![s] = outcome]

\* Approving a payment consumes the reservation and dispatches; a stale quote
\* is repriced, which changes the destination amount only.  The row leaves
\* "pending_approval" only if the dispatch settles at once.
ApprovePayment(m, result) ==
    /\ RequirePending(m)
    /\ PayOut(source[m], amount[m], TRUE)
    /\ status' = [status EXCEPT ![m] = StatusAfterDispatch(@, result)]
    /\ Decide(m, "approved")
    /\ UNCHANGED <<source, destination, amount, counterparty, evaluation, overdue>>

ApproveTransfer(m) ==
    /\ RequirePending(m)
    /\ InternalTransfer(source[m], destination[m], amount[m], TRUE)
    /\ status' = [status EXCEPT ![m] = "completed"]
    /\ Decide(m, "approved")
    /\ UNCHANGED <<source, destination, amount, counterparty, evaluation, overdue>>

ApproveCounterparty(c) ==
    /\ RequirePending(c)
    /\ counterparty' = [counterparty EXCEPT ![c] = "verified"]
    /\ Decide(c, "approved")
    /\ UNCHANGED <<net, available, pendingOut, status, source, destination,
                   amount, evaluation, overdue>>

\* Fault: the row gets the status of its approval.
RejectByName(m) ==
    /\ RequirePending(m)
    /\ ReleaseReservation(source[m], amount[m])
    /\ status' = [status EXCEPT ![m] = "rejected"]
    /\ Decide(m, "rejected")
    /\ UNCHANGED <<net, source, destination, amount, counterparty, evaluation,
                   overdue>>

RejectMovement(m) ==
    /\ RequirePending(m)
    /\ ReleaseReservation(source[m], amount[m])
    /\ status' = [status EXCEPT ![m] = "cancelled"]
    /\ Decide(m, "rejected")
    /\ UNCHANGED <<net, source, destination, amount, counterparty, evaluation,
                   overdue>>

RejectCounterparty(c) ==
    /\ RequirePending(c)
    /\ counterparty' = [counterparty EXCEPT ![c] = "blocked"]
    /\ Decide(c, "rejected")
    /\ UNCHANGED <<net, available, pendingOut, status, source, destination,
                   amount, evaluation, overdue>>

\* Fault: the worker only finds approvals of transfers.
StaleTransfers == {s \in Transfers : approval[s] = "pending" /\ s \in overdue}

\* One run of the worker task, one transaction for the whole batch: every
\* pending approval past its expiry expires, and what it held is released.  An
\* expired counterparty approval leaves the counterparty as it is.
Stale == {s \in Subjects : approval[s] = "pending" /\ s \in overdue}

ExpireStale ==
    LET released(h) == Value({m \in Stale \cap Movements : source[m] = h})
    IN  /\ Stale # {}
        /\ pendingOut' = [h \in Holders |-> pendingOut[h] - released(h)]
        /\ available' = [h \in Holders |-> available[h] + released(h)]
        /\ status' = [m \in Movements |->
                        IF m \in Stale THEN "cancelled" ELSE status[m]]
        /\ approval' = [s \in Subjects |->
                          IF s \in Stale THEN "expired" ELSE approval[s]]
        /\ UNCHANGED <<net, source, destination, amount, counterparty,
                       evaluation, overdue>>

\* The clock reaches expires_at.  Expiry hours differ from policy to policy,
\* so approvals may fall due in any order.
FallDue(s) ==
    /\ approval[s] = "pending"
    /\ s \notin overdue
    /\ overdue' = overdue \cup {s}
    /\ UNCHANGED <<net, available, pendingOut, status, source, destination,
                   amount, counterparty, evaluation, approval>>

----------------------------------------------------------------------------
Next ==
    \/ \E h \in Holders, a \in Amounts : Fund(h, a)
    \/ \E m \in Payments, src \in Agents, a \in Amounts, o \in {"none", "allow"},
          r \in DispatchResults : CreatePayment(m, src, a, o, r)
    \/ \E m \in Payments, src \in Agents, a \in Amounts : HoldPayment(m, src, a)
    \/ \E m \in Transfers, src, dst \in Holders, a \in Amounts,
          o \in {"none", "allow"} : CreateTransfer(m, src, dst, a, o)
    \/ \E m \in Transfers, src \in Agents, a \in Amounts : HoldTransfer(m, src, a)
    \/ \E m \in Movements, src \in Agents, a \in Amounts : DenyMovement(m, src, a)
    \/ \E m \in Payments : CancelPayment(m)
    \/ \E c \in Counterparties, o \in {"none", "allow", "hold"} :
          CreateCounterparty(c, o)
    \/ \E c \in Counterparties : DenyCounterparty(c)
    \/ \E c \in Counterparties : VerifyCounterparty(c)
    \/ \E m \in Payments, r \in DispatchResults : ApprovePayment(m, r)
    \/ \E m \in Transfers : ApproveTransfer(m)
    \/ \E c \in Counterparties : ApproveCounterparty(c)
    \/ \E m \in Movements : RejectMovement(m)
    \/ \E c \in Counterparties : RejectCounterparty(c)
    \/ ExpireStale
    \/ \E s \in Subjects : FallDue(s)

\* Celery beat starts the worker task every minute, and time passes.
Fairness == WF_vars(ExpireStale) /\ \A s \in Subjects : WF_vars(FallDue(s))

Spec == Init /\ [][Next]_vars /\ Fairness

----------------------------------------------------------------------------
(***************************************************************************)
(* Properties.                                                             *)
(***************************************************************************)

\* The invariant services/ledger.py states for every code path: what a holder
\* may spend is what its ledger entries say it owns, less what is on hold.
BalanceDerives ==
    \A h \in Holders : available[h] = net[h] - pendingOut[h]

\* balances.pending_out is exactly the sum of the movements that wait for the
\* owner: no path releases or consumes a hold twice, forgets one, or releases
\* an amount other than the one that was reserved.
PendingOutIsHeld ==
    \A h \in Holders : pendingOut[h] = Value(HeldFrom(h))

\* No holder ever spends or holds what it does not have.
Solvent ==
    \A h \in Holders : available[h] >= 0 /\ pendingOut[h] >= 0

\* What left the account is what payments that went through say: each of them
\* posted its journal once, and a payment that is held, cancelled or denied
\* posted none.
SettlementIsPaid ==
    net[Settlement] = Value({m \in Payments : Executed(m)})

\* A row and the approval raised on it agree: held as long as the approval is
\* pending, executed if approved, cancelled if rejected or expired.  Whatever
\* never needed an approval went through at once.
ApprovalMatchesRow ==
    \A m \in Movements :
        /\ approval[m] = "pending" <=> status[m] = "pending_approval"
        /\ approval[m] = "approved" => Executed(m)
        /\ approval[m] \in {"rejected", "expired"} <=> status[m] = "cancelled"
        /\ approval[m] # "none" <=> evaluation[m] = "hold"

\* A decision is final: once an approval is decided, neither it nor the row it
\* held ever changes again, whatever cancel, approve, reject or worker run
\* comes later.
DecisionsAreFinal ==
    [][\A m \in Movements :
          approval[m] \in {"approved", "rejected", "expired"} =>
              approval'[m] = approval[m] /\ status'[m] = status[m]]_vars

\* The API promises that a payment that was dispatched cannot be cancelled any
\* more: approving a payment dispatches it.
DispatchedIsNotCancelled ==
    [][\A m \in Payments :
          approval[m] = "approved" => status'[m] # "cancelled"]_vars

\* From its expiry on an approval can only end by expiring: the owner can no
\* longer release the money, even before the worker has noticed.
OverdueOnlyExpires ==
    [][\A m \in Movements :
          m \in overdue /\ status[m] = "pending_approval" =>
              \/ status'[m] = "pending_approval"
              \/ status'[m] = "cancelled" /\ approval'[m] = "expired"]_vars

\* Held money does not stay held: whether or not anybody decides, the worker
\* gives every hold an end.
HoldsEnd ==
    \A m \in Movements :
        status[m] = "pending_approval" ~> status[m] # "pending_approval"

----------------------------------------------------------------------------
(***************************************************************************)
(* The contract.  Rows are seen through their stage; balance columns and   *)
(* approvals are hidden.                                                   *)
(***************************************************************************)
StageOf(st) ==
    CASE st = "none" -> "open"
      [] st = "pending_approval" -> "held"
      [] st = "cancelled" -> "void"
      [] OTHER -> "done"

Contract == INSTANCE HeldFunds
    WITH owned <- net,
         stage <- [m \in Movements |-> StageOf(status[m])],
         from <- source,
         to <- destination,
         value <- amount

\* The handlers keep the contract of HeldFunds: the column checks in the code
\* (available < amount) really cover what a holder owns less what it has on
\* hold, each movement is paid once, and every hold ends.
KeepsContract == Contract!Spec

=============================================================================
