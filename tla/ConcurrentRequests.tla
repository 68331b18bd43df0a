------------------------- MODULE ConcurrentRequests -------------------------
(***************************************************************************)
(* Overlapping requests about the payments of one agent.                   *)
(*                                                                         *)
(* A request is one database transaction at READ COMMITTED: it reads rows  *)
(* one SELECT at a time, each as last committed, computes with what it     *)
(* read, and writes when its session is flushed.  SQLAlchemy keeps the     *)
(* values of the first read of a row and, for a changed column, writes the *)
(* absolute value that was computed; no row is read FOR UPDATE and none    *)
(* has a version.  A handler's UPDATEs lock the rows they touch until the  *)
(* commit, and all of them touch the agent's balance row, so that writes   *)
(* take place one transaction at a time: they are one step, CommitWork.    *)
(*                                                                         *)
(* Definitions marked "Fault" are wrong on purpose, as in MoneyMovement.   *)
(***************************************************************************)
EXTENDS Integers, FiniteSets

CONSTANTS
    Transactions, \* transactions that may be in flight at the same time
    Payments,     \* ids of payment rows
    amount,       \* payment -> its amount
    Opening,      \* what the agent was funded with
    DailyLimit,   \* the agent's policy: a daily limit and nothing else
    None

ASSUME AmountsArePositive ==
    /\ amount \in [Payments -> 1 .. Opening]  \* so that Value counts every unit
    /\ Opening \in Nat /\ DailyLimit \in Nat
ASSUME FinitelyManyPayments == IsFiniteSet(Payments)

VARIABLES
    available,   \* balances.available, as committed
    pendingOut,  \* balances.pending_out, as committed
    net,         \* the agent's committed ledger entries, credits minus debits
    status,      \* payment -> status of its row
    approval,    \* payment -> status of the approval raised on it
    allowed,     \* payments the policy let through
    overdue,     \* payments whose approval has expired
    work,        \* transaction -> what it is doing, None if it is free
    seen,        \* transaction -> the balance row it read
    raced        \* history: what a commit has overwritten unseen

rowVars == <<available, pendingOut, net, status, approval, allowed>>
concurrentVars == <<rowVars, overdue, work, seen, raced>>

Decided == {"approved", "rejected", "expired"}
Balances == [available : Int, pendingOut : Int]
Kinds == {"create", "ownerPay", "pay", "hold", "approve", "reject", "cancel", "expire"}

\* A transaction works on a set of payments; all but the worker's on one.
Works == [kind : Kinds, on : SUBSET Payments, hasRead : BOOLEAN]
ASSUME NoneIsNoWork == None \notin Works

ConcurrentTypeOK ==
    /\ available \in Int /\ pendingOut \in Int /\ net \in Int
    /\ status \in [Payments -> {"none", "pending_approval", "completed", "cancelled"}]
    /\ approval \in [Payments -> {"none", "pending"} \cup Decided]
    /\ allowed \in SUBSET Payments
    /\ overdue \in SUBSET Payments
    /\ work \in [Transactions -> Works \cup {None}]
    /\ seen \in [Transactions -> Balances]
    /\ raced \in SUBSET {"column", "decision"}

ConcurrentInit ==
    /\ available = Opening /\ pendingOut = 0 /\ net = Opening
    /\ status = [m \in Payments |-> "none"]
    /\ approval = [m \in Payments |-> "none"]
    /\ allowed = {} /\ overdue = {}
    /\ work = [r \in Transactions |-> None]
    /\ seen = [r \in Transactions |-> [available |-> 0, pendingOut |-> 0]]
    /\ raced = {}

\* The sum of the amounts of a set of payments, counted unit by unit.
Value(S) == Cardinality({u \in S \X (1 .. Opening) : u[2] <= amount[u[1]]})

\* services/usage.py: everything held or done today counts.
Spent == Value({m \in Payments : status[m] \in {"pending_approval", "completed"}})

----------------------------------------------------------------------------
(***************************************************************************)
(* Reading.                                                                *)
(***************************************************************************)
Begin(r, kind, S) ==
    /\ work[r] = None
    /\ work' = [work EXCEPT ![r] = [kind |-> kind, on |-> S, hasRead |-> FALSE]]
    /\ UNCHANGED <<rowVars, overdue, seen, raced>>

\* A created payment gets an id of its own.
BeginCreate(r, m) ==
    /\ status[m] = "none"
    /\ \A q \in Transactions : work[q] # None => m \notin work[q].on
    /\ Begin(r, "create", {m})

\* approve and reject read the approval and look at its status and expiry.
BeginDecide(r, m, kind) ==
    /\ approval[m] = "pending" /\ m \notin overdue
    /\ Begin(r, kind, {m})

\* cancel_payment reads the payment and looks at its status.
BeginCancel(r, m) ==
    /\ status[m] = "pending_approval"
    /\ Begin(r, "cancel", {m})

\* The worker reads every approval that is pending and past its expiry.
BeginExpire(r) ==
    LET stale == {m \in overdue : approval[m] = "pending"}
    IN  stale # {} /\ Begin(r, "expire", stale)

\* Fault: nobody looks whether the balance covers the payment.
ReadUncovered(r) ==
    /\ work[r] # None /\ ~work[r].hasRead
    /\ seen' = [seen EXCEPT ![r] = [available |-> available, pendingOut |-> pendingOut]]
    /\ work' = [work EXCEPT ![r].hasRead = TRUE]
    /\ UNCHANGED <<rowVars, overdue, raced>>

\* The balance row is read once; a create without cover ends here.
ReadBalance(r) ==
    /\ work[r] # None /\ ~work[r].hasRead
    /\ work[r].kind = "create" => \A m \in work[r].on : available >= amount[m]
    /\ seen' = [seen EXCEPT ![r] = [available |-> available, pendingOut |-> pendingOut]]
    /\ work' = [work EXCEPT ![r].hasRead = TRUE]
    /\ UNCHANGED <<rowVars, overdue, raced>>

\* create_payment, called by the owner or ruled on by the policy engine.
Rule(r, byOwner) ==
    /\ work[r] # None /\ work[r].kind = "create" /\ work[r].hasRead
    /\ LET over == \E m \in work[r].on : Spent + amount[m] > DailyLimit
       IN  work' = [work EXCEPT ![r].kind =
                         IF byOwner THEN "ownerPay" ELSE IF over THEN "hold" ELSE "pay"]
    /\ UNCHANGED <<rowVars, overdue, seen, raced>>

----------------------------------------------------------------------------
(***************************************************************************)
(* Writing.  Only changed columns are written: a payment takes from        *)
(* available, an approval from pending_out, a hold and its release change  *)
(* both.                                                                   *)
(***************************************************************************)
Columns(kind) ==
    CASE kind \in {"ownerPay", "pay"} -> {"available"}
      [] kind = "approve" -> {"pendingOut"}
      [] OTHER -> {"available", "pendingOut"}

\* Fault: the whole row is written, whether a column changed or not.
WriteRow(r, spendable, held) ==
    /\ available' = seen[r].available + spendable
    /\ pendingOut' = seen[r].pendingOut + held

WriteBalance(r, spendable, held) ==
    /\ available' = IF "available" \in Columns(work[r].kind)
                    THEN seen[r].available + spendable ELSE available
    /\ pendingOut' = IF "pendingOut" \in Columns(work[r].kind)
                     THEN seen[r].pendingOut + held ELSE pendingOut

\* What this commit overwrites without having seen it.
Overwrites(r) ==
    {"column" : c \in {x \in Columns(work[r].kind) : seen[r][x] #
        [available |-> available, pendingOut |-> pendingOut][x]}}
    \cup {"decision" : m \in {x \in work[r].on :
            work[r].kind \in {"approve", "reject", "cancel", "expire"}
            /\ approval[x] # "pending"}}

SetRows(r, st, ap) ==
    /\ status' = [m \in Payments |-> IF m \in work[r].on THEN st ELSE status[m]]
    /\ approval' = [m \in Payments |-> IF m \in work[r].on THEN ap ELSE approval[m]]

Finish(r) ==
    /\ raced' = raced \cup Overwrites(r)
    /\ work' = [work EXCEPT ![r] = None]
    /\ UNCHANGED <<overdue, seen>>

Ready(r, kinds) ==
    /\ work[r] # None
    /\ work[r].kind \in kinds
    /\ work[r].hasRead

CommitPay(r) ==
    /\ Ready(r, {"ownerPay", "pay"})
    /\ WriteBalance(r, -Value(work[r].on), 0)
    /\ net' = net - Value(work[r].on)
    /\ SetRows(r, "completed", "none")
    /\ allowed' = IF work[r].kind = "pay" THEN allowed \cup work[r].on ELSE allowed
    /\ Finish(r)

CommitHold(r) ==
    /\ Ready(r, {"hold"})
    /\ WriteBalance(r, -Value(work[r].on), Value(work[r].on))
    /\ SetRows(r, "pending_approval", "pending")
    /\ UNCHANGED <<net, allowed>>
    /\ Finish(r)

CommitApprove(r) ==
    /\ Ready(r, {"approve"})
    /\ WriteBalance(r, 0, -Value(work[r].on))
    /\ net' = net - Value(work[r].on)
    /\ SetRows(r, "completed", "approved")
    /\ UNCHANGED allowed
    /\ Finish(r)

\* reject and the worker release the hold.
CommitRelease(r) ==
    /\ Ready(r, {"reject", "expire"})
    /\ WriteBalance(r, Value(work[r].on), -Value(work[r].on))
    /\ SetRows(r, "cancelled", IF work[r].kind = "reject" THEN "rejected" ELSE "expired")
    /\ UNCHANGED <<net, allowed>>
    /\ Finish(r)

\* Fault: cancelling forgets the approval.
CancelRowOnly(r) ==
    /\ Ready(r, {"cancel"})
    /\ WriteBalance(r, Value(work[r].on), -Value(work[r].on))
    /\ status' = [m \in Payments |->
                    IF m \in work[r].on THEN "cancelled" ELSE status[m]]
    /\ UNCHANGED <<net, allowed, approval>>
    /\ Finish(r)

\* cancel_payment reads the approval after it has locked the balance row, so
\* it sees the approval as it is at the commit.
CommitCancel(r) ==
    /\ Ready(r, {"cancel"})
    /\ WriteBalance(r, Value(work[r].on), -Value(work[r].on))
    /\ status' = [m \in Payments |->
                    IF m \in work[r].on THEN "cancelled" ELSE status[m]]
    /\ approval' = [m \in Payments |->
                      IF m \in work[r].on /\ approval[m] = "pending"
                      THEN "expired" ELSE approval[m]]
    /\ UNCHANGED <<net, allowed>>
    /\ Finish(r)

\* The transaction rolls back: an error, a lost connection, a crash.
Rollback(r) ==
    /\ work[r] # None
    /\ work' = [work EXCEPT ![r] = None]
    /\ UNCHANGED <<rowVars, overdue, seen, raced>>

FallDue(m) ==
    /\ approval[m] = "pending" /\ m \notin overdue
    /\ overdue' = overdue \cup {m}
    /\ UNCHANGED <<rowVars, work, seen, raced>>

CommitWork(r) ==
    CommitPay(r) \/ CommitHold(r) \/ CommitApprove(r) \/ CommitRelease(r) \/ CommitCancel(r)

ConcurrentNext ==
    \/ \E r \in Transactions :
          \/ \E m \in Payments :
                \/ BeginCreate(r, m)
                \/ \E kind \in {"approve", "reject"} : BeginDecide(r, m, kind)
                \/ BeginCancel(r, m)
          \/ BeginExpire(r)
          \/ ReadBalance(r)
          \/ \E byOwner \in BOOLEAN : Rule(r, byOwner)
          \/ CommitWork(r)
          \/ Rollback(r)
    \/ \E m \in Payments : FallDue(m)

ConcurrentSpec == ConcurrentInit /\ [][ConcurrentNext]_concurrentVars

----------------------------------------------------------------------------
(***************************************************************************)
(* What overlapping requests cannot break.                                 *)
(***************************************************************************)

\* Whatever overlaps, an approval waits for the owner exactly as long as its
\* payment does: no race leaves a hold that nobody can decide, or a decision
\* on a payment that is gone.
HeldTogether ==
    \A m \in Payments : approval[m] = "pending" <=> status[m] = "pending_approval"

\* The balance derives from the ledger as long as no commit has overwritten a
\* column that changed after it was read.  In particular a payment and an
\* approval may overlap: they change different columns.
DerivesUnlessOverwritten ==
    "column" \notin raced => available = net - pendingOut

\* Holds are exact, nothing is paid twice and nobody overdraws, as long as, in
\* addition, no commit has replaced a decision it did not see.
ExactUnlessRaced ==
    raced = {} =>
        /\ pendingOut = Value({m \in Payments : status[m] = "pending_approval"})
        /\ net = Opening - Value({m \in Payments : status[m] = "completed"})
        /\ available >= 0

(***************************************************************************)
(* What they do break.                                                     *)
(***************************************************************************)

\* The invariant services/ledger.py says is kept everywhere.
BalanceDerives == available = net - pendingOut

\* The tool catalog: an over-limit payment is held.  What the policy let
\* through stays within the daily limit.
OverLimitIsHeld == Value(allowed) <= DailyLimit

\* Funds are checked for every payment, also the owner's, so what is held and
\* paid together never exceeds what the agent was funded with
\* (ensure_available, insufficient_funds).
PaymentsAreCovered ==
    Value({m \in Payments : status[m] \in {"pending_approval", "completed"}}) <= Opening

\* A second decision is refused (_require_pending, approval_not_pending), so no
\* payment whose hold was given back has gone out: what has left the account is
\* what completed payments say.
OnlyCompletedWasPaid == net = Opening - Value({m \in Payments : status[m] = "completed"})

=============================================================================
