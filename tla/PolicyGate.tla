----------------------------- MODULE PolicyGate -----------------------------
(***************************************************************************)
(* services/policy_gate.py, policies.py and usage.py: the policy engine in *)
(* the flow of requests.  Every request of MoneyMovement that an agent     *)
(* makes gets its outcome from PolicyEngine, applied to the policy in      *)
(* force, to the counterparty and to what the agent used up today and this *)
(* month.  The requests are those of MoneyMovement, one transaction each.  *)
(***************************************************************************)
EXTENDS MoneyMovement, PolicyEngine

CONSTANTS
    Documents,       \* policy documents the owner may put in force
    CurrencyOf,      \* counterparty -> currency it settles in
    Abroad,          \* counterparties whose country is not the owner's
    OwnerCurrency,   \* the owner's default currency
    Verification,    \* the owner's verification_status
    MaxVersions,     \* bound: policy versions per agent
    MaxDay,          \* bound: last day of the clock, the first is day 0
    DaysPerMonth     \* days in a month

ASSUME CalendarAssumption ==
    MaxDay \in Nat /\ MaxVersions \in Nat /\ DaysPerMonth \in Nat \ {0}

\* A limit is a number or not set; an unset field is no number and no payee.
ASSUME LimitsAreNumbers ==
    \A p \in Documents, of \in {"daily", "monthly", "maxPerDay"} :
        p[of] \in Int \cup {None}
ASSUME NoneIsNotGiven == None \notin Int /\ None \notin Counterparties

VARIABLES
    policies,     \* agent -> its policy documents, version by version
    payee,        \* payment -> counterparty of its row, None before
    createdOn,    \* movement -> day of created_at
    ruledUnder,   \* movement -> policy version its evaluation event records
    today         \* the current day

gateOwnVars == <<policies, payee, createdOn, ruledUnder, today>>
gateVars == <<vars, gateOwnVars>>

GateTypeOK ==
    /\ TypeOK
    /\ policies \in [Agents -> Seq(Documents)]
    /\ payee \in [Payments -> Counterparties \cup {None}]
    /\ createdOn \in [Movements -> 0 .. MaxDay]
    /\ ruledUnder \in [Movements -> 0 .. MaxVersions]
    /\ today \in 0 .. MaxDay

GateInit ==
    /\ Init
    /\ policies = [g \in Agents |-> <<>>]
    /\ payee = [m \in Payments |-> None]
    /\ createdOn = [m \in Movements |-> 0]
    /\ ruledUnder = [m \in Movements |-> 0]
    /\ today = 0

----------------------------------------------------------------------------
(***************************************************************************)
(* services/usage.py                                                       *)
(***************************************************************************)

\* Payments belong to the agent they are paid from, transfers to the agent
\* that asked for them: the owner's own transfers have no agent_id.
OfAgent(m, g) ==
    /\ source[m] = g
    /\ m \in Transfers => evaluation[m] # "none"

\* Statuses that count as spend: whatever is held, under way or done.
Counted(m) == status[m] \in {"pending_approval", "processing", "completed"}

DayStart == today
MonthStart == (today \div DaysPerMonth) * DaysPerMonth

\* Fault: transfers are forgotten.
UsedByPayments(g, since) ==
    {m \in Payments : OfAgent(m, g) /\ Counted(m) /\ createdOn[m] >= since}

Used(g, since) ==
    {m \in Movements : OfAgent(m, g) /\ Counted(m) /\ createdOn[m] >= since}

----------------------------------------------------------------------------
(***************************************************************************)
(* services/policy_gate.py: the contexts and the ruling.                   *)
(***************************************************************************)
ActivePolicy(g) ==
    IF policies[g] = <<>> THEN None ELSE policies[g][Len(policies[g])]

\* The caller is authenticated, so its agent is active (credentials.py).
AgentContext == [status |-> "active", owner |-> Verification]

\* Usage is always aggregated, also for an action without an amount.
Action(type, g, a, ccy, c, crossBorder) ==
    [type |-> type, amount |-> a, currency |-> ccy,
     payee |-> c, payeeStatus |-> IF c = None THEN None ELSE counterparty[c],
     crossBorder |-> crossBorder, merchant |-> None,
     daily |-> Value(Used(g, DayStart)), monthly |-> Value(Used(g, MonthStart)),
     today |-> Cardinality(Used(g, DayStart))]

RulePayment(g, c, a) ==
    Evaluate(Action("payment", g, a, CurrencyOf[c], c, c \in Abroad),
             AgentContext, ActivePolicy(g))

RuleTransfer(g, a) ==
    Evaluate(Action("transfer", g, a, OwnerCurrency, None, FALSE),
             AgentContext, ActivePolicy(g))

\* A counterparty is evaluated right after its insert, as "unverified".
RuleCounterparty(g, c) ==
    Evaluate([Action("counterparty", g, None, None, c, FALSE)
                EXCEPT !.payeeStatus = "unverified"],
             AgentContext, ActivePolicy(g))

\* Fault: the evaluation records the version that would come next.
RecordNextVersion(m, version) ==
    /\ createdOn' = [createdOn EXCEPT ![m] = today]
    /\ ruledUnder' = [ruledUnder EXCEPT ![m] = version + 1]

\* What the evaluation and the row record beyond MoneyMovement.
RecordRow(m, version) ==
    /\ createdOn' = [createdOn EXCEPT ![m] = today]
    /\ ruledUnder' = [ruledUnder EXCEPT ![m] = version]

----------------------------------------------------------------------------
(***************************************************************************)
(* Requests of an agent.                                                   *)
(***************************************************************************)
Unused(m) == status[m] = "none" /\ evaluation[m] = "none"

\* The funds are checked first, then the policy rules.
AgentPayment(m, g, c, a, result) ==
    LET ruling == RulePayment(g, c, a).outcome
    IN  /\ Unused(m)
        /\ EnsureAvailable(g, a)
        /\ counterparty[c] # "none"
        /\ \/ ruling = "allow" /\ CreatePayment(m, g, a, "allow", result)
           \/ ruling = "hold" /\ HoldPayment(m, g, a)
           \/ ruling = "deny" /\ DenyMovement(m, g, a)
        /\ payee' = [payee EXCEPT ![m] = c]
        /\ RecordRow(m, Len(policies[g]))
        /\ UNCHANGED <<policies, today>>

AgentTransfer(m, g, a) ==
    LET ruling == RuleTransfer(g, a).outcome
    IN  /\ Unused(m)
        /\ EnsureAvailable(g, a)
        /\ \/ ruling = "allow" /\ CreateTransfer(m, g, Treasury, a, "allow")
           \/ ruling = "hold" /\ HoldTransfer(m, g, a)
           \/ ruling = "deny" /\ DenyMovement(m, g, a)
        /\ RecordRow(m, Len(policies[g]))
        /\ UNCHANGED <<policies, payee, today>>

AgentCounterparty(g, c) ==
    LET ruling == RuleCounterparty(g, c).outcome
    IN  /\ counterparty[c] = "none" /\ evaluation[c] = "none"
        /\ \/ ruling # "deny" /\ CreateCounterparty(c, ruling)
           \/ ruling = "deny" /\ DenyCounterparty(c)
        /\ UNCHANGED gateOwnVars

----------------------------------------------------------------------------
(***************************************************************************)
(* Requests of the owner, not evaluated.                                   *)
(***************************************************************************)
OwnerPayment(m, g, c, a, result) ==
    /\ counterparty[c] # "none"
    /\ CreatePayment(m, g, a, "none", result)
    /\ payee' = [payee EXCEPT ![m] = c]
    /\ RecordRow(m, 0)
    /\ UNCHANGED <<policies, today>>

OwnerTransfer(m, src, dst, a) ==
    /\ CreateTransfer(m, src, dst, a, "none")
    /\ RecordRow(m, 0)
    /\ UNCHANGED <<policies, payee, today>>

\* PUT /agents/{id}/policy: the next version, in force from the next request.
ReplacePolicy(g, p) ==
    /\ Len(policies[g]) < MaxVersions
    /\ policies' = [policies EXCEPT ![g] = Append(@, p)]
    /\ UNCHANGED <<vars, payee, createdOn, ruledUnder, today>>

Midnight ==
    /\ today < MaxDay
    /\ today' = today + 1
    /\ UNCHANGED <<vars, policies, payee, createdOn, ruledUnder>>

\* Whatever the owner, the worker and the clock do to what is there.
Unruled ==
    /\ \/ \E h \in Holders, a \in Amounts : Fund(h, a)
       \/ \E m \in Payments : CancelPayment(m)
       \/ \E c \in Counterparties :
             \/ CreateCounterparty(c, "none")
             \/ VerifyCounterparty(c)
             \/ ApproveCounterparty(c)
             \/ RejectCounterparty(c)
       \/ \E m \in Payments, r \in DispatchResults : ApprovePayment(m, r)
       \/ \E m \in Transfers : ApproveTransfer(m)
       \/ \E m \in Movements : RejectMovement(m)
       \/ ExpireStale
       \/ \E s \in Subjects : FallDue(s)
    /\ UNCHANGED gateOwnVars

GateNext ==
    \/ \E m \in Payments, g \in Agents, c \in Counterparties, a \in Amounts,
          r \in DispatchResults :
             AgentPayment(m, g, c, a, r) \/ OwnerPayment(m, g, c, a, r)
    \/ \E m \in Transfers, g \in Agents, a \in Amounts : AgentTransfer(m, g, a)
    \/ \E m \in Transfers, src, dst \in Holders, a \in Amounts :
          OwnerTransfer(m, src, dst, a)
    \/ \E g \in Agents, c \in Counterparties : AgentCounterparty(g, c)
    \/ \E g \in Agents, p \in Documents : ReplacePolicy(g, p)
    \/ Midnight
    \/ Unruled

GateSpec == GateInit /\ [][GateNext]_gateVars

----------------------------------------------------------------------------
(***************************************************************************)
(* Properties.                                                             *)
(***************************************************************************)

\* What agent g did on its own on the days D: requests the policy allowed.
Autonomous(g, D) ==
    {m \in Movements : evaluation[m] = "allow" /\ source[m] = g /\ createdOn[m] \in D}

\* A numeric limit `of` some policy was in force for one of the requests.
SomeLimit(g, S, n, of) ==
    S # {} => \E m \in S : LET limit == policies[g][ruledUnder[m]][of]
                           IN  limit = None \/ n <= limit

\* An agent never spends more of its own accord, in a day or in a month, than
\* the most generous limit that was in force when it spent, however requests,
\* owner decisions, expiries, policy changes and midnights interleave.
LimitsBindTheAgent ==
    \A g \in Agents :
        /\ \A d \in 0 .. MaxDay :
              LET S == Autonomous(g, {d}) IN SomeLimit(g, S, Value(S), "daily")
        /\ \A month \in 0 .. MaxDay \div DaysPerMonth :
              LET D == {d \in 0 .. MaxDay : d \div DaysPerMonth = month}
                  S == Autonomous(g, D)
              IN  SomeLimit(g, S, Value(S), "monthly")

\* Nor more often in a day.
VelocityBindsTheAgent ==
    \A g \in Agents, d \in 0 .. MaxDay :
        LET S == Autonomous(g, {d}) IN SomeLimit(g, S, Cardinality(S), "maxPerDay")

\* Where the policy asks for it, an agent on its own pays only counterparties
\* the owner has looked at: by then each of them was confirmed, by a direct
\* verification or by an approval.
NewPayeesWereConfirmed ==
    \A m \in Payments :
        evaluation[m] = "allow" =>
            LET p == policies[source[m]][ruledUnder[m]]
            IN  p.holdNew \/ p.verifiedOnly => counterparty[payee[m]] # "unverified"

=============================================================================
