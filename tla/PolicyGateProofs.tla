-------------------------- MODULE PolicyGateProofs --------------------------
(***************************************************************************)
(* The policy gate: that agents' requests stay within the flow of          *)
(* MoneyMovement, and that an agent on its own stays within its limits,    *)
(* for every set of documents, agents and ids, every calendar and bound.   *)
(***************************************************************************)
EXTENDS PolicyGate, MoneyMovementProofs, SequenceTheorems

----------------------------------------------------------------------------
(***************************************************************************)
(* The ruling.                                                             *)
(***************************************************************************)

\* The engine gives one of three outcomes; it allows only what no rule hits.
LEMMA Outcomes ==
    ASSUME NEW act, NEW agent, NEW p
    PROVE  /\ Evaluate(act, agent, p).outcome \in {"allow", "hold", "deny"}
           /\ Evaluate(act, agent, p).outcome = "allow" =>
                p # None /\ Denying(act, agent, p) = {} /\ Holding(act, p) = {}
  BY DEF Evaluate, Denial, Hold

\* What a movement that is allowed leaves of the limits.
LEMMA AllowedWithinLimits ==
    ASSUME NEW act, NEW agent, NEW p, Evaluate(act, agent, p).outcome = "allow",
           act.type \in {"payment", "transfer"}, act.amount # None
    PROVE  /\ p # None
           /\ ~Over(act.daily + act.amount, p.daily)
           /\ ~Over(act.monthly + act.amount, p.monthly)
           /\ ~Over(act.today + 1, p.maxPerDay)
  <1>1. p # None /\ Holding(act, p) = {}
    BY Outcomes
  <1>2. 2 \in DOMAIN HoldRules /\ 3 \in DOMAIN HoldRules /\ 4 \in DOMAIN HoldRules
    BY DEF HoldRules
  <1>3. /\ HoldRules[2] = "daily_limit" /\ HoldRules[3] = "monthly_limit"
        /\ HoldRules[4] = "max_transactions_per_day"
    BY DEF HoldRules
  <1>4. /\ ~Holds("daily_limit", act, p) /\ ~Holds("monthly_limit", act, p)
        /\ ~Holds("max_transactions_per_day", act, p)
    BY <1>1, <1>2, <1>3 DEF Holding
  <1>5. /\ Holds("daily_limit", act, p) <=> Over(act.daily + act.amount, p.daily)
        /\ Holds("monthly_limit", act, p) <=> Over(act.monthly + act.amount, p.monthly)
        /\ Holds("max_transactions_per_day", act, p) <=> Over(act.today + 1, p.maxPerDay)
    BY DEF Holds, Monetary
  <1> QED
    BY <1>1, <1>4, <1>5

\* Whom a payment that is allowed goes to.
LEMMA AllowedPayee ==
    ASSUME NEW act, NEW agent, NEW p, Evaluate(act, agent, p).outcome = "allow",
           act.type = "payment", act.payee # None
    PROVE  p.holdNew \/ p.verifiedOnly => act.payeeStatus # "unverified"
  <1>1. Holding(act, p) = {} /\ Denying(act, agent, p) = {}
    BY Outcomes
  <1>2. 6 \in DOMAIN HoldRules /\ 7 \in DOMAIN DenyRules
    BY DEF HoldRules, DenyRules
  <1>3. HoldRules[6] = "new_counterparty" /\ DenyRules[7] = "verified_counterparties_only"
    BY DEF HoldRules, DenyRules
  <1>4. /\ ~Holds("new_counterparty", act, p)
        /\ ~Denies("verified_counterparties_only", act, agent, p)
    BY <1>1, <1>2, <1>3 DEF Holding, Denying
  <1>5. /\ Holds("new_counterparty", act, p) <=>
              p.holdNew /\ act.payeeStatus = "unverified"
        /\ Denies("verified_counterparties_only", act, agent, p) <=>
              p.verifiedOnly /\ act.payeeStatus # "verified"
    BY DEF Holds, Denies
  <1> QED
    BY <1>4, <1>5

----------------------------------------------------------------------------
(***************************************************************************)
(* The gate only chooses among the steps of MoneyMovement.                 *)
(***************************************************************************)
LEMMA GateStepIsStep == GateTypeOK /\ [GateNext]_gateVars => [Next]_vars
  <1> SUFFICES ASSUME GateTypeOK, [GateNext]_gateVars PROVE [Next]_vars
    OBVIOUS
  <1> USE DEF Holders, Movements
  <1>1. ASSUME NEW m \in Payments, NEW g \in Agents, NEW c \in Counterparties,
               NEW a \in Amounts, NEW r \in DispatchResults, AgentPayment(m, g, c, a, r)
        PROVE  Next
    BY <1>1 DEF AgentPayment, Next
  <1>2. ASSUME NEW m \in Payments, NEW g \in Agents, NEW c \in Counterparties,
               NEW a \in Amounts, NEW r \in DispatchResults, OwnerPayment(m, g, c, a, r)
        PROVE  Next
    BY <1>2 DEF OwnerPayment, Next
  <1>3. ASSUME NEW m \in Transfers, NEW g \in Agents, NEW a \in Amounts,
               AgentTransfer(m, g, a)
        PROVE  Next
    BY <1>3 DEF AgentTransfer, Next
  <1>4. ASSUME NEW m \in Transfers, NEW src \in Holders, NEW dst \in Holders,
               NEW a \in Amounts, OwnerTransfer(m, src, dst, a)
        PROVE  Next
    BY <1>4 DEF OwnerTransfer, Next
  <1>5. ASSUME NEW g \in Agents, NEW c \in Counterparties, AgentCounterparty(g, c)
        PROVE  Next
    <2>1. RuleCounterparty(g, c).outcome \in {"allow", "hold", "deny"}
      BY Outcomes DEF RuleCounterparty
    <2> QED
      BY <1>5, <2>1 DEF AgentCounterparty, Next
  <1>6. CASE Unruled
    BY <1>6 DEF Unruled, Next
  <1>7. CASE UNCHANGED vars
    BY <1>7
  <1> QED
    BY <1>1, <1>2, <1>3, <1>4, <1>5, <1>6, <1>7
    DEF GateNext, ReplacePolicy, Midnight, gateVars

----------------------------------------------------------------------------
(***************************************************************************)
(* The inductive invariant.  A movement that the policy allowed is done at *)
(* once and for good: no approval was raised on it that could undo it.     *)
(***************************************************************************)
VersionsAreBounded == \A g \in Agents : Len(policies[g]) <= MaxVersions

\* Nothing but a hold raises an approval on a movement.
ApprovalsWereHeld ==
    \A m \in Movements : approval[m] # "none" => evaluation[m] = "hold"

\* An allowed movement went through, under a version that exists.
AllowedWentThrough ==
    \A m \in Movements : evaluation[m] = "allow" =>
        /\ status[m] \in {"processing", "completed"}
        /\ source[m] \in Agents
        /\ ruledUnder[m] \in 1 .. Len(policies[source[m]])

\* ... and an allowed payment, to a counterparty that was created.
AllowedPayeesExist ==
    \A m \in Payments : evaluation[m] = "allow" =>
        payee[m] \in Counterparties /\ counterparty[payee[m]] # "none"

GateInv ==
    /\ GateTypeOK /\ VersionsAreBounded /\ ApprovalsWereHeld /\ AllowedWentThrough
    /\ AllowedPayeesExist
    /\ LimitsBindTheAgent /\ VelocityBindsTheAgent /\ NewPayeesWereConfirmed

LEMMA GateInvInit == GateInit => GateInv
  <1> SUFFICES ASSUME GateInit PROVE GateInv
    OBVIOUS
  <1>1. TypeOK
    BY TypeInit DEF GateInit
  <1>2. \A m \in Movements : evaluation[m] = "none" /\ approval[m] = "none"
    BY DEF GateInit, Init, Subjects, Movements
  <1>3. \A g \in Agents : policies[g] = <<>> /\ Len(policies[g]) = 0 /\ policies[g] \in Seq(Documents)
    BY EmptySeq DEF GateInit
  <1>4. GateTypeOK /\ VersionsAreBounded
    BY <1>1, <1>3, CalendarAssumption DEF GateInit, GateTypeOK, VersionsAreBounded
  <1>5. \A g, D : Autonomous(g, D) = {}
    BY <1>2 DEF Autonomous
  <1>6. LimitsBindTheAgent /\ VelocityBindsTheAgent
    BY <1>5 DEF LimitsBindTheAgent, VelocityBindsTheAgent, SomeLimit
  <1> QED
    BY <1>2, <1>4, <1>6
    DEF GateInv, ApprovalsWereHeld, AllowedWentThrough, AllowedPayeesExist,
        NewPayeesWereConfirmed, Movements

\* What every request records fits the types.
LEMMA RecordKeepsType ==
    ASSUME GateTypeOK, VersionsAreBounded, NEW m \in Movements, NEW g \in Agents,
           RecordRow(m, Len(policies[g])) \/ RecordRow(m, 0)
    PROVE  /\ createdOn' \in [Movements -> 0 .. MaxDay]
           /\ ruledUnder' \in [Movements -> 0 .. MaxVersions]
  <1>1. Len(policies[g]) \in 0 .. MaxVersions /\ 0 \in 0 .. MaxVersions
    BY CalendarAssumption, LenProperties DEF GateTypeOK, VersionsAreBounded
  <1> QED
    BY <1>1 DEF RecordRow, GateTypeOK

LEMMA GateTypeStep ==
    GateTypeOK /\ VersionsAreBounded /\ [GateNext]_gateVars
        => GateTypeOK' /\ VersionsAreBounded'
  <1> SUFFICES ASSUME GateTypeOK, VersionsAreBounded, [GateNext]_gateVars
               PROVE  GateTypeOK' /\ VersionsAreBounded'
    OBVIOUS
  <1>1. TypeOK'
    BY GateStepIsStep, TypeStep DEF GateTypeOK
  <1> DEFINE Own == /\ policies' \in [Agents -> Seq(Documents)]
                    /\ payee' \in [Payments -> Counterparties \cup {None}]
                    /\ createdOn' \in [Movements -> 0 .. MaxDay]
                    /\ ruledUnder' \in [Movements -> 0 .. MaxVersions]
                    /\ today' \in 0 .. MaxDay
                    /\ VersionsAreBounded'
  <1> USE DEF Movements
  <1>2. ASSUME NEW m \in Payments, NEW g \in Agents, NEW c \in Counterparties,
               NEW a \in Amounts, NEW r \in DispatchResults,
               AgentPayment(m, g, c, a, r) \/ OwnerPayment(m, g, c, a, r)
        PROVE  Own
    BY <1>2, RecordKeepsType DEF AgentPayment, OwnerPayment, GateTypeOK, VersionsAreBounded
  <1>3. ASSUME NEW m \in Transfers, NEW g \in Agents, NEW a \in Amounts,
               AgentTransfer(m, g, a)
        PROVE  Own
    BY <1>3, RecordKeepsType DEF AgentTransfer, GateTypeOK, VersionsAreBounded
  <1>4. ASSUME NEW m \in Transfers, NEW src \in Holders, NEW dst \in Holders,
               NEW a \in Amounts, OwnerTransfer(m, src, dst, a)
        PROVE  Own
    BY <1>4, CalendarAssumption
    DEF OwnerTransfer, RecordRow, GateTypeOK, VersionsAreBounded
  <1>5. ASSUME NEW g \in Agents, NEW p \in Documents, ReplacePolicy(g, p)
        PROVE  Own
    <2>1. /\ policies[g] \in Seq(Documents) /\ Len(policies[g]) \in Nat
          /\ Len(policies[g]) < MaxVersions
      BY <1>5, LenProperties DEF ReplacePolicy, GateTypeOK
    <2>2. /\ Append(policies[g], p) \in Seq(Documents)
          /\ Len(Append(policies[g], p)) = Len(policies[g]) + 1
      BY <2>1, AppendProperties
    <2>3. /\ policies'[g] = Append(policies[g], p)
          /\ \A h \in Agents \ {g} : policies'[h] = policies[h]
      BY <1>5 DEF ReplacePolicy, GateTypeOK
    <2>4. ASSUME NEW h \in Agents PROVE Len(policies'[h]) <= MaxVersions
      <3>1. CASE h = g
        BY <2>1, <2>2, <2>3, <3>1, CalendarAssumption
      <3>2. CASE h # g
        BY <2>3, <3>2, Zenon DEF VersionsAreBounded
      <3> QED
        BY <3>1, <3>2
    <2> QED
      BY <1>5, <2>2, <2>4 DEF ReplacePolicy, GateTypeOK, VersionsAreBounded
  <1>6. ASSUME Midnight PROVE Own
    BY <1>6, CalendarAssumption DEF Midnight, GateTypeOK, VersionsAreBounded
  <1>7. ASSUME UNCHANGED gateOwnVars PROVE Own
    BY <1>7 DEF gateOwnVars, GateTypeOK, VersionsAreBounded
  <1>8. Own
    BY <1>2, <1>3, <1>4, <1>5, <1>6, <1>7
    DEF GateNext, gateVars, AgentCounterparty, Unruled
  <1> QED
    BY <1>1, <1>8 DEF GateTypeOK

----------------------------------------------------------------------------
(***************************************************************************)
(* What a step may do to a row the policy allowed: nothing.                *)
(***************************************************************************)
SameRuling(m) ==
    /\ evaluation'[m] = evaluation[m] /\ source'[m] = source[m]
    /\ amount'[m] = amount[m] /\ createdOn'[m] = createdOn[m]
    /\ ruledUnder'[m] = ruledUnder[m] /\ status'[m] = status[m]
    /\ m \in Payments => payee'[m] = payee[m]

LEMMA AllowedStays ==
    ASSUME GateTypeOK, ApprovalsWereHeld, AllowedWentThrough, [GateNext]_gateVars,
           NEW x \in Movements, evaluation[x] = "allow"
    PROVE  SameRuling(x)
  <1> USE NamesAreDistinct DEF Movements, Subjects, SameRuling, gateOwnVars
  <1>a. /\ TypeOK /\ approval[x] = "none"
        /\ status[x] \in {"processing", "completed"}
    BY DEF GateTypeOK, TypeOK, ApprovalsWereHeld, AllowedWentThrough, ApprovalStatus
  <1>b. /\ createdOn \in [Movements -> 0 .. MaxDay]
        /\ ruledUnder \in [Movements -> 0 .. MaxVersions]
        /\ payee \in [Payments -> Counterparties \cup {None}]
    BY DEF GateTypeOK
  \* A request that creates another row.
  <1>1. ASSUME NEW m \in Movements, m # x, NEW v, RecordRow(m, v),
               \/ \E st, src, dst, a : InsertMovement(m, st, src, dst, a)
               \/ UNCHANGED <<status, source, amount>>,
               \E o : RecordEvaluation(m, o),
               \/ \E c : payee' = [payee EXCEPT ![m] = c]
               \/ UNCHANGED payee
        PROVE  SameRuling(x)
    BY <1>a, <1>b, <1>1 DEF RecordRow, InsertMovement, RecordEvaluation, TypeOK
  <1>2. ASSUME NEW m \in Payments, NEW g \in Agents, NEW c \in Counterparties,
               NEW a \in Amounts, NEW r \in DispatchResults,
               AgentPayment(m, g, c, a, r) \/ OwnerPayment(m, g, c, a, r)
        PROVE  SameRuling(x)
    <2>1. m # x
      BY <1>2 DEF AgentPayment, OwnerPayment, Unused, CreatePayment, RecordEvaluation
    <2> QED
      BY <1>1, <1>2, <2>1
      DEF AgentPayment, OwnerPayment, CreatePayment, HoldPayment, DenyMovement
  <1>3. ASSUME NEW m \in Transfers, NEW g \in Agents, NEW a \in Amounts,
               AgentTransfer(m, g, a)
        PROVE  SameRuling(x)
    <2>1. m # x
      BY <1>3 DEF AgentTransfer, Unused
    <2> QED
      BY <1>1, <1>3, <2>1 DEF AgentTransfer, CreateTransfer, HoldTransfer, DenyMovement
  <1>4. ASSUME NEW m \in Transfers, NEW src \in Holders, NEW dst \in Holders,
               NEW a \in Amounts, OwnerTransfer(m, src, dst, a)
        PROVE  SameRuling(x)
    <2>1. m # x
      BY <1>4 DEF OwnerTransfer, CreateTransfer, RecordEvaluation
    <2> QED
      BY <1>1, <1>4, <2>1 DEF OwnerTransfer, CreateTransfer
  <1>5. ASSUME NEW c \in Counterparties, \E o : RecordEvaluation(c, o),
               UNCHANGED <<status, source, amount, gateOwnVars>>
        PROVE  SameRuling(x)
    BY <1>a, <1>5 DEF RecordEvaluation, TypeOK
  <1>6. ASSUME NEW g \in Agents, NEW c \in Counterparties, AgentCounterparty(g, c)
        PROVE  SameRuling(x)
    BY <1>5, <1>6 DEF AgentCounterparty, CreateCounterparty, DenyCounterparty
  \* A decision, cancellation or expiry, which needs an approval or a hold.
  <1>7. ASSUME UNCHANGED <<evaluation, source, amount, gateOwnVars>>,
               status'[x] = status[x]
        PROVE  SameRuling(x)
    BY <1>7
  <1>8. CASE Unruled
    <2>1. ASSUME NEW c \in Counterparties, CreateCounterparty(c, "none")
          PROVE  SameRuling(x)
      BY <1>5, <1>8, <2>1 DEF CreateCounterparty, Unruled
    <2>2. ASSUME NEW m \in Movements, m # x, \E st : status' = [status EXCEPT ![m] = st],
                 UNCHANGED <<evaluation, source, amount>>
          PROVE  SameRuling(x)
      BY <1>a, <1>7, <1>8, <2>2 DEF Unruled, TypeOK
    <2>3. ASSUME NEW m \in Payments, CancelPayment(m) PROVE SameRuling(x)
      BY <1>a, <2>2, <2>3 DEF CancelPayment
    <2>4. ASSUME NEW m \in Payments, NEW r \in DispatchResults, ApprovePayment(m, r)
          PROVE  SameRuling(x)
      BY <1>a, <2>2, <2>4 DEF ApprovePayment, RequirePending
    <2>5. ASSUME NEW m \in Transfers, ApproveTransfer(m) PROVE SameRuling(x)
      BY <1>a, <2>2, <2>5 DEF ApproveTransfer, RequirePending
    <2>6. ASSUME NEW m \in Movements, RejectMovement(m) PROVE SameRuling(x)
      BY <1>a, <2>2, <2>6 DEF RejectMovement, RequirePending
    <2>7. CASE ExpireStale
      BY <1>a, <1>7, <1>8, <2>7 DEF ExpireStale, Stale, Unruled
    <2>8. CASE UNCHANGED <<evaluation, source, amount, status>>
      BY <1>7, <1>8, <2>8 DEF Unruled
    <2> QED
      BY <1>8, <2>1, <2>3, <2>4, <2>5, <2>6, <2>7, <2>8
      DEF Unruled, Fund, VerifyCounterparty, ApproveCounterparty, RejectCounterparty, FallDue
  <1>9. CASE UNCHANGED <<evaluation, source, amount, status, createdOn, ruledUnder, payee>>
    BY <1>9
  <1> QED
    BY <1>2, <1>3, <1>4, <1>6, <1>8, <1>9
    DEF GateNext, gateVars, vars, ReplacePolicy, Midnight

\* A row becomes allowed in one way: by a request of the agent it is paid from,
\* within what the version in force leaves, and to a payee that may be paid.
Allowed(m, g, a) ==
    /\ evaluation[m] = "none" /\ evaluation' = [evaluation EXCEPT ![m] = "allow"]
    /\ source' = [source EXCEPT ![m] = g] /\ amount' = [amount EXCEPT ![m] = a]
    /\ status'[m] \in {"processing", "completed"}
    /\ RecordRow(m, Len(policies[g]))
    /\ UNCHANGED <<policies, today>>

WithinLimits(g, a) ==
    LET p == policies[g][Len(policies[g])]
    IN  /\ policies[g] # <<>>
        /\ ~Over(Value(Used(g, DayStart)) + a, p.daily)
        /\ ~Over(Value(Used(g, MonthStart)) + a, p.monthly)
        /\ ~Over(Cardinality(Used(g, DayStart)) + 1, p.maxPerDay)

MayBePaid(m, g) ==
    LET p == policies[g][Len(policies[g])]
    IN  /\ payee'[m] \in Counterparties /\ UNCHANGED counterparty
        /\ counterparty[payee'[m]] # "none"
        /\ p.holdNew \/ p.verifiedOnly => counterparty[payee'[m]] # "unverified"

LEMMA PaymentRuling ==
    ASSUME NEW g \in Agents, NEW c \in Counterparties, NEW a \in Amounts,
           RulePayment(g, c, a).outcome = "allow"
    PROVE  LET p == policies[g][Len(policies[g])]
           IN  /\ WithinLimits(g, a)
               /\ p.holdNew \/ p.verifiedOnly => counterparty[c] # "unverified"
  <1> DEFINE act == Action("payment", g, a, CurrencyOf[c], c, c \in Abroad)
             p == ActivePolicy(g)
  <1>1. act.type = "payment" /\ act.amount = a /\ a # None /\ act.payee = c /\ c # None
    BY NoneIsNotGiven, AmountsAreNaturals DEF Action
  <1>2. Evaluate(act, AgentContext, p).outcome = "allow"
    BY DEF RulePayment
  <1>3. /\ act.daily = Value(Used(g, DayStart)) /\ act.monthly = Value(Used(g, MonthStart))
        /\ act.today = Cardinality(Used(g, DayStart)) /\ act.payeeStatus = counterparty[c]
    BY <1>1 DEF Action
  <1> HIDE DEF act
  <1>4. /\ p # None
        /\ ~Over(act.daily + act.amount, p.daily)
        /\ ~Over(act.monthly + act.amount, p.monthly)
        /\ ~Over(act.today + 1, p.maxPerDay)
    BY <1>1, <1>2, AllowedWithinLimits
  <1>5. p.holdNew \/ p.verifiedOnly => act.payeeStatus # "unverified"
    BY <1>1, <1>2, AllowedPayee
  <1> QED
    BY <1>1, <1>3, <1>4, <1>5 DEF ActivePolicy, WithinLimits

LEMMA TransferRuling ==
    ASSUME NEW g \in Agents, NEW a \in Amounts, RuleTransfer(g, a).outcome = "allow"
    PROVE  WithinLimits(g, a)
  <1> DEFINE act == Action("transfer", g, a, OwnerCurrency, None, FALSE)
             p == ActivePolicy(g)
  <1>1. act.type = "transfer" /\ act.amount = a /\ a # None
    BY NoneIsNotGiven, AmountsAreNaturals DEF Action
  <1>2. Evaluate(act, AgentContext, p).outcome = "allow"
    BY DEF RuleTransfer
  <1>3. /\ act.daily = Value(Used(g, DayStart)) /\ act.monthly = Value(Used(g, MonthStart))
        /\ act.today = Cardinality(Used(g, DayStart))
    BY DEF Action
  <1> HIDE DEF act
  <1>4. /\ p # None
        /\ ~Over(act.daily + act.amount, p.daily)
        /\ ~Over(act.monthly + act.amount, p.monthly)
        /\ ~Over(act.today + 1, p.maxPerDay)
    BY <1>1, <1>2, AllowedWithinLimits
  <1> QED
    BY <1>1, <1>3, <1>4 DEF ActivePolicy, WithinLimits

LEMMA NewlyAllowed ==
    ASSUME GateTypeOK, [GateNext]_gateVars, NEW x \in Movements,
           evaluation[x] # "allow", evaluation'[x] = "allow"
    PROVE  \E g \in Agents, a \in Amounts :
               Allowed(x, g, a) /\ WithinLimits(g, a) /\ (x \in Payments => MayBePaid(x, g))
  <1> DEFINE Goal == \E g \in Agents, a \in Amounts :
               Allowed(x, g, a) /\ WithinLimits(g, a) /\ (x \in Payments => MayBePaid(x, g))
  <1> USE NamesAreDistinct DEF Movements, Subjects
  <1>a. TypeOK /\ payee \in [Payments -> Counterparties \cup {None}]
    BY DEF GateTypeOK
  <1>1. ASSUME NEW s \in Subjects, NEW o, RecordEvaluation(s, o), s # x \/ o # "allow"
        PROVE  FALSE
    BY <1>a, <1>1 DEF RecordEvaluation, TypeOK
  <1>2. ASSUME UNCHANGED evaluation PROVE FALSE
    BY <1>2
  <1>3. ASSUME NEW m \in Payments, NEW g \in Agents, NEW c \in Counterparties,
               NEW a \in Amounts, NEW r \in DispatchResults, AgentPayment(m, g, c, a, r)
        PROVE  Goal
    <2>1. /\ RulePayment(g, c, a).outcome = "allow" /\ CreatePayment(m, g, a, "allow", r)
          /\ m = x
      BY <1>1, <1>3 DEF AgentPayment, HoldPayment, DenyMovement, CreatePayment
    <2>2. WithinLimits(g, a)
      BY <2>1, PaymentRuling
    <2>3. payee'[x] = c
      BY <1>a, <1>3, <2>1 DEF AgentPayment
    <2>4. MayBePaid(x, g)
      BY <1>3, <2>1, <2>3, PaymentRuling DEF AgentPayment, CreatePayment, MayBePaid
    <2>5. status'[x] \in {"processing", "completed"}
      BY <1>a, <2>1 DEF CreatePayment, InsertMovement, StatusAfterDispatch, TypeOK
    <2>6. Allowed(x, g, a)
      BY <1>3, <2>1, <2>5
      DEF AgentPayment, CreatePayment, InsertMovement, RecordEvaluation, Allowed
    <2> QED
      BY <2>2, <2>4, <2>6
  <1>4. ASSUME NEW m \in Transfers, NEW g \in Agents, NEW a \in Amounts,
               AgentTransfer(m, g, a)
        PROVE  Goal
    <2>1. /\ RuleTransfer(g, a).outcome = "allow" /\ CreateTransfer(m, g, Treasury, a, "allow")
          /\ m = x
      BY <1>1, <1>4 DEF AgentTransfer, HoldTransfer, DenyMovement, CreateTransfer
    <2>2. WithinLimits(g, a)
      BY <2>1, TransferRuling
    <2>3. status'[x] \in {"processing", "completed"}
      BY <1>a, <2>1 DEF CreateTransfer, InsertMovement, TypeOK
    <2>4. Allowed(x, g, a)
      BY <1>4, <2>1, <2>3
      DEF AgentTransfer, CreateTransfer, InsertMovement, RecordEvaluation, Allowed
    <2> QED
      BY <2>1, <2>2, <2>4
  <1>5. ASSUME NEW m \in Payments, NEW g \in Agents, NEW c \in Counterparties,
               NEW a \in Amounts, NEW r \in DispatchResults, OwnerPayment(m, g, c, a, r)
        PROVE  FALSE
    BY <1>1, <1>5 DEF OwnerPayment, CreatePayment
  <1>6. ASSUME NEW m \in Transfers, NEW src \in Holders, NEW dst \in Holders,
               NEW a \in Amounts, OwnerTransfer(m, src, dst, a)
        PROVE  FALSE
    BY <1>1, <1>6 DEF OwnerTransfer, CreateTransfer
  <1>7. ASSUME NEW g \in Agents, NEW c \in Counterparties, AgentCounterparty(g, c)
        PROVE  FALSE
    BY <1>1, <1>7 DEF AgentCounterparty, CreateCounterparty, DenyCounterparty
  <1>8. ASSUME Unruled PROVE FALSE
    BY <1>1, <1>2, <1>8
    DEF Unruled, Fund, CancelPayment, CreateCounterparty, VerifyCounterparty,
        ApproveCounterparty, RejectCounterparty, ApprovePayment, ApproveTransfer,
        RejectMovement, ExpireStale, FallDue
  <1>9. Goal
    BY <1>2, <1>3, <1>4, <1>5, <1>6, <1>7, <1>8
    DEF GateNext, gateVars, vars, ReplacePolicy, Midnight
  <1> QED
    BY <1>9

\* Versions are only ever added.
LEMMA VersionsStay ==
    ASSUME GateTypeOK, [GateNext]_gateVars, NEW g \in Agents
    PROVE  /\ policies'[g] \in Seq(Documents)
           /\ Len(policies[g]) \in Nat /\ Len(policies'[g]) \in Nat
           /\ Len(policies[g]) <= Len(policies'[g])
           /\ \A v \in 1 .. Len(policies[g]) : policies'[g][v] = policies[g][v]
  <1>1. policies[g] \in Seq(Documents) /\ Len(policies[g]) \in Nat
    BY LenProperties DEF GateTypeOK
  <1>2. CASE policies'[g] = policies[g]
    BY <1>1, <1>2
  <1>3. ASSUME NEW h \in Agents, NEW p \in Documents, ReplacePolicy(h, p),
               policies'[g] # policies[g]
        PROVE  policies'[g] = Append(policies[g], p)
    BY <1>3 DEF ReplacePolicy, GateTypeOK
  <1>4. ASSUME NEW p \in Documents, policies'[g] = Append(policies[g], p)
        PROVE  /\ policies'[g] \in Seq(Documents)
               /\ Len(policies'[g]) = Len(policies[g]) + 1
               /\ \A v \in 1 .. Len(policies[g]) : policies'[g][v] = policies[g][v]
    BY <1>1, <1>4, AppendProperties
  <1>5. \/ \E h \in Agents, p \in Documents : ReplacePolicy(h, p)
        \/ UNCHANGED policies
    BY DEF GateNext, gateVars, gateOwnVars, AgentPayment, AgentTransfer, OwnerPayment,
           OwnerTransfer, AgentCounterparty, Midnight, Unruled
  <1> QED
    BY <1>1, <1>2, <1>3, <1>4, <1>5

\* A counterparty stays, and once confirmed or blocked it is not new again.
LEMMA CounterpartiesStay ==
    ASSUME TypeOK, [Next]_vars, NEW c \in Counterparties, counterparty[c] # "none"
    PROVE  /\ counterparty'[c] # "none"
           /\ counterparty[c] # "unverified" => counterparty'[c] # "unverified"
  <1> DEFINE Goal == /\ counterparty'[c] # "none"
                     /\ counterparty[c] # "unverified" => counterparty'[c] # "unverified"
  <1>1. ASSUME NEW k \in Counterparties, NEW o, CreateCounterparty(k, o) PROVE Goal
    BY <1>1 DEF TypeOK, CreateCounterparty
  <1>2. ASSUME NEW k \in Counterparties,
               VerifyCounterparty(k) \/ ApproveCounterparty(k) \/ RejectCounterparty(k)
        PROVE  Goal
    BY <1>2 DEF TypeOK, VerifyCounterparty, ApproveCounterparty, RejectCounterparty
  <1>3. CASE UNCHANGED counterparty
    BY <1>3
  <1> QED
    BY <1>1, <1>2, <1>3
    DEF Next, vars, Fund, CreatePayment, HoldPayment, CreateTransfer, HoldTransfer,
        DenyMovement, CancelPayment, DenyCounterparty, ApprovePayment, ApproveTransfer,
        RejectMovement, ExpireStale, FallDue

LEMMA ApprovalsHeldStep ==
    TypeOK /\ ApprovalsWereHeld /\ [Next]_vars => ApprovalsWereHeld'
  <1> SUFFICES ASSUME TypeOK, ApprovalsWereHeld, [Next]_vars, NEW x \in Movements,
                      approval'[x] # "none"
               PROVE  evaluation'[x] = "hold"
    BY DEF ApprovalsWereHeld
  <1> USE NamesAreDistinct DEF Movements, Subjects
  <1>1. ASSUME NEW s \in Subjects, NEW o, RecordEvaluation(s, o),
               UNCHANGED approval \/ (s # x /\ \E d : approval' = [approval EXCEPT ![s] = d])
        PROVE  evaluation'[x] = "hold"
    BY <1>1 DEF ApprovalsWereHeld, TypeOK, RecordEvaluation
  <1>2. ASSUME NEW m \in Movements, NEW src, NEW a,
               HoldPayment(m, src, a) \/ HoldTransfer(m, src, a)
        PROVE  evaluation'[x] = "hold"
    BY <1>2 DEF ApprovalsWereHeld, TypeOK, HoldPayment, HoldTransfer, RecordEvaluation,
       RaiseApproval
  <1>3. ASSUME NEW c \in Counterparties, NEW o, CreateCounterparty(c, o)
        PROVE  evaluation'[x] = "hold"
    BY <1>1, <1>3 DEF CreateCounterparty, RaiseApproval
  <1>4. ASSUME UNCHANGED evaluation, approval[x] # "none" PROVE evaluation'[x] = "hold"
    BY <1>4 DEF ApprovalsWereHeld
  <1>5. ASSUME NEW s \in Subjects, approval[s] # "none", UNCHANGED evaluation,
               \E d : approval' = [approval EXCEPT ![s] = d]
        PROVE  evaluation'[x] = "hold"
    BY <1>4, <1>5 DEF TypeOK
  <1>6. ASSUME NEW m \in Payments, CancelPayment(m) PROVE evaluation'[x] = "hold"
    <2>1. x = m => approval[x] # "none"
      BY <1>6 DEF CancelPayment, TypeOK
    <2> QED
      BY <1>4, <1>6, <2>1 DEF CancelPayment, TypeOK
  <1>7. CASE ExpireStale
    BY <1>4, <1>7 DEF ExpireStale, Stale, TypeOK
  <1>8. CASE UNCHANGED <<evaluation, approval>>
    BY <1>4, <1>8
  <1> QED
    BY <1>1, <1>2, <1>3, <1>5, <1>6, <1>7, <1>8
    DEF Next, vars, Fund, CreatePayment, CreateTransfer, DenyMovement, DenyCounterparty,
        VerifyCounterparty, ApprovePayment, ApproveTransfer, ApproveCounterparty,
        RejectMovement, RejectCounterparty, RequirePending, Decide, FallDue

----------------------------------------------------------------------------
(***************************************************************************)
(* The limits.  What an agent did of its own accord is part of what its    *)
(* usage counts, so the request that was allowed last stays within its     *)
(* version's limit together with everything before it.                     *)
(***************************************************************************)
LEMMA AutonomousIsUsed ==
    ASSUME AllowedWentThrough, NEW g \in Agents, NEW D, NEW since,
           \A d \in D : d >= since, createdOn \in [Movements -> 0 .. MaxDay]
    PROVE  Autonomous(g, D) \subseteq Used(g, since)
  BY DEF Autonomous, Used, OfAgent, Counted, AllowedWentThrough

LEMMA SumsGrow ==
    ASSUME TypeOK, NEW S \in SUBSET Movements, NEW T \in SUBSET S
    PROVE  /\ Value(T) \in Nat /\ Value(S) \in Nat /\ Value(T) <= Value(S)
           /\ Cardinality(T) \in Nat /\ Cardinality(S) \in Nat
           /\ Cardinality(T) <= Cardinality(S)
  <1>1. Value(S \ T) = Value(S) - Value(T)
    BY ValueWithout DEF TypeOK, Value, AmountsOf
  <1>2. Value(S) \in Nat /\ Value(T) \in Nat /\ Value(S \ T) \in Nat
    BY ValueIsNatural
  <1>3. IsFiniteSet(S)
    BY FinitelyManyMovements, FS_Subset
  <1>4. IsFiniteSet(T) /\ Cardinality(T) <= Cardinality(S)
    BY <1>3, FS_Subset
  <1>5. Cardinality(S) \in Nat /\ Cardinality(T) \in Nat
    BY <1>3, <1>4, FS_CardinalityType
  <1> QED
    BY <1>1, <1>2, <1>4, <1>5

\* Days of which no request of g is allowed in this step.
LEMMA NothingAdded ==
    ASSUME GateInv, [GateNext]_gateVars, NEW g \in Agents, NEW D,
           \A x \in Movements : evaluation[x] # "allow" /\ evaluation'[x] = "allow" =>
               ~(source'[x] = g /\ createdOn'[x] \in D)
    PROVE  LET S == Autonomous(g, D)
           IN  /\ Autonomous(g, D)' = S
               /\ Cardinality(Units(S, amount')) = Value(S)
               /\ \A m \in S : policies'[g][ruledUnder'[m]] = policies[g][ruledUnder[m]]
  <1>1. \A m \in Movements : evaluation[m] = "allow" => SameRuling(m)
    BY AllowedStays DEF GateInv
  <1>2. Autonomous(g, D)' = Autonomous(g, D)
    BY <1>1 DEF Autonomous, SameRuling
  <1>3. Units(Autonomous(g, D), amount') = Units(Autonomous(g, D), amount)
    <2>1. \A m \in Autonomous(g, D) : amount'[m] = amount[m]
      BY <1>1 DEF Autonomous, SameRuling
    <2> QED
      BY <2>1, ValueSameAmounts
  <1>4. ASSUME NEW m \in Autonomous(g, D)
        PROVE  policies'[g][ruledUnder'[m]] = policies[g][ruledUnder[m]]
    <2>1. ruledUnder'[m] = ruledUnder[m] /\ ruledUnder[m] \in 1 .. Len(policies[g])
      BY <1>1 DEF Autonomous, SameRuling, GateInv, AllowedWentThrough
    <2> QED
      BY <2>1, VersionsStay DEF GateInv
  <1> QED
    BY <1>2, <1>3, <1>4 DEF Value

\* Days of which one is.
LEMMA OneAdded ==
    ASSUME GateInv, GateTypeOK', [GateNext]_gateVars, NEW g \in Agents, NEW a \in Amounts,
           NEW x \in Movements, evaluation[x] # "allow", Allowed(x, g, a),
           NEW D, today \in D
    PROVE  LET S == Autonomous(g, D)
           IN  /\ x \in Autonomous(g, D)' /\ Autonomous(g, D)' = S \cup {x}
               /\ Cardinality(Autonomous(g, D)') = Cardinality(S) + 1
               /\ Value(Autonomous(g, D))' = Value(S) + a
               /\ policies'[g][ruledUnder'[x]] = policies[g][Len(policies[g])]
  <1> DEFINE S == Autonomous(g, D)
  <1>0. TypeOK /\ TypeOK' /\ GateTypeOK
    BY DEF GateInv, GateTypeOK
  <1>1. \A m \in Movements : evaluation[m] = "allow" => SameRuling(m)
    BY AllowedStays DEF GateInv
  <1>2. /\ evaluation'[x] = "allow" /\ source'[x] = g /\ amount'[x] = a
        /\ createdOn'[x] = today /\ ruledUnder'[x] = Len(policies[g])
        /\ policies' = policies
        /\ \A m \in Movements \ {x} : evaluation'[m] = evaluation[m]
    BY <1>0 DEF Allowed, RecordRow, TypeOK, GateTypeOK, Movements, Subjects
  <1>3. Autonomous(g, D)' = S \cup {x}
    BY <1>1, <1>2 DEF Autonomous, SameRuling
  <1>4. S \in SUBSET Movements /\ x \notin S
    BY DEF Autonomous
  <1>5. IsFiniteSet(S)
    BY <1>4, FinitelyManyMovements, FS_Subset
  <1>6. Cardinality(S \cup {x}) = Cardinality(S) + 1
    BY <1>4, <1>5, FS_AddElement
  <1>7. amount' \in AmountsOf
    BY <1>0 DEF TypeOK, AmountsOf
  <1>8. Cardinality(Units(S \cup {x}, amount')) = Cardinality(Units(S, amount')) + a
    BY <1>2, <1>4, <1>7, ValueWith
  <1>9. Units(S, amount') = Units(S, amount)
    <2>1. \A m \in S : amount'[m] = amount[m]
      BY <1>1 DEF Autonomous, SameRuling
    <2> QED
      BY <2>1, ValueSameAmounts
  <1>10. Value(Autonomous(g, D))' = Cardinality(Units(Autonomous(g, D)', amount'))
    BY DEF Value
  <1> HIDE DEF S
  <1>11. Value(Autonomous(g, D))' = Value(S) + a
    BY <1>3, <1>8, <1>9, <1>10 DEF Value
  <1> QED
    BY <1>2, <1>3, <1>6, <1>11 DEF S

\* What the version in force says of the request that is allowed next.
LEMMA DayFits ==
    ASSUME GateInv, NEW g \in Agents, NEW a \in Amounts, WithinLimits(g, a)
    PROVE  LET S == Autonomous(g, {today})
               p == policies[g][Len(policies[g])]
           IN  /\ p["daily"] = None \/ Value(S) + a <= p["daily"]
               /\ p["maxPerDay"] = None \/ Cardinality(S) + 1 <= p["maxPerDay"]
  <1> DEFINE S == Autonomous(g, {today})
             U == Used(g, DayStart)
             p == policies[g][Len(policies[g])]
  <1>1. today \in Nat
    BY CalendarAssumption DEF GateInv, GateTypeOK
  <1>a. /\ AllowedWentThrough /\ createdOn \in [Movements -> 0 .. MaxDay]
        /\ \A d \in {today} : d >= DayStart
    BY <1>1 DEF GateInv, GateTypeOK, DayStart
  <1>b. U \in SUBSET Movements
    BY DEF Used
  <1>2. S \subseteq U /\ U \in SUBSET Movements
    BY <1>a, <1>b, AutonomousIsUsed
  <1>3. /\ Value(S) \in Nat /\ Value(U) \in Nat /\ Value(S) <= Value(U)
        /\ Cardinality(S) \in Nat /\ Cardinality(U) \in Nat
        /\ Cardinality(S) <= Cardinality(U)
    BY <1>2, SumsGrow DEF GateInv, GateTypeOK
  <1>4. p \in Documents
    BY LenProperties, ElementOfSeq, EmptySeq DEF GateInv, GateTypeOK, WithinLimits
  <1>5. /\ p["daily"] = p.daily /\ p["maxPerDay"] = p.maxPerDay
        /\ p.daily \in Int \cup {None} /\ p.maxPerDay \in Int \cup {None}
    BY <1>4, LimitsAreNumbers
  <1>6. ~Over(Value(U) + a, p.daily) /\ ~Over(Cardinality(U) + 1, p.maxPerDay)
    BY DEF WithinLimits
  <1>7. a \in Nat
    BY AmountsAreNaturals
  <1> HIDE DEF S, U, p
  <1>8. p["daily"] = None \/ Value(S) + a <= p["daily"]
    BY <1>3, <1>5, <1>6, <1>7 DEF Over
  <1>9. p["maxPerDay"] = None \/ Cardinality(S) + 1 <= p["maxPerDay"]
    BY <1>3, <1>5, <1>6 DEF Over
  <1> QED
    BY <1>8, <1>9 DEF S, p

\* The days of a month begin with its start.
LEMMA MonthBegins ==
    ASSUME NEW n \in Nat, NEW d \in Nat, d \div DaysPerMonth = n \div DaysPerMonth
    PROVE  d >= (n \div DaysPerMonth) * DaysPerMonth
  BY CalendarAssumption

LEMMA MonthFits ==
    ASSUME GateInv, NEW g \in Agents, NEW a \in Amounts, WithinLimits(g, a),
           NEW D \in SUBSET (0 .. MaxDay),
           \A d \in D : d \div DaysPerMonth = today \div DaysPerMonth
    PROVE  LET S == Autonomous(g, D)
               p == policies[g][Len(policies[g])]
           IN  p["monthly"] = None \/ Value(S) + a <= p["monthly"]
  <1> DEFINE S == Autonomous(g, D)
             U == Used(g, MonthStart)
             p == policies[g][Len(policies[g])]
  <1>1. \A d \in D : d >= MonthStart
    <2>1. today \in Nat /\ \A d \in D : d \in Nat
      BY CalendarAssumption DEF GateInv, GateTypeOK
    <2>2. ASSUME NEW d \in D PROVE d >= (today \div DaysPerMonth) * DaysPerMonth
      BY <2>1, MonthBegins, Zenon
    <2> QED
      BY <2>2, Zenon DEF MonthStart
  <1>a. AllowedWentThrough /\ createdOn \in [Movements -> 0 .. MaxDay]
    BY DEF GateInv, GateTypeOK
  <1>b. U \in SUBSET Movements
    BY DEF Used
  <1>2. S \subseteq U /\ U \in SUBSET Movements
    BY <1>1, <1>a, <1>b, AutonomousIsUsed
  <1>3. Value(S) \in Nat /\ Value(U) \in Nat /\ Value(S) <= Value(U)
    BY <1>2, SumsGrow DEF GateInv, GateTypeOK
  <1>4. p \in Documents
    BY LenProperties, ElementOfSeq, EmptySeq DEF GateInv, GateTypeOK, WithinLimits
  <1>5. p["monthly"] = p.monthly /\ p.monthly \in Int \cup {None}
    BY <1>4, LimitsAreNumbers
  <1>6. ~Over(Value(U) + a, p.monthly)
    BY DEF WithinLimits
  <1>7. a \in Nat
    BY AmountsAreNaturals
  <1> HIDE DEF S, U, p
  <1>8. p["monthly"] = None \/ Value(S) + a <= p["monthly"]
    BY <1>3, <1>5, <1>6, <1>7 DEF Over
  <1> QED
    BY <1>8 DEF S, p

\* A limit that held for the days D still does, if the request that may be
\* allowed on one of them fits.
LEMMA SpendStep ==
    ASSUME GateInv, GateTypeOK', [GateNext]_gateVars, NEW g \in Agents, NEW D, NEW of,
           SomeLimit(g, Autonomous(g, D), Value(Autonomous(g, D)), of),
           \A a \in Amounts : today \in D /\ WithinLimits(g, a) =>
               LET limit == policies[g][Len(policies[g])][of]
               IN  limit = None \/ Value(Autonomous(g, D)) + a <= limit
    PROVE  SomeLimit(g, Autonomous(g, D), Value(Autonomous(g, D)), of)'
  <1>1. ASSUME NEW x \in Movements, evaluation[x] # "allow", evaluation'[x] = "allow",
               source'[x] = g, createdOn'[x] \in D
        PROVE  SomeLimit(g, Autonomous(g, D), Value(Autonomous(g, D)), of)'
    <2>1. PICK h \in Agents, a \in Amounts : Allowed(x, h, a) /\ WithinLimits(h, a)
      BY <1>1, NewlyAllowed DEF GateInv
    <2>2. h = g /\ createdOn'[x] = today
      BY <1>1, <2>1 DEF Allowed, RecordRow, GateInv, GateTypeOK, TypeOK
    <2>3. /\ x \in Autonomous(g, D)'
          /\ Value(Autonomous(g, D))' = Value(Autonomous(g, D)) + a
          /\ policies'[g][ruledUnder'[x]] = policies[g][Len(policies[g])]
      BY <1>1, <2>1, <2>2, OneAdded
    <2> QED
      BY <1>1, <2>1, <2>2, <2>3 DEF SomeLimit
  <1>2. CASE \A x \in Movements : evaluation[x] # "allow" /\ evaluation'[x] = "allow" =>
               ~(source'[x] = g /\ createdOn'[x] \in D)
    <2>1. LET S == Autonomous(g, D)
          IN  /\ Autonomous(g, D)' = S
              /\ Cardinality(Units(S, amount')) = Value(S)
              /\ \A m \in S : policies'[g][ruledUnder'[m]] = policies[g][ruledUnder[m]]
      BY <1>2, NothingAdded
    <2>2. Value(Autonomous(g, D))' = Value(Autonomous(g, D))
      BY <2>1 DEF Value
    <2> QED
      BY <2>1, <2>2 DEF SomeLimit
  <1> QED
    BY <1>1, <1>2

LEMMA FrequencyStep ==
    ASSUME GateInv, GateTypeOK', [GateNext]_gateVars, NEW g \in Agents, NEW D, NEW of,
           SomeLimit(g, Autonomous(g, D), Cardinality(Autonomous(g, D)), of),
           \A a \in Amounts : today \in D /\ WithinLimits(g, a) =>
               LET limit == policies[g][Len(policies[g])][of]
               IN  limit = None \/ Cardinality(Autonomous(g, D)) + 1 <= limit
    PROVE  SomeLimit(g, Autonomous(g, D), Cardinality(Autonomous(g, D)), of)'
  <1>1. ASSUME NEW x \in Movements, evaluation[x] # "allow", evaluation'[x] = "allow",
               source'[x] = g, createdOn'[x] \in D
        PROVE  SomeLimit(g, Autonomous(g, D), Cardinality(Autonomous(g, D)), of)'
    <2>1. PICK h \in Agents, a \in Amounts : Allowed(x, h, a) /\ WithinLimits(h, a)
      BY <1>1, NewlyAllowed DEF GateInv
    <2>2. h = g /\ createdOn'[x] = today
      BY <1>1, <2>1 DEF Allowed, RecordRow, GateInv, GateTypeOK, TypeOK
    <2>3. /\ x \in Autonomous(g, D)'
          /\ Cardinality(Autonomous(g, D)') = Cardinality(Autonomous(g, D)) + 1
          /\ policies'[g][ruledUnder'[x]] = policies[g][Len(policies[g])]
      BY <1>1, <2>1, <2>2, OneAdded
    <2> QED
      BY <1>1, <2>1, <2>2, <2>3 DEF SomeLimit
  <1>2. CASE \A x \in Movements : evaluation[x] # "allow" /\ evaluation'[x] = "allow" =>
               ~(source'[x] = g /\ createdOn'[x] \in D)
    <2>1. LET S == Autonomous(g, D)
          IN  /\ Autonomous(g, D)' = S
              /\ \A m \in S : policies'[g][ruledUnder'[m]] = policies[g][ruledUnder[m]]
      BY <1>2, NothingAdded
    <2> QED
      BY <2>1 DEF SomeLimit
  <1> QED
    BY <1>1, <1>2

LEMMA LimitsStep == GateInv /\ GateTypeOK' /\ [GateNext]_gateVars
                        => LimitsBindTheAgent' /\ VelocityBindsTheAgent'
  <1> SUFFICES ASSUME GateInv, GateTypeOK', [GateNext]_gateVars
               PROVE  LimitsBindTheAgent' /\ VelocityBindsTheAgent'
    OBVIOUS
  <1>0. LimitsBindTheAgent /\ VelocityBindsTheAgent
    BY DEF GateInv
  <1>1. ASSUME NEW g \in Agents, NEW d \in 0 .. MaxDay
        PROVE  /\ SomeLimit(g, Autonomous(g, {d}), Value(Autonomous(g, {d})), "daily")'
               /\ SomeLimit(g, Autonomous(g, {d}), Cardinality(Autonomous(g, {d})), "maxPerDay")'
    <2>1. /\ SomeLimit(g, Autonomous(g, {d}), Value(Autonomous(g, {d})), "daily")
          /\ SomeLimit(g, Autonomous(g, {d}), Cardinality(Autonomous(g, {d})), "maxPerDay")
      BY <1>0 DEF LimitsBindTheAgent, VelocityBindsTheAgent
    <2>2. \A a \in Amounts : today \in {d} /\ WithinLimits(g, a) =>
              LET p == policies[g][Len(policies[g])]
              IN  /\ p["daily"] = None \/ Value(Autonomous(g, {d})) + a <= p["daily"]
                  /\ \/ p["maxPerDay"] = None
                     \/ Cardinality(Autonomous(g, {d})) + 1 <= p["maxPerDay"]
      BY DayFits
    <2> QED
      BY <2>1, <2>2, SpendStep, FrequencyStep
  <1>2. ASSUME NEW g \in Agents, NEW month \in 0 .. MaxDay \div DaysPerMonth,
               NEW D, D = {d \in 0 .. MaxDay : d \div DaysPerMonth = month}
        PROVE  SomeLimit(g, Autonomous(g, D), Value(Autonomous(g, D)), "monthly")'
    <2>1. SomeLimit(g, Autonomous(g, D), Value(Autonomous(g, D)), "monthly")
      BY <1>0, <1>2, Zenon DEF LimitsBindTheAgent
    <2>2. /\ D \in SUBSET (0 .. MaxDay)
          /\ \A d \in D : d \div DaysPerMonth = month
      BY <1>2, Zenon
    <2>3. \A a \in Amounts : today \in D /\ WithinLimits(g, a) =>
              LET p == policies[g][Len(policies[g])]
              IN  p["monthly"] = None \/ Value(Autonomous(g, D)) + a <= p["monthly"]
      <3>1. today \in D => \A d \in D : d \div DaysPerMonth = today \div DaysPerMonth
        BY <2>2, Zenon
      <3> QED
        BY <2>2, <3>1, MonthFits, Zenon
    <2> QED
      BY <2>1, <2>3, SpendStep, Zenon
  <1>3. LimitsBindTheAgent'
    BY <1>1, <1>2, Zenon DEF LimitsBindTheAgent
  <1>4. VelocityBindsTheAgent'
    BY <1>1, Zenon DEF VelocityBindsTheAgent
  <1> QED
    BY <1>3, <1>4

----------------------------------------------------------------------------
(***************************************************************************)
(* The theorems.                                                           *)
(***************************************************************************)
LEMMA RulingsStep ==
    GateInv /\ GateTypeOK' /\ [GateNext]_gateVars
        => /\ AllowedWentThrough' /\ AllowedPayeesExist' /\ NewPayeesWereConfirmed'
           /\ ApprovalsWereHeld'
  <1> SUFFICES ASSUME GateInv, GateTypeOK', [GateNext]_gateVars
               PROVE  /\ AllowedWentThrough' /\ AllowedPayeesExist'
                      /\ NewPayeesWereConfirmed' /\ ApprovalsWereHeld'
    OBVIOUS
  <1>0. /\ GateTypeOK /\ TypeOK /\ [Next]_vars
        /\ ApprovalsWereHeld /\ AllowedWentThrough
        /\ AllowedPayeesExist /\ NewPayeesWereConfirmed
    BY GateStepIsStep DEF GateInv, GateTypeOK
  <1>1. ASSUME NEW x \in Movements, evaluation'[x] = "allow"
        PROVE  /\ status'[x] \in {"processing", "completed"}
               /\ source'[x] \in Agents
               /\ ruledUnder'[x] \in 1 .. Len(policies'[source'[x]])
    <2>1. CASE evaluation[x] = "allow"
      <3>1. /\ SameRuling(x) /\ status[x] \in {"processing", "completed"}
            /\ source[x] \in Agents /\ ruledUnder[x] \in 1 .. Len(policies[source[x]])
        BY <1>0, <2>1, AllowedStays DEF AllowedWentThrough
      <3>2. /\ Len(policies[source[x]]) <= Len(policies'[source[x]])
            /\ Len(policies[source[x]]) \in Nat /\ Len(policies'[source[x]]) \in Nat
        BY <1>0, <3>1, VersionsStay
      <3>3. ruledUnder'[x] = ruledUnder[x] /\ source'[x] = source[x] /\ status'[x] = status[x]
        BY <3>1 DEF SameRuling
      <3> QED
        BY <3>1, <3>2, <3>3
    <2>2. CASE evaluation[x] # "allow"
      <3>1. PICK g \in Agents, a \in Amounts : Allowed(x, g, a) /\ WithinLimits(g, a)
        BY <1>0, <1>1, <2>2, NewlyAllowed
      <3>2. /\ source'[x] = g /\ ruledUnder'[x] = Len(policies[g]) /\ policies' = policies
            /\ status'[x] \in {"processing", "completed"}
        BY <1>0, <3>1 DEF Allowed, RecordRow, GateTypeOK, TypeOK
      <3>3. policies[g] \in Seq(Documents) /\ policies[g] # <<>>
        BY <1>0, <3>1 DEF WithinLimits, GateTypeOK
      <3>4. Len(policies[g]) \in Nat /\ Len(policies[g]) # 0
        BY <3>3, LenProperties, EmptySeq
      <3> QED
        BY <3>2, <3>4
    <2> QED
      BY <2>1, <2>2
  <1>2. ASSUME NEW x \in Payments, evaluation'[x] = "allow"
        PROVE  /\ payee'[x] \in Counterparties /\ counterparty'[payee'[x]] # "none"
               /\ LET p == policies'[source'[x]][ruledUnder'[x]]
                  IN  p.holdNew \/ p.verifiedOnly => counterparty'[payee'[x]] # "unverified"
    <2>0. x \in Movements
      BY DEF Movements
    <2>1. CASE evaluation[x] = "allow"
      <3>1. /\ payee[x] \in Counterparties /\ counterparty[payee[x]] # "none"
            /\ source[x] \in Agents /\ ruledUnder[x] \in 1 .. Len(policies[source[x]])
        BY <1>0, <2>0, <2>1 DEF AllowedPayeesExist, AllowedWentThrough
      <3>2. LET p == policies[source[x]][ruledUnder[x]]
            IN  p.holdNew \/ p.verifiedOnly => counterparty[payee[x]] # "unverified"
        BY <1>0, <2>1 DEF NewPayeesWereConfirmed
      <3>3. payee'[x] = payee[x] /\ source'[x] = source[x] /\ ruledUnder'[x] = ruledUnder[x]
        BY <1>0, <2>0, <2>1, AllowedStays DEF SameRuling
      <3>4. policies'[source[x]][ruledUnder[x]] = policies[source[x]][ruledUnder[x]]
        BY <1>0, <3>1, VersionsStay
      <3>5. /\ counterparty'[payee[x]] # "none"
            /\ counterparty[payee[x]] # "unverified" => counterparty'[payee[x]] # "unverified"
        BY <1>0, <3>1, CounterpartiesStay
      <3> QED
        BY <3>1, <3>2, <3>3, <3>4, <3>5
    <2>2. CASE evaluation[x] # "allow"
      <3>1. PICK g \in Agents, a \in Amounts : Allowed(x, g, a) /\ MayBePaid(x, g)
        BY <1>0, <1>2, <2>0, <2>2, NewlyAllowed
      <3>2. source'[x] = g /\ ruledUnder'[x] = Len(policies[g]) /\ policies' = policies
        BY <1>0, <2>0, <3>1 DEF Allowed, RecordRow, GateTypeOK, TypeOK
      <3> QED
        BY <3>1, <3>2 DEF MayBePaid
    <2> QED
      BY <2>1, <2>2
  <1>3. ApprovalsWereHeld'
    BY <1>0, ApprovalsHeldStep
  <1> QED
    BY <1>1, <1>2, <1>3
    DEF AllowedWentThrough, AllowedPayeesExist, NewPayeesWereConfirmed

LEMMA GateInvStep == GateInv /\ [GateNext]_gateVars => GateInv'
  <1>1. GateInv /\ [GateNext]_gateVars => GateTypeOK' /\ VersionsAreBounded'
    BY GateTypeStep DEF GateInv
  <1> QED
    BY <1>1, LimitsStep, RulingsStep DEF GateInv

\* Policies, payees, days and recorded versions stay well typed.
THEOREM GateTypeCorrect == GateSpec => []GateTypeOK
  <1>1. GateInv => GateTypeOK
    BY DEF GateInv
  <1> QED
    BY <1>1, GateInvInit, GateInvStep, PTL DEF GateSpec

\* An agent on its own spends no more, in a day or in a month, than the most
\* generous limit that was in force when it spent.
THEOREM SpendingIsLimited == GateSpec => []LimitsBindTheAgent
  <1>1. GateInv => LimitsBindTheAgent
    BY DEF GateInv
  <1> QED
    BY <1>1, GateInvInit, GateInvStep, PTL DEF GateSpec

\* Nor more often in a day.
THEOREM FrequencyIsLimited == GateSpec => []VelocityBindsTheAgent
  <1>1. GateInv => VelocityBindsTheAgent
    BY DEF GateInv
  <1> QED
    BY <1>1, GateInvInit, GateInvStep, PTL DEF GateSpec

\* Where the policy asks for it, an agent on its own pays only counterparties
\* the owner has confirmed.
THEOREM OnlyKnownArePaid == GateSpec => []NewPayeesWereConfirmed
  <1>1. GateInv => NewPayeesWereConfirmed
    BY DEF GateInv
  <1> QED
    BY <1>1, GateInvInit, GateInvStep, PTL DEF GateSpec

\* What the policy allowed is never touched again: no decision, cancellation,
\* expiry, policy change or midnight alters the row, its payee, its day or the
\* version it was ruled under.
THEOREM AllowedIsFinal ==
    GateSpec => [][\A m \in Movements : evaluation[m] = "allow" => SameRuling(m)]_gateVars
  <1>1. GateInv /\ [GateNext]_gateVars =>
            [\A m \in Movements : evaluation[m] = "allow" => SameRuling(m)]_gateVars
    BY AllowedStays DEF GateInv
  <1> QED
    BY <1>1, GateInvInit, GateInvStep, PTL DEF GateSpec

\* The policy engine only chooses among the steps MoneyMovement already allows:
\* whatever holds of all requests holds of those the gate lets through.
THEOREM GateStaysWithinTheFlow == GateSpec => Init /\ [][Next]_vars
  <1>1. GateInit => Init
    BY DEF GateInit
  <1>2. GateInv /\ [GateNext]_gateVars => [Next]_vars
    BY GateStepIsStep DEF GateInv
  <1> QED
    BY <1>1, <1>2, GateInvInit, GateInvStep, PTL DEF GateSpec

\* ... so the ledger, the holds and the contract hold under the gate too.
THEOREM GatedMoneyKeepsTheContract ==
    ASSUME SettlesAtOnce
    PROVE  GateSpec =>
               /\ [](BalanceDerives /\ PendingOutIsHeld /\ Solvent /\ SettlementIsPaid)
               /\ Contract!Init /\ [][Contract!Next]_(Contract!contractVars)
  <1> DEFINE Money == /\ TypeOK /\ ApprovalMatchesRow /\ BalanceDerives
                      /\ PendingOutIsHeld /\ Solvent /\ SettlementIsPaid /\ HeldNamesFit
  <1>1. Init => Money
    BY TypeInit, ApprovalInit, BalanceInit, HeldInit, SolventInit, PaidInit
  <1>2. Money /\ [Next]_vars => Money'
    BY TypeStep, ApprovalStep, BalanceStep, HeldStep, SolventStep, PaidStep
  <1>3. Money /\ [Next]_vars => [Contract!Next]_(Contract!contractVars)
    BY ContractStep
  <1>4. Money => BalanceDerives /\ PendingOutIsHeld /\ Solvent /\ SettlementIsPaid
    OBVIOUS
  <1> HIDE DEF Money
  <1> QED
    BY <1>1, <1>2, <1>3, <1>4, ContractInit, GateStaysWithinTheFlow, PTL

=============================================================================
