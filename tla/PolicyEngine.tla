---------------------------- MODULE PolicyEngine ----------------------------
(***************************************************************************)
(* policy/engine.py: what an agent's policy says about an action.          *)
(*                                                                         *)
(* An action is a record                                                   *)
(*   [type, amount, currency, payee, payeeStatus, crossBorder, merchant,   *)
(*    daily, monthly, today]                                               *)
(* with the agent's usage already aggregated; an agent context is          *)
(*   [status, owner];                                                      *)
(* a policy document is None or a record                                   *)
(*   [perTransaction, daily, monthly, maxPerDay, above : a number or None, *)
(*    payees, currencies, merchants : a set or None,                       *)
(*    verifiedOnly, holdNew, holdCrossBorder : BOOLEAN].                   *)
(***************************************************************************)
EXTENDS Integers, Sequences, FiniteSetsExt

CONSTANT None  \* no value: an optional field that is not set

Monetary == {"payment", "transfer", "card_authorization"}

\* The categorical rules, in the order they are tried.
DenyRules == <<"agent_not_active", "owner_not_verified", "counterparty_blocked",
               "currency_allowlist", "merchant_category_allowlist",
               "counterparty_allowlist", "verified_counterparties_only">>

\* The quantitative and review rules, in the order they are tried.
HoldRules == <<"per_transaction_limit", "daily_limit", "monthly_limit",
               "max_transactions_per_day", "require_approval_above",
               "new_counterparty", "cross_border">>

OffList(value, list) == list # None /\ value # None /\ value \notin list
Over(n, limit) == limit # None /\ n > limit

Denies(rule, act, agent, p) ==
    CASE rule = "agent_not_active" -> agent.status # "active"
      [] rule = "owner_not_verified" -> agent.owner # "verified"
      [] rule = "counterparty_blocked" -> act.payeeStatus = "blocked"
      [] rule = "currency_allowlist" -> OffList(act.currency, p.currencies)
      [] rule = "merchant_category_allowlist" -> OffList(act.merchant, p.merchants)
      [] rule = "counterparty_allowlist" ->
            act.type = "payment" /\ OffList(act.payee, p.payees)
      [] rule = "verified_counterparties_only" ->
            /\ act.type = "payment" /\ act.payee # None
            /\ p.verifiedOnly /\ act.payeeStatus # "verified"

\* Fault: the day's limit is compared with what was spent before.
HoldsOneTooLate(rule, act, p) ==
    LET counted == act.type \in Monetary /\ act.amount # None
    IN  CASE rule = "daily_limit" -> counted /\ Over(act.daily, p.daily)
          [] rule = "monthly_limit" -> counted /\ Over(act.monthly, p.monthly)
          [] OTHER -> FALSE

\* Fault: only the creation of a new counterparty is held, not payments to it.
HoldsCreationOnly(rule, act, p) ==
    /\ rule = "new_counterparty" /\ act.type = "counterparty"
    /\ p.holdNew /\ act.payeeStatus = "unverified"

Holds(rule, act, p) ==
    LET counted == act.type \in Monetary /\ act.amount # None
    IN  CASE rule = "per_transaction_limit" ->
                counted /\ Over(act.amount, p.perTransaction)
          [] rule = "daily_limit" -> counted /\ Over(act.daily + act.amount, p.daily)
          [] rule = "monthly_limit" ->
                counted /\ Over(act.monthly + act.amount, p.monthly)
          [] rule = "max_transactions_per_day" ->
                counted /\ Over(act.today + 1, p.maxPerDay)
          [] rule = "require_approval_above" -> counted /\ Over(act.amount, p.above)
          [] rule = "new_counterparty" ->
                /\ act.type \in {"payment", "counterparty"}
                /\ p.holdNew /\ act.payeeStatus = "unverified"
          [] rule = "cross_border" ->
                act.type = "payment" /\ p.holdCrossBorder /\ act.crossBorder

\* Which rules of each list hit, by their place in it.
Denying(act, agent, p) == {i \in DOMAIN DenyRules : Denies(DenyRules[i], act, agent, p)}
Holding(act, p) == {i \in DOMAIN HoldRules : Holds(HoldRules[i], act, p)}

Denial(rules) == [outcome |-> "deny", rule |-> DenyRules[Min(rules)]]
Hold(rules) == [outcome |-> "hold", rule |-> HoldRules[Min(rules)]]

\* Fault: review rules are tried first, so that an owner is asked to approve
\* what the policy forbids.
EvaluateHoldsFirst(act, agent, p) ==
    IF p = None THEN [outcome |-> "deny", rule |-> "no_policy"]
    ELSE IF Holding(act, p) # {} THEN Hold(Holding(act, p))
    ELSE IF Denying(act, agent, p) # {} THEN Denial(Denying(act, agent, p))
    ELSE [outcome |-> "allow", rule |-> None]

\* Without a policy everything is denied; what is forbidden is denied before
\* what needs a review is held; the rest is allowed.  The first rule of a list
\* that hits is the one that is reported.
Evaluate(act, agent, p) ==
    IF p = None THEN [outcome |-> "deny", rule |-> "no_policy"]
    ELSE IF Denying(act, agent, p) # {} THEN Denial(Denying(act, agent, p))
    ELSE IF Holding(act, p) # {} THEN Hold(Holding(act, p))
    ELSE [outcome |-> "allow", rule |-> None]

=============================================================================
