---------------------------- MODULE PolicyOrder ----------------------------
(***************************************************************************)
(* policy/engine.py asked again and again while the owner only tightens    *)
(* the document, the agent asks for more, and the standing of the agent,   *)
(* the owner and the payee only gets worse.  The engine is a pure          *)
(* function, so its arguments are the state.                               *)
(***************************************************************************)
EXTENDS PolicyEngine

CONSTANTS
    Types,       \* action types the services evaluate
    Amounts,     \* amounts that are asked for
    Limits,      \* numbers a document may set
    MaxUsed,     \* bound: usage that is reached
    Payee,       \* a counterparty
    PayeeLists,  \* counterparty allowlists a document may set
    Currency,    \* the currency the counterparty settles in
    CurrencyLists  \* currency allowlists a document may set

\* What a caller, a document and an aggregate may hold (policy/types.py).
Action ==
    [type : Types, amount : Amounts \cup {None}, currency : {Currency, None},
     payee : {Payee, None}, payeeStatus : {"verified", "unverified", "blocked", None},
     crossBorder : BOOLEAN, merchant : {None}, daily : Nat, monthly : Nat, today : Nat]

Document ==
    [perTransaction : Limits \cup {None}, daily : Limits \cup {None},
     monthly : Limits \cup {None}, maxPerDay : Limits \cup {None},
     above : Limits \cup {None}, payees : PayeeLists \cup {None},
     currencies : CurrencyLists \cup {None}, merchants : {None},
     verifiedOnly : BOOLEAN, holdNew : BOOLEAN, holdCrossBorder : BOOLEAN]

ASSUME NumbersAreNatural ==
    Amounts \subseteq Nat /\ Limits \subseteq Nat /\ MaxUsed \in Nat

\* A field that is not set differs from every value it may have.
ASSUME NoneIsNoValue ==
    /\ None \notin Amounts \cup Limits
    /\ None \notin PayeeLists \cup CurrencyLists
    /\ None \notin {"verified", "unverified", "blocked"}
    /\ None \notin Document

VARIABLES
    act,    \* ActionContext
    agent,  \* AgentContext
    p       \* the document in force

orderVars == <<act, agent, p>>

OrderTypeOK ==
    /\ act \in Action
    /\ agent \in [status : {"active", "suspended"}, owner : {"verified"}]
    /\ p \in Document

\* The document of a policy that sets nothing.
Permissive ==
    [perTransaction |-> None, daily |-> None, monthly |-> None, maxPerDay |-> None,
     above |-> None, payees |-> None, currencies |-> None, merchants |-> None,
     verifiedOnly |-> FALSE, holdNew |-> FALSE, holdCrossBorder |-> FALSE]

\* A counterparty is evaluated without an amount and a currency, a transfer
\* without a payee.
Asked(type, a) ==
    [type |-> type,
     amount |-> IF type \in Monetary THEN a ELSE None,
     currency |-> IF type \in Monetary THEN Currency ELSE None,
     payee |-> IF type = "transfer" THEN None ELSE Payee,
     payeeStatus |-> IF type = "transfer" THEN None
                     ELSE IF type = "payment" THEN "verified" ELSE "unverified",
     crossBorder |-> type = "payment", merchant |-> None,
     daily |-> 0, monthly |-> 0, today |-> 0]

OrderInit ==
    /\ act \in {Asked(type, a) : type \in Types, a \in Amounts}
    /\ agent = [status |-> "active", owner |-> "verified"]
    /\ p = Permissive

----------------------------------------------------------------------------
\* The owner lowers a limit, or sets one that was not set.
LowerLimit(field, n) ==
    /\ p[field] # None => n < p[field]
    /\ p' = [p EXCEPT ![field] = n]
    /\ UNCHANGED <<act, agent>>

\* The owner shortens an allowlist, or sets one that was not set.
ShortenList(field, list) ==
    /\ p[field] # None => list \subseteq p[field]
    /\ p' = [p EXCEPT ![field] = list]
    /\ UNCHANGED <<act, agent>>

RequireMore(field) ==
    /\ p' = [p EXCEPT ![field] = TRUE]
    /\ UNCHANGED <<act, agent>>

\* The agent asks for a larger amount.
AskForMore(a) ==
    /\ act.amount # None /\ act.amount < a
    /\ act' = [act EXCEPT !.amount = a]
    /\ UNCHANGED <<agent, p>>

\* Another movement of the agent goes through today, or went through earlier
\* this month.
UseUp(now) ==
    /\ act.monthly < MaxUsed
    /\ act' = [act EXCEPT !.monthly = @ + 1, !.daily = @ + now, !.today = @ + now]
    /\ UNCHANGED <<agent, p>>

\* A verified payee is worth more than one nobody looked at, and a blocked one
\* is worth nothing.
Distrust(from, to) ==
    /\ act.payeeStatus = from
    /\ act' = [act EXCEPT !.payeeStatus = to]
    /\ UNCHANGED <<agent, p>>

Suspend ==
    /\ agent' = [agent EXCEPT !.status = "suspended"]
    /\ UNCHANGED <<act, p>>

OrderNext ==
    \/ \E field \in {"perTransaction", "daily", "monthly", "maxPerDay", "above"},
          n \in Limits : LowerLimit(field, n)
    \/ \E list \in PayeeLists : ShortenList("payees", list)
    \/ \E list \in CurrencyLists : ShortenList("currencies", list)
    \/ \E field \in {"verifiedOnly", "holdNew", "holdCrossBorder"} : RequireMore(field)
    \/ \E a \in Amounts : AskForMore(a)
    \/ \E now \in {0, 1} : UseUp(now)
    \/ Distrust("verified", "unverified") \/ Distrust("unverified", "blocked")
    \/ Suspend

OrderSpec == OrderInit /\ [][OrderNext]_orderVars

----------------------------------------------------------------------------
(***************************************************************************)
(* Properties.                                                             *)
(***************************************************************************)
Severity(outcome) ==
    CASE outcome = "allow" -> 0 [] outcome = "hold" -> 1 [] outcome = "deny" -> 2

Ruling == Evaluate(act, agent, p).outcome

\* Tightening a policy, asking for more or losing standing never turns a denial
\* into a hold, nor either of them into an approval: the order in which
\* engine.py tries its rules opens no way around one of them.
RulingOnlyTightens ==
    [][Severity(Ruling') >= Severity(Ruling)]_orderVars

\* Denials are categorical (the first group of engine.py): neither the amount
\* nor what was spent before decides whether an action is denied, so no denial
\* can be avoided by splitting an amount or by waiting for the next day.
DenialsAreCategorical ==
    \A a \in Amounts, n \in 0 .. MaxUsed :
        LET other == [act EXCEPT !.amount = IF @ = None THEN None ELSE a,
                                 !.daily = n, !.monthly = n, !.today = n]
        IN  Ruling = "deny" <=> Evaluate(other, agent, p).outcome = "deny"

=============================================================================
