---------------------------- MODULE MCSequential ----------------------------
(***************************************************************************)
(* The components in which each request is one step, side by side.  They   *)
(* share no variable, so a behaviour is one of the component in focus      *)
(* while the others stay as they begin.                                    *)
(***************************************************************************)
EXTENDS Tenancy, QuotedPayments, Rounding, PolicyOrder

CONSTANTS
    o1, o2, a1, a2, a3, b1, c1, c2, d1, q1, p1, t1, k1, v1, w1,
    usd, eur, local, abroad

VARIABLE focus

sequentialVars == <<focus, tenancyVars, quotesVars, roundingVars, orderVars>>

MCFounded == [i \in {a1, a2, b1, c1, d1} |-> IF i \in {b1, d1} THEN o2 ELSE o1]

\* a2 may look at its own and do nothing.
MCScopesOf ==
    LET reading == {"payments:read", "approvals:read"}
        acting == {"counterparties:create", "counterparties:read", "quotes:create",
                   "payments:create", "transfers:create", "cards:freeze"}
    IN  [a \in Agents |-> IF a = a2 THEN reading ELSE reading \cup acting]

MCSettlesIn == [y \in Payees |-> IF y = local THEN usd ELSE eur]

\* A rate that loses units on the way there, and one that loses them at home.
MCRates == {<<9, 10>>, <<5, 2>>}

MCPayeeLists == {{}}
MCCurrencyLists == {{}}

\* Rows, quotes, rounded columns and policies keep their types; in particular no
\* rounding makes available negative (ensure_available compares exact amounts).
SequentialTypeOK == TenancyTypeOK /\ QuotesTypeOK /\ RoundingTypeOK /\ OrderTypeOK

\* What the market offers and the agent asks for at first varies in focus only.
SequentialInit ==
    /\ focus \in {"tenancy", "quotes", "rounding", "order"}
    /\ QuotesInit /\ (focus # "quotes" => market = CHOOSE f \in [Foreign -> Rates] : TRUE)
    /\ OrderInit /\ (focus # "order" => act = Asked("payment", CHOOSE a \in Amounts : TRUE))
    /\ TenancyInit /\ RoundingInit

SequentialNext ==
    /\ UNCHANGED focus
    /\ IF focus = "tenancy" THEN TenancyNext ELSE UNCHANGED tenancyVars
    /\ IF focus = "quotes" THEN QuotesNext ELSE UNCHANGED quotesVars
    /\ IF focus = "rounding" THEN RoundingNext ELSE UNCHANGED roundingVars
    /\ IF focus = "order" THEN OrderNext ELSE UNCHANGED orderVars

SequentialSpec == SequentialInit /\ [][SequentialNext]_sequentialVars

=============================================================================
