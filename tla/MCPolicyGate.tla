---------------------------- MODULE MCPolicyGate ----------------------------
(***************************************************************************)
(* Instances of PolicyGate for TLC.                                        *)
(***************************************************************************)
EXTENDS PolicyGate, TLC

CONSTANTS c1, c2

NoLimits ==
    [perTransaction |-> None, daily |-> None, monthly |-> None, maxPerDay |-> None,
     above |-> None, payees |-> None, currencies |-> None, merchants |-> None,
     verifiedOnly |-> FALSE, holdNew |-> FALSE, holdCrossBorder |-> FALSE]

\* A daily limit; new counterparties are reviewed.
Limited == [NoLimits EXCEPT !.daily = 2, !.holdNew = TRUE]

\* A monthly limit, one transaction a day, to verified counterparties only.
Careful == [NoLimits EXCEPT !.monthly = 2, !.maxPerDay = 1, !.verifiedOnly = TRUE]

MCDocuments == {Limited, Careful}
MCCurrencyOf == [c \in Counterparties |-> OwnerCurrency]
=============================================================================
