CONSTANTS
    a1 = a1
    a2 = a2
    p1 = p1
    p2 = p2
    t1 = t1
    c1 = c1
    Agents = {a1, a2}
    Treasury = treasury
    Payments = {p1, p2}
    Transfers = {t1}
    Counterparties = {c1}
    MaxAmount = 2
    MaxFunding = 3
    DispatchResults = {"completed"}
SYMMETRY AgentsAndPayments
SPECIFICATION Spec
INVARIANTS TypeOK BalanceDerives PendingOutIsHeld Solvent SettlementIsPaid ApprovalMatchesRow
PROPERTIES DecisionsAreFinal OverdueOnlyExpires
CHECK_DEADLOCK FALSE
