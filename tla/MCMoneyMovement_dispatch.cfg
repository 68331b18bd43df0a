CONSTANTS
    a1 = a1
    a2 = a2
    p1 = p1
    p2 = p2
    t1 = t1
    c1 = c1
    Agents = {a1}
    Treasury = treasury
    Payments = {p1}
    Transfers = {}
    Counterparties = {}
    MaxAmount = 2
    MaxFunding = 2
    DispatchResults = {"completed", "processing", "failed"}
SPECIFICATION Spec
PROPERTY DispatchedIsNotCancelled
CHECK_DEADLOCK FALSE
