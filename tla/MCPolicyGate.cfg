CONSTANTS
    None = None
    c1 = c1
    c2 = c2
    Agents = {a1}
    Treasury = treasury
    Payments = {p1}
    Transfers = {t1}
    Counterparties = {c1}
    MaxAmount = 2
    MaxFunding = 3
    DispatchResults = {"completed"}
    Documents <- MCDocuments
    CurrencyOf <- MCCurrencyOf
    Abroad = {}
    OwnerCurrency = "USD"
    Verification = "verified"
    MaxVersions = 2
    MaxDay = 2
    DaysPerMonth = 2
SPECIFICATION GateSpec
INVARIANTS GateTypeOK LimitsBindTheAgent VelocityBindsTheAgent NewPayeesWereConfirmed
CHECK_DEADLOCK FALSE
