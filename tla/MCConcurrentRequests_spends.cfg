CONSTANTS
    p1 = p1
    p2 = p2
    None = none
    Transactions = {r1, r2}
    Payments = {p1, p2}
    amount <- MCAmount
    Opening = 2
    DailyLimit = 2
SPECIFICATION ConcurrentSpec
INVARIANT PaymentsAreCovered
CHECK_DEADLOCK FALSE
