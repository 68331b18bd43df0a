CONSTANTS
    m1 = m1
    m2 = m2
    Movements = {m1, m2}
    Finer = 4
    MaxParts = 10
    AmountsGiven = {1, 2, 3, 4, 5, 6, 7, 8, 9, 10}
    Limit = 1000
    Grains = {1}
    MaxCloseCalls = 2
    MaxFunded = 5
SPECIFICATION RoundingSpec
INVARIANT ColumnsAgree
CHECK_DEADLOCK FALSE
