CONSTANTS
    p1 = p1
    p2 = p2
    Requests = {r1, r2}
    Credentials = {x1}
    PoolSize = 2
    MaxId = 3
    Limits = {1, 2}
    Viewer = a1
    OwnerView = o1
    Whatever = whatever
    Writers = {w1, w2, w3}
    Readers = {g1}
    NoPolicy = noPolicy
    Transactions = {t1, t2}
    Payments = {p1, p2}
    amount <- MCAmount
    Opening = 2
    DailyLimit = 1
    None = none
    Calls = {c1, c2, c3}
    Keys = {k1}
    Bodies = {b1}
    Nothing = nothing
SPECIFICATION OverlappingSpec
INVARIANTS
    OverlappingTypeOK RevocationStops SuspensionStops DenialsAreRecorded
    WalksAreComplete VersionsAreDistinct
    HeldTogether DerivesUnlessOverwritten ExactUnlessRaced
    OneEffectUnlessRaced RecordsAreTrue AuditIsTrue
PROPERTIES RequestsEnd RecordsAreKept
CHECK_DEADLOCK FALSE
