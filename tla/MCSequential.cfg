CONSTANTS
    o1 = o1
    o2 = o2
    a1 = a1
    a2 = a2
    a3 = a3
    b1 = b1
    c1 = c1
    c2 = c2
    d1 = d1
    q1 = q1
    p1 = p1
    t1 = t1
    k1 = k1
    v1 = v1
    w1 = w1
    usd = usd
    eur = eur
    local = local
    abroad = abroad
    Owners = {o1, o2}
    Agents = {a1, a2, a3, b1}
    Founded <- MCFounded
    ScopesOf <- MCScopesOf
    Counterparties = {c1, c2, d1}
    Quotes = {q1}
    Payments = {p1}
    Transfers = {t1}
    Cards = {k1}
    Accounts = {v1}
    Endpoints = {w1}
    MaxChanges = 2
    Nobody = nobody
    QuoteIds = {q1}
    PaymentIds = {p1}
    Home = usd
    Foreign = {eur}
    Payees = {local, abroad}
    SettlesIn <- MCSettlesIn
    Rates <- MCRates
    Cent = 2
    Precision = 10000
    NoQuote = noQuote
    NoRate = noRate
    Finer = 20
    MaxParts = 136
    AmountsGiven = {7, 9, 10, 11, 30, 40, 67, 110, 136}
    Limit = 40
    Grains = {1, 10}
    MaxCloseCalls = 2
    MaxFunded = 6
    Movements = {p1, t1, k1}
    None = None
    Types = {"payment", "transfer", "counterparty"}
    Amounts = {1, 2}
    Limits = {1}
    MaxUsed = 1
    Payee = c1
    PayeeLists <- MCPayeeLists
    Currency = usd
    CurrencyLists <- MCCurrencyLists
SPECIFICATION SequentialSpec
INVARIANTS
    SequentialTypeOK ReferencesStayInTenant
    BothAmountsAreRecorded RepricedWithinRounding DriftIsBounded DenialsAreCategorical
PROPERTIES ChangesStayInTenant AgentsStayInTheBox QuotesAreFirm RulingOnlyTightens
CHECK_DEADLOCK FALSE
