-------------------------- MODULE SequentialProofs --------------------------
(***************************************************************************)
(* The components in which each request is one step, proved: the order of  *)
(* the policy engine's rules, for every document, list, limit and amount;  *)
(* how far rounded columns drift, for amounts of any length; and the       *)
(* types of all four components.  What is proved about tenants and quotes  *)
(* is in modules of their own.                                             *)
(***************************************************************************)
EXTENDS MCSequential, TenancyProofs, QuotedPaymentsProofs, FiniteSetTheorems,
        WellFoundedInduction

----------------------------------------------------------------------------
(***************************************************************************)
(* The order of the rules.                                                 *)
(***************************************************************************)

\* What is asked for, the agent and the document are well typed throughout.
LEMMA OrderTypeInit == OrderInit => OrderTypeOK
  <1> SUFFICES ASSUME OrderInit PROVE OrderTypeOK
    OBVIOUS
  <1>1. PICK type \in Types, a \in Amounts : act = Asked(type, a)
    BY DEF OrderInit
  <1>2. act \in Action
    BY <1>1 DEF Asked, Action, Monetary
  <1>3. p \in Document
    BY DEF OrderInit, Permissive, Document
  <1> QED
    BY <1>2, <1>3 DEF OrderInit, OrderTypeOK

LEMMA OrderTypeStep == OrderTypeOK /\ [OrderNext]_orderVars => OrderTypeOK'
  <1> SUFFICES ASSUME OrderTypeOK, [OrderNext]_orderVars PROVE OrderTypeOK'
    OBVIOUS
  <1> USE DEF OrderTypeOK
  <1>1. ASSUME NEW field \in {"perTransaction", "daily", "monthly", "maxPerDay", "above"},
               NEW n \in Limits, LowerLimit(field, n)
        PROVE  OrderTypeOK'
    BY <1>1 DEF LowerLimit, Document
  <1>2. ASSUME NEW list \in PayeeLists, ShortenList("payees", list)
        PROVE  OrderTypeOK'
    BY <1>2 DEF ShortenList, Document
  <1>3. ASSUME NEW list \in CurrencyLists, ShortenList("currencies", list)
        PROVE  OrderTypeOK'
    BY <1>3 DEF ShortenList, Document
  <1>4. ASSUME NEW field \in {"verifiedOnly", "holdNew", "holdCrossBorder"},
               RequireMore(field)
        PROVE  OrderTypeOK'
    BY <1>4 DEF RequireMore, Document
  <1>5. ASSUME NEW a \in Amounts, AskForMore(a)
        PROVE  OrderTypeOK'
    BY <1>5 DEF AskForMore, Action
  <1>6. ASSUME NEW now \in {0, 1}, UseUp(now)
        PROVE  OrderTypeOK'
    <2>1. now \in Nat /\ act.monthly \in Nat /\ act.daily \in Nat /\ act.today \in Nat
      BY DEF Action
    <2> DEFINE inMonth == [act EXCEPT !.monthly = act.monthly + 1]
               inDay == [inMonth EXCEPT !.daily = act.daily + now]
               inAll == [inDay EXCEPT !.today = act.today + now]
    <2>2. inMonth \in Action
      BY <2>1 DEF Action
    <2> HIDE DEF inMonth
    <2>3. inDay \in Action
      BY <2>1, <2>2 DEF Action
    <2> HIDE DEF inDay
    <2>4. inAll \in Action
      BY <2>1, <2>3 DEF Action
    <2>5. act' = inAll
      BY <1>6 DEF UseUp, Action, inMonth, inDay
    <2> QED
      BY <1>6, <2>4, <2>5 DEF UseUp
  <1>7. CASE Distrust("verified", "unverified") \/ Distrust("unverified", "blocked")
    BY <1>7 DEF Distrust, Action
  <1>8. CASE Suspend
    BY <1>8 DEF Suspend
  <1>9. CASE UNCHANGED orderVars
    BY <1>9 DEF orderVars
  <1> QED
    BY <1>1, <1>2, <1>3, <1>4, <1>5, <1>6, <1>7, <1>8, <1>9 DEF OrderNext

LEMMA OrderTypeCorrect == OrderSpec => []OrderTypeOK
  BY OrderTypeInit, OrderTypeStep, PTL DEF OrderSpec

----------------------------------------------------------------------------
\* The outcome depends only on which rules hit, not on which one is reported.
LEMMA Outcome ==
    ASSUME NEW a, NEW g, NEW q, q # None
    PROVE  Evaluate(a, g, q).outcome =
             IF Denying(a, g, q) # {} THEN "deny"
             ELSE IF Holding(a, q) # {} THEN "hold" ELSE "allow"
  BY DEF Evaluate, Denial, Hold

\* Where no rule stops hitting, the outcome does not get milder.
LEMMA MoreHitsAreMoreSevere ==
    ASSUME NEW a, NEW g, NEW q, q # None, NEW b, NEW g2, NEW q2, q2 # None,
           Denying(a, g, q) \subseteq Denying(b, g2, q2),
           Holding(a, q) \subseteq Holding(b, q2) \/ Denying(b, g2, q2) # {}
    PROVE  Severity(Evaluate(b, g2, q2).outcome) >= Severity(Evaluate(a, g, q).outcome)
  BY Outcome DEF Severity

\* Rules are compared by name.
LEMMA RuleNames ==
    /\ DOMAIN DenyRules = 1 .. 7 /\ DOMAIN HoldRules = 1 .. 7
    /\ \A i \in 1 .. 7 :
          /\ DenyRules[i] \in {"agent_not_active", "owner_not_verified",
                 "counterparty_blocked", "currency_allowlist",
                 "merchant_category_allowlist", "counterparty_allowlist",
                 "verified_counterparties_only"}
          /\ HoldRules[i] \in {"per_transaction_limit", "daily_limit", "monthly_limit",
                 "max_transactions_per_day", "require_approval_above",
                 "new_counterparty", "cross_border"}
  BY DEF DenyRules, HoldRules

\* A limit that is lowered, and an allowlist that is shortened, stops no rule
\* from hitting.
LEMMA DocumentStep ==
    ASSUME OrderTypeOK, UNCHANGED <<act, agent>>,
           \/ \E field \in {"perTransaction", "daily", "monthly", "maxPerDay", "above"},
                 n \in Limits : LowerLimit(field, n)
           \/ \E list \in PayeeLists : ShortenList("payees", list)
           \/ \E list \in CurrencyLists : ShortenList("currencies", list)
           \/ \E field \in {"verifiedOnly", "holdNew", "holdCrossBorder"} : RequireMore(field)
    PROVE  /\ Denying(act, agent, p) \subseteq Denying(act', agent', p')
           /\ Holding(act, p) \subseteq Holding(act', p')
  <1>1. /\ \A list : OffList(act.currency, p.currencies) => OffList(act.currency, p'.currencies)
        /\ OffList(act.payee, p.payees) => OffList(act.payee, p'.payees)
        /\ p'.merchants = p.merchants
        /\ p.verifiedOnly => p'.verifiedOnly
        /\ p.holdNew => p'.holdNew
        /\ p.holdCrossBorder => p'.holdCrossBorder
    BY NoneIsNoValue DEF OrderTypeOK, Document, LowerLimit, ShortenList, RequireMore, OffList
  <1>2. \A n \in Nat :
          /\ Over(n, p.perTransaction) => Over(n, p'.perTransaction)
          /\ Over(n, p.daily) => Over(n, p'.daily)
          /\ Over(n, p.monthly) => Over(n, p'.monthly)
          /\ Over(n, p.maxPerDay) => Over(n, p'.maxPerDay)
          /\ Over(n, p.above) => Over(n, p'.above)
    BY NoneIsNoValue, NumbersAreNatural
    DEF OrderTypeOK, Document, LowerLimit, ShortenList, RequireMore, Over
  <1>3. ASSUME NEW i \in 1 .. 7, Denies(DenyRules[i], act, agent, p)
        PROVE  Denies(DenyRules[i], act', agent', p')
    BY <1>1, <1>3, RuleNames DEF Denies
  <1>4. ASSUME NEW i \in 1 .. 7, Holds(HoldRules[i], act, p)
        PROVE  Holds(HoldRules[i], act', p')
    <2>1. /\ act.daily \in Nat /\ act.monthly \in Nat /\ act.today \in Nat
          /\ act.amount # None => act.amount \in Nat
      BY NumbersAreNatural DEF OrderTypeOK, Action
    <2>2. /\ act.daily + act.amount \in Nat \/ act.amount = None
          /\ act.monthly + act.amount \in Nat \/ act.amount = None
          /\ act.today + 1 \in Nat
      BY <2>1
    <2>3. act' = act
      OBVIOUS
    <2> QED
      BY <1>1, <1>2, <1>4, <2>1, <2>2, <2>3, RuleNames DEF Holds
  <1> QED
    BY <1>3, <1>4, RuleNames DEF Denying, Holding

\* Asking for more, or having spent more, stops no rule from hitting either.
LEMMA DemandStep ==
    ASSUME OrderTypeOK,
           \/ \E a \in Amounts : AskForMore(a)
           \/ \E now \in {0, 1} : UseUp(now)
    PROVE  /\ Denying(act, agent, p) \subseteq Denying(act', agent', p')
           /\ Holding(act, p) \subseteq Holding(act', p')
  <1>1. /\ agent' = agent /\ p' = p
        /\ act'.type = act.type /\ act'.currency = act.currency
        /\ act'.payee = act.payee /\ act'.payeeStatus = act.payeeStatus
        /\ act'.crossBorder = act.crossBorder /\ act'.merchant = act.merchant
    BY DEF OrderTypeOK, Action, AskForMore, UseUp
  <1>2. /\ act.daily \in Nat /\ act.monthly \in Nat /\ act.today \in Nat
        /\ act.amount # None => act.amount \in Nat
    BY NumbersAreNatural DEF OrderTypeOK, Action
  <1>3. /\ act'.daily \in Nat /\ act'.monthly \in Nat /\ act'.today \in Nat
        /\ act'.daily >= act.daily /\ act'.monthly >= act.monthly
        /\ act'.today >= act.today
        /\ act.amount # None => /\ act'.amount # None /\ act'.amount \in Nat
                                /\ act'.amount >= act.amount
    <2>1. CASE \E a \in Amounts : AskForMore(a)
      BY <1>2, <2>1, NumbersAreNatural, NoneIsNoValue
      DEF OrderTypeOK, Action, AskForMore
    <2>2. CASE \E now \in {0, 1} : UseUp(now)
      BY <1>2, <2>2 DEF OrderTypeOK, Action, UseUp
    <2> QED
      BY <2>1, <2>2
  <1>4. \A limit \in Limits \cup {None}, m, n \in Nat :
            Over(m, limit) /\ n >= m => Over(n, limit)
    BY NumbersAreNatural DEF Over
  <1>5. /\ p.perTransaction \in Limits \cup {None} /\ p.daily \in Limits \cup {None}
        /\ p.monthly \in Limits \cup {None} /\ p.maxPerDay \in Limits \cup {None}
        /\ p.above \in Limits \cup {None}
    BY DEF OrderTypeOK, Document
  <1>6. ASSUME NEW i \in 1 .. 7, Denies(DenyRules[i], act, agent, p)
        PROVE  Denies(DenyRules[i], act', agent', p')
    BY <1>1, <1>6, RuleNames DEF Denies
  <1>7. ASSUME NEW i \in 1 .. 7, Holds(HoldRules[i], act, p)
        PROVE  Holds(HoldRules[i], act', p')
    <2>1. CASE act.amount = None
      BY <1>1, <1>7, <2>1, RuleNames DEF Holds
    <2>2. CASE act.amount # None
      <3>1. /\ Over(act.amount, p.perTransaction) => Over(act'.amount, p.perTransaction)
            /\ Over(act.daily + act.amount, p.daily)
                  => Over(act'.daily + act'.amount, p.daily)
            /\ Over(act.monthly + act.amount, p.monthly)
                  => Over(act'.monthly + act'.amount, p.monthly)
            /\ Over(act.today + 1, p.maxPerDay) => Over(act'.today + 1, p.maxPerDay)
            /\ Over(act.amount, p.above) => Over(act'.amount, p.above)
        BY <1>2, <1>3, <1>4, <1>5, <2>2
      <3> QED
        BY <1>1, <1>3, <1>7, <2>2, <3>1, RuleNames DEF Holds
    <2> QED
      BY <2>1, <2>2
  <1> QED
    BY <1>6, <1>7, RuleNames DEF Denying, Holding

\* Losing standing may lift the review of a new counterparty, but then denies.
LEMMA StandingStep ==
    ASSUME OrderTypeOK,
           \/ Distrust("verified", "unverified") \/ Distrust("unverified", "blocked")
           \/ Suspend
    PROVE  /\ Denying(act, agent, p) \subseteq Denying(act', agent', p')
           /\ Holding(act, p) \subseteq Holding(act', p') \/ Denying(act', agent', p') # {}
  <1>1. CASE Distrust("verified", "unverified") \/ Distrust("unverified", "blocked")
    <2>1. /\ agent' = agent /\ p' = p
          /\ act'.type = act.type /\ act'.currency = act.currency
          /\ act'.payee = act.payee /\ act'.amount = act.amount
          /\ act'.crossBorder = act.crossBorder /\ act'.merchant = act.merchant
          /\ act'.daily = act.daily /\ act'.monthly = act.monthly
          /\ act'.today = act.today
          /\ \/ act.payeeStatus = "verified" /\ act'.payeeStatus = "unverified"
             \/ act.payeeStatus = "unverified" /\ act'.payeeStatus = "blocked"
      BY <1>1 DEF OrderTypeOK, Action, Distrust
    <2>2. ASSUME NEW i \in 1 .. 7, Denies(DenyRules[i], act, agent, p)
          PROVE  Denies(DenyRules[i], act', agent', p')
      BY <2>1, <2>2, RuleNames DEF Denies
    <2>3. CASE act'.payeeStatus = "blocked"
      <3>1. Denies(DenyRules[3], act', agent', p')
        BY <2>3 DEF Denies, DenyRules
      <3> QED
        BY <2>2, <3>1, RuleNames DEF Denying
    <2>4. CASE act.payeeStatus = "verified"
      <3>1. ASSUME NEW i \in 1 .. 7, Holds(HoldRules[i], act, p)
            PROVE  Holds(HoldRules[i], act', p')
        BY <2>1, <2>4, <3>1, RuleNames DEF Holds
      <3> QED
        BY <2>2, <3>1, RuleNames DEF Denying, Holding
    <2> QED
      BY <2>1, <2>3, <2>4
  <1>2. CASE Suspend
    <2>1. act' = act /\ p' = p /\ agent'.status = "suspended" /\ agent'.owner = agent.owner
      BY <1>2 DEF OrderTypeOK, Suspend
    <2>2. ASSUME NEW i \in 1 .. 7, Denies(DenyRules[i], act, agent, p)
          PROVE  Denies(DenyRules[i], act', agent', p')
      BY <2>1, <2>2, RuleNames DEF Denies
    <2> QED
      BY <2>1, <2>2, RuleNames DEF Denying
  <1> QED
    BY <1>1, <1>2

----------------------------------------------------------------------------
\* However the owner tightens the document, whatever the agent asks for or
\* spends, and whoever loses standing: a ruling never becomes milder.
THEOREM OnlyTightens == OrderSpec => RulingOnlyTightens
  <1>1. OrderTypeOK /\ [OrderNext]_orderVars
          => [Severity(Ruling') >= Severity(Ruling)]_orderVars
    <2> SUFFICES ASSUME OrderTypeOK, OrderNext
                 PROVE  Severity(Ruling') >= Severity(Ruling)
      OBVIOUS
    <2>1. OrderTypeOK'
      BY OrderTypeStep
    <2>2. p # None /\ p' # None
      BY <2>1, NoneIsNoValue DEF OrderTypeOK
    <2>3. /\ Denying(act, agent, p) \subseteq Denying(act', agent', p')
          /\ Holding(act, p) \subseteq Holding(act', p') \/ Denying(act', agent', p') # {}
      BY DocumentStep, DemandStep, StandingStep
      DEF OrderNext, LowerLimit, ShortenList, RequireMore
    <2> QED
      BY <2>2, <2>3, MoreHitsAreMoreSevere DEF Ruling
  <1> QED
    BY <1>1, OrderTypeInit, OrderTypeStep, PTL DEF OrderSpec, RulingOnlyTightens

\* Neither the amount nor the usage decides a denial.
THEOREM AmountNeverDenies == OrderSpec => []DenialsAreCategorical
  <1>1. OrderTypeOK => DenialsAreCategorical
    <2> SUFFICES ASSUME OrderTypeOK, NEW a \in Amounts, NEW n \in 0 .. MaxUsed,
                        NEW other,
                        other = [act EXCEPT !.amount = IF @ = None THEN None ELSE a,
                                            !.daily = n, !.monthly = n, !.today = n]
                 PROVE  Ruling = "deny" <=> Evaluate(other, agent, p).outcome = "deny"
      BY DEF DenialsAreCategorical
    <2>1. /\ other.type = act.type /\ other.currency = act.currency
          /\ other.payee = act.payee /\ other.payeeStatus = act.payeeStatus
          /\ other.merchant = act.merchant
      BY DEF OrderTypeOK, Action
    <2>2. \A i \in 1 .. 7 : Denies(DenyRules[i], act, agent, p)
                             <=> Denies(DenyRules[i], other, agent, p)
      BY <2>1, RuleNames DEF Denies
    <2>3. Denying(act, agent, p) = Denying(other, agent, p)
      BY <2>2, RuleNames DEF Denying
    <2>4. p # None
      BY NoneIsNoValue DEF OrderTypeOK
    <2> QED
      BY <2>3, <2>4, Outcome DEF Ruling
  <1> QED
    BY <1>1, OrderTypeInit, OrderTypeStep, PTL DEF OrderSpec

----------------------------------------------------------------------------
(***************************************************************************)
(* Rounding of columns.                                                    *)
(***************************************************************************)

\* A positive amount is never stored as more than its parts.
LEMMA StoredIsNoMore == ASSUME NEW n \in Nat \ {0} PROVE Stored(n) <= n
  <1> DEFINE q == Stored(n)
  <1>1. q \in Nat /\ 2 * (Finer * q) <= 2 * n + Finer
    BY StoredBounds
  <1> HIDE DEF q
  <1>2. ASSUME q >= n + 1 PROVE FALSE
    <2>1. Finer * q >= Finer * (n + 1)
      BY <1>1, <1>2, FinerIsPositive
    <2>2. Finer * (n + 1) = Finer * n + Finer /\ Finer * n >= n /\ Finer * n \in Nat /\ Finer * q \in Nat
      BY <1>1, FinerIsPositive
    <2> QED
      BY <1>1, <2>1, <2>2, FinerIsPositive
  <1>3. q <= n
    BY <1>1, <1>2
  <1> QED
    BY <1>3 DEF q

\* What comes in is rounded alike in the balance and in the entry.
LEMMA StoredOfSum ==
    ASSUME NEW u \in Nat, NEW n \in Nat PROVE Stored(Parts(u) + n) = u + Stored(n)
  <1> DEFINE q == Stored(n)
  <1>1. q \in Nat /\ 2 * (Finer * q) <= 2 * n + Finer /\ 2 * n < 2 * (Finer * q) + Finer
    BY StoredBounds
  <1> HIDE DEF q
  <1>2. /\ u * Finer \in Nat /\ Finer * q \in Nat
        /\ Finer * (u + q) = u * Finer + Finer * q
    BY <1>1, FinerIsPositive
  <1>3. Stored(u * Finer + n) = u + q
    <2>1. u * Finer + n \in Nat /\ u + q \in Int
      BY <1>1, <1>2
    <2>2. /\ 2 * (Finer * (u + q)) <= 2 * (u * Finer + n) + Finer
          /\ 2 * (u * Finer + n) < 2 * (Finer * (u + q)) + Finer
      BY <1>1, <1>2, FinerIsPositive
    <2> QED
      BY <2>1, <2>2, StoredIs
  <1> QED
    BY <1>3 DEF q, Parts

\* The remainder tells which multiple of the unit an amount is stored as.
LEMMA StoredByRemainder ==
    ASSUME NEW n \in Nat
    PROVE  /\ OffHalf(n) \in Int /\ -Finer <= OffHalf(n) /\ OffHalf(n) < Finer
           /\ OffHalf(n) < 0 => 2 * (Finer * Stored(n)) = 2 * n - OffHalf(n) - Finer
           /\ OffHalf(n) >= 0 => 2 * (Finer * Stored(n)) = 2 * n - OffHalf(n) + Finer
  <1> DEFINE d == n \div Finer
             r == n % Finer
  <1>1. d \in Nat /\ r \in Nat /\ r < Finer /\ n = Finer * d + r
    BY FinerIsPositive
  <1>2. OffHalf(n) = 2 * r - Finer
    BY DEF OffHalf
  <1> HIDE DEF d, r
  <1>3. Finer * d \in Nat /\ Finer * (d + 1) = Finer * d + Finer
    BY <1>1, FinerIsPositive
  <1>4. CASE 2 * r < Finer
    <2>1. Stored(n) = d
      BY <1>1, <1>3, <1>4, FinerIsPositive, StoredIs
    <2> QED
      BY <1>1, <1>2, <1>3, <1>4, <2>1, FinerIsPositive
  <1>5. CASE 2 * r >= Finer
    <2>1. Stored(n) = d + 1
      BY <1>1, <1>3, <1>5, FinerIsPositive, StoredIs
    <2> QED
      BY <1>1, <1>2, <1>3, <1>5, <2>1, FinerIsPositive
  <1> QED
    BY <1>1, <1>4, <1>5, FinerIsPositive

LEMMA TieIsExact ==
    ASSUME NEW n \in Nat
    PROVE  IsTie(n) <=> 2 * (Finer * Stored(n)) = 2 * n + Finer
  <1> DEFINE f == Finer * Stored(n)
  <1>1. f \in Nat
    BY StoredBounds, FinerIsPositive
  <1>2. /\ OffHalf(n) \in Int /\ -Finer <= OffHalf(n) /\ OffHalf(n) < Finer
        /\ OffHalf(n) < 0 => 2 * f = 2 * n - OffHalf(n) - Finer
        /\ OffHalf(n) >= 0 => 2 * f = 2 * n - OffHalf(n) + Finer
    BY StoredByRemainder
  <1> HIDE DEF f
  <1>3. OffHalf(n) = 0 <=> 2 * f = 2 * n + Finer
    BY <1>1, <1>2, FinerIsPositive
  <1> QED
    BY <1>3 DEF IsTie, f

\* What goes out is rounded differently in the two if it ends in half a unit.
LEMMA StoredOfRest ==
    ASSUME NEW u \in Nat, NEW n \in Nat, n <= Parts(u)
    PROVE  Stored(Parts(u) - n) = u - Stored(n) + (IF IsTie(n) THEN 1 ELSE 0)
  <1> DEFINE q == Stored(n)
             t == IF IsTie(n) THEN 1 ELSE 0
  <1>1. q \in Nat /\ 2 * (Finer * q) <= 2 * n + Finer /\ 2 * n < 2 * (Finer * q) + Finer
    BY StoredBounds
  <1>2. t \in {0, 1} /\ (t = 1 <=> 2 * (Finer * q) = 2 * n + Finer)
    BY TieIsExact
  <1> HIDE DEF q, t
  <1>3. /\ u * Finer \in Nat /\ Finer * q \in Nat
        /\ Finer * (u - q + t) = u * Finer - Finer * q + Finer * t
        /\ Finer * t = IF t = 1 THEN Finer ELSE 0
    BY <1>1, <1>2, FinerIsPositive
  <1>4. Stored(u * Finer - n) = u - q + t
    <2>1. u * Finer - n \in Nat /\ u - q + t \in Int
      BY <1>1, <1>2, <1>3 DEF Parts
    <2>2. /\ 2 * (Finer * (u - q + t)) <= 2 * (u * Finer - n) + Finer
          /\ 2 * (u * Finer - n) < 2 * (Finer * (u - q + t)) + Finer
      BY <1>1, <1>2, <1>3, FinerIsPositive
    <2> QED
      BY <2>1, <2>2, StoredIs
  <1> QED
    BY <1>4 DEF q, t, Parts

----------------------------------------------------------------------------
(***************************************************************************)
(* What Decimal keeps.                                                     *)
(***************************************************************************)
LEMMA SomeGrainIsLeast ==
    ASSUME NEW S \in SUBSET Nat, S # {}
    PROVE  \E i \in S : \A j \in S : i <= j
  <1> DEFINE R == {u \in Nat \X Nat : u[1] < u[2]}
  <1>1. IsWellFoundedOn(R, Nat)
    BY NatLessThanWellFounded DEF OpToRel
  <1> HIDE DEF R
  <1>2. PICK i \in S : \A j \in S : ~(<<j, i>> \in R)
    BY <1>1, WFMin
  <1>3. \A j \in S : ~(j < i)
    BY <1>2 DEF R
  <1> QED
    BY <1>3

LEMMA GrainIsLeast ==
    ASSUME NEW n \in Nat, \E g \in Grains : Reaches(g, n)
    PROVE  /\ Grain(n) \in Grains /\ Grain(n) \in Nat \ {0} /\ Reaches(Grain(n), n)
           /\ \A h \in Grains : Reaches(h, n) => Grain(n) <= h
  <1> DEFINE S == {g \in Grains : Reaches(g, n)}
  <1>1. S \in SUBSET Nat /\ S # {}
    BY GrainsFit
  <1>2. PICK g \in S : \A h \in S : g <= h
    BY <1>1, SomeGrainIsLeast
  <1>3. g \in Grains /\ Reaches(g, n) /\ \A h \in Grains : Reaches(h, n) => g <= h
    BY <1>2
  <1>4. Grain(n) \in Grains /\ Reaches(Grain(n), n) /\ \A h \in Grains : Reaches(h, n) => Grain(n) <= h
    BY <1>3 DEF Grain
  <1> QED
    BY <1>4, GrainsFit

\* A smaller sum keeps as many decimals at least.
LEMMA GrainGrows ==
    ASSUME NEW n \in Nat, NEW m \in Nat, m <= n, \E g \in Grains : Reaches(g, n)
    PROVE  /\ \E g \in Grains : Reaches(g, m)
           /\ Grain(m) \in Nat \ {0} /\ Grain(n) \in Nat \ {0} /\ Grain(m) <= Grain(n)
  <1>1. Grain(n) \in Grains /\ Grain(n) \in Nat \ {0} /\ Reaches(Grain(n), n)
    BY GrainIsLeast
  <1>2. Grain(n) * Limit \in Nat
    BY <1>1, GrainsFit
  <1>3. Reaches(Grain(n), m)
    BY <1>1, <1>2 DEF Reaches
  <1>4. Grain(m) \in Nat \ {0} /\ Grain(m) <= Grain(n)
    BY <1>1, <1>3, GrainIsLeast
  <1> QED
    BY <1>1, <1>3, <1>4

LEMMA HalfEvenBounds ==
    ASSUME NEW n \in Nat, NEW g \in Nat \ {0}
    PROVE  /\ HalfEven(n, g) \in Nat
           /\ 2 * (g * HalfEven(n, g)) <= 2 * n + g
           /\ 2 * n <= 2 * (g * HalfEven(n, g)) + g
  <1> DEFINE q == n \div g
             r == n % g
  <1>1. q \in Nat /\ r \in Nat /\ r < g /\ n = g * q + r
    OBVIOUS
  <1>2. HalfEven(n, g) = IF 2 * r > g \/ (2 * r = g /\ q % 2 = 1) THEN q + 1 ELSE q
    BY DEF HalfEven
  <1> HIDE DEF q, r
  <1>3. g * q \in Nat /\ g * (q + 1) = g * q + g
    BY <1>1
  <1>4. CASE HalfEven(n, g) = q /\ 2 * r <= g
    BY <1>1, <1>3, <1>4
  <1>5. CASE HalfEven(n, g) = q + 1 /\ 2 * r >= g
    BY <1>1, <1>3, <1>5
  <1> QED
    BY <1>1, <1>2, <1>4, <1>5

\* What is a multiple of the grain is not passed.
LEMMA MultiplesAreKept ==
    ASSUME NEW n \in Nat, \E g \in Grains : Reaches(g, n), NEW j \in Int
    PROVE  /\ Kept(n) \in Nat /\ 2 * Kept(n) <= 2 * n + Grain(n)
           /\ Grain(n) * j <= n => Grain(n) * j <= Kept(n)
           /\ n <= Grain(n) * j => Kept(n) <= Grain(n) * j
  <1> DEFINE g == Grain(n)
             h == HalfEven(n, g)
  <1>1. g \in Nat \ {0}
    BY GrainIsLeast
  <1>2. h \in Nat /\ 2 * (g * h) <= 2 * n + g /\ 2 * n <= 2 * (g * h) + g
    BY <1>1, HalfEvenBounds
  <1>3. Kept(n) = g * h
    BY DEF Kept
  <1> HIDE DEF g, h
  <1>4. ASSUME NEW x \in Int, NEW y \in Int, x < y PROVE g * x + g <= g * y
    <2>1. g * (x + 1) <= g * y
      BY <1>1, <1>4
    <2> QED
      BY <1>1, <2>1
  <1>5. g * h \in Nat /\ g * j \in Int
    BY <1>1, <1>2
  <1>6. ASSUME g * j <= n PROVE g * j <= g * h
    <2>1. ~(h < j)
      BY <1>1, <1>2, <1>4, <1>5, <1>6
    <2>2. j < h => g * j <= g * h
      BY <1>1, <1>2, <1>4, <1>5
    <2> QED
      BY <1>2, <1>5, <2>1, <2>2
  <1>7. ASSUME n <= g * j PROVE g * h <= g * j
    <2>1. ~(j < h)
      BY <1>1, <1>2, <1>4, <1>5, <1>7
    <2>2. h < j => g * h <= g * j
      BY <1>1, <1>2, <1>4, <1>5
    <2> QED
      BY <1>2, <1>5, <2>1, <2>2
  <1> QED
    BY <1>2, <1>3, <1>5, <1>6, <1>7 DEF g

\* Half a unit is a multiple of the grain.
LEMMA GrainDividesHalf ==
    ASSUME NEW n \in Nat, \E g \in Grains : Reaches(g, n)
    PROVE  /\ \E k \in Nat : 2 * (Grain(n) * k) = Finer
           /\ 2 * Grain(n) <= Finer
  <1> DEFINE g == Grain(n)
  <1>1. g \in Grains /\ g \in Nat \ {0}
    BY GrainIsLeast
  <1> HIDE DEF g
  <1>2. PICK k \in 1 .. Finer : Finer = 2 * (k * g)
    BY <1>1, GrainsFit
  <1>3. k \in Nat \ {0} /\ k * g = g * k
    BY <1>1, <1>2, FinerIsPositive
  <1>4. k * g >= g
    BY <1>1, <1>3
  <1> QED
    BY <1>1, <1>2, <1>3, <1>4 DEF g

\* Rounded first to what Decimal keeps, a sum is stored as without that, or one unit
\* higher if it is below the half by no more than half a grain.
LEMMA StoredOfKept ==
    ASSUME NEW n \in Nat, \E g \in Grains : Reaches(g, n)
    PROVE  \/ Stored(Kept(n)) = Stored(n)
           \/ /\ Stored(Kept(n)) = Stored(n) + 1
              /\ 2 * (Finer * Stored(n)) + Finer <= 2 * n + Grain(n)
  <1> DEFINE g == Grain(n)
             s == Stored(n)
             kept == Kept(n)
  <1>1. g \in Nat \ {0} /\ kept \in Nat /\ 2 * kept <= 2 * n + g
    BY GrainIsLeast, MultiplesAreKept
  <1>2. PICK k \in Nat : 2 * (g * k) = Finer
    BY GrainDividesHalf
  <1>3. s \in Nat /\ 2 * (Finer * s) <= 2 * n + Finer /\ 2 * n < 2 * (Finer * s) + Finer
    BY StoredBounds
  <1>4. \A j \in Int : (g * j <= n => g * j <= kept) /\ (n <= g * j => kept <= g * j)
    BY MultiplesAreKept
  <1> HIDE DEF g, s, kept
  <1>5. g * k \in Nat /\ Finer * s \in Nat /\ Finer * (s + 1) = Finer * s + Finer
    BY <1>1, <1>2, <1>3, FinerIsPositive
  <1> DEFINE j == 2 * (k * s)
  <1>6. j \in Int /\ g * j = Finer * s /\ g * (j - k) = Finer * s - g * k /\ g * (j + k) = Finer * s + g * k
    <2>1. k * s \in Nat
      BY <1>2, <1>3
    <2>2. g * j = (2 * (g * k)) * s
      BY <1>1, <1>2, <1>3
    <2>3. g * j = Finer * s
      BY <1>2, <2>2
    <2>4. j \in Int
      BY <2>1
    <2> HIDE DEF j
    <2>5. g * (j - k) = g * j - g * k /\ g * (j + k) = g * j + g * k
      BY <1>1, <1>2, <2>4
    <2> QED
      BY <2>3, <2>4, <2>5
  <1> HIDE DEF j
  <1>7. Finer * s - g * k <= kept
    <2>1. j - k \in Int /\ g * (j - k) <= n
      BY <1>2, <1>3, <1>5, <1>6, FinerIsPositive
    <2> QED
      BY <1>4, <1>6, <2>1
  <1>8. kept <= Finer * s + g * k
    <2>1. j + k \in Int /\ n <= g * (j + k)
      BY <1>2, <1>3, <1>5, <1>6, FinerIsPositive
    <2> QED
      BY <1>4, <1>6, <2>1
  <1>9. CASE kept < Finer * s + g * k
    <2>1. 2 * (Finer * s) <= 2 * kept + Finer /\ 2 * kept < 2 * (Finer * s) + Finer
      BY <1>1, <1>2, <1>5, <1>7, <1>9, FinerIsPositive
    <2>2. Stored(kept) = s
      BY <1>1, <1>3, <2>1, StoredIs
    <2> QED
      BY <2>2 DEF s, kept
  <1>10. CASE kept = Finer * s + g * k
    <2>1. /\ 2 * (Finer * (s + 1)) <= 2 * kept + Finer
          /\ 2 * kept < 2 * (Finer * (s + 1)) + Finer
          /\ 2 * (Finer * s) + Finer <= 2 * n + g
      BY <1>1, <1>2, <1>5, <1>10, FinerIsPositive
    <2>2. s + 1 \in Int
      BY <1>3
    <2>3. Stored(kept) = s + 1
      BY <1>1, <2>1, <2>2, StoredIs
    <2> QED
      BY <2>1, <2>3 DEF s, kept, g
  <1> QED
    BY <1>1, <1>5, <1>8, <1>9, <1>10

\* A sum may gain one unit, if the amount ends close below half a unit.
LEMMA GainOfSum ==
    ASSUME NEW u \in Nat, NEW n \in Nat, \E g \in Grains : Reaches(g, Parts(u) + n)
    PROVE  \E gain \in {0, 1} :
              /\ Stored(Kept(Parts(u) + n)) = u + Stored(n) + gain
              /\ gain = 1 => OffHalf(n) < 0 /\ -OffHalf(n) <= Grain(Parts(u) + n)
  <1> DEFINE x == Parts(u) + n
             g == Grain(x)
             f == Finer * Stored(n)
  <1>1. x \in Nat /\ u * Finer \in Nat /\ x = u * Finer + n
    BY FinerIsPositive DEF Parts
  <1>2. Stored(x) = u + Stored(n) /\ Stored(n) \in Nat
    BY StoredOfSum, StoredBounds
  <1>3. f \in Nat /\ Finer * (u + Stored(n)) = u * Finer + f
    BY <1>2, FinerIsPositive
  <1>4. /\ OffHalf(n) \in Int /\ -Finer <= OffHalf(n) /\ OffHalf(n) < Finer
        /\ OffHalf(n) < 0 => 2 * f = 2 * n - OffHalf(n) - Finer
        /\ OffHalf(n) >= 0 => 2 * f = 2 * n - OffHalf(n) + Finer
    BY StoredByRemainder
  <1>5. g \in Nat \ {0} /\ 2 * g <= Finer
    BY <1>1, GrainIsLeast, GrainDividesHalf
  <1>6. \/ Stored(Kept(x)) = u + Stored(n)
        \/ /\ Stored(Kept(x)) = u + Stored(n) + 1
           /\ 2 * (Finer * (u + Stored(n))) + Finer <= 2 * x + g
    BY <1>1, <1>2, StoredOfKept
  <1> HIDE DEF x, g, f
  <1>7. CASE Stored(Kept(x)) = u + Stored(n)
    BY <1>2, <1>7 DEF x
  <1>8. CASE /\ Stored(Kept(x)) = u + Stored(n) + 1
             /\ 2 * (Finer * (u + Stored(n))) + Finer <= 2 * x + g
    <2>1. 2 * f + Finer <= 2 * n + g
      BY <1>1, <1>3, <1>5, <1>8, FinerIsPositive
    <2>2. OffHalf(n) < 0 /\ -OffHalf(n) <= g
      BY <1>3, <1>4, <1>5, <2>1, FinerIsPositive
    <2> QED
      BY <1>8, <2>2 DEF x, g
  <1> QED
    BY <1>6, <1>7, <1>8

\* A rest may keep one unit, if the amount ends in half a unit or close above.
LEMMA GainOfRest ==
    ASSUME NEW u \in Nat, NEW n \in Nat, n <= Parts(u),
           \E g \in Grains : Reaches(g, Parts(u) - n)
    PROVE  \E gain \in {0, 1} :
              /\ Stored(Kept(Parts(u) - n)) = u - Stored(n) + gain
              /\ IsTie(n) => gain = 1
              /\ gain = 1 => OffHalf(n) >= 0 /\ OffHalf(n) <= Grain(Parts(u) - n)
  <1> DEFINE x == Parts(u) - n
             g == Grain(x)
             f == Finer * Stored(n)
             t == IF IsTie(n) THEN 1 ELSE 0
  <1>1. x \in Nat /\ u * Finer \in Nat /\ x = u * Finer - n
    BY FinerIsPositive DEF Parts
  <1>2. Stored(x) = u - Stored(n) + t /\ Stored(n) \in Nat
    BY StoredOfRest, StoredBounds
  <1>3. /\ OffHalf(n) \in Int /\ -Finer <= OffHalf(n) /\ OffHalf(n) < Finer
        /\ OffHalf(n) < 0 => 2 * f = 2 * n - OffHalf(n) - Finer
        /\ OffHalf(n) >= 0 => 2 * f = 2 * n - OffHalf(n) + Finer
    BY StoredByRemainder
  <1>4. t \in {0, 1} /\ (t = 1 <=> IsTie(n)) /\ (IsTie(n) <=> OffHalf(n) = 0)
    BY DEF IsTie
  <1>5. g \in Nat \ {0} /\ 2 * g <= Finer
    BY <1>1, GrainIsLeast, GrainDividesHalf
  <1>6. \/ Stored(Kept(x)) = u - Stored(n) + t
        \/ /\ Stored(Kept(x)) = u - Stored(n) + t + 1
           /\ 2 * (Finer * (u - Stored(n) + t)) + Finer <= 2 * x + g
    BY <1>1, <1>2, StoredOfKept
  <1> HIDE DEF x, g, t
  <1>7. /\ f \in Nat /\ Finer * t = IF t = 1 THEN Finer ELSE 0
        /\ Finer * (u - Stored(n) + t) = u * Finer - f + Finer * t
    BY <1>2, <1>4, FinerIsPositive
  <1> HIDE DEF f
  <1>8. CASE Stored(Kept(x)) = u - Stored(n) + t
    BY <1>3, <1>4, <1>5, <1>8 DEF x, g
  <1>9. CASE /\ Stored(Kept(x)) = u - Stored(n) + t + 1
             /\ 2 * (Finer * (u - Stored(n) + t)) + Finer <= 2 * x + g
    <2>1. 2 * n + 2 * (Finer * t) + Finer <= 2 * f + g
      BY <1>1, <1>4, <1>5, <1>7, <1>9, FinerIsPositive
    <2>2. t = 0 /\ OffHalf(n) >= 0 /\ OffHalf(n) <= g
      BY <1>3, <1>4, <1>5, <1>7, <2>1, FinerIsPositive
    <2> QED
      BY <1>2, <1>4, <1>9, <2>2 DEF x, g
  <1> QED
    BY <1>6, <1>8, <1>9

----------------------------------------------------------------------------
(***************************************************************************)
(* What is on hold, counted in stored units.                               *)
(***************************************************************************)
OnHold(column) ==
    {u \in Movements \X (1..MaxParts) : u[2] <= column[u[1]]}

LEMMA OnHoldIsFinite ==
    ASSUME NEW column \in [Movements -> Nat]
    PROVE  IsFiniteSet(OnHold(column)) /\ Cardinality(OnHold(column)) \in Nat
  <1>1. IsFiniteSet(1..MaxParts)
    BY FS_Interval, AmountsGivenArePositive
  <1>2. IsFiniteSet(Movements \X (1..MaxParts))
    BY <1>1, FinitelyManyMovements, FS_Product
  <1>3. OnHold(column) \in SUBSET (Movements \X (1..MaxParts))
    BY DEF OnHold
  <1>4. IsFiniteSet(OnHold(column))
    BY <1>2, <1>3, FS_Subset
  <1> QED
    BY <1>4, FS_CardinalityType

\* A movement that goes on hold adds its amount.
LEMMA OnHoldWith ==
    ASSUME NEW column \in [Movements -> Nat], NEW m \in Movements, column[m] = 0,
           NEW units \in Nat, units <= MaxParts
    PROVE  Cardinality(OnHold([column EXCEPT ![m] = units])) =
              Cardinality(OnHold(column)) + units
  <1> DEFINE new == {m} \X (1..units)
             other == OnHold(column)
             both == OnHold([column EXCEPT ![m] = units])
  <1>1. IsFiniteSet(new) /\ Cardinality(new) = units
    <2>1. IsFiniteSet(1..units) /\ Cardinality(1..units) = units
      BY FS_Interval
    <2>2. IsFiniteSet({m}) /\ Cardinality({m}) = 1
      BY FS_Singleton
    <2>3. IsFiniteSet(new) /\ Cardinality(new) = Cardinality({m}) * Cardinality(1..units)
      BY <2>1, <2>2, FS_Product
    <2> QED
      BY <2>1, <2>2, <2>3
  <1>2. IsFiniteSet(other) /\ Cardinality(other) \in Nat
    BY OnHoldIsFinite
  <1>3. both = other \cup new
    BY AmountsGivenArePositive DEF OnHold
  <1>4. other \cap new = {}
    BY DEF OnHold
  <1> HIDE DEF new, other, both
  <1>5. Cardinality(other \cup new) = Cardinality(other) + Cardinality(new) - Cardinality(other \cap new)
    BY <1>1, <1>2, FS_Union
  <1>6. Cardinality(other \cap new) = 0
    BY <1>4, FS_EmptySet
  <1>7. Cardinality(both) = Cardinality(other) + units
    BY <1>1, <1>2, <1>3, <1>5, <1>6
  <1> QED
    BY <1>7 DEF both, other

----------------------------------------------------------------------------
HeldUnits == Cardinality(OnHold(heldColumn))
Drift == availableColumn + pendingColumn - entries

\* What is on hold has been moved, and is no larger than an amount may be, so
\* that each unit of it is counted.
RoundingInv ==
    /\ RoundingTypeOK
    /\ ties <= Drift /\ Drift <= closeCalls
    /\ HeldUnits <= pendingColumn /\ pendingColumn <= HeldUnits + closeCalls
    /\ \A m \in Movements :
          heldColumn[m] <= MaxParts /\ (heldColumn[m] # 0 => m \in moved)

LEMMA RoundingInvInit == RoundingInit => RoundingInv
  <1> SUFFICES ASSUME RoundingInit PROVE RoundingInv
    OBVIOUS
  <1>1. RoundingTypeOK /\ \A m \in Movements : heldColumn[m] = 0
    BY DEF RoundingInit, RoundingTypeOK
  <1>2. OnHold(heldColumn) = {}
    BY AmountsGivenArePositive DEF RoundingInit, OnHold
  <1>3. Cardinality(OnHold(heldColumn)) = 0
    BY <1>2, FS_EmptySet
  <1> QED
    BY <1>1, <1>3, AmountsGivenArePositive DEF RoundingInit, RoundingInv, HeldUnits, Drift

LEMMA AmountGiven ==
    ASSUME NEW n \in AmountsGiven PROVE n \in Nat \ {0} /\ n <= MaxParts /\ Stored(n) \in Nat
  BY AmountsGivenArePositive, StoredBounds

\* Each sum a request computes is within reach if the total is, and no coarser.
LEMMA SumsAreInReach ==
    ASSUME RoundingTypeOK, NEW n \in AmountsGiven, InReach(n), NEW x \in Nat, x <= Total(n)
    PROVE  /\ \E g \in Grains : Reaches(g, x)
           /\ Grain(x) \in Nat \ {0} /\ Grain(Total(n)) \in Nat \ {0} /\ Grain(x) <= Grain(Total(n))
  <1>1. Total(n) \in Nat
    BY AmountGiven, FinerIsPositive DEF Total, Parts, RoundingTypeOK
  <1> QED
    BY <1>1, GrainGrows DEF InReach

LEMMA TotalIsLargest ==
    ASSUME RoundingTypeOK, NEW n \in AmountsGiven
    PROVE  /\ Parts(availableColumn) \in Nat /\ Parts(pendingColumn) \in Nat
           /\ Total(n) = Parts(availableColumn) + Parts(pendingColumn) + n
  BY AmountGiven, FinerIsPositive DEF Total, Parts, RoundingTypeOK

LEMMA FundHolderKeeps ==
    ASSUME RoundingInv, NEW n \in AmountsGiven, FundHolder(n) PROVE RoundingInv'
  <1>1. /\ RoundingTypeOK /\ availableColumn \in Nat /\ pendingColumn \in Nat /\ entries \in Int
        /\ ties \in Nat /\ closeCalls \in Nat
        /\ n \in Nat \ {0} /\ Stored(n) \in Nat
    BY AmountGiven DEF RoundingInv, RoundingTypeOK
  <1> DEFINE x == Parts(availableColumn) + n
  <1>2. x \in Nat /\ x <= Total(n)
    BY <1>1, TotalIsLargest
  <1>3. /\ \E g \in Grains : Reaches(g, x)
        /\ Grain(x) \in Nat \ {0} /\ Grain(Total(n)) \in Nat \ {0} /\ Grain(x) <= Grain(Total(n))
    BY <1>1, <1>2, SumsAreInReach DEF FundHolder
  <1>4. PICK gain \in {0, 1} :
          /\ Stored(Kept(x)) = availableColumn + Stored(n) + gain
          /\ gain = 1 => OffHalf(n) < 0 /\ -OffHalf(n) <= Grain(x)
    BY <1>1, <1>3, GainOfSum
  <1>5. OffHalf(n) \in Int
    BY <1>1, StoredByRemainder
  <1>6. gain = 1 => IsClose(n) /\ OffHalf(n) < 0
    BY <1>3, <1>4, <1>5 DEF IsClose
  <1> HIDE DEF x
  <1>7. /\ availableColumn' = availableColumn + Stored(n) + gain
        /\ entries' = entries + Stored(n)
        /\ UNCHANGED <<pendingColumn, heldColumn, moved, ties>>
    BY <1>4 DEF FundHolder, CountIncoming, x
  <1>8. closeCalls' \in {closeCalls, closeCalls + 1} /\ closeCalls' >= closeCalls + gain
    BY <1>1, <1>6 DEF FundHolder, CountIncoming
  <1>9. HeldUnits' = HeldUnits /\ HeldUnits \in Nat /\ HeldUnits' \in Nat
    BY <1>7, OnHoldIsFinite DEF HeldUnits, OnHold, RoundingInv, RoundingTypeOK
  <1>10. RoundingTypeOK'
    BY <1>1, <1>7, <1>8 DEF RoundingTypeOK
  <1>11. Drift \in Int /\ Drift' = Drift + gain
    BY <1>1, <1>7 DEF Drift
  <1>12. ties' <= Drift' /\ Drift' <= closeCalls'
    BY <1>1, <1>7, <1>8, <1>11 DEF RoundingInv
  <1>13. HeldUnits' <= pendingColumn' /\ pendingColumn' <= HeldUnits' + closeCalls'
    <2>1. pendingColumn' = pendingColumn /\ closeCalls' \in Nat /\ closeCalls <= closeCalls'
      BY <1>1, <1>7, <1>8
    <2>2. HeldUnits <= pendingColumn /\ pendingColumn <= HeldUnits + closeCalls
      BY DEF RoundingInv
    <2>3. closeCalls \in Nat /\ pendingColumn \in Nat
      BY <1>1
    <2>4. \A held, put, before, after \in Nat :
            put <= held + before /\ before <= after => put <= held + after
      OBVIOUS
    <2>5. pendingColumn <= HeldUnits + closeCalls'
      BY <1>9, <2>1, <2>2, <2>3, <2>4
    <2> QED
      BY <1>9, <2>1, <2>2, <2>5
  <1>14. \A k \in Movements : heldColumn'[k] <= MaxParts /\ (heldColumn'[k] # 0 => k \in moved')
    BY <1>7 DEF RoundingInv
  <1> QED
    BY <1>10, <1>12, <1>13, <1>14 DEF RoundingInv

\* What an outgoing amount does to available: it may keep one unit.
LEMMA RestOfAvailable ==
    ASSUME RoundingInv, NEW n \in AmountsGiven, InReach(n), Covers(n),
           availableColumn' = Stored(Kept(Parts(availableColumn) - n))
    PROVE  \E gain \in {0, 1} :
              /\ availableColumn' = availableColumn - Stored(n) + gain
              /\ availableColumn' \in Nat
              /\ IsTie(n) => gain = 1
              /\ gain = 1 => OffHalf(n) >= 0 /\ OffHalf(n) <= Grain(Total(n))
  <1>1. /\ RoundingTypeOK /\ availableColumn \in Nat /\ pendingColumn \in Nat
        /\ n \in Nat \ {0} /\ Stored(n) \in Nat
    BY AmountGiven DEF RoundingInv, RoundingTypeOK
  <1> DEFINE x == Parts(availableColumn) - n
  <1>2. n <= Parts(availableColumn) /\ x \in Nat /\ x <= Total(n)
    BY <1>1, TotalIsLargest DEF Covers
  <1>3. /\ \E g \in Grains : Reaches(g, x)
        /\ Grain(x) \in Nat \ {0} /\ Grain(Total(n)) \in Nat \ {0} /\ Grain(x) <= Grain(Total(n))
    BY <1>1, <1>2, SumsAreInReach
  <1>4. PICK gain \in {0, 1} :
          /\ Stored(Kept(x)) = availableColumn - Stored(n) + gain
          /\ IsTie(n) => gain = 1
          /\ gain = 1 => OffHalf(n) >= 0 /\ OffHalf(n) <= Grain(x)
    BY <1>1, <1>2, <1>3, GainOfRest
  <1>5. OffHalf(n) \in Int
    BY <1>1, StoredByRemainder
  <1>6. Kept(x) \in Nat
    BY <1>2, <1>3, MultiplesAreKept
  <1>7. Stored(Kept(x)) \in Nat
    BY <1>6, StoredBounds
  <1>8. gain = 1 => OffHalf(n) >= 0 /\ OffHalf(n) <= Grain(Total(n))
    BY <1>3, <1>4, <1>5
  <1> QED
    BY <1>4, <1>7, <1>8

LEMMA MoveOutKeeps ==
    ASSUME RoundingInv, NEW m \in Movements, NEW n \in AmountsGiven, MoveOut(m, n)
    PROVE  RoundingInv'
  <1>1. /\ RoundingTypeOK /\ availableColumn \in Nat /\ pendingColumn \in Nat /\ entries \in Int
        /\ ties \in Nat /\ closeCalls \in Nat
        /\ n \in Nat \ {0} /\ Stored(n) \in Nat
    BY AmountGiven DEF RoundingInv, RoundingTypeOK
  <1>2. PICK gain \in {0, 1} :
          /\ availableColumn' = availableColumn - Stored(n) + gain /\ availableColumn' \in Nat
          /\ IsTie(n) => gain = 1
          /\ gain = 1 => OffHalf(n) >= 0 /\ OffHalf(n) <= Grain(Total(n))
    BY RestOfAvailable DEF MoveOut
  <1>3. gain = 1 => IsClose(n)
    <2>1. OffHalf(n) \in Int
      BY <1>1, StoredByRemainder
    <2>2. Grain(Total(n)) \in Nat
      BY <1>1, TotalIsLargest, SumsAreInReach DEF MoveOut
    <2> QED
      BY <1>2, <2>1, <2>2 DEF IsClose
  <1>4. /\ ties' \in {ties, ties + 1} /\ ties' <= ties + gain
        /\ closeCalls' \in {closeCalls, closeCalls + 1} /\ closeCalls' >= closeCalls + gain
    BY <1>1, <1>2, <1>3 DEF MoveOut, CountOutgoing
  <1>5. entries' = entries - Stored(n) /\ moved' = moved \cup {m} /\ UNCHANGED <<pendingColumn, heldColumn>>
    BY DEF MoveOut
  <1>6. HeldUnits' = HeldUnits /\ HeldUnits \in Nat /\ HeldUnits' \in Nat
    BY <1>5, OnHoldIsFinite DEF HeldUnits, OnHold, RoundingInv, RoundingTypeOK
  <1>7. RoundingTypeOK'
    BY <1>1, <1>2, <1>4, <1>5 DEF RoundingTypeOK
  <1>8. Drift \in Int /\ Drift' = Drift + gain
    BY <1>1, <1>2, <1>5 DEF Drift
  <1>9. ties' <= Drift' /\ Drift' <= closeCalls'
    BY <1>1, <1>2, <1>4, <1>8 DEF RoundingInv
  <1>10. HeldUnits' <= pendingColumn' /\ pendingColumn' <= HeldUnits' + closeCalls'
    <2>1. pendingColumn' = pendingColumn /\ closeCalls' \in Nat /\ closeCalls <= closeCalls'
      BY <1>1, <1>4, <1>5
    <2>2. HeldUnits <= pendingColumn /\ pendingColumn <= HeldUnits + closeCalls
      BY DEF RoundingInv
    <2>3. closeCalls \in Nat /\ pendingColumn \in Nat
      BY <1>1
    <2>4. \A held, put, before, after \in Nat :
            put <= held + before /\ before <= after => put <= held + after
      OBVIOUS
    <2>5. pendingColumn <= HeldUnits + closeCalls'
      BY <1>6, <2>1, <2>2, <2>3, <2>4
    <2> QED
      BY <1>6, <2>1, <2>2, <2>5
  <1>11. \A k \in Movements : heldColumn'[k] <= MaxParts /\ (heldColumn'[k] # 0 => k \in moved')
    BY <1>5 DEF RoundingInv
  <1> QED
    BY <1>7, <1>9, <1>10, <1>11 DEF RoundingInv

LEMMA HoldOutKeeps ==
    ASSUME RoundingInv, NEW m \in Movements, NEW n \in AmountsGiven, HoldOut(m, n)
    PROVE  RoundingInv'
  <1>1. /\ RoundingTypeOK /\ availableColumn \in Nat /\ pendingColumn \in Nat /\ entries \in Int
        /\ ties \in Nat /\ closeCalls \in Nat
        /\ n \in Nat \ {0} /\ n <= MaxParts /\ Stored(n) \in Nat
        /\ heldColumn \in [Movements -> Nat] /\ heldColumn[m] = 0
    BY AmountGiven DEF RoundingInv, RoundingTypeOK, HoldOut
  <1>2. PICK gain \in {0, 1} :
          /\ availableColumn' = availableColumn - Stored(n) + gain /\ availableColumn' \in Nat
          /\ IsTie(n) => gain = 1
          /\ gain = 1 => OffHalf(n) >= 0 /\ OffHalf(n) <= Grain(Total(n))
    BY RestOfAvailable DEF HoldOut
  <1> DEFINE x == Parts(pendingColumn) + n
  <1>3. x \in Nat /\ x <= Total(n)
    BY <1>1, TotalIsLargest
  <1>4. /\ \E g \in Grains : Reaches(g, x)
        /\ Grain(x) \in Nat \ {0} /\ Grain(Total(n)) \in Nat \ {0} /\ Grain(x) <= Grain(Total(n))
    BY <1>1, <1>3, SumsAreInReach DEF HoldOut
  <1>5. PICK more \in {0, 1} :
          /\ Stored(Kept(x)) = pendingColumn + Stored(n) + more
          /\ more = 1 => OffHalf(n) < 0 /\ -OffHalf(n) <= Grain(x)
    BY <1>1, <1>4, GainOfSum
  <1>6. OffHalf(n) \in Int
    BY <1>1, StoredByRemainder
  <1>7. /\ gain + more = 1 => IsClose(n)
        /\ gain + more \in {0, 1}
    BY <1>2, <1>4, <1>5, <1>6 DEF IsClose
  <1> HIDE DEF x
  <1>8. /\ pendingColumn' = pendingColumn + Stored(n) + more
        /\ heldColumn' = [heldColumn EXCEPT ![m] = Stored(n)]
        /\ moved' = moved \cup {m} /\ UNCHANGED entries
    BY <1>5 DEF HoldOut, x
  <1>9. /\ ties' \in {ties, ties + 1} /\ ties' <= ties + gain
        /\ closeCalls' \in {closeCalls, closeCalls + 1} /\ closeCalls' >= closeCalls + gain + more
    BY <1>1, <1>2, <1>7 DEF HoldOut, CountOutgoing
  <1>10. Stored(n) <= MaxParts
    BY <1>1, StoredIsNoMore, AmountsGivenArePositive
  <1>11. HeldUnits' = HeldUnits + Stored(n) /\ HeldUnits \in Nat
    <2>1. Cardinality(OnHold([heldColumn EXCEPT ![m] = Stored(n)])) = Cardinality(OnHold(heldColumn)) + Stored(n)
      BY <1>1, <1>10, OnHoldWith
    <2>2. Cardinality(OnHold(heldColumn)) \in Nat
      BY <1>1, OnHoldIsFinite
    <2> QED
      BY <1>8, <2>1, <2>2 DEF HeldUnits
  <1>12. RoundingTypeOK'
    BY <1>1, <1>2, <1>5, <1>8, <1>9 DEF RoundingTypeOK
  <1>13. Drift \in Int /\ Drift' = Drift + gain + more
    BY <1>1, <1>2, <1>5, <1>8 DEF Drift
  <1>14. \A k \in Movements : heldColumn'[k] <= MaxParts /\ (heldColumn'[k] # 0 => k \in moved')
    BY <1>1, <1>8, <1>10 DEF RoundingInv
  <1>15. ties' <= Drift' /\ Drift' <= closeCalls'
    BY <1>1, <1>2, <1>5, <1>9, <1>13 DEF RoundingInv
  <1>16. HeldUnits' <= pendingColumn' /\ pendingColumn' <= HeldUnits' + closeCalls'
    BY <1>1, <1>2, <1>5, <1>8, <1>9, <1>11 DEF RoundingInv
  <1> QED
    BY <1>12, <1>14, <1>15, <1>16 DEF RoundingInv

\* Leaving or given back, a hold goes as it was stored.
LEMMA EndOfHoldKeeps ==
    ASSUME RoundingInv, NEW m \in Movements, ReleaseOut(m) \/ GiveBack(m)
    PROVE  RoundingInv'
  <1>1. /\ heldColumn \in [Movements -> Nat] /\ heldColumn[m] \in Nat
        /\ heldColumn[m] <= MaxParts
    BY AmountsGivenArePositive DEF RoundingInv, RoundingTypeOK
  <1>2. /\ heldColumn' \in [Movements -> Nat] /\ heldColumn'[m] = 0
        /\ heldColumn = [heldColumn' EXCEPT ![m] = heldColumn[m]]
    BY <1>1 DEF ReleaseOut, GiveBack
  <1>3. HeldUnits = HeldUnits' + heldColumn[m]
    BY <1>1, <1>2, OnHoldWith DEF HeldUnits
  <1>4. HeldUnits' \in Nat
    BY <1>2, OnHoldIsFinite DEF HeldUnits
  <1>5. pendingColumn' = pendingColumn - heldColumn[m] /\ pendingColumn' \in Nat
    BY <1>1, <1>3, <1>4 DEF RoundingInv, RoundingTypeOK, ReleaseOut, GiveBack
  <1>6. \A k \in Movements : heldColumn'[k] <= MaxParts /\ (heldColumn'[k] # 0 => k \in moved')
    BY <1>1, AmountsGivenArePositive DEF RoundingInv, RoundingTypeOK, ReleaseOut, GiveBack
  <1>7. /\ availableColumn' + pendingColumn' - entries' = availableColumn + pendingColumn - entries
        /\ availableColumn' \in Nat /\ entries' \in Int /\ UNCHANGED <<moved, ties, closeCalls>>
    BY <1>1, <1>5 DEF RoundingInv, RoundingTypeOK, ReleaseOut, GiveBack
  <1>8. RoundingTypeOK'
    BY <1>2, <1>5, <1>7 DEF RoundingInv, RoundingTypeOK
  <1> QED
    BY <1>1, <1>3, <1>4, <1>5, <1>6, <1>7, <1>8 DEF RoundingInv, RoundingTypeOK, Drift

LEMMA RoundingInvStep == RoundingInv /\ [RoundingNext]_roundingVars => RoundingInv'
  <1> SUFFICES ASSUME RoundingInv, [RoundingNext]_roundingVars PROVE RoundingInv'
    OBVIOUS
  <1>1. CASE RoundingNext
    BY <1>1, FundHolderKeeps, MoveOutKeeps, HoldOutKeeps, EndOfHoldKeeps DEF RoundingNext
  <1>2. CASE UNCHANGED roundingVars
    BY <1>2 DEF roundingVars, RoundingInv, RoundingTypeOK, HeldUnits, OnHold, Drift
  <1> QED
    BY <1>1, <1>2

LEMMA RoundingInvariant == RoundingSpec => []RoundingInv
  BY RoundingInvInit, RoundingInvStep, PTL DEF RoundingSpec

\* For amounts of any length, as Decimal adds them up and columns keep them: the
\* balance is never below the ledger, it is above it by one stored unit at least for
\* each outgoing amount that ended in half a unit and at most for each that ended so
\* close to it that Decimal cannot tell (ledger.py, models/base.py), and pending_out
\* exceeds the rows on hold by no more than these.
THEOREM DriftIsKnown == RoundingSpec => []DriftIsBounded
  <1>1. RoundingInv => DriftIsBounded
    BY DEF RoundingInv, DriftIsBounded, HeldUnits, OnHold, Drift
  <1> QED
    BY <1>1, RoundingInvariant, PTL

----------------------------------------------------------------------------
(***************************************************************************)
(* Side by side.                                                           *)
(***************************************************************************)

\* Each component behaves as it does alone.
LEMMA ComponentsAlternate ==
    SequentialSpec => TenancySpec /\ QuotesSpec /\ RoundingSpec /\ OrderSpec
  <1>1. SequentialInit => TenancyInit /\ QuotesInit /\ RoundingInit /\ OrderInit
    BY DEF SequentialInit
  <1>2. [SequentialNext]_sequentialVars
           => /\ [TenancyNext]_tenancyVars /\ [QuotesNext]_quotesVars
              /\ [RoundingNext]_roundingVars /\ [OrderNext]_orderVars
    BY DEF SequentialNext, sequentialVars
  <1> QED
    BY <1>1, <1>2, PTL DEF SequentialSpec, TenancySpec, QuotesSpec, RoundingSpec, OrderSpec

\* Rows, quotes, columns and rulings keep their types, whatever the owners, agents,
\* rates, documents and bounds; in particular no balance column becomes negative
\* by rounding (ensure_available compares the exact amount with a stored one).
THEOREM SequentialTypeCorrect == SequentialSpec => []SequentialTypeOK
  <1>1. TenancyInv /\ QuotesInv /\ RoundingInv /\ OrderTypeOK => SequentialTypeOK
    BY DEF TenancyInv, QuotesInv, RoundingInv, SequentialTypeOK
  <1> QED
    BY <1>1, ComponentsAlternate, TenancyInvariant, QuotesInvariant, RoundingInvariant,
       OrderTypeCorrect, PTL

=============================================================================
