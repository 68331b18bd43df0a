------------------------ MODULE QuotedPaymentsProofs ------------------------
(***************************************************************************)
(* Quotes are firm and repricing is on record, for every set of quotes,    *)
(* payments, payees, currencies and rates and every amount.                *)
(***************************************************************************)
EXTENDS QuotedPayments, TLAPS

\* A payment's quote exists, and a payment on hold carries what it says; only a
\* payment that was made has anything recorded about it.
PaymentsFollowQuotes ==
    \A p \in PaymentIds :
       /\ payment[p].status # "paid" => recorded[p] = <<>>
       /\ p \in OnQuote =>
             /\ payment[p].quote \in QuoteIds
             /\ quote[payment[p].quote] \in QuoteRows
             /\ payment[p].status = "held" =>
                   payment[p].destination = quote[payment[p].quote].destination

Shapes ==
    /\ quote = [q \in QuoteIds |-> quote[q]]
    /\ payment = [p \in PaymentIds |-> payment[p]]

QuotesInv == QuotesTypeOK /\ Shapes /\ PaymentsFollowQuotes /\ BothAmountsAreRecorded

LEMMA HalfUpIsNatural ==
    ASSUME NEW n \in Nat, NEW d \in Nat \ {0} PROVE HalfUp(n, d) \in Nat
  <1>1. 2 * n + d \in Nat /\ 2 * d \in Nat /\ 2 * d > 0
    OBVIOUS
  <1>2. ASSUME NEW x \in Nat, NEW y \in Nat, y > 0 PROVE x \div y \in Nat
    BY <1>2
  <1> QED
    BY <1>1, <1>2 DEF HalfUp

LEMMA StoredIsNatural == ASSUME NEW n \in Nat PROVE Stored(n) \in Nat
  BY HalfUpIsNatural, FinerIsPositive DEF Stored

LEMMA ProductIsNatural ==
    ASSUME NEW x \in Nat, NEW y \in Nat PROVE x * y \in Nat
  OBVIOUS

LEMMA PartsAreNatural ==
    /\ \A units \in Nat : Parts(units) \in Nat
    /\ Parts(Cent) \in Nat \ {0}
  BY FinerIsPositive, CentIsPositive DEF Parts

LEMMA ToCentsIsNatural ==
    ASSUME NEW n \in Nat, NEW d \in Nat \ {0} PROVE ToCents(n, d) \in Nat
  <1> DEFINE w == Parts(Cent)
  <1>1. w \in Nat \ {0}
    BY PartsAreNatural
  <1> HIDE DEF w
  <1>2. d * w \in Nat \ {0}
    BY <1>1
  <1>3. HalfUp(n, d * w) \in Nat
    BY <1>2, HalfUpIsNatural
  <1> QED
    BY <1>1, <1>3, ProductIsNatural DEF ToCents, w

LEMMA RouteIsNatural ==
    ASSUME NEW rate \in Rates \cup {Whole}, NEW asked, NEW parts \in Nat
    PROVE  Route(rate, asked, parts).source \in Nat /\ Route(rate, asked, parts).destination \in Nat
  <1>1. rate[1] \in Nat \ {0} /\ rate[2] \in Nat \ {0}
    BY RatesArePositive DEF Whole
  <1>2. parts * rate[1] \in Nat /\ parts * rate[2] \in Nat
    BY <1>1, ProductIsNatural
  <1>3. ToCents(parts * rate[1], rate[2]) \in Nat /\ ToCents(parts * rate[2], rate[1]) \in Nat
    BY <1>1, <1>2, ToCentsIsNatural
  <1> QED
    BY <1>3 DEF Route

LEMMA QuotesInvInit == QuotesInit => QuotesInv
  BY DEF QuotesInit, QuotesInv, QuotesTypeOK, Shapes, PaymentsFollowQuotes, OnQuote,
     BothAmountsAreRecorded, Absent

\* A rate the router gives.
LEMMA RateIsKnown ==
    ASSUME QuotesTypeOK, NEW c \in Foreign \cup {Home}, RateTo(c) # NoRate
    PROVE  RateTo(c) \in Rates \cup {Whole}
  BY DEF QuotesTypeOK, RateTo

LEMMA PriceKeeps ==
    ASSUME QuotesInv, NEW q \in QuoteIds, NEW c \in Foreign \cup {Home},
           NEW asked \in {"source", "destination"}, NEW parts \in AmountsGiven,
           PriceQuote(q, c, asked, parts)
    PROVE  QuotesInv'
  <1> DEFINE r == Route(RateTo(c), asked, parts)
             new == [source |-> Stored(r.source), destination |-> Stored(r.destination),
                     currency |-> c, rate |-> RateTo(c), asked |-> asked]
  <1>1. new \in QuoteRows
    <2>1. RateTo(c) \in Rates \cup {Whole}
      BY RateIsKnown DEF PriceQuote, QuotesInv
    <2>2. parts \in Nat
      BY AmountsGivenArePositive
    <2>3. r.source \in Nat /\ r.destination \in Nat
      BY <2>1, <2>2, RouteIsNatural, NamesAreDistinct
    <2>4. Stored(r.source) \in Nat /\ Stored(r.destination) \in Nat
      BY <2>3, StoredIsNatural
    <2> QED
      BY <2>1, <2>4 DEF QuoteRows
  <1>2. /\ quote[q] = NoQuote /\ quote' = [quote EXCEPT ![q] = new]
        /\ UNCHANGED <<stale, payment, recorded, market>>
    BY DEF PriceQuote
  <1> HIDE DEF new
  <1>3. QuotesTypeOK' /\ Shapes'
    BY <1>1, <1>2, NamesAreDistinct DEF QuotesInv, QuotesTypeOK, Shapes
  <1>4. \A p \in OnQuote : quote'[payment[p].quote] = quote[payment[p].quote]
    BY <1>2, NamesAreDistinct DEF QuotesInv, Shapes, PaymentsFollowQuotes, OnQuote
  <1>5. PaymentsFollowQuotes' /\ BothAmountsAreRecorded'
    BY <1>2, <1>4 DEF QuotesInv, PaymentsFollowQuotes, BothAmountsAreRecorded, OnQuote
  <1> QED
    BY <1>3, <1>5 DEF QuotesInv

LEMMA ExpireKeeps ==
    ASSUME QuotesInv, NEW q \in QuoteIds, ExpireQuote(q)
    PROVE  QuotesInv'
  BY DEF QuotesInv, ExpireQuote, QuotesTypeOK, Shapes, PaymentsFollowQuotes,
     BothAmountsAreRecorded, OnQuote

LEMMA MarketKeeps ==
    ASSUME QuotesInv, NEW c \in Foreign, NEW r \in Rates \cup {NoRate}, MarketMoves(c, r)
    PROVE  QuotesInv'
  BY DEF QuotesInv, MarketMoves, QuotesTypeOK, Shapes, PaymentsFollowQuotes,
     BothAmountsAreRecorded, OnQuote

LEMMA AddKeeps ==
    ASSUME QuotesInv, NEW p \in PaymentIds, NEW r \in PaymentRows, AddPayment(p, r),
           r.status \in {"held", "paid"},
           r.quote # NoQuote =>
              /\ quote[r.quote] # NoQuote
              /\ r.source = quote[r.quote].source
              /\ r.destination = quote[r.quote].destination
    PROVE  QuotesInv'
  <1>1. /\ payment[p] = Absent /\ payment' = [payment EXCEPT ![p] = r]
        /\ UNCHANGED <<quote, stale, recorded, market>>
    BY DEF AddPayment
  <1>2. recorded[p] = <<>>
    BY <1>1 DEF QuotesInv, PaymentsFollowQuotes, Absent
  <1>3. QuotesTypeOK' /\ Shapes'
    BY <1>1 DEF QuotesInv, QuotesTypeOK, Shapes
  <1>4. payment'[p] = r /\ \A o \in PaymentIds \ {p} : payment'[o] = payment[o]
    BY <1>1 DEF QuotesInv, Shapes
  <1>5. r.quote # NoQuote => r.quote \in QuoteIds /\ quote[r.quote] \in QuoteRows
    BY DEF QuotesInv, QuotesTypeOK, PaymentRows
  <1>6. PaymentsFollowQuotes'
    BY <1>1, <1>2, <1>4, <1>5 DEF QuotesInv, PaymentsFollowQuotes, OnQuote
  <1>7. BothAmountsAreRecorded'
    BY <1>1, <1>2, <1>4, <1>5 DEF QuotesInv, BothAmountsAreRecorded, OnQuote
  <1> QED
    BY <1>3, <1>6, <1>7 DEF QuotesInv

LEMMA PayKeeps ==
    ASSUME QuotesInv, NEW p \in PaymentIds, NEW payee \in Payees, NEW status \in {"held", "paid"},
           \/ \E q \in QuoteIds : PayByQuote(p, payee, q, status)
           \/ \E parts \in AmountsGiven : PayAmount(p, payee, parts, status)
    PROVE  QuotesInv'
  <1>1. ASSUME NEW q \in QuoteIds, PayByQuote(p, payee, q, status) PROVE QuotesInv'
    <2> DEFINE r == [status |-> status, payee |-> payee, source |-> quote[q].source,
                     destination |-> quote[q].destination, currency |-> quote[q].currency,
                     quote |-> q, rate |-> quote[q].rate]
    <2>1. AddPayment(p, r) /\ quote[q] # NoQuote
      BY <1>1 DEF PayByQuote
    <2>2. quote[q] \in QuoteRows
      BY <2>1 DEF QuotesInv, QuotesTypeOK
    <2>3. r \in PaymentRows
      BY <2>2 DEF QuoteRows, PaymentRows
    <2> QED
      BY <2>1, <2>3, AddKeeps
  <1>2. ASSUME NEW parts \in AmountsGiven, PayAmount(p, payee, parts, status) PROVE QuotesInv'
    <2> DEFINE r == [status |-> status, payee |-> payee, source |-> Stored(parts),
                     destination |-> Stored(parts), currency |-> Home, quote |-> NoQuote,
                     rate |-> Whole]
    <2>1. AddPayment(p, r)
      BY <1>2 DEF PayAmount
    <2>2. r \in PaymentRows
      BY NamesAreDistinct, StoredIsNatural, AmountsGivenArePositive DEF PaymentRows
    <2> QED
      BY <2>1, <2>2, AddKeeps
  <1> QED
    BY <1>1, <1>2

\* What becomes of a held payment when it is approved.
LEMMA ApproveOutcome ==
    ASSUME QuotesInv, NEW p \in PaymentIds, Approve(p)
    PROVE  /\ payment[p] \in PaymentRows /\ payment[p].status = "held"
           /\ Executed(p) \in PaymentRows
           /\ Executed(p).status = "paid"
           /\ Executed(p).quote = payment[p].quote
           /\ Executed(p).source = payment[p].source
           /\ payment[p].quote \notin stale =>
                 Executed(p).destination = payment[p].destination
           /\ payment' = [payment EXCEPT ![p] = Executed(p)]
  <1>1. payment[p] \in PaymentRows /\ payment[p].status = "held"
    BY DEF Approve, QuotesInv, QuotesTypeOK, Absent
  <1>2. payment' = [payment EXCEPT ![p] = Executed(p)]
    BY DEF Approve
  <1> DEFINE rate == RateTo(payment[p].currency)
             routed == Route(rate, "source", Parts(payment[p].source)).destination
             destination == Stored(routed)
  <1>3. CASE MustReprice(p)
    <2>1. rate \in Rates \cup {Whole}
      BY <1>1, <1>3, RateIsKnown DEF Approve, QuotesInv, PaymentRows
    <2>2. destination \in Nat
      <3>1. Parts(payment[p].source) \in Nat
        BY <1>1, PartsAreNatural DEF PaymentRows
      <3>2. routed \in Nat
        BY <2>1, <3>1, RouteIsNatural
      <3> QED
        BY <3>2, StoredIsNatural
    <2>3. Executed(p) = [payment[p] EXCEPT !.status = "paid", !.destination = destination,
                                           !.rate = rate]
      BY <1>3 DEF Executed
    <2> HIDE DEF destination, routed, rate
    <2> QED
      BY <1>1, <1>2, <1>3, <2>1, <2>2, <2>3 DEF PaymentRows, MustReprice
  <1>4. CASE ~MustReprice(p)
    <2>1. Executed(p) = [payment[p] EXCEPT !.status = "paid"]
      BY <1>4 DEF Executed
    <2> QED
      BY <1>1, <1>2, <2>1 DEF PaymentRows
  <1> QED
    BY <1>3, <1>4

LEMMA ApproveKeeps ==
    ASSUME QuotesInv, NEW p \in PaymentIds, Approve(p)
    PROVE  QuotesInv'
  <1>1. /\ payment[p] \in PaymentRows /\ payment[p].status = "held"
        /\ Executed(p) \in PaymentRows /\ Executed(p).status = "paid"
        /\ Executed(p).quote = payment[p].quote /\ Executed(p).source = payment[p].source
        /\ payment[p].quote \notin stale =>
              Executed(p).destination = payment[p].destination
        /\ payment' = [payment EXCEPT ![p] = Executed(p)]
    BY ApproveOutcome
  <1>2. payment[p] # Absent
    BY <1>1 DEF Absent
  <1>3. recorded[p] = <<>>
    BY <1>1 DEF QuotesInv, PaymentsFollowQuotes
  <1> DEFINE before == payment[p].destination
             after == Executed(p).destination
  <1>4. /\ UNCHANGED <<quote, stale, market>>
        /\ recorded' = IF before = after THEN recorded
                       ELSE [recorded EXCEPT ![p] = <<before, after>>]
    BY DEF Approve, RecordRepriced
  <1>5. before \in Nat /\ after \in Nat
    BY <1>1 DEF PaymentRows
  <1>6. /\ payment'[p] = Executed(p)
        /\ \A o \in PaymentIds \ {p} : payment'[o] = payment[o] /\ recorded'[o] = recorded[o]
    BY <1>1, <1>4 DEF QuotesInv, Shapes, QuotesTypeOK
  <1>7. recorded'[p] = IF before = after THEN <<>> ELSE <<before, after>>
    BY <1>3, <1>4 DEF QuotesInv, QuotesTypeOK
  <1>8. recorded' \in [PaymentIds -> {<<>>} \cup (Nat \X Nat)]
    BY <1>4, <1>5 DEF QuotesInv, QuotesTypeOK
  <1> HIDE DEF before, after
  <1>9. QuotesTypeOK' /\ Shapes'
    BY <1>1, <1>4, <1>6, <1>8 DEF QuotesInv, QuotesTypeOK, Shapes
  <1>10. PaymentsFollowQuotes'
    BY <1>1, <1>2, <1>4, <1>6 DEF QuotesInv, PaymentsFollowQuotes, OnQuote
  <1>11. BothAmountsAreRecorded'
    <2>1. ASSUME NEW o \in PaymentIds \ {p}, (o \in OnQuote)'
          PROVE  /\ payment[o].source = quote[payment[o].quote].source
                 /\ recorded[o] = IF payment[o].destination = quote[payment[o].quote].destination THEN <<>>
                                  ELSE <<quote[payment[o].quote].destination, payment[o].destination>>
                 /\ payment[o].destination # quote[payment[o].quote].destination => payment[o].quote \in stale
      BY <1>6, <2>1 DEF QuotesInv, BothAmountsAreRecorded, OnQuote
    <2>2. CASE payment[p].quote # NoQuote
      <3>1. /\ before = quote[payment[p].quote].destination
            /\ payment[p].source = quote[payment[p].quote].source
        BY <1>1, <1>2, <2>2 DEF QuotesInv, PaymentsFollowQuotes, BothAmountsAreRecorded, OnQuote, before
      <3> QED
        BY <1>1, <1>4, <1>6, <1>7, <2>1, <3>1 DEF BothAmountsAreRecorded, OnQuote, before, after
    <2>3. CASE payment[p].quote = NoQuote
      BY <1>1, <1>4, <1>6, <2>1, <2>3 DEF BothAmountsAreRecorded, OnQuote
    <2> QED
      BY <2>2, <2>3
  <1> QED
    BY <1>9, <1>10, <1>11 DEF QuotesInv

LEMMA RejectKeeps ==
    ASSUME QuotesInv, NEW p \in PaymentIds, Reject(p)
    PROVE  QuotesInv'
  <1> DEFINE r == [payment[p] EXCEPT !.status = "rejected"]
  <1>1. payment[p] \in PaymentRows /\ payment[p].status = "held" /\ payment[p] # Absent
    BY DEF Reject, QuotesInv, QuotesTypeOK, Absent
  <1>2. /\ r \in PaymentRows /\ r.status = "rejected" /\ r.quote = payment[p].quote
        /\ r.source = payment[p].source /\ r.destination = payment[p].destination
    BY <1>1 DEF PaymentRows
  <1>3. /\ payment' = [payment EXCEPT ![p] = r]
        /\ UNCHANGED <<quote, stale, recorded, market>>
    BY DEF Reject
  <1> HIDE DEF r
  <1>4. payment'[p] = r /\ \A o \in PaymentIds \ {p} : payment'[o] = payment[o]
    BY <1>3 DEF QuotesInv, Shapes
  <1>5. QuotesTypeOK' /\ Shapes'
    BY <1>2, <1>3 DEF QuotesInv, QuotesTypeOK, Shapes
  <1>6. PaymentsFollowQuotes'
    BY <1>1, <1>2, <1>3, <1>4 DEF QuotesInv, PaymentsFollowQuotes, OnQuote
  <1>7. BothAmountsAreRecorded'
    BY <1>1, <1>2, <1>3, <1>4 DEF QuotesInv, BothAmountsAreRecorded, OnQuote
  <1> QED
    BY <1>5, <1>6, <1>7 DEF QuotesInv

LEMMA QuotesInvStep == QuotesInv /\ [QuotesNext]_quotesVars => QuotesInv'
  <1> SUFFICES ASSUME QuotesInv, [QuotesNext]_quotesVars PROVE QuotesInv'
    OBVIOUS
  <1>1. CASE UNCHANGED quotesVars
    BY <1>1 DEF quotesVars, QuotesInv, QuotesTypeOK, Shapes, PaymentsFollowQuotes,
       BothAmountsAreRecorded, OnQuote
  <1>2. CASE QuotesNext
    BY <1>2, MarketKeeps, PriceKeeps, ExpireKeeps, PayKeeps, ApproveKeeps, RejectKeeps
       DEF QuotesNext
  <1> QED
    BY <1>1, <1>2

LEMMA QuotesInvariant == QuotesSpec => []QuotesInv
  BY QuotesInvInit, QuotesInvStep, PTL DEF QuotesSpec

\* The approval of a payment that was priced again records what was quoted and
\* what was delivered, and nothing else makes the two differ (approvals.py).
THEOREM RepricingIsRecorded == QuotesSpec => []BothAmountsAreRecorded
  <1>1. QuotesInv => BothAmountsAreRecorded
    BY DEF QuotesInv
  <1> QED
    BY <1>1, QuotesInvariant, PTL

\* A payment made on a quote, or released after a hold, before the quote expires
\* delivers the quoted amount, wherever the market has gone (payments.py).
THEOREM LiveQuotesAreFirm == QuotesSpec => QuotesAreFirm
  <1> DEFINE Firm ==
        \A p \in PaymentIds :
          LET now == payment'[p]
          IN  /\ now # payment[p] /\ now.status = "paid"
              /\ now.quote \in QuoteIds \ stale
              => now.destination = quote[now.quote].destination
  <1>1. QuotesInv /\ [QuotesNext]_quotesVars => [Firm]_quotesVars
    <2> SUFFICES ASSUME QuotesInv, QuotesNext, NEW p \in PaymentIds,
                        payment'[p] # payment[p], payment'[p].status = "paid",
                        payment'[p].quote \in QuoteIds \ stale
                 PROVE  payment'[p].destination = quote[payment'[p].quote].destination
      BY DEF quotesVars
    <2>1. ASSUME NEW o \in PaymentIds, NEW payee \in Payees, NEW status \in {"held", "paid"},
                 NEW q \in QuoteIds, PayByQuote(o, payee, q, status)
          PROVE  payment'[p].destination = quote[payment'[p].quote].destination
      BY <2>1 DEF PayByQuote, AddPayment, QuotesInv, Shapes
    <2>2. ASSUME NEW o \in PaymentIds, NEW payee \in Payees, NEW status \in {"held", "paid"},
                 NEW parts \in AmountsGiven, PayAmount(o, payee, parts, status)
          PROVE  payment'[p].destination = quote[payment'[p].quote].destination
      BY <2>2, NamesAreDistinct DEF PayAmount, AddPayment, QuotesInv, Shapes
    <2>3. ASSUME NEW o \in PaymentIds, Approve(o)
          PROVE  payment'[p].destination = quote[payment'[p].quote].destination
      <3>1. o = p /\ payment'[p] = Executed(p)
        BY <2>3, ApproveOutcome DEF QuotesInv, Shapes
      <3>2. /\ Executed(p).quote = payment[p].quote /\ payment[p].status = "held"
            /\ payment[p].quote \notin stale => Executed(p).destination = payment[p].destination
        BY <2>3, <3>1, ApproveOutcome
      <3>3. p \in OnQuote
        BY <3>1, <3>2, NamesAreDistinct DEF OnQuote, Absent
      <3> QED
        BY <3>1, <3>2, <3>3 DEF QuotesInv, PaymentsFollowQuotes
    <2>4. ASSUME NEW o \in PaymentIds, Reject(o) PROVE FALSE
      <3>1. payment[o] \in PaymentRows
        BY <2>4 DEF Reject, QuotesInv, QuotesTypeOK, Absent
      <3>2. payment' = [payment EXCEPT ![o] = [payment[o] EXCEPT !.status = "rejected"]]
        BY <2>4 DEF Reject
      <3>3. o = p /\ payment'[p] = [payment[p] EXCEPT !.status = "rejected"]
        BY <3>2 DEF QuotesInv, Shapes
      <3>4. payment'[p].status = "rejected"
        BY <3>1, <3>3 DEF PaymentRows
      <3> QED
        BY <3>4
    <2> QED
      BY <2>1, <2>2, <2>3, <2>4 DEF QuotesNext, MarketMoves, PriceQuote, ExpireQuote
  <1> HIDE DEF Firm
  <1>2. QuotesSpec => [][Firm]_quotesVars
    BY <1>1, QuotesInvariant, PTL DEF QuotesSpec
  <1> QED
    BY <1>2 DEF QuotesAreFirm, Firm

----------------------------------------------------------------------------
(***************************************************************************)
(* What rounding can do.                                                   *)
(***************************************************************************)

\* Quotes are priced by the router from the amount asked for, and so is a payment
\* that has another amount than its quote, from the amount stored.
PricesAreRouted ==
    /\ \A q \in QuoteIds : quote[q] # NoQuote =>
          LET x == quote[q]
          IN  \E parts \in Nat :
                 IF x.asked = "source"
                 THEN /\ x.source = Stored(parts)
                      /\ x.destination = Stored(ToCents(parts * x.rate[1], x.rate[2]))
                 ELSE /\ x.destination = Stored(parts)
                      /\ x.source = Stored(ToCents(parts * x.rate[2], x.rate[1]))
    /\ \A p \in OnQuote :
          \/ payment[p].destination = quote[payment[p].quote].destination
          \/ payment[p].destination =
                Stored(ToCents(Parts(payment[p].source) * payment[p].rate[1], payment[p].rate[2]))

\* A rounded quotient is off by half of the divisor at most.
LEMMA HalfUpBounds ==
    ASSUME NEW n \in Nat, NEW d \in Nat \ {0}
    PROVE  /\ 2 * (d * HalfUp(n, d)) <= 2 * n + d
           /\ 2 * n < 2 * (d * HalfUp(n, d)) + d
  <1> DEFINE x == 2 * n + d
             y == 2 * d
             z == x \div y
  <1>1. x \in Nat /\ y \in Nat /\ y > 0
    OBVIOUS
  <1>2. HalfUp(n, d) = z /\ z \in Nat
    BY HalfUpIsNatural DEF HalfUp
  <1>3. ASSUME NEW u \in Nat, NEW v \in Nat, v > 0
        PROVE  v * (u \div v) <= u /\ u < v * (u \div v) + v
    BY <1>3
  <1>4. y * z <= x /\ x < y * z + y
    <2> HIDE DEF x, y
    <2> QED
      BY <1>1, <1>3
  <1>5. y * z = 2 * (d * z)
    <2> HIDE DEF z
    <2> QED
      BY <1>2
  <1>6. d * z \in Nat
    BY <1>2, ProductIsNatural
  <1> HIDE DEF z
  <1> QED
    BY <1>2, <1>4, <1>5, <1>6

LEMMA StoredBounds ==
    ASSUME NEW n \in Nat
    PROVE  /\ Stored(n) \in Nat
           /\ 2 * (Finer * Stored(n)) <= 2 * n + Finer
           /\ 2 * n < 2 * (Finer * Stored(n)) + Finer
  BY FinerIsPositive, HalfUpIsNatural, HalfUpBounds DEF Stored

\* One multiple of the unit only is that close.
LEMMA StoredIs ==
    ASSUME NEW n \in Nat, NEW s \in Int,
           2 * (Finer * s) <= 2 * n + Finer, 2 * n < 2 * (Finer * s) + Finer
    PROVE  Stored(n) = s
  <1>1. ASSUME NEW x \in Int, NEW y \in Int, x < y PROVE Finer * x + Finer <= Finer * y
    <2>1. Finer * (x + 1) <= Finer * y
      BY <1>1, FinerIsPositive
    <2> QED
      BY <2>1, FinerIsPositive
  <1> DEFINE q == Stored(n)
  <1>2. q \in Int /\ 2 * (Finer * q) <= 2 * n + Finer /\ 2 * n < 2 * (Finer * q) + Finer
    BY StoredBounds
  <1> HIDE DEF q
  <1>3. Finer * q \in Int /\ Finer * s \in Int
    BY <1>2, FinerIsPositive
  <1>4. ~(q < s) /\ ~(s < q)
    BY <1>1, <1>2, <1>3, FinerIsPositive
  <1>5. q = s
    BY <1>2, <1>4
  <1> QED
    BY <1>5 DEF q

\* What is not less in parts is not less in units.
LEMMA UnitsCompare ==
    ASSUME NEW x \in Int, NEW y \in Int, Finer * x <= Finer * y PROVE x <= y
  <1>1. ASSUME y < x PROVE FALSE
    <2>1. Finer * (y + 1) <= Finer * x
      BY <1>1, FinerIsPositive
    <2>2. Finer * (y + 1) = Finer * y + Finer /\ Finer * x \in Int /\ Finer * y \in Int
      BY FinerIsPositive
    <2> QED
      BY <2>1, <2>2, FinerIsPositive
  <1> QED
    BY <1>1

\* A price in cents, in parts and as it is stored; k is its number of cents, and
\* it is half a cent away from the exact price at most.
LEMMA PriceInCents ==
    ASSUME NEW n \in Nat, NEW d \in Nat \ {0}
    PROVE  \E k \in Nat :
              /\ ToCents(n, d) = Finer * (Cent * k) /\ Stored(ToCents(n, d)) = Cent * k
              /\ 2 * (Finer * (d * (Cent * k))) <= 2 * n + Finer * (Cent * d)
              /\ 2 * n <= 2 * (Finer * (d * (Cent * k))) + Finer * (Cent * d)
  <1> DEFINE w == Parts(Cent)
             k == HalfUp(n, d * w)
  <1>1. w = Cent * Finer /\ w \in Nat \ {0} /\ d * w \in Nat \ {0}
    BY FinerIsPositive, CentIsPositive DEF Parts
  <1>2. k \in Nat /\ 2 * ((d * w) * k) <= 2 * n + d * w /\ 2 * n < 2 * ((d * w) * k) + d * w
    BY <1>1, HalfUpIsNatural, HalfUpBounds
  <1>3. ToCents(n, d) = w * k
    BY DEF ToCents
  <1> HIDE DEF w, k
  <1>4. /\ w * k = Finer * (Cent * k)
        /\ (d * w) * k = Finer * (d * (Cent * k))
        /\ d * w = Finer * (Cent * d)
    BY <1>1, <1>2, FinerIsPositive, CentIsPositive
  <1>5. Stored(w * k) = Cent * k
    <2>1. Cent * k \in Nat /\ w * k \in Nat
      BY <1>1, <1>2, CentIsPositive
    <2>2. 2 * (Finer * (Cent * k)) <= 2 * (w * k) + Finer /\ 2 * (w * k) < 2 * (Finer * (Cent * k)) + Finer
      BY <1>4, <2>1, FinerIsPositive
    <2> QED
      BY <2>1, <2>2, StoredIs
  <1>6. (d * w) * k \in Nat
    BY <1>1, <1>2
  <1> QED
    BY <1>1, <1>2, <1>3, <1>4, <1>5, <1>6

\* An amount at home is asked for: its price, and the price of what was stored of it.
LEMMA PricedAndRepriced ==
    ASSUME NEW n \in Nat \ {0}, NEW d \in Nat \ {0}, NEW parts \in Nat
    PROVE  LET quoted == Stored(ToCents(parts * n, d))
               off == Stored(ToCents(Parts(Stored(parts)) * n, d)) - quoted
           IN  2 * d * off <= n + 2 * (Cent * d) /\ -2 * d * off <= n + 2 * (Cent * d)
  <1> DEFINE s == Stored(parts)
  <1>1. s \in Nat /\ 2 * (Finer * s) <= 2 * parts + Finer /\ 2 * parts < 2 * (Finer * s) + Finer
    BY StoredBounds
  <1> HIDE DEF s
  <1>2. parts * n \in Nat /\ Parts(s) * n \in Nat /\ Parts(s) * n = n * (Finer * s)
    BY <1>1, FinerIsPositive DEF Parts
  <1>3. PICK k \in Nat :
          /\ Stored(ToCents(parts * n, d)) = Cent * k
          /\ 2 * (Finer * (d * (Cent * k))) <= 2 * (parts * n) + Finer * (Cent * d)
          /\ 2 * (parts * n) <= 2 * (Finer * (d * (Cent * k))) + Finer * (Cent * d)
    BY <1>2, PriceInCents
  <1>4. PICK j \in Nat :
          /\ Stored(ToCents(Parts(s) * n, d)) = Cent * j
          /\ 2 * (Finer * (d * (Cent * j))) <= 2 * (Parts(s) * n) + Finer * (Cent * d)
          /\ 2 * (Parts(s) * n) <= 2 * (Finer * (d * (Cent * j))) + Finer * (Cent * d)
    BY <1>2, PriceInCents
  <1> DEFINE x == d * (Cent * k)
             y == d * (Cent * j)
             c == Cent * d
  <1>5. x \in Nat /\ y \in Nat /\ c \in Nat
    BY CentIsPositive
  <1>6. 2 * (n * (Finer * s)) <= 2 * (parts * n) + Finer * n /\ 2 * (parts * n) <= 2 * (n * (Finer * s)) + Finer * n
    <2> DEFINE f == Finer * s
    <2>1. f \in Nat /\ 2 * f <= 2 * parts + Finer /\ 2 * parts <= 2 * f + Finer
      BY <1>1, FinerIsPositive
    <2> HIDE DEF f
    <2>2. n * (2 * f) <= n * (2 * parts + Finer) /\ n * (2 * parts) <= n * (2 * f + Finer)
      BY <2>1, FinerIsPositive
    <2>3. /\ n * (2 * f) = 2 * (n * f) /\ n * (2 * parts) = 2 * (parts * n)
          /\ n * (2 * parts + Finer) = 2 * (parts * n) + Finer * n
          /\ n * (2 * f + Finer) = 2 * (n * f) + Finer * n
      BY <2>1, FinerIsPositive
    <2> QED
      BY <2>2, <2>3 DEF f
  <1> HIDE DEF x, y, c
  <1>7. /\ 2 * (Finer * y) - 2 * (Finer * x) <= Finer * n + 2 * (Finer * c)
        /\ 2 * (Finer * x) - 2 * (Finer * y) <= Finer * n + 2 * (Finer * c)
    <2>1. Finer * x \in Nat /\ Finer * y \in Nat /\ Finer * c \in Nat /\ Finer * n \in Nat
      BY <1>5, FinerIsPositive
    <2>2. n * (Finer * s) \in Nat
      BY <1>1, FinerIsPositive
    <2>3. /\ 2 * (Finer * x) <= 2 * (parts * n) + Finer * c
          /\ 2 * (parts * n) <= 2 * (Finer * x) + Finer * c
          /\ 2 * (Finer * y) <= 2 * (n * (Finer * s)) + Finer * c
          /\ 2 * (n * (Finer * s)) <= 2 * (Finer * y) + Finer * c
      BY <1>2, <1>3, <1>4 DEF x, y, c
    <2> QED
      BY <1>2, <1>6, <2>1, <2>2, <2>3
  <1>8. 2 * y - 2 * x <= n + 2 * c /\ 2 * x - 2 * y <= n + 2 * c
    <2>1. /\ Finer * (2 * y - 2 * x) = 2 * (Finer * y) - 2 * (Finer * x)
          /\ Finer * (2 * x - 2 * y) = 2 * (Finer * x) - 2 * (Finer * y)
          /\ Finer * (n + 2 * c) = Finer * n + 2 * (Finer * c)
      BY <1>5, FinerIsPositive
    <2>2. 2 * y - 2 * x \in Int /\ 2 * x - 2 * y \in Int /\ n + 2 * c \in Int
      BY <1>5
    <2> QED
      BY <1>7, <2>1, <2>2, UnitsCompare
  <1>9. 2 * d * (Cent * j - Cent * k) = 2 * y - 2 * x /\ -2 * d * (Cent * j - Cent * k) = 2 * x - 2 * y
    BY CentIsPositive DEF x, y
  <1> QED
    BY <1>3, <1>4, <1>8, <1>9 DEF s, c

\* An amount there is asked for: its price at home, and that converted again.
LEMMA ThereAndBack ==
    ASSUME NEW n \in Nat \ {0}, NEW d \in Nat \ {0}, NEW parts \in Nat
    PROVE  LET quoted == Stored(parts)
               price == Stored(ToCents(parts * d, n))
               off == Stored(ToCents(Parts(price) * n, d)) - quoted
           IN  /\ 2 * d * off <= Cent * n + Cent * d + d
               /\ -2 * d * off <= Cent * n + Cent * d + d
  <1> DEFINE q == Stored(parts)
  <1>1. q \in Nat /\ 2 * (Finer * q) <= 2 * parts + Finer /\ 2 * parts < 2 * (Finer * q) + Finer
    BY StoredBounds
  <1> HIDE DEF q
  <1>2. parts * d \in Nat
    BY ProductIsNatural
  <1>3. PICK k \in Nat :
          /\ Stored(ToCents(parts * d, n)) = Cent * k
          /\ 2 * (Finer * (n * (Cent * k))) <= 2 * (parts * d) + Finer * (Cent * n)
          /\ 2 * (parts * d) <= 2 * (Finer * (n * (Cent * k))) + Finer * (Cent * n)
    BY <1>2, PriceInCents
  <1> DEFINE price == Parts(Cent * k) * n
             v == n * (Cent * k)
  <1>4. v \in Nat /\ price \in Nat /\ price = Finer * v
    BY FinerIsPositive, CentIsPositive DEF Parts
  <1> HIDE DEF price
  <1>5. PICK j \in Nat :
          /\ Stored(ToCents(price, d)) = Cent * j
          /\ 2 * (Finer * (d * (Cent * j))) <= 2 * price + Finer * (Cent * d)
          /\ 2 * price <= 2 * (Finer * (d * (Cent * j))) + Finer * (Cent * d)
    BY <1>4, PriceInCents
  <1> DEFINE y == d * (Cent * j)
             z == d * q
             c == Cent * n + Cent * d + d
  <1>6. y \in Nat /\ z \in Nat /\ c \in Nat
    BY <1>1, CentIsPositive
  <1>7. 2 * (Finer * z) <= 2 * (parts * d) + Finer * d /\ 2 * (parts * d) <= 2 * (Finer * z) + Finer * d
    <2> DEFINE f == Finer * q
    <2>1. f \in Nat /\ 2 * f <= 2 * parts + Finer /\ 2 * parts <= 2 * f + Finer
      BY <1>1, FinerIsPositive
    <2>2. d * f = Finer * z
      BY <1>1, FinerIsPositive
    <2> HIDE DEF f
    <2>3. d * (2 * f) <= d * (2 * parts + Finer) /\ d * (2 * parts) <= d * (2 * f + Finer)
      BY <2>1, FinerIsPositive
    <2>4. /\ d * (2 * f) = 2 * (d * f) /\ d * (2 * parts) = 2 * (parts * d)
          /\ d * (2 * parts + Finer) = 2 * (parts * d) + Finer * d
          /\ d * (2 * f + Finer) = 2 * (d * f) + Finer * d
      BY <2>1, FinerIsPositive
    <2> QED
      BY <2>2, <2>3, <2>4
  <1>8. Finer * c = Finer * (Cent * n) + Finer * (Cent * d) + Finer * d
    BY FinerIsPositive, CentIsPositive
  <1> HIDE DEF v, y, z, c
  <1>9. 2 * (Finer * y) - 2 * (Finer * z) <= Finer * c /\ 2 * (Finer * z) - 2 * (Finer * y) <= Finer * c
    <2>1. /\ Finer * v \in Nat /\ Finer * y \in Nat /\ Finer * z \in Nat
          /\ Finer * (Cent * n) \in Nat /\ Finer * (Cent * d) \in Nat /\ Finer * d \in Nat
      BY <1>4, <1>6, FinerIsPositive, CentIsPositive
    <2>2. /\ 2 * (Finer * v) <= 2 * (parts * d) + Finer * (Cent * n)
          /\ 2 * (parts * d) <= 2 * (Finer * v) + Finer * (Cent * n)
          /\ 2 * (Finer * y) <= 2 * (Finer * v) + Finer * (Cent * d)
          /\ 2 * (Finer * v) <= 2 * (Finer * y) + Finer * (Cent * d)
      BY <1>3, <1>4, <1>5 DEF v, y
    <2> QED
      BY <1>2, <1>7, <1>8, <2>1, <2>2
  <1>10. 2 * y - 2 * z <= c /\ 2 * z - 2 * y <= c
    <2>1. /\ Finer * (2 * y - 2 * z) = 2 * (Finer * y) - 2 * (Finer * z)
          /\ Finer * (2 * z - 2 * y) = 2 * (Finer * z) - 2 * (Finer * y)
      BY <1>6, FinerIsPositive
    <2>2. 2 * y - 2 * z \in Int /\ 2 * z - 2 * y \in Int /\ c \in Int
      BY <1>6
    <2> QED
      BY <1>9, <2>1, <2>2, UnitsCompare
  <1>11. 2 * d * (Cent * j - q) = 2 * y - 2 * z /\ -2 * d * (Cent * j - q) = 2 * z - 2 * y
    BY <1>1, CentIsPositive DEF y, z
  <1> QED
    BY <1>3, <1>5, <1>10, <1>11 DEF q, c, price

LEMMA PricesInit == QuotesInit => PricesAreRouted
  BY DEF QuotesInit, PricesAreRouted, OnQuote

LEMMA PricesStep ==
    QuotesInv /\ PricesAreRouted /\ [QuotesNext]_quotesVars => PricesAreRouted'
  <1> SUFFICES ASSUME QuotesInv, PricesAreRouted, [QuotesNext]_quotesVars
               PROVE  PricesAreRouted'
    OBVIOUS
  <1>1. CASE UNCHANGED <<quote, payment>>
    BY <1>1 DEF PricesAreRouted, OnQuote
  <1>2. ASSUME NEW q \in QuoteIds, NEW c \in Foreign \cup {Home},
               NEW asked \in {"source", "destination"}, NEW parts \in AmountsGiven,
               PriceQuote(q, c, asked, parts)
        PROVE  PricesAreRouted'
    <2> DEFINE r == Route(RateTo(c), asked, parts)
               new == [source |-> Stored(r.source), destination |-> Stored(r.destination),
                       currency |-> c, rate |-> RateTo(c), asked |-> asked]
    <2>1. /\ quote[q] = NoQuote /\ quote' = [quote EXCEPT ![q] = new] /\ payment' = payment
      BY <1>2 DEF PriceQuote
    <2>2. /\ parts \in Nat
          /\ IF new.asked = "source"
             THEN /\ new.source = Stored(parts)
                  /\ new.destination = Stored(ToCents(parts * new.rate[1], new.rate[2]))
             ELSE /\ new.destination = Stored(parts)
                  /\ new.source = Stored(ToCents(parts * new.rate[2], new.rate[1]))
      BY AmountsGivenArePositive DEF Route
    <2> HIDE DEF new
    <2>3. quote'[q] = new /\ \A o \in QuoteIds \ {q} : quote'[o] = quote[o]
      BY <2>1 DEF QuotesInv, Shapes
    <2>4. \A p \in OnQuote : quote'[payment[p].quote] = quote[payment[p].quote]
      BY <2>1, <2>3, NamesAreDistinct DEF QuotesInv, PaymentsFollowQuotes, OnQuote
    <2> QED
      BY <2>1, <2>2, <2>3, <2>4 DEF PricesAreRouted, OnQuote
  <1>3. ASSUME NEW o \in PaymentIds, NEW payee \in Payees, NEW status \in {"held", "paid"},
               \/ \E q \in QuoteIds : PayByQuote(o, payee, q, status)
               \/ \E parts \in AmountsGiven : PayAmount(o, payee, parts, status)
        PROVE  PricesAreRouted'
    <2>1. quote' = quote /\ \A p \in PaymentIds \ {o} : payment'[p] = payment[p]
      BY <1>3 DEF PayByQuote, PayAmount, AddPayment, QuotesInv, Shapes
    <2>2. \/ payment'[o].quote = NoQuote
          \/ payment'[o].destination = quote[payment'[o].quote].destination
      BY <1>3 DEF PayByQuote, PayAmount, AddPayment, QuotesInv, Shapes
    <2> QED
      BY <2>1, <2>2 DEF PricesAreRouted, OnQuote
  <1>4. ASSUME NEW o \in PaymentIds, Approve(o) PROVE PricesAreRouted'
    <2>1. /\ quote' = quote /\ payment'[o] = Executed(o)
          /\ \A p \in PaymentIds \ {o} : payment'[p] = payment[p]
          /\ payment[o] \in PaymentRows
      BY <1>4, ApproveOutcome DEF Approve, QuotesInv, Shapes
    <2>2. CASE MustReprice(o)
      <3> DEFINE rate == RateTo(payment[o].currency)
                 amount == Stored(ToCents(Parts(payment[o].source) * rate[1], rate[2]))
      <3>1. Stored(Route(rate, "source", Parts(payment[o].source)).destination) = amount
        BY DEF Route
      <3>2. Executed(o) = [payment[o] EXCEPT !.status = "paid", !.destination = amount,
                                             !.rate = rate]
        BY <2>2, <3>1 DEF Executed
      <3> HIDE DEF rate
      <3>3. Executed(o).destination =
               Stored(ToCents(Parts(Executed(o).source) * Executed(o).rate[1], Executed(o).rate[2]))
        BY <2>1, <3>2 DEF PaymentRows
      <3> QED
        BY <2>1, <3>3 DEF PricesAreRouted, OnQuote
    <2>3. CASE ~MustReprice(o)
      <3>1. Executed(o) = [payment[o] EXCEPT !.status = "paid"]
        BY <2>3 DEF Executed
      <3>2. /\ Executed(o).destination = payment[o].destination
            /\ Executed(o).source = payment[o].source
            /\ Executed(o).rate = payment[o].rate /\ Executed(o).quote = payment[o].quote
        BY <2>1, <3>1 DEF PaymentRows
      <3>3. payment[o] # Absent
        BY <1>4 DEF Approve, Absent
      <3> QED
        BY <2>1, <3>2, <3>3 DEF PricesAreRouted, OnQuote
    <2> QED
      BY <2>2, <2>3
  <1>5. ASSUME NEW o \in PaymentIds, Reject(o) PROVE PricesAreRouted'
    <2> DEFINE r == [payment[o] EXCEPT !.status = "rejected"]
    <2>1. payment[o] \in PaymentRows /\ payment[o] # Absent
      BY <1>5 DEF Reject, QuotesInv, QuotesTypeOK, Absent
    <2>2. /\ quote' = quote /\ payment'[o] = r
          /\ \A p \in PaymentIds \ {o} : payment'[p] = payment[p]
      BY <1>5 DEF Reject, QuotesInv, Shapes
    <2>3. /\ r.destination = payment[o].destination /\ r.source = payment[o].source
          /\ r.rate = payment[o].rate /\ r.quote = payment[o].quote
      BY <2>1 DEF PaymentRows
    <2> HIDE DEF r
    <2> QED
      BY <2>1, <2>2, <2>3 DEF PricesAreRouted, OnQuote
  <1> QED
    BY <1>1, <1>2, <1>3, <1>4, <1>5 DEF QuotesNext, MarketMoves, ExpireQuote, quotesVars

\* Repricing at the rate of the quote moves the payee's amount by no more than the
\* roundings between can: to cents and to what a column holds (payments.py,
\* quotes.py, sandbox.py, models/base.py).
THEOREM RoundingIsBounded == QuotesSpec => []RepricedWithinRounding
  <1>1. QuotesInv /\ PricesAreRouted => RepricedWithinRounding
    <2> SUFFICES ASSUME QuotesInv, PricesAreRouted, NEW p \in OnQuote,
                        payment[p].rate = quote[payment[p].quote].rate
                 PROVE  LET quoted == quote[payment[p].quote]
                            n == quoted.rate[1]
                            d == quoted.rate[2]
                            off == payment[p].destination - quoted.destination
                            most == IF quoted.asked = "destination" THEN Cent * n + Cent * d + d
                                    ELSE n + 2 * (Cent * d)
                        IN  2 * d * off <= most /\ -2 * d * off <= most
      BY DEF RepricedWithinRounding
    <2> DEFINE quoted == quote[payment[p].quote]
               n == quoted.rate[1]
               d == quoted.rate[2]
               got == payment[p].destination
               most == IF quoted.asked = "destination" THEN Cent * n + Cent * d + d
                       ELSE n + 2 * (Cent * d)
    <2>1. /\ quoted \in QuoteRows /\ quoted # NoQuote /\ payment[p].quote \in QuoteIds
          /\ payment[p].source = quoted.source
      BY NamesAreDistinct DEF QuotesInv, PaymentsFollowQuotes, BothAmountsAreRecorded, OnQuote
    <2>2. /\ n \in Nat \ {0} /\ d \in Nat \ {0} /\ quoted.destination \in Nat
          /\ quoted.asked \in {"source", "destination"}
      BY <2>1, RatesArePositive DEF QuoteRows, Whole
    <2>3. \/ got = quoted.destination
          \/ got = Stored(ToCents(Parts(quoted.source) * n, d))
      BY <2>1 DEF PricesAreRouted
    <2>4. PICK parts \in Nat :
            IF quoted.asked = "source"
            THEN /\ quoted.source = Stored(parts)
                 /\ quoted.destination = Stored(ToCents(parts * n, d))
            ELSE /\ quoted.destination = Stored(parts)
                 /\ quoted.source = Stored(ToCents(parts * d, n))
      BY <2>1 DEF PricesAreRouted
    <2> HIDE DEF quoted, n, d, got
    <2>5. CASE got = quoted.destination
      <3>1. got - quoted.destination = 0
        BY <2>2, <2>5
      <3>2. 2 * d * 0 = 0 /\ -2 * d * 0 = 0
        BY <2>2
      <3>3. 0 <= most
        BY <2>2, CentIsPositive
      <3> QED
        BY <3>1, <3>2, <3>3 DEF quoted, n, d, got
    <2>6. CASE got = Stored(ToCents(Parts(quoted.source) * n, d)) /\ quoted.asked = "source"
      <3>1. 2 * d * (got - quoted.destination) <= most /\ -2 * d * (got - quoted.destination) <= most
        BY <2>2, <2>4, <2>6, PricedAndRepriced
      <3> QED
        BY <3>1 DEF quoted, n, d, got
    <2>7. CASE got = Stored(ToCents(Parts(quoted.source) * n, d)) /\ quoted.asked = "destination"
      <3>1. 2 * d * (got - quoted.destination) <= most /\ -2 * d * (got - quoted.destination) <= most
        BY <2>2, <2>4, <2>7, ThereAndBack
      <3> QED
        BY <3>1 DEF quoted, n, d, got
    <2> QED
      BY <2>2, <2>3, <2>5, <2>6, <2>7
  <1> QED
    BY <1>1, QuotesInvariant, PricesInit, PricesStep, PTL DEF QuotesSpec

=============================================================================
