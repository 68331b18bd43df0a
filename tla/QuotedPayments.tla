--------------------------- MODULE QuotedPayments ---------------------------
(***************************************************************************)
(* Amounts in two currencies: quotes, the payments made on them, and what  *)
(* becomes of a held payment whose quote expires before the owner decides  *)
(* (services/quotes.py, payments.py, approvals.py, providers/sandbox.py).  *)
(*                                                                         *)
(* Amounts asked for are parts of what a money column holds, rows are in   *)
(* what it holds, prices in whole cents (MoneyColumns).  The sandbox has a *)
(* fixed table of rates; what the services rely on is that the router may  *)
(* answer with another rate, or none, later.  Quotes expire at any         *)
(* moment.  Each request is one transaction; funds and policy are in       *)
(* MoneyMovement and PolicyGate: a payment here is held or not.            *)
(*                                                                         *)
(* Definitions marked "Fault" are wrong on purpose, as in MoneyMovement.   *)
(***************************************************************************)
EXTENDS MoneyColumns

CONSTANTS
    QuoteIds, PaymentIds,
    Home,         \* the owner's default currency
    Foreign,      \* currencies the router may have a rate for
    Payees,
    SettlesIn,    \* payee -> the currency of its destination
    Rates,        \* pairs n, d: n units there for d units at home
    Cent,         \* stored units of a cent
    Precision,    \* bound: amounts asked for are so short that Decimal's products
                  \* with a rate are exact and quotients right to the cent (10^27)
    NoQuote, NoRate

ASSUME CentIsPositive == Cent \in Nat \ {0}
ASSUME AmountsAreShort ==
    \A r \in Rates \cup {<<1, 1>>} : MaxParts * r[1] < Precision /\ MaxParts * r[2] < Precision
ASSUME RatesArePositive == Rates \subseteq (Nat \ {0}) \X (Nat \ {0})

VARIABLES
    quote,     \* id -> the quote's row
    stale,     \* quotes whose expires_at has passed
    payment,   \* id -> the payment's row
    recorded,  \* payment -> the amounts its approval records as repriced
    market     \* currency -> the router's rate, NoRate if it has no route

quotesVars == <<quote, stale, payment, recorded, market>>

Absent == [status |-> "none"]
Whole == <<1, 1>>

QuoteRows == [source : Nat, destination : Nat, currency : Foreign \cup {Home},
              rate : Rates \cup {Whole}, asked : {"source", "destination"}]
PaymentRows == [status : {"held", "paid", "rejected"}, payee : Payees,
                source : Nat, destination : Nat, currency : Foreign \cup {Home},
                quote : QuoteIds \cup {NoQuote}, rate : Rates \cup {Whole}]

ASSUME NamesAreDistinct == NoQuote \notin QuoteIds \cup QuoteRows /\ NoRate \notin Rates

QuotesTypeOK ==
    /\ \A q \in QuoteIds : quote[q] \in QuoteRows \cup {NoQuote}
    /\ stale \subseteq {q \in QuoteIds : quote[q] # NoQuote}
    /\ \A p \in PaymentIds : payment[p] \in PaymentRows \cup {Absent}
    /\ recorded \in [PaymentIds -> {<<>>} \cup (Nat \X Nat)]
    /\ market \in [Foreign -> Rates \cup {NoRate}]

QuotesInit ==
    /\ quote = [q \in QuoteIds |-> NoQuote] /\ stale = {}
    /\ payment = [p \in PaymentIds |-> Absent]
    /\ recorded = [p \in PaymentIds |-> <<>>]
    /\ market \in [Foreign -> Rates]

----------------------------------------------------------------------------
(***************************************************************************)
(* The router.                                                             *)
(***************************************************************************)

\* Fault: what is less than a cent is cut off.
DownToCents(n, d) == Parts(Cent) * (n \div (d * Parts(Cent)))

\* quantize(_CENT, rounding=ROUND_HALF_UP), for n / d parts.
ToCents(n, d) == Parts(Cent) * HalfUp(n, d * Parts(Cent))

RateTo(c) == IF c = Home THEN Whole ELSE market[c]

\* An amount at home is converted, or a price found for an amount there.  The
\* amount that was asked for keeps its parts.
Route(rate, asked, parts) ==
    IF asked = "source"
    THEN [source |-> parts, destination |-> ToCents(parts * rate[1], rate[2])]
    ELSE [source |-> ToCents(parts * rate[2], rate[1]), destination |-> parts]

MarketMoves(c, r) ==
    /\ market[c] # r
    /\ market' = [market EXCEPT ![c] = r]
    /\ UNCHANGED <<quote, stale, payment, recorded>>

----------------------------------------------------------------------------
(***************************************************************************)
(* The services.                                                           *)
(***************************************************************************)

\* The price is of the amount asked for; the row keeps of both what a column can.
PriceQuote(q, c, asked, parts) ==
    /\ quote[q] = NoQuote /\ RateTo(c) # NoRate
    /\ LET r == Route(RateTo(c), asked, parts)
       IN  quote' = [quote EXCEPT ![q] =
               [source |-> Stored(r.source), destination |-> Stored(r.destination), currency |-> c,
                rate |-> RateTo(c), asked |-> asked]]
    /\ UNCHANGED <<stale, payment, recorded, market>>

ExpireQuote(q) ==
    /\ quote[q] # NoQuote /\ q \notin stale
    /\ stale' = stale \cup {q}
    /\ UNCHANGED <<quote, payment, recorded, market>>

AddPayment(p, row) ==
    /\ payment[p] = Absent
    /\ payment' = [payment EXCEPT ![p] = row]
    /\ UNCHANGED <<quote, stale, recorded, market>>

\* What _resolve_amounts makes of a quote: its two amounts, whoever is paid.
PayByQuote(p, payee, q, status) ==
    /\ quote[q] # NoQuote /\ q \notin stale /\ quote[q].source > 0
    /\ AddPayment(p, [status |-> status, payee |-> payee, source |-> quote[q].source,
                  destination |-> quote[q].destination, currency |-> quote[q].currency,
                  quote |-> q, rate |-> quote[q].rate])

PayAmount(p, payee, parts, status) ==
    /\ SettlesIn[payee] = Home
    /\ AddPayment(p, [status |-> status, payee |-> payee, source |-> Stored(parts),
                  destination |-> Stored(parts), currency |-> Home,
                  quote |-> NoQuote, rate |-> Whole])

\* Fault: a held payment is priced when it is released.
PriceOnRelease(p) == payment[p].quote # NoQuote

\* execute_approved looks at the clock again.
MustReprice(p) == payment[p].quote \in stale

\* The router is asked for the source amount that is on hold, as the row has it.
Executed(p) ==
    LET rate == RateTo(payment[p].currency)
        destination == Stored(Route(rate, "source", Parts(payment[p].source)).destination)
    IN  IF MustReprice(p)
        THEN [payment[p] EXCEPT !.status = "paid", !.destination = destination,
                                !.rate = rate]
        ELSE [payment[p] EXCEPT !.status = "paid"]

\* Fault: "before" is read from the row after it has been executed.
RecordAfter(p) == recorded

\* The approval records both amounts if they differ.
RecordRepriced(p) ==
    LET before == payment[p].destination
        after == Executed(p).destination
    IN  IF before = after THEN recorded ELSE [recorded EXCEPT ![p] = <<before, after>>]

\* No route, no release: the request fails as a whole, the payment stays held;
\* also if its row says 0, which is nothing to post.
Approve(p) ==
    /\ payment[p].status = "held" /\ payment[p].source > 0
    /\ MustReprice(p) => RateTo(payment[p].currency) # NoRate
    /\ payment' = [payment EXCEPT ![p] = Executed(p)]
    /\ recorded' = RecordRepriced(p)
    /\ UNCHANGED <<quote, stale, market>>

Reject(p) ==
    /\ payment[p].status = "held"
    /\ payment' = [payment EXCEPT ![p].status = "rejected"]
    /\ UNCHANGED <<quote, stale, recorded, market>>

QuotesNext ==
    \/ \E c \in Foreign, r \in Rates \cup {NoRate} : MarketMoves(c, r)
    \/ \E q \in QuoteIds :
          \/ \E c \in Foreign \cup {Home}, asked \in {"source", "destination"},
                parts \in AmountsGiven : PriceQuote(q, c, asked, parts)
          \/ ExpireQuote(q)
    \/ \E p \in PaymentIds :
          \/ \E payee \in Payees, status \in {"held", "paid"} :
                \/ \E q \in QuoteIds : PayByQuote(p, payee, q, status)
                \/ \E parts \in AmountsGiven : PayAmount(p, payee, parts, status)
          \/ Approve(p) \/ Reject(p)

QuotesSpec == QuotesInit /\ [][QuotesNext]_quotesVars

----------------------------------------------------------------------------
(***************************************************************************)
(* Properties.                                                             *)
(***************************************************************************)
OnQuote == {p \in PaymentIds : payment[p] # Absent /\ payment[p].quote # NoQuote}

\* A quote is firm until it expires: a payment that is made on it, or released
\* after a hold, before then delivers the quoted amount, wherever the market
\* has gone since.
QuotesAreFirm ==
    [][\A p \in PaymentIds :
          LET now == payment'[p]
          IN  /\ now # payment[p] /\ now.status = "paid"
              /\ now.quote \in QuoteIds \ stale
              => now.destination = quote[now.quote].destination]_quotesVars

\* When a payment on a quote has delivered anything but the quoted amount, the
\* quote had expired and its approval records the amount quoted and the amount
\* delivered; and however it was priced, it took the amount the quote names.
BothAmountsAreRecorded ==
    \A p \in OnQuote :
       LET quoted == quote[payment[p].quote]
       IN  /\ payment[p].source = quoted.source
           /\ recorded[p] = IF payment[p].destination = quoted.destination THEN <<>>
                            ELSE <<quoted.destination, payment[p].destination>>
           /\ payment[p].destination # quoted.destination => payment[p].quote \in stale

\* Repricing at the rate of the quote changes what the payee gets by no more than
\* the roundings between can.  After a quote for an amount there: the price is
\* rounded to cents and converted back, half a cent at home and half a cent there,
\* and the quoted amount to what a column holds.  After a quote for an amount at
\* home: the price was of the amount asked for and is now of the one stored, half a
\* stored unit at home, and both prices are rounded to cents.
RepricedWithinRounding ==
    \A p \in OnQuote :
       LET quoted == quote[payment[p].quote]
           n == quoted.rate[1]
           d == quoted.rate[2]
           off == payment[p].destination - quoted.destination
           most == IF quoted.asked = "destination" THEN Cent * n + Cent * d + d
                   ELSE n + 2 * (Cent * d)
       IN  payment[p].rate = quoted.rate => 2 * d * off <= most /\ -2 * d * off <= most

=============================================================================
