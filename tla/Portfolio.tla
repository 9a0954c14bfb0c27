------------------------------ MODULE Portfolio ------------------------------
(***************************************************************************)
(* What the program computes from a user's investment events and the       *)
(* stored prices: the check of a new trade against the earlier ones        *)
(* (investment_market_validation.py), average cost                         *)
(* (investment_cost_basis.py), the value of the portfolio                  *)
(* (investment_valuation_service.py) and the cash invested in a month      *)
(* (investment_cashflow_service.py).                                       *)
(*                                                                         *)
(* An event is a record with the fields id, date, type, ticker, isin,      *)
(* currency, quantity, price, amount, costs (fees and taxes together), fx, *)
(* fxSource and fxDay (the day named in the source), original (currency),  *)
(* tx and matched (transaction links), status (of the funding match, with  *)
(* the funding source set together with it), hash and batch.  A quantity,  *)
(* price or rate the event lacks is 0 and any other missing value is None: *)
(* the code treats a missing number as it treats zero.  Decimals are exact *)
(* fractions; the rounding of a result to cents is left out.               *)
(***************************************************************************)
EXTENDS Integers, FiniteSets, FiniteSetsExt, SequencesExt, Folds, Functions

CONSTANTS
    None,           \* a missing value
    UpperOf,        \* the upper case of each currency that is spelt in lower case
    MonthOf(_),     \* the month of a date
    CarryDays       \* MAX_CARRY_FORWARD_DAYS

ASSUME CurrencyAssumption == "EUR" \notin DOMAIN UpperOf

Upper(currency) ==
    IF currency \in DOMAIN UpperOf THEN UpperOf[currency] ELSE currency

-----------------------------------------------------------------------------
(* Fractions, with a positive denominator. *)

Whole(n) == <<n, 1>>

Plus(p, q) == <<p[1] * q[2] + q[1] * p[2], p[2] * q[2]>>

Minus(p, q) == <<p[1] * q[2] - q[1] * p[2], p[2] * q[2]>>

Times(p, q) == <<p[1] * q[1], p[2] * q[2]>>

Same(p, q) == p[1] * q[2] = q[1] * p[2]

(* The total of the values of a function.                                  *)
Total(f) == LET total == FoldFunction(Plus, Whole(0), f) IN <<total[1], total[2]>>

-----------------------------------------------------------------------------
(* Events and their order. *)

IsMarket(e) == e.type \in {"market_buy", "market_sell"}

Traded(S) == {e \in S : IsMarket(e) /\ e.quantity > 0}

Signed(e) == IF e.type = "market_buy" THEN e.quantity ELSE 0 - e.quantity

(* list_all and list_until: by date, then by id. *)
Earlier(a, b) == \/ a.date < b.date
                 \/ a.date = b.date /\ a.id < b.id

Until(S, d) == {e \in S : e.date <= d}

(* The last of a set of events or of stored prices. *)
Newest(S) == CHOOSE e \in S : \A other \in S \ {e} : Earlier(other, e)

(* What a set of trades bought less what it sold. *)
Quantity(S) == SumFunction([e \in S |-> Signed(e)])

-----------------------------------------------------------------------------
(* The check of a new trade. *)

(* get_market_identity_key: a missing ticker or ISIN is the empty text and *)
(* the currency is compared in upper case.                                 *)
IdentityKey(e) ==
    << IF e.ticker = None THEN "" ELSE e.ticker,
       IF e.isin = None THEN "" ELSE e.isin,
       Upper(e.currency) >>

(* validate_market_event_candidate.                                        *)
MarketEventAccepted(e) ==
    IsMarket(e) =>
        /\ e.quantity > 0
        /\ e.price > 0
        /\ IdentityKey(e)[1] # "" \/ IdentityKey(e)[2] # ""

(* Every sale is covered by what was bought and not yet sold before it.    *)
SalesCovered(S) ==
    \A sale \in {e \in Traded(S) : e.type = "market_sell"} :
        sale.quantity <= Quantity({e \in Traded(S) : Earlier(e, sale)})

(* A check that compares a sale with all that is held, whatever the days,   *)
(* used by a mutant.                                                       *)
AcceptedAgainstTotal(candidate, existing) ==
    candidate.type = "market_sell" =>
        candidate.quantity <=
            Quantity({e \in Traded(existing) : IdentityKey(e) = IdentityKey(candidate)})

(* validate_market_sell_timeline for a new event, which has no id and is   *)
(* placed after the events of its day.                                     *)
TimelineAccepted(candidate, existing) ==
    IsMarket(candidate) =>
        LET last == Max({e.id : e \in existing} \cup {0}) + 1
            same == {e \in existing : IdentityKey(e) = IdentityKey(candidate)}
        IN SalesCovered(same \cup {[candidate EXCEPT !.id = last]})

-----------------------------------------------------------------------------
(* Average cost: build_average_cost_positions. *)

PositionKey(e) == <<e.ticker, e.isin>>

PositionKeys(S) == {PositionKey(e) : e \in Traded(S)}

Holding(S, key) == {e \in Traded(S) : PositionKey(e) = key}

EmptyBucket == [quantity |-> 0, cost |-> Whole(0), gain |-> Whole(0), raised |-> FALSE]

(* A sale that takes its proceeds out of the cost, used by a mutant.        *)
SellAtProceeds(bucket, e) ==
    IF e.quantity > bucket.quantity
      THEN [bucket EXCEPT !.raised = TRUE]
      ELSE [bucket EXCEPT !.quantity = @ - e.quantity,
                          !.cost     = Minus(@, Whole(e.amount - e.costs))]

(* A sale takes the average cost of the units sold out of the bucket; one  *)
(* the bucket cannot cover raises ValueError.                              *)
SellFromBucket(bucket, e) ==
    LET allocated == Times(bucket.cost, <<e.quantity, bucket.quantity>>)
        proceeds  == Whole(e.amount - e.costs)
    IN IF e.quantity > bucket.quantity
         THEN [bucket EXCEPT !.raised = TRUE]
         ELSE [bucket EXCEPT
                 !.quantity = @ - e.quantity,
                 !.gain     = Plus(@, Minus(proceeds, allocated)),
                 !.cost     = IF e.quantity = bucket.quantity
                                THEN Whole(0) ELSE Minus(@, allocated)]

ApplyToBucket(bucket, e) ==
    IF bucket.raised THEN bucket
    ELSE IF e.type = "market_buy"
      THEN [bucket EXCEPT !.quantity = @ + e.quantity,
                          !.cost     = Plus(@, Whole(e.amount + e.costs))]
      ELSE SellFromBucket(bucket, e)

(* The trades of a bucket are applied from the earliest to the last.        *)
BucketOf(trades) ==
    MapThenFoldSet(LAMBDA e, bucket : ApplyToBucket(bucket, e), EmptyBucket,
                   LAMBDA e : e, Newest, trades)

BucketTrades(S, key, currency) == {e \in Holding(S, key) : e.currency = currency}

Bucket(S, key, currency) == BucketOf(BucketTrades(S, key, currency))

BucketCurrencies(S, key) == {e.currency : e \in Holding(S, key)}

(* The positions can be computed at all: no sale raises.                   *)
Readable(S) ==
    \A key \in PositionKeys(S) : \A currency \in BucketCurrencies(S, key) :
        ~ Bucket(S, key, currency).raised

(* The quantity of a position, as _get_holdings_on adds it up.             *)
HeldOn(S, key) == Quantity(Holding(S, key))

-----------------------------------------------------------------------------
(* Exchange rates carried by the events.  <<>> is a rate, price or value   *)
(* that is not available.                                                  *)

Unavailable == <<>>

(* A missing ticker or ISIN of the instrument asked for matches any event. *)
OfInstrument(e, key) == /\ key[1] = None \/ e.ticker = key[1]
                        /\ key[2] = None \/ e.isin = key[2]

Rated(S, currency) == {e \in S : e.fx > 0 /\ currency \in {e.currency, e.original}}

(* Trades in euros from which a rate can be derived.                       *)
Priced(S, key) == {e \in Traded(S) : /\ OfInstrument(e, key)
                                     /\ e.currency = "EUR"
                                     /\ e.price > 0}

DerivedRate(e) == <<e.amount, e.quantity * e.price>>

(* Rates of the days before only, used by a mutant.                         *)
RateOfEarlierDays(S, d, currency, key) ==
    LET rated == {e \in Rated(S, currency) : e.date < d}
    IN IF currency = "EUR" THEN Whole(1)
       ELSE IF rated # {} THEN Whole(Newest(rated).fx)
       ELSE Unavailable

(* _get_historical_fx_rate_to_eur.                                         *)
HistoricalRate(S, d, currency, key) ==
    LET rated  == Rated(Until(S, d), currency)
        priced == Priced(Until(S, d), key)
    IN IF currency = "EUR" THEN Whole(1)
       ELSE IF rated # {} THEN Whole(Newest(rated).fx)
       ELSE IF priced # {} THEN DerivedRate(Newest(priced))
       ELSE Unavailable

(* _get_latest_fx_rate_details sorts by date alone, newest first, and so   *)
(* takes the smallest id of the newest day.                                *)
FirstOfNewestDay(S) ==
    CHOOSE e \in S : \A other \in S \ {e} :
        \/ other.date < e.date
        \/ other.date = e.date /\ e.id < other.id

LatestRate(S, currency, key) ==
    LET rated  == Rated(S, currency)
        priced == Priced(S, key)
    IN IF currency = "EUR" THEN Whole(1)
       ELSE IF rated # {} THEN Whole(FirstOfNewestDay(rated).fx)
       ELSE IF priced # {} THEN DerivedRate(FirstOfNewestDay(priced))
       ELSE Unavailable

-----------------------------------------------------------------------------
(* The value of the portfolio on a date. *)

(* A stored price matches an instrument by its ticker or by its ISIN.      *)
MatchesPrice(row, key) == \/ key[1] # None /\ row.ticker = key[1]
                          \/ key[2] # None /\ row.isin = key[2]

(* _get_valuation_price_on: the last close on or before the date, or else  *)
(* the price of the last trade.                                            *)
ValuationPrice(S, history, d, key) ==
    LET closes == {row \in history : row.date <= d /\ MatchesPrice(row, key)}
        trades == {e \in Until(S, d) : IsMarket(e) /\ OfInstrument(e, key) /\ e.price > 0}
    IN IF closes # {}
         THEN LET row == Newest(closes)
              IN [price |-> row.price, currency |-> row.currency,
                  estimated |-> d - row.date > CarryDays]
       ELSE IF trades # {}
         THEN LET e == Newest(trades)
              IN [price |-> e.price, currency |-> e.currency, estimated |-> TRUE]
       ELSE Unavailable

HeldKeys(S) == {key \in PositionKeys(S) : HeldOn(S, key) > 0}

ValueOfHolding(S, history, d, key) ==
    LET quote == ValuationPrice(S, history, d, key)
        rate  == HistoricalRate(S, d, quote.currency, key)
    IN IF quote = Unavailable THEN Unavailable
       ELSE IF rate = Unavailable THEN Unavailable
       ELSE Times(Whole(HeldOn(Until(S, d), key) * quote.price), rate)

(* _get_portfolio_value_on: one holding without a price or a rate leaves   *)
(* the whole portfolio without a value.                                    *)
PortfolioValue(S, history, d) ==
    LET value == [key \in HeldKeys(Until(S, d)) |-> ValueOfHolding(S, history, d, key)]
    IN IF \E key \in DOMAIN value : value[key] = Unavailable
         THEN Unavailable ELSE Total(value)

(* _get_total_cost_basis_on, over the buckets that hold something.         *)
OpenBuckets(S) ==
    {b \in UNION {{<<key, currency>> : currency \in BucketCurrencies(S, key)} :
                    key \in PositionKeys(S)} :
        LET bucket == Bucket(S, b[1], b[2])
        IN bucket.quantity > 0 /\ bucket.cost[1] > 0}

CostBasis(S, d) ==
    LET now  == Until(S, d)
        rate == [b \in OpenBuckets(now) |-> HistoricalRate(S, d, b[2], b[1])]
    IN IF \E b \in DOMAIN rate : rate[b] = Unavailable
         THEN Unavailable
       ELSE Total([b \in DOMAIN rate |-> Times(Bucket(now, b[1], b[2]).cost, rate[b])])

(* The point of the monthly series for an effective date: what is          *)
(* allocated, what it is worth and the difference.                         *)
SeriesPoint(S, history, d) ==
    LET allocated == CostBasis(S, d)
        value     == PortfolioValue(S, history, d)
    IN [allocated |-> allocated, value |-> value,
        gain |-> IF Unavailable \in {allocated, value}
                   THEN Unavailable ELSE Minus(value, allocated)]

-----------------------------------------------------------------------------
(* The list of positions, valued at the latest prices. *)

(* _get_total_cost_in_eur.                                                 *)
CostInEur(S, key) ==
    LET rate == [b \in {o \in OpenBuckets(S) : o[1] = key} |-> LatestRate(S, b[2], key)]
    IN IF \E b \in DOMAIN rate : rate[b] = Unavailable
         THEN Unavailable
       ELSE Total([b \in DOMAIN rate |-> Times(Bucket(S, b[1], b[2]).cost, rate[b])])

(* list_positions shows what is held and still has a cost.                 *)
OpenPositions(S) ==
    {key \in HeldKeys(S) : \E b \in OpenBuckets(S) : b[1] = key}

(* The value in the currency of the price, used by a mutant.                *)
UnconvertedValue(S, latest, key) ==
    LET rows == {row \in latest : MatchesPrice(row, key)}
    IN IF rows = {} THEN Unavailable ELSE Whole(HeldOn(S, key) * Newest(rows).price)

(* _get_market_fields: the value of a position at the latest price of its  *)
(* instrument, and what it gained.                                         *)
PositionValue(S, latest, key) ==
    LET rows == {row \in latest : MatchesPrice(row, key)}
        row  == Newest(rows)
        rate == LatestRate(S, row.currency, key)
    IN IF rows = {} THEN Unavailable
       ELSE IF rate = Unavailable THEN Unavailable
       ELSE Times(Whole(HeldOn(S, key) * row.price), rate)

UnrealisedGain(S, latest, key) ==
    LET value == PositionValue(S, latest, key)
        cost  == CostInEur(S, key)
    IN IF Unavailable \in {value, cost} THEN Unavailable ELSE Minus(value, cost)

-----------------------------------------------------------------------------
(* Cash invested in a month. *)

InMonth(S, m) == {e \in S : IsMarket(e) /\ MonthOf(e.date) = m}

SignedEur(e, rate) == IF e.type = "market_buy" THEN e.amount * rate
                                               ELSE 0 - e.amount * rate

(* The amounts added up unconverted, used by a mutant.                      *)
NetInvestedUnconverted(S, m) ==
    SumFunction([e \in InMonth(S, m) |-> SignedEur(e, 1)])

(* _get_net_invested_between leaves out the events it cannot convert.      *)
NetInvested(S, m) ==
    SumFunction([e \in InMonth(S, m) |->
                    SignedEur(e, IF e.currency = "EUR" THEN 1 ELSE e.fx)])

(* InvestmentCashflowService.calculate_month: one event without a rate     *)
(* leaves the month unavailable.                                           *)
Convertible(e) == \/ Upper(e.currency) = "EUR"
                  \/ e.fx > 0 /\ e.fxSource # "pending"

CashInvested(S, m) ==
    IF \A e \in InMonth(S, m) : Convertible(e)
      THEN << SumFunction([e \in InMonth(S, m) |->
                  SignedEur(e, IF Upper(e.currency) = "EUR" THEN 1 ELSE e.fx)]) >>
      ELSE Unavailable

(* The transactions an event is linked to (_get_reconciliation_status).    *)
LinksOf(e) == {e.tx, e.matched} \ {None}

-----------------------------------------------------------------------------
(* list_unresolved_fx *)

Unresolved(S) == {e \in S : e.currency # "EUR" /\ (e.fx = 0 \/ e.fxSource = "pending")}
=============================================================================
