----------------------------- MODULE Investments -----------------------------
(***************************************************************************)
(* The investment events of one user and everything that writes them:      *)
(* creating one (investment_event_service.py), which reads the events and  *)
(* the transactions it is checked against before it writes; an import and  *)
(* its rollback; the resolution of the exchange rates left pending         *)
(* (pending_fx_resolution_service.py), which asks the provider between its *)
(* read and its write; the reset of a month and the deletion of            *)
(* transactions.  Requests run on threads, each with its own session at    *)
(* READ COMMITTED, and every write below is one commit.                    *)
(*                                                                         *)
(* update_event and delete_event of the service are called by no route and *)
(* are left out.                                                           *)
(***************************************************************************)
EXTENDS Portfolio

CONSTANTS
    Requests,       \* the requests that create an event, each made once
    CreateForms,    \* the events clients ask for
    ImportForms,    \* the rows of the statements, each with its dedupe hash
    Resolvers,      \* the requests that resolve pending rates, each any number of times
    Batches,        \* the import batches
    Transactions,   \* the transactions stored at first
    TxDate,         \* their dates
    Dates,          \* the days the events may have
    Quotes,         \* the provider's rates: currency -> day -> rate
    Lookback,       \* lookback_days of the pending resolution
    ImportLookback, \* lookback_days of an import
    MaxEvents,      \* bound on the events ever stored
    PriceTables     \* stored prices: records with history and latest

(* An event not stored yet has the id 0 and belongs to no batch; the       *)
(* importers leave both links of a row empty.                              *)
Forms == CreateForms \cup ImportForms

EventFields == {"id", "batch", "date", "type", "ticker", "isin", "currency", "original",
           "quantity", "price", "amount", "costs", "fx", "fxSource", "fxDay", "tx",
           "matched", "status", "hash"}

ASSUME FormsAssumption ==
    /\ Dates \subseteq Nat /\ MaxEvents \in Nat /\ IsFiniteSet(ImportForms)
    /\ \A form \in Forms : /\ form = [f \in EventFields |-> form[f]]
                           /\ form.id = 0 /\ form.date \in Nat /\ form.fx \in Nat
                           /\ \A f \in {"quantity", "price", "amount", "costs"} :
                                 form[f] \in Int
    /\ \A form \in ImportForms : LinksOf(form) = {}

(* Quotes that are not positive are dropped by whoever asks for them.      *)
ASSUME QuotesAssumption ==
    \A c \in DOMAIN Quotes : /\ DOMAIN Quotes[c] \subseteq Nat
                             /\ \A q \in DOMAIN Quotes[c] : Quotes[c][q] \in Nat \ {0}

ASSUME LookbackAssumption == Lookback \in Nat /\ ImportLookback \in Nat

(* Stored prices have an id each, a day and a price.                       *)
ASSUME PricesAssumption ==
    \A table \in PriceTables : \A rows \in {table.history, table.latest} :
        /\ IsFiniteSet(rows)
        /\ \A a \in rows : /\ a.id \in Nat /\ a.date \in Nat /\ a.price \in Int
                           /\ \A b \in rows : a.id = b.id => a = b

VARIABLES
    events,         \* the stored events
    nextId,         \* the next id of an event
    transactions,   \* the transactions not deleted
    request,        \* what each creating request is doing
    resolution      \* what each resolution of pending rates is doing

vars == <<events, nextId, transactions, request, resolution>>

Init ==
    /\ events = {}
    /\ nextId = 1
    /\ transactions = Transactions
    /\ request = [r \in Requests |-> [st |-> "new"]]
    /\ resolution = [s \in Resolvers |-> [st |-> "idle"]]

Stored(form, id, batch) == [form EXCEPT !.id = id, !.batch = batch]

(* The table with rows added under the next ids.                           *)
WithRows(S, forms, batch) ==
    LET sequence == SetToSeq(forms)
    IN S \cup {Stored(sequence[i], nextId + i - 1, batch) : i \in DOMAIN sequence}

-----------------------------------------------------------------------------
(* Creating an event. *)

(* A check that forgets the matched transactions, used by a mutant.         *)
OnlyDirectLinksChecked(form, S) ==
    /\ LinksOf(form) \subseteq transactions
    /\ \A e \in S : form.tx # None => form.tx # e.matched

(* validate_investment_transaction_links for a new event.                  *)
LinksAccepted(form, S) ==
    /\ Cardinality(LinksOf(form)) <= 1
    /\ \A t \in LinksOf(form) :
         /\ t \in transactions
         /\ \A e \in S : t \notin LinksOf(e)

CreateAccepted(form, S) ==
    /\ LinksAccepted(form, S)
    /\ MarketEventAccepted(form)
    /\ TimelineAccepted(form, S)

(* The checks read the events and the transactions of this moment.         *)
CheckEvent(r) ==
    /\ request[r].st = "new"
    /\ \E form \in CreateForms :
         request' = [request EXCEPT ![r] =
            IF CreateAccepted(form, events)
              THEN [st |-> "checked", form |-> form, seen |-> events]
              ELSE [st |-> "refused"]]
    /\ UNCHANGED <<events, nextId, transactions, resolution>>

(* The event is inserted; a transaction it names that is gone by now makes *)
(* the foreign key refuse it.                                              *)
CommitEvent(r) ==
    /\ request[r].st = "checked"
    /\ nextId <= MaxEvents
    /\ LET form == request[r].form
       IN IF LinksOf(form) \subseteq transactions
            THEN /\ events' = WithRows(events, {form}, None)
                 /\ nextId' = nextId + 1
                 /\ request' = [request EXCEPT ![r].st = "created"]
            ELSE /\ request' = [request EXCEPT ![r] = [st |-> "refused"]]
                 /\ UNCHANGED <<events, nextId>>
    /\ UNCHANGED <<transactions, resolution>>

-----------------------------------------------------------------------------
(* Exchange rates of the provider. *)

(* The last day up to d, and not before from, that has a rate.             *)
QuoteDays(currency, from, d) ==
    IF currency \in DOMAIN Quotes
      THEN {q \in DOMAIN Quotes[currency] : from <= q /\ q <= d} ELSE {}

WithRate(e, currency, day) ==
    [e EXCEPT !.fx = Quotes[currency][day], !.fxSource = "yfinance_historical",
              !.fxDay = day]

(* ImportFxResolutionService._resolve_row.                                 *)
UnmatchedDeposit(row) == row.type = "deposit" /\ row.status = "unmatched"

ResolveRow(row, answers) ==
    LET currency == Upper(row.currency)
        days     == QuoteDays(currency, row.date - ImportLookback, row.date)
    IN IF currency = "EUR"
         THEN [row EXCEPT !.fx = 1, !.fxSource = "source_currency"]
       ELSE IF \/ row.fx > 0 /\ row.fxSource # "pending"
               \/ UnmatchedDeposit(row) \/ ~answers \/ days = {}
         THEN row
       ELSE WithRate(row, currency, Max(days))

(* A commit with a row still pending is refused, except for a deposit that *)
(* has not been matched (_raise_for_pending_fx).                           *)
ImportAccepted(rows) ==
    \A row \in rows : row.fxSource = "pending" => UnmatchedDeposit(row)

(* An import stores the rows it has not stored yet.  It checks no sale     *)
(* against what is held.                                                   *)
ImportEvents(b) ==
    /\ \A e \in events : e.batch # b
    /\ \E forms \in (SUBSET ImportForms) \ {{}}, answers \in BOOLEAN :
         LET known == {e.hash : e \in events}
             rows  == {ResolveRow(form, answers) :
                         form \in {f \in forms : f.hash \notin known}}
         IN /\ ImportAccepted(rows)
            /\ rows # {}
            /\ nextId + Cardinality(rows) <= MaxEvents + 1
            /\ events' = WithRows(events, rows, b)
            /\ nextId' = nextId + Cardinality(rows)
    /\ UNCHANGED <<transactions, request, resolution>>

(* delete_by_import_batch.                                                 *)
RollBackImport(b) ==
    /\ \E e \in events : e.batch = b
    /\ events' = {e \in events : e.batch # b}
    /\ UNCHANGED <<nextId, transactions, request, resolution>>

-----------------------------------------------------------------------------
(* Resolving pending rates. *)

(* _load_rates asks once per currency, for the span of its pending events; *)
(* _build_resolution takes the last rate on or before the event's day.     *)
PendingDates(S, currency) == {e.date : e \in {p \in S : Upper(p.currency) = currency}}

RateDays(S, e) ==
    LET currency == Upper(e.currency)
    IN QuoteDays(currency, Min(PendingDates(S, currency)) - Lookback, e.date)

(* The provider answers for some of the currencies.                        *)
FindRates(s) ==
    /\ resolution[s].st = "idle"
    /\ Unresolved(events) # {}
    /\ \E answered \in SUBSET DOMAIN Quotes :
         LET resolvable == {e \in Unresolved(events) :
                              /\ Upper(e.currency) \in answered
                              /\ RateDays(Unresolved(events), e) # {}}
         IN /\ resolvable # {}
            /\ resolution' = [resolution EXCEPT ![s] =
                 [st |-> "found",
                  days |-> [id \in {e.id : e \in resolvable} |->
                     Max(RateDays(Unresolved(events),
                                  CHOOSE e \in resolvable : e.id = id))]]]
    /\ UNCHANGED <<events, nextId, transactions, request>>

(* A write by bulk UPDATE, which passes over rows that are gone, used by a  *)
(* mutant.                                                                  *)
WriteRatesStillThere(s) ==
    /\ resolution[s].st = "found"
    /\ events' = {IF e.id \in DOMAIN resolution[s].days
                     THEN WithRate(e, Upper(e.currency), resolution[s].days[e.id])
                     ELSE e : e \in events}
    /\ resolution' = [resolution EXCEPT ![s] = [st |-> "idle"]]
    /\ UNCHANGED <<nextId, transactions, request>>

(* One commit for all of them: when a row is gone by now the update of it  *)
(* matches nothing, the session raises StaleDataError and none is written. *)
(* The update does not ask whether the event has a rate by now.            *)
WriteRates(s) ==
    /\ resolution[s].st = "found"
    /\ LET found == DOMAIN resolution[s].days
       IN IF found \subseteq {e.id : e \in events}
            THEN events' = {IF e.id \in found
                              THEN WithRate(e, Upper(e.currency), resolution[s].days[e.id])
                              ELSE e : e \in events}
            ELSE UNCHANGED events
    /\ resolution' = [resolution EXCEPT ![s] = [st |-> "idle"]]
    /\ UNCHANGED <<nextId, transactions, request>>

-----------------------------------------------------------------------------
(* What other parts delete. *)

(* ondelete="SET NULL" of both links.                                      *)
Unlinked(S, gone) ==
    {[e EXCEPT !.tx = IF @ \in gone THEN None ELSE @,
               !.matched = IF @ \in gone THEN None ELSE @] : e \in S}

DeleteTransaction(t) ==
    /\ t \in transactions
    /\ transactions' = transactions \ {t}
    /\ events' = Unlinked(events, {t})
    /\ UNCHANGED <<nextId, request, resolution>>

(* The reset of a month deletes its events and its transactions            *)
(* (month_reset_repository.py).                                            *)
ResetMonth(m) ==
    LET gone == {t \in transactions : MonthOf(TxDate[t]) = m}
        kept == {e \in events : MonthOf(e.date) # m}
    IN /\ gone # {} \/ kept # events
       /\ transactions' = transactions \ gone
       /\ events' = Unlinked(kept, gone)
       /\ UNCHANGED <<nextId, request, resolution>>

Next ==
    \/ \E r \in Requests : CheckEvent(r) \/ CommitEvent(r)
    \/ \E b \in Batches : ImportEvents(b) \/ RollBackImport(b)
    \/ \E s \in Resolvers : FindRates(s) \/ WriteRates(s)
    \/ \E t \in Transactions : DeleteTransaction(t)
    \/ \E d \in Dates : ResetMonth(MonthOf(d))

Spec == Init /\ [][Next]_vars

-----------------------------------------------------------------------------
(* Properties. *)

Commits(r) == request[r].st = "checked" /\ request'[r].st = "created"

(* The check that let the request through saw the events of now.           *)
Fresh(r) == request[r].seen = events

(* Two trades the check takes for one instrument and currency and average  *)
(* cost keeps apart: a currency spelt in lower case, a missing ticker.     *)
SpeltApart(S) ==
    \E a, b \in Traded(S) : /\ IdentityKey(a) = IdentityKey(b)
                            /\ \/ PositionKey(a) # PositionKey(b)
                               \/ a.currency # b.currency

(* A trade whose check was fresh keeps the positions readable: no sale     *)
(* exceeds what was bought before it, so no page built from average cost   *)
(* answers with an error, unless the instrument is spelt in two ways       *)
(* (create_event and build_average_cost_positions).                        *)
CheckedTradesStayReadable ==
    [][\A r \in Requests :
         Commits(r) /\ Fresh(r) /\ Readable(events) /\ ~SpeltApart(events')
            => Readable(events')]_vars

(* A transaction becomes the funding of a second event only through a      *)
(* request whose check was overtaken by another one.                       *)
FundsOneEvent(t, S) == Cardinality({e \in S : t \in LinksOf(e)}) <= 1

SecondLinkNeedsOverlap ==
    [][\A t \in Transactions :
         FundsOneEvent(t, events) /\ ~FundsOneEvent(t, events')
            => \E r \in Requests : Commits(r) /\ ~Fresh(r)]_vars

(* The last day up to the event's own on which its currency is quoted.     *)
RateDay(e, d) ==
    LET currency == Upper(e.currency)
        days     == QuoteDays(currency, 0, e.date)
    IN currency \in DOMAIN Quotes /\ d \in days /\ \A q \in days : q <= d

HasRate(e, d) ==
    /\ e.fx = Quotes[Upper(e.currency)][d]
    /\ e.fxSource = "yfinance_historical" /\ e.fxDay = d

RateKept(e, f) == f.fx = e.fx /\ f.fxSource = e.fxSource /\ f.fxDay = e.fxDay

WritesRates(s) == resolution[s].st = "found" /\ resolution'[s].st = "idle"

(* However long the provider takes, and whatever other requests store,     *)
(* price or delete meanwhile, an event gets at most one rate after it was  *)
(* stored: pending before, it then has its currency's last one up to its   *)
(* own day (never of a later day), and a resolution writes the rates of    *)
(* all events it has found or of none (resolve).                           *)
RatesWrittenOnce ==
    [][ /\ \A e \in events, f \in events' : e.id = f.id =>
             \/ RateKept(e, f)
             \/ e \in Unresolved(events) /\ RateDay(e, f.fxDay) /\ HasRate(f, f.fxDay)
        /\ \A s \in Resolvers : WritesRates(s) /\ events' # events =>
             \A id \in DOMAIN resolution[s].days :
                \E f \in events' \ Unresolved(events') : f.id = id ]_vars

(* The books of average cost close: in every bucket the cost that was paid *)
(* is either still in it or was set against the proceeds of the sales, an  *)
(* empty bucket has no cost, the average lies between the cheapest and the *)
(* dearest unit bought, and the buckets of a position hold what its trades *)
(* add up to.                                                              *)
Cost(e) == e.amount + e.costs

Proceeds(e) == e.amount - e.costs

Buys(S) == {e \in S : e.type = "market_buy"}

Paid(S) == SumFunction([e \in Buys(S) |-> Cost(e)])

Received(S) == SumFunction([e \in S \ Buys(S) |-> Proceeds(e)])

BucketCloses(S, bucket) ==
    /\ Same(Minus(Whole(Paid(S)), bucket.cost), Minus(Whole(Received(S)), bucket.gain))
    /\ bucket.quantity = 0 => bucket.cost[1] = 0
    /\ \E low, high \in Buys(S) :
         /\ Cost(low) * bucket.quantity * bucket.cost[2] <= bucket.cost[1] * low.quantity
         /\ Cost(high) * bucket.quantity * bucket.cost[2] >= bucket.cost[1] * high.quantity

BooksClose ==
    Readable(events) =>
        \A key \in PositionKeys(events) :
            /\ \A currency \in BucketCurrencies(events, key) :
                 BucketCloses(BucketTrades(events, key, currency),
                              Bucket(events, key, currency))
            /\ HeldOn(events, key) =
                 SumFunction([currency \in BucketCurrencies(events, key) |->
                                 Bucket(events, key, currency).quantity])

(* Once no event up to a day has a rate pending, the portfolio of that day *)
(* has a value and a cost: what resolving pending rates is for.  It needs  *)
(* trades with a price, as the form asks and an import does not, and       *)
(* closes in a currency the user has events in.                            *)
ResolvedDaysAreValued ==
    \A d \in Dates, table \in PriceTables :
        LET now == Until(events, d)
        IN ( /\ Unresolved(now) = {} /\ Readable(now)
             /\ \A e \in Traded(now) : e.price > 0
             /\ \A row \in table.history :
                  row.currency \in {"EUR"} \cup {e.currency : e \in now} )
           => /\ PortfolioValue(events, table.history, d) # Unavailable
              /\ SeriesPoint(events, table.history, d).allocated # Unavailable

(* Neither the events nor the euro trades of an instrument give a currency *)
(* two rates on one day: of those the series takes the last and the list   *)
(* the first.                                                              *)
OneADay(S) == \A a, b \in S : a.date = b.date => a = b

OneRateADay(latest) ==
    /\ \A currency \in {e.currency : e \in events} \cup {row.currency : row \in latest} :
          currency # "EUR" => OneADay(Rated(events, currency))
    /\ \A key \in PositionKeys(events) : OneADay(Priced(events, key))

(* The two ways to value the portfolio of today agree: the last point of   *)
(* the monthly series and the list of positions, when no event is dated in *)
(* the future, the latest price of each instrument is its last close, and  *)
(* no day has two rates.                                                   *)
ChartEndsAtPositions ==
    \A table \in PriceTables, today \in Dates :
        LET held  == HeldKeys(events)
            value == [key \in held |-> PositionValue(events, table.latest, key)]
            gain  == [key \in held |-> UnrealisedGain(events, table.latest, key)]
            point == SeriesPoint(events, table.history, today)
        IN ( /\ Until(events, today) = events /\ Readable(events)
             /\ OneRateADay(table.latest)
             /\ held = OpenPositions(events)
             /\ point.value # Unavailable /\ point.allocated # Unavailable
             /\ \A key \in held :
                  LET close == ValuationPrice(events, table.history, today, key)
                      row   == Newest({p \in table.latest : MatchesPrice(p, key)})
                  IN /\ value[key] # Unavailable
                     /\ close.price = row.price /\ close.currency = row.currency )
           => Same(point.value, Total(value)) /\ Same(point.gain, Total(gain))

(* The month's invested cash is the same in the summary and in the         *)
(* portfolio's monthly change, whenever the summary has it and no event    *)
(* writes the euro in lower case.                                          *)
MonthsAgree ==
    \A d \in Dates :
        LET m == MonthOf(d)
        IN ( /\ CashInvested(events, m) # Unavailable
             /\ \A e \in InMonth(events, m) :
                  Upper(e.currency) = "EUR" => e.currency = "EUR" )
           => CashInvested(events, m) = <<NetInvested(events, m)>>
=============================================================================
