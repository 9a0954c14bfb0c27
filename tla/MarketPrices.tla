----------------------------- MODULE MarketPrices -----------------------------
(***************************************************************************)
(* The stored prices (market_price_service.py and its two repositories).   *)
(* A fetch asks the provider outside any database transaction, looks for   *)
(* the row its price belongs to and then writes: a latest price replaces   *)
(* the row, a history stores one close per day, each in a commit of its    *)
(* own.  Fetches run on threads and overlap.                               *)
(*                                                                         *)
(* A row of either table is a record with the fields id, ticker, isin,     *)
(* date, price and currency; the date of a latest price is the time it was *)
(* fetched, counted by the variable clock.                                 *)
(***************************************************************************)
EXTENDS Portfolio

CONSTANTS
    Fetches,        \* the fetch requests, each made once
    Instruments,    \* what is asked for: records with ticker, isin and currency
    Prices,         \* the prices the provider gives
    CloseDates      \* the days the provider has closes of

Tickers == {i.ticker : i \in Instruments}
Isins == {i.isin : i \in Instruments}
Currencies == {i.currency : i \in Instruments}

(* A price as it is fetched, and as it is stored.                          *)
Answer == [ticker : Tickers, isin : Isins, date : Nat, price : Prices,
           currency : Currencies]

Row == [id : Nat, ticker : Tickers, isin : Isins, date : Nat, price : Prices,
        currency : Currencies]

ASSUME MarketAssumption ==
    /\ None \notin Tickers \cup Nat \cup Row
    /\ CloseDates \subseteq Nat

VARIABLES
    latest,         \* the rows of market_prices
    history,        \* the rows of market_price_history
    fetch,          \* what each request is doing
    clock,          \* the time of the last answer of the provider
    overtaken       \* requests that another one stored a price after their answer

marketVars == <<latest, history, fetch, clock, overtaken>>

(* A price stamped with the time of day, which starts again, used by a     *)
(* mutant.                                                                 *)
PriceRowAtTimeOfDay(instrument, date, price) ==
    [ticker |-> instrument.ticker, isin |-> instrument.isin,
     date |-> date % Cardinality(Fetches),
     price |-> price, currency |-> instrument.currency]

PriceRow(instrument, date, price) ==
    [ticker |-> instrument.ticker, isin |-> instrument.isin, date |-> date,
     price |-> price, currency |-> instrument.currency]

MarketInit ==
    /\ latest = {}
    /\ history = {}
    /\ fetch = [f \in Fetches |-> [st |-> "new"]]
    /\ clock = 0
    /\ overtaken = {}

-----------------------------------------------------------------------------
(* Finding and writing a row. *)

KeyOf(row) == <<row.ticker, row.isin>>

(* A row matches by its ticker or by its ISIN.                             *)
LatestRows(row) == {old \in latest : MatchesPrice(old, KeyOf(row))}

(* Rows of any day, used by a mutant.                                      *)
RowsOfAnyDay(row) == {old \in history : MatchesPrice(old, KeyOf(row))}

CloseRows(row) ==
    {old \in history : MatchesPrice(old, KeyOf(row)) /\ old.date = row.date}

NextRowId(table) == Max({row.id : row \in table} \cup {0}) + 1

Insert(table, row) ==
    table \cup {[ id |-> NextRowId(table), ticker |-> row.ticker, isin |-> row.isin,
                  date |-> row.date, price |-> row.price, currency |-> row.currency ]}

(* The columns that are given and that differ from what was read are       *)
(* written; the others keep what the row holds by now.                     *)
Merged(now, seen, row) ==
    [c \in DOMAIN now |->
        IF c = "id" \/ row[c] = None \/ row[c] = seen[c] THEN now[c] ELSE row[c]]

Update(table, seen, row) ==
    {IF now.id = seen.id THEN Merged(now, seen, row) ELSE now : now \in table}

Upsert(table, seen, row) ==
    IF seen = None THEN Insert(table, row) ELSE Update(table, seen, row)

(* uq_market_price_history_identity, in which a missing value equals       *)
(* nothing.                                                                *)
UniqueCloses(table) ==
    \A a, b \in table :
        ( /\ <<a.ticker, a.isin, a.date>> = <<b.ticker, b.isin, b.date>>
          /\ None \notin {a.ticker, a.isin} ) => a = b

-----------------------------------------------------------------------------
(* Fetching the latest price. *)

(* The provider answers. *)
AskLatest(f) ==
    /\ fetch[f].st = "new"
    /\ \E i \in Instruments, price \in Prices :
         fetch' = [fetch EXCEPT ![f] =
                     [st |-> "answered", row |-> PriceRow(i, clock + 1, price)]]
    /\ clock' = clock + 1
    /\ UNCHANGED <<latest, history, overtaken>>

(* The newest matching row is read. *)
FindLatest(f) ==
    /\ fetch[f].st = "answered"
    /\ LET rows == LatestRows(fetch[f].row)
       IN fetch' = [fetch EXCEPT ![f] =
                      [st |-> "latest", row |-> fetch[f].row,
                       seen |-> IF rows = {} THEN None ELSE Newest(rows)]]
    /\ UNCHANGED <<latest, history, clock, overtaken>>

StoreLatest(f) ==
    /\ fetch[f].st = "latest"
    /\ latest' = Upsert(latest, fetch[f].seen, fetch[f].row)
    /\ fetch' = [fetch EXCEPT ![f] = [st |-> "done"]]
    /\ overtaken' = overtaken \cup
                      {g \in Fetches \ {f} : fetch[g].st \in {"answered", "latest"}}
    /\ UNCHANGED <<history, clock>>

-----------------------------------------------------------------------------
(* Fetching a history. *)

(* The provider answers with the closes of some days.                      *)
AskHistory(f) ==
    /\ fetch[f].st = "new"
    /\ \E i \in Instruments, days \in (SUBSET CloseDates) \ {{}}, price \in Prices :
         fetch' = [fetch EXCEPT ![f] =
            [st |-> "history", instrument |-> i, days |-> days, price |-> price,
             todo |-> days, seen |-> None]]
    /\ UNCHANGED <<latest, history, clock, overtaken>>

(* The days are taken in order.                                            *)
CloseToStore(f) ==
    PriceRow(fetch[f].instrument, Min(fetch[f].todo), fetch[f].price)

(* get_existing takes any one of the matching rows.                        *)
FindClose(f) ==
    /\ fetch[f].st = "history"
    /\ LET rows == CloseRows(CloseToStore(f))
       IN \E seen \in IF rows = {} THEN {None} ELSE rows :
            fetch' = [fetch EXCEPT ![f].st = "close", ![f].seen = seen]
    /\ UNCHANGED <<latest, history, clock, overtaken>>

(* One close is committed; a second row of its identity is refused by the  *)
(* database and ends the request, with the closes before it stored.        *)
StoreClose(f) ==
    /\ fetch[f].st = "close"
    /\ LET stored == Upsert(history, fetch[f].seen, CloseToStore(f))
           rest   == fetch[f].todo \ {Min(fetch[f].todo)}
       IN IF UniqueCloses(stored)
            THEN /\ history' = stored
                 /\ fetch' = [fetch EXCEPT
                      ![f].st   = IF rest = {} THEN "fetched" ELSE "history",
                      ![f].todo = rest,
                      ![f].seen = None]
            ELSE /\ fetch' = [fetch EXCEPT ![f] = [st |-> "failed"]]
                 /\ UNCHANGED history
    /\ UNCHANGED <<latest, clock, overtaken>>

(* The provider fails or runs into its time limit, or the process stops.   *)
FailFetch(f) ==
    /\ fetch[f].st \notin {"done", "fetched", "failed"}
    /\ fetch' = [fetch EXCEPT ![f] = [st |-> "failed"]]
    /\ UNCHANGED <<latest, history, clock, overtaken>>

MarketNext ==
    \E f \in Fetches :
        AskLatest(f) \/ FindLatest(f) \/ StoreLatest(f) \/ AskHistory(f)
            \/ FindClose(f) \/ StoreClose(f) \/ FailFetch(f)

MarketSpec == MarketInit /\ [][MarketNext]_marketVars

-----------------------------------------------------------------------------
(* Properties. *)

(* A ticker is asked for with one ISIN or without.  With two of them, one   *)
(* of which is another ticker's too, a row goes from hand to hand, and the  *)
(* ticker that is left has none.                                            *)
OneIsinPerTicker ==
    \A i, j \in Instruments :
        i.ticker = j.ticker => None \in {i.isin, j.isin} \/ i.isin = j.isin

(* The price shown for an instrument is the row a fetch of it would find.  *)
Shown(table, i) == {row \in table : MatchesPrice(row, <<i.ticker, i.isin>>)}

(* A row that two tickers of one ISIN share takes the name of the last one  *)
(* fetched, and is lost to the other where that is asked for by its ticker  *)
(* alone.                                                                   *)
GivesAway(i, row) ==
    i.isin = None /\ \E j \in Instruments : j.ticker # i.ticker /\ j.isin = row.isin

GoesBack(i) ==
    /\ Shown(latest, i) # {} /\ Shown(latest', i) # {}
    /\ Newest(Shown(latest', i)).date < Newest(Shown(latest, i)).date

Stores(f) == fetch[f].st = "latest" /\ fetch'[f].st = "done"

(* The price shown gives way to one fetched earlier only when a fetch       *)
(* stores its answer after another one, which overlapped it, has stored its *)
(* own: create_or_update_latest compares no times.  Fetches that take turns *)
(* never replace a newer price by an older one, unless the row was shared   *)
(* with another ticker, which takes it away (GivesAway).                    *)
PricesGoBackOnlyWhenOverlapping ==
    [][OneIsinPerTicker =>
         \A i \in Instruments :
            GoesBack(i) => \/ \E f \in overtaken : Stores(f)
                           \/ GivesAway(i, Newest(Shown(latest, i)))]_marketVars

(* After a history fetch has ended well, every day it fetched has a close  *)
(* of that day for its instrument, whatever other fetches wrote meanwhile  *)
(* or before (bulk_create_or_update, one commit per row); one asked for    *)
(* without its ISIN may have lost it to another ticker of that ISIN.       *)
FetchedDaysAreServed ==
    OneIsinPerTicker =>
        \A f \in Fetches :
            fetch[f].st = "fetched" /\ fetch[f].instrument.isin # None =>
                \A d \in fetch[f].days :
                    \E row \in Shown(history, fetch[f].instrument) : row.date = d
=============================================================================
