---------------------------- MODULE PortfolioProofs ----------------------------
(***************************************************************************)
(* The stored prices of MarketPrices and the events of Investments: what   *)
(* fetches that overlap leave in the tables, and what requests that        *)
(* overlap leave in the events, for any instruments, forms and days.       *)
(***************************************************************************)
EXTENDS Investments, MarketPrices, FiniteSetTheorems, WellFoundedInduction, TLAPS

-----------------------------------------------------------------------------
(* The least and the greatest of a set of natural numbers                  *)

\* A set of natural numbers that is not empty has a least one.
LEMMA LeastOf ==
    ASSUME NEW S \in SUBSET Nat, S # {}
    PROVE  \E m \in S : \A n \in S : m <= n
<1>1. PICK m \in S : \A n \in S : ~(<<n, m>> \in OpToRel(<, Nat))
  BY NatLessThanWellFounded, WFMin, Zenon
<1>2. \A n \in S : ~(n < m)
  BY <1>1 DEF OpToRel
<1>3. QED
  BY <1>2

\* One that is bounded has a greatest one as well.
LEMMA GreatestOf ==
    ASSUME NEW S \in SUBSET Nat, S # {}, NEW bound \in Nat, \A n \in S : n <= bound
    PROVE  \E m \in S : \A n \in S : n <= m
<1> DEFINE B == {b \in Nat : \A n \in S : n <= b}
<1>1. PICK b \in B : \A c \in B : b <= c
  <2>1. bound \in B
    OBVIOUS
  <2> HIDE DEF B
  <2>2. B \in SUBSET Nat
    BY DEF B
  <2>3. QED
    BY <2>1, <2>2, LeastOf
<1>2. b \in Nat /\ \A n \in S : n <= b
  OBVIOUS
<1>3. b \in S
  <2>1. SUFFICES ASSUME b \notin S PROVE FALSE
    OBVIOUS
  <2>2. \A n \in S : n <= b - 1 /\ n # b
    BY <1>2, <2>1
  <2>3. b - 1 \in Nat
    <3>1. PICK n \in S : TRUE
      OBVIOUS
    <3>2. n \in Nat /\ n <= b - 1
      BY <2>2
    <3>3. QED
      BY <1>2, <3>2
  <2>4. b - 1 \in B
    BY <2>2, <2>3
  <2>5. b <= b - 1
    BY <1>1, <2>4
  <2>6. QED
    BY <1>2, <2>5
<1>4. QED
  BY <1>2, <1>3

-----------------------------------------------------------------------------
(* Rows of prices                                                          *)

\* The rows of a table have their shape and an id each.
TableOK(T) ==
    /\ T \subseteq Row
    /\ \A a, b \in T : a.id = b.id => a = b
    /\ \E bound \in Nat : \A a \in T : a.id <= bound

\* What is asked for under a ticker has this ISIN, or none.
IsinOf(ticker, isin) ==
    \A i \in Instruments : i.ticker = ticker => i.isin \in {None, isin}

\* A row does not mix two instruments.
Sound(row) == row.isin # None => IsinOf(row.ticker, row.isin)

\* What a row may have become since it was read: an ISIN is kept, and its ticker
\* goes to another one of its ISIN.
Follows(seen, now) ==
    /\ now.id = seen.id
    /\ seen.isin # None => now.isin = seen.isin
    /\ now.ticker # seen.ticker =>
         now.isin # None /\ IsinOf(seen.ticker, now.isin)

\* A read that found this row, or none.
FoundIn(T, seen, new) ==
    /\ seen \in Row \cup {None}
    /\ seen # None => /\ MatchesPrice(seen, KeyOf(new))
                      /\ \E now \in T : Follows(seen, now)

\* An answer is about an instrument.
About(new, i) == new.ticker = i.ticker /\ new.isin = i.isin

\* What the columns of a row are after it has been written to.
LEMMA MergedRow ==
    ASSUME NEW now \in Row, NEW seen \in Row, NEW new \in Answer
    PROVE  /\ Merged(now, seen, new) \in Row
           /\ Merged(now, seen, new).id = now.id
           /\ Merged(now, seen, new).ticker =
                IF new.ticker = seen.ticker THEN now.ticker ELSE new.ticker
           /\ Merged(now, seen, new).isin =
                IF new.isin \in {None, seen.isin} THEN now.isin ELSE new.isin
           /\ Merged(now, seen, new).date =
                IF new.date = seen.date THEN now.date ELSE new.date
<1> DEFINE m == Merged(now, seen, new)
           Fields == {"id", "ticker", "isin", "date", "price", "currency"}
<1>1. DOMAIN now = Fields
  BY DEF Row
<1>2. m = [c \in Fields |-> IF c = "id" \/ new[c] = None \/ new[c] = seen[c]
                              THEN now[c] ELSE new[c]]
  BY <1>1 DEF Merged
<1>3. /\ new.ticker \in Tickers /\ new.isin \in Isins /\ new.date \in Nat
      /\ new.price \in Prices /\ new.currency \in Currencies
  BY DEF Answer
<1>4. /\ now.id \in Nat /\ now.ticker \in Tickers /\ now.isin \in Isins
      /\ now.date \in Nat /\ now.price \in Prices /\ now.currency \in Currencies
  BY DEF Row
<1>5. new.ticker # None /\ new.date # None
  BY <1>3, MarketAssumption
<1> HIDE DEF m
<1>6. /\ m.id = now.id
      /\ m.ticker = IF new.ticker = seen.ticker THEN now.ticker ELSE new.ticker
      /\ m.isin = IF new.isin \in {None, seen.isin} THEN now.isin ELSE new.isin
      /\ m.date = IF new.date = seen.date THEN now.date ELSE new.date
      /\ m.price = IF new.price = None \/ new.price = seen.price THEN now.price
                     ELSE new.price
      /\ m.currency = IF new.currency = None \/ new.currency = seen.currency
                        THEN now.currency ELSE new.currency
  BY <1>2, <1>5
<1>7. m = [id |-> m.id, ticker |-> m.ticker, isin |-> m.isin, date |-> m.date,
           price |-> m.price, currency |-> m.currency]
  BY <1>2
<1>8. m \in Row
  BY <1>3, <1>4, <1>6, <1>7 DEF Row
<1>9. QED
  BY <1>6, <1>8 DEF m

\* A row that has followed one that followed another has followed that one.
LEMMA FollowsOn ==
    ASSUME NEW a \in Row, NEW b \in Row, NEW c \in Row, Follows(a, b), Follows(b, c)
    PROVE  Follows(a, c)
BY DEF Follows, IsinOf

\* A write to a sound row leaves a sound row that has followed it, with the ISIN of
\* what was asked for.
LEMMA MergedFollows ==
    ASSUME OneIsinPerTicker,
           NEW now \in Row, NEW seen \in Row, NEW new \in Answer,
           NEW i \in Instruments, About(new, i),
           Sound(now), Follows(seen, now), MatchesPrice(seen, KeyOf(new))
    PROVE  /\ Follows(now, Merged(now, seen, new))
           /\ Sound(Merged(now, seen, new))
           /\ new.isin # None => Merged(now, seen, new).isin = new.isin
<1> DEFINE m == Merged(now, seen, new)
<1>1. /\ m \in Row /\ m.id = now.id
      /\ m.ticker = IF new.ticker = seen.ticker THEN now.ticker ELSE new.ticker
      /\ m.isin = IF new.isin \in {None, seen.isin} THEN now.isin ELSE new.isin
  BY MergedRow
<1> HIDE DEF m
<1>2. IsinOf(i.ticker, i.isin) \/ i.isin = None
  BY DEF OneIsinPerTicker, IsinOf
<1>3. \/ seen.ticker = new.ticker
      \/ new.isin # None /\ seen.isin = new.isin
  BY DEF MatchesPrice, KeyOf
<1>4. CASE new.isin \in {None, seen.isin}
  <2>1. m.isin = now.isin
    BY <1>1, <1>4
  <2>2. new.isin # None => now.isin = new.isin
    BY <1>4 DEF Follows
  <2>3. m.ticker # now.ticker => m.ticker = i.ticker /\ now.isin = i.isin /\ i.isin # None
    BY <1>1, <1>3, <2>2 DEF About
  <2>4. Sound(m)
    BY <1>2, <2>1, <2>3 DEF Sound
  <2>5. Follows(now, m)
    BY <1>1, <2>1, <2>3 DEF Follows, Sound
  <2>6. QED
    BY <2>1, <2>2, <2>4, <2>5 DEF m
<1>5. CASE new.isin \notin {None, seen.isin}
  <2>1. seen.ticker = new.ticker /\ m.ticker = now.ticker /\ m.isin = new.isin
    BY <1>1, <1>3, <1>5
  <2>2. now.isin # None => now.isin = i.isin
    BY <1>5, <2>1 DEF Follows, Sound, IsinOf, About
  <2>3. now.ticker = i.ticker \/ now.isin = i.isin
    BY <2>1, <2>2 DEF Follows, About
  <2>4. Sound(m)
    BY <1>2, <2>1, <2>2, <2>3 DEF Sound, About, IsinOf
  <2>5. Follows(now, m)
    BY <1>1, <2>1, <2>2 DEF Follows, About
  <2>6. QED
    BY <2>1, <2>4, <2>5 DEF m
<1>6. QED
  BY <1>4, <1>5

-----------------------------------------------------------------------------
(* A table after a write                                                   *)

\* Every row is still there, whatever it has become.
Grows(T, U) == \A a \in T : \E b \in U : Follows(a, b)

\* The new id is a number above those of the table.
LEMMA NextIdIsNew ==
    ASSUME NEW T, TableOK(T)
    PROVE  NextRowId(T) \in Nat /\ \A a \in T : a.id < NextRowId(T)
<1> DEFINE ids == {row.id : row \in T} \cup {0}
<1>1. ids \in SUBSET Nat /\ ids # {}
  BY DEF TableOK, Row
<1>2. PICK bound \in Nat : \A a \in T : a.id <= bound
  BY DEF TableOK
<1>3. \A n \in ids : n <= bound
  BY <1>2
<1>4. \E m \in ids : \A n \in ids : n <= m
  <2> HIDE DEF ids
  <2>1. QED
    BY <1>1, <1>2, <1>3, GreatestOf
<1>5. Max(ids) \in ids /\ \A n \in ids : Max(ids) >= n
  <2>1. \E m \in ids : \A n \in ids : m >= n
    <3> HIDE DEF ids
    <3>1. QED
      BY <1>1, <1>4
  <2> HIDE DEF ids
  <2>2. QED
    BY <2>1 DEF Max
<1>6. \A a \in T : a.id \in ids
  OBVIOUS
<1>7. PICK greatest : greatest = Max(ids) /\ NextRowId(T) = greatest + 1
  BY DEF NextRowId
<1> HIDE DEF ids
<1>8. greatest \in Nat /\ \A a \in T : a.id \in Nat /\ a.id <= greatest
  BY <1>1, <1>5, <1>6, <1>7
<1>9. QED
  BY <1>7, <1>8

\* The row that Insert adds.
RowAdded(T, new) ==
    [id |-> NextRowId(T), ticker |-> new.ticker, isin |-> new.isin,
     date |-> new.date, price |-> new.price, currency |-> new.currency]

\* An insert keeps the rows and adds one with the columns given.
LEMMA InsertAdds ==
    ASSUME NEW T, TableOK(T), NEW new \in Answer
    PROVE  /\ Insert(T, new) = T \cup {RowAdded(T, new)}
           /\ TableOK(Insert(T, new))
           /\ RowAdded(T, new) \in Row
           /\ RowAdded(T, new).ticker = new.ticker /\ RowAdded(T, new).isin = new.isin
           /\ RowAdded(T, new).date = new.date
<1> DEFINE added == RowAdded(T, new)
<1>1. added \in Row /\ added.id = NextRowId(T)
  BY NextIdIsNew DEF RowAdded, Row, Answer
<1>2. added.ticker = new.ticker /\ added.isin = new.isin /\ added.date = new.date
  BY DEF RowAdded
<1>3. Insert(T, new) = T \cup {added}
  BY DEF Insert, RowAdded
<1> HIDE DEF added
<1>4. TableOK(T \cup {added})
  <2>1. T \cup {added} \subseteq Row
    BY <1>1 DEF TableOK
  <2>2. \A a, b \in T \cup {added} : a.id = b.id => a = b
    <3>1. \A a \in T : a.id \in Nat /\ a.id < added.id
      BY <1>1, NextIdIsNew DEF TableOK, Row
    <3>2. added.id \in Nat
      BY <1>1 DEF Row
    <3>3. QED
      BY <3>1, <3>2 DEF TableOK
  <2>3. \A a \in T \cup {added} : a.id <= added.id
    BY <1>1, NextIdIsNew DEF TableOK, Row
  <2>4. QED
    BY <1>1, <2>1, <2>2, <2>3, NextIdIsNew DEF TableOK
<1>5. QED
  BY <1>1, <1>2, <1>3, <1>4 DEF added

\* An update changes the row that was read and no other.
LEMMA UpdateChanges ==
    ASSUME NEW T, TableOK(T), NEW seen \in Row, NEW new \in Answer
    PROVE  /\ TableOK(Update(T, seen, new))
           /\ \A a \in T : a.id # seen.id => a \in Update(T, seen, new)
           /\ \A a \in T : a.id = seen.id => Merged(a, seen, new) \in Update(T, seen, new)
           /\ \A b \in Update(T, seen, new) :
                \/ b \in T /\ b.id # seen.id
                \/ \E a \in T : a.id = seen.id /\ b = Merged(a, seen, new)
<1> DEFINE U == Update(T, seen, new)
<1>1. T \subseteq Row
  BY DEF TableOK
<1>2. \A a \in T : a.id # seen.id => a \in U
  BY DEF Update
<1>3. \A a \in T : a.id = seen.id => Merged(a, seen, new) \in U
  BY DEF Update
<1>4. \A b \in U : \/ b \in T /\ b.id # seen.id
                   \/ \E a \in T : a.id = seen.id /\ b = Merged(a, seen, new)
  BY DEF Update
<1>5. \A a \in T : Merged(a, seen, new) \in Row /\ Merged(a, seen, new).id = a.id
  BY <1>1, MergedRow
<1> HIDE DEF U
<1>6. U \subseteq Row
  BY <1>1, <1>4, <1>5
<1>7. \A b \in U : \E a \in T : b.id = a.id
  BY <1>4, <1>5
<1>8. \A b, c \in U : b.id = c.id => b = c
  BY <1>4, <1>5 DEF TableOK
<1>9. TableOK(U)
  BY <1>6, <1>7, <1>8 DEF TableOK
<1>10. QED
  BY <1>2, <1>3, <1>4, <1>9 DEF U

\* A write leaves a sound table in which every row is still there, and a row with
\* the ISIN asked for.
LEMMA UpsertStep ==
    ASSUME OneIsinPerTicker, NEW T, TableOK(T), \A a \in T : Sound(a),
           NEW new \in Answer, NEW i \in Instruments, About(new, i),
           NEW seen, FoundIn(T, seen, new)
    PROVE  /\ TableOK(Upsert(T, seen, new))
           /\ \A b \in Upsert(T, seen, new) : Sound(b)
           /\ Grows(T, Upsert(T, seen, new))
<1> DEFINE U == Upsert(T, seen, new)
<1>1. T \subseteq Row
  BY DEF TableOK
<1>2. CASE seen = None
  <2>1. U = T \cup {RowAdded(T, new)}
    BY <1>2, InsertAdds DEF Upsert
  <2>2. TableOK(U)
    BY <1>2, InsertAdds DEF Upsert
  <2>3. RowAdded(T, new).ticker = i.ticker /\ RowAdded(T, new).isin = i.isin
    BY InsertAdds DEF About
  <2>4. Sound(RowAdded(T, new))
    BY <2>3 DEF Sound, IsinOf, OneIsinPerTicker
  <2>5. Grows(T, U)
    BY <2>1 DEF Grows, Follows
  <2> HIDE DEF U
  <2>6. \A b \in U : Sound(b)
    BY <2>1, <2>4
  <2>7. QED
    BY <2>2, <2>5, <2>6 DEF U
<1>3. CASE seen # None
  <2>1. seen \in Row /\ U = Update(T, seen, new)
    BY <1>3 DEF FoundIn, Upsert
  <2>2. /\ TableOK(U)
        /\ \A a \in T : a.id # seen.id => a \in U
        /\ \A a \in T : a.id = seen.id => Merged(a, seen, new) \in U
        /\ \A b \in U : \/ b \in T /\ b.id # seen.id
                        \/ \E a \in T : a.id = seen.id /\ b = Merged(a, seen, new)
    BY <2>1, UpdateChanges
  <2>3. ASSUME NEW a \in T, a.id = seen.id
        PROVE  Follows(a, Merged(a, seen, new)) /\ Sound(Merged(a, seen, new))
    <3>1. PICK now \in T : Follows(seen, now)
      BY <1>3 DEF FoundIn
    <3>2. now = a
      BY <2>3, <3>1 DEF TableOK, Follows
    <3>3. MatchesPrice(seen, KeyOf(new))
      BY <1>3 DEF FoundIn
    <3>4. a \in Row /\ Sound(a) /\ Follows(seen, a)
      BY <1>1, <3>1, <3>2
    <3>5. QED
      BY <2>1, <3>3, <3>4, MergedFollows
  <2> HIDE DEF U
  <2>4. \A b \in U : Sound(b)
    BY <2>2, <2>3
  <2>5. Grows(T, U)
    <3>1. SUFFICES ASSUME NEW a \in T PROVE \E b \in U : Follows(a, b)
      BY DEF Grows
    <3>2. CASE a.id # seen.id
      BY <2>2, <3>2 DEF Follows
    <3>3. CASE a.id = seen.id
      BY <2>2, <2>3, <3>3
    <3>4. QED
      BY <3>2, <3>3
  <2>6. QED
    BY <2>2, <2>4, <2>5 DEF U
<1>4. QED
  BY <1>2, <1>3

\* Every close is still there, on its day.
Keeps(T, U) == \A a \in T : \E b \in U : Follows(a, b) /\ b.date = a.date

\* The rows of a day's close that a read has found.
FoundOnDay(T, seen, day) ==
    seen # None =>
        seen.date = day /\ \E now \in T : Follows(seen, now) /\ now.date = day

\* The day of a close with the ISIN of an instrument is stored.
Served(T, i, day) ==
    i.isin # None => \E row \in T : row.date = day /\ row.isin = i.isin

\* A close that is written leaves every other close on its day, and its own stored.
LEMMA CloseStep ==
    ASSUME OneIsinPerTicker, NEW T, TableOK(T), \A a \in T : Sound(a),
           NEW new \in Answer, NEW i \in Instruments, About(new, i),
           NEW seen, FoundIn(T, seen, new), FoundOnDay(T, seen, new.date)
    PROVE  Keeps(T, Upsert(T, seen, new)) /\ Served(Upsert(T, seen, new), i, new.date)
<1> DEFINE U == Upsert(T, seen, new)
<1>1. T \subseteq Row /\ Grows(T, U)
  BY UpsertStep DEF TableOK
<1>2. CASE seen = None
  <2>1. U = T \cup {RowAdded(T, new)}
    BY <1>2, InsertAdds DEF Upsert
  <2>2. RowAdded(T, new).date = new.date /\ RowAdded(T, new).isin = i.isin
    BY InsertAdds DEF About
  <2> HIDE DEF U
  <2>3. Keeps(T, U)
    BY <2>1 DEF Keeps, Follows
  <2>4. Served(U, i, new.date)
    BY <2>1, <2>2 DEF Served
  <2>5. QED
    BY <2>3, <2>4 DEF U
<1>3. CASE seen # None
  <2>1. seen \in Row /\ U = Update(T, seen, new) /\ MatchesPrice(seen, KeyOf(new))
    BY <1>3 DEF FoundIn, Upsert
  <2>2. /\ \A a \in T : a.id # seen.id => a \in U
        /\ \A a \in T : a.id = seen.id => Merged(a, seen, new) \in U
    BY <2>1, UpdateChanges
  <2>3. PICK now \in T : Follows(seen, now) /\ now.date = new.date
    BY <1>3 DEF FoundOnDay
  <2>4. seen.date = new.date
    BY <1>3 DEF FoundOnDay
  <2>5. /\ Follows(now, Merged(now, seen, new))
        /\ new.isin # None => Merged(now, seen, new).isin = new.isin
    BY <1>1, <2>1, <2>3, MergedFollows
  <2>6. Merged(now, seen, new).date = new.date
    BY <1>1, <2>1, <2>3, <2>4, MergedRow
  <2>7. Merged(now, seen, new) \in U
    BY <2>2, <2>3 DEF Follows
  <2> HIDE DEF U
  <2>8. Served(U, i, new.date)
    BY <2>5, <2>6, <2>7 DEF Served, About
  <2>9. Keeps(T, U)
    <3>1. SUFFICES ASSUME NEW a \in T PROVE \E b \in U : Follows(a, b) /\ b.date = a.date
      BY DEF Keeps
    <3>2. CASE a.id # seen.id
      BY <2>2, <3>2 DEF Follows
    <3>3. CASE a.id = seen.id
      <4>1. a = now
        BY <2>3, <3>3 DEF TableOK, Follows
      <4>2. QED
        BY <2>3, <2>5, <2>6, <2>7, <4>1
    <3>4. QED
      BY <3>2, <3>3
  <2>10. QED
    BY <2>8, <2>9 DEF U
<1>4. QED
  BY <1>2, <1>3

-----------------------------------------------------------------------------
(* The invariant of the stored prices                                      *)

Request ==
    [st : {"new", "done", "failed"}]
    \cup [st : {"answered"}, row : Answer]
    \cup [st : {"latest"}, row : Answer, seen : Row \cup {None}]
    \cup [st : {"history", "close", "fetched"}, instrument : Instruments,
          days : SUBSET CloseDates, price : Prices, todo : SUBSET CloseDates,
          seen : Row \cup {None}]

\* A request with an answer holds a price newer than any stored, unless another one
\* has stored a price since (late).
AnswerOK(q, late, prices, now) ==
    /\ \E i \in Instruments : About(q.row, i)
    /\ q.row.date <= now
    /\ ~late => \A a \in prices : a.date < q.row.date

\* One that has looked for its row knows it, or what has followed it.
LatestOK(q, late, prices) ==
    /\ FoundIn(prices, q.seen, q.row)
    /\ ~late => /\ q.seen # None => q.seen \in prices
                /\ q.seen = None =>
                     \A a \in prices : ~MatchesPrice(a, KeyOf(q.row))

CloseOf(q) == PriceRow(q.instrument, Min(q.todo), q.price)

\* The days a history fetch has been through are stored.
DaysOK(q, closes) ==
    /\ q.todo \subseteq q.days
    /\ q.st = "fetched" <=> q.todo = {}
    /\ \A d \in q.days \ q.todo : Served(closes, q.instrument, d)

CloseOK(q, closes) ==
    /\ FoundIn(closes, q.seen, CloseOf(q))
    /\ FoundOnDay(closes, q.seen, CloseOf(q).date)

RequestOK(q, late, prices, closes, now) ==
    /\ q.st \in {"answered", "latest"} => AnswerOK(q, late, prices, now)
    /\ q.st = "latest" => LatestOK(q, late, prices)
    /\ q.st \in {"history", "close", "fetched"} => DaysOK(q, closes)
    /\ q.st = "close" => CloseOK(q, closes)

MarketInv ==
    /\ clock \in Nat
    /\ fetch \in [Fetches -> Request]
    /\ TableOK(latest) /\ TableOK(history)
    /\ \A a \in latest : Sound(a) /\ a.date <= clock
    /\ \A a \in history : Sound(a)
    /\ \A f \in Fetches : RequestOK(fetch[f], f \in overtaken, latest, history, clock)

-----------------------------------------------------------------------------
(* Steps                                                                   *)

\* A price fetched for an instrument on a day is an answer about it.
LEMMA PriceRowShape ==
    ASSUME NEW i \in Instruments, NEW d \in Nat, NEW price \in Prices
    PROVE  /\ PriceRow(i, d, price) \in Answer
           /\ About(PriceRow(i, d, price), i)
           /\ PriceRow(i, d, price).date = d
BY DEF PriceRow, Answer, About, Tickers, Isins, Currencies

\* What holds of a request goes on to hold when other requests have written.
LEMMA RequestStays ==
    ASSUME NEW q \in Request, NEW late, NEW late2,
           NEW L, NEW L2, NEW H, NEW H2, NEW now \in Nat, NEW now2 \in Nat,
           TableOK(L), TableOK(L2), TableOK(H), TableOK(H2),
           RequestOK(q, late, L, H, now), Grows(L, L2), Keeps(H, H2), now <= now2,
           q.st \in {"answered", "latest"} => late2 \/ (~late /\ L2 = L)
    PROVE  RequestOK(q, late2, L2, H2, now2)
<1>1. q.st \in {"answered", "latest"} => AnswerOK(q, late2, L2, now2)
  <2>1. SUFFICES ASSUME q.st \in {"answered", "latest"} PROVE AnswerOK(q, late2, L2, now2)
    OBVIOUS
  <2>2. AnswerOK(q, late, L, now) /\ q.row.date \in Nat
    BY <2>1 DEF RequestOK, Request, Answer
  <2>3. QED
    BY <2>1, <2>2 DEF AnswerOK
<1>2. ASSUME NEW T, NEW U, NEW seen, NEW new,
             TableOK(T), TableOK(U), FoundIn(T, seen, new), Grows(T, U)
      PROVE  FoundIn(U, seen, new)
  BY <1>2, FollowsOn DEF FoundIn, Grows, TableOK
<1>3. q.st = "latest" => LatestOK(q, late2, L2)
  <2>1. SUFFICES ASSUME q.st = "latest" PROVE LatestOK(q, late2, L2)
    OBVIOUS
  <2>2. LatestOK(q, late, L)
    BY <2>1 DEF RequestOK
  <2>3. FoundIn(L2, q.seen, q.row)
    BY <1>2, <2>2 DEF LatestOK
  <2>4. late2 \/ (~late /\ L2 = L)
    BY <2>1
  <2>5. QED
    BY <2>2, <2>3, <2>4 DEF LatestOK
<1>4. q.st \in {"history", "close", "fetched"} => DaysOK(q, H2)
  <2>1. SUFFICES ASSUME q.st \in {"history", "close", "fetched"} PROVE DaysOK(q, H2)
    OBVIOUS
  <2>2. DaysOK(q, H)
    BY <2>1 DEF RequestOK
  <2>3. ASSUME NEW d, Served(H, q.instrument, d) PROVE Served(H2, q.instrument, d)
    BY <2>3 DEF Served, Keeps, Follows
  <2>4. QED
    BY <2>2, <2>3 DEF DaysOK
<1>5. q.st = "close" => CloseOK(q, H2)
  <2>1. SUFFICES ASSUME q.st = "close" PROVE CloseOK(q, H2)
    OBVIOUS
  <2>2. CloseOK(q, H)
    BY <2>1 DEF RequestOK
  <2>3. Grows(H, H2)
    BY DEF Keeps, Grows
  <2>4. FoundIn(H2, q.seen, CloseOf(q))
    BY <1>2, <2>2, <2>3 DEF CloseOK
  <2>5. ASSUME NEW day, FoundOnDay(H, q.seen, day), FoundIn(H, q.seen, CloseOf(q))
        PROVE  FoundOnDay(H2, q.seen, day)
    <3>1. SUFFICES ASSUME q.seen # None
                   PROVE  \E now3 \in H2 : Follows(q.seen, now3) /\ now3.date = day
      BY <2>5 DEF FoundOnDay
    <3>2. PICK a \in H : Follows(q.seen, a) /\ a.date = day
      BY <2>5, <3>1 DEF FoundOnDay
    <3>3. PICK b \in H2 : Follows(a, b) /\ b.date = a.date
      BY DEF Keeps
    <3>4. q.seen \in Row /\ a \in Row /\ b \in Row
      BY <2>5, <3>1 DEF FoundIn, TableOK
    <3>5. Follows(q.seen, b)
      BY <3>2, <3>3, <3>4, FollowsOn
    <3>6. QED
      BY <3>2, <3>3, <3>5
  <2>6. QED
    BY <2>2, <2>4, <2>5 DEF CloseOK
<1>6. QED
  BY <1>1, <1>3, <1>4, <1>5 DEF RequestOK

\* A table that does not change has followed itself.
LEMMA SameTable == ASSUME NEW T PROVE Grows(T, T) /\ Keeps(T, T)
BY DEF Grows, Keeps, Follows

\* The newest of some rows is one of them, and none is of a later date.
LEMMA NewestOf ==
    ASSUME NEW T, TableOK(T), NEW S \in SUBSET T, S # {},
           NEW bound \in Nat, \A a \in S : a.date <= bound
    PROVE  Newest(S) \in S /\ \A a \in S : a.date <= Newest(S).date
<1>1. \A a \in S : a.id \in Nat /\ a.date \in Nat
  BY DEF TableOK, Row
<1>2. PICK e \in S : \A a \in S : a.date <= e.date
  <2> DEFINE dates == {a.date : a \in S}
  <2>1. dates \in SUBSET Nat /\ dates # {} /\ \A d \in dates : d <= bound
    BY <1>1
  <2>2. \E m \in dates : \A d \in dates : d <= m
    <3> HIDE DEF dates
    <3>1. QED
      BY <2>1, GreatestOf
  <2>3. QED
    BY <2>2
<1> DEFINE ids == {a.id : a \in {b \in S : b.date = e.date}}
<1>3. PICK m \in ids : \A n \in ids : n <= m
  <2>1. PICK top \in Nat : \A a \in T : a.id <= top
    BY DEF TableOK
  <2>2. ids \in SUBSET Nat /\ ids # {} /\ \A n \in ids : n <= top
    BY <1>1, <1>2, <2>1
  <2> HIDE DEF ids
  <2>3. QED
    BY <2>2, GreatestOf
<1>4. PICK last \in S : last.date = e.date /\ last.id = m
  OBVIOUS
<1>5. \A other \in S \ {last} : Earlier(other, last)
  <2>1. SUFFICES ASSUME NEW other \in S, other # last PROVE Earlier(other, last)
    OBVIOUS
  <2>2. other.id # last.id
    BY <2>1 DEF TableOK
  <2>3. CASE other.date < last.date
    BY <2>3 DEF Earlier
  <2>4. CASE ~(other.date < last.date)
    <3>1. other.date = e.date
      BY <1>1, <1>2, <1>4, <2>4
    <3>2. other.id \in ids
      BY <3>1
    <3>3. other.id <= last.id
      BY <1>3, <1>4, <3>2
    <3>4. QED
      BY <1>1, <1>4, <2>2, <3>1, <3>3 DEF Earlier
  <2>5. QED
    BY <2>3, <2>4
<1> HIDE DEF ids
<1>6. /\ Newest(S) \in S
      /\ \A other \in S \ {Newest(S)} : Earlier(other, Newest(S))
  <2>1. \E x \in S : \A other \in S \ {x} : Earlier(other, x)
    BY <1>5
  <2>2. QED
    BY <2>1 DEF Newest
<1>7. \A a \in S : a.date <= Newest(S).date
  BY <1>1, <1>6 DEF Earlier
<1>8. QED
  BY <1>6, <1>7

\* One request of a table of requests goes on to q.
Turns(was, is, f, q) == is = [was EXCEPT ![f] = q]

\* What the tables must do for the invariant to survive a step of request f.
TablesStep(f) ==
    /\ clock' \in Nat /\ clock <= clock'
    /\ TableOK(latest') /\ TableOK(history')
    /\ Grows(latest, latest') /\ Keeps(history, history')
    /\ \A a \in latest' : Sound(a) /\ a.date <= clock'
    /\ \A a \in history' : Sound(a)
    /\ \A g \in Fetches \ {f} :
         fetch[g].st \in {"answered", "latest"} =>
             g \in overtaken' \/ (g \notin overtaken /\ latest' = latest)

\* A step of one request that leaves the tables sound, and its own request right,
\* keeps the invariant.
LEMMA StepKeepsMarket ==
    ASSUME MarketInv, NEW f \in Fetches, NEW q \in Request, Turns(fetch, fetch', f, q),
           TablesStep(f), RequestOK(q, f \in overtaken', latest', history', clock')
    PROVE  MarketInv'
<1>1. fetch' \in [Fetches -> Request] /\ fetch'[f] = q
  BY DEF MarketInv, Turns
<1>2. ASSUME NEW g \in Fetches, g # f
      PROVE  RequestOK(fetch'[g], g \in overtaken', latest', history', clock')
  <2>1. fetch'[g] = fetch[g] /\ fetch[g] \in Request
    BY <1>2 DEF MarketInv, Turns
  <2>2. RequestOK(fetch[g], g \in overtaken, latest, history, clock)
    BY DEF MarketInv
  <2>3. fetch[g].st \in {"answered", "latest"} =>
          g \in overtaken' \/ (g \notin overtaken /\ latest' = latest)
    BY <1>2 DEF TablesStep
  <2>4. PICK late, late2 :
          late = (g \in overtaken) /\ late2 = (g \in overtaken')
    OBVIOUS
  <2>5. PICK L, H, L2, H2, r : /\ L = latest /\ H = history /\ r = fetch[g]
                               /\ L2 = latest' /\ H2 = history'
    OBVIOUS
  <2>6. PICK now, now2 \in Nat : now = clock /\ now2 = clock'
    BY DEF MarketInv, TablesStep
  <2>7. /\ TableOK(L) /\ TableOK(L2) /\ TableOK(H) /\ TableOK(H2)
        /\ Grows(L, L2) /\ Keeps(H, H2) /\ now <= now2
    BY <2>5, <2>6 DEF MarketInv, TablesStep
  <2>8. RequestOK(r, late, L, H, now)
    BY <2>2, <2>4, <2>5, <2>6
  <2>9. r \in Request /\ (r.st \in {"answered", "latest"} => late2 \/ (~late /\ L2 = L))
    BY <2>1, <2>3, <2>4, <2>5
  <2>10. RequestOK(r, late2, L2, H2, now2)
    BY <2>4, <2>7, <2>8, <2>9, RequestStays
  <2>11. QED
    BY <2>1, <2>4, <2>5, <2>6, <2>10
<1>3. \A g \in Fetches :
        RequestOK(fetch'[g], g \in overtaken', latest', history', clock')
  BY <1>1, <1>2
<1>4. QED
  BY <1>1, <1>3 DEF MarketInv, TablesStep

\* A step that leaves the tables alone leaves them sound.
LEMMA TablesAlone ==
    ASSUME MarketInv, NEW f \in Fetches, UNCHANGED <<latest, history, overtaken>>,
           clock' \in Nat, clock <= clock'
    PROVE  TablesStep(f)
<1>1. Grows(latest, latest') /\ Keeps(history, history')
  BY SameTable
<1>2. \A a \in latest : a.date \in Nat
  BY DEF MarketInv, TableOK, Row
<1>3. \A a \in latest : a.date <= clock'
  BY <1>2 DEF MarketInv
<1>4. QED
  BY <1>1, <1>3 DEF TablesStep, MarketInv

\* A fetch that reads the provider's answer keeps the invariant of the prices.
LEMMA AskLatestKeeps ==
    ASSUME MarketInv, NEW f \in Fetches, AskLatest(f) PROVE MarketInv'
<1>1. PICK i \in Instruments, price \in Prices :
        fetch' = [fetch EXCEPT ![f] =
                    [st |-> "answered", row |-> PriceRow(i, clock + 1, price)]]
  BY DEF AskLatest
<1>2. clock \in Nat /\ clock' = clock + 1 /\ UNCHANGED <<latest, history, overtaken>>
  BY DEF AskLatest, MarketInv
<1>3. PICK row : row = PriceRow(i, clock + 1, price)
  OBVIOUS
<1>4. row \in Answer /\ About(row, i) /\ row.date = clock + 1
  BY <1>2, <1>3, PriceRowShape
<1>5. PICK q : q = [st |-> "answered", row |-> row]
  OBVIOUS
<1>6. q \in Request /\ q.st = "answered" /\ q.row = row
  BY <1>4, <1>5 DEF Request
<1>7. Turns(fetch, fetch', f, q)
  BY <1>1, <1>3, <1>5 DEF Turns
<1>8. TablesStep(f)
  BY <1>2, TablesAlone
<1>9. AnswerOK(q, f \in overtaken', latest', clock')
  <2>1. \A a \in latest : a.date \in Nat /\ a.date < clock + 1
    BY <1>2 DEF MarketInv, TableOK, Row
  <2>2. QED
    BY <1>2, <1>4, <1>6, <2>1 DEF AnswerOK
<1>10. RequestOK(q, f \in overtaken', latest', history', clock')
  BY <1>6, <1>9 DEF RequestOK
<1>11. QED
  BY <1>6, <1>7, <1>8, <1>10, StepKeepsMarket

\* So does the look for the instrument's row ...
LEMMA FindLatestKeeps ==
    ASSUME MarketInv, NEW f \in Fetches, FindLatest(f) PROVE MarketInv'
<1>1. PICK row, seen :
        /\ row = fetch[f].row
        /\ seen = IF LatestRows(row) = {} THEN None ELSE Newest(LatestRows(row))
  OBVIOUS
<1>2. /\ fetch' = [fetch EXCEPT ![f] = [st |-> "latest", row |-> row, seen |-> seen]]
      /\ fetch[f].st = "answered"
      /\ UNCHANGED <<latest, history, clock, overtaken>>
  BY <1>1 DEF FindLatest
<1>3. /\ fetch[f] \in Request /\ clock \in Nat
      /\ RequestOK(fetch[f], f \in overtaken, latest, history, clock)
  BY DEF MarketInv
<1>4. row \in Answer
  BY <1>1, <1>2, <1>3 DEF Request
<1>5. AnswerOK(fetch[f], f \in overtaken, latest, clock)
  BY <1>2, <1>3 DEF RequestOK
<1>6. seen # None => seen \in LatestRows(row)
  <2>1. SUFFICES ASSUME LatestRows(row) # {} PROVE Newest(LatestRows(row)) \in LatestRows(row)
    BY <1>1
  <2>2. LatestRows(row) \subseteq latest
    BY DEF LatestRows
  <2>3. \A a \in LatestRows(row) : a.date <= clock
    BY <2>2 DEF MarketInv
  <2>4. TableOK(latest)
    BY DEF MarketInv
  <2>5. QED
    BY <1>3, <2>1, <2>2, <2>3, <2>4, NewestOf
<1>7. seen = None => LatestRows(row) = {}
  <2>1. SUFFICES ASSUME LatestRows(row) # {} PROVE seen # None
    OBVIOUS
  <2>2. LatestRows(row) \subseteq latest
    BY DEF LatestRows
  <2>3. \A a \in LatestRows(row) : a.date <= clock
    BY <2>2 DEF MarketInv
  <2>4. TableOK(latest) /\ latest \subseteq Row
    BY DEF MarketInv, TableOK
  <2>5. Newest(LatestRows(row)) \in LatestRows(row)
    BY <1>3, <2>1, <2>2, <2>3, <2>4, NewestOf
  <2>6. seen \in Row
    BY <1>1, <2>1, <2>2, <2>4, <2>5
  <2>7. QED
    BY <2>6, MarketAssumption
<1>8. /\ seen \in Row \cup {None}
      /\ seen # None => seen \in latest /\ MatchesPrice(seen, KeyOf(row))
      /\ seen = None => \A a \in latest : ~MatchesPrice(a, KeyOf(row))
  <2>1. latest \subseteq Row
    BY DEF MarketInv, TableOK
  <2>2. QED
    BY <1>6, <1>7, <2>1 DEF LatestRows
<1>9. PICK q : q = [st |-> "latest", row |-> row, seen |-> seen]
  OBVIOUS
<1>10. q \in Request /\ q.st = "latest" /\ q.row = row /\ q.seen = seen
  BY <1>4, <1>8, <1>9 DEF Request
<1>11. Turns(fetch, fetch', f, q)
  BY <1>2, <1>9 DEF Turns
<1>12. TablesStep(f)
  BY <1>2, <1>3, TablesAlone
<1>13. AnswerOK(q, f \in overtaken', latest', clock')
  BY <1>1, <1>2, <1>5, <1>10 DEF AnswerOK
<1>14. LatestOK(q, f \in overtaken', latest')
  BY <1>2, <1>8, <1>10 DEF LatestOK, FoundIn, Follows
<1>15. RequestOK(q, f \in overtaken', latest', history', clock')
  BY <1>10, <1>13, <1>14 DEF RequestOK
<1>16. QED
  BY <1>10, <1>11, <1>12, <1>15, StepKeepsMarket

\* A write brings in no other date than its own.
LEMMA UpsertDates ==
    ASSUME NEW T, TableOK(T), NEW new \in Answer, NEW seen \in Row \cup {None}
    PROVE  \A b \in Upsert(T, seen, new) : b.date = new.date \/ \E a \in T : b.date = a.date
<1>1. CASE seen = None
  <2>1. Upsert(T, seen, new) = T \cup {RowAdded(T, new)} /\ RowAdded(T, new).date = new.date
    BY <1>1, InsertAdds DEF Upsert
  <2>2. QED
    BY <2>1
<1>2. CASE seen # None
  <2>1. SUFFICES ASSUME NEW b \in Upsert(T, seen, new)
                 PROVE  b.date = new.date \/ \E a \in T : b.date = a.date
    OBVIOUS
  <2>2. seen \in Row /\ Upsert(T, seen, new) = Update(T, seen, new)
    BY <1>2 DEF Upsert
  <2>3. \/ b \in T
        \/ \E a \in T : b = Merged(a, seen, new)
    BY <2>1, <2>2, UpdateChanges
  <2>4. ASSUME NEW a \in T, b = Merged(a, seen, new)
        PROVE  b.date = new.date \/ b.date = a.date
    <3>1. a \in Row
      BY DEF TableOK
    <3>2. Merged(a, seen, new).date = IF new.date = seen.date THEN a.date ELSE new.date
      BY <2>2, <3>1, MergedRow
    <3>3. QED
      BY <2>4, <3>2
  <2>5. QED
    BY <2>3, <2>4
<1>3. QED
  BY <1>1, <1>2

\* ... and the store, whose row no other ticker can take while a ticker has one ISIN.
LEMMA StoreLatestKeeps ==
    ASSUME OneIsinPerTicker, MarketInv, NEW f \in Fetches, StoreLatest(f) PROVE MarketInv'
<1>1. PICK row, seen : row = fetch[f].row /\ seen = fetch[f].seen
  OBVIOUS
<1>2. /\ fetch[f].st = "latest"
      /\ latest' = Upsert(latest, seen, row)
      /\ fetch' = [fetch EXCEPT ![f] = [st |-> "done"]]
      /\ overtaken' = overtaken \cup
                        {g \in Fetches \ {f} : fetch[g].st \in {"answered", "latest"}}
      /\ UNCHANGED <<history, clock>>
  BY <1>1 DEF StoreLatest
<1>3. /\ fetch[f] \in Request /\ clock \in Nat /\ TableOK(latest) /\ TableOK(history)
      /\ RequestOK(fetch[f], f \in overtaken, latest, history, clock)
      /\ \A a \in latest : Sound(a) /\ a.date <= clock
  BY DEF MarketInv
<1>4. row \in Answer /\ seen \in Row \cup {None}
  BY <1>1, <1>2, <1>3 DEF Request
<1>5. /\ FoundIn(latest, seen, row) /\ row.date <= clock
      /\ \E i \in Instruments : About(row, i)
  BY <1>1, <1>2, <1>3 DEF RequestOK, LatestOK, AnswerOK
<1>6. PICK i \in Instruments : About(row, i)
  BY <1>5
<1>7. /\ TableOK(latest') /\ Grows(latest, latest')
      /\ \A b \in latest' : Sound(b)
  <2>1. PICK T : T = latest
    OBVIOUS
  <2>2. TableOK(T) /\ FoundIn(T, seen, row) /\ \A a \in T : Sound(a)
    BY <1>3, <1>5, <2>1
  <2>3. /\ TableOK(Upsert(T, seen, row)) /\ Grows(T, Upsert(T, seen, row))
        /\ \A b \in Upsert(T, seen, row) : Sound(b)
    BY <1>4, <1>6, <2>2, UpsertStep
  <2>4. QED
    BY <1>2, <2>1, <2>3
<1>8. \A b \in latest' : b.date <= clock
  <2>1. \A b \in latest' : b.date = row.date \/ \E a \in latest : b.date = a.date
    BY <1>2, <1>3, <1>4, UpsertDates
  <2>2. QED
    BY <1>3, <1>5, <2>1
<1>9. TablesStep(f)
  <2>1. Keeps(history, history')
    BY <1>2, SameTable
  <2>2. \A g \in Fetches \ {f} :
          fetch[g].st \in {"answered", "latest"} => g \in overtaken'
    BY <1>2
  <2>3. clock' \in Nat /\ clock <= clock' /\ TableOK(history')
    BY <1>2, <1>3
  <2>4. \A a \in history' : Sound(a)
    BY <1>2 DEF MarketInv
  <2>5. \A a \in latest' : Sound(a) /\ a.date <= clock'
    BY <1>2, <1>7, <1>8
  <2>6. QED
    BY <1>7, <2>1, <2>2, <2>3, <2>4, <2>5 DEF TablesStep
<1>10. PICK q : q = [st |-> "done"]
  OBVIOUS
<1>11. q \in Request /\ q.st = "done" /\ Turns(fetch, fetch', f, q)
  BY <1>2, <1>10 DEF Request, Turns
<1>12. RequestOK(q, f \in overtaken', latest', history', clock')
  BY <1>11 DEF RequestOK
<1>13. QED
  BY <1>9, <1>11, <1>12, StepKeepsMarket

\* A fetch that fails has stored nothing more.
LEMMA FailFetchKeeps ==
    ASSUME MarketInv, NEW f \in Fetches, FailFetch(f) PROVE MarketInv'
<1>1. /\ fetch' = [fetch EXCEPT ![f] = [st |-> "failed"]]
      /\ UNCHANGED <<latest, history, clock, overtaken>>
  BY DEF FailFetch
<1>2. PICK q : q = [st |-> "failed"]
  OBVIOUS
<1>3. q \in Request /\ q.st = "failed" /\ Turns(fetch, fetch', f, q)
  BY <1>1, <1>2 DEF Request, Turns
<1>4. RequestOK(q, f \in overtaken', latest', history', clock')
  BY <1>3 DEF RequestOK
<1>5. clock' \in Nat /\ clock <= clock'
  BY <1>1 DEF MarketInv
<1>6. QED
  BY <1>1, <1>3, <1>4, <1>5, TablesAlone, StepKeepsMarket

\* A history fetch that reads its answer keeps the invariant.
LEMMA AskHistoryKeeps ==
    ASSUME MarketInv, NEW f \in Fetches, AskHistory(f) PROVE MarketInv'
<1>1. PICK i \in Instruments, days \in (SUBSET CloseDates) \ {{}}, price \in Prices :
        fetch' = [fetch EXCEPT ![f] =
           [st |-> "history", instrument |-> i, days |-> days, price |-> price,
            todo |-> days, seen |-> None]]
  BY DEF AskHistory
<1>2. UNCHANGED <<latest, history, clock, overtaken>>
  BY DEF AskHistory
<1>3. PICK q : q = [st |-> "history", instrument |-> i, days |-> days, price |-> price,
                    todo |-> days, seen |-> None]
  OBVIOUS
<1>4. /\ q.st = "history" /\ q.instrument = i /\ q.days = days /\ q.todo = days
      /\ q.seen = None /\ q.price = price
  BY <1>3
<1>5. q \in [st : {"history", "close", "fetched"}, instrument : Instruments,
             days : SUBSET CloseDates, price : Prices, todo : SUBSET CloseDates,
             seen : Row \cup {None}]
  BY <1>3
<1>6. q \in Request
  BY <1>5 DEF Request
<1>7. Turns(fetch, fetch', f, q)
  BY <1>1, <1>3 DEF Turns
<1>8. DaysOK(q, history')
  <2>1. days # {} /\ days \ days = {}
    OBVIOUS
  <2>2. QED
    BY <1>4, <2>1 DEF DaysOK
<1>9. RequestOK(q, f \in overtaken', latest', history', clock')
  BY <1>4, <1>8 DEF RequestOK
<1>10. clock' \in Nat /\ clock <= clock'
  BY <1>2 DEF MarketInv
<1>11. TablesStep(f)
  BY <1>2, <1>10, TablesAlone
<1>12. QED
  BY <1>6, <1>7, <1>9, <1>11, StepKeepsMarket

HistoryRequest ==
    [st : {"history", "close", "fetched"}, instrument : Instruments,
     days : SUBSET CloseDates, price : Prices, todo : SUBSET CloseDates,
     seen : Row \cup {None}]

\* A request that fetches a history has the fields of one.
LEMMA HistoryRequestShape ==
    ASSUME NEW q \in Request, q.st \in {"history", "close", "fetched"}
    PROVE  q \in HistoryRequest
BY DEF Request, HistoryRequest

\* The next close of a history that has days left is an answer about its instrument,
\* on one of these days.
LEMMA NextClose ==
    ASSUME NEW q \in HistoryRequest, q.todo # {}
    PROVE  /\ CloseOf(q) \in Answer /\ About(CloseOf(q), q.instrument)
           /\ CloseOf(q).date = Min(q.todo) /\ Min(q.todo) \in q.todo
<1>1. q.todo \in SUBSET Nat
  BY MarketAssumption DEF HistoryRequest
<1>2. PICK m \in q.todo : \A n \in q.todo : m =< n
  BY <1>1, LeastOf
<1>3. Min(q.todo) \in q.todo
  BY <1>2 DEF Min
<1>4. Min(q.todo) \in Nat
  BY <1>1, <1>3
<1>5. q.instrument \in Instruments /\ q.price \in Prices
  BY DEF HistoryRequest
<1>6. QED
  BY <1>3, <1>4, <1>5, PriceRowShape DEF CloseOf

\* So does the look for one day's close ...
LEMMA FindCloseKeeps ==
    ASSUME MarketInv, NEW f \in Fetches, FindClose(f) PROVE MarketInv'
<1>1. PICK was : was = fetch[f]
  OBVIOUS
<1>2. /\ was \in Request /\ was.st = "history" /\ clock \in Nat /\ TableOK(history)
      /\ RequestOK(was, f \in overtaken, latest, history, clock)
  BY <1>1 DEF MarketInv, FindClose
<1>3. was \in HistoryRequest /\ DaysOK(was, history)
  BY <1>2, HistoryRequestShape DEF RequestOK
<1>4. was.todo # {}
  BY <1>2, <1>3 DEF DaysOK
<1>5. PICK rows : rows = CloseRows(CloseOf(was))
  OBVIOUS
<1>6. PICK seen \in IF rows = {} THEN {None} ELSE rows :
        fetch' = [fetch EXCEPT ![f].st = "close", ![f].seen = seen]
  BY <1>1, <1>5 DEF FindClose, CloseToStore, CloseOf
<1>7. UNCHANGED <<latest, history, clock, overtaken>>
  BY DEF FindClose
<1>8. rows = {old \in history : /\ MatchesPrice(old, KeyOf(CloseOf(was)))
                                /\ old.date = CloseOf(was).date}
  BY <1>5 DEF CloseRows
<1>9. seen \in Row \cup {None} /\ (seen # None => seen \in rows)
  BY <1>2, <1>6, <1>8 DEF TableOK
<1>10. PICK q : q = [was EXCEPT !.st = "close", !.seen = seen]
  OBVIOUS
<1>11. /\ q \in HistoryRequest /\ q.st = "close" /\ q.seen = seen
       /\ q.instrument = was.instrument /\ q.days = was.days /\ q.price = was.price
       /\ q.todo = was.todo
  BY <1>3, <1>9, <1>10 DEF HistoryRequest
<1>12. q \in Request
  BY <1>11 DEF Request, HistoryRequest
<1>13. Turns(fetch, fetch', f, q)
  BY <1>1, <1>6, <1>10 DEF Turns
<1>14. DaysOK(q, history')
  BY <1>2, <1>3, <1>4, <1>7, <1>11 DEF DaysOK
<1>15. CloseOf(q) = CloseOf(was)
  BY <1>11 DEF CloseOf
<1>16. CloseOK(q, history')
  BY <1>7, <1>8, <1>9, <1>11, <1>15 DEF CloseOK, FoundIn, FoundOnDay, Follows
<1>17. RequestOK(q, f \in overtaken', latest', history', clock')
  BY <1>11, <1>14, <1>16 DEF RequestOK
<1>18. TablesStep(f)
  BY <1>2, <1>7, TablesAlone
<1>19. QED
  BY <1>12, <1>13, <1>17, <1>18, StepKeepsMarket

\* ... and its store, after which that day is in the table.
LEMMA StoreCloseKeeps ==
    ASSUME OneIsinPerTicker, MarketInv, NEW f \in Fetches, StoreClose(f) PROVE MarketInv'
<1>1. PICK was, stored, rest :
        /\ was = fetch[f]
        /\ stored = Upsert(history, was.seen, CloseOf(was))
        /\ rest = was.todo \ {Min(was.todo)}
  OBVIOUS
<1>2. /\ was \in Request /\ was.st = "close" /\ clock \in Nat
      /\ TableOK(history) /\ TableOK(latest)
      /\ RequestOK(was, f \in overtaken, latest, history, clock)
      /\ \A a \in history : Sound(a)
  BY <1>1 DEF MarketInv, StoreClose
<1>3. was \in HistoryRequest /\ DaysOK(was, history) /\ CloseOK(was, history)
  BY <1>2, HistoryRequestShape DEF RequestOK
<1>4. was.todo # {}
  BY <1>2, <1>3 DEF DaysOK
<1>5. /\ CloseOf(was) \in Answer /\ About(CloseOf(was), was.instrument)
      /\ CloseOf(was).date = Min(was.todo) /\ Min(was.todo) \in was.todo
      /\ was.instrument \in Instruments
  BY <1>3, <1>4, NextClose DEF HistoryRequest
<1>6. UNCHANGED <<latest, clock, overtaken>>
  BY DEF StoreClose
<1>7. CASE UniqueCloses(stored)
  <2>1. /\ history' = stored
        /\ fetch' = [fetch EXCEPT ![f].st   = IF rest = {} THEN "fetched" ELSE "history",
                                  ![f].todo = rest,
                                  ![f].seen = None]
    BY <1>1, <1>7 DEF StoreClose, CloseToStore, CloseOf
  <2>2. PICK T, new, seen : T = history /\ new = CloseOf(was) /\ seen = was.seen
    OBVIOUS
  <2>3. stored = Upsert(T, seen, new)
    BY <1>1, <2>2
  <2>4. /\ TableOK(T) /\ FoundIn(T, seen, new) /\ FoundOnDay(T, seen, new.date)
        /\ \A a \in T : Sound(a)
    BY <1>2, <1>3, <2>2 DEF CloseOK
  <2>5. new \in Answer /\ About(new, was.instrument) /\ new.date = Min(was.todo)
    BY <1>5, <2>2
  <2>6. /\ TableOK(Upsert(T, seen, new)) /\ \A b \in Upsert(T, seen, new) : Sound(b)
    BY <1>5, <2>4, <2>5, UpsertStep
  <2>7. /\ Keeps(T, Upsert(T, seen, new))
        /\ Served(Upsert(T, seen, new), was.instrument, new.date)
    BY <1>5, <2>4, <2>5, CloseStep
  <2>8. /\ TableOK(history') /\ \A b \in history' : Sound(b)
    BY <2>1, <2>3, <2>6
  <2>9. Keeps(history, history') /\ Served(history', was.instrument, Min(was.todo))
    BY <2>1, <2>2, <2>3, <2>5, <2>7
  <2>10. PICK q : q = [was EXCEPT !.st = IF rest = {} THEN "fetched" ELSE "history",
                                  !.todo = rest, !.seen = None]
    OBVIOUS
  <2>11. /\ q \in HistoryRequest
         /\ q.st = IF rest = {} THEN "fetched" ELSE "history"
         /\ q.instrument = was.instrument /\ q.days = was.days /\ q.todo = rest
    <3>1. rest \in SUBSET CloseDates
      BY <1>1, <1>3 DEF HistoryRequest
    <3>2. (IF rest = {} THEN "fetched" ELSE "history") \in {"history", "close", "fetched"}
      OBVIOUS
    <3>3. QED
      BY <1>3, <2>10, <3>1, <3>2 DEF HistoryRequest
  <2>12. q \in Request
    BY <2>11 DEF Request, HistoryRequest
  <2>13. Turns(fetch, fetch', f, q)
    BY <1>1, <2>1, <2>10 DEF Turns
  <2>14. DaysOK(q, history')
    <3>1. ASSUME NEW d \in q.days \ q.todo PROVE Served(history', q.instrument, d)
      <4>1. CASE d = Min(was.todo)
        BY <2>9, <2>11, <4>1
      <4>2. CASE d # Min(was.todo)
        <5>1. d \in was.days \ was.todo
          BY <1>1, <2>11, <4>2
        <5>2. Served(history, was.instrument, d)
          BY <1>3, <5>1 DEF DaysOK
        <5>3. Keeps(history, history')
          BY <2>9
        <5>4. QED
          BY <2>11, <5>2, <5>3 DEF Served, Keeps, Follows
      <4>3. QED
        BY <4>1, <4>2
    <3>2. q.todo \subseteq q.days
      BY <1>1, <1>3, <2>11 DEF DaysOK
    <3>3. q.st = "fetched" <=> q.todo = {}
      BY <2>11
    <3>4. QED
      BY <3>1, <3>2, <3>3 DEF DaysOK
  <2>15. RequestOK(q, f \in overtaken', latest', history', clock')
    <3>1. q.st \in {"fetched", "history"}
      BY <2>11
    <3>2. QED
      BY <2>14, <3>1 DEF RequestOK
  <2>16. TablesStep(f)
    <3>1. Grows(latest, latest')
      BY <1>6, SameTable
    <3>2. \A a \in latest : Sound(a) /\ a.date <= clock
      BY DEF MarketInv
    <3>3. QED
      BY <1>2, <1>6, <2>8, <2>9, <3>1, <3>2 DEF TablesStep
  <2>17. QED
    BY <2>12, <2>13, <2>15, <2>16, StepKeepsMarket
<1>8. CASE ~UniqueCloses(stored)
  <2>1. fetch' = [fetch EXCEPT ![f] = [st |-> "failed"]] /\ UNCHANGED history
    BY <1>1, <1>8 DEF StoreClose, CloseToStore, CloseOf
  <2>2. PICK q : q = [st |-> "failed"]
    OBVIOUS
  <2>3. q \in Request /\ q.st = "failed" /\ Turns(fetch, fetch', f, q)
    BY <2>1, <2>2 DEF Request, Turns
  <2>4. RequestOK(q, f \in overtaken', latest', history', clock')
    BY <2>3 DEF RequestOK
  <2>5. TablesStep(f)
    BY <1>2, <1>6, <2>1, TablesAlone
  <2>6. QED
    BY <2>3, <2>4, <2>5, StepKeepsMarket
<1>9. QED
  BY <1>7, <1>8

\* Before the first fetch there is no row and nothing was promised.
LEMMA MarketInitInv == MarketInit => MarketInv
<1>1. SUFFICES ASSUME MarketInit PROVE MarketInv
  OBVIOUS
<1>2. \A f \in Fetches : fetch[f] = [st |-> "new"]
  BY <1>1 DEF MarketInit
<1>3. fetch \in [Fetches -> Request]
  BY <1>1 DEF MarketInit, Request
<1>4. \A f \in Fetches : RequestOK(fetch[f], f \in overtaken, latest, history, clock)
  BY <1>2 DEF RequestOK
<1>5. QED
  BY <1>1, <1>3, <1>4 DEF MarketInit, MarketInv, TableOK

\* Every step of the market prices keeps the invariant.
LEMMA MarketStep ==
    ASSUME OneIsinPerTicker, MarketInv, [MarketNext]_marketVars PROVE MarketInv'
<1>1. CASE MarketNext
  <2>1. PICK f \in Fetches :
          \/ AskLatest(f) \/ FindLatest(f) \/ StoreLatest(f) \/ AskHistory(f)
          \/ FindClose(f) \/ StoreClose(f) \/ FailFetch(f)
    BY <1>1 DEF MarketNext
  <2>2. QED
    BY <2>1, AskLatestKeeps, FindLatestKeeps, StoreLatestKeeps, AskHistoryKeeps,
       FindCloseKeeps, StoreCloseKeeps, FailFetchKeeps
<1>2. CASE UNCHANGED marketVars
  BY <1>2 DEF marketVars, MarketInv
<1>3. QED
  BY <1>1, <1>2

\* The stored prices keep to their invariant, whatever the fetches that overlap, as
\* long as no ticker is asked for with two ISINs.
THEOREM MarketInvariant == MarketSpec => [](OneIsinPerTicker => MarketInv)
<1>1. MarketInit => (OneIsinPerTicker => MarketInv)
  BY MarketInitInv
<1>2. (OneIsinPerTicker => MarketInv) /\ [MarketNext]_marketVars
        => (OneIsinPerTicker => MarketInv)'
  <2>1. OneIsinPerTicker' <=> OneIsinPerTicker
    BY DEF OneIsinPerTicker
  <2>2. QED
    BY <2>1, MarketStep
<1>3. QED
  BY <1>1, <1>2, PTL DEF MarketSpec

\* Every day of a history fetch that ended well has a close that is found under the
\* instrument, whatever other fetches wrote to the row.
THEOREM FetchedDaysStay == MarketSpec => []FetchedDaysAreServed
<1>1. (OneIsinPerTicker => MarketInv) => FetchedDaysAreServed
  <2>1. SUFFICES ASSUME OneIsinPerTicker, MarketInv, NEW f \in Fetches,
                        fetch[f].st = "fetched", fetch[f].instrument.isin # None,
                        NEW d \in fetch[f].days
                 PROVE  \E row \in Shown(history, fetch[f].instrument) : row.date = d
    BY DEF FetchedDaysAreServed
  <2>2. DaysOK(fetch[f], history)
    BY <2>1 DEF MarketInv, RequestOK
  <2>3. Served(history, fetch[f].instrument, d)
    BY <2>1, <2>2 DEF DaysOK
  <2>4. PICK row \in history : row.date = d /\ row.isin = fetch[f].instrument.isin
    BY <2>1, <2>3 DEF Served
  <2>5. row \in Shown(history, fetch[f].instrument)
    BY <2>1, <2>4 DEF Shown, MatchesPrice
  <2>6. QED
    BY <2>4, <2>5
<1>2. QED
  BY <1>1, MarketInvariant, PTL

\* Of the rows an instrument shows, the newest is one, and no other is newer.
LEMMA ShownNewest ==
    ASSUME NEW T, TableOK(T), NEW bound \in Nat, \A a \in T : a.date <= bound,
           NEW i \in Instruments, Shown(T, i) # {}
    PROVE  /\ Newest(Shown(T, i)) \in Shown(T, i)
           /\ \A a \in Shown(T, i) : a.date <= Newest(Shown(T, i)).date
<1>1. Shown(T, i) \in SUBSET T
  BY DEF Shown
<1>2. QED
  BY <1>1, NewestOf

\* A fetch that nothing overtook writes a price newer than all to the row it is shown
\* with; that row stays with the instrument or is given away.
LEMMA FreshStoreIsNewer ==
    ASSUME OneIsinPerTicker, MarketInv, MarketInv', NEW f \in Fetches, StoreLatest(f),
           f \notin overtaken, NEW i \in Instruments, GoesBack(i)
    PROVE  GivesAway(i, Newest(Shown(latest, i)))
<1>1. PICK row, seen : row = fetch[f].row /\ seen = fetch[f].seen
  OBVIOUS
<1>2. PICK L, L2 : L = latest /\ L2 = latest'
  OBVIOUS
<1>3. fetch[f].st = "latest" /\ L2 = Upsert(L, seen, row)
  BY <1>1, <1>2 DEF StoreLatest
<1>4. /\ fetch[f] \in Request /\ TableOK(L) /\ TableOK(L2)
      /\ RequestOK(fetch[f], f \in overtaken, latest, history, clock)
      /\ \A a \in L : Sound(a)
  BY <1>2 DEF MarketInv
<1>5. /\ row \in Answer /\ seen \in Row \cup {None}
      /\ AnswerOK(fetch[f], f \in overtaken, latest, clock)
      /\ LatestOK(fetch[f], f \in overtaken, latest)
  BY <1>1, <1>3, <1>4 DEF Request, RequestOK
<1>6. /\ \A a \in L : a.date < row.date
      /\ seen # None => seen \in L /\ MatchesPrice(seen, KeyOf(row))
      /\ \E j \in Instruments : About(row, j)
  BY <1>1, <1>2, <1>5 DEF AnswerOK, LatestOK, FoundIn
<1>7. PICK N, N2 : N = Newest(Shown(L, i)) /\ N2 = Newest(Shown(L2, i))
  OBVIOUS
<1>8. Shown(L, i) # {} /\ Shown(L2, i) # {} /\ N2.date < N.date
  BY <1>2, <1>7 DEF GoesBack
<1>9. N \in Shown(L, i)
  <2>1. clock \in Nat /\ \A a \in L : a.date <= clock
    BY <1>2 DEF MarketInv
  <2>2. QED
    BY <1>4, <1>7, <1>8, <2>1, ShownNewest
<1>10. N2 \in Shown(L2, i) /\ \A a \in Shown(L2, i) : a.date <= N2.date
  <2>1. clock' \in Nat /\ \A a \in L2 : a.date <= clock'
    BY <1>2 DEF MarketInv
  <2>2. PICK now : now = clock'
    OBVIOUS
  <2>3. QED
    BY <1>4, <1>7, <1>8, <2>1, <2>2, ShownNewest
<1>11. N \in Row /\ N \in L /\ MatchesPrice(N, <<i.ticker, i.isin>>)
  BY <1>4, <1>9 DEF Shown, TableOK
<1>12. \A a \in Shown(L2, i) : a.date \in Nat /\ ~(N.date <= a.date)
  <2>1. \A a \in Shown(L2, i) : a.date \in Nat
    BY <1>4 DEF Shown, TableOK, Row
  <2>2. N.date \in Nat /\ N2.date \in Nat
    BY <1>10, <1>11, <2>1 DEF Row
  <2>3. QED
    BY <1>8, <1>10, <2>1, <2>2
<1>13. N \notin L2
  <2>1. N.date <= N.date
    BY <1>11 DEF Row
  <2>2. QED
    BY <1>11, <1>12, <2>1 DEF Shown
<1>14. seen # None
  <2>1. SUFFICES ASSUME seen = None PROVE FALSE
    OBVIOUS
  <2>2. L2 = L \cup {RowAdded(L, row)}
    BY <1>3, <1>4, <1>5, <2>1, InsertAdds DEF Upsert
  <2>3. QED
    BY <1>11, <1>13, <2>2
<1>15. seen \in Row /\ L2 = Update(L, seen, row)
  BY <1>3, <1>5, <1>14 DEF Upsert
<1>16. N = seen
  <2>1. \A a \in L : a.id # seen.id => a \in L2
    BY <1>4, <1>5, <1>15, UpdateChanges
  <2>2. N.id = seen.id
    BY <1>11, <1>13, <2>1
  <2>3. QED
    BY <1>4, <1>6, <1>11, <1>14, <2>2 DEF TableOK
<1>17. PICK M : M = Merged(seen, seen, row)
  OBVIOUS
<1>18. M \in L2
  <2>1. \A a \in L : a.id = seen.id => Merged(a, seen, row) \in L2
    BY <1>4, <1>5, <1>15, UpdateChanges
  <2>2. QED
    BY <1>6, <1>14, <1>17, <2>1
<1>19. /\ M.ticker = row.ticker
       /\ M.isin = IF row.isin = None THEN seen.isin ELSE row.isin
       /\ M.date = row.date
  BY <1>5, <1>15, <1>17, MergedRow
<1>20. ~MatchesPrice(M, <<i.ticker, i.isin>>)
  <2>1. N.date <= row.date
    BY <1>5, <1>6, <1>11 DEF Answer, Row
  <2>2. QED
    BY <1>12, <1>18, <1>19, <2>1 DEF Shown
<1>21. PICK j \in Instruments : row.ticker = j.ticker /\ row.isin = j.isin
  BY <1>6 DEF About
<1>22. i.ticker # None /\ j.ticker # None
  BY MarketAssumption DEF Tickers
<1>23. j.ticker # i.ticker
  BY <1>19, <1>20, <1>21, <1>22 DEF MatchesPrice
<1>24. Sound(seen) /\ MatchesPrice(seen, KeyOf(row))
  BY <1>4, <1>6, <1>14
<1>25. CASE seen.ticker = i.ticker
  <2>1. row.isin # None /\ seen.isin = row.isin
    BY <1>21, <1>22, <1>23, <1>24, <1>25 DEF MatchesPrice, KeyOf
  <2>2. i.isin \in {None, seen.isin}
    BY <1>24, <1>25, <2>1 DEF Sound, IsinOf
  <2>3. i.isin = None
    BY <1>19, <1>20, <2>1, <2>2 DEF MatchesPrice
  <2>4. QED
    BY <1>2, <1>7, <1>16, <1>21, <1>23, <2>1, <2>3 DEF GivesAway
<1>26. CASE seen.ticker # i.ticker
  <2>1. i.isin # None /\ seen.isin = i.isin
    BY <1>11, <1>16, <1>26 DEF MatchesPrice
  <2>2. M.isin # seen.isin
    BY <1>20, <2>1 DEF MatchesPrice
  <2>3. row.isin # None /\ row.isin # seen.isin
    BY <1>19, <2>2
  <2>4. seen.ticker = row.ticker
    BY <1>24, <2>3 DEF MatchesPrice, KeyOf
  <2>5. QED
    BY <1>21, <1>24, <2>1, <2>3, <2>4 DEF Sound, IsinOf
<1>27. QED
  BY <1>25, <1>26

\* Between two fetches that do not overlap, a newer price never gives way to an
\* older one: for an instrument asked for with its ISIN, whatever rows it shares.
THEOREM PricesGoForward == MarketSpec => PricesGoBackOnlyWhenOverlapping
<1> DEFINE Step == OneIsinPerTicker =>
         \A i \in Instruments :
            GoesBack(i) => \/ \E f \in overtaken : Stores(f)
                           \/ GivesAway(i, Newest(Shown(latest, i)))
<1>1. ASSUME OneIsinPerTicker => MarketInv, (OneIsinPerTicker => MarketInv)',
             [MarketNext]_marketVars
      PROVE  [Step]_marketVars
  <2>1. SUFFICES ASSUME OneIsinPerTicker, NEW i \in Instruments, GoesBack(i)
                 PROVE  \/ \E f \in overtaken : Stores(f)
                        \/ GivesAway(i, Newest(Shown(latest, i)))
    BY Zenon
  <2>2. MarketInv /\ MarketInv'
    <3>1. OneIsinPerTicker'
      BY <2>1 DEF OneIsinPerTicker
    <3>2. QED
      BY <1>1, <2>1, <3>1
  <2>3. latest' # latest
    <3>1. SUFFICES ASSUME latest' = latest PROVE FALSE
      OBVIOUS
    <3>2. PICK N : N = Newest(Shown(latest, i))
      OBVIOUS
    <3>3. N.date < N.date /\ Shown(latest, i) # {}
      BY <2>1, <3>1, <3>2 DEF GoesBack
    <3>4. TableOK(latest) /\ clock \in Nat /\ \A a \in latest : a.date <= clock
      BY <2>2 DEF MarketInv
    <3>5. N \in Shown(latest, i)
      BY <3>2, <3>3, <3>4, ShownNewest
    <3>6. N.date \in Nat
      BY <3>4, <3>5 DEF Shown, TableOK, Row
    <3>7. QED
      BY <3>3, <3>6
  <2>4. PICK f \in Fetches : StoreLatest(f)
    <3>1. MarketNext
      BY <1>1, <2>3 DEF marketVars
    <3>2. PICK f \in Fetches :
            \/ AskLatest(f) \/ FindLatest(f) \/ StoreLatest(f) \/ AskHistory(f)
            \/ FindClose(f) \/ StoreClose(f) \/ FailFetch(f)
      BY <3>1 DEF MarketNext
    <3>3. StoreLatest(f)
      BY <2>3, <3>2 DEF AskLatest, FindLatest, AskHistory, FindClose, StoreClose, FailFetch
    <3>4. QED
      BY <3>3
  <2>5. CASE f \in overtaken
    <3>1. Stores(f)
      BY <2>2, <2>4 DEF StoreLatest, Stores, MarketInv
    <3>2. QED
      BY <2>5, <3>1
  <2>6. CASE f \notin overtaken
    BY <2>1, <2>2, <2>4, <2>6, FreshStoreIsNewer
  <2>7. QED
    BY <2>5, <2>6
<1>2. QED
  BY <1>1, MarketInvariant, PTL DEF MarketSpec, PricesGoBackOnlyWhenOverlapping

-----------------------------------------------------------------------------
(* Events and closes in their order                                        *)

\* Of some subsets of a finite set, one has no other below it.
LEMMA LeastPart ==
    ASSUME NEW S, IsFiniteSet(S), NEW Bad \in SUBSET SUBSET S, Bad # {}
    PROVE  \E T \in Bad : \A U \in Bad : U \subseteq T => U = T
<1>1. IsWellFoundedOn(StrictSubsetOrdering(S), SUBSET S)
  BY FS_StrictSubsetOrderingWellFounded, FS_FiniteSubsetsOfFinite
<1>2. PICK T \in Bad : \A U \in Bad : ~(<<U, T>> \in StrictSubsetOrdering(S))
  BY <1>1, WFMin, Zenon
<1>3. QED
  BY <1>2 DEF StrictSubsetOrdering

\* Rows that a day and an id put in an order without ties.
Book(S) ==
    /\ IsFiniteSet(S)
    /\ \A a \in S : /\ a.id \in Nat /\ a.date \in Nat
                    /\ \A b \in S : a.id = b.id => a = b

\* A part of a book is a book.
LEMMA PartOfBook ==
    ASSUME NEW S, Book(S), NEW T \in SUBSET S
    PROVE  Book(T)
BY FS_Subset DEF Book

\* e comes last of S.
IsLast(S, e) == e \in S /\ \A other \in S \ {e} : Earlier(other, e)

\* Such rows have a last one.
LEMMA LastExists ==
    ASSUME NEW S, Book(S), S # {}
    PROVE  \E e : IsLast(S, e)
<1> DEFINE Bad == {T \in SUBSET S : T # {} /\ ~ \E e : IsLast(T, e)}
<1> SUFFICES ASSUME Bad # {} PROVE FALSE
  OBVIOUS
<1>1. PICK T \in Bad : \A U \in Bad : U \subseteq T => U = T
  <2>1. Bad \in SUBSET SUBSET S /\ IsFiniteSet(S)
    BY DEF Book
  <2> HIDE DEF Bad
  <2>2. QED
    BY <2>1, LeastPart
<1>2. PICK x \in T : TRUE
  OBVIOUS
<1>3. T \ {x} # {}
  <2>1. SUFFICES ASSUME T = {x} PROVE FALSE
    BY <1>2
  <2>2. IsLast(T, x)
    BY <2>1 DEF IsLast
  <2>3. QED
    BY <2>2
<1>4. T \ {x} \notin Bad /\ T \ {x} \in SUBSET S
  BY <1>1, <1>2
<1>5. PICK y : IsLast(T \ {x}, y)
  BY <1>3, <1>4
<1>6. \A a \in S : a.id \in Nat /\ a.date \in Nat
  BY DEF Book
<1>7. x \in S /\ y \in S /\ x # y /\ y \in T
  BY <1>2, <1>5 DEF IsLast
<1>8. Earlier(x, y) \/ Earlier(y, x)
  <2>1. x.id # y.id
    BY <1>7 DEF Book
  <2>2. QED
    BY <1>6, <1>7, <2>1 DEF Earlier
<1>9. CASE Earlier(x, y)
  <2>1. IsLast(T, y)
    BY <1>5, <1>7, <1>9 DEF IsLast
  <2>2. QED
    BY <2>1
<1>10. CASE Earlier(y, x)
  <2>1. ASSUME NEW other \in T \ {x} PROVE Earlier(other, x)
    <3>1. CASE other = y
      BY <1>10, <3>1
    <3>2. CASE other # y
      <4>1. Earlier(other, y) /\ other \in S
        BY <1>5, <3>2 DEF IsLast
      <4>2. QED
        BY <1>6, <1>7, <1>10, <4>1 DEF Earlier
    <3>3. QED
      BY <3>1, <3>2
  <2>2. IsLast(T, x)
    BY <1>2, <2>1 DEF IsLast
  <2>3. QED
    BY <2>2
<1>11. QED
  BY <1>8, <1>9, <1>10

\* Newest is that row, and no other row is.
LEMMA NewestIsLast ==
    ASSUME NEW S, Book(S), S # {}
    PROVE  /\ Newest(S) \in S
           /\ \A other \in S \ {Newest(S)} : Earlier(other, Newest(S))
           /\ \A e : IsLast(S, e) => e = Newest(S)
<1>1. PICK e : IsLast(S, e)
  BY LastExists
<1>2. \E x \in S : \A other \in S \ {x} : Earlier(other, x)
  BY <1>1 DEF IsLast
<1>3. /\ Newest(S) \in S
      /\ \A other \in S \ {Newest(S)} : Earlier(other, Newest(S))
  BY <1>2 DEF Newest
<1>4. ASSUME NEW x, IsLast(S, x) PROVE x = Newest(S)
  <2>1. SUFFICES ASSUME x # Newest(S) PROVE FALSE
    OBVIOUS
  <2>2. x \in S /\ Earlier(x, Newest(S)) /\ Earlier(Newest(S), x)
    BY <1>3, <1>4, <2>1 DEF IsLast
  <2>3. x.id \in Nat /\ x.date \in Nat /\ Newest(S).id \in Nat /\ Newest(S).date \in Nat
    BY <1>3, <2>2 DEF Book
  <2>4. QED
    BY <2>2, <2>3 DEF Earlier
<1>5. QED
  BY <1>3, <1>4

-----------------------------------------------------------------------------
(* Folding a finite set, one element after the other                       *)

\* pick takes an element of each part of S.
Picks(S, pick) == \A s \in SUBSET S : s # {} => pick[s] \in s

\* g folds the parts of S into V with F, whose arguments are the element picked and
\* what the others fold into.
Folds(S, V, F, base, pick, g) ==
    /\ g \in [SUBSET S -> V]
    /\ \A s \in SUBSET S :
          g[s] = IF s = {} THEN base ELSE F[<<pick[s], g[s \ {pick[s]}]>>]

\* Two such functions agree where both are defined.
LEMMA FoldsUnique ==
    ASSUME NEW T, IsFiniteSet(T), NEW S \in SUBSET T, NEW pick, Picks(T, pick),
           NEW V, NEW F, NEW base, NEW g, NEW h,
           Folds(S, V, F, base, pick, g), Folds(T, V, F, base, pick, h)
    PROVE  \A s \in SUBSET S : g[s] = h[s]
<1> DEFINE Bad == {s \in SUBSET S : g[s] # h[s]}
<1> SUFFICES ASSUME Bad # {} PROVE FALSE
  OBVIOUS
<1>1. PICK s \in Bad : \A u \in Bad : u \subseteq s => u = s
  <2>1. Bad \in SUBSET SUBSET S
    OBVIOUS
  <2>2. IsFiniteSet(S)
    BY FS_Subset
  <2> HIDE DEF Bad
  <2>3. QED
    BY <2>1, <2>2, LeastPart
<1>2. s # {} /\ s \in SUBSET T /\ s \in SUBSET S
  BY DEF Folds
<1>3. pick[s] \in s
  BY <1>2 DEF Picks
<1>4. s \ {pick[s]} \in SUBSET S /\ s \ {pick[s]} \notin Bad
  BY <1>1, <1>3
<1>5. g[s \ {pick[s]}] = h[s \ {pick[s]}]
  BY <1>4
<1>6. QED
  BY <1>2, <1>5 DEF Folds

\* There is one: were T a least part without, the folds of the parts strictly in
\* it would make one for it.
LEMMA FoldsExist ==
    ASSUME NEW S, IsFiniteSet(S), NEW pick, Picks(S, pick), NEW V, NEW base \in V,
           NEW F, \A x \in S : \A v \in V : F[<<x, v>>] \in V
    PROVE  \E g : Folds(S, V, F, base, pick, g)
<1> DEFINE Bad == {T \in SUBSET S : ~ \E g : Folds(T, V, F, base, pick, g)}
<1> SUFFICES ASSUME Bad # {} PROVE FALSE
  OBVIOUS
<1>1. PICK T \in Bad : \A U \in Bad : U \subseteq T => U = T
  <2>1. Bad \in SUBSET SUBSET S
    OBVIOUS
  <2> HIDE DEF Bad
  <2>2. QED
    BY <2>1, LeastPart
<1>2. \A U \in SUBSET T : IsFiniteSet(U) /\ Picks(U, pick)
  BY FS_Subset DEF Picks
<1> DEFINE Of(U) == CHOOSE g : Folds(U, V, F, base, pick, g)
           Rest(s) == s \ {pick[s]}
           h == [s \in SUBSET T |-> IF s = {} THEN base
                                    ELSE F[<<pick[s], Of(Rest(s))[Rest(s)]>>]]
<1>3. ASSUME NEW s \in SUBSET T, s # {}
      PROVE  pick[s] \in s /\ Rest(s) \in SUBSET T /\ Rest(s) # T
  <2>1. pick[s] \in s
    BY <1>3 DEF Picks
  <2>2. QED
    BY <2>1
<1>4. ASSUME NEW U \in SUBSET T, U # T
      PROVE  Folds(U, V, F, base, pick, Of(U))
  <2>1. U \notin Bad
    BY <1>1, <1>4
  <2>2. QED
    BY <2>1
<1>5. ASSUME NEW v \in SUBSET T, v # T
      PROVE  h[v] = Of(v)[v]
  <2>1. Folds(v, V, F, base, pick, Of(v))
    BY <1>4, <1>5
  <2>2. CASE v = {}
    BY <2>1, <2>2 DEF Folds
  <2>3. CASE v # {}
    <3>1. Folds(Rest(v), V, F, base, pick, Of(Rest(v)))
      BY <1>3, <1>4, <2>3
    <3>2. Rest(v) \in SUBSET v /\ IsFiniteSet(v) /\ Picks(v, pick)
      BY <1>2
    <3> HIDE DEF Of, Rest
    <3>3. Of(Rest(v))[Rest(v)] = Of(v)[Rest(v)]
      BY <2>1, <3>1, <3>2, FoldsUnique
    <3>4. Of(v)[v] = F[<<pick[v], Of(v)[Rest(v)]>>]
      BY <2>1, <2>3 DEF Folds, Rest
    <3>5. QED
      BY <2>3, <3>3, <3>4
  <2>4. QED
    BY <2>2, <2>3
<1>6. ASSUME NEW s \in SUBSET T, s # {}
      PROVE  /\ h[s] = F[<<pick[s], h[Rest(s)]>>]
             /\ h[s] \in V
  <2>1. h[Rest(s)] = Of(Rest(s))[Rest(s)]
    BY <1>3, <1>5, <1>6
  <2>2. Of(Rest(s))[Rest(s)] \in V
    <3>1. Folds(Rest(s), V, F, base, pick, Of(Rest(s)))
      BY <1>3, <1>4, <1>6
    <3> HIDE DEF Of, Rest
    <3>2. QED
      BY <3>1 DEF Folds
  <2>3. pick[s] \in S
    BY <1>3, <1>6
  <2>4. F[<<pick[s], Of(Rest(s))[Rest(s)]>>] \in V
    BY <2>2, <2>3
  <2>5. QED
    BY <1>6, <2>1, <2>4
<1>7. Folds(T, V, F, base, pick, h)
  <2>1. h \in [SUBSET T -> V]
    <3>1. ASSUME NEW s \in SUBSET T PROVE h[s] \in V
      <4>1. CASE s = {}
        BY <4>1
      <4>2. CASE s # {}
        BY <1>6, <4>2
      <4>3. QED
        BY <4>1, <4>2
    <3>2. h = [s \in SUBSET T |-> h[s]]
      OBVIOUS
    <3> HIDE DEF h
    <3>3. QED
      BY <3>1, <3>2
  <2>2. h[{}] = base
    OBVIOUS
  <2> HIDE DEF h
  <2>3. QED
    BY <1>6, <2>1, <2>2 DEF Folds
<1>8. QED
  BY <1>1, <1>7

-----------------------------------------------------------------------------
(* Sums                                                                    *)

Element(s) == CHOOSE x \in s : TRUE

AnyElement(S) == [s \in SUBSET S |-> Element(s)]

AddValue(f, S) == [p \in S \X Int |-> f[p[1]] + p[2]]

\* The sum over a part of S is what such a fold gives it.
LEMMA SumIs ==
    ASSUME NEW S, IsFiniteSet(S), NEW f, \A x \in S : f[x] \in Int,
           NEW g, Folds(S, Int, AddValue(f, S), 0, AnyElement(S), g), NEW T \in SUBSET S
    PROVE  SumFunctionOnSet(f, T) = g[T]
<1> DEFINE Body(h) == [s \in SUBSET T |->
                          IF s = {} THEN 0
                          ELSE LET x == CHOOSE x \in s : TRUE IN f[x] + h[s \ {x}]]
           iter == CHOOSE h : h = Body(h)
           part == [s \in SUBSET T |-> g[s]]
<1>1. SumFunctionOnSet(f, T) = iter[T]
  BY DEF SumFunctionOnSet, FoldFunctionOnSet, MapThenFoldSet
<1>2. ASSUME NEW s \in SUBSET T
      PROVE  g[s] = IF s = {} THEN 0 ELSE f[Element(s)] + g[s \ {Element(s)}]
  <2>1. CASE s = {}
    BY <2>1 DEF Folds
  <2>2. CASE s # {}
    <3>1. Element(s) \in s /\ Element(s) \in S /\ AnyElement(S)[s] = Element(s)
      BY <2>2 DEF Element, AnyElement
    <3>2. g[s \ {Element(s)}] \in Int
      BY <3>1 DEF Folds
    <3>3. g[s] = AddValue(f, S)[<<Element(s), g[s \ {Element(s)}]>>]
      BY <2>2, <3>1 DEF Folds
    <3>4. QED
      BY <2>2, <3>1, <3>2, <3>3 DEF AddValue
  <2>3. QED
    BY <2>1, <2>2
<1>3. part = Body(part)
  BY <1>2 DEF Element
<1>4. iter = Body(iter)
  <2> HIDE DEF Body, part
  <2>1. QED
    BY <1>3
<1>5. ASSUME NEW s \in SUBSET T
      PROVE  iter[s] = IF s = {} THEN 0 ELSE f[Element(s)] + iter[s \ {Element(s)}]
  BY <1>4 DEF Element
<1> HIDE DEF iter
<1>6. \A s \in SUBSET T : iter[s] = g[s]
  <2> DEFINE Bad == {s \in SUBSET T : iter[s] # g[s]}
  <2> SUFFICES ASSUME Bad # {} PROVE FALSE
    OBVIOUS
  <2>1. PICK s \in Bad : \A u \in Bad : u \subseteq s => u = s
    <3>1. Bad \in SUBSET SUBSET S
      OBVIOUS
    <3> HIDE DEF Bad
    <3>2. QED
      BY <3>1, LeastPart
  <2>2. s # {}
    BY <1>2, <1>5
  <2>3. Element(s) \in s
    BY <2>2 DEF Element
  <2>4. s \ {Element(s)} \in SUBSET T /\ s \ {Element(s)} \notin Bad
    BY <2>1, <2>3
  <2>5. QED
    BY <1>2, <1>5, <2>2, <2>4
<1>7. QED
  BY <1>1, <1>6

\* The sum is an integer; it is zero over the empty set, and any element may be
\* taken out first.
LEMMA SumUnfold ==
    ASSUME NEW S, IsFiniteSet(S), NEW f, \A x \in S : f[x] \in Int
    PROVE  /\ SumFunctionOnSet(f, S) \in Int
           /\ S = {} => SumFunctionOnSet(f, S) = 0
           /\ \A x \in S : SumFunctionOnSet(f, S) = f[x] + SumFunctionOnSet(f, S \ {x})
<1>1. PICK g : Folds(S, Int, AddValue(f, S), 0, AnyElement(S), g)
  <2>1. Picks(S, AnyElement(S))
    BY DEF Picks, AnyElement, Element
  <2>2. \A x \in S : \A v \in Int : AddValue(f, S)[<<x, v>>] \in Int
    BY DEF AddValue
  <2>3. 0 \in Int
    OBVIOUS
  <2>4. QED
    BY <2>1, <2>2, <2>3, FoldsExist
<1>2. ASSUME NEW T \in SUBSET S
      PROVE  SumFunctionOnSet(f, T) = g[T] /\ g[T] \in Int
  <2>1. SumFunctionOnSet(f, T) = g[T]
    BY <1>1, SumIs
  <2>2. g[T] \in Int
    BY <1>1 DEF Folds
  <2>3. QED
    BY <2>1, <2>2
<1>3. S = {} => g[S] = 0
  BY <1>1 DEF Folds
<1> DEFINE Bad == {T \in SUBSET S : \E x \in T : g[T] # f[x] + g[T \ {x}]}
<1>4. Bad = {}
  <2> SUFFICES ASSUME Bad # {} PROVE FALSE
    OBVIOUS
  <2>1. PICK T \in Bad : \A U \in Bad : U \subseteq T => U = T
    <3>1. Bad \in SUBSET SUBSET S
      OBVIOUS
    <3> HIDE DEF Bad
    <3>2. QED
      BY <3>1, LeastPart
  <2>2. PICK x \in T : g[T] # f[x] + g[T \ {x}]
    OBVIOUS
  <2> DEFINE y == Element(T)
  <2>3. y \in T /\ y \in S /\ AnyElement(S)[T] = y
    BY DEF Element, AnyElement
  <2>4. g[T] = f[y] + g[T \ {y}]
    <3>1. g[T] = AddValue(f, S)[<<y, g[T \ {y}]>>]
      BY <1>1, <2>3 DEF Folds
    <3>2. g[T \ {y}] \in Int
      BY <1>2
    <3>3. QED
      BY <2>3, <3>1, <3>2 DEF AddValue
  <2>5. x # y
    BY <2>2, <2>4
  <2> HIDE DEF y
  <2>6. T \ {y} \in SUBSET S /\ T \ {y} \notin Bad
    BY <2>1, <2>3
  <2>7. T \ {x} \in SUBSET S /\ T \ {x} \notin Bad
    BY <2>1, <2>2
  <2>8. g[T \ {y}] = f[x] + g[(T \ {y}) \ {x}]
    BY <2>5, <2>6
  <2>9. g[T \ {x}] = f[y] + g[(T \ {x}) \ {y}]
    BY <2>3, <2>5, <2>7
  <2>10. (T \ {y}) \ {x} = (T \ {x}) \ {y} /\ (T \ {x}) \ {y} \in SUBSET S
    OBVIOUS
  <2>11. f[x] \in Int /\ f[y] \in Int /\ g[(T \ {x}) \ {y}] \in Int
    BY <1>2, <2>3, <2>10
  <2> DEFINE r == g[(T \ {x}) \ {y}]
  <2>12. r \in Int /\ g[T] = f[y] + (f[x] + r) /\ g[T] # f[x] + (f[y] + r)
    BY <2>2, <2>4, <2>8, <2>9, <2>10, <2>11
  <2> HIDE DEF r
  <2>13. QED
    BY <2>11, <2>12
<1>5. ASSUME NEW x \in S
      PROVE  SumFunctionOnSet(f, S) = f[x] + SumFunctionOnSet(f, S \ {x})
  <2>1. g[S] = f[x] + g[S \ {x}]
    BY <1>4
  <2>2. QED
    BY <1>2, <2>1
<1>6. QED
  BY <1>2, <1>3, <1>5

\* Functions that agree on S have the same sum over it.
LEMMA SumAgrees ==
    ASSUME NEW S, IsFiniteSet(S), NEW f, NEW g,
           \A x \in S : f[x] \in Int /\ g[x] = f[x]
    PROVE  SumFunctionOnSet(g, S) = SumFunctionOnSet(f, S)
<1> DEFINE Bad == {T \in SUBSET S : SumFunctionOnSet(g, T) # SumFunctionOnSet(f, T)}
<1> SUFFICES ASSUME Bad # {} PROVE FALSE
  OBVIOUS
<1>1. PICK T \in Bad : \A U \in Bad : U \subseteq T => U = T
  <2>1. Bad \in SUBSET SUBSET S
    OBVIOUS
  <2> HIDE DEF Bad
  <2>2. QED
    BY <2>1, LeastPart
<1>2. IsFiniteSet(T) /\ \A x \in T : f[x] \in Int /\ g[x] \in Int /\ g[x] = f[x]
  BY FS_Subset
<1>3. T # {}
  BY <1>2, SumUnfold
<1>4. PICK x \in T : TRUE
  BY <1>3
<1>5. T \ {x} \notin Bad /\ T \ {x} \in SUBSET S
  BY <1>1, <1>4
<1>6. /\ SumFunctionOnSet(f, T) = f[x] + SumFunctionOnSet(f, T \ {x})
      /\ SumFunctionOnSet(g, T) = g[x] + SumFunctionOnSet(g, T \ {x})
  BY <1>2, <1>4, SumUnfold
<1>7. QED
  BY <1>2, <1>4, <1>5, <1>6

\* The sum over two sets without a common element is the sum of the two.
LEMMA SumUnion ==
    ASSUME NEW A, NEW B, IsFiniteSet(A), IsFiniteSet(B), A \cap B = {},
           NEW f, \A x \in A \cup B : f[x] \in Int
    PROVE  SumFunctionOnSet(f, A \cup B) = SumFunctionOnSet(f, A) + SumFunctionOnSet(f, B)
<1> DEFINE Bad == {T \in SUBSET B : SumFunctionOnSet(f, A \cup T)
                                      # SumFunctionOnSet(f, A) + SumFunctionOnSet(f, T)}
<1> SUFFICES ASSUME Bad # {} PROVE FALSE
  OBVIOUS
<1>1. PICK T \in Bad : \A U \in Bad : U \subseteq T => U = T
  <2>1. Bad \in SUBSET SUBSET B
    OBVIOUS
  <2> HIDE DEF Bad
  <2>2. QED
    BY <2>1, LeastPart
<1>2. /\ IsFiniteSet(T) /\ IsFiniteSet(A \cup T)
      /\ \A x \in T : f[x] \in Int
      /\ \A x \in A \cup T : f[x] \in Int
  BY FS_Subset, FS_Union
<1>3. SumFunctionOnSet(f, A) \in Int
  BY SumUnfold
<1>4. T # {}
  <2>1. SUFFICES ASSUME T = {} PROVE FALSE
    OBVIOUS
  <2>2. SumFunctionOnSet(f, T) = 0
    BY <1>2, <2>1, SumUnfold
  <2>3. A \cup T = A
    BY <2>1
  <2>4. SumFunctionOnSet(f, A \cup T) = SumFunctionOnSet(f, A)
    BY <2>3, Zenon
  <2>5. SumFunctionOnSet(f, A \cup T) # SumFunctionOnSet(f, A) + SumFunctionOnSet(f, T)
    OBVIOUS
  <2> HIDE DEF Bad
  <2>6. QED
    BY <1>3, <2>2, <2>4, <2>5
<1>5. PICK x \in T : TRUE
  BY <1>4
<1>6. T \ {x} \notin Bad /\ T \ {x} \in SUBSET B /\ (A \cup T) \ {x} = A \cup (T \ {x})
  BY <1>1, <1>5
<1>7. SumFunctionOnSet(f, T \ {x}) \in Int
  <2>1. IsFiniteSet(T \ {x})
    BY <1>2, FS_Subset
  <2>2. QED
    BY <1>2, <2>1, SumUnfold
<1>8. SumFunctionOnSet(f, T) = f[x] + SumFunctionOnSet(f, T \ {x})
  BY <1>2, <1>5, SumUnfold
<1>8a. SumFunctionOnSet(f, A \cup T) = f[x] + SumFunctionOnSet(f, A \cup (T \ {x}))
  <2>1. x \in A \cup T
    BY <1>5
  <2>2. SumFunctionOnSet(f, A \cup T) = f[x] + SumFunctionOnSet(f, (A \cup T) \ {x})
    BY <1>2, <2>1, SumUnfold
  <2>3. QED
    BY <1>6, <2>2
<1>9. f[x] \in Int
  BY <1>2, <1>5
<1>10. QED
  BY <1>3, <1>6, <1>7, <1>8, <1>8a, <1>9

\* Nor does it matter into how many parts of which no two share an element.
LEMMA SumParts ==
    ASSUME NEW S, IsFiniteSet(S), NEW f, \A x \in S : f[x] \in Int,
           NEW C, IsFiniteSet(C), NEW part \in [C -> SUBSET S],
           \A c, other \in C : c # other => part[c] \cap part[other] = {},
           NEW q, \A c \in C : q[c] = SumFunctionOnSet(f, part[c])
    PROVE  SumFunctionOnSet(q, C) = SumFunctionOnSet(f, UNION {part[c] : c \in C})
<1> DEFINE All(D) == UNION {part[c] : c \in D}
           Bad == {D \in SUBSET C : SumFunctionOnSet(q, D) # SumFunctionOnSet(f, All(D))}
<1> SUFFICES ASSUME Bad # {} PROVE FALSE
  OBVIOUS
<1>1. PICK D \in Bad : \A U \in Bad : U \subseteq D => U = D
  <2>1. Bad \in SUBSET SUBSET C
    OBVIOUS
  <2> HIDE DEF Bad
  <2>2. QED
    BY <2>1, LeastPart
<1>2. D \in SUBSET C /\ SumFunctionOnSet(q, D) # SumFunctionOnSet(f, All(D))
  OBVIOUS
<1>3. IsFiniteSet(D)
  BY <1>2, FS_Subset
<1>4. \A T \in SUBSET S : IsFiniteSet(T) /\ \A x \in T : f[x] \in Int
  BY FS_Subset
<1>5. \A c \in D : q[c] \in Int
  <2>1. ASSUME NEW c \in D PROVE q[c] \in Int
    <3>1. part[c] \in SUBSET S /\ q[c] = SumFunctionOnSet(f, part[c])
      BY <1>2
    <3>2. IsFiniteSet(part[c]) /\ \A x \in part[c] : f[x] \in Int
      BY <1>4, <3>1
    <3>3. QED
      BY <3>1, <3>2, SumUnfold
  <2>2. QED
    BY <2>1
<1>6. D # {}
  <2>1. SUFFICES ASSUME D = {} PROVE FALSE
    OBVIOUS
  <2>2. All(D) = {}
    BY <2>1
  <2>3. IsFiniteSet({}) /\ \A x \in {} : f[x] \in Int
    BY <1>4
  <2>4. SumFunctionOnSet(f, {}) = 0
    BY <2>3, SumUnfold
  <2>5. SumFunctionOnSet(q, D) = 0
    BY <1>3, <1>5, <2>1, SumUnfold
  <2>6. QED
    BY <1>2, <2>2, <2>4, <2>5
<1>7. PICK c \in D : TRUE
  BY <1>6
<1> DEFINE E == D \ {c}
<1>8. E \in SUBSET C /\ E \notin Bad
  BY <1>1, <1>2, <1>7
<1>9. SumFunctionOnSet(q, D) = q[c] + SumFunctionOnSet(q, E)
  BY <1>3, <1>5, <1>7, SumUnfold
<1>10. SumFunctionOnSet(q, E) = SumFunctionOnSet(f, All(E))
  BY <1>8
<1>11. All(D) = part[c] \cup All(E)
  BY <1>7
<1>12. part[c] \in SUBSET S /\ All(E) \in SUBSET S /\ part[c] \cap All(E) = {}
  BY <1>2, <1>7, <1>8
<1>13. q[c] = SumFunctionOnSet(f, part[c])
  BY <1>2, <1>7
<1> HIDE DEF All, E, Bad
<1>14. /\ IsFiniteSet(part[c]) /\ IsFiniteSet(All(E))
       /\ \A x \in part[c] \cup All(E) : f[x] \in Int
  BY <1>4, <1>12
<1>15. SumFunctionOnSet(f, part[c] \cup All(E))
         = SumFunctionOnSet(f, part[c]) + SumFunctionOnSet(f, All(E))
  BY <1>12, <1>14, SumUnion
<1>16. QED
  BY <1>2, <1>9, <1>10, <1>11, <1>13, <1>15

\* The sum of differences is the difference of the sums.
LEMMA SumOfDifferences ==
    ASSUME NEW S, IsFiniteSet(S), NEW f, NEW g, NEW h,
           \A x \in S : f[x] \in Int /\ g[x] \in Int /\ h[x] = f[x] - g[x]
    PROVE  SumFunctionOnSet(h, S) = SumFunctionOnSet(f, S) - SumFunctionOnSet(g, S)
<1> DEFINE Bad == {T \in SUBSET S : SumFunctionOnSet(h, T)
                                      # SumFunctionOnSet(f, T) - SumFunctionOnSet(g, T)}
<1> SUFFICES ASSUME Bad # {} PROVE FALSE
  OBVIOUS
<1>1. PICK T \in Bad : \A U \in Bad : U \subseteq T => U = T
  <2>1. Bad \in SUBSET SUBSET S
    OBVIOUS
  <2> HIDE DEF Bad
  <2>2. QED
    BY <2>1, LeastPart
<1>2. \A x \in T : f[x] \in Int /\ g[x] \in Int /\ h[x] \in Int /\ h[x] = f[x] - g[x]
  OBVIOUS
<1>3. IsFiniteSet(T)
  BY FS_Subset
<1>4. T # {}
  <2>1. SUFFICES ASSUME T = {} PROVE FALSE
    OBVIOUS
  <2>2. SumFunctionOnSet(f, T) = 0 /\ SumFunctionOnSet(g, T) = 0 /\ SumFunctionOnSet(h, T) = 0
    BY <1>2, <1>3, <2>1, SumUnfold
  <2>3. QED
    BY <2>2
<1>5. PICK x \in T : TRUE
  BY <1>4
<1> DEFINE R == T \ {x}
<1>6. R \in SUBSET S /\ R \notin Bad
  BY <1>1, <1>5
<1>7. SumFunctionOnSet(h, R) = SumFunctionOnSet(f, R) - SumFunctionOnSet(g, R)
  BY <1>6
<1>8. /\ SumFunctionOnSet(f, T) = f[x] + SumFunctionOnSet(f, R)
      /\ SumFunctionOnSet(g, T) = g[x] + SumFunctionOnSet(g, R)
      /\ SumFunctionOnSet(h, T) = h[x] + SumFunctionOnSet(h, R)
  BY <1>2, <1>3, <1>5, SumUnfold
<1>9. SumFunctionOnSet(f, R) \in Int /\ SumFunctionOnSet(g, R) \in Int
  <2>1. IsFiniteSet(R) /\ \A y \in R : f[y] \in Int /\ g[y] \in Int
    BY <1>2, <1>6, FS_Subset
  <2> HIDE DEF R
  <2>2. QED
    BY <2>1, SumUnfold
<1>10. SumFunctionOnSet(h, T) # SumFunctionOnSet(f, T) - SumFunctionOnSet(g, T)
  OBVIOUS
<1> HIDE DEF R, Bad
<1>11. QED
  BY <1>2, <1>5, <1>7, <1>8, <1>9, <1>10

\* A sum of numbers that are not negative is at least each of them.
LEMMA SumAtLeast ==
    ASSUME NEW S, IsFiniteSet(S), NEW f, \A x \in S : f[x] \in Nat
    PROVE  /\ SumFunctionOnSet(f, S) >= 0
           /\ \A x \in S : SumFunctionOnSet(f, S) >= f[x]
<1> DEFINE Bad == {T \in SUBSET S : ~(SumFunctionOnSet(f, T) >= 0)}
<1>1. Bad = {}
  <2> SUFFICES ASSUME Bad # {} PROVE FALSE
    OBVIOUS
  <2>1. PICK T \in Bad : \A U \in Bad : U \subseteq T => U = T
    <3>1. Bad \in SUBSET SUBSET S
      OBVIOUS
    <3> HIDE DEF Bad
    <3>2. QED
      BY <3>1, LeastPart
  <2>2. IsFiniteSet(T) /\ \A x \in T : f[x] \in Int /\ f[x] >= 0
    BY FS_Subset
  <2>3. T # {}
    BY <2>2, SumUnfold
  <2>4. PICK x \in T : TRUE
    BY <2>3
  <2> DEFINE R == T \ {x}
  <2>5. R \in SUBSET S /\ R \notin Bad
    BY <2>1, <2>4
  <2>6. SumFunctionOnSet(f, T) = f[x] + SumFunctionOnSet(f, R)
    BY <2>2, <2>4, SumUnfold
  <2>7. SumFunctionOnSet(f, R) \in Int
    <3>1. IsFiniteSet(R) /\ \A y \in R : f[y] \in Int
      BY <2>2, <2>5, FS_Subset
    <3> HIDE DEF R
    <3>2. QED
      BY <3>1, SumUnfold
  <2>8. QED
    BY <2>2, <2>4, <2>5, <2>6, <2>7
<1>2. ASSUME NEW x \in S PROVE SumFunctionOnSet(f, S) >= f[x]
  <2> DEFINE R == S \ {x}
  <2>1. \A y \in S : f[y] \in Int
    OBVIOUS
  <2>2. SumFunctionOnSet(f, S) = f[x] + SumFunctionOnSet(f, R)
    BY <2>1, SumUnfold
  <2>3. SumFunctionOnSet(f, R) >= 0
    BY <1>1
  <2>4. SumFunctionOnSet(f, R) \in Int
    <3>1. IsFiniteSet(R) /\ \A y \in R : f[y] \in Int
      BY FS_Subset
    <3> HIDE DEF R
    <3>2. QED
      BY <3>1, SumUnfold
  <2> HIDE DEF R
  <2>5. QED
    BY <2>1, <2>2, <2>3, <2>4
<1>3. QED
  BY <1>1, <1>2

-----------------------------------------------------------------------------
(* Totals of fractions                                                     *)

Positive == Nat \ {0}

Fractions == Int \X Positive

\* a divided by b is n divided by d; so is the fraction p.
Ratio(a, b, n, d) == a * d = n * b

Over(p, n, d) == Ratio(p[1], p[2], n, d)

\* Products of positive numbers are positive.
LEMMA PositiveProduct ==
    ASSUME NEW a \in Positive, NEW b \in Positive
    PROVE  a * b \in Positive
<1>1. a \in Int /\ b \in Int /\ a > 0 /\ b > 0
  BY DEF Positive
<1>2. a * b \in Int /\ a * b > 0
  BY <1>1
<1>3. QED
  BY <1>2 DEF Positive

\* The model's arithmetic keeps denominators positive.
LEMMA FractionKinds ==
    ASSUME NEW p \in Fractions, NEW q \in Fractions
    PROVE  /\ Plus(p, q) \in Fractions
           /\ Minus(p, q) \in Fractions
           /\ Times(p, q) \in Fractions
<1>1. p[1] \in Int /\ p[2] \in Positive /\ q[1] \in Int /\ q[2] \in Positive
  BY DEF Fractions
<1>2. p[2] * q[2] \in Positive
  BY <1>1, PositiveProduct
<1>3. /\ p[1] * q[2] + q[1] * p[2] \in Int
      /\ p[1] * q[2] - q[1] * p[2] \in Int
      /\ p[1] * q[1] \in Int
  BY <1>1 DEF Positive
<1>4. QED
  BY <1>2, <1>3 DEF Fractions, Plus, Minus, Times

\* The numerators of a sum: both sides multiplied out.
LEMMA SumNumerators ==
    ASSUME NEW a \in Int, NEW b \in Int, NEW c \in Int, NEW e \in Int,
           NEW n \in Int, NEW m \in Int, NEW d \in Int,
           Ratio(a, b, n, d), Ratio(c, e, m, d)
    PROVE  /\ Ratio(a * e + c * b, b * e, n + m, d)
           /\ Ratio(a * e - c * b, b * e, n - m, d)
<1>0. a * d = n * b /\ c * d = m * e
  BY DEF Ratio
<1>1. (a * e) * d = (a * d) * e /\ (c * b) * d = (c * d) * b
  OBVIOUS
<1>2. (n * b) * e = n * (b * e) /\ (m * e) * b = m * (b * e)
  OBVIOUS
<1>3. (a * e) * d = n * (b * e) /\ (c * b) * d = m * (b * e)
  BY <1>0, <1>1, <1>2
<1> DEFINE x == a * e
           y == c * b
           z == b * e
<1>4. x \in Int /\ y \in Int /\ z \in Int /\ x * d = n * z /\ y * d = m * z
  BY <1>3
<1> HIDE DEF x, y, z
<1>5. (x + y) * d = (n + m) * z /\ (x - y) * d = (n - m) * z
  BY <1>4
<1>6. QED
  BY <1>5 DEF Ratio, x, y, z

\* Sums and differences over one denominator.
LEMMA OverSum ==
    ASSUME NEW p \in Fractions, NEW q \in Fractions, NEW d \in Positive,
           NEW n \in Int, NEW m \in Int, Over(p, n, d), Over(q, m, d)
    PROVE  Over(Plus(p, q), n + m, d) /\ Over(Minus(p, q), n - m, d)
<1>1. p[1] \in Int /\ p[2] \in Int /\ q[1] \in Int /\ q[2] \in Int /\ d \in Int
  BY DEF Fractions, Positive
<1>2. Ratio(p[1], p[2], n, d) /\ Ratio(q[1], q[2], m, d)
  BY DEF Over
<1>3. /\ Ratio(p[1] * q[2] + q[1] * p[2], p[2] * q[2], n + m, d)
      /\ Ratio(p[1] * q[2] - q[1] * p[2], p[2] * q[2], n - m, d)
  BY <1>1, <1>2, SumNumerators
<1>4. QED
  BY <1>3 DEF Over, Plus, Minus

\* A denominator can be multiplied.
LEMMA OverScaled ==
    ASSUME NEW p \in Fractions, NEW d \in Positive, NEW k \in Positive, NEW n \in Int,
           Over(p, n, d)
    PROVE  Over(p, n * k, d * k)
<1>1. p[1] \in Int /\ p[2] \in Int /\ d \in Int /\ k \in Int
  BY DEF Fractions, Positive
<1>2. p[1] * d = n * p[2]
  BY DEF Over, Ratio
<1>3. p[1] * (d * k) = (p[1] * d) * k /\ (n * p[2]) * k = (n * k) * p[2]
  BY <1>1
<1>4. QED
  BY <1>2, <1>3 DEF Over, Ratio

\* What is the same over a denominator is the same.
LEMMA OverSame ==
    ASSUME NEW p \in Fractions, NEW q \in Fractions, NEW d \in Positive, NEW n \in Int,
           Over(p, n, d), Over(q, n, d)
    PROVE  Same(p, q)
<1>1. p[1] \in Int /\ p[2] \in Int /\ q[1] \in Int /\ q[2] \in Int /\ d \in Int /\ d > 0
  BY DEF Fractions, Positive
<1>2. p[1] * d = n * p[2] /\ q[1] * d = n * q[2]
  BY DEF Over, Ratio
<1>3. (p[1] * q[2]) * d = (p[1] * d) * q[2] /\ (q[1] * p[2]) * d = (q[1] * d) * p[2]
  BY <1>1
<1>4. (n * p[2]) * q[2] = (n * q[2]) * p[2]
  BY <1>1
<1>5. (p[1] * q[2]) * d = (q[1] * p[2]) * d
  BY <1>2, <1>3, <1>4
<1> DEFINE x == p[1] * q[2]
           y == q[1] * p[2]
<1>6. x \in Int /\ y \in Int /\ x * d = y * d
  BY <1>1, <1>5
<1> HIDE DEF x, y
<1>7. (x - y) * d = 0 /\ x - y \in Int
  BY <1>1, <1>6
<1>8. x - y = 0
  BY <1>1, <1>7
<1>9. x = y
  BY <1>6, <1>8
<1>10. QED
  BY <1>9 DEF Same, x, y

\* Finitely many fractions have a denominator in common.
LEMMA CommonDenominator ==
    ASSUME NEW S, IsFiniteSet(S), NEW f, \A x \in S : f[x] \in Fractions
    PROVE  \E d \in Positive : \A x \in S : \E n \in Int : Over(f[x], n, d)
<1> DEFINE Common(T) == \E d \in Positive : \A x \in T : \E n \in Int : Over(f[x], n, d)
           Bad == {T \in SUBSET S : ~Common(T)}
<1> SUFFICES ASSUME Bad # {} PROVE FALSE
  OBVIOUS
<1>1. PICK T \in Bad : \A U \in Bad : U \subseteq T => U = T
  <2>1. Bad \in SUBSET SUBSET S
    OBVIOUS
  <2> HIDE DEF Bad
  <2>2. QED
    BY <2>1, LeastPart
<1>2. T # {}
  <2>1. SUFFICES ASSUME T = {} PROVE FALSE
    OBVIOUS
  <2>2. 1 \in Positive
    BY DEF Positive
  <2>3. Common(T)
    BY <2>1, <2>2
  <2>4. QED
    BY <2>3
<1>3. PICK x \in T : TRUE
  BY <1>2
<1>4. T \ {x} \in SUBSET S /\ T \ {x} \notin Bad
  BY <1>1, <1>3
<1>5. PICK d \in Positive : \A y \in T \ {x} : \E n \in Int : Over(f[y], n, d)
  BY <1>4
<1> DEFINE k == f[x][2]
<1>6. f[x] \in Fractions /\ f[x][1] \in Int /\ k \in Positive
  BY <1>3 DEF Fractions
<1>7. d * k \in Positive
  BY <1>6, PositiveProduct
<1>8. ASSUME NEW y \in T PROVE \E n \in Int : Over(f[y], n, d * k)
  <2>1. CASE y = x
    <3>1. f[x][1] * (d * k) = (f[x][1] * d) * k
      BY <1>6 DEF Positive
    <3>2. f[x][1] * d \in Int
      BY <1>6 DEF Positive
    <3>3. QED
      BY <2>1, <3>1, <3>2 DEF Over, Ratio
  <2>2. CASE y # x
    <3>1. PICK n \in Int : Over(f[y], n, d)
      BY <1>5, <2>2
    <3>2. f[y] \in Fractions
      OBVIOUS
    <3> HIDE DEF k
    <3>3. Over(f[y], n * k, d * k) /\ n * k \in Int
      BY <1>6, <3>1, <3>2, OverScaled DEF Positive
    <3>4. QED
      BY <3>3
  <2>3. QED
    BY <2>1, <2>2
<1> HIDE DEF k
<1>9. Common(T)
  BY <1>7, <1>8
<1>10. QED
  BY <1>9

AddFraction(f, S) == [p \in S \X Fractions |-> Plus(f[p[1]], p[2])]

\* The total of a function is what a fold of its values gives its domain.
LEMMA TotalIs ==
    ASSUME NEW S, IsFiniteSet(S), NEW f \in [S -> Fractions], NEW g,
           Folds(S, Fractions, AddFraction(f, S), Whole(0), AnyElement(S), g)
    PROVE  Total(f) = g[S]
<1> DEFINE Body(h) == [s \in SUBSET S |->
                          IF s = {} THEN Whole(0)
                          ELSE LET x == CHOOSE x \in s : TRUE IN Plus(f[x], h[s \ {x}])]
           iter == CHOOSE h : h = Body(h)
<1>1. Total(f) = <<iter[S][1], iter[S][2]>>
  <2>1. DOMAIN f = S
    OBVIOUS
  <2>2. QED
    BY <2>1 DEF Total, FoldFunction, FoldFunctionOnSet, MapThenFoldSet
<1>2. ASSUME NEW s \in SUBSET S
      PROVE  g[s] = IF s = {} THEN Whole(0) ELSE Plus(f[Element(s)], g[s \ {Element(s)}])
  <2>1. CASE s = {}
    BY <2>1 DEF Folds
  <2>2. CASE s # {}
    <3>1. Element(s) \in s /\ Element(s) \in S /\ AnyElement(S)[s] = Element(s)
      BY <2>2 DEF Element, AnyElement
    <3>2. g[s \ {Element(s)}] \in Fractions
      BY <3>1 DEF Folds
    <3>3. g[s] = AddFraction(f, S)[<<Element(s), g[s \ {Element(s)}]>>]
      BY <2>2, <3>1 DEF Folds
    <3>4. QED
      BY <2>2, <3>1, <3>2, <3>3 DEF AddFraction
  <2>3. QED
    BY <2>1, <2>2
<1>3. g = Body(g)
  <2>1. g = [s \in SUBSET S |-> g[s]]
    BY DEF Folds
  <2>2. QED
    BY <1>2, <2>1 DEF Element
<1>4. iter = Body(iter)
  <2> HIDE DEF Body
  <2>1. QED
    BY <1>3
<1>5. ASSUME NEW s \in SUBSET S
      PROVE  iter[s] = IF s = {} THEN Whole(0)
                       ELSE Plus(f[Element(s)], iter[s \ {Element(s)}])
  BY <1>4 DEF Element
<1> HIDE DEF iter
<1>6. \A s \in SUBSET S : iter[s] = g[s]
  <2> DEFINE Bad == {s \in SUBSET S : iter[s] # g[s]}
  <2> SUFFICES ASSUME Bad # {} PROVE FALSE
    OBVIOUS
  <2>1. PICK s \in Bad : \A u \in Bad : u \subseteq s => u = s
    <3>1. Bad \in SUBSET SUBSET S
      OBVIOUS
    <3> HIDE DEF Bad
    <3>2. QED
      BY <3>1, LeastPart
  <2>2. s # {}
    BY <1>2, <1>5
  <2>3. Element(s) \in s
    BY <2>2 DEF Element
  <2>4. s \ {Element(s)} \in SUBSET S /\ s \ {Element(s)} \notin Bad
    BY <2>1, <2>3
  <2>5. QED
    BY <1>2, <1>5, <2>2, <2>4
<1>7. iter[S] = g[S] /\ g[S] \in Fractions
  BY <1>6 DEF Folds
<1>8. QED
  BY <1>1, <1>7 DEF Fractions

\* Over a common denominator the numerator of a total is the sum of the numerators.
LEMMA TotalOver ==
    ASSUME NEW S, IsFiniteSet(S), NEW f \in [S -> Fractions], NEW d \in Positive,
           NEW n, \A x \in S : n[x] \in Int, \A x \in S : Over(f[x], n[x], d)
    PROVE  Total(f) \in Fractions /\ Over(Total(f), SumFunctionOnSet(n, S), d)
<1>1. PICK g : Folds(S, Fractions, AddFraction(f, S), Whole(0), AnyElement(S), g)
  <2>1. Picks(S, AnyElement(S))
    BY DEF Picks, AnyElement, Element
  <2>2. \A x \in S : \A v \in Fractions : AddFraction(f, S)[<<x, v>>] \in Fractions
    BY FractionKinds DEF AddFraction
  <2>3. Whole(0) \in Fractions
    BY DEF Whole, Fractions, Positive
  <2>4. QED
    BY <2>1, <2>2, <2>3, FoldsExist
<1>2. Total(f) = g[S]
  BY <1>1, TotalIs
<1>3. \A s \in SUBSET S : g[s] \in Fractions
  BY <1>1 DEF Folds
<1> DEFINE Bad == {T \in SUBSET S : ~Over(g[T], SumFunctionOnSet(n, T), d)}
<1>4. Bad = {}
  <2> SUFFICES ASSUME Bad # {} PROVE FALSE
    OBVIOUS
  <2>1. PICK T \in Bad : \A U \in Bad : U \subseteq T => U = T
    <3>1. Bad \in SUBSET SUBSET S
      OBVIOUS
    <3> HIDE DEF Bad
    <3>2. QED
      BY <3>1, LeastPart
  <2>2. T \in SUBSET S /\ IsFiniteSet(T) /\ \A x \in T : n[x] \in Int
    BY FS_Subset
  <2>3. T # {}
    <3>1. SUFFICES ASSUME T = {} PROVE FALSE
      OBVIOUS
    <3>2. SumFunctionOnSet(n, T) = 0
      BY <2>2, <3>1, SumUnfold
    <3>3. g[T] = <<0, 1>>
      BY <1>1, <3>1 DEF Folds, Whole
    <3>4. Over(<<0, 1>>, 0, d)
      BY DEF Over, Ratio, Positive
    <3>5. QED
      BY <3>2, <3>3, <3>4
  <2> DEFINE x == Element(T)
             R == T \ {x}
  <2>4. x \in T /\ x \in S /\ AnyElement(S)[T] = x
    BY <2>3 DEF Element, AnyElement
  <2>5. R \in SUBSET S /\ R \notin Bad
    BY <2>1, <2>4
  <2>6. g[R] \in Fractions /\ f[x] \in Fractions
    BY <1>3, <2>4, <2>5
  <2>7. g[T] = Plus(f[x], g[R])
    <3>1. g[T] = AddFraction(f, S)[<<x, g[R]>>]
      BY <1>1, <2>2, <2>3, <2>4 DEF Folds
    <3>2. QED
      BY <2>4, <2>6, <3>1 DEF AddFraction
  <2> HIDE DEF x
  <2>8. SumFunctionOnSet(n, T) = n[x] + SumFunctionOnSet(n, R)
    BY <2>2, <2>4, SumUnfold
  <2>9. SumFunctionOnSet(n, R) \in Int
    <3>1. IsFiniteSet(R) /\ \A y \in R : n[y] \in Int
      BY <2>2, FS_Subset
    <3> HIDE DEF R
    <3>2. QED
      BY <3>1, SumUnfold
  <2>10. Over(g[R], SumFunctionOnSet(n, R), d)
    BY <2>5
  <2>11. n[x] \in Int /\ Over(f[x], n[x], d)
    BY <2>4
  <2> HIDE DEF R
  <2>12. Over(Plus(f[x], g[R]), n[x] + SumFunctionOnSet(n, R), d)
    BY <2>6, <2>9, <2>10, <2>11, OverSum
  <2>13. QED
    BY <2>7, <2>8, <2>12
<1>5. Over(g[S], SumFunctionOnSet(n, S), d) /\ g[S] \in Fractions
  BY <1>3, <1>4
<1>6. QED
  BY <1>2, <1>5

\* Values less costs are the same in total whether the costs are taken off one key after
\* the other or all at once.
LEMMA GainsAddUp ==
    ASSUME NEW K, IsFiniteSet(K), NEW B, IsFiniteSet(B), \A b \in B : b[1] \in K,
           NEW v \in [K -> Fractions], NEW c \in [B -> Fractions],
           NEW w, w = [k \in K |-> Minus(v[k], Total([b \in {o \in B : o[1] = k} |-> c[b]]))]
    PROVE  Same(Minus(Total(v), Total(c)), Total(w))
<1> DEFINE Part(k) == {o \in B : o[1] = k}
           cost == [k \in K |-> [b \in Part(k) |-> c[b]]]
<1>1. PICK dv \in Positive : \A k \in K : \E n \in Int : Over(v[k], n, dv)
  BY CommonDenominator
<1>2. PICK dc \in Positive : \A b \in B : \E n \in Int : Over(c[b], n, dc)
  BY CommonDenominator
<1> DEFINE d == dv * dc
<1>3. d \in Positive
  BY PositiveProduct
<1>4. \A k \in K : \E n \in Int : Over(v[k], n, d)
  <2>1. ASSUME NEW k \in K PROVE \E n \in Int : Over(v[k], n, d)
    <3>1. PICK n \in Int : Over(v[k], n, dv)
      BY <1>1
    <3>2. Over(v[k], n * dc, d) /\ n * dc \in Int
      BY <3>1, OverScaled DEF Positive
    <3>3. QED
      BY <3>2
  <2>2. QED
    BY <2>1
<1>5. \A b \in B : \E n \in Int : Over(c[b], n, d)
  <2>1. ASSUME NEW b \in B PROVE \E n \in Int : Over(c[b], n, d)
    <3>1. PICK n \in Int : Over(c[b], n, dc)
      BY <1>2
    <3>2. d = dc * dv
      BY DEF Positive
    <3> HIDE DEF d
    <3>3. Over(c[b], n * dv, d) /\ n * dv \in Int
      BY <3>1, <3>2, OverScaled DEF Positive
    <3>4. QED
      BY <3>3
  <2>2. QED
    BY <2>1
<1> HIDE DEF d
<1> DEFINE n == [k \in K |-> CHOOSE i \in Int : Over(v[k], i, d)]
           m == [b \in B |-> CHOOSE i \in Int : Over(c[b], i, d)]
<1>6. \A k \in K : n[k] \in Int /\ Over(v[k], n[k], d)
  BY <1>4
<1>7. \A b \in B : m[b] \in Int /\ Over(c[b], m[b], d)
  BY <1>5
<1> HIDE DEF n, m
<1> DEFINE s == [k \in K |-> SumFunctionOnSet(m, Part(k))]
           gain == [k \in K |-> n[k] - s[k]]
<1>8. ASSUME NEW k \in K
      PROVE  /\ s[k] \in Int /\ w[k] \in Fractions
             /\ Over(w[k], n[k] - s[k], d)
  <2> DEFINE P == Part(k)
             f == [b \in P |-> c[b]]
  <2>1. P \in SUBSET B /\ f \in [P -> Fractions] /\ \A b \in P : f[b] = c[b]
    OBVIOUS
  <2>2. s[k] = SumFunctionOnSet(m, P) /\ w[k] = Minus(v[k], Total(f))
    OBVIOUS
  <2> HIDE DEF P, f, s, Part
  <2>3. IsFiniteSet(P) /\ \A b \in P : m[b] \in Int /\ Over(f[b], m[b], d)
    BY <1>7, <2>1, FS_Subset
  <2>4. Total(f) \in Fractions /\ Over(Total(f), SumFunctionOnSet(m, P), d)
    BY <1>3, <2>1, <2>3, TotalOver
  <2>5. s[k] \in Int
    BY <2>2, <2>3, SumUnfold
  <2>6. v[k] \in Fractions /\ n[k] \in Int /\ Over(v[k], n[k], d)
    BY <1>6
  <2>7. Over(Total(f), s[k], d)
    BY <2>2, <2>4
  <2>8. Over(Minus(v[k], Total(f)), n[k] - s[k], d)
    BY <1>3, <2>4, <2>5, <2>6, <2>7, OverSum
  <2>9. Minus(v[k], Total(f)) \in Fractions
    BY <2>4, <2>6, FractionKinds
  <2>10. QED
    BY <2>2, <2>5, <2>8, <2>9
<1>9. Total(v) \in Fractions /\ Over(Total(v), SumFunctionOnSet(n, K), d)
  BY <1>3, <1>6, TotalOver
<1>10. Total(c) \in Fractions /\ Over(Total(c), SumFunctionOnSet(m, B), d)
  BY <1>3, <1>7, TotalOver
<1>11. Total(w) \in Fractions /\ Over(Total(w), SumFunctionOnSet(gain, K), d)
  <2>1. w \in [K -> Fractions]
    BY <1>8
  <2> HIDE DEF s
  <2>2. \A k \in K : gain[k] = n[k] - s[k]
    OBVIOUS
  <2> HIDE DEF gain
  <2>3. ASSUME NEW k \in K PROVE gain[k] \in Int /\ Over(w[k], gain[k], d)
    <3>1. n[k] \in Int /\ s[k] \in Int /\ gain[k] = n[k] - s[k]
      BY <1>6, <1>8, <2>2
    <3>2. n[k] - s[k] \in Int
      BY <3>1
    <3>3. Over(w[k], n[k] - s[k], d)
      BY <1>8
    <3>4. QED
      BY <3>1, <3>2, <3>3, Zenon
  <2>4. \A k \in K : gain[k] \in Int /\ Over(w[k], gain[k], d)
    BY <2>3
  <2>5. QED
    BY <1>3, <2>1, <2>4, TotalOver
<1>12. SumFunctionOnSet(gain, K) = SumFunctionOnSet(n, K) - SumFunctionOnSet(s, K)
  <2>1. \A k \in K : n[k] \in Int /\ s[k] \in Int /\ gain[k] = n[k] - s[k]
    BY <1>6, <1>8
  <2> HIDE DEF gain, s
  <2>2. QED
    BY <2>1, SumOfDifferences
<1>13. SumFunctionOnSet(s, K) = SumFunctionOnSet(m, B)
  <2> DEFINE part == [k \in K |-> Part(k)]
  <2>1. part \in [K -> SUBSET B]
    OBVIOUS
  <2>2. \A k, other \in K : k # other => part[k] \cap part[other] = {}
    OBVIOUS
  <2>3. UNION {part[k] : k \in K} = B
    <3>1. \A b \in B : b[1] \in K /\ b \in part[b[1]]
      OBVIOUS
    <3> HIDE DEF part
    <3>2. QED
      BY <2>1, <3>1
  <2>4. \A k \in K : s[k] = SumFunctionOnSet(m, part[k])
    OBVIOUS
  <2>5. \A b \in B : m[b] \in Int
    BY <1>7
  <2> HIDE DEF part, s, Part
  <2>6. SumFunctionOnSet(s, K) = SumFunctionOnSet(m, UNION {part[k] : k \in K})
    BY <2>1, <2>2, <2>4, <2>5, SumParts
  <2>7. QED
    BY <2>3, <2>6
<1>14. SumFunctionOnSet(n, K) \in Int /\ SumFunctionOnSet(m, B) \in Int
  BY <1>6, <1>7, SumUnfold
<1> HIDE DEF s, gain, Part
<1>15. /\ Over(Minus(Total(v), Total(c)), SumFunctionOnSet(n, K) - SumFunctionOnSet(m, B), d)
       /\ Minus(Total(v), Total(c)) \in Fractions
  BY <1>3, <1>9, <1>10, <1>14, OverSum, FractionKinds
<1>16. Over(Total(w), SumFunctionOnSet(n, K) - SumFunctionOnSet(m, B), d)
  BY <1>11, <1>12, <1>13
<1>17. SumFunctionOnSet(n, K) - SumFunctionOnSet(m, B) \in Int
  BY <1>14
<1>18. QED
  BY <1>3, <1>11, <1>15, <1>16, <1>17, OverSame

-----------------------------------------------------------------------------
(* What trades add up to, and their bucket                                 *)

\* Events with the numbers of a trade.
TradeBook(S) ==
    /\ Book(S)
    /\ \A e \in S : e.quantity \in Int /\ e.amount \in Int /\ e.costs \in Int

\* A part of a book of trades is a book of trades.
LEMMA PartOfTradeBook ==
    ASSUME NEW S, TradeBook(S), NEW T \in SUBSET S
    PROVE  TradeBook(T)
BY PartOfBook DEF TradeBook

\* The sum of what a function gives the elements of a part of its domain.
LEMMA PartSum ==
    ASSUME NEW S, IsFiniteSet(S), NEW f \in [S -> Int], NEW T \in SUBSET S
    PROVE  SumFunction([e \in T |-> f[e]]) = SumFunctionOnSet(f, T)
<1> DEFINE g == [e \in T |-> f[e]]
<1>1. SumFunction(g) = SumFunctionOnSet(g, T)
  BY DEF SumFunction
<1>2. IsFiniteSet(T)
  BY FS_Subset
<1>3. \A x \in T : f[x] \in Int /\ g[x] = f[x]
  OBVIOUS
<1> HIDE DEF g
<1>4. SumFunctionOnSet(g, T) = SumFunctionOnSet(f, T)
  BY <1>2, <1>3, SumAgrees
<1>5. QED
  BY <1>1, <1>4 DEF g

\* The quantity of trades is that of all but any one, and that one's.
LEMMA QuantityUnfold ==
    ASSUME NEW S, TradeBook(S)
    PROVE  /\ Quantity(S) \in Int
           /\ S = {} => Quantity(S) = 0
           /\ \A x \in S : Quantity(S) = Signed(x) + Quantity(S \ {x})
<1> DEFINE f == [e \in S |-> Signed(e)]
<1>1. IsFiniteSet(S) /\ f \in [S -> Int]
  BY DEF TradeBook, Book, Signed
<1>2. ASSUME NEW T \in SUBSET S PROVE Quantity(T) = SumFunctionOnSet(f, T)
  <2>1. [e \in T |-> Signed(e)] = [e \in T |-> f[e]]
    OBVIOUS
  <2> HIDE DEF f
  <2>2. SumFunction([e \in T |-> f[e]]) = SumFunctionOnSet(f, T)
    BY <1>1, PartSum
  <2>3. QED
    BY <2>1, <2>2 DEF Quantity
<1>3. \A x \in S : f[x] = Signed(x)
  OBVIOUS
<1> HIDE DEF f
<1>4. \A x \in S : f[x] \in Int
  BY <1>1
<1>5. /\ SumFunctionOnSet(f, S) \in Int
      /\ S = {} => SumFunctionOnSet(f, S) = 0
      /\ \A x \in S : SumFunctionOnSet(f, S) = f[x] + SumFunctionOnSet(f, S \ {x})
  BY <1>1, <1>4, SumUnfold
<1>6. Quantity(S) = SumFunctionOnSet(f, S)
  BY <1>2
<1>7. ASSUME NEW x \in S PROVE Quantity(S) = Signed(x) + Quantity(S \ {x})
  <2>1. Quantity(S \ {x}) = SumFunctionOnSet(f, S \ {x})
    BY <1>2
  <2>2. QED
    BY <1>3, <1>5, <1>6, <2>1
<1>8. QED
  BY <1>5, <1>6, <1>7

\* Trades without a common one add up separately.
LEMMA QuantityUnion ==
    ASSUME NEW S, TradeBook(S), NEW A \in SUBSET S, NEW B \in SUBSET S, A \cap B = {}
    PROVE  Quantity(A \cup B) = Quantity(A) + Quantity(B)
<1> DEFINE f == [e \in S |-> Signed(e)]
<1>1. IsFiniteSet(S) /\ f \in [S -> Int]
  BY DEF TradeBook, Book, Signed
<1>2. ASSUME NEW T \in SUBSET S PROVE Quantity(T) = SumFunctionOnSet(f, T)
  <2>1. [e \in T |-> Signed(e)] = [e \in T |-> f[e]]
    OBVIOUS
  <2> HIDE DEF f
  <2>2. SumFunction([e \in T |-> f[e]]) = SumFunctionOnSet(f, T)
    BY <1>1, PartSum
  <2>3. QED
    BY <2>1, <2>2 DEF Quantity
<1> HIDE DEF f
<1>3. IsFiniteSet(A) /\ IsFiniteSet(B) /\ A \cup B \in SUBSET S
  BY <1>1, FS_Subset
<1>4. \A x \in A \cup B : f[x] \in Int
  BY <1>1
<1>5. SumFunctionOnSet(f, A \cup B) = SumFunctionOnSet(f, A) + SumFunctionOnSet(f, B)
  BY <1>3, <1>4, SumUnion
<1>6. QED
  BY <1>2, <1>3, <1>5

\* Trades taken apart into parts without a common one add up to what they do together.
LEMMA PartsAddUp ==
    ASSUME NEW S, TradeBook(S), NEW C, IsFiniteSet(C), NEW part \in [C -> SUBSET S],
           \A c, other \in C : c # other => part[c] \cap part[other] = {},
           NEW q, \A c \in C : q[c] = Quantity(part[c])
    PROVE  SumFunctionOnSet(q, C) = Quantity(UNION {part[c] : c \in C})
<1> DEFINE f == [e \in S |-> Signed(e)]
           All == UNION {part[c] : c \in C}
<1>1. IsFiniteSet(S) /\ f \in [S -> Int]
  BY DEF TradeBook, Book, Signed
<1>2. ASSUME NEW T \in SUBSET S PROVE Quantity(T) = SumFunctionOnSet(f, T)
  <2>1. [e \in T |-> Signed(e)] = [e \in T |-> f[e]]
    OBVIOUS
  <2> HIDE DEF f
  <2>2. SumFunction([e \in T |-> f[e]]) = SumFunctionOnSet(f, T)
    BY <1>1, PartSum
  <2>3. QED
    BY <2>1, <2>2 DEF Quantity
<1> HIDE DEF f
<1>3. \A x \in S : f[x] \in Int
  BY <1>1
<1>4. \A c \in C : q[c] = SumFunctionOnSet(f, part[c])
  BY <1>2
<1>5. SumFunctionOnSet(q, C) = SumFunctionOnSet(f, All)
  BY <1>1, <1>3, <1>4, SumParts
<1>6. All \in SUBSET S
  OBVIOUS
<1> HIDE DEF All
<1>7. Quantity(All) = SumFunctionOnSet(f, All)
  BY <1>2, <1>6
<1>8. QED
  BY <1>5, <1>7 DEF All

\* The element a fold takes first is the last of the book.
Latest(S) == [s \in SUBSET S |-> Newest(s)]

\* It is an element of it.
LEMMA LatestPicks ==
    ASSUME NEW S, Book(S)
    PROVE  Picks(S, Latest(S))
BY PartOfBook, NewestIsLast DEF Picks, Latest

Buckets == [quantity : Int, cost : Int \X Int, gain : Int \X Int, raised : BOOLEAN]

ApplyTrade(S) == [p \in S \X Buckets |-> ApplyToBucket(p[2], p[1])]

\* Fractions stay pairs of integers under the model's arithmetic.
LEMMA FractionTypes ==
    ASSUME NEW p \in Int \X Int, NEW q \in Int \X Int
    PROVE  /\ Plus(p, q) \in Int \X Int
           /\ Minus(p, q) \in Int \X Int
           /\ Times(p, q) \in Int \X Int
BY DEF Plus, Minus, Times

\* A buy adds to the bucket; a sale takes from it what it has, and otherwise the
\* bucket says that it raised.
LEMMA ApplyType ==
    ASSUME NEW bucket \in Buckets, NEW e,
           e.quantity \in Int, e.amount \in Int, e.costs \in Int
    PROVE  /\ ApplyToBucket(bucket, e) \in Buckets
           /\ bucket.raised => ApplyToBucket(bucket, e) = bucket
           /\ ~bucket.raised /\ e.type = "market_buy" =>
                /\ ~ApplyToBucket(bucket, e).raised
                /\ ApplyToBucket(bucket, e).quantity = bucket.quantity + e.quantity
           /\ ~bucket.raised /\ e.type # "market_buy" /\ e.quantity <= bucket.quantity =>
                /\ ~ApplyToBucket(bucket, e).raised
                /\ ApplyToBucket(bucket, e).quantity = bucket.quantity - e.quantity
<1> DEFINE allocated == Times(bucket.cost, <<e.quantity, bucket.quantity>>)
           proceeds == Whole(e.amount - e.costs)
<1>1. /\ bucket.cost \in Int \X Int /\ bucket.gain \in Int \X Int
      /\ bucket.quantity \in Int
      /\ Whole(0) \in Int \X Int /\ Whole(e.amount + e.costs) \in Int \X Int
      /\ proceeds \in Int \X Int
  BY DEF Buckets, Whole
<1>2. /\ Plus(bucket.cost, Whole(e.amount + e.costs)) \in Int \X Int
      /\ allocated \in Int \X Int
  BY <1>1, FractionTypes
<1>3. /\ Minus(proceeds, allocated) \in Int \X Int
      /\ Minus(bucket.cost, allocated) \in Int \X Int
  BY <1>1, <1>2, FractionTypes
<1>4. Plus(bucket.gain, Minus(proceeds, allocated)) \in Int \X Int
  BY <1>1, <1>3, FractionTypes
<1>5. CASE bucket.raised
  BY <1>5 DEF ApplyToBucket
<1>6. CASE ~bucket.raised /\ e.type = "market_buy"
  <2>1. ApplyToBucket(bucket, e) =
          [bucket EXCEPT !.quantity = @ + e.quantity,
                         !.cost     = Plus(@, Whole(e.amount + e.costs))]
    BY <1>6 DEF ApplyToBucket
  <2>2. bucket.quantity + e.quantity \in Int
    BY <1>1
  <2>3. QED
    BY <1>1, <1>2, <1>6, <2>1, <2>2 DEF Buckets
<1>7. CASE ~bucket.raised /\ e.type # "market_buy" /\ e.quantity > bucket.quantity
  <2>1. ApplyToBucket(bucket, e) = [bucket EXCEPT !.raised = TRUE]
    BY <1>7 DEF ApplyToBucket, SellFromBucket
  <2>2. [bucket EXCEPT !.raised = TRUE] \in Buckets
    BY DEF Buckets
  <2>3. ~(e.quantity <= bucket.quantity)
    BY <1>1, <1>7
  <2>4. QED
    BY <1>7, <2>1, <2>2, <2>3
<1>8. CASE ~bucket.raised /\ e.type # "market_buy" /\ ~(e.quantity > bucket.quantity)
  <2> DEFINE cost == IF e.quantity = bucket.quantity
                       THEN Whole(0) ELSE Minus(bucket.cost, allocated)
             gain == Plus(bucket.gain, Minus(proceeds, allocated))
  <2>1. ApplyToBucket(bucket, e) =
          [bucket EXCEPT !.quantity = bucket.quantity - e.quantity,
                         !.gain = gain, !.cost = cost]
    BY <1>8 DEF ApplyToBucket, SellFromBucket, Buckets
  <2>2. bucket.quantity - e.quantity \in Int /\ cost \in Int \X Int /\ gain \in Int \X Int
    BY <1>1, <1>3, <1>4
  <2> HIDE DEF cost, gain
  <2>3. ApplyToBucket(bucket, e) = [quantity |-> bucket.quantity - e.quantity,
                                    cost |-> cost, gain |-> gain, raised |-> FALSE]
    BY <1>8, <2>1 DEF Buckets
  <2> HIDE DEF allocated, proceeds
  <2>4. ApplyToBucket(bucket, e) \in Buckets
    BY <2>2, <2>3 DEF Buckets
  <2>5. ~ApplyToBucket(bucket, e).raised
    BY <2>3
  <2>6. ApplyToBucket(bucket, e).quantity = bucket.quantity - e.quantity
    BY <2>3
  <2>7. QED
    BY <1>8, <2>4, <2>5, <2>6
<1>9. QED
  BY <1>1, <1>5, <1>6, <1>7, <1>8

\* Applying a trade to a bucket gives a bucket again.
LEMMA ApplyTradeType ==
    ASSUME NEW S, TradeBook(S)
    PROVE  ApplyTrade(S) \in [S \X Buckets -> Buckets] /\ EmptyBucket \in Buckets
<1>1. ASSUME NEW e \in S, NEW bucket \in Buckets
      PROVE  ApplyToBucket(bucket, e) \in Buckets
  <2>1. e.quantity \in Int /\ e.amount \in Int /\ e.costs \in Int
    BY DEF TradeBook
  <2>2. QED
    BY <2>1, ApplyType
<1>2. EmptyBucket \in Buckets
  BY DEF EmptyBucket, Buckets, Whole
<1>3. QED
  BY <1>1, <1>2 DEF ApplyTrade

\* The bucket of a part of S is what a fold of ApplyTrade gives it.
LEMMA BucketIs ==
    ASSUME NEW S, TradeBook(S), NEW g,
           Folds(S, Buckets, ApplyTrade(S), EmptyBucket, Latest(S), g), NEW T \in SUBSET S
    PROVE  BucketOf(T) = g[T]
<1> DEFINE Body(h) == [s \in SUBSET T |->
                          IF s = {} THEN EmptyBucket
                          ELSE LET x == Newest(s) IN ApplyToBucket(h[s \ {x}], x)]
           iter == CHOOSE h : h = Body(h)
           part == [s \in SUBSET T |-> g[s]]
<1>1. BucketOf(T) = iter[T]
  BY DEF BucketOf, MapThenFoldSet
<1>2. ASSUME NEW s \in SUBSET T
      PROVE  g[s] = IF s = {} THEN EmptyBucket
                    ELSE ApplyToBucket(g[s \ {Newest(s)}], Newest(s))
  <2>1. CASE s = {}
    BY <2>1 DEF Folds
  <2>2. CASE s # {}
    <3>1. Newest(s) \in s /\ Newest(s) \in S /\ Latest(S)[s] = Newest(s)
      BY <2>2, PartOfBook, NewestIsLast DEF Latest, TradeBook
    <3>2. g[s \ {Newest(s)}] \in Buckets
      BY <3>1 DEF Folds
    <3>3. g[s] = ApplyTrade(S)[<<Newest(s), g[s \ {Newest(s)}]>>]
      BY <2>2, <3>1 DEF Folds
    <3>4. QED
      BY <2>2, <3>1, <3>2, <3>3 DEF ApplyTrade
  <2>3. QED
    BY <2>1, <2>2
<1>3. part = Body(part)
  <2>1. ASSUME NEW s \in SUBSET T, s # {}
        PROVE  s \ {Newest(s)} \in SUBSET T
    OBVIOUS
  <2>2. QED
    BY <1>2, <2>1
<1>4. iter = Body(iter)
  <2> HIDE DEF Body, part
  <2>1. QED
    BY <1>3
<1>5. ASSUME NEW s \in SUBSET T
      PROVE  iter[s] = IF s = {} THEN EmptyBucket
                       ELSE ApplyToBucket(iter[s \ {Newest(s)}], Newest(s))
  BY <1>4
<1> HIDE DEF iter
<1>6. \A s \in SUBSET T : iter[s] = g[s]
  <2> DEFINE Bad == {s \in SUBSET T : iter[s] # g[s]}
  <2> SUFFICES ASSUME Bad # {} PROVE FALSE
    OBVIOUS
  <2>1. PICK s \in Bad : \A u \in Bad : u \subseteq s => u = s
    <3>1. Bad \in SUBSET SUBSET S /\ IsFiniteSet(S)
      BY DEF TradeBook, Book
    <3> HIDE DEF Bad
    <3>2. QED
      BY <3>1, LeastPart
  <2>2. s # {}
    BY <1>2, <1>5
  <2>3. Newest(s) \in s
    BY <2>2, PartOfBook, NewestIsLast DEF TradeBook
  <2>4. s \ {Newest(s)} \in SUBSET T /\ s \ {Newest(s)} \notin Bad
    BY <2>1, <2>3
  <2>5. QED
    BY <1>2, <1>5, <2>2, <2>4
<1>7. QED
  BY <1>1, <1>6

\* The bucket of trades is that of all but the last, with the last one applied.
LEMMA BucketUnfold ==
    ASSUME NEW S, TradeBook(S)
    PROVE  /\ BucketOf(S) \in Buckets
           /\ S = {} => BucketOf(S) = EmptyBucket
           /\ S # {} => BucketOf(S) =
                ApplyToBucket(BucketOf(S \ {Newest(S)}), Newest(S))
<1>1. PICK g : Folds(S, Buckets, ApplyTrade(S), EmptyBucket, Latest(S), g)
  <2>1. Picks(S, Latest(S)) /\ IsFiniteSet(S)
    BY LatestPicks DEF TradeBook, Book
  <2>2. \A x \in S : \A v \in Buckets : ApplyTrade(S)[<<x, v>>] \in Buckets
    BY ApplyTradeType
  <2>3. EmptyBucket \in Buckets
    BY ApplyTradeType
  <2>4. QED
    BY <2>1, <2>2, <2>3, FoldsExist
<1>2. \A T \in SUBSET S : BucketOf(T) = g[T]
  BY <1>1, BucketIs
<1>3. S # {} => g[S] = ApplyToBucket(g[S \ {Newest(S)}], Newest(S))
  <2>1. SUFFICES ASSUME S # {}
                 PROVE  g[S] = ApplyToBucket(g[S \ {Newest(S)}], Newest(S))
    OBVIOUS
  <2>2. Newest(S) \in S /\ Latest(S)[S] = Newest(S)
    BY <2>1, NewestIsLast DEF TradeBook, Latest
  <2>3. g[S \ {Newest(S)}] \in Buckets
    BY <1>1 DEF Folds
  <2>4. g[S] = ApplyTrade(S)[<<Newest(S), g[S \ {Newest(S)}]>>]
    BY <1>1, <2>1, <2>2 DEF Folds
  <2>5. QED
    BY <2>2, <2>3, <2>4 DEF ApplyTrade
<1>4. QED
  BY <1>1, <1>2, <1>3 DEF Folds

-----------------------------------------------------------------------------
(* The check of a trade and average cost                                   *)

\* Every sale of S is covered by the trades of S before it.
AllCovered(S) ==
    \A sale \in S : sale.type # "market_buy" =>
        sale.quantity <= Quantity({e \in S : Earlier(e, sale)})

\* A bucket whose sales are covered takes them all, and holds what its trades add
\* up to.
LEMMA CoveredTradesFit ==
    ASSUME NEW S, TradeBook(S), AllCovered(S)
    PROVE  ~BucketOf(S).raised /\ BucketOf(S).quantity = Quantity(S)
<1> DEFINE Fits(T) == ~BucketOf(T).raised /\ BucketOf(T).quantity = Quantity(T)
           Bad == {T \in SUBSET S : AllCovered(T) /\ ~Fits(T)}
<1> SUFFICES ASSUME Bad # {} PROVE FALSE
  OBVIOUS
<1>1. PICK T \in Bad : \A U \in Bad : U \subseteq T => U = T
  <2>1. Bad \in SUBSET SUBSET S /\ IsFiniteSet(S)
    BY DEF TradeBook, Book
  <2> HIDE DEF Bad
  <2>2. QED
    BY <2>1, LeastPart
<1>2. T \in SUBSET S /\ AllCovered(T) /\ ~Fits(T) /\ TradeBook(T) /\ Book(T)
  BY <1>1, PartOfTradeBook DEF TradeBook
<1>3. T # {}
  <2>1. SUFFICES ASSUME T = {} PROVE FALSE
    OBVIOUS
  <2>2. BucketOf(T) = EmptyBucket /\ Quantity(T) = 0
    BY <1>2, <2>1, BucketUnfold, QuantityUnfold
  <2>3. QED
    BY <1>2, <2>2 DEF EmptyBucket
<1> DEFINE x == Newest(T)
           R == T \ {x}
<1>4. x \in T /\ \A other \in R : Earlier(other, x)
  BY <1>2, <1>3, NewestIsLast
<1>5. /\ x.quantity \in Int /\ x.amount \in Int /\ x.costs \in Int
      /\ \A e \in T : e.id \in Nat /\ e.date \in Nat
  BY <1>2, <1>4 DEF TradeBook, Book
<1>6. TradeBook(R)
  BY <1>2, PartOfTradeBook
<1>7. ~Earlier(x, x) /\ \A sale \in R : ~Earlier(x, sale)
  BY <1>4, <1>5 DEF Earlier
<1>8. {e \in T : Earlier(e, x)} = R
  BY <1>4, <1>7
<1>9. \A sale \in R : {e \in T : Earlier(e, sale)} = {e \in R : Earlier(e, sale)}
  BY <1>7
<1>10. AllCovered(R)
  <2>1. ASSUME NEW sale \in R, sale.type # "market_buy"
        PROVE  sale.quantity <= Quantity({e \in R : Earlier(e, sale)})
    <3>1. sale \in T
      OBVIOUS
    <3>2. {e \in T : Earlier(e, sale)} = {e \in R : Earlier(e, sale)}
      BY <1>9
    <3>3. sale.quantity <= Quantity({e \in T : Earlier(e, sale)})
      BY <1>2, <2>1, <3>1 DEF AllCovered
    <3>4. QED
      BY <3>2, <3>3
  <2> HIDE DEF R
  <2>2. QED
    BY <2>1 DEF AllCovered
<1>11. Fits(R)
  <2>1. R \notin Bad
    BY <1>1, <1>4
  <2>2. R \in SUBSET S
    BY <1>2
  <2>3. QED
    BY <1>10, <2>1, <2>2
<1>12. x.type # "market_buy" => x.quantity <= Quantity(R)
  <2>1. x.type # "market_buy" => x.quantity <= Quantity({e \in T : Earlier(e, x)})
    BY <1>2, <1>4 DEF AllCovered
  <2>2. QED
    BY <1>8, <2>1
<1>13. /\ BucketOf(R) \in Buckets /\ Quantity(R) \in Int
       /\ BucketOf(T) = ApplyToBucket(BucketOf(R), x)
       /\ Quantity(T) = Signed(x) + Quantity(R)
  BY <1>2, <1>3, <1>4, <1>6, BucketUnfold, QuantityUnfold
<1> HIDE DEF x, R
<1>14. CASE x.type = "market_buy"
  <2>1. /\ ~ApplyToBucket(BucketOf(R), x).raised
        /\ ApplyToBucket(BucketOf(R), x).quantity = BucketOf(R).quantity + x.quantity
    BY <1>5, <1>11, <1>13, <1>14, ApplyType
  <2>2. Signed(x) = x.quantity
    BY <1>14 DEF Signed
  <2>3. QED
    BY <1>2, <1>5, <1>11, <1>13, <2>1, <2>2
<1>15. CASE x.type # "market_buy"
  <2>1. x.quantity <= BucketOf(R).quantity
    BY <1>11, <1>12, <1>15
  <2>2. /\ ~ApplyToBucket(BucketOf(R), x).raised
        /\ ApplyToBucket(BucketOf(R), x).quantity = BucketOf(R).quantity - x.quantity
    BY <1>5, <1>11, <1>13, <1>15, <2>1, ApplyType
  <2>3. Signed(x) = 0 - x.quantity
    BY <1>15 DEF Signed
  <2>4. QED
    BY <1>2, <1>5, <1>11, <1>13, <2>2, <2>3
<1>16. QED
  BY <1>14, <1>15

\* a and b are the same trade under two ids, both after those of S.
Twins(S, a, b) ==
    /\ TradeBook(S) /\ TradeBook(S \cup {a}) /\ TradeBook(S \cup {b})
    /\ a.date = b.date /\ a.type = b.type /\ a.quantity = b.quantity
    /\ \A e \in S : e.id < a.id /\ e.id < b.id

\* Each stands for the other in the quantity.
LEMMA TwinQuantity ==
    ASSUME NEW S, NEW a, NEW b, Twins(S, a, b)
    PROVE  Quantity(S \cup {a}) = Quantity(S \cup {b})
<1>1. a \notin S /\ b \notin S
  BY DEF Twins, TradeBook, Book
<1>2. (S \cup {a}) \ {a} = S /\ (S \cup {b}) \ {b} = S
  BY <1>1
<1>3. /\ Quantity(S \cup {a}) = Signed(a) + Quantity(S)
      /\ Quantity(S \cup {b}) = Signed(b) + Quantity(S)
  BY <1>2, QuantityUnfold DEF Twins
<1>4. Signed(a) = Signed(b)
  BY DEF Twins, Signed
<1>5. QED
  BY <1>3, <1>4

\* And in the check.
LEMMA TwinCovered ==
    ASSUME NEW S, NEW a, NEW b, Twins(S, a, b), AllCovered(S \cup {a})
    PROVE  AllCovered(S \cup {b})
<1>1. /\ a.id \in Nat /\ b.id \in Nat /\ a.date \in Nat /\ b.date \in Nat
      /\ \A e \in S : e.id \in Nat /\ e.date \in Nat
  BY DEF Twins, TradeBook, Book
<1>2. a \notin S /\ b \notin S /\ ~Earlier(a, a) /\ ~Earlier(b, b)
  BY <1>1 DEF Twins, Earlier
<1>3. \A e \in S : /\ Earlier(a, e) <=> Earlier(b, e)
                   /\ Earlier(e, a) <=> Earlier(e, b)
  BY <1>1 DEF Twins, Earlier
<1> SUFFICES ASSUME NEW sale \in S \cup {b}, sale.type # "market_buy"
             PROVE  sale.quantity <= Quantity({e \in S \cup {b} : Earlier(e, sale)})
  BY DEF AllCovered
<1>4. CASE sale = b
  <2>1. {e \in S \cup {b} : Earlier(e, b)} = {e \in S \cup {a} : Earlier(e, a)}
    BY <1>2, <1>3
  <2>2. a.quantity <= Quantity({e \in S \cup {a} : Earlier(e, a)})
    <3>1. a \in S \cup {a} /\ a.type # "market_buy"
      BY <1>4 DEF Twins
    <3>2. QED
      BY <3>1 DEF AllCovered
  <2>3. QED
    BY <1>4, <2>1, <2>2 DEF Twins
<1>5. CASE sale \in S
  <2> DEFINE P == {e \in S : Earlier(e, sale)}
  <2>1. sale.quantity <= Quantity({e \in S \cup {a} : Earlier(e, sale)})
    BY <1>5 DEF AllCovered
  <2>2. CASE Earlier(b, sale)
    <3>1. /\ {e \in S \cup {a} : Earlier(e, sale)} = P \cup {a}
          /\ {e \in S \cup {b} : Earlier(e, sale)} = P \cup {b}
      BY <1>3, <1>5, <2>2
    <3>2. Twins(P, a, b)
      <4>1. P \in SUBSET S /\ P \cup {a} \in SUBSET (S \cup {a})
                           /\ P \cup {b} \in SUBSET (S \cup {b})
        OBVIOUS
      <4> HIDE DEF P
      <4>2. TradeBook(P) /\ TradeBook(P \cup {a}) /\ TradeBook(P \cup {b})
        BY <4>1, PartOfTradeBook DEF Twins
      <4>3. QED
        BY <4>1, <4>2 DEF Twins
    <3> HIDE DEF P
    <3>3. Quantity(P \cup {a}) = Quantity(P \cup {b})
      BY <3>2, TwinQuantity
    <3>4. QED
      BY <2>1, <3>1, <3>3
  <2>3. CASE ~Earlier(b, sale)
    <3>1. {e \in S \cup {a} : Earlier(e, sale)} = {e \in S \cup {b} : Earlier(e, sale)}
      BY <1>3, <1>5, <2>3
    <3>2. QED
      BY <2>1, <3>1
  <2>4. QED
    BY <2>2, <2>3
<1>6. QED
  BY <1>4, <1>5

-----------------------------------------------------------------------------
(* The arithmetic of average cost                                          *)

\* What was paid less the cost n/d is what was received less the gain m/k.
Balanced(paid, received, n, d, m, k) == (paid * d - n) * k = (received * k - m) * d

\* A unit bought at c for a quantity of u costs at most the average n/d over q.
Cheap(c, u, q, n, d) == c * q * d <= n * u

Dear(c, u, q, n, d) == c * q * d >= n * u

\* Products that the solver is told the sign of.
LEMMA ProductSigns ==
    ASSUME NEW a \in Int, NEW b \in Int
    PROVE  /\ a > 0 /\ b > 0 => a * b > 0
           /\ a >= 0 /\ b >= 0 => a * b >= 0
OBVIOUS

\* A factor that is not negative keeps an order ...
LEMMA ProductOrder ==
    ASSUME NEW a \in Int, NEW b \in Int, NEW c \in Int, a <= b, c >= 0
    PROVE  a * c <= b * c
OBVIOUS

\* ... and a positive one may be taken away.
LEMMA ProductCancel ==
    ASSUME NEW a \in Int, NEW b \in Int, NEW c \in Int, a * c <= b * c, c > 0
    PROVE  a <= b
OBVIOUS

\* A buy adds its cost to both sides.
LEMMA BuyBalanced ==
    ASSUME NEW p \in Int, NEW r \in Int, NEW n \in Int, NEW d \in Int, NEW m \in Int,
           NEW k \in Int, NEW c \in Int, Balanced(p, r, n, d, m, k)
    PROVE  Balanced(c + p, r, n + c * d, d, m, k)
<1>1. (c + p) * d - (n + c * d) = p * d - n
  OBVIOUS
<1>2. QED
  BY <1>1 DEF Balanced

\* A sale of u units out of q moves their share of the cost to the gain.
LEMMA SaleBalanced ==
    ASSUME NEW p \in Int, NEW r \in Int, NEW n \in Int, NEW d \in Int, NEW m \in Int,
           NEW k \in Int, NEW q \in Int, NEW u \in Int, NEW s \in Int,
           Balanced(p, r, n, d, m, k)
    PROVE  Balanced(p, s + r, n * (d * q) - (n * u) * d, d * (d * q),
                    m * (d * q) + (s * (d * q) - n * u) * k, k * (d * q))
<1> DEFINE left  == (p * d - n) * k
           right == (r * k - m) * d
<1>1. left = right /\ left \in Int /\ right \in Int
  BY DEF Balanced
<1>2. p * (d * (d * q)) - (n * (d * q) - (n * u) * d) = d * ((p * d - n) * q + n * u)
  OBVIOUS
<1>3. (s + r) * (k * (d * q)) - (m * (d * q) + (s * (d * q) - n * u) * k)
        = (r * k - m) * (d * q) + (n * u) * k
  OBVIOUS
<1>4. (d * ((p * d - n) * q + n * u)) * (k * (d * q))
        = (left * q + (n * u) * k) * (d * (d * q))
  OBVIOUS
<1>5. ((r * k - m) * (d * q) + (n * u) * k) * (d * (d * q))
        = (right * q + (n * u) * k) * (d * (d * q))
  OBVIOUS
<1> HIDE DEF left, right
<1>6. QED
  BY <1>1, <1>2, <1>3, <1>4, <1>5 DEF Balanced

\* A sale of all q units moves all of the cost.
LEMMA LastSaleBalanced ==
    ASSUME NEW p \in Int, NEW r \in Int, NEW n \in Int, NEW d \in Int, NEW m \in Int,
           NEW k \in Int, NEW q \in Int, NEW s \in Int, Balanced(p, r, n, d, m, k)
    PROVE  Balanced(p, s + r, 0, 1,
                    m * (d * q) + (s * (d * q) - n * q) * k, k * (d * q))
<1> DEFINE left  == (p * d - n) * k
           right == (r * k - m) * d
<1>1. left = right /\ left \in Int /\ right \in Int
  BY DEF Balanced
<1>2. (p * 1 - 0) * (k * (d * q)) = (left + n * k) * q
  OBVIOUS
<1>3. ((s + r) * (k * (d * q)) - (m * (d * q) + (s * (d * q) - n * q) * k)) * 1
        = (right + n * k) * q
  OBVIOUS
<1> HIDE DEF left, right
<1>4. QED
  BY <1>1, <1>2, <1>3 DEF Balanced

\* The first buy is the average.
LEMMA FirstBuyAverage ==
    ASSUME NEW c \in Int, NEW u \in Int
    PROVE  Cheap(c, u, u, c, 1) /\ Dear(c, u, u, c, 1)
BY DEF Cheap, Dear

\* After a buy the cheapest unit, if it was not the one bought, is still below.
LEMMA BuyCheap ==
    ASSUME NEW c \in Int, NEW u \in Int, NEW b \in Int, NEW v \in Int, NEW q \in Int,
           NEW n \in Int, NEW d \in Int, u > 0, v > 0, q >= 0, d > 0,
           Cheap(c, u, q, n, d)
    PROVE  Cheap(c, u, q + v, n + b * d, d) \/ Cheap(b, v, q + v, n + b * d, d)
<1>1. CASE c * v <= b * u
  <2>1. (c * v) * d <= (b * u) * d
    BY <1>1, ProductOrder
  <2>2. c * (q + v) * d = c * q * d + (c * v) * d
    OBVIOUS
  <2>3. (n + b * d) * u = n * u + (b * u) * d
    OBVIOUS
  <2>4. QED
    BY <2>1, <2>2, <2>3 DEF Cheap
<1>2. CASE b * u <= c * v
  <2>1. q * d \in Int /\ q * d >= 0
    BY ProductSigns
  <2>2. (b * u) * (q * d) <= (c * v) * (q * d)
    BY <1>2, <2>1, ProductOrder
  <2>3. (c * q * d) * v <= (n * u) * v
    BY ProductOrder DEF Cheap
  <2>4. (c * v) * (q * d) = (c * q * d) * v
    OBVIOUS
  <2>5. (b * u) * (q * d) = (b * q * d) * u /\ (n * u) * v = (n * v) * u
    OBVIOUS
  <2>6. (b * q * d) * u <= (n * v) * u
    BY <2>2, <2>3, <2>4, <2>5
  <2>7. b * q * d <= n * v
    BY <2>6, ProductCancel
  <2>8. b * (q + v) * d = b * q * d + (b * d) * v
    OBVIOUS
  <2>9. (n + b * d) * v = n * v + (b * d) * v
    OBVIOUS
  <2>10. QED
    BY <2>7, <2>8, <2>9 DEF Cheap
<1>3. QED
  BY <1>1, <1>2

\* Dear is Cheap of the negated costs.
LEMMA DearIsCheap ==
    ASSUME NEW c \in Int, NEW u \in Int, NEW q \in Int, NEW n \in Int, NEW d \in Int
    PROVE  Dear(c, u, q, n, d) <=> Cheap(0 - c, u, q, 0 - n, d)
<1>1. (0 - c) * q * d = 0 - c * q * d /\ (0 - n) * u = 0 - n * u
  OBVIOUS
<1>2. c * q * d \in Int /\ n * u \in Int
  OBVIOUS
<1>3. QED
  BY <1>1, <1>2 DEF Cheap, Dear

\* So the dearest unit, if it was not the one bought, is still above.
LEMMA BuyDear ==
    ASSUME NEW c \in Int, NEW u \in Int, NEW b \in Int, NEW v \in Int, NEW q \in Int,
           NEW n \in Int, NEW d \in Int, u > 0, v > 0, q >= 0, d > 0,
           Dear(c, u, q, n, d)
    PROVE  Dear(c, u, q + v, n + b * d, d) \/ Dear(b, v, q + v, n + b * d, d)
<1>1. Cheap(0 - c, u, q, 0 - n, d)
  BY DearIsCheap
<1>2. (0 - n) + (0 - b) * d = 0 - (n + b * d)
  OBVIOUS
<1>3. 0 - c \in Int /\ 0 - b \in Int /\ 0 - n \in Int
  OBVIOUS
<1>4. \/ Cheap(0 - c, u, q + v, (0 - n) + (0 - b) * d, d)
      \/ Cheap(0 - b, v, q + v, (0 - n) + (0 - b) * d, d)
  BY <1>1, <1>3, BuyCheap
<1>5. q + v \in Int /\ n + b * d \in Int
  OBVIOUS
<1>6. QED
  BY <1>2, <1>4, <1>5, DearIsCheap

\* A sale leaves the average as it is.
LEMMA SaleAverage ==
    ASSUME NEW c \in Int, NEW u \in Int, NEW q \in Int, NEW n \in Int, NEW d \in Int,
           NEW v \in Int, v <= q, q >= 0, d > 0
    PROVE  /\ Cheap(c, u, q, n, d) =>
                Cheap(c, u, q - v, n * (d * q) - (n * v) * d, d * (d * q))
           /\ Dear(c, u, q, n, d) =>
                Dear(c, u, q - v, n * (d * q) - (n * v) * d, d * (d * q))
<1> DEFINE left == c * q * d
           right == n * u
           w == (q - v) * d
<1>1. w \in Int /\ w >= 0 /\ left \in Int /\ right \in Int
  <2>1. q - v \in Int /\ q - v >= 0 /\ d >= 0
    OBVIOUS
  <2>2. QED
    BY <2>1, ProductSigns
<1>2. c * (q - v) * (d * (d * q)) = left * w
  OBVIOUS
<1>3. (n * (d * q) - (n * v) * d) * u = right * w
  OBVIOUS
<1>4. Cheap(c, u, q, n, d) <=> left <= right
  BY DEF Cheap
<1>5. Dear(c, u, q, n, d) <=> right <= left
  BY DEF Dear
<1> HIDE DEF left, right, w
<1>6. /\ left <= right => left * w <= right * w
      /\ right <= left => right * w <= left * w
  BY <1>1, ProductOrder
<1>7. left * w \in Int /\ right * w \in Int
  BY <1>1
<1>8. QED
  BY <1>2, <1>3, <1>4, <1>5, <1>6, <1>7 DEF Cheap, Dear

-----------------------------------------------------------------------------
(* The books of average cost                                               *)

\* Paid and Received take one trade more.
LEMMA PaidUnfold ==
    ASSUME NEW S, TradeBook(S)
    PROVE  /\ Paid(S) \in Int /\ Received(S) \in Int
           /\ S = {} => Paid(S) = 0 /\ Received(S) = 0
           /\ \A x \in S : x.type = "market_buy" =>
                 /\ Paid(S) = Cost(x) + Paid(S \ {x})
                 /\ Received(S) = Received(S \ {x})
           /\ \A x \in S : x.type # "market_buy" =>
                 /\ Paid(S) = Paid(S \ {x})
                 /\ Received(S) = Proceeds(x) + Received(S \ {x})
<1> DEFINE f == [e \in S |-> Cost(e)]
           g == [e \in S |-> Proceeds(e)]
           B == Buys(S)
           R == S \ Buys(S)
<1>1. IsFiniteSet(S) /\ f \in [S -> Int] /\ g \in [S -> Int]
  BY DEF TradeBook, Book, Cost, Proceeds
<1>2. B \in SUBSET S /\ R \in SUBSET S /\ IsFiniteSet(B) /\ IsFiniteSet(R)
  BY <1>1, FS_Subset DEF Buys
<1>3. ASSUME NEW T \in SUBSET S
      PROVE  /\ Paid(T) = SumFunctionOnSet(f, Buys(T))
             /\ Received(T) = SumFunctionOnSet(g, T \ Buys(T))
  <2>1. /\ [e \in Buys(T) |-> Cost(e)] = [e \in Buys(T) |-> f[e]]
        /\ [e \in T \ Buys(T) |-> Proceeds(e)] = [e \in T \ Buys(T) |-> g[e]]
        /\ Buys(T) \in SUBSET S /\ T \ Buys(T) \in SUBSET S
    BY DEF Buys
  <2> HIDE DEF f, g
  <2>2. /\ SumFunction([e \in Buys(T) |-> f[e]]) = SumFunctionOnSet(f, Buys(T))
        /\ SumFunction([e \in T \ Buys(T) |-> g[e]]) = SumFunctionOnSet(g, T \ Buys(T))
    BY <1>1, <2>1, PartSum
  <2>3. QED
    BY <2>1, <2>2 DEF Paid, Received
<1>4. \A x \in S : f[x] = Cost(x) /\ g[x] = Proceeds(x)
  OBVIOUS
<1> HIDE DEF f, g
<1>5. Paid(S) = SumFunctionOnSet(f, B) /\ Received(S) = SumFunctionOnSet(g, R)
  BY <1>3
<1>6. (\A x \in B : f[x] \in Int) /\ (\A x \in R : g[x] \in Int)
  BY <1>1, <1>2
<1> HIDE DEF B, R
<1>7. /\ SumFunctionOnSet(f, B) \in Int
      /\ B = {} => SumFunctionOnSet(f, B) = 0
      /\ \A x \in B : SumFunctionOnSet(f, B) = f[x] + SumFunctionOnSet(f, B \ {x})
  BY <1>2, <1>6, SumUnfold
<1>8. /\ SumFunctionOnSet(g, R) \in Int
      /\ R = {} => SumFunctionOnSet(g, R) = 0
      /\ \A x \in R : SumFunctionOnSet(g, R) = g[x] + SumFunctionOnSet(g, R \ {x})
  BY <1>2, <1>6, SumUnfold
<1>9. ASSUME NEW x \in S, x.type = "market_buy"
      PROVE  /\ Paid(S) = Cost(x) + Paid(S \ {x})
             /\ Received(S) = Received(S \ {x})
  <2>1. x \in B /\ Buys(S \ {x}) = B \ {x} /\ (S \ {x}) \ Buys(S \ {x}) = R
    BY <1>9 DEF Buys, B, R
  <2>2. /\ Paid(S \ {x}) = SumFunctionOnSet(f, B \ {x})
        /\ Received(S \ {x}) = SumFunctionOnSet(g, R)
    BY <1>3, <2>1
  <2>3. QED
    BY <1>4, <1>5, <1>7, <2>1, <2>2
<1>10. ASSUME NEW x \in S, x.type # "market_buy"
       PROVE  /\ Paid(S) = Paid(S \ {x})
              /\ Received(S) = Proceeds(x) + Received(S \ {x})
  <2>1. x \in R /\ Buys(S \ {x}) = B /\ (S \ {x}) \ Buys(S \ {x}) = R \ {x}
    BY <1>10 DEF Buys, B, R
  <2>2. /\ Paid(S \ {x}) = SumFunctionOnSet(f, B)
        /\ Received(S \ {x}) = SumFunctionOnSet(g, R \ {x})
    BY <1>3, <2>1
  <2>3. QED
    BY <1>4, <1>5, <1>8, <2>1, <2>2
<1>11. S = {} => B = {} /\ R = {}
  BY <1>2
<1>12. QED
  BY <1>5, <1>7, <1>8, <1>9, <1>10, <1>11

\* The fields of a bucket after a buy, the fractions spelt out.
LEMMA BuyFields ==
    ASSUME NEW b \in Buckets, ~b.raised, NEW e, e.type = "market_buy",
           e.quantity \in Int, e.amount \in Int, e.costs \in Int
    PROVE  LET after == ApplyToBucket(b, e)
           IN /\ after.quantity = b.quantity + e.quantity
              /\ after.cost[1] = b.cost[1] + Cost(e) * b.cost[2]
              /\ after.cost[2] = b.cost[2]
              /\ after.gain = b.gain
<1> DEFINE cost == Plus(b.cost, Whole(e.amount + e.costs))
<1>1. ApplyToBucket(b, e) = [b EXCEPT !.quantity = b.quantity + e.quantity, !.cost = cost]
  BY DEF ApplyToBucket, Buckets
<1>2. /\ b.quantity \in Int /\ b.cost[1] \in Int /\ b.cost[2] \in Int
      /\ e.amount + e.costs \in Int
      /\ {"quantity", "cost", "gain", "raised"} = DOMAIN b
  BY DEF Buckets
<1>3. cost[1] = b.cost[1] * 1 + (e.amount + e.costs) * b.cost[2] /\ cost[2] = b.cost[2] * 1
  BY DEF Plus, Whole
<1> HIDE DEF cost
<1>4. /\ ApplyToBucket(b, e).quantity = b.quantity + e.quantity
      /\ ApplyToBucket(b, e).cost = cost
      /\ ApplyToBucket(b, e).gain = b.gain
  BY <1>1, <1>2
<1>5. cost[1] = b.cost[1] + Cost(e) * b.cost[2] /\ cost[2] = b.cost[2]
  BY <1>2, <1>3 DEF Cost
<1>6. QED
  BY <1>4, <1>5

\* And after a sale: its share of the cost leaves the bucket and counts against the
\* proceeds.
LEMMA SaleFields ==
    ASSUME NEW b \in Buckets, ~b.raised, NEW e, e.type # "market_buy",
           e.quantity \in Int, e.amount \in Int, e.costs \in Int,
           e.quantity <= b.quantity
    PROVE  LET after == ApplyToBucket(b, e)
               n == b.cost[1]  d == b.cost[2]  m == b.gain[1]  k == b.gain[2]
               q == b.quantity u == e.quantity s == Proceeds(e)
           IN /\ after.quantity = q - u
              /\ after.gain[1] = m * (d * q) + (s * (d * q) - n * u) * k
              /\ after.gain[2] = k * (d * q)
              /\ u = q => after.cost[1] = 0 /\ after.cost[2] = 1
              /\ u # q => /\ after.cost[1] = n * (d * q) - (n * u) * d
                          /\ after.cost[2] = d * (d * q)
<1> DEFINE n == b.cost[1]  d == b.cost[2]  m == b.gain[1]  k == b.gain[2]
           q == b.quantity u == e.quantity s == Proceeds(e)
           allocated == Times(b.cost, <<u, q>>)
           gain == Plus(b.gain, Minus(Whole(s), allocated))
           cost == IF u = q THEN Whole(0) ELSE Minus(b.cost, allocated)
<1>1. /\ n \in Int /\ d \in Int /\ m \in Int /\ k \in Int /\ q \in Int /\ u \in Int
      /\ s \in Int /\ {"quantity", "cost", "gain", "raised"} = DOMAIN b
      /\ ~(u > q)
  BY DEF Buckets, Proceeds
<1>2. allocated[1] = n * u /\ allocated[2] = d * q
  BY DEF Times
<1>3. gain[1] = m * (1 * (d * q)) + (s * (d * q) - (n * u) * 1) * k /\ gain[2] = k * (1 * (d * q))
  BY <1>2 DEF Plus, Minus, Whole
<1>4. /\ u = q => cost[1] = 0 /\ cost[2] = 1
      /\ u # q => cost[1] = n * (d * q) - (n * u) * d /\ cost[2] = d * (d * q)
  BY <1>2 DEF Minus, Whole
<1>5. ApplyToBucket(b, e) = [b EXCEPT !.quantity = q - u, !.gain = gain, !.cost = cost]
  BY <1>1 DEF ApplyToBucket, SellFromBucket, Buckets, Proceeds
<1> HIDE DEF gain, cost, allocated
<1>6. /\ ApplyToBucket(b, e).quantity = q - u
      /\ ApplyToBucket(b, e).gain = gain
      /\ ApplyToBucket(b, e).cost = cost
  BY <1>1, <1>5
<1> HIDE DEF n, d, m, k, q, u, s
<1>7. /\ gain[1] = m * (d * q) + (s * (d * q) - n * u) * k
      /\ gain[2] = k * (d * q)
  BY <1>1, <1>3
<1>8. QED
  BY <1>4, <1>6, <1>7 DEF n, d, m, k, q, u, s

\* A bucket of T that has not raised.
Closed(T, b) ==
    /\ b.quantity = Quantity(T) /\ b.quantity >= 0
    /\ b.cost[2] > 0 /\ b.gain[2] > 0
    /\ Balanced(Paid(T), Received(T), b.cost[1], b.cost[2], b.gain[1], b.gain[2])
    /\ b.quantity = 0 => b.cost[1] = 0
    /\ T = {} \/ \E low, high \in Buys(T) :
          /\ Cheap(Cost(low), low.quantity, b.quantity, b.cost[1], b.cost[2])
          /\ Dear(Cost(high), high.quantity, b.quantity, b.cost[1], b.cost[2])

\* A buy closes again.
LEMMA BuyCloses ==
    ASSUME NEW T, TradeBook(T), \A e \in T : e.quantity > 0,
           NEW x \in T, x.type = "market_buy",
           NEW b \in Buckets, ~b.raised, Closed(T \ {x}, b)
    PROVE  Closed(T, ApplyToBucket(b, x))
<1> DEFINE R == T \ {x}
           n == b.cost[1]  d == b.cost[2]  m == b.gain[1]  k == b.gain[2]
           q == b.quantity v == x.quantity c == Cost(x)
           after == ApplyToBucket(b, x)
<1>1. /\ x.quantity \in Int /\ x.amount \in Int /\ x.costs \in Int /\ x.quantity > 0
      /\ \A e \in T : e.quantity \in Int /\ Cost(e) \in Int
  BY DEF TradeBook, Cost
<1>2. /\ n \in Int /\ d \in Int /\ m \in Int /\ k \in Int /\ q \in Int /\ v \in Int
      /\ c \in Int /\ q >= 0 /\ d > 0 /\ k > 0 /\ v > 0
  BY <1>1 DEF Buckets, Closed
<1>3. /\ after.quantity = q + v /\ after.cost[1] = n + c * d /\ after.cost[2] = d
      /\ after.gain[1] = m /\ after.gain[2] = k
  BY <1>1, BuyFields
<1>4. TradeBook(R)
  BY PartOfTradeBook
<1>5. Paid(R) \in Int /\ Received(R) \in Int
  BY <1>4, PaidUnfold
<1>6. Paid(T) = c + Paid(R) /\ Received(T) = Received(R)
  BY PaidUnfold
<1>7. Quantity(T) = v + Quantity(R) /\ q = Quantity(R)
  BY QuantityUnfold DEF Signed, Closed
<1>8. Balanced(Paid(R), Received(R), n, d, m, k)
  BY DEF Closed
<1>9. Balanced(Paid(T), Received(T), n + c * d, d, m, k)
  <2> HIDE DEF n, d, m, k, c, R
  <2>1. QED
    BY <1>2, <1>5, <1>6, <1>8, BuyBalanced
<1>10. \E low, high \in Buys(T) :
          /\ Cheap(Cost(low), low.quantity, q + v, n + c * d, d)
          /\ Dear(Cost(high), high.quantity, q + v, n + c * d, d)
  <2>1. x \in Buys(T)
    BY DEF Buys
  <2>2. CASE R = {}
    <3>1. q = 0
      BY <1>4, <1>7, <2>2, QuantityUnfold
    <3>2. n = 0
      BY <3>1 DEF Closed
    <3> HIDE DEF n, d, q, v, c
    <3>3. /\ c * (q + v) * d = c * v * d /\ (n + c * d) * v = c * v * d
      BY <1>2, <3>1, <3>2
    <3>4. c * v * d \in Int
      BY <1>2
    <3>5. Cheap(c, v, q + v, n + c * d, d) /\ Dear(c, v, q + v, n + c * d, d)
      BY <3>3, <3>4 DEF Cheap, Dear
    <3>6. QED
      BY <2>1, <3>5 DEF c, v
  <2>3. CASE R # {}
    <3>1. PICK low \in Buys(R), high \in Buys(R) :
             /\ Cheap(Cost(low), low.quantity, q, n, d)
             /\ Dear(Cost(high), high.quantity, q, n, d)
      BY <2>3 DEF Closed
    <3>2. low \in Buys(T) /\ high \in Buys(T) /\ low \in T /\ high \in T
      BY DEF Buys
    <3>3. /\ low.quantity \in Int /\ low.quantity > 0 /\ Cost(low) \in Int
          /\ high.quantity \in Int /\ high.quantity > 0 /\ Cost(high) \in Int
      BY <1>1, <3>2
    <3> HIDE DEF n, d, q, v, c
    <3>4. \/ Cheap(Cost(low), low.quantity, q + v, n + c * d, d)
          \/ Cheap(c, v, q + v, n + c * d, d)
      BY <1>2, <3>1, <3>3, BuyCheap
    <3>5. \/ Dear(Cost(high), high.quantity, q + v, n + c * d, d)
          \/ Dear(c, v, q + v, n + c * d, d)
      BY <1>2, <3>1, <3>3, BuyDear
    <3>6. QED
      BY <2>1, <3>2, <3>4, <3>5 DEF c, v
  <2>4. QED
    BY <2>2, <2>3
<1>11. q + v > 0 /\ q + v >= 0 /\ q + v # 0
  BY <1>2
<1> HIDE DEF after, n, d, m, k, q, v, c, R
<1>12. after.quantity = Quantity(T)
  BY <1>2, <1>3, <1>7
<1>13. QED
  BY <1>2, <1>3, <1>9, <1>10, <1>11, <1>12 DEF Closed, after

\* So does a sale that the bucket covers.
LEMMA SaleCloses ==
    ASSUME NEW T, TradeBook(T), \A e \in T : e.quantity > 0,
           NEW x \in T, x.type # "market_buy",
           NEW b \in Buckets, ~b.raised, Closed(T \ {x}, b), x.quantity <= b.quantity
    PROVE  Closed(T, ApplyToBucket(b, x))
<1> DEFINE R == T \ {x}
           n == b.cost[1]  d == b.cost[2]  m == b.gain[1]  k == b.gain[2]
           q == b.quantity v == x.quantity s == Proceeds(x)
           after == ApplyToBucket(b, x)
<1>1. /\ x.quantity \in Int /\ x.amount \in Int /\ x.costs \in Int /\ x.quantity > 0
      /\ \A e \in T : e.quantity \in Int /\ Cost(e) \in Int
  BY DEF TradeBook, Cost
<1>2. /\ n \in Int /\ d \in Int /\ m \in Int /\ k \in Int /\ q \in Int /\ v \in Int
      /\ s \in Int /\ q >= 0 /\ d > 0 /\ k > 0 /\ v > 0 /\ v <= q /\ q > 0
  BY <1>1 DEF Buckets, Closed, Proceeds
<1>3. /\ after.quantity = q - v
      /\ after.gain[1] = m * (d * q) + (s * (d * q) - n * v) * k
      /\ after.gain[2] = k * (d * q)
      /\ v = q => after.cost[1] = 0 /\ after.cost[2] = 1
      /\ v # q => /\ after.cost[1] = n * (d * q) - (n * v) * d
                  /\ after.cost[2] = d * (d * q)
  BY <1>1, SaleFields
<1>4. TradeBook(R)
  BY PartOfTradeBook
<1>5. Paid(R) \in Int /\ Received(R) \in Int
  BY <1>4, PaidUnfold
<1>6. Paid(T) = Paid(R) /\ Received(T) = s + Received(R)
  BY PaidUnfold
<1>7. Quantity(T) = (0 - v) + Quantity(R) /\ q = Quantity(R)
  BY QuantityUnfold DEF Signed, Closed
<1>8. Balanced(Paid(R), Received(R), n, d, m, k)
  BY DEF Closed
<1>9. R # {}
  <2>1. R = {} => Quantity(R) = 0
    BY <1>4, QuantityUnfold
  <2>2. QED
    BY <1>2, <1>7, <2>1
<1>10. PICK low \in Buys(R), high \in Buys(R) :
          /\ Cheap(Cost(low), low.quantity, q, n, d)
          /\ Dear(Cost(high), high.quantity, q, n, d)
  BY <1>9 DEF Closed
<1>11. low \in Buys(T) /\ high \in Buys(T) /\ low \in T /\ high \in T
  BY DEF Buys
<1>12. /\ low.quantity \in Int /\ Cost(low) \in Int
       /\ high.quantity \in Int /\ Cost(high) \in Int
  BY <1>1, <1>11
<1>13. after.quantity = Quantity(T)
  BY <1>2, <1>3, <1>7
<1> HIDE DEF after, n, d, m, k, q, v, s, R
<1>14. d * q \in Int /\ d * q > 0
  BY <1>2, ProductSigns
<1>15. k * (d * q) > 0 /\ d * (d * q) > 0 /\ k * (d * q) \in Int /\ d * (d * q) \in Int
  BY <1>2, <1>14, ProductSigns
<1>16. q - v >= 0 /\ (q - v = 0 <=> v = q)
  BY <1>2
<1>17. CASE v = q
  <2>1. Balanced(Paid(T), Received(T), 0, 1, after.gain[1], after.gain[2])
    <3>1. Balanced(Paid(R), s + Received(R), 0, 1,
                   m * (d * q) + (s * (d * q) - n * q) * k, k * (d * q))
      BY <1>2, <1>5, <1>8, LastSaleBalanced
    <3>2. QED
      BY <1>3, <1>6, <1>17, <3>1
  <2>2. /\ Cheap(Cost(low), low.quantity, 0, 0, 1)
        /\ Dear(Cost(high), high.quantity, 0, 0, 1)
    <3>1. /\ Cost(low) * 0 * 1 = 0 /\ 0 * low.quantity = 0
          /\ Cost(high) * 0 * 1 = 0 /\ 0 * high.quantity = 0
      BY <1>12
    <3>2. QED
      BY <3>1 DEF Cheap, Dear
  <2>3. after.quantity = 0 /\ after.cost[1] = 0 /\ after.cost[2] = 1
    BY <1>3, <1>16, <1>17
  <2>4. after.gain[2] > 0
    BY <1>3, <1>15
  <2>5. \E lo, hi \in Buys(T) :
          /\ Cheap(Cost(lo), lo.quantity, after.quantity, after.cost[1], after.cost[2])
          /\ Dear(Cost(hi), hi.quantity, after.quantity, after.cost[1], after.cost[2])
    BY <1>11, <2>2, <2>3
  <2>6. Balanced(Paid(T), Received(T), after.cost[1], after.cost[2],
                 after.gain[1], after.gain[2])
    BY <2>1, <2>3
  <2>7. QED
    BY <1>13, <2>3, <2>4, <2>5, <2>6 DEF Closed, after
<1>18. CASE v # q
  <2>1. after.cost[1] = n * (d * q) - (n * v) * d /\ after.cost[2] = d * (d * q)
    BY <1>3, <1>18
  <2>2. Balanced(Paid(T), Received(T), after.cost[1], after.cost[2],
                 after.gain[1], after.gain[2])
    <3>1. Balanced(Paid(R), s + Received(R), n * (d * q) - (n * v) * d, d * (d * q),
                   m * (d * q) + (s * (d * q) - n * v) * k, k * (d * q))
      BY <1>2, <1>5, <1>8, SaleBalanced
    <3>2. QED
      BY <1>3, <1>6, <2>1, <3>1
  <2>3. /\ Cheap(Cost(low), low.quantity, q - v, n * (d * q) - (n * v) * d, d * (d * q))
        /\ Dear(Cost(high), high.quantity, q - v, n * (d * q) - (n * v) * d, d * (d * q))
    BY <1>2, <1>10, <1>12, SaleAverage
  <2>4. \E lo, hi \in Buys(T) :
          /\ Cheap(Cost(lo), lo.quantity, after.quantity, after.cost[1], after.cost[2])
          /\ Dear(Cost(hi), hi.quantity, after.quantity, after.cost[1], after.cost[2])
    BY <1>3, <1>11, <2>1, <2>3
  <2>5. after.quantity # 0 /\ after.quantity >= 0 /\ after.cost[2] > 0 /\ after.gain[2] > 0
    BY <1>3, <1>15, <1>16, <1>18, <2>1
  <2>6. QED
    BY <1>13, <2>2, <2>4, <2>5 DEF Closed, after
<1>19. QED
  BY <1>17, <1>18

\* A sale that a bucket cannot cover raises, and what has raised stays so.
LEMMA RaisedStays ==
    ASSUME NEW b \in Buckets, NEW e,
           e.quantity \in Int, e.amount \in Int, e.costs \in Int,
           ~ApplyToBucket(b, e).raised
    PROVE  ~b.raised /\ (e.type # "market_buy" => e.quantity <= b.quantity)
<1>1. ~b.raised
  BY ApplyType
<1>2. ASSUME e.type # "market_buy", e.quantity > b.quantity PROVE FALSE
  <2>1. ApplyToBucket(b, e) = [b EXCEPT !.raised = TRUE]
    BY <1>1, <1>2 DEF ApplyToBucket, SellFromBucket
  <2>2. [b EXCEPT !.raised = TRUE].raised = TRUE
    BY DEF Buckets
  <2>3. QED
    BY <2>1, <2>2
<1>3. b.quantity \in Int
  BY DEF Buckets
<1>4. QED
  BY <1>1, <1>2, <1>3

\* Every bucket that has not raised closes.
LEMMA BucketsClose ==
    ASSUME NEW S, TradeBook(S), \A e \in S : e.quantity > 0, ~BucketOf(S).raised
    PROVE  Closed(S, BucketOf(S))
<1> DEFINE Bad == {T \in SUBSET S : ~BucketOf(T).raised /\ ~Closed(T, BucketOf(T))}
<1> SUFFICES ASSUME Bad # {} PROVE FALSE
  OBVIOUS
<1>1. PICK T \in Bad : \A U \in Bad : U \subseteq T => U = T
  <2>1. Bad \in SUBSET SUBSET S /\ IsFiniteSet(S)
    BY DEF TradeBook, Book
  <2> HIDE DEF Bad
  <2>2. QED
    BY <2>1, LeastPart
<1>2. /\ T \in SUBSET S /\ ~BucketOf(T).raised /\ ~Closed(T, BucketOf(T))
      /\ TradeBook(T) /\ Book(T) /\ \A e \in T : e.quantity > 0
  BY <1>1, PartOfTradeBook DEF TradeBook
<1>3. T # {}
  <2>1. SUFFICES ASSUME T = {} PROVE FALSE
    OBVIOUS
  <2>2. BucketOf(T) = EmptyBucket /\ Quantity(T) = 0 /\ Paid(T) = 0 /\ Received(T) = 0
    BY <1>2, <2>1, BucketUnfold, QuantityUnfold, PaidUnfold
  <2>3. Balanced(0, 0, 0, 1, 0, 1)
    BY DEF Balanced
  <2>4. Closed(T, EmptyBucket)
    BY <2>1, <2>2, <2>3 DEF Closed, EmptyBucket, Whole
  <2>5. QED
    BY <1>2, <2>2, <2>4
<1> DEFINE x == Newest(T)
           R == T \ {x}
           b == BucketOf(R)
<1>4. x \in T
  BY <1>2, <1>3, NewestIsLast
<1>5. x.quantity \in Int /\ x.amount \in Int /\ x.costs \in Int
  BY <1>2, <1>4 DEF TradeBook
<1>6. TradeBook(R) /\ R \in SUBSET S
  BY <1>2, PartOfTradeBook
<1>7. b \in Buckets /\ BucketOf(T) = ApplyToBucket(b, x)
  BY <1>2, <1>3, <1>6, BucketUnfold
<1> HIDE DEF x
<1>8. ~b.raised /\ (x.type # "market_buy" => x.quantity <= b.quantity)
  <2> HIDE DEF b
  <2>1. QED
    BY <1>2, <1>5, <1>7, RaisedStays
<1>9. Closed(R, b)
  <2>1. R \notin Bad
    BY <1>1, <1>4
  <2>2. QED
    BY <1>6, <1>8, <2>1
<1> HIDE DEF b
<1>10. Closed(T, ApplyToBucket(b, x))
  <2>1. CASE x.type = "market_buy"
    BY <1>2, <1>4, <1>7, <1>8, <1>9, <2>1, BuyCloses
  <2>2. CASE x.type # "market_buy"
    BY <1>2, <1>4, <1>7, <1>8, <1>9, <2>2, SaleCloses
  <2>3. QED
    BY <2>1, <2>2
<1>11. QED
  BY <1>2, <1>7, <1>10

\* What the property asks of a bucket follows.
LEMMA ClosedBucket ==
    ASSUME NEW S, TradeBook(S), S # {}, NEW b \in Buckets, Closed(S, b)
    PROVE  BucketCloses(S, b)
<1>1. /\ b.cost[1] \in Int /\ b.cost[2] \in Int /\ b.gain[1] \in Int /\ b.gain[2] \in Int
      /\ b.quantity \in Int
  BY DEF Buckets
<1>2. Paid(S) \in Int /\ Received(S) \in Int
  BY PaidUnfold
<1> DEFINE left  == Minus(Whole(Paid(S)), b.cost)
           right == Minus(Whole(Received(S)), b.gain)
<1>3. /\ left[1] = Paid(S) * b.cost[2] - b.cost[1] * 1 /\ left[2] = 1 * b.cost[2]
      /\ right[1] = Received(S) * b.gain[2] - b.gain[1] * 1 /\ right[2] = 1 * b.gain[2]
  BY DEF Minus, Whole
<1> HIDE DEF left, right
<1>4. /\ left[1] = Paid(S) * b.cost[2] - b.cost[1] /\ left[2] = b.cost[2]
      /\ right[1] = Received(S) * b.gain[2] - b.gain[1] /\ right[2] = b.gain[2]
  BY <1>1, <1>2, <1>3
<1>5. left[1] * right[2] = right[1] * left[2]
  BY <1>4 DEF Closed, Balanced
<1>6. Same(left, right)
  BY <1>5 DEF Same
<1>7. \E low, high \in Buys(S) :
         /\ Cost(low) * b.quantity * b.cost[2] <= b.cost[1] * low.quantity
         /\ Cost(high) * b.quantity * b.cost[2] >= b.cost[1] * high.quantity
  BY DEF Closed, Cheap, Dear
<1>8. b.quantity = 0 => b.cost[1] = 0
  BY DEF Closed
<1>9. QED
  BY <1>6, <1>7, <1>8 DEF BucketCloses, left, right

-----------------------------------------------------------------------------
(* The stored events                                                       *)

\* A row with the numbers an event needs.
RowOK(e) ==
    /\ e = [f \in EventFields |-> e[f]]
    /\ e.date \in Nat /\ e.fx \in Nat
    /\ e.quantity \in Int /\ e.price \in Int /\ e.amount \in Int /\ e.costs \in Int

EventsOK(S, next) ==
    /\ next \in Nat
    /\ \A e \in S : RowOK(e) /\ e.id \in Nat /\ e.id < next
    /\ \A a, b \in S : a.id = b.id => a = b

Pending(e) == e.currency # "EUR" /\ (e.fx = 0 \/ e.fxSource = "pending")

\* A rate found for an id is the one of the day of its event, which is pending still or
\* has been given that rate by another resolution.
RatesOK(S, next, days) ==
    \A id \in DOMAIN days :
        /\ id \in Nat /\ id < next
        /\ \A e \in S : e.id = id => /\ RateDay(e, days[id])
                                     /\ Pending(e) \/ HasRate(e, days[id])

AtMostOne(t, S) == \A a, b \in S : t \in LinksOf(a) /\ t \in LinksOf(b) => a = b

\* Two events of one id are one: there are no more events than ids.
LEMMA EventsFinite ==
    ASSUME NEW S, NEW next, EventsOK(S, next)
    PROVE  IsFiniteSet(S)
<1> DEFINE f == [e \in S |-> e.id]
<1>1. f \in Injection(S, 0..next)
  BY DEF EventsOK, Injection, IsInjective
<1>2. IsFiniteSet(0..next)
  <2>1. 0 \in Int /\ next \in Int
    BY DEF EventsOK
  <2>2. QED
    BY <2>1, FS_Interval
<1> HIDE DEF f
<1>3. QED
  BY <1>1, <1>2, FS_Injection

\* Stored events have unique ids and make a book of trades.
LEMMA EventsBook ==
    ASSUME NEW S, NEW next, EventsOK(S, next)
    PROVE  TradeBook(S)
BY EventsFinite DEF EventsOK, RowOK, TradeBook, Book

\* b is what a step makes of the event a: the same event, unless it was pending and
\* is given its rate.
Inherits(a, b) ==
    /\ RowOK(b) /\ b.id = a.id /\ b.currency = a.currency /\ b.date = a.date
    /\ LinksOf(b) \subseteq LinksOf(a)
    /\ \/ RateKept(a, b)
       \/ Pending(a) /\ RateDay(a, b.fxDay) /\ HasRate(b, b.fxDay)

\* A day has one last quote up to it.
LEMMA RateDayIsOne ==
    ASSUME NEW e, NEW c, NEW d, RateDay(e, c), RateDay(e, d)
    PROVE  c = d
<1> DEFINE currency == Upper(e.currency)
           days == QuoteDays(currency, 0, e.date)
<1>1. currency \in DOMAIN Quotes /\ c \in days /\ d \in days /\ c <= d /\ d <= c
  BY DEF RateDay
<1>2. days \subseteq Nat
  BY <1>1, QuotesAssumption DEF QuoteDays
<1> HIDE DEF days
<1>3. QED
  BY <1>1, <1>2

\* What was found for an event holds of what it becomes.
LEMMA RatesInherited ==
    ASSUME NEW a, NEW b, Inherits(a, b), NEW d, RateDay(a, d), Pending(a) \/ HasRate(a, d)
    PROVE  RateDay(b, d) /\ (Pending(b) \/ HasRate(b, d))
<1>1. b.currency = a.currency /\ b.date = a.date
  BY DEF Inherits
<1>2. RateDay(b, d)
  BY <1>1 DEF RateDay
<1>3. CASE RateKept(a, b)
  BY <1>1, <1>2, <1>3 DEF RateKept, Pending, HasRate
<1>4. CASE RateDay(a, b.fxDay) /\ HasRate(b, b.fxDay)
  BY <1>2, <1>4, RateDayIsOne
<1>5. QED
  BY <1>3, <1>4 DEF Inherits

Image(g, K) == {g[e] : e \in K}

\* A step that deletes events and changes others keeps what the invariant says of
\* them, and gives no transaction a second event.
LEMMA ImageKeeps ==
    ASSUME NEW S, NEW next, EventsOK(S, next), NEW K \in SUBSET S, NEW g,
           \A e \in K : Inherits(e, g[e])
    PROVE  /\ EventsOK(Image(g, K), next)
           /\ \A days : RatesOK(S, next, days) => RatesOK(Image(g, K), next, days)
           /\ \A t : AtMostOne(t, S) => AtMostOne(t, Image(g, K))
           /\ \A a \in S, b \in Image(g, K) : a.id = b.id => Inherits(a, b)
<1>1. ASSUME NEW b \in Image(g, K)
      PROVE  \E e \in K : b = g[e] /\ e \in S /\ Inherits(e, b)
  BY DEF Image
<1>2. EventsOK(Image(g, K), next)
  <2>1. ASSUME NEW b \in Image(g, K) PROVE RowOK(b) /\ b.id \in Nat /\ b.id < next
    BY <1>1 DEF EventsOK, Inherits
  <2>2. ASSUME NEW a \in Image(g, K), NEW b \in Image(g, K), a.id = b.id PROVE a = b
    <3>1. PICK x \in K : a = g[x] /\ x \in S /\ Inherits(x, a)
      BY <1>1
    <3>2. PICK y \in K : b = g[y] /\ y \in S /\ Inherits(y, b)
      BY <1>1
    <3>3. x.id = y.id
      BY <2>2, <3>1, <3>2 DEF Inherits
    <3>4. x = y
      BY <3>1, <3>2, <3>3 DEF EventsOK
    <3>5. QED
      BY <3>1, <3>2, <3>4
  <2>3. next \in Nat
    BY DEF EventsOK
  <2>4. QED
    BY <2>1, <2>2, <2>3 DEF EventsOK
<1>3. ASSUME NEW days, RatesOK(S, next, days) PROVE RatesOK(Image(g, K), next, days)
  <2>1. ASSUME NEW id \in DOMAIN days, NEW b \in Image(g, K), b.id = id
        PROVE  RateDay(b, days[id]) /\ (Pending(b) \/ HasRate(b, days[id]))
    <3>1. PICK e \in K : b = g[e] /\ e \in S /\ Inherits(e, b)
      BY <1>1
    <3>2. e.id = id
      BY <2>1, <3>1 DEF Inherits
    <3>3. RateDay(e, days[id]) /\ (Pending(e) \/ HasRate(e, days[id]))
      BY <1>3, <3>1, <3>2 DEF RatesOK
    <3>4. QED
      BY <3>1, <3>3, RatesInherited
  <2>2. QED
    BY <1>3, <2>1 DEF RatesOK
<1>4. ASSUME NEW t, AtMostOne(t, S) PROVE AtMostOne(t, Image(g, K))
  <2>1. ASSUME NEW a \in Image(g, K), NEW b \in Image(g, K),
               t \in LinksOf(a), t \in LinksOf(b)
        PROVE  a = b
    <3>1. PICK x \in K : a = g[x] /\ x \in S /\ Inherits(x, a)
      BY <1>1
    <3>2. PICK y \in K : b = g[y] /\ y \in S /\ Inherits(y, b)
      BY <1>1
    <3>3. t \in LinksOf(x) /\ t \in LinksOf(y)
      BY <2>1, <3>1, <3>2 DEF Inherits
    <3>4. x = y
      BY <1>4, <3>1, <3>2, <3>3 DEF AtMostOne
    <3>5. QED
      BY <3>1, <3>2, <3>4
  <2>2. QED
    BY <2>1 DEF AtMostOne
<1>5. ASSUME NEW a \in S, NEW b \in Image(g, K), a.id = b.id PROVE Inherits(a, b)
  <2>1. PICK e \in K : b = g[e] /\ e \in S /\ Inherits(e, b)
    BY <1>1
  <2>2. e = a
    BY <1>5, <2>1 DEF EventsOK, Inherits
  <2>3. QED
    BY <2>1, <2>2
<1>6. QED
  BY <1>2, <1>3, <1>4, <1>5

\* The rows added to the events: one of every row, under ids not used before.
Added(rows, batch, N) ==
    /\ \A n \in N : /\ n.id \in Nat /\ nextId <= n.id /\ n.id < nextId + Cardinality(rows)
                    /\ \E row \in rows : n = Stored(row, n.id, batch)
    /\ \A a, b \in N : a.id = b.id => a = b

\* Storing a form gives it its id and batch and leaves every other field as it was.
LEMMA StoredIs ==
    ASSUME NEW row, RowOK(row), NEW id \in Nat, NEW batch
    PROVE  /\ RowOK(Stored(row, id, batch))
           /\ Stored(row, id, batch).id = id
           /\ Stored(row, id, batch).batch = batch
           /\ \A f \in EventFields \ {"id", "batch"} :
                 Stored(row, id, batch)[f] = row[f]
           /\ LinksOf(Stored(row, id, batch)) = LinksOf(row)
<1> DEFINE e == Stored(row, id, batch)
<1>1. row = [f \in EventFields |-> row[f]]
  BY DEF RowOK
<1>2. DOMAIN row = EventFields
  BY <1>1
<1>3. e = [f \in EventFields |-> IF f = "batch" THEN batch
                                 ELSE IF f = "id" THEN id ELSE row[f]]
  BY <1>2 DEF Stored
<1>4. {"id", "batch", "date", "fx", "quantity", "price", "amount", "costs", "tx", "matched"}
        \subseteq EventFields
  BY DEF EventFields
<1>5. /\ e.id = id /\ e.batch = batch
      /\ \A f \in EventFields \ {"id", "batch"} : e[f] = row[f]
  BY <1>3, <1>4
<1>6. e = [f \in EventFields |-> e[f]]
  BY <1>3
<1> HIDE DEF e
<1>7. /\ e.date = row.date /\ e.fx = row.fx /\ e.quantity = row.quantity
      /\ e.price = row.price /\ e.amount = row.amount /\ e.costs = row.costs
      /\ e.tx = row.tx /\ e.matched = row.matched
  BY <1>4, <1>5
<1>8. RowOK(e)
  BY <1>6, <1>7 DEF RowOK
<1>9. LinksOf(e) = LinksOf(row)
  BY <1>7 DEF LinksOf
<1>10. QED
  BY <1>5, <1>8, <1>9 DEF e

\* Storing the rows of an import adds events with new ids, one for each row, and nothing else.
LEMMA WithRowsAdds ==
    ASSUME nextId \in Nat, NEW S, NEW rows, IsFiniteSet(rows),
           \A row \in rows : RowOK(row), NEW batch
    PROVE  /\ Cardinality(rows) \in Nat
           /\ \E N : WithRows(S, rows, batch) = S \cup N /\ Added(rows, batch, N)
<1> DEFINE sequence == SetToSeq(rows)
           N == {Stored(sequence[i], nextId + i - 1, batch) : i \in DOMAIN sequence}
           size == Cardinality(rows)
<1>1. size \in Nat /\ ExistsBijection(1..size, rows)
  BY FS_CardinalityType
<1>2. \E f \in [1..size -> rows] : IsInjective(f)
  BY <1>1 DEF ExistsBijection, Bijection, Injection, Surjection, IsInjective
<1>3. sequence \in [1..size -> rows]
  BY <1>2 DEF SetToSeq
<1>4. WithRows(S, rows, batch) = S \cup N
  BY DEF WithRows
<1> HIDE DEF sequence, size
<1>5. ASSUME NEW n \in N
      PROVE  \E i \in 1..size : /\ n = Stored(sequence[i], nextId + i - 1, batch)
                                /\ n.id = nextId + i - 1 /\ n.id \in Nat
                                /\ sequence[i] \in rows
  <2>1. PICK i \in 1..size : n = Stored(sequence[i], nextId + i - 1, batch)
    BY <1>3
  <2>2. nextId + i - 1 \in Nat /\ sequence[i] \in rows
    BY <1>1, <1>3
  <2>3. n.id = nextId + i - 1
    BY <2>1, <2>2, StoredIs
  <2>4. QED
    BY <2>1, <2>2, <2>3
<1> HIDE DEF N
<1>6. ASSUME NEW n \in N
      PROVE  /\ n.id \in Nat /\ nextId <= n.id /\ n.id < nextId + size
             /\ \E row \in rows : n = Stored(row, n.id, batch)
  BY <1>1, <1>5
<1>7. ASSUME NEW a \in N, NEW b \in N, a.id = b.id PROVE a = b
  <2>1. PICK i \in 1..size : a = Stored(sequence[i], nextId + i - 1, batch)
                             /\ a.id = nextId + i - 1
    BY <1>5
  <2>2. PICK j \in 1..size : b = Stored(sequence[j], nextId + j - 1, batch)
                             /\ b.id = nextId + j - 1
    BY <1>5
  <2>3. i = j
    BY <1>1, <1>7, <2>1, <2>2
  <2>4. QED
    BY <2>1, <2>2, <2>3
<1>8. Added(rows, batch, N)
  BY <1>6, <1>7 DEF Added, size
<1>9. QED
  BY <1>1, <1>4, <1>8 DEF size

\* A step that adds rows keeps what the invariant says of the events; rows without
\* links give no transaction a second event.
LEMMA AddingKeeps ==
    ASSUME EventsOK(events, nextId), NEW rows, Cardinality(rows) \in Nat,
           \A row \in rows : RowOK(row), NEW batch, NEW N, Added(rows, batch, N)
    PROVE  /\ EventsOK(events \cup N, nextId + Cardinality(rows))
           /\ \A days : RatesOK(events, nextId, days) =>
                RatesOK(events \cup N, nextId + Cardinality(rows), days)
           /\ (\A row \in rows : LinksOf(row) = {}) =>
                \A t : AtMostOne(t, events) => AtMostOne(t, events \cup N)
           /\ \A a \in events, b \in events \cup N : a.id = b.id => Inherits(a, b)
<1> DEFINE size == Cardinality(rows)
<1>1. size \in Nat /\ nextId \in Nat
  BY DEF EventsOK
<1> HIDE DEF size
<1>2. ASSUME NEW n \in N
      PROVE  /\ n.id \in Nat /\ nextId <= n.id /\ n.id < nextId + size /\ RowOK(n)
             /\ (\A row \in rows : LinksOf(row) = {}) => LinksOf(n) = {}
  <2>1. n.id \in Nat /\ nextId <= n.id /\ n.id < nextId + size
    BY DEF Added, size
  <2>2. PICK row \in rows : n = Stored(row, n.id, batch)
    BY DEF Added
  <2>3. RowOK(n) /\ LinksOf(n) = LinksOf(row)
    BY <2>1, <2>2, StoredIs
  <2>4. QED
    BY <2>1, <2>3
<1>3. EventsOK(events \cup N, nextId + size)
  <2>1. nextId + size \in Nat
    BY <1>1
  <2>2. ASSUME NEW e \in events \cup N
        PROVE  RowOK(e) /\ e.id \in Nat /\ e.id < nextId + size
    BY <1>1, <1>2 DEF EventsOK
  <2>3. ASSUME NEW a \in events \cup N, NEW b \in events \cup N, a.id = b.id
        PROVE  a = b
    <3>1. CASE a \in events /\ b \in events
      BY <2>3, <3>1 DEF EventsOK
    <3>2. CASE a \in N /\ b \in N
      BY <2>3, <3>2 DEF Added
    <3>3. ASSUME NEW e \in events, NEW n \in N PROVE e.id # n.id
      BY <1>1, <1>2 DEF EventsOK
    <3>4. QED
      BY <2>3, <3>1, <3>2, <3>3
  <2>4. QED
    BY <2>1, <2>2, <2>3 DEF EventsOK
<1>4. ASSUME NEW days, RatesOK(events, nextId, days)
      PROVE  RatesOK(events \cup N, nextId + size, days)
  <2>1. ASSUME NEW id \in DOMAIN days
        PROVE  id \in Nat /\ id < nextId + size /\ \A n \in N : n.id # id
    BY <1>1, <1>2, <1>4 DEF RatesOK
  <2>2. QED
    BY <1>4, <2>1 DEF RatesOK
<1>5. ASSUME \A row \in rows : LinksOf(row) = {}, NEW t, AtMostOne(t, events)
      PROVE  AtMostOne(t, events \cup N)
  BY <1>2, <1>5 DEF AtMostOne
<1>6. ASSUME NEW a \in events, NEW b \in events \cup N, a.id = b.id PROVE Inherits(a, b)
  <2>1. b \notin N
    BY <1>1, <1>2, <1>6 DEF EventsOK
  <2>2. a = b /\ RowOK(a)
    BY <1>6, <2>1 DEF EventsOK
  <2>3. QED
    BY <2>2 DEF Inherits, RateKept
<1>7. QED
  BY <1>3, <1>4, <1>5, <1>6 DEF size

-----------------------------------------------------------------------------
(* The invariant of the events                                             *)

\* What the check of a new event let through, against the events it saw.
Passed(form, seen) ==
    /\ form \in CreateForms
    /\ \A t \in LinksOf(form) : \A e \in seen : t \notin LinksOf(e)
    /\ MarketEventAccepted(form)
    /\ TimelineAccepted(form, seen)

EventsInv ==
    /\ EventsOK(events, nextId)
    /\ request = [r \in Requests |-> request[r]]
    /\ \A r \in Requests :
         /\ "st" \in DOMAIN request[r]
         /\ request[r].st = "checked" => Passed(request[r].form, request[r].seen)
    /\ resolution = [s \in Resolvers |-> resolution[s]]
    /\ \A s \in Resolvers :
         resolution[s].st = "found" => RatesOK(events, nextId, resolution[s].days)

\* What an event was shows in what it is after the step.
Continues == \A e \in events, f \in events' : e.id = f.id => Inherits(e, f)

\* A step that leaves the events alone continues them.
LEMMA SameContinues ==
    ASSUME EventsInv, events' = events
    PROVE  Continues
<1>1. ASSUME NEW e \in events, NEW f \in events', e.id = f.id PROVE Inherits(e, f)
  <2>1. e = f /\ RowOK(e)
    BY <1>1 DEF EventsInv, EventsOK
  <2>2. QED
    BY <2>1 DEF Inherits, RateKept
<1>2. QED
  BY <1>1 DEF Continues

\* Every form a request may send has the shape of a row.
LEMMA FormsRows ==
    \A form \in Forms : RowOK(form)
BY FormsAssumption DEF RowOK

\* The first state has no event, no request and no rates looked up.
LEMMA EventsInitInv == Init => EventsInv
<1> SUFFICES ASSUME Init PROVE EventsInv
  OBVIOUS
<1>1. EventsOK(events, nextId)
  BY DEF Init, EventsOK
<1>2. request = [r \in Requests |-> request[r]] /\ \A r \in Requests : "st" \in DOMAIN request[r] /\ request[r].st = "new"
  BY DEF Init
<1>3. /\ resolution = [s \in Resolvers |-> resolution[s]]
      /\ \A s \in Resolvers : resolution[s].st # "found"
  BY DEF Init
<1>4. QED
  BY <1>1, <1>2, <1>3 DEF EventsInv

\* A request that checks its form keeps the invariant: what it accepted, it accepted of
\* the events it saw.
LEMMA CheckEventKeeps ==
    ASSUME EventsInv, NEW r \in Requests, CheckEvent(r)
    PROVE  EventsInv'
<1>1. PICK form \in CreateForms :
         request' = [request EXCEPT ![r] =
            IF CreateAccepted(form, events)
              THEN [st |-> "checked", form |-> form, seen |-> events]
              ELSE [st |-> "refused"]]
  BY DEF CheckEvent
<1>2. request' = [q \in Requests |-> request'[q]]
      /\ \A q \in Requests \ {r} : request'[q] = request[q]
  BY <1>1 DEF EventsInv
<1>3. /\ "st" \in DOMAIN request'[r]
      /\ request'[r].st = "checked" => Passed(request'[r].form, request'[r].seen)
  <2>1. CASE CreateAccepted(form, events)
    <3>1. request'[r] = [st |-> "checked", form |-> form, seen |-> events]
      BY <1>1, <2>1 DEF EventsInv
    <3>2. Passed(form, events)
      BY <2>1 DEF Passed, CreateAccepted, LinksAccepted
    <3>3. QED
      BY <3>1, <3>2
  <2>2. CASE ~CreateAccepted(form, events)
    <3>1. request'[r] = [st |-> "refused"]
      BY <1>1, <2>2 DEF EventsInv
    <3>2. QED
      BY <3>1
  <2>3. QED
    BY <2>1, <2>2
<1>4. UNCHANGED <<events, nextId, transactions, resolution>>
  BY DEF CheckEvent
<1>5. \A q \in Requests :
         /\ "st" \in DOMAIN request'[q]
         /\ request'[q].st = "checked" => Passed(request'[q].form, request'[q].seen)
  BY <1>2, <1>3 DEF EventsInv
<1>6. QED
  BY <1>2, <1>4, <1>5 DEF EventsInv

\* What an insert adds: the event that passed the check, under the next id.
LEMMA CommitAdds ==
    ASSUME EventsInv, NEW r \in Requests, CommitEvent(r),
           LinksOf(request[r].form) \subseteq transactions
    PROVE  LET form == request[r].form
           IN /\ form \in CreateForms /\ RowOK(form)
              /\ events' = events \cup {Stored(form, nextId, None)}
              /\ nextId' = nextId + 1
              /\ Added({form}, None, {Stored(form, nextId, None)})
              /\ request' = [request EXCEPT ![r].st = "created"]
<1> DEFINE form == request[r].form
           s == Stored(form, nextId, None)
<1>1. form \in CreateForms /\ RowOK(form)
  BY FormsRows DEF CommitEvent, EventsInv, Passed, Forms
<1>2. /\ events' = WithRows(events, {form}, None) /\ nextId' = nextId + 1
      /\ request' = [request EXCEPT ![r].st = "created"]
  BY DEF CommitEvent
<1>3. nextId \in Nat
  BY DEF EventsInv, EventsOK
<1> HIDE DEF form
<1>4. IsFiniteSet({form}) /\ Cardinality({form}) = 1
  BY FS_Singleton
<1>5. \A row \in {form} : RowOK(row)
  BY <1>1
<1>6. \E N : WithRows(events, {form}, None) = events \cup N /\ Added({form}, None, N)
  BY <1>3, <1>4, <1>5, WithRowsAdds
<1>7. s.id = nextId
  BY <1>1, <1>3, StoredIs
<1>8. ASSUME NEW n, n.id \in Nat, nextId <= n.id, n.id < nextId + 1,
             \E row \in {form} : n = Stored(row, n.id, None)
      PROVE  n = s
  <2>1. n.id = nextId
    BY <1>3, <1>8
  <2>2. QED
    BY <1>8, <2>1
<1>9. Added({form}, None, {s})
  <2>1. nextId <= nextId /\ nextId < nextId + 1
    BY <1>3
  <2> HIDE DEF s
  <2>2. \E row \in {form} : s = Stored(row, s.id, None)
    BY <1>7 DEF s
  <2>3. QED
    BY <1>3, <1>4, <1>7, <2>1, <2>2 DEF Added
<1>10. WithRows(events, {form}, None) = events \cup {s}
  <2> DEFINE sequence == SetToSeq({form})
  <2>1. ExistsBijection(1..1, {form})
    BY <1>4, FS_CardinalityType
  <2>2. \E f \in [1..1 -> {form}] : IsInjective(f)
    BY <2>1 DEF ExistsBijection, Bijection, Injection, Surjection, IsInjective
  <2>3. sequence \in [1..1 -> {form}]
    BY <1>4, <2>2 DEF SetToSeq
  <2> HIDE DEF sequence
  <2>4. DOMAIN sequence = {1} /\ sequence[1] = form /\ nextId + 1 - 1 = nextId
    BY <1>3, <2>3
  <2>5. {Stored(sequence[i], nextId + i - 1, None) : i \in DOMAIN sequence} = {s}
    BY <2>4
  <2>6. QED
    BY <2>5 DEF WithRows, sequence
<1>11. QED
  BY <1>1, <1>2, <1>9, <1>10 DEF form

\* The commit of a checked form keeps the invariant.
LEMMA CommitEventKeeps ==
    ASSUME EventsInv, NEW r \in Requests, CommitEvent(r)
    PROVE  EventsInv' /\ Continues
<1>1. UNCHANGED resolution
  BY DEF CommitEvent
<1>2. CASE LinksOf(request[r].form) \subseteq transactions
  <2> DEFINE form == request[r].form
             s == Stored(form, nextId, None)
  <2>1. /\ form \in CreateForms /\ RowOK(form) /\ events' = events \cup {s}
        /\ nextId' = nextId + 1 /\ Added({form}, None, {s})
        /\ request' = [request EXCEPT ![r].st = "created"]
    BY <1>2, CommitAdds
  <2>2. EventsOK(events, nextId)
    BY DEF EventsInv
  <2> HIDE DEF form, s
  <2>3. Cardinality({form}) = 1 /\ 1 \in Nat /\ \A row \in {form} : RowOK(row)
    BY <2>1, FS_Singleton
  <2>4. /\ EventsOK(events', nextId')
        /\ \A days : RatesOK(events, nextId, days) => RatesOK(events', nextId', days)
        /\ \A a \in events, b \in events' : a.id = b.id => Inherits(a, b)
    BY <2>1, <2>2, <2>3, AddingKeeps
  <2>5. /\ request' = [q \in Requests |-> request'[q]]
        /\ \A q \in Requests \ {r} : request'[q] = request[q]
        /\ "st" \in DOMAIN request'[r] /\ request'[r].st = "created"
    <3>1. request'[r] = [request[r] EXCEPT !.st = "created"]
      BY <2>1 DEF EventsInv
    <3>2. "st" \in DOMAIN request[r]
      BY DEF EventsInv
    <3>3. "st" \in DOMAIN request'[r] /\ request'[r].st = "created"
      BY <3>1, <3>2
    <3>4. QED
      BY <2>1, <3>3 DEF EventsInv
  <2>6. QED
    BY <1>1, <2>4, <2>5 DEF EventsInv, Continues
<1>3. CASE ~(LinksOf(request[r].form) \subseteq transactions)
  <2>1. /\ request' = [request EXCEPT ![r] = [st |-> "refused"]]
        /\ UNCHANGED <<events, nextId>>
    BY <1>3 DEF CommitEvent
  <2>2. request'[r] = [st |-> "refused"]
    BY <2>1 DEF EventsInv
  <2>3. "st" \in DOMAIN request'[r] /\ request'[r].st # "checked"
    BY <2>2
  <2>4. /\ request' = [q \in Requests |-> request'[q]]
        /\ \A q \in Requests \ {r} : request'[q] = request[q]
    BY <2>1 DEF EventsInv
  <2>5. QED
    BY <1>1, <2>1, <2>3, <2>4, SameContinues DEF EventsInv
<1>4. QED
  BY <1>2, <1>3

-----------------------------------------------------------------------------
(* Rates the provider has                                                  *)

\* The last of some of its days is one of them.
LEMMA MaxIsOne ==
    ASSUME NEW S \in SUBSET Nat, S # {}, NEW bound \in Nat, \A n \in S : n <= bound
    PROVE  Max(S) \in S /\ \A n \in S : n <= Max(S)
<1>1. PICK m \in S : \A n \in S : n <= m
  BY GreatestOf
<1>2. \E x \in S : \A y \in S : x >= y
  BY <1>1
<1>3. Max(S) \in S /\ \A y \in S : Max(S) >= y
  BY <1>2 DEF Max
<1>4. QED
  BY <1>3

\* The last quote up to a day is the greatest of these days.
LEMMA LastQuote ==
    ASSUME NEW currency, NEW from, NEW d \in Nat, QuoteDays(currency, from, d) # {}
    PROVE  /\ currency \in DOMAIN Quotes
           /\ Max(QuoteDays(currency, from, d)) \in QuoteDays(currency, from, d)
           /\ \A q \in QuoteDays(currency, from, d) : q <= Max(QuoteDays(currency, from, d))
<1>1. currency \in DOMAIN Quotes
  BY DEF QuoteDays
<1>2. /\ QuoteDays(currency, from, d) \subseteq DOMAIN Quotes[currency]
      /\ DOMAIN Quotes[currency] \subseteq Nat
      /\ \A q \in QuoteDays(currency, from, d) : q <= d
  BY <1>1, QuotesAssumption DEF QuoteDays
<1>3. QuoteDays(currency, from, d) \in SUBSET Nat
  BY <1>2
<1>4. QED
  BY <1>1, <1>2, <1>3, MaxIsOne

\* The last quote from some day on is the last quote of all.
LEMMA RateDayFrom ==
    ASSUME NEW e, NEW from \in Int, NEW d, Upper(e.currency) \in DOMAIN Quotes,
           d \in QuoteDays(Upper(e.currency), from, e.date),
           \A q \in QuoteDays(Upper(e.currency), from, e.date) : q <= d
    PROVE  RateDay(e, d)
<1> DEFINE currency == Upper(e.currency)
<1>1. DOMAIN Quotes[currency] \subseteq Nat
  BY QuotesAssumption
<1>2. d \in DOMAIN Quotes[currency] /\ from <= d /\ d <= e.date
  BY DEF QuoteDays
<1>3. ASSUME NEW q \in QuoteDays(currency, 0, e.date) PROVE q <= d
  <2>1. q \in DOMAIN Quotes[currency] /\ q <= e.date
    BY DEF QuoteDays
  <2>2. from <= q => q <= d
    BY <2>1 DEF QuoteDays
  <2> HIDE DEF currency
  <2>3. QED
    BY <1>1, <1>2, <2>1, <2>2
<1>4. d \in QuoteDays(currency, 0, e.date)
  <2>1. 0 <= d
    BY <1>1, <1>2
  <2>2. QED
    BY <1>2, <2>1 DEF QuoteDays
<1>5. QED
  BY <1>3, <1>4 DEF RateDay

\* An event with one of its rates is the same event but for the rate.
LEMMA WithRateIs ==
    ASSUME NEW e, RowOK(e), NEW currency \in DOMAIN Quotes,
           NEW day \in DOMAIN Quotes[currency]
    PROVE  LET w == WithRate(e, currency, day)
           IN /\ RowOK(w) /\ LinksOf(w) = LinksOf(e)
              /\ w.id = e.id /\ w.currency = e.currency /\ w.date = e.date
              /\ w.fx = Quotes[currency][day] /\ w.fx # 0
              /\ w.fxSource = "yfinance_historical" /\ w.fxDay = day
<1> DEFINE w == WithRate(e, currency, day)
           rate == Quotes[currency][day]
<1>1. rate \in Nat /\ rate # 0
  BY QuotesAssumption
<1>2. DOMAIN e = EventFields
  BY DEF RowOK
<1> HIDE DEF rate
<1>3. w = [f \in EventFields |-> IF f = "fxDay" THEN day
                                 ELSE IF f = "fxSource" THEN "yfinance_historical"
                                 ELSE IF f = "fx" THEN rate ELSE e[f]]
  <2>1. w = [e EXCEPT !.fx = rate, !.fxSource = "yfinance_historical", !.fxDay = day]
    BY DEF WithRate, rate
  <2>2. QED
    BY <1>2, <2>1
<1>4. {"id", "date", "currency", "fx", "fxSource", "fxDay", "quantity", "price", "amount",
       "costs", "tx", "matched"} \subseteq EventFields
  BY DEF EventFields
<1> HIDE DEF w
<1>5. /\ w.id = e.id /\ w.date = e.date /\ w.currency = e.currency /\ w.fx = rate
      /\ w.fxSource = "yfinance_historical" /\ w.fxDay = day
      /\ w.quantity = e.quantity /\ w.price = e.price
      /\ w.amount = e.amount /\ w.costs = e.costs
      /\ w.tx = e.tx /\ w.matched = e.matched
  BY <1>3, <1>4
<1>6. w = [f \in EventFields |-> w[f]]
  BY <1>3
<1>7. RowOK(w)
  BY <1>1, <1>5, <1>6 DEF RowOK
<1>8. LinksOf(w) = LinksOf(e)
  BY <1>5 DEF LinksOf
<1>9. QED
  BY <1>1, <1>5, <1>7, <1>8 DEF w, rate

\* The row an import stores has the links of the row it read.
LEMMA ResolvedRow ==
    ASSUME NEW row, RowOK(row), NEW answers
    PROVE  RowOK(ResolveRow(row, answers)) /\ LinksOf(ResolveRow(row, answers)) = LinksOf(row)
<1> DEFINE currency == Upper(row.currency)
           days == QuoteDays(currency, row.date - ImportLookback, row.date)
<1>1. CASE currency = "EUR"
  <2> DEFINE w == [row EXCEPT !.fx = 1, !.fxSource = "source_currency"]
  <2>1. ResolveRow(row, answers) = w
    BY <1>1 DEF ResolveRow
  <2>2. DOMAIN row = EventFields
    BY DEF RowOK
  <2>3. w = [f \in EventFields |-> IF f = "fxSource" THEN "source_currency"
                                   ELSE IF f = "fx" THEN 1 ELSE row[f]]
    BY <2>2
  <2>4. {"date", "fx", "quantity", "price", "amount", "costs", "tx", "matched"}
          \subseteq EventFields
    BY DEF EventFields
  <2> HIDE DEF w
  <2>5. /\ w.date = row.date /\ w.fx = 1 /\ w.quantity = row.quantity
        /\ w.price = row.price /\ w.amount = row.amount /\ w.costs = row.costs
        /\ w.tx = row.tx /\ w.matched = row.matched
    BY <2>3, <2>4
  <2>6. w = [f \in EventFields |-> w[f]]
    BY <2>3
  <2>7. RowOK(w) /\ LinksOf(w) = LinksOf(row)
    BY <2>5, <2>6 DEF RowOK, LinksOf
  <2>8. QED
    BY <2>1, <2>7
<1>2. CASE currency # "EUR" /\ ResolveRow(row, answers) = row
  BY <1>2
<1>3. CASE currency # "EUR" /\ ResolveRow(row, answers) # row
  <2>1. days # {} /\ ResolveRow(row, answers) = WithRate(row, currency, Max(days))
    BY <1>3 DEF ResolveRow
  <2>2. row.date \in Nat
    BY DEF RowOK
  <2> HIDE DEF currency
  <2>3. currency \in DOMAIN Quotes /\ Max(days) \in DOMAIN Quotes[currency]
    BY <2>1, <2>2, LastQuote DEF QuoteDays
  <2> HIDE DEF days
  <2>4. /\ RowOK(WithRate(row, currency, Max(days)))
        /\ LinksOf(WithRate(row, currency, Max(days))) = LinksOf(row)
    BY <2>3, WithRateIs
  <2>5. QED
    BY <2>1, <2>4
<1>4. QED
  BY <1>1, <1>2, <1>3

\* No event is shared anew by a step that is not an insert of a request.
NoNewLink == \A t : AtMostOne(t, events) => AtMostOne(t, events')

\* An import keeps the invariant and links no transaction.
LEMMA ImportEventsKeeps ==
    ASSUME EventsInv, NEW b, ImportEvents(b)
    PROVE  EventsInv' /\ NoNewLink /\ Continues
<1>1. PICK forms \in (SUBSET ImportForms) \ {{}}, answers \in BOOLEAN :
         LET known == {e.hash : e \in events}
             rows  == {ResolveRow(form, answers) :
                         form \in {f \in forms : f.hash \notin known}}
         IN /\ ImportAccepted(rows)
            /\ rows # {}
            /\ nextId + Cardinality(rows) <= MaxEvents + 1
            /\ events' = WithRows(events, rows, b)
            /\ nextId' = nextId + Cardinality(rows)
  BY DEF ImportEvents
<1> DEFINE K == {f \in forms : f.hash \notin {e.hash : e \in events}}
           rows == {ResolveRow(form, answers) : form \in K}
<1>2. events' = WithRows(events, rows, b) /\ nextId' = nextId + Cardinality(rows)
  BY <1>1
<1>3. UNCHANGED <<transactions, request, resolution>>
  BY DEF ImportEvents
<1>4. K \in SUBSET ImportForms /\ IsFiniteSet(K)
  <2>1. K \in SUBSET ImportForms
    OBVIOUS
  <2> HIDE DEF K
  <2>2. QED
    BY <2>1, FormsAssumption, FS_Subset
<1>5. \A form \in K : RowOK(form) /\ LinksOf(form) = {}
  BY <1>4, FormsRows, FormsAssumption DEF Forms
<1> HIDE DEF K
<1>6. IsFiniteSet(rows)
  <2> DEFINE f == [form \in K |-> ResolveRow(form, answers)]
  <2>1. f \in Surjection(K, rows)
    BY DEF Surjection
  <2> HIDE DEF f, rows
  <2>2. QED
    BY <1>4, <2>1, FS_Surjection
<1>7. \A row \in rows : RowOK(row) /\ LinksOf(row) = {}
  BY <1>5, ResolvedRow
<1> HIDE DEF rows
<1>8. EventsOK(events, nextId) /\ nextId \in Nat
  BY DEF EventsInv, EventsOK
<1>9. Cardinality(rows) \in Nat /\ \A row \in rows : RowOK(row)
  BY <1>6, <1>7, FS_CardinalityType
<1>10. PICK N : WithRows(events, rows, b) = events \cup N /\ Added(rows, b, N)
  BY <1>6, <1>8, <1>9, WithRowsAdds
<1>11. /\ EventsOK(events \cup N, nextId + Cardinality(rows))
       /\ \A days : RatesOK(events, nextId, days) =>
            RatesOK(events \cup N, nextId + Cardinality(rows), days)
       /\ \A t : AtMostOne(t, events) => AtMostOne(t, events \cup N)
       /\ \A e \in events, f \in events \cup N : e.id = f.id => Inherits(e, f)
  BY <1>7, <1>8, <1>9, <1>10, AddingKeeps
<1>12. EventsInv'
  BY <1>2, <1>3, <1>10, <1>11 DEF EventsInv
<1>13. NoNewLink /\ Continues
  BY <1>2, <1>10, <1>11 DEF NoNewLink, Continues
<1>14. QED
  BY <1>12, <1>13

\* A step that only deletes and changes events, and no request, keeps the invariant.
LEMMA ChangingKeeps ==
    ASSUME EventsInv, NEW K \in SUBSET events, NEW g, \A e \in K : Inherits(e, g[e]),
           events' = Image(g, K), nextId' = nextId, request' = request,
           resolution' = [s \in Resolvers |-> resolution'[s]],
           \A s \in Resolvers :
              resolution'[s].st = "found" => resolution'[s] = resolution[s]
    PROVE  EventsInv' /\ NoNewLink /\ Continues
<1>1. EventsOK(events, nextId)
  BY DEF EventsInv
<1>2. /\ EventsOK(Image(g, K), nextId)
      /\ \A days : RatesOK(events, nextId, days) => RatesOK(Image(g, K), nextId, days)
      /\ \A t : AtMostOne(t, events) => AtMostOne(t, Image(g, K))
      /\ \A e \in events, f \in Image(g, K) : e.id = f.id => Inherits(e, f)
  BY <1>1, ImageKeeps
<1>3. EventsOK(events', nextId')
  BY <1>2
<1>4. \A s \in Resolvers :
         resolution'[s].st = "found" => RatesOK(events', nextId', resolution'[s].days)
  BY <1>2 DEF EventsInv
<1>5. NoNewLink /\ Continues
  BY <1>2 DEF NoNewLink, Continues
<1>6. QED
  BY <1>3, <1>4, <1>5 DEF EventsInv

\* An event inherits from itself.
LEMMA SameInherits ==
    ASSUME NEW e, RowOK(e)
    PROVE  Inherits(e, e)
BY DEF Inherits, RateKept

\* A rollback only takes events away.
LEMMA RollBackImportKeeps ==
    ASSUME EventsInv, NEW b, RollBackImport(b)
    PROVE  EventsInv' /\ NoNewLink /\ Continues
<1> DEFINE K == {e \in events : e.batch # b}
           g == [e \in events |-> e]
<1>1. events' = Image(g, K)
  BY DEF RollBackImport, Image
<1>2. \A e \in K : Inherits(e, g[e])
  BY SameInherits DEF EventsInv, EventsOK
<1>3. K \in SUBSET events
  OBVIOUS
<1>4. /\ UNCHANGED <<nextId, transactions, request, resolution>>
      /\ resolution = [s \in Resolvers |-> resolution[s]]
  BY DEF RollBackImport, EventsInv
<1> HIDE DEF K, g
<1>5. QED
  BY <1>1, <1>2, <1>3, <1>4, ChangingKeeps

\* The look-up of pending rates writes no event and finds only rates of quoted days.
LEMMA FindRatesKeeps ==
    ASSUME EventsInv, NEW s \in Resolvers, FindRates(s)
    PROVE  EventsInv' /\ NoNewLink /\ Continues
<1>1. PICK answered \in SUBSET DOMAIN Quotes :
         LET resolvable == {e \in Unresolved(events) :
                              /\ Upper(e.currency) \in answered
                              /\ RateDays(Unresolved(events), e) # {}}
         IN /\ resolvable # {}
            /\ resolution' = [resolution EXCEPT ![s] =
                 [st |-> "found",
                  days |-> [id \in {e.id : e \in resolvable} |->
                     Max(RateDays(Unresolved(events),
                                  CHOOSE e \in resolvable : e.id = id))]]]
  BY DEF FindRates
<1> DEFINE resolvable == {e \in Unresolved(events) :
                            /\ Upper(e.currency) \in answered
                            /\ RateDays(Unresolved(events), e) # {}}
           ids == {e.id : e \in resolvable}
           The(id) == CHOOSE e \in resolvable : e.id = id
           days == [id \in ids |-> Max(RateDays(Unresolved(events), The(id)))]
<1>2. resolution' = [resolution EXCEPT ![s] = [st |-> "found", days |-> days]]
  BY <1>1
<1>3. UNCHANGED <<events, nextId, transactions, request>>
  BY DEF FindRates
<1>4. resolvable \subseteq events /\ \A e \in resolvable :
         Pending(e) /\ RateDays(Unresolved(events), e) # {}
  BY DEF Unresolved, Pending
<1> HIDE DEF resolvable
<1>5. ASSUME NEW id \in ids PROVE The(id) \in resolvable /\ The(id).id = id
  BY DEF ids
<1>6. RatesOK(events, nextId, days)
  <2>1. ASSUME NEW id \in ids
        PROVE  /\ id \in Nat /\ id < nextId
               /\ \A e \in events : e.id = id =>
                    RateDay(e, days[id]) /\ (Pending(e) \/ HasRate(e, days[id]))
    <3> DEFINE x == The(id)
               currency == Upper(x.currency)
               from == Min(PendingDates(Unresolved(events), currency)) - Lookback
    <3>1. /\ x \in events /\ x.id = id /\ Pending(x)
          /\ RateDays(Unresolved(events), x) # {}
      BY <1>4, <1>5
    <3>2. RateDays(Unresolved(events), x) = QuoteDays(currency, from, x.date)
      BY DEF RateDays
    <3>3. x.date \in Nat /\ x.id \in Nat /\ x.id < nextId
      BY <3>1 DEF EventsInv, EventsOK, RowOK
    <3>4. days[id] = Max(RateDays(Unresolved(events), x))
      OBVIOUS
    <3> HIDE DEF days, from, x
    <3>5. QuoteDays(currency, from, x.date) # {}
      BY <3>1, <3>2
    <3> HIDE DEF currency
    <3>6. /\ currency \in DOMAIN Quotes
          /\ days[id] \in QuoteDays(currency, from, x.date)
          /\ \A q \in QuoteDays(currency, from, x.date) : q <= days[id]
      BY <3>2, <3>3, <3>4, <3>5, LastQuote
    <3>7. from \in Int
      <4>1. PendingDates(Unresolved(events), currency) \subseteq Nat
        BY DEF PendingDates, Unresolved, EventsInv, EventsOK, RowOK
      <4>2. x.date \in PendingDates(Unresolved(events), currency)
        BY <3>1 DEF PendingDates, Unresolved, Pending, currency
      <4>3. Min(PendingDates(Unresolved(events), currency)) \in Nat
        BY <4>1, <4>2, LeastOf DEF Min
      <4>4. QED
        BY <4>3, LookbackAssumption DEF from
    <3>8. RateDay(x, days[id])
      BY <3>6, <3>7, RateDayFrom DEF currency
    <3>9. ASSUME NEW e \in events, e.id = id PROVE e = x
      BY <3>1, <3>9 DEF EventsInv, EventsOK
    <3>10. QED
      BY <3>1, <3>3, <3>8, <3>9
  <2>2. DOMAIN days = ids
    OBVIOUS
  <2> HIDE DEF days, ids
  <2>3. QED
    BY <2>1, <2>2 DEF RatesOK
<1> HIDE DEF days
<1>7. /\ resolution' = [q \in Resolvers |-> resolution'[q]]
      /\ resolution'[s].days = days
      /\ \A q \in Resolvers \ {s} : resolution'[q] = resolution[q]
  BY <1>2 DEF EventsInv
<1>8. EventsInv'
  BY <1>3, <1>6, <1>7 DEF EventsInv
<1>9. NoNewLink /\ Continues
  BY <1>3, SameContinues DEF NoNewLink
<1>10. QED
  BY <1>8, <1>9

\* Writing the rates changes the rate of pending events and nothing else of them; if it
\* writes at all, every event found has its rate then.
LEMMA WriteRatesKeeps ==
    ASSUME EventsInv, NEW s \in Resolvers, WriteRates(s)
    PROVE  /\ EventsInv' /\ NoNewLink /\ Continues
           /\ events' # events => \A id \in DOMAIN resolution[s].days :
                                   \E f \in events' \ Unresolved(events') : f.id = id
<1> DEFINE found == DOMAIN resolution[s].days
           g == [e \in events |-> IF e.id \in found
                                    THEN WithRate(e, Upper(e.currency), resolution[s].days[e.id])
                                    ELSE e]
<1>1. /\ resolution[s].st = "found"
      /\ resolution' = [resolution EXCEPT ![s] = [st |-> "idle"]]
      /\ UNCHANGED <<nextId, transactions, request>>
  BY DEF WriteRates
<1>2. /\ resolution' = [q \in Resolvers |-> resolution'[q]]
      /\ \A q \in Resolvers :
           resolution'[q].st = "found" => resolution'[q] = resolution[q]
  BY <1>1 DEF EventsInv
<1>3. \A e \in events : RowOK(e) /\ Inherits(e, e)
  BY SameInherits DEF EventsInv, EventsOK
<1>4. CASE found \subseteq {e.id : e \in events}
  <2>1. events' = Image(g, events)
    BY <1>4 DEF WriteRates, Image
  <2>2. ASSUME NEW e \in events, e.id \in found
        PROVE  Inherits(e, g[e]) /\ g[e].id = e.id /\ ~Pending(g[e])
    <3> DEFINE day == resolution[s].days[e.id]
               w == WithRate(e, Upper(e.currency), day)
    <3>1. RatesOK(events, nextId, resolution[s].days)
      BY <1>1 DEF EventsInv
    <3>2. RateDay(e, day) /\ (Pending(e) \/ HasRate(e, day))
      BY <2>2, <3>1 DEF RatesOK
    <3>3. Upper(e.currency) \in DOMAIN Quotes /\ day \in DOMAIN Quotes[Upper(e.currency)]
      BY <3>2 DEF RateDay, QuoteDays
    <3>4. g[e] = w
      BY <2>2
    <3> HIDE DEF g, found, day
    <3>5. /\ RowOK(w) /\ LinksOf(w) = LinksOf(e)
          /\ w.id = e.id /\ w.currency = e.currency /\ w.date = e.date
          /\ w.fx = Quotes[Upper(e.currency)][day] /\ w.fx # 0
          /\ w.fxSource = "yfinance_historical" /\ w.fxDay = day
      BY <1>3, <3>3, WithRateIs
    <3> HIDE DEF w
    <3>6. HasRate(w, day) /\ ~Pending(w)
      BY <3>5 DEF HasRate, Pending
    <3>7. HasRate(e, day) => RateKept(e, w)
      BY <3>5 DEF HasRate, RateKept
    <3>8. Inherits(e, w)
      BY <3>2, <3>5, <3>6, <3>7 DEF Inherits
    <3>9. QED
      BY <3>4, <3>5, <3>6, <3>8
  <2>3. \A e \in events : Inherits(e, g[e])
    BY <1>3, <2>2
  <2>4. ASSUME NEW id \in found
        PROVE  \E f \in events' \ Unresolved(events') : f.id = id
    <3>1. PICK e \in events : e.id = id
      BY <1>4
    <3>2. g[e] \in events'
      BY <2>1 DEF Image
    <3>3. g[e].id = id /\ ~Pending(g[e])
      BY <2>2, <3>1
    <3> HIDE DEF g
    <3>4. QED
      BY <3>2, <3>3 DEF Unresolved, Pending
  <2> HIDE DEF g
  <2>5. nextId' = nextId /\ request' = request /\ events \in SUBSET events
    BY <1>1
  <2>6. EventsInv' /\ NoNewLink /\ Continues
    BY <1>2, <2>1, <2>3, <2>5, ChangingKeeps
  <2>7. QED
    BY <2>4, <2>6
<1>5. CASE ~(found \subseteq {e.id : e \in events})
  <2>1. events' = events
    BY <1>5 DEF WriteRates
  <2>2. QED
    BY <1>1, <1>2, <2>1, SameContinues DEF EventsInv, NoNewLink
<1>6. QED
  BY <1>4, <1>5

Freed(e, gone) == [e EXCEPT !.tx = IF @ \in gone THEN None ELSE @,
                            !.matched = IF @ \in gone THEN None ELSE @]

\* An event whose transaction is gone keeps everything but the link.
LEMMA FreedIs ==
    ASSUME NEW e, RowOK(e), NEW gone
    PROVE  Inherits(e, Freed(e, gone))
<1> DEFINE w == Freed(e, gone)
           tx == IF e.tx \in gone THEN None ELSE e.tx
           matched == IF e.matched \in gone THEN None ELSE e.matched
<1>1. DOMAIN e = EventFields
  BY DEF RowOK
<1>2. {"id", "date", "currency", "fx", "fxSource", "fxDay", "quantity", "price", "amount",
       "costs", "tx", "matched"} \subseteq EventFields
  BY DEF EventFields
<1>3. w = [e EXCEPT !.tx = tx, !.matched = matched]
  BY DEF Freed
<1>4. tx \in {None, e.tx} /\ matched \in {None, e.matched}
  OBVIOUS
<1> HIDE DEF tx, matched
<1>5. w = [f \in EventFields |-> IF f = "matched" THEN matched
                                 ELSE IF f = "tx" THEN tx ELSE e[f]]
  BY <1>1, <1>3
<1> HIDE DEF w
<1>6. /\ w.id = e.id /\ w.date = e.date /\ w.currency = e.currency /\ w.fx = e.fx
      /\ w.fxSource = e.fxSource /\ w.fxDay = e.fxDay
      /\ w.quantity = e.quantity /\ w.price = e.price
      /\ w.amount = e.amount /\ w.costs = e.costs
      /\ w.tx = tx /\ w.matched = matched
  BY <1>2, <1>5
<1>7. w = [f \in EventFields |-> w[f]]
  BY <1>5
<1>8. RowOK(w)
  BY <1>6, <1>7 DEF RowOK
<1>9. LinksOf(w) \subseteq LinksOf(e)
  BY <1>4, <1>6 DEF LinksOf
<1>10. QED
  BY <1>6, <1>8, <1>9 DEF Inherits, RateKept, w

\* Freeing the links of some of the events keeps the invariant and adds no link.
LEMMA UnlinkedKeeps ==
    ASSUME EventsInv, NEW K \in SUBSET events, NEW gone,
           events' = Unlinked(K, gone), UNCHANGED <<nextId, request, resolution>>
    PROVE  EventsInv' /\ NoNewLink /\ Continues
<1> DEFINE g == [e \in events |-> Freed(e, gone)]
<1>1. events' = Image(g, K)
  BY DEF Unlinked, Image, Freed
<1>2. \A e \in K : Inherits(e, g[e])
  BY FreedIs DEF EventsInv, EventsOK
<1> HIDE DEF g
<1>3. resolution' = [s \in Resolvers |-> resolution'[s]]
  BY DEF EventsInv
<1>4. QED
  BY <1>1, <1>2, <1>3, ChangingKeeps

\* Deleting a transaction keeps the invariant.
LEMMA DeleteTransactionKeeps ==
    ASSUME EventsInv, NEW t, DeleteTransaction(t)
    PROVE  EventsInv' /\ NoNewLink /\ Continues
<1>1. events' = Unlinked(events, {t}) /\ UNCHANGED <<nextId, request, resolution>>
  BY DEF DeleteTransaction
<1>2. QED
  BY <1>1, UnlinkedKeeps

\* A month reset keeps the invariant.
LEMMA ResetMonthKeeps ==
    ASSUME EventsInv, NEW m, ResetMonth(m)
    PROVE  EventsInv' /\ NoNewLink /\ Continues
<1> DEFINE gone == {t \in transactions : MonthOf(TxDate[t]) = m}
           kept == {e \in events : MonthOf(e.date) # m}
<1>1. events' = Unlinked(kept, gone) /\ UNCHANGED <<nextId, request, resolution>>
  BY DEF ResetMonth
<1>2. kept \in SUBSET events
  OBVIOUS
<1> HIDE DEF kept, gone
<1>3. QED
  BY <1>1, <1>2, UnlinkedKeeps

-----------------------------------------------------------------------------
(* Steps                                                                   *)

\* An insert whose check saw the events of now adds no second link.
LEMMA CommitLinks ==
    ASSUME EventsInv, NEW r \in Requests, CommitEvent(r)
    PROVE  NoNewLink \/ (Commits(r) /\ ~Fresh(r))
<1>1. CASE LinksOf(request[r].form) \subseteq transactions
  <2> DEFINE form == request[r].form
             s == Stored(form, nextId, None)
  <2>1. /\ form \in CreateForms /\ RowOK(form) /\ events' = events \cup {s}
        /\ request' = [request EXCEPT ![r].st = "created"]
    BY <1>1, CommitAdds
  <2>2. /\ request[r].st = "checked" /\ "st" \in DOMAIN request[r]
        /\ Passed(form, request[r].seen) /\ nextId \in Nat
        /\ request = [q \in Requests |-> request[q]]
    BY DEF CommitEvent, EventsInv, EventsOK
  <2>3. request'[r].st = "created"
    BY <2>1, <2>2
  <2>4. Commits(r)
    BY <2>2, <2>3 DEF Commits
  <2>5. LinksOf(s) = LinksOf(form)
    BY <2>1, <2>2, StoredIs
  <2>6. ASSUME Fresh(r), NEW t, AtMostOne(t, events) PROVE AtMostOne(t, events')
    <3>1. t \in LinksOf(form) => \A e \in events : t \notin LinksOf(e)
      BY <2>2, <2>6 DEF Passed, Fresh
    <3> HIDE DEF s, form
    <3>2. QED
      BY <2>1, <2>5, <2>6, <3>1 DEF AtMostOne
  <2>7. QED
    BY <2>4, <2>6 DEF NoNewLink
<1>2. CASE ~(LinksOf(request[r].form) \subseteq transactions)
  <2>1. events' = events
    BY <1>2 DEF CommitEvent
  <2>2. QED
    BY <2>1 DEF NoNewLink
<1>3. QED
  BY <1>1, <1>2

\* Every step keeps the invariant, and gives a transaction a second event only when
\* it is an insert whose check was overtaken.
LEMMA EventsStep ==
    ASSUME EventsInv, [Next]_vars
    PROVE  /\ EventsInv' /\ Continues
           /\ NoNewLink \/ \E r \in Requests : Commits(r) /\ ~Fresh(r)
<1>1. ASSUME NEW r \in Requests, CheckEvent(r)
      PROVE  EventsInv' /\ NoNewLink /\ Continues
  <2>1. events' = events
    BY <1>1 DEF CheckEvent
  <2>2. QED
    BY <1>1, <2>1, CheckEventKeeps, SameContinues DEF NoNewLink
<1>2. ASSUME NEW r \in Requests, CommitEvent(r)
      PROVE  /\ EventsInv' /\ Continues
             /\ NoNewLink \/ \E q \in Requests : Commits(q) /\ ~Fresh(q)
  BY <1>2, CommitEventKeeps, CommitLinks
<1>3. ASSUME NEW b \in Batches, ImportEvents(b) \/ RollBackImport(b)
      PROVE  EventsInv' /\ NoNewLink /\ Continues
  BY <1>3, ImportEventsKeeps, RollBackImportKeeps
<1>4. ASSUME NEW s \in Resolvers, FindRates(s) \/ WriteRates(s)
      PROVE  EventsInv' /\ NoNewLink /\ Continues
  BY <1>4, FindRatesKeeps, WriteRatesKeeps
<1>5. ASSUME NEW t \in Transactions, DeleteTransaction(t)
      PROVE  EventsInv' /\ NoNewLink /\ Continues
  BY <1>5, DeleteTransactionKeeps
<1>6. ASSUME NEW d \in Dates, ResetMonth(MonthOf(d))
      PROVE  EventsInv' /\ NoNewLink /\ Continues
  BY <1>6, ResetMonthKeeps
<1>7. CASE UNCHANGED vars
  BY <1>7, SameContinues DEF vars, EventsInv, NoNewLink
<1>8. QED
  BY <1>1, <1>2, <1>3, <1>4, <1>5, <1>6, <1>7 DEF Next

\* Whatever requests, imports, resolutions and deletions do in turn, the ids of the
\* events stay unique, their numbers are numbers, a request past its check asks for
\* what the check let through, and a rate found is that of the event's day, which is
\* pending still or has this very rate.
THEOREM EventsInvariant == Spec => []EventsInv
<1>1. Init => EventsInv
  BY EventsInitInv
<1>2. EventsInv /\ [Next]_vars => EventsInv'
  BY EventsStep
<1>3. QED
  BY <1>1, <1>2, PTL DEF Spec

\* Spec keeps RatesWrittenOnce: an event gets one rate after it was stored, the last of
\* its currency up to its day, and a resolution writes all it has found or nothing.
THEOREM RatesAlwaysWrittenOnce == Spec => RatesWrittenOnce
<1> DEFINE Step == /\ \A e \in events, f \in events' : e.id = f.id =>
                        \/ RateKept(e, f)
                        \/ e \in Unresolved(events) /\ RateDay(e, f.fxDay) /\ HasRate(f, f.fxDay)
                   /\ \A s \in Resolvers : WritesRates(s) /\ events' # events =>
                        \A id \in DOMAIN resolution[s].days :
                           \E f \in events' \ Unresolved(events') : f.id = id
<1>1. ASSUME EventsInv, [Next]_vars PROVE Step
  <2>1. Continues
    BY <1>1, EventsStep
  <2>2. ASSUME NEW e \in events, NEW f \in events', e.id = f.id
        PROVE  \/ RateKept(e, f)
               \/ /\ e \in Unresolved(events)
                  /\ RateDay(e, f.fxDay) /\ HasRate(f, f.fxDay)
    BY <2>1, <2>2 DEF Continues, Inherits, Unresolved, Pending
  <2>3. ASSUME NEW s \in Resolvers, WritesRates(s), events' # events
        PROVE  WriteRates(s)
    <3>1. resolution'[s] # resolution[s]
      BY <2>3 DEF WritesRates
    <3>2. resolution' # resolution
      BY <3>1
    <3>3. PICK q \in Resolvers : FindRates(q) \/ WriteRates(q)
      BY <1>1, <3>2 DEF Next, vars, CheckEvent, CommitEvent, ImportEvents, RollBackImport,
         DeleteTransaction, ResetMonth
    <3>4. WriteRates(q)
      BY <2>3, <3>3 DEF FindRates
    <3>5. resolution' = [resolution EXCEPT ![q] = [st |-> "idle"]]
      BY <3>4 DEF WriteRates
    <3>6. q = s
      BY <1>1, <3>1, <3>5 DEF EventsInv
    <3>7. QED
      BY <3>4, <3>6
  <2>4. QED
    BY <1>1, <2>2, <2>3, WriteRatesKeeps
<1>2. EventsInv /\ [Next]_vars => [Step]_vars
  BY <1>1
<1> HIDE DEF Step
<1>3. Spec => [][Step]_vars
  BY <1>2, EventsInvariant, PTL DEF Spec
<1>4. QED
  BY <1>3 DEF RatesWrittenOnce, Step

-----------------------------------------------------------------------------
(* The second event of a transaction                                       *)

LEMMA AtMostOneIs ==
    ASSUME NEW S, IsFiniteSet(S), NEW t
    PROVE  FundsOneEvent(t, S) <=> AtMostOne(t, S)
<1> DEFINE L == {e \in S : t \in LinksOf(e)}
<1>1. IsFiniteSet(L)
  <2>1. L \in SUBSET S
    OBVIOUS
  <2> HIDE DEF L
  <2>2. QED
    BY <2>1, FS_Subset
<1>2. AtMostOne(t, S) <=> (L = {} \/ \E x : L = {x})
  <2>1. AtMostOne(t, S) <=> \A a, b \in L : a = b
    BY DEF AtMostOne
  <2> HIDE DEF L
  <2>2. QED
    BY <2>1
<1>3. FundsOneEvent(t, S) <=> Cardinality(L) <= 1
  BY DEF FundsOneEvent
<1> HIDE DEF L
<1>4. /\ Cardinality(L) \in Nat
      /\ Cardinality(L) = 0 <=> L = {}
      /\ Cardinality(L) = 1 <=> \E x : L = {x}
  BY <1>1, FS_CardinalityType, FS_EmptySet, FS_Singleton
<1>5. Cardinality(L) <= 1 <=> Cardinality(L) = 0 \/ Cardinality(L) = 1
  BY <1>4
<1>6. QED
  BY <1>2, <1>3, <1>4, <1>5, Zenon

\* Spec keeps SecondLinkNeedsOverlap: a transaction becomes the funding of a second
\* event only through a request whose check another one overtook.
THEOREM SecondLinksNeedOverlap == Spec => SecondLinkNeedsOverlap
<1> DEFINE Step == \A t \in Transactions :
                      FundsOneEvent(t, events) /\ ~FundsOneEvent(t, events')
                         => \E r \in Requests : Commits(r) /\ ~Fresh(r)
<1>1. EventsInv /\ EventsInv' /\ [Next]_vars => Step
  <2>1. SUFFICES ASSUME EventsInv, EventsInv', [Next]_vars, NEW t \in Transactions,
                        FundsOneEvent(t, events), ~FundsOneEvent(t, events')
                 PROVE  \E r \in Requests : Commits(r) /\ ~Fresh(r)
    OBVIOUS
  <2>2. EventsOK(events, nextId) /\ EventsOK(events', nextId')
    BY <2>1 DEF EventsInv
  <2>3. IsFiniteSet(events) /\ IsFiniteSet(events')
    BY <2>2, EventsFinite
  <2>4. AtMostOne(t, events)
    BY <2>1, <2>3, AtMostOneIs
  <2>5. ~AtMostOne(t, events')
    BY <2>1, <2>3, AtMostOneIs
  <2>6. ~NoNewLink
    BY <2>4, <2>5 DEF NoNewLink
  <2>7. QED
    BY <2>1, <2>6, EventsStep
<1>2. EventsInv /\ EventsInv' /\ [Next]_vars => [Step]_vars
  BY <1>1
<1> HIDE DEF Step
<1>3. Spec => [][Step]_vars
  BY EventsInvariant, <1>2, PTL DEF Spec
<1>4. QED
  BY <1>3 DEF SecondLinkNeedsOverlap, Step

-----------------------------------------------------------------------------
(* The cash invested in a month                                            *)

\* Spec keeps MonthsAgree: the summary of a month and the portfolio's monthly change
\* add up the same euros.
THEOREM MonthsAlwaysAgree == Spec => []MonthsAgree
<1>1. MonthsAgree
  <2>1. SUFFICES ASSUME NEW m, CashInvested(events, m) # Unavailable,
                        \A e \in InMonth(events, m) :
                           Upper(e.currency) = "EUR" => e.currency = "EUR"
                 PROVE  CashInvested(events, m) = <<NetInvested(events, m)>>
    BY DEF MonthsAgree
  <2>2. Upper("EUR") = "EUR"
    BY CurrencyAssumption DEF Upper
  <2>3. \A e \in InMonth(events, m) : Upper(e.currency) = "EUR" <=> e.currency = "EUR"
    BY <2>1, <2>2
  <2>4. [e \in InMonth(events, m) |-> SignedEur(e, IF e.currency = "EUR" THEN 1 ELSE e.fx)]
        = [e \in InMonth(events, m) |->
              SignedEur(e, IF Upper(e.currency) = "EUR" THEN 1 ELSE e.fx)]
    BY <2>3
  <2>5. QED
    BY <2>1, <2>4 DEF CashInvested, NetInvested
<1>2. QED
  BY <1>1, PTL

-----------------------------------------------------------------------------
(* A checked trade and the positions                                       *)

\* A request turns "created" by its own insert, which the foreign keys let through.
LEMMA CommitsIsInsert ==
    ASSUME EventsInv, [Next]_vars, NEW r \in Requests, Commits(r)
    PROVE  CommitEvent(r) /\ LinksOf(request[r].form) \subseteq transactions
<1>1. /\ request[r].st = "checked" /\ request'[r].st = "created"
      /\ request = [q \in Requests |-> request[q]]
  BY DEF Commits, EventsInv
<1>2. ASSUME NEW q \in Requests, CheckEvent(q) PROVE FALSE
  <2>1. q # r
    BY <1>1, <1>2 DEF CheckEvent
  <2>2. request'[r] = request[r]
    BY <1>1, <1>2, <2>1 DEF CheckEvent
  <2>3. QED
    BY <1>1, <2>2
<1>3. ASSUME NEW q \in Requests, CommitEvent(q) PROVE q = r
  <2>1. SUFFICES ASSUME q # r PROVE FALSE
    OBVIOUS
  <2>2. request'[r] = request[r]
    BY <1>1, <1>3, <2>1 DEF CommitEvent
  <2>3. QED
    BY <1>1, <2>2
<1>4. request' # request
  BY <1>1
<1>5. ~(UNCHANGED vars) /\ \A s \in Resolvers : ~FindRates(s) /\ ~WriteRates(s)
  BY <1>4 DEF vars, FindRates, WriteRates
<1>6. /\ \A b \in Batches : ~ImportEvents(b) /\ ~RollBackImport(b)
      /\ \A t \in Transactions : ~DeleteTransaction(t)
      /\ \A d \in Dates : ~ResetMonth(MonthOf(d))
  BY <1>4 DEF ImportEvents, RollBackImport, DeleteTransaction, ResetMonth
<1>7. CommitEvent(r)
  BY <1>2, <1>3, <1>5, <1>6 DEF Next
<1>8. LinksOf(request[r].form) \subseteq transactions
  <2>1. SUFFICES ASSUME ~(LinksOf(request[r].form) \subseteq transactions) PROVE FALSE
    OBVIOUS
  <2>2. request' = [request EXCEPT ![r] = [st |-> "refused"]]
    BY <1>7, <2>1 DEF CommitEvent
  <2>3. request'[r] = [st |-> "refused"]
    BY <1>1, <2>2
  <2>4. QED
    BY <1>1, <2>3
<1>9. QED
  BY <1>7, <1>8

\* The row the check puts at the end of the events.
LEMMA CandidateIs ==
    ASSUME NEW row, RowOK(row), NEW id \in Nat
    PROVE  LET c == [row EXCEPT !.id = id]
           IN /\ RowOK(c) /\ c.id = id /\ c.type = row.type /\ c.date = row.date
              /\ c.quantity = row.quantity /\ IdentityKey(c) = IdentityKey(row)
<1> DEFINE c == [row EXCEPT !.id = id]
<1>1. DOMAIN row = EventFields
  BY DEF RowOK
<1>2. c = [f \in EventFields |-> IF f = "id" THEN id ELSE row[f]]
  BY <1>1
<1>3. {"id", "type", "date", "fx", "quantity", "price", "amount", "costs", "ticker", "isin",
     "currency"}
        \subseteq EventFields
  BY DEF EventFields
<1> HIDE DEF c
<1>4. /\ c.id = id /\ c.type = row.type /\ c.date = row.date /\ c.fx = row.fx
      /\ c.quantity = row.quantity /\ c.price = row.price
      /\ c.amount = row.amount /\ c.costs = row.costs
      /\ c.ticker = row.ticker /\ c.isin = row.isin /\ c.currency = row.currency
  BY <1>2, <1>3
<1>5. c = [f \in EventFields |-> c[f]]
  BY <1>2
<1>6. RowOK(c)
  BY <1>4, <1>5 DEF RowOK
<1>7. IdentityKey(c) = IdentityKey(row)
  BY <1>4 DEF IdentityKey
<1>8. QED
  BY <1>4, <1>6, <1>7 DEF c

\* A stored form trades what the form says, in the instrument it names.
LEMMA StoredTrade ==
    ASSUME NEW row, RowOK(row), NEW id \in Nat, NEW batch
    PROVE  LET s == Stored(row, id, batch)
           IN /\ s.type = row.type /\ s.date = row.date /\ s.quantity = row.quantity
              /\ s.id = id /\ IdentityKey(s) = IdentityKey(row)
<1> DEFINE s == Stored(row, id, batch)
<1>1. s.id = id /\ \A f \in EventFields \ {"id", "batch"} : s[f] = row[f]
  BY StoredIs
<1>2. {"type", "date", "quantity", "ticker", "isin", "currency"}
        \subseteq EventFields \ {"id", "batch"}
  BY DEF EventFields
<1> HIDE DEF s
<1>3. /\ s.type = row.type /\ s.date = row.date /\ s.quantity = row.quantity
      /\ s.ticker = row.ticker /\ s.isin = row.isin /\ s.currency = row.currency
  BY <1>1, <1>2
<1>4. IdentityKey(s) = IdentityKey(row)
  BY <1>3 DEF IdentityKey
<1>5. QED
  BY <1>1, <1>3, <1>4 DEF s

\* What the check makes sure of: with the trade among the events of its instrument,
\* every sale is covered.
LEMMA CheckCovers ==
    ASSUME NEW S, NEW next, EventsOK(S, next), NEW row, RowOK(row), IsMarket(row),
           row.quantity > 0, TimelineAccepted(row, S), NEW B, NEW s,
           B = {e \in Traded(S) : IdentityKey(e) = IdentityKey(row)},
           EventsOK(S \cup {s}, next + 1), s.id = next, s.date = row.date,
           s.type = row.type, s.quantity = row.quantity
    PROVE  ~BucketOf(B \cup {s}).raised
<1> DEFINE ids == {e.id : e \in S} \cup {0}
           last == Max(ids) + 1
           c == [row EXCEPT !.id = last]
           same == {e \in S : IdentityKey(e) = IdentityKey(row)}
<1>1. SalesCovered(same \cup {c})
  BY DEF TimelineAccepted
<1>2. last \in Nat /\ \A e \in S : e.id < last
  <2>1. ids \in SUBSET Nat /\ ids # {} /\ next \in Nat /\ \A n \in ids : n <= next
    BY DEF EventsOK
  <2>2. \A e \in S : e.id \in ids
    OBVIOUS
  <2> HIDE DEF ids
  <2>3. Max(ids) \in ids /\ \A n \in ids : n <= Max(ids)
    BY <2>1, MaxIsOne
  <2>4. QED
    BY <2>1, <2>2, <2>3
<1> HIDE DEF last, ids
<1>3. /\ RowOK(c) /\ c.id = last /\ c.type = row.type /\ c.date = row.date
      /\ c.quantity = row.quantity
  BY <1>2, CandidateIs
<1> HIDE DEF c
<1>4. Traded(same \cup {c}) = B \cup {c}
  BY <1>3 DEF Traded, IsMarket
<1>5. AllCovered(B \cup {c})
  <2>1. ASSUME NEW sale \in B \cup {c}, sale.type # "market_buy"
        PROVE  sale.quantity <= Quantity({e \in B \cup {c} : Earlier(e, sale)})
    <3>1. sale \in Traded(same \cup {c})
      BY <1>4
    <3>2. sale.type = "market_sell"
      BY <2>1, <3>1 DEF Traded, IsMarket
    <3>3. sale.quantity <= Quantity({e \in Traded(same \cup {c}) : Earlier(e, sale)})
      BY <1>1, <3>1, <3>2 DEF SalesCovered
    <3>4. QED
      BY <1>4, <3>3
  <2>2. QED
    BY <2>1 DEF AllCovered
<1>6. B \in SUBSET S /\ \A e \in B : RowOK(e) /\ e.id \in Nat /\ e.id < next
  BY DEF Traded, EventsOK
<1>7. Twins(B, c, s)
  <2>1. TradeBook(B)
    <3>1. TradeBook(S)
      BY EventsBook
    <3>2. QED
      BY <1>6, <3>1, PartOfTradeBook
  <2>2. TradeBook(B \cup {s})
    <3>1. TradeBook(S \cup {s}) /\ (B \cup {s}) \in SUBSET (S \cup {s})
      BY <1>6, EventsBook
    <3>2. QED
      BY <3>1, PartOfTradeBook
  <2>3. TradeBook(B \cup {c})
    <3>1. IsFiniteSet(B \cup {c})
      BY <2>1, FS_AddElement DEF TradeBook, Book
    <3>2. ASSUME NEW a \in B \cup {c}
          PROVE  /\ a.id \in Nat /\ a.date \in Nat
                 /\ a.quantity \in Int /\ a.amount \in Int /\ a.costs \in Int
      BY <1>2, <1>3, <1>6 DEF RowOK
    <3>3. ASSUME NEW a \in B \cup {c}, NEW b \in B \cup {c}, a.id = b.id PROVE a = b
      BY <1>2, <1>3, <1>6, <3>3 DEF EventsOK
    <3>4. QED
      BY <3>1, <3>2, <3>3 DEF TradeBook, Book
  <2>4. \A e \in B : e.id < c.id /\ e.id < s.id
    BY <1>2, <1>3, <1>6
  <2>5. QED
    BY <1>3, <2>1, <2>2, <2>3, <2>4 DEF Twins
<1>8. AllCovered(B \cup {s})
  BY <1>5, <1>7, TwinCovered
<1>9. QED
  BY <1>7, <1>8, CoveredTradesFit DEF Twins

\* A trade whose check saw the events of now leaves every bucket readable.
LEMMA CheckedTradeReads ==
    ASSUME EventsInv, EventsInv', NEW r \in Requests, CommitEvent(r),
           LinksOf(request[r].form) \subseteq transactions,
           Fresh(r), Readable(events), ~SpeltApart(events')
    PROVE  Readable(events')
<1> DEFINE form == request[r].form
           s == Stored(form, nextId, None)
<1>1. RowOK(form) /\ events' = events \cup {s} /\ nextId' = nextId + 1
  BY CommitAdds
<1>2. MarketEventAccepted(form) /\ TimelineAccepted(form, events)
  BY DEF CommitEvent, EventsInv, Passed, Fresh
<1>3. nextId \in Nat /\ EventsOK(events, nextId) /\ EventsOK(events', nextId')
  BY DEF EventsInv, EventsOK
<1> HIDE DEF form
<1>4. /\ s.type = form.type /\ s.date = form.date /\ s.quantity = form.quantity
      /\ s.id = nextId /\ IdentityKey(s) = IdentityKey(form)
  BY <1>1, <1>3, StoredTrade
<1> HIDE DEF s
<1>5. CASE ~IsMarket(form)
  <2>1. Traded(events') = Traded(events)
    BY <1>1, <1>4, <1>5 DEF Traded, IsMarket
  <2>2. QED
    BY <2>1 DEF Readable, PositionKeys, BucketCurrencies, Holding, Bucket, BucketTrades
<1>6. CASE IsMarket(form)
  <2>1. form.quantity > 0
    BY <1>2, <1>6 DEF MarketEventAccepted
  <2>2. Traded(events') = Traded(events) \cup {s}
    BY <1>1, <1>4, <1>6, <2>1 DEF Traded, IsMarket
  <2> SUFFICES ASSUME NEW key \in PositionKeys(events'),
                      NEW currency \in BucketCurrencies(events', key)
               PROVE  ~Bucket(events', key, currency).raised
    BY DEF Readable
  <2> DEFINE Of(S) == BucketTrades(S, key, currency)
  <2>3. /\ Of(events') = {e \in Traded(events') : PositionKey(e) = key /\ e.currency = currency}
        /\ Of(events) = {e \in Traded(events) : PositionKey(e) = key /\ e.currency = currency}
    BY DEF BucketTrades, Holding
  <2>4. PICK e \in Of(events') : TRUE
    BY <2>3 DEF BucketCurrencies, Holding
  <2> HIDE DEF Of
  <2>5. CASE s \notin Of(events')
    <3>1. Of(events') = Of(events)
      BY <2>2, <2>3, <2>5
    <3>2. e \in Traded(events) /\ PositionKey(e) = key /\ e.currency = currency
      BY <2>3, <2>4, <3>1
    <3>3. key \in PositionKeys(events) /\ currency \in BucketCurrencies(events, key)
      BY <3>2 DEF PositionKeys, BucketCurrencies, Holding
    <3>4. ~BucketOf(Of(events)).raised
      BY <3>3 DEF Readable, Bucket, Of
    <3>5. QED
      BY <3>1, <3>4 DEF Bucket, Of
  <2>6. CASE s \in Of(events')
    <3> DEFINE B == {x \in Traded(events) : IdentityKey(x) = IdentityKey(form)}
    <3>1. PositionKey(s) = key /\ s.currency = currency /\ s \in Traded(events')
      BY <2>3, <2>6
    <3>2. ASSUME NEW x \in Traded(events), PositionKey(x) = key, x.currency = currency
          PROVE  IdentityKey(x) = IdentityKey(form)
      <4>1. x.ticker = s.ticker /\ x.isin = s.isin /\ x.currency = s.currency
        BY <3>1, <3>2 DEF PositionKey
      <4>2. QED
        BY <1>4, <4>1 DEF IdentityKey
    <3>3. ASSUME NEW x \in Traded(events), IdentityKey(x) = IdentityKey(form)
          PROVE  PositionKey(x) = key /\ x.currency = currency
      <4>1. x \in Traded(events') /\ IdentityKey(x) = IdentityKey(s)
        BY <1>4, <2>2, <3>3
      <4>2. PositionKey(x) = PositionKey(s) /\ x.currency = s.currency
        BY <3>1, <4>1 DEF SpeltApart
      <4>3. QED
        BY <3>1, <4>2
    <3>4. Of(events') = B \cup {s}
      BY <2>2, <2>3, <2>6, <3>2, <3>3
    <3>5. EventsOK(events \cup {s}, nextId + 1)
      BY <1>1, <1>3
    <3>6. ~BucketOf(B \cup {s}).raised
      BY <1>1, <1>2, <1>3, <1>4, <1>6, <2>1, <3>5, CheckCovers
    <3>7. QED
      BY <3>4, <3>6 DEF Bucket, Of
  <2>7. QED
    BY <2>5, <2>6
<1>7. QED
  BY <1>5, <1>6

\* Spec keeps CheckedTradesStayReadable: a trade whose check was fresh leaves no sale
\* that exceeds what average cost has in its bucket.
THEOREM CheckedTradesRead == Spec => CheckedTradesStayReadable
<1> DEFINE Step == \A r \in Requests :
                      Commits(r) /\ Fresh(r) /\ Readable(events) /\ ~SpeltApart(events')
                         => Readable(events')
<1>1. EventsInv /\ EventsInv' /\ [Next]_vars => Step
  BY CommitsIsInsert, CheckedTradeReads
<1>2. EventsInv /\ EventsInv' /\ [Next]_vars => [Step]_vars
  BY <1>1
<1> HIDE DEF Step
<1>3. Spec => [][Step]_vars
  BY EventsInvariant, <1>2, PTL DEF Spec
<1>4. QED
  BY <1>3 DEF CheckedTradesStayReadable, Step

-----------------------------------------------------------------------------
(* Days without a pending rate                                             *)

\* A fraction is not the missing value.
LEMMA PairIsAvailable == \A x, y : <<x, y>> # Unavailable
<1>1. DOMAIN Unavailable = {} /\ \A x, y : 1 \in DOMAIN <<x, y>>
  BY DEF Unavailable
<1>2. QED
  BY <1>1

\* Once no event up to a day has a rate pending, each of their currencies has a rate.
LEMMA RateIsKnown ==
    ASSUME EventsInv, NEW d, Unresolved(Until(events, d)) = {}, NEW key,
           NEW currency \in {"EUR"} \cup {e.currency : e \in Until(events, d)}
    PROVE  HistoricalRate(events, d, currency, key) # Unavailable
<1>1. CASE currency = "EUR"
  <2>1. HistoricalRate(events, d, currency, key) = <<1, 1>>
    BY <1>1 DEF HistoricalRate, Whole
  <2>2. QED
    BY <2>1, PairIsAvailable
<1>2. CASE currency # "EUR"
  <2>1. PICK e \in Until(events, d) : e.currency = currency
    BY <1>2
  <2>2. e.fx \in Nat /\ e.fx # 0
    BY <1>2, <2>1 DEF Unresolved, Until, EventsInv, EventsOK, RowOK
  <2>3. e \in Rated(Until(events, d), currency)
    BY <2>1, <2>2 DEF Rated
  <2>4. HistoricalRate(events, d, currency, key) =
          <<Newest(Rated(Until(events, d), currency)).fx, 1>>
    BY <1>2, <2>3 DEF HistoricalRate, Whole
  <2>5. QED
    BY <2>4, PairIsAvailable
<1>3. QED
  BY <1>1, <1>2

\* A position whose trades have a price has a price on the day, in a currency of the
\* closes or of the events.
LEMMA PriceIsKnown ==
    ASSUME EventsInv, NEW d, NEW book, Book(book), NEW key,
           NEW e \in Traded(Until(events, d)), e.price > 0, PositionKey(e) = key
    PROVE  LET quote == ValuationPrice(events, book, d, key)
           IN /\ quote # Unavailable
              /\ quote.currency \in {row.currency : row \in book}
                                       \cup {x.currency : x \in Until(events, d)}
<1> DEFINE closes == {row \in book : row.date <= d /\ MatchesPrice(row, key)}
           trades == {x \in Until(events, d) : IsMarket(x) /\ OfInstrument(x, key)
                                               /\ x.price > 0}
           quote == ValuationPrice(events, book, d, key)
<1>1. e \in trades
  BY DEF Traded, OfInstrument, PositionKey
<1>2. Book(Until(events, d))
  <2>1. Book(events)
    BY EventsBook DEF EventsInv, TradeBook
  <2>2. Until(events, d) \in SUBSET events
    BY DEF Until
  <2>3. QED
    BY <2>1, <2>2, PartOfBook
<1>3. closes # {} => Newest(closes) \in book
  <2>1. closes \in SUBSET book
    OBVIOUS
  <2> HIDE DEF closes
  <2>2. QED
    BY <2>1, PartOfBook, NewestIsLast
<1>4. Newest(trades) \in Until(events, d)
  <2>1. trades \in SUBSET Until(events, d) /\ trades # {}
    BY <1>1
  <2> HIDE DEF trades
  <2>2. QED
    BY <1>2, <2>1, PartOfBook, NewestIsLast
<1>5. quote = IF closes # {}
                THEN [price |-> Newest(closes).price, currency |-> Newest(closes).currency,
                      estimated |-> d - Newest(closes).date > CarryDays]
              ELSE [price |-> Newest(trades).price, currency |-> Newest(trades).currency,
                    estimated |-> TRUE]
  <2>1. trades # {}
    BY <1>1
  <2>2. QED
    BY <2>1 DEF ValuationPrice
<1> HIDE DEF closes, trades, quote
<1>6. \E price, currency, estimated :
         /\ quote = [price |-> price, currency |-> currency, estimated |-> estimated]
         /\ currency \in {row.currency : row \in book}
                            \cup {x.currency : x \in Until(events, d)}
  <2>1. CASE closes # {}
    BY <1>3, <1>5, <2>1
  <2>2. CASE closes = {}
    BY <1>4, <1>5, <2>2
  <2>3. QED
    BY <2>1, <2>2
<1>7. PICK price, currency, estimated :
         /\ quote = [price |-> price, currency |-> currency, estimated |-> estimated]
         /\ currency \in {row.currency : row \in book}
                            \cup {x.currency : x \in Until(events, d)}
  BY <1>6
<1>8. quote.currency = currency /\ "currency" \in DOMAIN quote
  BY <1>7
<1>9. DOMAIN Unavailable = {}
  BY DEF Unavailable
<1>10. quote # Unavailable
  BY <1>8, <1>9
<1>11. QED
  BY <1>7, <1>8, <1>10 DEF quote

\* Spec keeps ResolvedDaysAreValued: a day with no rate pending has a value and a
\* cost basis.
THEOREM ResolvedDaysValued == Spec => []ResolvedDaysAreValued
<1>1. ASSUME EventsInv, NEW d \in Dates, NEW table \in PriceTables,
             Unresolved(Until(events, d)) = {},
             \A e \in Traded(Until(events, d)) : e.price > 0,
             \A row \in table.history :
                row.currency \in {"EUR"} \cup {e.currency : e \in Until(events, d)}
      PROVE  /\ PortfolioValue(events, table.history, d) # Unavailable
             /\ SeriesPoint(events, table.history, d).allocated # Unavailable
  <2> DEFINE now == Until(events, d)
             book == table.history
             currencies == {"EUR"} \cup {e.currency : e \in now}
  <2>1. Book(book)
    BY PricesAssumption DEF Book
  <2>2. \A key, currency : currency \in currencies =>
           HistoricalRate(events, d, currency, key) # Unavailable
    BY <1>1, RateIsKnown
  <2>3. ASSUME NEW key \in HeldKeys(now)
        PROVE  ValueOfHolding(events, book, d, key) # Unavailable
    <3> DEFINE quote == ValuationPrice(events, book, d, key)
               rate == HistoricalRate(events, d, quote.currency, key)
    <3>1. PICK e \in Traded(now) : PositionKey(e) = key
      BY DEF HeldKeys, PositionKeys
    <3>2. e.price > 0
      BY <1>1
    <3>3. /\ quote # Unavailable
          /\ quote.currency \in {row.currency : row \in book}
                                   \cup {x.currency : x \in Until(events, d)}
      BY <1>1, <2>1, <3>1, <3>2, PriceIsKnown
    <3>4. quote.currency \in currencies
      BY <1>1, <3>3
    <3> HIDE DEF quote, currencies
    <3>5. rate # Unavailable
      BY <2>2, <3>4
    <3>6. ValueOfHolding(events, book, d, key)
            = Times(Whole(HeldOn(Until(events, d), key) * quote.price), rate)
      BY <3>3, <3>5 DEF ValueOfHolding, quote
    <3>7. QED
      BY <3>6, PairIsAvailable DEF Times
  <2>4. PortfolioValue(events, book, d) # Unavailable
    <3>1. \E x, y : PortfolioValue(events, book, d) = <<x, y>>
      BY <2>3 DEF PortfolioValue, Total
    <3>2. QED
      BY <3>1, PairIsAvailable
  <2>5. ASSUME NEW b \in OpenBuckets(now)
        PROVE  HistoricalRate(events, d, b[2], b[1]) # Unavailable
    <3>1. PICK key \in PositionKeys(now) :
             b \in {<<key, currency>> : currency \in BucketCurrencies(now, key)}
      BY DEF OpenBuckets
    <3>2. PICK currency \in BucketCurrencies(now, key) : b = <<key, currency>>
      BY <3>1
    <3>3. currency \in currencies
      BY DEF BucketCurrencies, Holding, Traded
    <3>4. QED
      BY <2>2, <3>2, <3>3
  <2>6. CostBasis(events, d) # Unavailable
    <3>1. \E x, y : CostBasis(events, d) = <<x, y>>
      BY <2>5 DEF CostBasis, Total
    <3>2. QED
      BY <3>1, PairIsAvailable
  <2>7. QED
    BY <2>4, <2>6 DEF SeriesPoint
<1>2. EventsInv => ResolvedDaysAreValued
  BY <1>1 DEF ResolvedDaysAreValued
<1>3. QED
  BY EventsInvariant, <1>2, PTL

-----------------------------------------------------------------------------
(* The books of the stored events                                          *)

\* While no sale raises, the buckets of a position close, and they hold together what
\* its trades add up to.
LEMMA PositionBooks ==
    ASSUME EventsInv, Readable(events), NEW key \in PositionKeys(events)
    PROVE  /\ IsFiniteSet(BucketCurrencies(events, key))
           /\ \A currency \in BucketCurrencies(events, key) :
                LET b == Bucket(events, key, currency)
                IN /\ BucketCloses(BucketTrades(events, key, currency), b)
                   /\ b \in Buckets /\ b.quantity >= 0 /\ b.cost[2] > 0
           /\ HeldOn(events, key) =
                SumFunction([currency \in BucketCurrencies(events, key) |->
                                Bucket(events, key, currency).quantity])
<1> DEFINE H == Holding(events, key)
           C == BucketCurrencies(events, key)
           part == [c \in C |-> BucketTrades(events, key, c)]
           q == [c \in C |-> Bucket(events, key, c).quantity]
<1>1. TradeBook(H) /\ \A e \in H : e.quantity > 0
  <2>1. TradeBook(events)
    BY EventsBook DEF EventsInv
  <2>2. H \in SUBSET events
    BY DEF Holding, Traded
  <2>3. \A e \in H : e.quantity > 0
    BY DEF Holding, Traded
  <2> HIDE DEF H
  <2>4. QED
    BY <2>1, <2>2, <2>3, PartOfTradeBook
<1>2. IsFiniteSet(C)
  <2>1. IsFiniteSet(H)
    BY <1>1 DEF TradeBook, Book
  <2>2. C = {e.currency : e \in H}
    BY DEF BucketCurrencies
  <2> DEFINE f == [e \in H |-> e.currency]
  <2> HIDE DEF H, C
  <2>3. f \in Surjection(H, C)
    BY <2>2 DEF Surjection, Range
  <2> HIDE DEF f
  <2>4. QED
    BY <2>1, <2>3, FS_Surjection
<1>3. ASSUME NEW c \in C
      PROVE  LET T == BucketTrades(events, key, c)
                 b == Bucket(events, key, c)
             IN /\ BucketCloses(T, b) /\ b.quantity = Quantity(T)
                /\ b \in Buckets /\ b.quantity >= 0 /\ b.cost[2] > 0
  <2> DEFINE T == BucketTrades(events, key, c)
             b == BucketOf(T)
  <2>1. Bucket(events, key, c) = b
    BY DEF Bucket
  <2>2. T \in SUBSET H /\ T # {}
    BY DEF BucketTrades, BucketCurrencies
  <2>3. ~b.raised
    BY <2>1 DEF Readable
  <2> HIDE DEF T, H, C
  <2>4. TradeBook(T) /\ \A e \in T : e.quantity > 0
    BY <1>1, <2>2, PartOfTradeBook
  <2>5. b \in Buckets /\ Closed(T, b)
    BY <2>3, <2>4, BucketUnfold, BucketsClose
  <2> HIDE DEF b
  <2>6. BucketCloses(T, b)
    BY <2>2, <2>4, <2>5, ClosedBucket
  <2>7. b.quantity = Quantity(T) /\ b.quantity >= 0 /\ b.cost[2] > 0
    BY <2>5 DEF Closed
  <2>8. QED
    BY <2>1, <2>5, <2>6, <2>7 DEF T
<1>4. part \in [C -> SUBSET H]
  BY DEF BucketTrades
<1>5. \A c, other \in C : c # other => part[c] \cap part[other] = {}
  BY DEF BucketTrades
<1>6. \A c \in C : q[c] = Quantity(part[c])
  BY <1>3
<1>7. UNION {part[c] : c \in C} = H
  <2>1. ASSUME NEW e \in H PROVE e.currency \in C /\ e \in part[e.currency]
    BY DEF BucketTrades, BucketCurrencies
  <2>2. \A c \in C : part[c] \subseteq H
    BY <1>4
  <2> HIDE DEF H, C, part
  <2>3. QED
    BY <2>1, <2>2
<1>8. HeldOn(events, key) = Quantity(H)
  BY DEF HeldOn
<1>9. SumFunction(q) = SumFunctionOnSet(q, C)
  BY DEF SumFunction
<1> HIDE DEF H, C, part, q
<1>10. SumFunctionOnSet(q, C) = Quantity(UNION {part[c] : c \in C})
  BY <1>1, <1>2, <1>4, <1>5, <1>6, PartsAddUp
<1>11. HeldOn(events, key) = SumFunction(q)
  BY <1>7, <1>8, <1>9, <1>10
<1>12. QED
  BY <1>2, <1>3, <1>11 DEF C, q

\* Spec keeps BooksClose: while no sale raises, the cost that was paid for every bucket
\* is in it or was set against the proceeds of its sales, and the buckets of a position
\* hold what its trades add up to.
THEOREM BooksAlwaysClose == Spec => []BooksClose
<1>1. EventsInv => BooksClose
  BY PositionBooks DEF BooksClose
<1>2. QED
  BY EventsInvariant, <1>1, PTL

-----------------------------------------------------------------------------
(* The chart and the list of positions                                     *)

\* Where no two events share a day, the first of the newest day is the newest of all.
LEMMA FirstIsNewest ==
    ASSUME NEW S, Book(S), S # {}, OneADay(S)
    PROVE  FirstOfNewestDay(S) = Newest(S)
<1> DEFINE First(e) == \A other \in S \ {e} :
                          \/ other.date < e.date
                          \/ other.date = e.date /\ e.id < other.id
<1>1. Newest(S) \in S /\ \A other \in S \ {Newest(S)} : Earlier(other, Newest(S))
  BY NewestIsLast
<1>2. First(Newest(S))
  BY <1>1 DEF OneADay, Earlier
<1>3. FirstOfNewestDay(S) \in S /\ First(FirstOfNewestDay(S))
  <2>1. \E e \in S : First(e)
    BY <1>1, <1>2
  <2>2. FirstOfNewestDay(S) = CHOOSE e \in S : First(e)
    BY DEF FirstOfNewestDay
  <2> HIDE DEF First
  <2>3. QED
    BY <2>1, <2>2
<1>4. IsLast(S, FirstOfNewestDay(S))
  BY <1>3 DEF IsLast, OneADay, Earlier
<1>5. QED
  BY <1>4, NewestIsLast

\* Then a currency has the same rate in the chart as in the list.
LEMMA RatesAgree ==
    ASSUME EventsInv, NEW d, Until(events, d) = events, NEW key, NEW currency,
           currency # "EUR" => OneADay(Rated(events, currency)),
           OneADay(Priced(events, key))
    PROVE  HistoricalRate(events, d, currency, key) = LatestRate(events, currency, key)
<1> DEFINE rated == Rated(events, currency)
           priced == Priced(events, key)
<1>1. Book(events)
  BY EventsBook DEF EventsInv, TradeBook
<1>2. rated \in SUBSET events /\ priced \in SUBSET events
  BY DEF Rated, Priced, Traded
<1>3. HistoricalRate(events, d, currency, key) =
        IF currency = "EUR" THEN Whole(1)
        ELSE IF rated # {} THEN Whole(Newest(rated).fx)
        ELSE IF priced # {} THEN DerivedRate(Newest(priced))
        ELSE Unavailable
  BY DEF HistoricalRate
<1>4. LatestRate(events, currency, key) =
        IF currency = "EUR" THEN Whole(1)
        ELSE IF rated # {} THEN Whole(FirstOfNewestDay(rated).fx)
        ELSE IF priced # {} THEN DerivedRate(FirstOfNewestDay(priced))
        ELSE Unavailable
  BY DEF LatestRate
<1> HIDE DEF rated, priced
<1>5. currency # "EUR" /\ rated # {} => FirstOfNewestDay(rated) = Newest(rated)
  BY <1>1, <1>2, PartOfBook, FirstIsNewest DEF rated
<1>6. priced # {} => FirstOfNewestDay(priced) = Newest(priced)
  BY <1>1, <1>2, PartOfBook, FirstIsNewest DEF priced
<1>7. QED
  BY <1>3, <1>4, <1>5, <1>6

\* A rate that is available is a fraction.
LEMMA RateKind ==
    ASSUME EventsInv, NEW d, NEW key, NEW currency,
           HistoricalRate(events, d, currency, key) # Unavailable
    PROVE  HistoricalRate(events, d, currency, key) \in Fractions
<1> DEFINE rated == Rated(Until(events, d), currency)
           priced == Priced(Until(events, d), key)
<1>1. Book(events)
  BY EventsBook DEF EventsInv, TradeBook
<1>2. rated \in SUBSET events /\ priced \in SUBSET events
  BY DEF Rated, Priced, Traded, Until
<1>3. HistoricalRate(events, d, currency, key) =
        IF currency = "EUR" THEN Whole(1)
        ELSE IF rated # {} THEN Whole(Newest(rated).fx)
        ELSE IF priced # {} THEN DerivedRate(Newest(priced))
        ELSE Unavailable
  BY DEF HistoricalRate
<1>4. \A e \in priced : e.quantity > 0 /\ e.price > 0
  BY DEF Priced, Traded
<1> HIDE DEF rated, priced
<1>5. \A n \in Int : Whole(n) \in Fractions
  BY DEF Whole, Fractions, Positive
<1>6. rated # {} => Newest(rated).fx \in Int
  <2>1. SUFFICES ASSUME rated # {} PROVE Newest(rated).fx \in Int
    OBVIOUS
  <2>2. Newest(rated) \in rated
    BY <1>1, <1>2, <2>1, PartOfBook, NewestIsLast
  <2>3. QED
    BY <1>2, <2>2 DEF EventsInv, EventsOK, RowOK
<1>7. priced # {} => DerivedRate(Newest(priced)) \in Fractions
  <2>1. SUFFICES ASSUME priced # {} PROVE DerivedRate(Newest(priced)) \in Fractions
    OBVIOUS
  <2> DEFINE e == Newest(priced)
  <2>2. e \in priced
    BY <1>1, <1>2, <2>1, PartOfBook, NewestIsLast
  <2> HIDE DEF e
  <2>3. e.quantity \in Int /\ e.price \in Int /\ e.amount \in Int
    BY <1>2, <2>2 DEF EventsInv, EventsOK, RowOK
  <2>4. e.quantity \in Positive /\ e.price \in Positive
    BY <1>4, <2>2, <2>3 DEF Positive
  <2>5. e.quantity * e.price \in Positive
    BY <2>4, PositiveProduct
  <2>6. QED
    BY <2>3, <2>5 DEF DerivedRate, Fractions, e
<1>8. QED
  BY <1>3, <1>5, <1>6, <1>7

\* The price of a day is an integer, if there is one.
LEMMA PriceKind ==
    ASSUME EventsInv, NEW book, Book(book), \A row \in book : row.price \in Int,
           NEW d, NEW key, ValuationPrice(events, book, d, key) # Unavailable
    PROVE  ValuationPrice(events, book, d, key).price \in Int
<1> DEFINE closes == {row \in book : row.date <= d /\ MatchesPrice(row, key)}
           trades == {x \in Until(events, d) : IsMarket(x) /\ OfInstrument(x, key)
                                               /\ x.price > 0}
           quote == ValuationPrice(events, book, d, key)
<1>1. Book(events)
  BY EventsBook DEF EventsInv, TradeBook
<1>2. closes \in SUBSET book /\ trades \in SUBSET events
  BY DEF Until
<1>3. quote = IF closes # {}
                THEN [price |-> Newest(closes).price, currency |-> Newest(closes).currency,
                      estimated |-> d - Newest(closes).date > CarryDays]
              ELSE IF trades # {}
                THEN [price |-> Newest(trades).price, currency |-> Newest(trades).currency,
                      estimated |-> TRUE]
              ELSE Unavailable
  BY DEF ValuationPrice
<1> HIDE DEF closes, trades, quote
<1>4. quote # Unavailable
  BY DEF quote
<1>5. CASE closes # {}
  <2>1. Newest(closes) \in book
    BY <1>2, <1>5, PartOfBook, NewestIsLast
  <2>2. quote.price = Newest(closes).price
    BY <1>3, <1>5
  <2>3. QED
    BY <2>1, <2>2 DEF quote
<1>6. CASE closes = {}
  <2>1. trades # {}
    BY <1>3, <1>4, <1>6
  <2>2. Newest(trades) \in events
    BY <1>1, <1>2, <2>1, PartOfBook, NewestIsLast
  <2>3. quote.price = Newest(trades).price
    BY <1>3, <1>6, <2>1
  <2>4. QED
    BY <2>2, <2>3 DEF quote, EventsInv, EventsOK, RowOK
<1>7. QED
  BY <1>5, <1>6

\* There are finitely many positions and open buckets, and what has an open bucket is held.
LEMMA OpenIsHeld ==
    ASSUME EventsInv, Readable(events)
    PROVE  /\ IsFiniteSet(HeldKeys(events)) /\ IsFiniteSet(OpenBuckets(events))
           /\ \A b \in OpenBuckets(events) :
                 /\ b[1] \in HeldKeys(events)
                 /\ Bucket(events, b[1], b[2]).cost \in Fractions
<1> DEFINE T == Traded(events)
           K == {PositionKey(e) : e \in T}
           B == {<<PositionKey(e), e.currency>> : e \in T}
           f == [e \in T |-> PositionKey(e)]
           g == [e \in T |-> <<PositionKey(e), e.currency>>]
<1>1. IsFiniteSet(T)
  <2>1. IsFiniteSet(events) /\ T \in SUBSET events
    BY EventsFinite DEF EventsInv, Traded
  <2> HIDE DEF T
  <2>2. QED
    BY <2>1, FS_Subset
<1>2. f \in Surjection(T, K) /\ g \in Surjection(T, B)
  BY DEF Surjection, Range
<1>3. HeldKeys(events) \in SUBSET K
  BY DEF HeldKeys, PositionKeys
<1>4. ASSUME NEW b \in OpenBuckets(events)
      PROVE  \E key \in PositionKeys(events) : \E currency \in BucketCurrencies(events, key) :
                /\ b = <<key, currency>>
                /\ Bucket(events, key, currency).quantity > 0
  <2>1. PICK key \in PositionKeys(events) :
           b \in {<<key, currency>> : currency \in BucketCurrencies(events, key)}
    BY DEF OpenBuckets
  <2>2. PICK currency \in BucketCurrencies(events, key) : b = <<key, currency>>
    BY <2>1
  <2>3. b[1] = key /\ b[2] = currency
    BY <2>2
  <2>4. Bucket(events, b[1], b[2]).quantity > 0
    BY DEF OpenBuckets
  <2>5. QED
    BY <2>2, <2>3, <2>4
<1>5. OpenBuckets(events) \in SUBSET B
  <2>1. ASSUME NEW b \in OpenBuckets(events) PROVE b \in B
    <3>1. PICK key \in PositionKeys(events) : \E currency \in BucketCurrencies(events, key) :
             b = <<key, currency>>
      BY <1>4
    <3>2. PICK currency \in BucketCurrencies(events, key) : b = <<key, currency>>
      BY <3>1
    <3>3. PICK e \in T : PositionKey(e) = key /\ e.currency = currency
      BY DEF BucketCurrencies, Holding
    <3> HIDE DEF T
    <3>4. QED
      BY <3>2, <3>3
  <2>2. QED
    BY <2>1
<1> HIDE DEF T, K, B, f, g
<1>6. IsFiniteSet(K) /\ IsFiniteSet(B)
  BY <1>1, <1>2, FS_Surjection
<1>7. IsFiniteSet(HeldKeys(events)) /\ IsFiniteSet(OpenBuckets(events))
  BY <1>3, <1>5, <1>6, FS_Subset
<1>8. ASSUME NEW b \in OpenBuckets(events)
      PROVE  b[1] \in HeldKeys(events) /\ Bucket(events, b[1], b[2]).cost \in Fractions
  <2>1. PICK key \in PositionKeys(events) : \E currency \in BucketCurrencies(events, key) :
           /\ b = <<key, currency>>
           /\ Bucket(events, key, currency).quantity > 0
    BY <1>4
  <2> DEFINE C == BucketCurrencies(events, key)
             q == [c \in C |-> Bucket(events, key, c).quantity]
  <2>2. PICK currency \in C : /\ b = <<key, currency>>
                              /\ Bucket(events, key, currency).quantity > 0
    BY <2>1
  <2>3. b[1] = key /\ b[2] = currency
    BY <2>2
  <2>4. /\ IsFiniteSet(C)
        /\ \A c \in C : /\ Bucket(events, key, c) \in Buckets
                        /\ Bucket(events, key, c).quantity >= 0
                        /\ Bucket(events, key, c).cost[2] > 0
        /\ HeldOn(events, key) = SumFunction(q)
    BY PositionBooks
  <2>5. \A c \in C : q[c] \in Nat
    BY <2>4 DEF Buckets
  <2>6. SumFunction(q) = SumFunctionOnSet(q, C)
    BY DEF SumFunction
  <2>7. q[currency] > 0 /\ q[currency] \in Int
    BY <2>2, <2>5
  <2> HIDE DEF q
  <2>8. SumFunctionOnSet(q, C) >= q[currency] /\ SumFunctionOnSet(q, C) \in Int
    <3>1. SumFunctionOnSet(q, C) >= q[currency]
      BY <2>2, <2>4, <2>5, SumAtLeast
    <3>2. \A c \in C : q[c] \in Int
      BY <2>5
    <3>3. QED
      BY <2>4, <3>1, <3>2, SumUnfold
  <2>9. HeldOn(events, key) > 0
    BY <2>4, <2>6, <2>7, <2>8
  <2>10. Bucket(events, key, currency).cost \in Fractions
    <3> DEFINE c == Bucket(events, key, currency).cost
    <3>1. c \in Int \X Int /\ c[2] > 0
      BY <2>2, <2>4 DEF Buckets
    <3> HIDE DEF c
    <3>2. c \in Fractions
      BY <3>1 DEF Fractions, Positive
    <3>3. QED
      BY <3>2 DEF c
  <2>11. QED
    BY <2>3, <2>9, <2>10 DEF HeldKeys
<1>9. QED
  BY <1>7, <1>8

\* A position has the same value in the chart as in the list.
LEMMA ValuesAgree ==
    ASSUME EventsInv, NEW table \in PriceTables, NEW today,
           Until(events, today) = events, OneRateADay(table.latest),
           NEW key \in HeldKeys(events),
           ValueOfHolding(events, table.history, today, key) # Unavailable,
           PositionValue(events, table.latest, key) # Unavailable,
           LET close == ValuationPrice(events, table.history, today, key)
               row   == Newest({p \in table.latest : MatchesPrice(p, key)})
           IN close.price = row.price /\ close.currency = row.currency
    PROVE  /\ ValueOfHolding(events, table.history, today, key)
                = PositionValue(events, table.latest, key)
           /\ ValueOfHolding(events, table.history, today, key) \in Fractions
<1> DEFINE close == ValuationPrice(events, table.history, today, key)
           rows  == {p \in table.latest : MatchesPrice(p, key)}
           row   == Newest(rows)
           there == HistoricalRate(events, today, close.currency, key)
           here  == LatestRate(events, row.currency, key)
           held  == HeldOn(events, key)
<1>1. /\ ValueOfHolding(events, table.history, today, key) = Times(Whole(held * close.price), there)
      /\ close # Unavailable /\ there # Unavailable
  BY DEF ValueOfHolding
<1>2. /\ PositionValue(events, table.latest, key) = Times(Whole(held * row.price), here)
      /\ rows # {} /\ here # Unavailable
  BY DEF PositionValue
<1>3. close.price = row.price /\ close.currency = row.currency
  OBVIOUS
<1>4. Book(table.history) /\ \A p \in table.history : p.price \in Int
  BY PricesAssumption DEF Book
<1>5. row \in table.latest
  <2>1. Book(table.latest)
    BY PricesAssumption DEF Book
  <2>2. rows \in SUBSET table.latest
    OBVIOUS
  <2> HIDE DEF rows
  <2>3. QED
    BY <1>2, <2>1, <2>2, PartOfBook, NewestIsLast
<1>6. close.price \in Int
  <2>1. close # Unavailable
    BY <1>1
  <2>2. QED
    BY <1>4, <2>1, PriceKind
<1>7. held \in Int
  <2>1. TradeBook(events)
    BY EventsBook DEF EventsInv
  <2>2. Holding(events, key) \in SUBSET events
    BY DEF Holding, Traded
  <2>3. QED
    BY <2>1, <2>2, PartOfTradeBook, QuantityUnfold DEF HeldOn
<1>8. there = LatestRate(events, close.currency, key)
  <2>1. key \in PositionKeys(events)
    BY DEF HeldKeys
  <2>2. close.currency # "EUR" => OneADay(Rated(events, close.currency))
    BY <1>3, <1>5 DEF OneRateADay
  <2>3. OneADay(Priced(events, key))
    BY <2>1 DEF OneRateADay
  <2>4. QED
    BY <2>2, <2>3, RatesAgree
<1>9. there \in Fractions
  BY <1>1, RateKind
<1> HIDE DEF close, rows, row, there, held
<1>10. there = here
  BY <1>3, <1>8
<1>11. Whole(held * close.price) \in Fractions
  BY <1>6, <1>7 DEF Whole, Fractions, Positive
<1>12. Times(Whole(held * close.price), there) \in Fractions
  BY <1>9, <1>11, FractionKinds
<1>13. QED
  BY <1>1, <1>2, <1>3, <1>10, <1>12

\* What a position cost is, in the list, the total over its buckets at the chart's rates.
LEMMA CostsAgree ==
    ASSUME EventsInv, NEW list, NEW today, Until(events, today) = events,
           OneRateADay(list), NEW key \in HeldKeys(events),
           NEW c, c = [b \in OpenBuckets(events) |->
                          Times(Bucket(events, b[1], b[2]).cost,
                                HistoricalRate(events, today, b[2], b[1]))],
           \A b \in OpenBuckets(events) :
              HistoricalRate(events, today, b[2], b[1]) # Unavailable
    PROVE  CostInEur(events, key) =
             Total([b \in {o \in OpenBuckets(events) : o[1] = key} |-> c[b]])
<1> DEFINE open == {o \in OpenBuckets(events) : o[1] = key}
           rate == [b \in open |-> LatestRate(events, b[2], key)]
<1>1. ASSUME NEW b \in open
      PROVE  /\ rate[b] = HistoricalRate(events, today, b[2], b[1])
             /\ b \in OpenBuckets(events)
  <2>1. key \in PositionKeys(events) /\ b \in OpenBuckets(events) /\ b[1] = key
    BY DEF HeldKeys
  <2>2. PICK k \in PositionKeys(events) :
           b \in {<<k, currency>> : currency \in BucketCurrencies(events, k)}
    BY <2>1 DEF OpenBuckets
  <2>3. PICK currency \in BucketCurrencies(events, k) : b = <<k, currency>>
    BY <2>2
  <2>4. PICK e \in events : e.currency = b[2]
    BY <2>3 DEF BucketCurrencies, Holding, Traded
  <2>5. b[2] # "EUR" => OneADay(Rated(events, b[2]))
    BY <2>4 DEF OneRateADay
  <2>6. OneADay(Priced(events, key))
    BY <2>1 DEF OneRateADay
  <2>7. HistoricalRate(events, today, b[2], key) = LatestRate(events, b[2], key)
    BY <2>5, <2>6, RatesAgree
  <2>8. rate[b] = LatestRate(events, b[2], key)
    OBVIOUS
  <2> HIDE DEF rate, open
  <2>9. QED
    BY <2>1, <2>7, <2>8
<1>2. CostInEur(events, key) =
        IF \E b \in open : rate[b] = Unavailable
          THEN Unavailable
        ELSE Total([b \in open |-> Times(Bucket(events, b[1], b[2]).cost, rate[b])])
  BY DEF CostInEur
<1> HIDE DEF open, rate
<1>3. [b \in open |-> Times(Bucket(events, b[1], b[2]).cost, rate[b])] = [b \in open |-> c[b]]
  BY <1>1
<1>4. \A b \in open : rate[b] # Unavailable
  BY <1>1
<1>5. QED
  BY <1>2, <1>3, <1>4 DEF open

\* Spec keeps ChartEndsAtPositions: the last point of the chart and the list of positions
\* agree on what the portfolio is worth and on what it has gained.
THEOREM ChartAlwaysEndsAtPositions == Spec => []ChartEndsAtPositions
<1>1. ASSUME EventsInv, NEW table \in PriceTables, NEW today,
             Until(events, today) = events, Readable(events), OneRateADay(table.latest),
             NEW value, value = [key \in HeldKeys(events) |->
                                    PositionValue(events, table.latest, key)],
             NEW gain, gain = [key \in HeldKeys(events) |->
                                  UnrealisedGain(events, table.latest, key)],
             NEW point, point = SeriesPoint(events, table.history, today),
             point.value # Unavailable, point.allocated # Unavailable,
             \A key \in HeldKeys(events) :
                LET close == ValuationPrice(events, table.history, today, key)
                    row   == Newest({p \in table.latest : MatchesPrice(p, key)})
                IN /\ value[key] # Unavailable
                   /\ close.price = row.price /\ close.currency = row.currency
      PROVE  Same(point.value, Total(value)) /\ Same(point.gain, Total(gain))
  <2> DEFINE K == HeldKeys(events)
             B == OpenBuckets(events)
             v == [key \in K |-> ValueOfHolding(events, table.history, today, key)]
             rate == [b \in B |-> HistoricalRate(events, today, b[2], b[1])]
             c == [b \in B |-> Times(Bucket(events, b[1], b[2]).cost, rate[b])]
             w == [k \in K |-> Minus(v[k], Total([b \in {o \in B : o[1] = k} |-> c[b]]))]
  <2>1. /\ point.value = PortfolioValue(events, table.history, today)
        /\ point.allocated = CostBasis(events, today)
        /\ point.gain = Minus(PortfolioValue(events, table.history, today),
                              CostBasis(events, today))
    BY <1>1 DEF SeriesPoint
  <2>2. /\ \A key \in K : v[key] # Unavailable
        /\ point.value = Total(v)
    BY <1>1, <2>1 DEF PortfolioValue
  <2>3. /\ \A b \in B : rate[b] # Unavailable
        /\ point.allocated = Total(c)
    BY <1>1, <2>1 DEF CostBasis
  <2>4. ASSUME NEW key \in K
        PROVE  v[key] = value[key] /\ v[key] \in Fractions
    <3>1. /\ ValueOfHolding(events, table.history, today, key) # Unavailable
          /\ PositionValue(events, table.latest, key) # Unavailable
      BY <1>1, <2>2
    <3>2. /\ ValueOfHolding(events, table.history, today, key)
               = PositionValue(events, table.latest, key)
          /\ ValueOfHolding(events, table.history, today, key) \in Fractions
      BY <1>1, <3>1, ValuesAgree
    <3>3. QED
      BY <1>1, <3>2
  <2>5. v = value
    BY <1>1, <2>4
  <2>6. Same(point.value, Total(value))
    BY <2>2, <2>5 DEF Same
  <2>7. /\ IsFiniteSet(K) /\ IsFiniteSet(B) /\ \A b \in B : b[1] \in K
        /\ \A b \in B : Bucket(events, b[1], b[2]).cost \in Fractions
    BY <1>1, OpenIsHeld
  <2>8. c \in [B -> Fractions]
    <3>1. ASSUME NEW b \in B PROVE c[b] \in Fractions
      <4>1. rate[b] \in Fractions
        <5>1. HistoricalRate(events, today, b[2], b[1]) # Unavailable
          BY <2>3
        <5>2. QED
          BY <1>1, <5>1, RateKind
      <4>2. QED
        BY <2>7, <4>1, FractionKinds
    <3>2. QED
      BY <3>1
  <2>9. v \in [K -> Fractions]
    BY <2>4
  <2>10. ASSUME NEW key \in K
         PROVE  gain[key] = w[key]
    <3>1. c = [b \in OpenBuckets(events) |->
                  Times(Bucket(events, b[1], b[2]).cost,
                        HistoricalRate(events, today, b[2], b[1]))]
      OBVIOUS
    <3>2. \A b \in OpenBuckets(events) :
             HistoricalRate(events, today, b[2], b[1]) # Unavailable
      BY <2>3
    <3> DEFINE cost == Total([b \in {o \in B : o[1] = key} |-> c[b]])
    <3>3. w[key] = Minus(v[key], cost)
      OBVIOUS
    <3> HIDE DEF c, w
    <3>4. CostInEur(events, key) = cost
      BY <1>1, <3>1, <3>2, CostsAgree
    <3>5. cost # Unavailable
      BY PairIsAvailable DEF Total
    <3>6. PositionValue(events, table.latest, key) = v[key] /\ v[key] # Unavailable
      BY <1>1, <2>2, <2>4
    <3> HIDE DEF cost, v
    <3>7. UnrealisedGain(events, table.latest, key) = Minus(v[key], cost)
      BY <3>4, <3>5, <3>6 DEF UnrealisedGain
    <3>8. gain[key] = UnrealisedGain(events, table.latest, key)
      BY <1>1
    <3>9. QED
      BY <3>3, <3>7, <3>8
  <2>11. gain = w
    <3>1. w = [key \in K |-> w[key]] /\ gain = [key \in K |-> gain[key]]
      BY <1>1
    <3> HIDE DEF w
    <3>2. QED
      BY <2>10, <3>1
  <2>12. point.gain = Minus(Total(v), Total(c))
    BY <2>1, <2>2, <2>3
  <2>13. w = [k \in K |-> Minus(v[k], Total([b \in {o \in B : o[1] = k} |-> c[b]]))]
    OBVIOUS
  <2> HIDE DEF K, B, v, c, w
  <2>14. Same(Minus(Total(v), Total(c)), Total(w))
    BY <2>7, <2>8, <2>9, <2>13, GainsAddUp
  <2>15. QED
    BY <2>6, <2>11, <2>12, <2>14
<1>2. EventsInv => ChartEndsAtPositions
  BY <1>1 DEF ChartEndsAtPositions
<1>3. QED
  BY EventsInvariant, <1>2, PTL

=============================================================================
