--------------------------- MODULE OwedLedgerProofs ---------------------------
(***************************************************************************)
(* What holds of OwedLedger for every set of people, transactions, ids and *)
(* every bound on amounts and dates, and then of OwedOverlap for every     *)
(* number of requests in flight too: a request that overlaps nothing is    *)
(* one step of the ledger, a repayment is never lost to another request,   *)
(* and the integrity check finds nothing it cannot repair.                 *)
(***************************************************************************)
EXTENDS OwedOverlap, WellFoundedInduction, TLAPS

\* The greatest of two integers is one of them and at least as great as both.
LEMMA MaxOfTwo ==
    ASSUME NEW a \in Int, NEW b \in Int
    PROVE  Max({a, b}) \in {a, b} /\ Max({a, b}) >= a /\ Max({a, b}) >= b
<1>1. \E x \in {a, b} : \A y \in {a, b} : x >= y
  <2>1. CASE a >= b
    BY <2>1
  <2>2. CASE ~(a >= b)
    BY <2>2
  <2>3. QED
    BY <2>1, <2>2
<1>2. QED
  BY <1>1 DEF Max

\* A non-empty set of dates has a greatest element, and Max returns it: the
\* latest event of a history is well defined.
LEMMA MaxOfDates ==
    ASSUME NEW D \in SUBSET Dates, D # {}
    PROVE  Max(D) \in D /\ \A d \in D : d <= Max(D)
<1>1. MaxDate \in Nat
  BY BoundsAssumption
<1> DEFINE T == {MaxDate - d : d \in D}
<1>2. T \subseteq Nat /\ T # {}
  <2>1. \A d \in D : MaxDate - d \in Nat
    BY <1>1 DEF Dates
  <2>2. \A t \in T : t \in Nat
    BY <2>1
  <2>3. \E d \in D : MaxDate - d \in T
    OBVIOUS
  <2>4. QED
    BY <2>2, <2>3
<1>3. PICK m \in T : \A n \in T : ~(<<n, m>> \in OpToRel(<, Nat))
  BY <1>2, NatLessThanWellFounded, WFMin, Zenon
<1>4. \A n \in T : m <= n
  <2> TAKE n \in T
  <2>1. m \in Nat /\ n \in Nat
    BY <1>2
  <2>2. ~(n < m)
    BY <1>3, <2>1 DEF OpToRel
  <2>3. QED
    BY <2>1, <2>2
<1>5. PICK x \in D : m = MaxDate - x
  OBVIOUS
<1>6. \A d \in D : x >= d
  <2> TAKE d \in D
  <2>1. MaxDate - d \in T
    OBVIOUS
  <2>2. QED
    BY <1>1, <1>4, <1>5, <2>1 DEF Dates
<1>7. \E z \in D : \A y \in D : z >= y
  BY <1>6
<1>8. Max(D) \in D /\ \A d \in D : Max(D) >= d
  BY <1>7, Zenon DEF Max
<1>9. QED
  BY <1>8 DEF Dates

-----------------------------------------------------------------------------
(* Lemmas on the helpers of the handlers                                   *)

\* A history holds events at dates of the calendar.
LEMMA HistoryShape ==
    ASSUME NEW h \in History
    PROVE  /\ DOMAIN h \subseteq Dates
           /\ \A d \in DOMAIN h : h[d] \in Event
<1>1. PICK D \in SUBSET Dates : h \in [D -> Event]
  BY DEF History
<1>2. QED
  BY <1>1

\* Recording an event keeps a history a history, and leaves it non-empty.
LEMMA RecordedShape ==
    ASSUME NEW h \in History, NEW d \in Dates, NEW e \in Event
    PROVE  /\ Recorded(h, d, e) \in History
           /\ DOMAIN Recorded(h, d, e) = DOMAIN h \cup {d}
           /\ Recorded(h, d, e)[d] = e
           /\ \A c \in DOMAIN h : c # d => Recorded(h, d, e)[c] = h[c]
<1>1. Recorded(h, d, e) \in [DOMAIN h \cup {d} -> Event]
  BY HistoryShape DEF Recorded
<1>2. DOMAIN h \cup {d} \in SUBSET Dates
  BY HistoryShape
<1>3. QED
  BY <1>1, <1>2 DEF Recorded, History

\* The empty history is a history.
LEMMA NoRowsShape == NoRows \in History /\ DOMAIN NoRows = {}
<1>1. NoRows \in [{} -> Event]
  BY DEF NoRows
<1>2. QED
  BY <1>1 DEF History, NoRows

\* _calculate_status returns a status, and never "cancelled".
LEMMA StatusShape ==
    ASSUME NEW paid, NEW remaining
    PROVE  Status(paid, remaining) \in Statuses \ {"cancelled"}
BY DEF Status, Statuses, OpenStatuses

\* A snapshot of an item is an event.
LEMMA SnapshotShape ==
    ASSUME NEW item \in Item, NEW type \in EventTypes
    PROVE  Snapshot(type, item) \in Event /\ Snapshot(type, item).type = type
BY DEF Snapshot, Event, Item

\* Moving the amount paid of a balanced item, within its total, leaves it
\* balanced and touches no other column than the amounts and the status.
LEMMA AdjustedShape ==
    ASSUME NEW item \in Item, item.paid + item.remaining = item.total,
           NEW delta \in Int,
           0 <= item.paid + delta, item.paid + delta <= item.total,
           today \in Dates
    PROVE  /\ Adjusted(item, delta) \in Item
           /\ Adjusted(item, delta).paid + Adjusted(item, delta).remaining
                = Adjusted(item, delta).total
           /\ Adjusted(item, delta).deleted = item.deleted
           /\ Adjusted(item, delta).person = item.person
           /\ Adjusted(item, delta).link = item.link
<1> DEFINE paid == item.paid + delta
           remaining == item.total - paid
<1>1. paid \in 0..MaxAmount /\ remaining \in 0..MaxAmount
  BY BoundsAssumption DEF Item, Amounts
<1>2. Status(paid, remaining) \in Statuses
  BY StatusShape
<1>3. Adjusted(item, delta) = [item EXCEPT !.paid = paid, !.remaining = remaining,
                                 !.status = Status(paid, remaining),
                                 !.updated = today]
  BY DEF Adjusted
<1> HIDE DEF paid, remaining
<1>4. Adjusted(item, delta) \in Item
  BY <1>1, <1>2, <1>3 DEF Item
<1>5. /\ Adjusted(item, delta).paid = paid
      /\ Adjusted(item, delta).remaining = remaining
      /\ Adjusted(item, delta).total = item.total
      /\ Adjusted(item, delta).deleted = item.deleted
      /\ Adjusted(item, delta).person = item.person
      /\ Adjusted(item, delta).link = item.link
  BY <1>3 DEF Item
<1>6. QED
  BY <1>4, <1>5 DEF paid, remaining, Item, Amounts

-----------------------------------------------------------------------------
(* The inductive invariant                                                 *)

\* Every item has at least one event, and a live item no "deleted" event.
LogComplete ==
    \A i \in DOMAIN items :
        /\ DOMAIN log[i] # {}
        /\ \A d \in DOMAIN log[i] :
              log[i][d].type = "deleted" => items[i].deleted

\* The inductive invariant: alone, Balanced does not survive a repayment (it
\* needs the types), and the repair needs to know what the log holds.
LedgerInv == TypeOK /\ Balanced /\ LogComplete

\* The invariant holds of the empty ledger.
LEMMA InitLedgerInv == Init => LedgerInv
<1> SUFFICES ASSUME Init PROVE LedgerInv
  OBVIOUS
<1>1. DOMAIN items = {} /\ DOMAIN payments = {} /\ DOMAIN log = {}
  BY DEF Init, NoRows
<1>2. TypeOK
  BY <1>1, BoundsAssumption DEF Init, TypeOK, NoRows, Dates
<1>3. QED
  BY <1>1, <1>2 DEF LedgerInv, Balanced, LogComplete

\* The transactions are rows of the table.
TxsShape == txs \in [DOMAIN txs -> Transaction] /\ DOMAIN txs \subseteq TxIds

\* Steps that leave the transactions alone keep their shape.
LEMMA SameTxs == LedgerInv /\ txs' = txs => TxsShape'
BY DEF LedgerInv, TypeOK, TxsShape

\* Whatever rows a handler writes, the invariant is kept if every item row it
\* leaves is a balanced item of the same deletion state, and its history the
\* old one or the old one with a snapshot of the row that is not a deletion.
LEMMA RewriteKeepsInv ==
    ASSUME LedgerInv,
           items' \in [DOMAIN items -> Item],
           \A i \in DOMAIN items :
              /\ items'[i].paid + items'[i].remaining = items'[i].total
              /\ items[i].deleted => items'[i].deleted,
           DOMAIN log' = DOMAIN items, log' = [i \in DOMAIN items |-> log'[i]],
           \A i \in DOMAIN items :
              \/ log'[i] = log[i]
              \/ \E d \in Dates, type \in EventTypes :
                    /\ log'[i] = Recorded(log[i], d, Snapshot(type, items'[i]))
                    /\ type = "deleted" => items'[i].deleted,
           payments' \in [DOMAIN payments' -> Payment],
           DOMAIN payments' \subseteq PaymentIds,
           TxsShape', today' = today
    PROVE  LedgerInv'
<1>1. DOMAIN items' = DOMAIN items /\ DOMAIN items \subseteq ItemIds
  BY DEF LedgerInv, TypeOK
<1>2. ASSUME NEW i \in DOMAIN items
      PROVE  /\ log'[i] \in History
             /\ DOMAIN log'[i] # {}
             /\ \A d \in DOMAIN log'[i] :
                  log'[i][d].type = "deleted" => items'[i].deleted
  <2>1. /\ log[i] \in History
        /\ DOMAIN log[i] # {}
        /\ \A d \in DOMAIN log[i] : log[i][d].type = "deleted" => items[i].deleted
    BY DEF LedgerInv, TypeOK, LogComplete
  <2>2. items[i].deleted => items'[i].deleted
    OBVIOUS
  <2>3. CASE log'[i] = log[i]
    BY <2>1, <2>2, <2>3
  <2>4. ASSUME NEW d \in Dates, NEW type \in EventTypes,
               log'[i] = Recorded(log[i], d, Snapshot(type, items'[i])),
               type = "deleted" => items'[i].deleted
        PROVE  /\ log'[i] \in History
               /\ DOMAIN log'[i] # {}
               /\ \A c \in DOMAIN log'[i] :
                    log'[i][c].type = "deleted" => items'[i].deleted
    <3>1. items'[i] \in Item
      OBVIOUS
    <3>2. DEFINE e == Snapshot(type, items'[i])
    <3>3. e \in Event /\ e.type = type
      BY <3>1, SnapshotShape
    <3> HIDE DEF e
    <3>4. /\ Recorded(log[i], d, e) \in History
          /\ DOMAIN Recorded(log[i], d, e) = DOMAIN log[i] \cup {d}
          /\ Recorded(log[i], d, e)[d] = e
          /\ \A c \in DOMAIN log[i] : c # d => Recorded(log[i], d, e)[c] = log[i][c]
      <4>1. log[i] \in History /\ d \in Dates /\ e \in Event
        BY <2>1, <3>3
      <4>2. QED
        BY <4>1, RecordedShape, Zenon
    <3>5. log'[i] = Recorded(log[i], d, e)
      BY <2>4 DEF e
    <3>6. ASSUME NEW c \in DOMAIN log'[i], log'[i][c].type = "deleted"
          PROVE  items'[i].deleted
      <4>1. CASE c = d
        BY <2>4, <3>3, <3>4, <3>5, <3>6, <4>1
      <4>2. CASE c # d
        BY <2>1, <2>2, <3>4, <3>5, <3>6, <4>2
      <4>3. QED
        BY <4>1, <4>2
    <3>7. QED
      BY <3>4, <3>5, <3>6
  <2>5. QED
    BY <2>3, <2>4
<1>3. TypeOK'
  <2>1. log' \in [DOMAIN items -> History]
    BY <1>2
  <2>2. QED
    BY <1>1, <2>1 DEF LedgerInv, TypeOK, TxsShape
<1>4. Balanced'
  BY <1>1 DEF Balanced
<1>5. LogComplete'
  BY <1>1, <1>2 DEF LogComplete
<1>6. QED
  BY <1>3, <1>4, <1>5 DEF LedgerInv

\* Creating an item adds one balanced row with a one-event history.
LEMMA CreateKeepsInv ==
    ASSUME LedgerInv,
           NEW asked \in Labels, NEW total \in Amounts, NEW paid \in 0..MaxAmount,
           NEW link \in TxIds \cup {None}, NEW due \in Dates \cup {None},
           CreateItem(asked, total, paid, link, due)
    PROVE  LedgerInv'
<1> DEFINE date == CreatedDate(link, due)
           Row(label) == NewItem(label, total, paid, link)
           History1(label) == Recorded(NoRows, date, Snapshot("created", Row(label)))
<1>1. PICK i \in ItemIds \ DOMAIN items, label \in Labels :
         /\ paid <= total
         /\ CanLinkItem(link, total, Row(label).status, {})
         /\ items' = [j \in DOMAIN items \cup {i} |->
                         IF j = i THEN Row(label) ELSE items[j]]
         /\ log' = [j \in DOMAIN log \cup {i} |->
                       IF j = i THEN History1(label) ELSE log[j]]
         /\ UNCHANGED <<payments, txs, today>>
  BY DEF CreateItem
<1> DEFINE item == Row(label)
           history == History1(label)
<1>2. /\ paid <= total
      /\ CanLinkItem(link, total, item.status, {})
      /\ items' = [j \in DOMAIN items \cup {i} |-> IF j = i THEN item ELSE items[j]]
      /\ log' = [j \in DOMAIN log \cup {i} |-> IF j = i THEN history ELSE log[j]]
      /\ UNCHANGED <<payments, txs, today>>
  BY <1>1
<1>3. /\ today \in Dates
      /\ txs \in [DOMAIN txs -> Transaction]
      /\ items \in [DOMAIN items -> Item] /\ DOMAIN items \subseteq ItemIds
      /\ DOMAIN log = DOMAIN items /\ log \in [DOMAIN items -> History]
  BY DEF LedgerInv, TypeOK
<1>4. item \in Item /\ item.paid + item.remaining = item.total /\ item.deleted = FALSE
  <2> DEFINE hash == IF link = None THEN None ELSE <<link, label[1]>>
  <2>1. total - paid \in 0..MaxAmount /\ paid + (total - paid) = total
    BY <1>2, BoundsAssumption DEF Amounts
  <2>2. Status(paid, total - paid) \in Statuses
    BY StatusShape
  <2>3. hash \in (TxIds \X People) \cup {None}
    BY DEF Labels
  <2>4. item = [person |-> label, total |-> total, paid |-> paid,
                remaining |-> total - paid, status |-> Status(paid, total - paid),
                link |-> link, hash |-> hash,
                deleted |-> FALSE, updated |-> today]
    BY DEF NewItem
  <2> HIDE DEF hash, item
  <2>5. QED
    BY <1>3, <2>1, <2>2, <2>3, <2>4 DEF Item
<1>5. date \in Dates
  <2>1. item.status # "cancelled"
    BY StatusShape DEF NewItem
  <2>2. link = None \/ link \in DOMAIN txs
    BY <1>2, <2>1 DEF CanLinkItem
  <2>3. QED
    BY <1>3, <2>2 DEF Transaction, CreatedDate
<1> DEFINE e == Snapshot("created", item)
<1>6. history = Recorded(NoRows, date, e)
  OBVIOUS
<1> HIDE DEF item, date, history, Row, History1, e
<1>7. /\ history \in History
      /\ DOMAIN history = {date}
      /\ history[date].type = "created"
  <2>1. e \in Event /\ e.type = "created"
    BY <1>4, SnapshotShape DEF EventTypes, e
  <2>2. NoRows \in History /\ DOMAIN NoRows = {}
    BY NoRowsShape
  <2>3. /\ Recorded(NoRows, date, e) \in History
        /\ DOMAIN Recorded(NoRows, date, e) = DOMAIN NoRows \cup {date}
        /\ Recorded(NoRows, date, e)[date] = e
    BY <1>5, <2>1, <2>2, RecordedShape, Zenon
  <2>4. QED
    BY <1>6, <2>1, <2>2, <2>3
<1>8. TypeOK'
  <2>1. items' \in [DOMAIN items \cup {i} -> Item]
    BY <1>2, <1>3, <1>4
  <2>2. log' \in [DOMAIN items \cup {i} -> History]
    BY <1>2, <1>3, <1>7
  <2>3. DOMAIN items' = DOMAIN items \cup {i} /\ DOMAIN log' = DOMAIN items \cup {i}
    BY <1>2, <1>3
  <2>4. QED
    BY <1>2, <1>3, <2>1, <2>2, <2>3 DEF LedgerInv, TypeOK
<1>9. Balanced'
  BY <1>2, <1>4 DEF LedgerInv, Balanced
<1>10. LogComplete'
  BY <1>2, <1>3, <1>7 DEF LedgerInv, LogComplete
<1>11. QED
  BY <1>8, <1>9, <1>10 DEF LedgerInv

\* An edit writes a balanced row and at most one "adjusted", "cancelled" or
\* "reopened" event.
LEMMA UpdateKeepsInv ==
    ASSUME LedgerInv,
           NEW i \in ItemIds, NEW asked \in Labels, NEW total \in Amounts,
           NEW paid \in 0..MaxAmount, NEW status \in SentStatuses \cup {None},
           NEW link \in TxIds \cup {None},
           UpdateItem(i, asked, total, paid, status, link)
    PROVE  LedgerInv'
<1> DEFINE Row(label) == EditedItem(items[i], label, total, paid, status, link)
           Type(label) == UpdateEventType(items[i].status, Row(label).status)
           History1(label) == Recorded(log[i], today, Snapshot(Type(label), Row(label)))
<1>1. PICK label \in Labels :
         /\ items' = [items EXCEPT ![i] = Row(label)]
         /\ \/ log' = log
            \/ log' = [log EXCEPT ![i] = History1(label)]
  BY DEF UpdateItem
<1>2. /\ i \in DOMAIN items
      /\ items[i].deleted = FALSE
      /\ paid <= total
      /\ UNCHANGED <<payments, txs, today>>
  BY DEF UpdateItem, Live, LedgerInv, TypeOK, Item
<1>3. /\ today \in Dates
      /\ items \in [DOMAIN items -> Item]
      /\ DOMAIN log = DOMAIN items /\ log \in [DOMAIN items -> History]
      /\ payments \in [DOMAIN payments -> Payment] /\ DOMAIN payments \subseteq PaymentIds
      /\ \A j \in DOMAIN items : items[j].paid + items[j].remaining = items[j].total
  BY DEF LedgerInv, TypeOK, Balanced
<1> DEFINE row == Row(label)
           type == Type(label)
<1>4. /\ row \in Item
      /\ row.paid + row.remaining = row.total
      /\ row.deleted = FALSE
  <2> DEFINE new == IF status = None THEN Status(paid, total - paid) ELSE status
  <2>1. total - paid \in 0..MaxAmount /\ paid + (total - paid) = total
    BY <1>2, BoundsAssumption DEF Amounts
  <2>2. new \in Statuses
    BY StatusShape, SentStatusesAssumption
  <2>3. /\ row = [items[i] EXCEPT !.person = label, !.total = total, !.paid = paid,
                     !.remaining = total - paid, !.link = link,
                     !.updated = today, !.status = new]
        /\ items[i] \in Item
    BY <1>2, <1>3 DEF EditedItem
  <2>4. row = [person |-> label, total |-> total, paid |-> paid,
               remaining |-> total - paid, status |-> new, link |-> link,
               hash |-> items[i].hash, deleted |-> items[i].deleted,
               updated |-> today]
    <3> HIDE DEF row, new
    <3>1. QED
      BY <2>3 DEF Item
  <2>5. items[i].hash \in (TxIds \X People) \cup {None}
    BY <2>3 DEF Item
  <2> HIDE DEF row, new
  <2>6. QED
    BY <1>2, <1>3, <2>1, <2>2, <2>4, <2>5 DEF Item
<1>5. type \in EventTypes /\ type # "deleted"
  BY DEF UpdateEventType, EventTypes
<1>6. log' = log \/ log' = [log EXCEPT ![i] = Recorded(log[i], today, Snapshot(type, row))]
  BY <1>1
<1>7. items' = [items EXCEPT ![i] = row]
  BY <1>1
<1> HIDE DEF Row, Type, History1, row, type
<1>8. items' \in [DOMAIN items -> Item]
  BY <1>2, <1>3, <1>4, <1>7
<1>9. \A j \in DOMAIN items :
        /\ items'[j].paid + items'[j].remaining = items'[j].total
        /\ items[j].deleted => items'[j].deleted
  BY <1>2, <1>3, <1>4, <1>7
<1>10. DOMAIN log' = DOMAIN items /\ log' = [j \in DOMAIN items |-> log'[j]]
  BY <1>3, <1>6
<1>11. ASSUME NEW j \in DOMAIN items
       PROVE  \/ log'[j] = log[j]
              \/ \E d \in Dates, ty \in EventTypes :
                    /\ log'[j] = Recorded(log[j], d, Snapshot(ty, items'[j]))
                    /\ ty = "deleted" => items'[j].deleted
  <2>1. CASE j # i
    BY <1>3, <1>6, <2>1
  <2>2. CASE j = i
    <3>1. items'[j] = row
      BY <1>2, <1>7, <2>2
    <3>2. log'[j] = log[j] \/ log'[j] = Recorded(log[j], today, Snapshot(type, row))
      BY <1>3, <1>6, <2>2
    <3>3. QED
      BY <1>3, <1>5, <3>1, <3>2
  <2>3. QED
    BY <2>1, <2>2
<1>12. TxsShape' /\ today' = today
  BY <1>2, SameTxs
<1>13. QED
  BY <1>2, <1>3, <1>8, <1>9, <1>10, <1>11, <1>12, RewriteKeepsInv, Zenon

\* A deletion rewrites one row as deleted and writes its "deleted" event.
LEMMA DeleteKeepsInv ==
    ASSUME LedgerInv, NEW i \in ItemIds, DeleteItem(i)
    PROVE  LedgerInv'
<1> DEFINE row == [items[i] EXCEPT !.deleted = TRUE, !.updated = today]
<1>1. /\ i \in DOMAIN items
      /\ items' = [items EXCEPT ![i] = row]
      /\ log' = [log EXCEPT ![i] = Recorded(log[i], today, Snapshot("deleted", items[i]))]
      /\ UNCHANGED <<payments, txs, today>>
  BY DEF DeleteItem
<1>2. /\ today \in Dates
      /\ items \in [DOMAIN items -> Item]
      /\ DOMAIN log = DOMAIN items /\ log \in [DOMAIN items -> History]
      /\ payments \in [DOMAIN payments -> Payment] /\ DOMAIN payments \subseteq PaymentIds
      /\ \A j \in DOMAIN items : items[j].paid + items[j].remaining = items[j].total
  BY DEF LedgerInv, TypeOK, Balanced
<1>3. /\ row \in Item
      /\ row.paid = items[i].paid /\ row.remaining = items[i].remaining
      /\ row.total = items[i].total /\ row.deleted = TRUE
      /\ Snapshot("deleted", row) = Snapshot("deleted", items[i])
  <2>1. items[i] \in Item
    BY <1>1, <1>2
  <2>2. QED
    BY <1>2, <2>1 DEF Item, Snapshot
<1> HIDE DEF row
<1>4. items' \in [DOMAIN items -> Item]
  BY <1>1, <1>2, <1>3
<1>5. \A j \in DOMAIN items :
        /\ items'[j].paid + items'[j].remaining = items'[j].total
        /\ items[j].deleted => items'[j].deleted
  BY <1>1, <1>2, <1>3
<1>6. DOMAIN log' = DOMAIN items /\ log' = [j \in DOMAIN items |-> log'[j]]
  BY <1>1, <1>2
<1>7. ASSUME NEW j \in DOMAIN items
      PROVE  \/ log'[j] = log[j]
             \/ \E d \in Dates, ty \in EventTypes :
                   /\ log'[j] = Recorded(log[j], d, Snapshot(ty, items'[j]))
                   /\ ty = "deleted" => items'[j].deleted
  <2>1. CASE j # i
    BY <1>1, <1>2, <2>1
  <2>2. CASE j = i
    <3>1. items'[j] = row /\ items'[j].deleted
      BY <1>1, <1>3, <2>2
    <3>2. log'[j] = Recorded(log[j], today, Snapshot("deleted", items'[j]))
      BY <1>1, <1>2, <1>3, <2>2, <3>1
    <3>3. "deleted" \in EventTypes
      BY DEF EventTypes
    <3>4. QED
      BY <1>2, <3>1, <3>2, <3>3
  <2>3. QED
    BY <2>1, <2>2
<1>8. TxsShape' /\ today' = today
  BY <1>1, SameTxs
<1>9. QED
  BY <1>1, <1>2, <1>4, <1>5, <1>6, <1>7, <1>8, RewriteKeepsInv, Zenon

\* Unifying the labels of a person changes no amount, status or deletion.
LEMMA NormalisedShape ==
    ASSUME LedgerInv, NEW label \in Labels, NEW i \in DOMAIN items
    PROVE  LET row == NormalisedItems(label)[i]
           IN  /\ row \in Item
               /\ row.paid = items[i].paid
               /\ row.remaining = items[i].remaining
               /\ row.total = items[i].total
               /\ row.status = items[i].status
               /\ row.deleted = items[i].deleted
               /\ row.link = items[i].link
<1>1. items[i] \in Item /\ today \in Dates
  BY DEF LedgerInv, TypeOK
<1>2. \/ NormalisedItems(label)[i] = items[i]
      \/ NormalisedItems(label)[i] = [items[i] EXCEPT !.person = label, !.updated = today]
  BY DEF NormalisedItems
<1>3. QED
  BY <1>1, <1>2 DEF Item

\* A repayment that gives an item no more than it has remaining leaves a balanced
\* row, with the same link and deletion state.
LEMMA SettledShape ==
    ASSUME LedgerInv, NEW label \in Labels, NEW alloc \in Allocations,
           NEW i \in DOMAIN items, alloc[i] > 0 => alloc[i] <= items[i].remaining
    PROVE  LET row == SettledItem(label, alloc, i)
           IN  /\ row \in Item
               /\ row.paid + row.remaining = row.total
               /\ row.deleted = items[i].deleted
               /\ row.link = items[i].link
<1> DEFINE row == NormalisedItems(label)[i]
<1>1. /\ row \in Item
      /\ row.paid = items[i].paid
      /\ row.remaining = items[i].remaining
      /\ row.total = items[i].total
      /\ row.deleted = items[i].deleted
      /\ row.link = items[i].link
  BY NormalisedShape
<1>2. SettledItem(label, alloc, i) =
         IF alloc[i] > 0 THEN Adjusted(row, alloc[i]) ELSE row
  BY DEF SettledItem
<1>3. /\ today \in Dates /\ i \in ItemIds /\ items[i] \in Item
      /\ items[i].paid + items[i].remaining = items[i].total
  BY DEF LedgerInv, TypeOK, Balanced
<1> HIDE DEF row
<1>4. CASE alloc[i] > 0
  <2>1. /\ alloc[i] \in Int /\ alloc[i] <= items[i].remaining
        /\ items[i].paid \in Nat /\ items[i].remaining \in Nat
    BY <1>3, <1>4 DEF Allocations, Item
  <2>2. /\ row.paid + row.remaining = row.total
        /\ 0 <= row.paid + alloc[i]
        /\ row.paid + alloc[i] <= row.total
    BY <1>1, <1>3, <1>4, <2>1
  <2>3. /\ Adjusted(row, alloc[i]) \in Item
        /\ Adjusted(row, alloc[i]).paid + Adjusted(row, alloc[i]).remaining
              = Adjusted(row, alloc[i]).total
        /\ Adjusted(row, alloc[i]).deleted = row.deleted
        /\ Adjusted(row, alloc[i]).link = row.link
    BY <1>1, <1>3, <2>1, <2>2, AdjustedShape, Zenon
  <2>4. QED
    BY <1>1, <1>2, <1>4, <2>3
<1>5. CASE ~(alloc[i] > 0)
  BY <1>1, <1>2, <1>3, <1>5
<1>6. QED
  BY <1>4, <1>5

\* A repayment that gives no item more than it has remaining keeps the
\* invariant, however the allocation was chosen.
LEMMA SettleKeepsInv ==
    ASSUME LedgerInv,
           NEW label \in Labels, NEW amount \in Amounts,
           NEW link \in TxIds \cup {None}, NEW date \in Dates, NEW alloc,
           Allocatable(alloc, amount),
           Settle(label, amount, link, date, alloc),
           TxsShape', today' = today
    PROVE  LedgerInv'
<1>1. PICK p \in PaymentIds :
         /\ items' = [i \in DOMAIN items |-> SettledItem(label, alloc, i)]
         /\ payments' = [q \in DOMAIN payments \cup {p} |->
                            IF q = p
                            THEN [person |-> label, amount |-> amount, link |-> link,
                                  date |-> date, alloc |-> alloc]
                            ELSE NormalisedPayments(label)[q]]
         /\ log' = [i \in DOMAIN log |->
                       IF alloc[i] > 0
                       THEN Recorded(log[i], date,
                                Snapshot("payment", SettledItem(label, alloc, i)))
                       ELSE log[i]]
  BY DEF Settle
<1>2. /\ today \in Dates
      /\ items \in [DOMAIN items -> Item] /\ DOMAIN items \subseteq ItemIds
      /\ DOMAIN log = DOMAIN items
      /\ payments \in [DOMAIN payments -> Payment] /\ DOMAIN payments \subseteq PaymentIds
      /\ \A j \in DOMAIN items : items[j].paid + items[j].remaining = items[j].total
  BY DEF LedgerInv, TypeOK, Balanced
<1>3. /\ alloc \in Allocations
      /\ \A i \in ItemIds : alloc[i] > 0 => alloc[i] <= items[i].remaining
  BY DEF Allocatable
<1>4. ASSUME NEW i \in DOMAIN items
      PROVE  /\ SettledItem(label, alloc, i) \in Item
             /\ SettledItem(label, alloc, i).paid + SettledItem(label, alloc, i).remaining
                  = SettledItem(label, alloc, i).total
             /\ items[i].deleted => SettledItem(label, alloc, i).deleted
  <2>1. alloc[i] > 0 => alloc[i] <= items[i].remaining
    BY <1>2, <1>3
  <2>2. QED
    BY <1>3, <2>1, SettledShape
<1>5. /\ items' \in [DOMAIN items -> Item]
      /\ \A i \in DOMAIN items :
            /\ items'[i].paid + items'[i].remaining = items'[i].total
            /\ items[i].deleted => items'[i].deleted
  BY <1>1, <1>4
<1>6. /\ DOMAIN log' = DOMAIN items
      /\ log' = [i \in DOMAIN items |-> log'[i]]
  BY <1>1, <1>2
<1>7. \A i \in DOMAIN items :
        \/ log'[i] = log[i]
        \/ \E d \in Dates, ty \in EventTypes :
              /\ log'[i] = Recorded(log[i], d, Snapshot(ty, items'[i]))
              /\ ty = "deleted" => items'[i].deleted
  <2>1. "payment" \in EventTypes
    BY DEF EventTypes
  <2>2. QED
    BY <1>1, <1>2, <2>1
<1>8. payments' \in [DOMAIN payments' -> Payment] /\ DOMAIN payments' \subseteq PaymentIds
  <2>1. [person |-> label, amount |-> amount, link |-> link,
         date |-> date, alloc |-> alloc] \in Payment
    BY <1>3 DEF Payment
  <2>2. \A q \in DOMAIN payments : NormalisedPayments(label)[q] \in Payment
    BY <1>2 DEF NormalisedPayments, Payment
  <2>3. QED
    BY <1>1, <1>2, <2>1, <2>2
<1>9. QED
  BY <1>5, <1>6, <1>7, <1>8, RewriteKeepsInv, Zenon

\* A reversal takes from each item no more than it was paid.
LEMMA ReversalKeepsInv ==
    ASSUME LedgerInv, NEW p \in PaymentIds, DeletePayment(p)
    PROVE  LedgerInv'
<1> DEFINE alloc == payments[p].alloc
<1>1. /\ p \in DOMAIN payments
      /\ Reversible(alloc)
      /\ items' = [i \in DOMAIN items |-> ReversedItem(alloc, i)]
      /\ log' = [i \in DOMAIN log |->
                    IF alloc[i] > 0
                    THEN Recorded(log[i], today,
                             Snapshot("payment_reversed", ReversedItem(alloc, i)))
                    ELSE log[i]]
      /\ payments' = [q \in DOMAIN payments \ {p} |-> payments[q]]
      /\ UNCHANGED <<txs, today>>
  BY DEF DeletePayment, ReversalDate
<1>2. /\ today \in Dates
      /\ items \in [DOMAIN items -> Item] /\ DOMAIN items \subseteq ItemIds
      /\ DOMAIN log = DOMAIN items
      /\ payments \in [DOMAIN payments -> Payment] /\ DOMAIN payments \subseteq PaymentIds
      /\ \A j \in DOMAIN items : items[j].paid + items[j].remaining = items[j].total
  BY DEF LedgerInv, TypeOK, Balanced
<1>3. alloc \in Allocations
  BY <1>1, <1>2 DEF Payment
<1> HIDE DEF alloc
<1>4. ASSUME NEW i \in DOMAIN items
      PROVE  /\ ReversedItem(alloc, i) \in Item
             /\ ReversedItem(alloc, i).paid + ReversedItem(alloc, i).remaining
                  = ReversedItem(alloc, i).total
             /\ items[i].deleted => ReversedItem(alloc, i).deleted
  <2> DEFINE row == items[i]
             delta == 0 - alloc[i]
  <2>1. CASE alloc[i] > 0
    <3>1. /\ row \in Item /\ row.paid + row.remaining = row.total
          /\ alloc[i] \in Nat /\ alloc[i] <= row.paid
      BY <1>1, <1>2, <1>3, <2>1 DEF Allocations, Reversible
    <3>2. /\ delta \in Int
          /\ 0 <= row.paid + delta
          /\ row.paid + delta <= row.total
      BY <3>1 DEF Item
    <3>3. ReversedItem(alloc, i) = Adjusted(row, delta)
      BY <2>1 DEF ReversedItem
    <3>4. row \in Item /\ row.paid + row.remaining = row.total /\ today \in Dates
      BY <1>2, <3>1
    <3> HIDE DEF row, delta
    <3>5. /\ Adjusted(row, delta) \in Item
          /\ Adjusted(row, delta).paid + Adjusted(row, delta).remaining
                = Adjusted(row, delta).total
          /\ Adjusted(row, delta).deleted = row.deleted
      BY <3>2, <3>4, AdjustedShape, Zenon
    <3>6. QED
      BY <3>3, <3>5 DEF row
  <2>2. CASE ~(alloc[i] > 0)
    BY <1>2, <2>2 DEF ReversedItem
  <2>3. QED
    BY <2>1, <2>2
<1>5. /\ items' \in [DOMAIN items -> Item]
      /\ \A i \in DOMAIN items :
            /\ items'[i].paid + items'[i].remaining = items'[i].total
            /\ items[i].deleted => items'[i].deleted
  BY <1>1, <1>4
<1>6. /\ DOMAIN log' = DOMAIN items
      /\ log' = [i \in DOMAIN items |-> log'[i]]
  BY <1>1, <1>2
<1>7. \A i \in DOMAIN items :
        \/ log'[i] = log[i]
        \/ \E d \in Dates, ty \in EventTypes :
              /\ log'[i] = Recorded(log[i], d, Snapshot(ty, items'[i]))
              /\ ty = "deleted" => items'[i].deleted
  <2>1. "payment_reversed" \in EventTypes
    BY DEF EventTypes
  <2>2. QED
    BY <1>1, <1>2, <2>1
<1>8. payments' \in [DOMAIN payments' -> Payment] /\ DOMAIN payments' \subseteq PaymentIds
  BY <1>1, <1>2
<1>9. TxsShape' /\ today' = today
  BY <1>1, SameTxs
<1>10. QED
  BY <1>1, <1>5, <1>6, <1>7, <1>8, <1>9, RewriteKeepsInv, Zenon

\* A rename changes labels only.
LEMMA RenameKeepsInv ==
    ASSUME LedgerInv, NEW from \in Labels, NEW to \in Labels, RenamePerson(from, to)
    PROVE  LedgerInv'
<1>1. /\ items' = [i \in DOMAIN items |->
                      IF items[i].person = from
                      THEN [items[i] EXCEPT !.person = to, !.updated = today]
                      ELSE items[i]]
      /\ payments' = [p \in DOMAIN payments |->
                         IF payments[p].person = from
                         THEN [payments[p] EXCEPT !.person = to]
                         ELSE payments[p]]
      /\ UNCHANGED <<log, txs, today>>
  BY DEF RenamePerson
<1>2. /\ today \in Dates
      /\ items \in [DOMAIN items -> Item]
      /\ DOMAIN log = DOMAIN items /\ log \in [DOMAIN items -> History]
      /\ payments \in [DOMAIN payments -> Payment] /\ DOMAIN payments \subseteq PaymentIds
      /\ \A j \in DOMAIN items : items[j].paid + items[j].remaining = items[j].total
  BY DEF LedgerInv, TypeOK, Balanced
<1>3. ASSUME NEW i \in DOMAIN items
      PROVE  /\ items'[i] \in Item
             /\ items'[i].paid + items'[i].remaining = items'[i].total
             /\ items[i].deleted => items'[i].deleted
  <2>1. items[i] \in Item /\ items[i].paid + items[i].remaining = items[i].total
    BY <1>2
  <2>2. \/ items'[i] = items[i]
        \/ items'[i] = [items[i] EXCEPT !.person = to, !.updated = today]
    BY <1>1
  <2>3. QED
    BY <1>2, <2>1, <2>2 DEF Item
<1>4. items' \in [DOMAIN items -> Item]
  BY <1>1, <1>3
<1>5. payments' \in [DOMAIN payments' -> Payment] /\ DOMAIN payments' \subseteq PaymentIds
  BY <1>1, <1>2 DEF Payment
<1>6. /\ DOMAIN log' = DOMAIN items
      /\ log' = [i \in DOMAIN items |-> log'[i]]
      /\ \A i \in DOMAIN items : log'[i] = log[i]
  BY <1>1, <1>2
<1>7. \A i \in DOMAIN items :
        /\ items'[i].paid + items'[i].remaining = items'[i].total
        /\ items[i].deleted => items'[i].deleted
  BY <1>3
<1>8. TxsShape' /\ today' = today
  BY <1>1, SameTxs
<1>9. QED
  BY <1>1, <1>4, <1>5, <1>6, <1>7, <1>8, RewriteKeepsInv, Zenon

-----------------------------------------------------------------------------
(* The repair of the event log                                             *)

\* The repair never dates an event before the item's latest one.
LEMMA RepairDateShape ==
    ASSUME LedgerInv, NEW i \in DOMAIN items
    PROVE  /\ RepairDate(i) \in Dates
           /\ \A d \in DOMAIN log[i] : d <= RepairDate(i)
<1>1. /\ items[i].updated \in Dates
      /\ DOMAIN log[i] \in SUBSET Dates
      /\ DOMAIN log[i] # {}
  <2>1. items[i] \in Item /\ log[i] \in History
    BY DEF LedgerInv, TypeOK
  <2>2. QED
    BY <2>1, HistoryShape DEF LedgerInv, LogComplete, Item
<1> DEFINE latest == LatestDate(log[i])
           updated == items[i].updated
<1>2. latest \in DOMAIN log[i] /\ \A d \in DOMAIN log[i] : d <= latest
  BY <1>1, MaxOfDates DEF LatestDate
<1>3. RepairDate(i) = Max({updated, latest})
  BY DEF RepairDate
<1>4. updated \in Int /\ latest \in Int /\ updated \in Dates /\ latest \in Dates
  BY <1>1, <1>2 DEF Dates
<1> HIDE DEF updated, latest
<1>5. /\ RepairDate(i) \in {updated, latest}
      /\ RepairDate(i) >= updated /\ RepairDate(i) >= latest
  BY <1>3, <1>4, MaxOfTwo
<1>6. \A d \in DOMAIN log[i] : d \in Int
  BY <1>1 DEF Dates
<1>7. QED
  BY <1>2, <1>4, <1>5, <1>6

\* The repair rewrites histories only, with a snapshot of the row as it is.
LEMMA RepairKeepsInv ==
    ASSUME LedgerInv, RepairLog
    PROVE  LedgerInv'
<1>1. /\ log' = [i \in DOMAIN log |->
                    IF i \in Repairable
                    THEN Recorded(log[i], RepairDate(i), Snapshot("payment", items[i]))
                    ELSE log[i]]
      /\ UNCHANGED <<items, payments, txs, today>>
  BY DEF RepairLog, RepairedLog
<1>2. /\ items \in [DOMAIN items -> Item]
      /\ DOMAIN log = DOMAIN items
      /\ payments \in [DOMAIN payments -> Payment] /\ DOMAIN payments \subseteq PaymentIds
      /\ \A j \in DOMAIN items : items[j].paid + items[j].remaining = items[j].total
  BY DEF LedgerInv, TypeOK, Balanced
<1>3. /\ items' \in [DOMAIN items -> Item]
      /\ payments' \in [DOMAIN payments' -> Payment] /\ DOMAIN payments' \subseteq PaymentIds
      /\ \A j \in DOMAIN items :
            /\ items'[j].paid + items'[j].remaining = items'[j].total
            /\ items[j].deleted => items'[j].deleted
  BY <1>1, <1>2
<1>4. DOMAIN log' = DOMAIN items /\ log' = [i \in DOMAIN items |-> log'[i]]
  BY <1>1, <1>2
<1>5. ASSUME NEW i \in DOMAIN items
      PROVE  \/ log'[i] = log[i]
             \/ \E d \in Dates, ty \in EventTypes :
                   /\ log'[i] = Recorded(log[i], d, Snapshot(ty, items'[i]))
                   /\ ty = "deleted" => items'[i].deleted
  <2>1. RepairDate(i) \in Dates /\ "payment" \in EventTypes
    BY RepairDateShape DEF EventTypes
  <2>2. log'[i] = log[i]
          \/ log'[i] = Recorded(log[i], RepairDate(i), Snapshot("payment", items'[i]))
    BY <1>1, <1>2
  <2>3. QED
    BY <2>1, <2>2
<1>6. TxsShape' /\ today' = today
  BY <1>1, SameTxs
<1>7. QED
  BY <1>1, <1>3, <1>4, <1>5, <1>6, RewriteKeepsInv, Zenon

\* A new day changes no row.
LEMMA TickKeepsInv ==
    ASSUME LedgerInv, Tick
    PROVE  LedgerInv'
<1>1. today' \in Dates
  BY BoundsAssumption DEF LedgerInv, TypeOK, Tick, Dates
<1>2. TypeOK'
  BY <1>1 DEF LedgerInv, TypeOK, Tick
<1>3. Balanced' /\ LogComplete'
  BY DEF LedgerInv, Balanced, LogComplete, Tick
<1>4. QED
  BY <1>2, <1>3 DEF LedgerInv

\* Every step of the ledger, and every stutter, keeps the invariant.
LEMMA StepKeepsInv ==
    ASSUME LedgerInv, [Next]_vars
    PROVE  LedgerInv'
<1>1. CASE UNCHANGED vars
  BY <1>1 DEF vars, LedgerInv, TypeOK, Balanced, LogComplete
<1>2. CASE Tick
  BY <1>2, TickKeepsInv
<1>3. CASE OwedStep
  <2>1. ASSUME NEW asked \in Labels, NEW total \in Amounts, NEW paid \in 0..MaxAmount,
               NEW link \in TxIds \cup {None}, NEW due \in Dates \cup {None},
               CreateItem(asked, total, paid, link, due)
        PROVE  LedgerInv'
    BY <2>1, CreateKeepsInv
  <2>2. ASSUME NEW i \in ItemIds, NEW asked \in Labels, NEW total \in Amounts,
               NEW paid \in 0..MaxAmount, NEW status \in SentStatuses \cup {None},
               NEW link \in TxIds \cup {None},
               UpdateItem(i, asked, total, paid, status, link)
        PROVE  LedgerInv'
    BY <2>2, UpdateKeepsInv
  <2>3. ASSUME NEW i \in ItemIds, DeleteItem(i)
        PROVE  LedgerInv'
    BY <2>3, DeleteKeepsInv
  <2>4. ASSUME NEW asked \in Labels, NEW amount \in Amounts,
               NEW link \in TxIds \cup {None}, NEW date \in Dates,
               NEW stop \in ItemIds \cup {None},
               RecordPayment(asked, amount, link, date, stop)
        PROVE  LedgerInv'
    BY <2>4, SettleKeepsInv, SameTxs DEF RecordPayment
  <2>5. ASSUME NEW asked \in Labels, NEW amount \in Amounts,
               NEW link \in TxIds \cup {None}, NEW date \in Dates,
               NEW alloc \in Allocations,
               RecordAllocatedPayment(asked, amount, link, date, alloc)
        PROVE  LedgerInv'
    BY <2>5, SettleKeepsInv, SameTxs DEF RecordAllocatedPayment
  <2>6. ASSUME NEW p \in PaymentIds, DeletePayment(p)
        PROVE  LedgerInv'
    BY <2>6, ReversalKeepsInv
  <2>7. ASSUME NEW from \in Labels, NEW to \in Labels, RenamePerson(from, to)
        PROVE  LedgerInv'
    BY <2>7, RenameKeepsInv
  <2>8. CASE RepairLog
    BY <2>8, RepairKeepsInv
  <2>9. QED
    BY <1>3, <2>1, <2>2, <2>3, <2>4, <2>5, <2>6, <2>7, <2>8, Zenon DEF OwedStep
<1>4. QED
  BY <1>1, <1>2, <1>3 DEF Next

\* The inductive invariant holds in every reachable ledger: rows have their
\* types, balances add up, and every item's history is complete.
THEOREM LedgerInvariant == Spec => []LedgerInv
<1>1. Init => LedgerInv
  BY InitLedgerInv
<1>2. LedgerInv /\ [Next]_vars => LedgerInv'
  BY StepKeepsInv
<1>3. QED
  BY <1>1, <1>2, PTL DEF Spec

-----------------------------------------------------------------------------
(* Theorems                                                                *)

\* Every reachable ledger has well-formed rows, however many requests of
\* however many people were handled.
THEOREM TypeCorrect == Spec => []TypeOK
<1>1. LedgerInv => TypeOK
  BY DEF LedgerInv
<1>2. QED
  BY <1>1, LedgerInvariant, PTL

\* Paid and remaining add up to the total in every reachable ledger.
THEOREM AlwaysBalanced == Spec => []Balanced
<1>1. LedgerInv => Balanced
  BY DEF LedgerInv
<1>2. QED
  BY <1>1, LedgerInvariant, PTL

\* What the integrity check lists is exactly what the repair can repair.
THEOREM AlwaysRepairable == Spec => []IssuesAreRepairable
<1>1. ASSUME LedgerInv PROVE IssuesAreRepairable
  <2>1. ASSUME NEW i \in IntegrityIssues PROVE i \in Repairable
    <3>1. i \in DOMAIN items /\ ~items[i].deleted
      BY DEF IntegrityIssues, Live
    <3>2. /\ DOMAIN log[i] # {}
          /\ DOMAIN log[i] \in SUBSET Dates
          /\ \A d \in DOMAIN log[i] : log[i][d].type # "deleted"
      <4>1. log[i] \in History
        BY <1>1, <3>1 DEF LedgerInv, TypeOK
      <4>2. QED
        BY <1>1, <3>1, <4>1, HistoryShape DEF LedgerInv, LogComplete
    <3>3. LatestDate(log[i]) \in DOMAIN log[i]
      BY <3>2, MaxOfDates DEF LatestDate
    <3>4. ~Unlogged(i) /\ ~LatestIsDelete(i)
      BY <3>2, <3>3 DEF Unlogged, LatestIsDelete, LatestEvent
    <3>5. QED
      BY <3>4 DEF Repairable
  <2>2. QED
    BY <2>1 DEF IssuesAreRepairable, Repairable
<1>2. QED
  BY <1>1, LedgerInvariant, PTL

\* After a repair the latest event of every repaired item states its balance
\* and status, whatever the dates of its earlier events.
THEOREM RepairAlwaysSettles == Spec => []RepairSettles
<1>1. ASSUME LedgerInv PROVE RepairSettles
  <2>1. ASSUME NEW i \in Repairable PROVE ~Stale(RepairedLog[i], items[i])
    <3> DEFINE e == Snapshot("payment", items[i])
               date == RepairDate(i)
               new == Recorded(log[i], date, e)
    <3>1. /\ i \in DOMAIN items /\ i \in DOMAIN log
          /\ items[i] \in Item /\ log[i] \in History
      BY <1>1 DEF Repairable, IntegrityIssues, LedgerInv, TypeOK
    <3>2. RepairedLog[i] = new
      BY <3>1 DEF RepairedLog
    <3>3. /\ e \in Event
          /\ e.remaining = items[i].remaining /\ e.status = items[i].status
      BY <3>1, SnapshotShape DEF EventTypes, Snapshot
    <3>4. date \in Dates /\ \A d \in DOMAIN log[i] : d <= date
      BY <1>1, <3>1, RepairDateShape
    <3>5. DOMAIN log[i] \in SUBSET Dates
      BY <3>1, HistoryShape
    <3> HIDE DEF e, date
    <3>6. /\ DOMAIN new = DOMAIN log[i] \cup {date}
          /\ new[date] = e
      BY <3>1, <3>3, <3>4, RecordedShape, Zenon
    <3> HIDE DEF new
    <3>7. LatestDate(new) = date
      <4> DEFINE D == DOMAIN new
      <4>1. D \in SUBSET Dates /\ D # {} /\ date \in D
        BY <3>4, <3>5, <3>6
      <4>2. Max(D) \in D /\ \A d \in D : d <= Max(D)
        BY <4>1, MaxOfDates
      <4>3. Max(D) <= date /\ date <= Max(D)
        BY <3>4, <3>6, <4>1, <4>2 DEF Dates
      <4>4. Max(D) \in Int /\ date \in Int
        BY <4>1, <4>2 DEF Dates
      <4> HIDE DEF D
      <4>5. Max(D) = date
        BY <4>3, <4>4
      <4>6. QED
        BY <4>5 DEF LatestDate, D
    <3>8. QED
      BY <3>2, <3>3, <3>6, <3>7 DEF Stale, LatestEvent
  <2>2. QED
    BY <2>1 DEF RepairSettles
<1>2. QED
  BY <1>1, LedgerInvariant, PTL

\* No repayment's allocations exceed it, in every reachable ledger.
THEOREM NeverOverAllocated == Spec => []AllocationsWithinPayment
<1>1. Init => AllocationsWithinPayment
  BY DEF Init, NoRows, AllocationsWithinPayment
<1>2. ASSUME LedgerInv, AllocationsWithinPayment, [Next]_vars
      PROVE  AllocationsWithinPayment'
  <2> USE DEF AllocationsWithinPayment
  <2> DEFINE Kept == \A p \in DOMAIN payments' :
                        /\ p \in DOMAIN payments
                        /\ payments'[p].alloc = payments[p].alloc
                        /\ payments'[p].amount = payments[p].amount
  <2>1. Kept => AllocationsWithinPayment'
    BY <1>2
  <2>2. ASSUME NEW label \in Labels, NEW amount \in Amounts,
               NEW link \in TxIds \cup {None}, NEW date \in Dates, NEW alloc,
               Allocatable(alloc, amount), Settle(label, amount, link, date, alloc)
        PROVE  AllocationsWithinPayment'
    <3>1. PICK p \in PaymentIds :
             payments' = [q \in DOMAIN payments \cup {p} |->
                            IF q = p
                            THEN [person |-> label, amount |-> amount, link |-> link,
                                  date |-> date, alloc |-> alloc]
                            ELSE NormalisedPayments(label)[q]]
      BY <2>2 DEF Settle
    <3>2. Allocated(alloc) <= amount
      BY <2>2 DEF Allocatable
    <3>3. \A q \in DOMAIN payments : payments[q] \in Payment
      BY <1>2 DEF LedgerInv, TypeOK
    <3>4. ASSUME NEW q \in DOMAIN payments', q # p
          PROVE  /\ q \in DOMAIN payments
                 /\ payments'[q].alloc = payments[q].alloc
                 /\ payments'[q].amount = payments[q].amount
      BY <3>1, <3>3, <3>4 DEF NormalisedPayments, Payment
    <3>5. payments'[p].alloc = alloc /\ payments'[p].amount = amount
      BY <3>1
    <3>6. QED
      BY <1>2, <3>2, <3>4, <3>5
  <2>3. CASE UNCHANGED vars
    BY <2>1, <2>3 DEF vars
  <2>4. CASE Tick
    BY <2>1, <2>4 DEF Tick
  <2>5. CASE OwedStep
    <3>1. ASSUME NEW asked \in Labels, NEW total \in Amounts, NEW paid \in 0..MaxAmount,
                 NEW link \in TxIds \cup {None}, NEW due \in Dates \cup {None},
                 CreateItem(asked, total, paid, link, due)
          PROVE  Kept
      BY <3>1 DEF CreateItem
    <3>2. ASSUME NEW i \in ItemIds, NEW asked \in Labels, NEW total \in Amounts,
                 NEW paid \in 0..MaxAmount, NEW status \in SentStatuses \cup {None},
                 NEW link \in TxIds \cup {None},
                 UpdateItem(i, asked, total, paid, status, link)
          PROVE  Kept
      BY <3>2 DEF UpdateItem
    <3>3. ASSUME NEW i \in ItemIds, DeleteItem(i)
          PROVE  Kept
      BY <3>3 DEF DeleteItem
    <3>4. ASSUME NEW asked \in Labels, NEW amount \in Amounts,
                 NEW link \in TxIds \cup {None}, NEW date \in Dates,
                 NEW stop \in ItemIds \cup {None},
                 RecordPayment(asked, amount, link, date, stop)
          PROVE  AllocationsWithinPayment'
      BY <2>2, <3>4 DEF RecordPayment
    <3>5. ASSUME NEW asked \in Labels, NEW amount \in Amounts,
                 NEW link \in TxIds \cup {None}, NEW date \in Dates,
                 NEW alloc \in Allocations,
                 RecordAllocatedPayment(asked, amount, link, date, alloc)
          PROVE  AllocationsWithinPayment'
      BY <2>2, <3>5 DEF RecordAllocatedPayment
    <3>6. ASSUME NEW p \in PaymentIds, DeletePayment(p)
          PROVE  Kept
      BY <3>6 DEF DeletePayment
    <3>7. ASSUME NEW from \in Labels, NEW to \in Labels, RenamePerson(from, to)
          PROVE  Kept
      <4>1. \A p \in DOMAIN payments : payments[p] \in Payment
        BY <1>2 DEF LedgerInv, TypeOK
      <4>2. QED
        BY <3>7, <4>1 DEF RenamePerson, Payment
    <3>8. CASE RepairLog
      BY <2>1, <3>8 DEF RepairLog
    <3> HIDE DEF Kept, AllocationsWithinPayment
    <3>9. QED
      BY <2>1, <2>5, <3>1, <3>2, <3>3, <3>4, <3>5, <3>6, <3>7, <3>8, Zenon DEF OwedStep
  <2>6. QED
    BY <1>2, <2>3, <2>4, <2>5 DEF Next
<1>3. QED
  BY <1>1, <1>2, LedgerInvariant, PTL DEF Spec

-----------------------------------------------------------------------------
(* What a step may do to one item                                          *)

\* A step leaves the amounts, status and so the snapshot of item i alone.
SameAmounts(i) == Snapshot("adjusted", items'[i]) = Snapshot("adjusted", items[i])

\* The history of item i holds its new amounts and status after the step.
LoggedNow(i) ==
    \E d \in DOMAIN log'[i] : log'[i][d] = Snapshot(log'[i][d].type, items'[i])

\* An item a step leaves alone, or rewrites while it is live and logs.
Handled(i) ==
    /\ i \in DOMAIN items'
    /\ items[i].deleted => items'[i].deleted
    /\ \/ SameAmounts(i) /\ log'[i] = log[i]
       \/ ~items[i].deleted /\ LoggedNow(i)

\* A history that ends in a snapshot of the item's row logs its state.
LEMMA RecordedIsLogged ==
    ASSUME NEW i, log[i] \in History, NEW d \in Dates, NEW type \in EventTypes,
           items'[i] \in Item,
           log'[i] = Recorded(log[i], d, Snapshot(type, items'[i]))
    PROVE  LoggedNow(i)
<1> DEFINE e == Snapshot(type, items'[i])
<1>1. e \in Event /\ e.type = type
  BY SnapshotShape
<1>2. e = Snapshot(e.type, items'[i])
  BY <1>1
<1>3. log'[i] = Recorded(log[i], d, e)
  OBVIOUS
<1> HIDE DEF e
<1>4. d \in DOMAIN log'[i] /\ log'[i][d] = e
  <2>1. log[i] \in History /\ d \in Dates /\ e \in Event
    BY <1>1
  <2>2. /\ DOMAIN Recorded(log[i], d, e) = DOMAIN log[i] \cup {d}
        /\ Recorded(log[i], d, e)[d] = e
    BY <2>1, RecordedShape, Zenon
  <2>3. QED
    BY <1>3, <2>2
<1>5. QED
  BY <1>2, <1>4 DEF LoggedNow

\* A payment writes an event for every item it changes.
LEMMA SettleHandles ==
    ASSUME LedgerInv, LedgerInv',
           NEW label \in Labels, NEW amount \in Amounts,
           NEW link \in TxIds \cup {None}, NEW date \in Dates, NEW alloc,
           Settle(label, amount, link, date, alloc),
           \A i \in DOMAIN items : alloc[i] > 0 => Live(i),
           NEW i \in DOMAIN items
    PROVE  Handled(i)
<1>1. /\ items' = [j \in DOMAIN items |-> SettledItem(label, alloc, j)]
      /\ log' = [j \in DOMAIN log |->
                    IF alloc[j] > 0
                    THEN Recorded(log[j], date,
                             Snapshot("payment", SettledItem(label, alloc, j)))
                    ELSE log[j]]
  BY DEF Settle
<1>2. /\ DOMAIN log = DOMAIN items /\ log[i] \in History
      /\ items'[i] \in Item
      /\ items[i] \in Item
  BY <1>1 DEF LedgerInv, TypeOK
<1>3. CASE alloc[i] > 0
  <2>1. log'[i] = Recorded(log[i], date, Snapshot("payment", items'[i]))
    BY <1>1, <1>2, <1>3
  <2>2. LoggedNow(i)
    BY <1>2, <2>1, RecordedIsLogged DEF EventTypes
  <2>3. QED
    BY <1>1, <1>3, <2>2 DEF Handled, Live
<1>4. CASE ~(alloc[i] > 0)
  <2>1. items'[i] = NormalisedItems(label)[i] /\ log'[i] = log[i]
    BY <1>1, <1>2, <1>4 DEF SettledItem
  <2>2. /\ items'[i].paid = items[i].paid
        /\ items'[i].remaining = items[i].remaining
        /\ items'[i].total = items[i].total
        /\ items'[i].status = items[i].status
        /\ items'[i].deleted = items[i].deleted
    BY <2>1, NormalisedShape
  <2>3. QED
    BY <1>1, <2>1, <2>2 DEF Handled, SameAmounts, Snapshot
<1>5. QED
  BY <1>3, <1>4

\* Every step handles every item it finds.
LEMMA StepHandles ==
    ASSUME LedgerInv, LedgerInv', [Next]_vars, NEW i \in DOMAIN items
    PROVE  Handled(i)
<1>1. /\ items[i] \in Item /\ today \in Dates
      /\ DOMAIN log = DOMAIN items /\ log[i] \in History
      /\ i \in DOMAIN items' => items'[i] \in Item
  BY DEF LedgerInv, TypeOK
<1>2. items' = items /\ log' = log => Handled(i)
  BY DEF Handled, SameAmounts
<1>3. CASE UNCHANGED vars
  BY <1>2, <1>3 DEF vars
<1>4. CASE Tick
  BY <1>2, <1>4 DEF Tick
<1>5. CASE OwedStep
  <2>1. ASSUME NEW asked \in Labels, NEW total \in Amounts, NEW paid \in 0..MaxAmount,
               NEW link \in TxIds \cup {None}, NEW due \in Dates \cup {None},
               CreateItem(asked, total, paid, link, due)
        PROVE  Handled(i)
    <3>1. i \in DOMAIN items' /\ items'[i] = items[i] /\ log'[i] = log[i]
      BY <1>1, <2>1 DEF CreateItem
    <3>2. QED
      BY <3>1 DEF Handled, SameAmounts
  <2>2. ASSUME NEW j \in ItemIds, NEW asked \in Labels, NEW total \in Amounts,
               NEW paid \in 0..MaxAmount, NEW status \in SentStatuses \cup {None},
               NEW link \in TxIds \cup {None},
               UpdateItem(j, asked, total, paid, status, link)
        PROVE  Handled(i)
    <3>1. PICK label \in Labels :
            LET new == EditedItem(items[j], label, total, paid, status, link)
                type == UpdateEventType(items[j].status, new.status)
            IN  /\ items' = [items EXCEPT ![j] = new]
                /\ \/ /\ new.total = items[j].total
                      /\ new.paid = items[j].paid
                      /\ new.status = items[j].status
                      /\ log' = log
                   \/ log' = [log EXCEPT ![j] = Recorded(log[j], today, Snapshot(type, new))]
      BY <2>2 DEF UpdateItem
    <3> DEFINE new == EditedItem(items[j], label, total, paid, status, link)
               type == UpdateEventType(items[j].status, new.status)
    <3>2. /\ items' = [items EXCEPT ![j] = new]
          /\ \/ /\ new.total = items[j].total
                /\ new.paid = items[j].paid
                /\ new.status = items[j].status
                /\ log' = log
             \/ log' = [log EXCEPT ![j] = Recorded(log[j], today, Snapshot(type, new))]
      BY <3>1
    <3>3. j \in DOMAIN items /\ ~items[j].deleted
      BY <2>2 DEF UpdateItem, Live
    <3>4. type \in EventTypes
      BY DEF UpdateEventType, EventTypes
    <3>5. /\ i \in DOMAIN items'
          /\ items'[i] = IF i = j THEN new ELSE items[i]
          /\ items'[i] \in Item
      BY <1>1, <3>2
    <3> HIDE DEF new, type
    <3>6. CASE i # j
      BY <1>1, <3>2, <3>5, <3>6 DEF Handled, SameAmounts
    <3>7. CASE i = j /\ log' = [log EXCEPT ![j] = Recorded(log[j], today, Snapshot(type, new))]
      <4>1. log'[i] = Recorded(log[i], today, Snapshot(type, items'[i]))
        BY <1>1, <3>5, <3>7
      <4>2. LoggedNow(i)
        BY <1>1, <3>4, <3>5, <4>1, RecordedIsLogged
      <4>3. QED
        BY <3>3, <3>5, <3>7, <4>2 DEF Handled
    <3>8. CASE i = j /\ /\ new.total = items[j].total
                        /\ new.paid = items[j].paid
                        /\ new.status = items[j].status
                        /\ log' = log
      <4>1. items'[i].paid + items'[i].remaining = items'[i].total
            /\ items[i].paid + items[i].remaining = items[i].total
        BY <3>5 DEF LedgerInv, Balanced
      <4>2. /\ items'[i].total = items[i].total
            /\ items'[i].paid = items[i].paid
            /\ items'[i].status = items[i].status
        BY <3>5, <3>8
      <4>3. items'[i].remaining = items[i].remaining
        BY <1>1, <3>5, <4>1, <4>2 DEF Item, Amounts
      <4>4. SameAmounts(i)
        BY <4>2, <4>3 DEF SameAmounts, Snapshot
      <4>5. QED
        BY <3>3, <3>5, <3>8, <4>4 DEF Handled
    <3>9. QED
      BY <3>2, <3>6, <3>7, <3>8
  <2>3. ASSUME NEW j \in ItemIds, DeleteItem(j)
        PROVE  Handled(i)
    <3> DEFINE row == [items[j] EXCEPT !.deleted = TRUE, !.updated = today]
    <3>1. /\ j \in DOMAIN items /\ ~items[j].deleted
          /\ items' = [items EXCEPT ![j] = row]
          /\ log' = [log EXCEPT ![j] = Recorded(log[j], today, Snapshot("deleted", items[j]))]
      BY <2>3 DEF DeleteItem, Live
    <3>2. CASE i # j
      BY <1>1, <3>1, <3>2 DEF Handled, SameAmounts
    <3>3. CASE i = j
      <4>1. items'[i] = row /\ items'[i] \in Item /\ i \in DOMAIN items'
        BY <1>1, <3>1, <3>3
      <4>2. Snapshot("deleted", row) = Snapshot("deleted", items[j])
        BY <1>1, <3>3 DEF Item, Snapshot
      <4>3. log'[i] = Recorded(log[i], today, Snapshot("deleted", items'[i]))
        BY <1>1, <3>1, <3>3, <4>1, <4>2
      <4>4. LoggedNow(i)
        BY <1>1, <4>1, <4>3, RecordedIsLogged DEF EventTypes
      <4>5. QED
        BY <3>1, <3>3, <4>1, <4>4 DEF Handled
    <3>4. QED
      BY <3>2, <3>3
  <2>4. ASSUME NEW asked \in Labels, NEW amount \in Amounts,
               NEW link \in TxIds \cup {None}, NEW date \in Dates,
               NEW stop \in ItemIds \cup {None},
               RecordPayment(asked, amount, link, date, stop)
        PROVE  Handled(i)
    <3>1. PICK label \in Labels :
            Settle(label, amount, link, date, AutoAllocation(label, amount, stop))
      BY <2>4 DEF RecordPayment
    <3>2. \A j \in DOMAIN items :
              AutoAllocation(label, amount, stop)[j] > 0 => Live(j)
      <4>1. DOMAIN items \subseteq ItemIds
        BY DEF LedgerInv, TypeOK
      <4>2. \A j \in Queue(label, stop) : Live(j)
        BY DEF Queue
      <4>3. QED
        BY <4>1, <4>2 DEF AutoAllocation
    <3>3. QED
      BY <3>1, <3>2, SettleHandles
  <2>5. ASSUME NEW asked \in Labels, NEW amount \in Amounts,
               NEW link \in TxIds \cup {None}, NEW date \in Dates,
               NEW alloc \in Allocations,
               RecordAllocatedPayment(asked, amount, link, date, alloc)
        PROVE  Handled(i)
    <3>1. PICK label \in Labels :
            /\ Settle(label, amount, link, date, alloc)
            /\ Requestable(alloc, label)
      BY <2>5 DEF RecordAllocatedPayment
    <3>2. \A j \in DOMAIN items : alloc[j] > 0 => Live(j)
      BY <3>1 DEF Requestable, LedgerInv, TypeOK
    <3>3. QED
      BY <3>1, <3>2, SettleHandles
  <2>6. ASSUME NEW p \in PaymentIds, DeletePayment(p)
        PROVE  Handled(i)
    <3> DEFINE alloc == payments[p].alloc
    <3>1. /\ \A j \in ItemIds : alloc[j] > 0 => Live(j)
          /\ items' = [j \in DOMAIN items |-> ReversedItem(alloc, j)]
          /\ log' = [j \in DOMAIN log |->
                        IF alloc[j] > 0
                        THEN Recorded(log[j], today,
                                 Snapshot("payment_reversed", ReversedItem(alloc, j)))
                        ELSE log[j]]
      BY <2>6 DEF DeletePayment, ReversalDate, Reversible
    <3>2. i \in ItemIds
      BY DEF LedgerInv, TypeOK
    <3> HIDE DEF alloc
    <3>3. CASE alloc[i] > 0
      <4>1. log'[i] = Recorded(log[i], today, Snapshot("payment_reversed", items'[i]))
        BY <1>1, <3>1, <3>3
      <4>2. LoggedNow(i)
        BY <1>1, <3>1, <4>1, RecordedIsLogged DEF EventTypes
      <4>3. QED
        BY <3>1, <3>2, <3>3, <4>2 DEF Handled, Live
    <3>4. CASE ~(alloc[i] > 0)
      BY <1>1, <3>1, <3>4 DEF ReversedItem, Handled, SameAmounts
    <3>5. QED
      BY <3>3, <3>4
  <2>7. ASSUME NEW from \in Labels, NEW to \in Labels, RenamePerson(from, to)
        PROVE  Handled(i)
    <3>1. /\ i \in DOMAIN items' /\ log' = log
          /\ \/ items'[i] = items[i]
             \/ items'[i] = [items[i] EXCEPT !.person = to, !.updated = today]
      BY <2>7 DEF RenamePerson
    <3>2. Snapshot("adjusted", items'[i]) = Snapshot("adjusted", items[i])
          /\ items'[i].deleted = items[i].deleted
      BY <1>1, <3>1 DEF Item, Snapshot
    <3>3. QED
      BY <3>1, <3>2 DEF Handled, SameAmounts
  <2>8. CASE RepairLog
    <3>1. /\ items' = items
          /\ log'[i] = IF i \in Repairable
                       THEN Recorded(log[i], RepairDate(i), Snapshot("payment", items'[i]))
                       ELSE log[i]
      BY <1>1, <2>8 DEF RepairLog, RepairedLog
    <3>2. CASE i \in Repairable
      <4>1. ~items[i].deleted
        BY <3>2 DEF Repairable, IntegrityIssues, Live
      <4>2. RepairDate(i) \in Dates
        BY RepairDateShape
      <4>3. LoggedNow(i)
        BY <1>1, <3>1, <3>2, <4>2, RecordedIsLogged DEF EventTypes
      <4>4. QED
        BY <3>1, <4>1, <4>3 DEF Handled
    <3>3. CASE i \notin Repairable
      BY <3>1, <3>3 DEF Handled, SameAmounts
    <3>4. QED
      BY <3>2, <3>3
  <2>9. QED
    BY <1>5, <2>1, <2>2, <2>3, <2>4, <2>5, <2>6, <2>7, <2>8, Zenon DEF OwedStep
<1>6. QED
  BY <1>3, <1>4, <1>5 DEF Next

\* No step of any length of run touches a deleted item's amounts, status or
\* history, and none undeletes it.
THEOREM DeletedStayFrozen == Spec => DeletedItemsFrozen
<1>1. ASSUME LedgerInv, LedgerInv', [Next]_vars, NEW i \in DOMAIN items, items[i].deleted
      PROVE  /\ i \in DOMAIN items'
             /\ items'[i].deleted
             /\ Snapshot("deleted", items'[i]) = Snapshot("deleted", items[i])
             /\ log'[i] = log[i]
  <2>1. Handled(i)
    BY <1>1, StepHandles
  <2>2. SameAmounts(i) => Snapshot("deleted", items'[i]) = Snapshot("deleted", items[i])
    BY DEF SameAmounts, Snapshot
  <2>3. QED
    BY <1>1, <2>1, <2>2 DEF Handled
<1>2. LedgerInv /\ LedgerInv' /\ [Next]_vars =>
        [\A i \in DOMAIN items :
            items[i].deleted =>
              /\ i \in DOMAIN items'
              /\ items'[i].deleted
              /\ Snapshot("deleted", items'[i]) = Snapshot("deleted", items[i])
              /\ log'[i] = log[i]]_vars
  BY <1>1
<1>3. QED
  BY <1>2, LedgerInvariant, PTL DEF Spec, DeletedItemsFrozen

\* Whatever a step changes of an item's amounts or status, or adds, is logged.
LEMMA StepLogs ==
    ASSUME LedgerInv, LedgerInv', [Next]_vars, NEW i \in DOMAIN items',
           i \in DOMAIN items => ~SameAmounts(i)
    PROVE  LoggedNow(i)
<1>1. CASE i \in DOMAIN items
  BY <1>1, StepHandles DEF Handled, SameAmounts
<1>2. CASE i \notin DOMAIN items
  <2>1. ASSUME NEW asked \in Labels, NEW total \in Amounts, NEW paid \in 0..MaxAmount,
               NEW link \in TxIds \cup {None}, NEW due \in Dates \cup {None},
               CreateItem(asked, total, paid, link, due)
        PROVE  LoggedNow(i)
    <3>1. PICK j \in ItemIds \ DOMAIN items, label \in Labels :
            LET item == NewItem(label, total, paid, link)
            IN  /\ items' = [k \in DOMAIN items \cup {j} |->
                                IF k = j THEN item ELSE items[k]]
                /\ log' = [k \in DOMAIN log \cup {j} |->
                              IF k = j THEN Recorded(NoRows, CreatedDate(link, due),
                                               Snapshot("created", item))
                              ELSE log[k]]
      BY <2>1 DEF CreateItem
    <3> DEFINE date == CreatedDate(link, due)
               e == Snapshot("created", items'[i])
    <3>2. items'[i] \in Item
      BY DEF LedgerInv, TypeOK
    <3>3. log'[i] = Recorded(NoRows, date, e)
      BY <1>2, <3>1 DEF LedgerInv, TypeOK
    <3>4. e \in Event /\ e.type = "created" /\ e = Snapshot(e.type, items'[i])
      BY <3>2, SnapshotShape DEF EventTypes
    <3> HIDE DEF date, e
    <3>5. date \in DOMAIN log'[i] /\ log'[i][date] = e
      BY <3>3 DEF Recorded
    <3>6. QED
      BY <3>4, <3>5 DEF LoggedNow
  <2>2. DOMAIN items' # DOMAIN items
    BY <1>2
  <2>3. ASSUME NEW j \in ItemIds, NEW row, items' = [items EXCEPT ![j] = row]
        PROVE  DOMAIN items' = DOMAIN items
    BY <2>3 DEF LedgerInv, TypeOK
  <2>4. \/ DOMAIN items' = DOMAIN items
        \/ \E asked \in Labels, total \in Amounts, paid \in 0..MaxAmount,
              link \in TxIds \cup {None}, due \in Dates \cup {None} :
                CreateItem(asked, total, paid, link, due)
    <3>1. CASE UNCHANGED vars \/ Tick \/ RepairLog
      BY <3>1 DEF vars, Tick, RepairLog
    <3>2. ASSUME NEW j \in ItemIds, NEW asked \in Labels, NEW total \in Amounts,
                 NEW paid \in 0..MaxAmount, NEW status \in SentStatuses \cup {None},
                 NEW link \in TxIds \cup {None},
                 UpdateItem(j, asked, total, paid, status, link)
          PROVE  DOMAIN items' = DOMAIN items
      <4>1. PICK label \in Labels :
              items' = [items EXCEPT ![j] =
                          EditedItem(items[j], label, total, paid, status, link)]
        BY <3>2 DEF UpdateItem
      <4>2. QED
        BY <2>3, <4>1
    <3>3. ASSUME NEW j \in ItemIds, DeleteItem(j)
          PROVE  DOMAIN items' = DOMAIN items
      BY <2>3, <3>3 DEF DeleteItem
    <3>4. ASSUME NEW label, NEW amount, NEW link, NEW date, NEW alloc,
                 Settle(label, amount, link, date, alloc)
          PROVE  DOMAIN items' = DOMAIN items
      BY <3>4 DEF Settle
    <3>5. ASSUME NEW p \in PaymentIds, DeletePayment(p)
          PROVE  DOMAIN items' = DOMAIN items
      BY <3>5 DEF DeletePayment
    <3>6. ASSUME NEW from \in Labels, NEW to \in Labels, RenamePerson(from, to)
          PROVE  DOMAIN items' = DOMAIN items
      BY <3>6 DEF RenamePerson
    <3>7. QED
      BY <3>1, <3>2, <3>3, <3>4, <3>5, <3>6, Zenon
         DEF Next, OwedStep, RecordPayment, RecordAllocatedPayment
  <2>5. QED
    BY <2>1, <2>2, <2>4
<1>3. QED
  BY <1>1, <1>2

\* Every change of an item's amounts or status, and every new item, is in its
\* event log.
THEOREM EveryChangeLogged == Spec => ChangesLogged
<1>1. ASSUME LedgerInv, LedgerInv', [Next]_vars, NEW i \in DOMAIN items',
             i \in DOMAIN items => Snapshot("adjusted", items'[i]) # Snapshot("adjusted", items[i])
      PROVE  \E d \in DOMAIN log'[i] : log'[i][d] = Snapshot(log'[i][d].type, items'[i])
  <2>1. LoggedNow(i)
    BY <1>1, StepLogs DEF SameAmounts
  <2>2. QED
    BY <2>1 DEF LoggedNow
<1>2. LedgerInv /\ LedgerInv' /\ [Next]_vars =>
        [\A i \in DOMAIN items' :
            (i \in DOMAIN items =>
                Snapshot("adjusted", items'[i]) # Snapshot("adjusted", items[i]))
            => \E d \in DOMAIN log'[i] :
                   log'[i][d] = Snapshot(log'[i][d].type, items'[i])]_vars
  BY <1>1
<1>3. QED
  BY <1>2, LedgerInvariant, PTL DEF Spec, ChangesLogged


-----------------------------------------------------------------------------
(* Requests that overlap (OwedOverlap)                                     *)

-----------------------------------------------------------------------------
(* Rows                                                                    *)

\* Overlapping edits may leave an item out of balance by a cent, so that its
\* amounts are not within MaxAmount any more.
LooseItem ==
    [person: Labels, total: Int, paid: Int, remaining: Int, status: Statuses,
     link: TxIds \cup {None}, hash: (TxIds \X People) \cup {None},
     deleted: BOOLEAN, updated: Dates]

\* What the columns of all tables are, while requests overlap.
RowsOK ==
    /\ items \in [DOMAIN items -> LooseItem] /\ DOMAIN items \subseteq ItemIds
    /\ payments \in [DOMAIN payments -> Payment]
    /\ DOMAIN log = DOMAIN items /\ log = [i \in DOMAIN items |-> log[i]]
    /\ \A i \in DOMAIN items :
          /\ DOMAIN log[i] \subseteq Dates /\ DOMAIN log[i] # {}
          /\ \A d \in DOMAIN log[i] : log[i][d].type = "deleted" => items[i].deleted
    /\ txs \in [DOMAIN txs -> Transaction] /\ TxIds \subseteq DOMAIN txs
    /\ today \in Dates

\* The columns of a request in flight.
RequestShape(q) ==
    /\ q = [phase |-> q.phase, payment |-> q.payment, reserved |-> q.reserved,
            before |-> q.before, after |-> q.after, events |-> q.events,
            drop |-> q.drop, add |-> q.add, alone |-> q.alone]
    /\ q.phase \in {"new", "found", "reserved", "ready", "done"}

\* The changed rows of a request, each with what was read of it.
ChangesOK(q) ==
    /\ DOMAIN q.before = DOMAIN q.after /\ DOMAIN q.after \subseteq DOMAIN items
    /\ \A i \in DOMAIN q.after :
          /\ q.before[i] \in LooseItem /\ q.after[i] \in LooseItem
          /\ q.before[i].deleted => q.after[i].deleted

\* Its events, dated on a day of the calendar or when they are written.
EventsOK(q) ==
    /\ DOMAIN q.events \subseteq DOMAIN items
    /\ \A i \in DOMAIN q.events :
          /\ q.events[i].date \in Dates \cup {None}
          /\ q.events[i].event.type = "deleted" =>
                i \in DOMAIN q.after /\ q.after[i].deleted /\ ~q.before[i].deleted

\* The repayments it adds, and the rows its label update has locked.
PaymentsOK(q) ==
    /\ \A p \in DOMAIN q.add : q.add[p] \in Payment
    /\ q.phase \in {"found", "reserved"} => q.payment \in Payment
    /\ q.reserved \subseteq DOMAIN items
    /\ q.phase \in {"found", "reserved"} => DOMAIN q.add = {}
    /\ q.phase = "found" => q.reserved = {}
    /\ q.phase = "reserved" => q.drop = {}

\* The amounts a repayment has read of the rows it has locked are still there,
\* and what it makes of them adds its allocation.
LockedFresh(q) ==
    \A p \in DOMAIN q.add, i \in q.reserved :
        /\ i \in DOMAIN q.after
        /\ q.before[i].paid = items[i].paid
        /\ q.after[i].paid = q.before[i].paid + q.add[p].alloc[i]

RequestOK(q) ==
    RequestShape(q) /\ ChangesOK(q) /\ EventsOK(q) /\ PaymentsOK(q) /\ LockedFresh(q)

OverlapInv ==
    /\ RowsOK
    /\ open = [r \in Requests |-> open[r]]
    /\ \A r \in Requests : RequestOK(open[r])

-----------------------------------------------------------------------------
(* What the helpers make of a row                                          *)

LEMMA LooseAdjusted ==
    ASSUME NEW item \in LooseItem, NEW delta \in Int, today \in Dates
    PROVE  /\ Adjusted(item, delta) \in LooseItem
           /\ Adjusted(item, delta).paid = item.paid + delta
           /\ Adjusted(item, delta).deleted = item.deleted
           /\ Adjusted(item, delta).updated = today
<1> DEFINE paid == item.paid + delta
           remaining == item.total - paid
           status == Status(paid, remaining)
<1>1. paid \in Int /\ remaining \in Int
  BY DEF LooseItem
<1>2. status \in Statuses
  BY StatusShape
<1>3. Adjusted(item, delta) = [item EXCEPT !.paid = paid, !.remaining = remaining,
                                           !.status = status, !.updated = today]
  BY DEF Adjusted
<1> HIDE DEF remaining, status
<1>4. QED
  BY <1>1, <1>2, <1>3 DEF LooseItem

\* Unifying the labels keeps an item's shape and the amount paid.
LEMMA LooseNormalised ==
    ASSUME RowsOK, NEW label \in Labels, NEW i \in DOMAIN items
    PROVE  LET row == NormalisedItems(label)[i]
           IN  /\ row \in LooseItem
               /\ row.paid = items[i].paid /\ row.deleted = items[i].deleted
BY DEF RowsOK, NormalisedItems, LooseItem

\* A payment adds its allocation to the amount paid.
LEMMA LooseSettled ==
    ASSUME RowsOK, NEW label \in Labels, NEW alloc, NEW i \in DOMAIN items,
           alloc[i] \in Nat
    PROVE  LET row == SettledItem(label, alloc, i)
           IN  /\ row \in LooseItem
               /\ row.paid = items[i].paid + alloc[i]
               /\ row.deleted = items[i].deleted
<1> DEFINE old == NormalisedItems(label)[i]
           row == SettledItem(label, alloc, i)
<1>1. /\ old \in LooseItem /\ old.paid = items[i].paid /\ old.deleted = items[i].deleted
      /\ today \in Dates /\ items[i].paid \in Int
  BY LooseNormalised DEF RowsOK, LooseItem
<1>2. row = IF alloc[i] > 0 THEN Adjusted(old, alloc[i]) ELSE old
  BY DEF SettledItem
<1> HIDE DEF old, row
<1> DEFINE Goal == /\ row \in LooseItem /\ row.paid = items[i].paid + alloc[i]
                   /\ row.deleted = items[i].deleted
<1>3. alloc[i] > 0 => Goal
  <2> DEFINE delta == alloc[i]
  <2>1. delta \in Int
    OBVIOUS
  <2> HIDE DEF delta
  <2>2. /\ Adjusted(old, delta) \in LooseItem
        /\ Adjusted(old, delta).paid = old.paid + delta
        /\ Adjusted(old, delta).deleted = old.deleted
    BY <1>1, <2>1, LooseAdjusted
  <2>3. QED
    BY <1>1, <1>2, <2>2 DEF delta
<1>4. ~(alloc[i] > 0) => Goal
  BY <1>1, <1>2
<1>5. QED
  BY <1>3, <1>4 DEF row

\* An edited item is one, dated today.
LEMMA LooseEdited ==
    ASSUME NEW old \in LooseItem, NEW label \in Labels, NEW total \in Amounts,
           NEW paid \in 0..MaxAmount, NEW status \in SentStatuses \cup {None},
           NEW link \in TxIds \cup {None}, today \in Dates
    PROVE  LET row == EditedItem(old, label, total, paid, status, link)
           IN  row \in LooseItem /\ row.deleted = old.deleted /\ row.updated = today
<1> DEFINE new == IF status = None THEN Status(paid, total - paid) ELSE status
           left == total - paid
<1>1. new \in Statuses
  BY StatusShape, SentStatusesAssumption
<1>2. left \in Int /\ total \in Int /\ paid \in Int
  BY BoundsAssumption DEF Amounts
<1>3. EditedItem(old, label, total, paid, status, link) =
        [old EXCEPT !.person = label, !.total = total, !.paid = paid,
                    !.remaining = left, !.link = link, !.updated = today,
                    !.status = new]
  BY DEF EditedItem
<1> HIDE DEF new, left
<1>4. QED
  BY <1>1, <1>2, <1>3 DEF LooseItem

\* Each column of a merged row is that of one of the three rows it is made of.
LEMMA LooseMerged ==
    ASSUME NEW current \in LooseItem, NEW before \in LooseItem, NEW after \in LooseItem,
           today \in Dates
    PROVE  LET row == Merged(current, before, after)
           IN  /\ row \in LooseItem
               /\ row.paid = IF after.paid # before.paid THEN after.paid ELSE current.paid
               /\ row.deleted = IF after.deleted # before.deleted
                                THEN after.deleted ELSE current.deleted
<1> DEFINE row == Merged(current, before, after)
           Col(c) == IF c = "updated" THEN today
                     ELSE IF after[c] # before[c] THEN after[c] ELSE current[c]
<1>1. DOMAIN current = {"person", "total", "paid", "remaining", "status", "link",
                        "hash", "deleted", "updated"}
  BY DEF LooseItem
<1>2. row = [person |-> Col("person"), total |-> Col("total"), paid |-> Col("paid"),
             remaining |-> Col("remaining"), status |-> Col("status"),
             link |-> Col("link"), hash |-> Col("hash"), deleted |-> Col("deleted"),
             updated |-> Col("updated")]
  BY <1>1 DEF Merged
<1>3. /\ Col("person") \in Labels /\ Col("total") \in Int /\ Col("paid") \in Int
      /\ Col("remaining") \in Int /\ Col("status") \in Statuses
      /\ Col("link") \in TxIds \cup {None}
      /\ Col("hash") \in (TxIds \X People) \cup {None}
      /\ Col("deleted") \in BOOLEAN /\ Col("updated") \in Dates
  BY DEF LooseItem
<1>4. /\ row.paid = Col("paid") /\ row.deleted = Col("deleted")
  BY <1>2
<1>5. row \in LooseItem
  <2> HIDE DEF Col
  <2>1. QED
    BY <1>2, <1>3 DEF LooseItem
<1>6. QED
  BY <1>4, <1>5

\* A row read and not written since is replaced by what was made of it.
LEMMA MergedAlone ==
    ASSUME NEW current \in LooseItem, NEW after \in LooseItem
    PROVE  Merged(current, current, after) = [after EXCEPT !.updated = today]
<1>1. DOMAIN current = DOMAIN after
  BY DEF LooseItem
<1>2. \A c \in DOMAIN current :
        Merged(current, current, after)[c] = [after EXCEPT !.updated = today][c]
  BY <1>1 DEF Merged, LooseItem
<1>3. QED
  BY <1>1, <1>2 DEF Merged, LooseItem

-----------------------------------------------------------------------------
(* Requests that read, and requests that write                             *)

\* A request that is over writes nothing.
Idle(q) ==
    /\ q.payment = None /\ q.reserved = {} /\ q.drop = {}
    /\ q.before = NoRows /\ q.after = NoRows /\ q.events = NoRows /\ q.add = NoRows

\* A request that holds no rows satisfies the invariant.
LEMMA IdleOK ==
    ASSUME NEW q, Idle(q), RequestShape(q), q.phase \in {"new", "done"}
    PROVE  RequestOK(q)
<1>1. DOMAIN NoRows = {}
  BY DEF NoRows
<1>2. QED
  BY <1>1 DEF Idle, RequestOK, ChangesOK, EventsOK, PaymentsOK, LockedFresh

\* The state of a request that has not begun, or is done.
LEMMA DoneShape ==
    /\ RequestShape(Done) /\ Idle(Done) /\ Done.phase = "done"
    /\ RequestShape(NotBegun) /\ Idle(NotBegun) /\ NotBegun.phase = "new"
<1>1. NotBegun = [phase |-> "new", payment |-> None, reserved |-> {}, before |-> NoRows,
                  after |-> NoRows, events |-> NoRows, drop |-> {}, add |-> NoRows,
                  alone |-> TRUE]
  BY DEF NotBegun
<1> DEFINE Shapes(p) ==
        [phase: {p}, payment: {None}, reserved: {{}}, before: {NoRows}, after: {NoRows},
         events: {NoRows}, drop: {{}}, add: {NoRows}, alone: {TRUE}]
<1>2. NotBegun \in Shapes("new")
  BY <1>1
<1>3. Done \in Shapes("done")
  BY <1>2 DEF Done
<1>4. \A p : \A q \in Shapes(p) :
        /\ q.phase = p /\ Idle(q)
        /\ q = [phase |-> q.phase, payment |-> q.payment, reserved |-> q.reserved,
                before |-> q.before, after |-> q.after, events |-> q.events,
                drop |-> q.drop, add |-> q.add, alone |-> q.alone]
  BY DEF Idle
<1> HIDE DEF Shapes
<1>5. QED
  BY <1>2, <1>3, <1>4 DEF RequestShape

\* A request that is done satisfies the invariant.
LEMMA DoneOK == RequestOK(Done)
BY DoneShape, IdleOK

\* Also in the next state.
LEMMA RequestIsDone ==
    ASSUME NEW s, open'[s] = Done
    PROVE  RequestOK(open[s])'
<1> DEFINE q == open'[s]
<1>1. Idle(q) /\ RequestShape(q) /\ q.phase = "done"
  BY DoneShape
<1>2. DOMAIN NoRows = {}
  BY DEF NoRows
<1>3. RequestShape(open[s])'
  BY <1>1 DEF RequestShape
<1> HIDE DEF q
<1>4. ChangesOK(open[s])' /\ EventsOK(open[s])'
  BY <1>1, <1>2 DEF ChangesOK, EventsOK, Idle, q
<1>5. PaymentsOK(open[s])' /\ LockedFresh(open[s])'
  BY <1>1, <1>2 DEF PaymentsOK, LockedFresh, Idle, q
<1>6. QED
  BY <1>3, <1>4, <1>5 DEF RequestOK

\* What a request holds depends on it and on the items alone.
LEMMA RequestSet ==
    ASSUME NEW r, NEW q, RequestOK(q), open'[r] = q, items' = items
    PROVE  RequestOK(open[r])'
BY DEF RequestOK, RequestShape, ChangesOK, EventsOK, PaymentsOK, LockedFresh

\* Reading changes no row.
LEMMA ReadingKeepsInv ==
    ASSUME OverlapInv, UNCHANGED vars, NEW r \in Requests, NEW q, RequestOK(q),
           open' = [open EXCEPT ![r] = q]
    PROVE  OverlapInv'
<1>1. items' = items /\ payments' = payments /\ log' = log /\ txs' = txs /\ today' = today
  BY DEF vars
<1>2. /\ open = [s \in Requests |-> open[s]] /\ RowsOK
      /\ \A s \in Requests : RequestOK(open[s])
  BY DEF OverlapInv
<1>3. RowsOK'
  BY <1>1, <1>2 DEF RowsOK
<1>4. ASSUME NEW s \in Requests
      PROVE  RequestOK(open[s])'
  <2>1. open'[s] = IF s = r THEN q ELSE open[s]
    BY <1>2
  <2>2. RequestOK(open'[s])
    BY <1>2, <2>1
  <2> DEFINE now == open'[s]
  <2>3. RequestOK(now) /\ open'[s] = now
    BY <2>2
  <2> HIDE DEF now
  <2>4. QED
    BY <1>1, <2>3, RequestSet
<1>5. open' = [s \in Requests |-> open'[s]]
  BY <1>2
<1>6. QED
  BY <1>3, <1>4, <1>5 DEF OverlapInv

\* A request that goes on while another one writes keeps what it has read, and
\* the rows it has locked keep their amounts.
GoesOn(s) ==
    /\ open'[s] = open[s] \/ open'[s] = [open[s] EXCEPT !.alone = FALSE]
    /\ \A i \in open[s].reserved : items'[i].paid = items[i].paid

\* A request that goes on keeps what it holds while items are only added.
LEMMA RequestGoesOn ==
    ASSUME NEW s, RequestOK(open[s]), GoesOn(s), DOMAIN items \subseteq DOMAIN items'
    PROVE  RequestOK(open[s])'
<1> DEFINE q == open[s]
           now == open'[s]
<1>1. /\ now.phase = q.phase /\ now.payment = q.payment /\ now.reserved = q.reserved
      /\ now.before = q.before /\ now.after = q.after /\ now.events = q.events
      /\ now.drop = q.drop /\ now.add = q.add
      /\ RequestShape(now)
  BY DEF RequestOK, RequestShape, GoesOn
<1>2. /\ ChangesOK(q) /\ EventsOK(q) /\ PaymentsOK(q) /\ LockedFresh(q)
      /\ \A i \in q.reserved : items'[i].paid = items[i].paid
  BY DEF RequestOK, GoesOn
<1> DEFINE after == now.after
<1>3. RequestShape(open[s])'
  BY <1>1 DEF RequestShape
<1> HIDE DEF now, q
<1>4. ChangesOK(open[s])'
  BY <1>1, <1>2 DEF ChangesOK, now
<1>5. EventsOK(open[s])'
  BY <1>1, <1>2 DEF EventsOK, now
<1>6. PaymentsOK(open[s])'
  BY <1>1, <1>2 DEF PaymentsOK, now
<1>7. LockedFresh(open[s])'
  BY <1>1, <1>2 DEF LockedFresh, now
<1>8. QED
  BY <1>3, <1>4, <1>5, <1>6, <1>7 DEF RequestOK

\* A write that ends its request or others, or leaves them as they are, keeps the invariant.
LEMMA WritingKeepsInv ==
    ASSUME OverlapInv, RowsOK', open' = [s \in Requests |-> open'[s]],
           DOMAIN items \subseteq DOMAIN items',
           \A s \in Requests : open'[s] = Done \/ GoesOn(s)
    PROVE  OverlapInv'
<1>1. ASSUME NEW s \in Requests
      PROVE  RequestOK(open[s])'
  <2>1. CASE GoesOn(s)
    <3>1. RequestOK(open[s])
      BY DEF OverlapInv
    <3>2. QED
      BY <2>1, <3>1, RequestGoesOn
  <2>2. CASE open'[s] = Done
    BY <2>2, RequestIsDone
  <2>3. QED
    BY <2>1, <2>2
<1>2. QED
  BY <1>1 DEF OverlapInv

-----------------------------------------------------------------------------
(* What a request has asked for, in the state it has read                  *)

\* The changes a request is about to write.
Asks(q, before, after, events) ==
    /\ RequestShape(q) /\ q.phase = "ready"
    /\ q.before = before /\ q.after = after /\ q.events = events

\* An edit, a deletion and a repair involve no repayment.
NoPayment(q) == q.reserved = {} /\ q.drop = {} /\ q.add = NoRows

\* What PATCH asks for item i, as far as the guards let it.
EditOf(q, i, total, paid, status, link) ==
    LET old == items[i]
        new == EditedItem(old, old.person, total, paid, status, link)
        same == /\ new.total = old.total
                /\ new.paid = old.paid
                /\ new.status = old.status
    IN  /\ Live(i)
        /\ paid <= total
        /\ link \in DOMAIN txs \cup {None}
        /\ CanLinkItem(IF link = None THEN old.link ELSE link,
                       total, new.status, {i})
        /\ Asks(q, [j \in {i} |-> old], [j \in {i} |-> new],
                [j \in IF same THEN {} ELSE {i} |->
                    EventOf(None, UpdateEventType(old.status, new.status), new)])
        /\ NoPayment(q)

EditReady(q) ==
    \E i \in DOMAIN items, total \in Amounts, paid \in 0..MaxAmount,
       status \in SentStatuses \cup {None}, link \in TxIds \cup {None} :
        EditOf(q, i, total, paid, status, link)

DeleteReady(q) ==
    \E i \in DOMAIN items :
        /\ Live(i)
        /\ Asks(q, [j \in {i} |-> items[i]],
                [j \in {i} |-> [items[i] EXCEPT !.deleted = TRUE]],
                [j \in {i} |-> EventOf(today, "deleted", items[i])])
        /\ NoPayment(q)

RepairReady(q) ==
    /\ Repairable # {}
    /\ Asks(q, NoRows, NoRows,
            [i \in Repairable |-> EventOf(RepairDate(i), "payment", items[i])])
    /\ NoPayment(q)

\* The items a repayment was allocated to.
PaidItems(alloc) == {i \in ItemIds : alloc[i] > 0}

ReversalReady(q, alloc) ==
    /\ Reversible(alloc)
    /\ \A i \in PaidItems(alloc) : ReversedItem(alloc, i).remaining >= 0
    /\ Asks(q, [i \in PaidItems(alloc) |-> items[i]],
            [i \in PaidItems(alloc) |-> ReversedItem(alloc, i)],
            [i \in PaidItems(alloc) |->
                EventOf(today, "payment_reversed", ReversedItem(alloc, i))])
    /\ q.reserved = {} /\ DOMAIN q.add = {}

\* The items a repayment reads: those it has locked and those it pays.
ReadFor(q, alloc) == q.reserved \cup PaidItems(alloc)

PaymentReady(q, p, draft, alloc) ==
    /\ p \in PaymentIds \ DOMAIN payments
    /\ Allocatable(alloc, draft.amount)
    /\ Asks(q, [i \in ReadFor(q, alloc) |-> items[i]],
            [i \in ReadFor(q, alloc) |-> SettledItem(draft.person, alloc, i)],
            [i \in PaidItems(alloc) |->
                EventOf(draft.date, "payment", SettledItem(draft.person, alloc, i))])
    /\ q.drop = {}
    /\ q.add = [x \in {p} |-> [draft EXCEPT !.alloc = alloc]]

-----------------------------------------------------------------------------
(* Requests that read what they should are in order                        *)

\* A request whose changes and events are in order, and that adds no repayment.
LEMMA WithoutPaymentOK ==
    ASSUME NEW q, RequestShape(q), q.phase = "ready", ChangesOK(q), EventsOK(q),
           q.reserved = {}, DOMAIN q.add = {}
    PROVE  RequestOK(q)
BY DEF RequestOK, PaymentsOK, LockedFresh

\* A request that has read nothing has no rows to write.
LEMMA NoRowsEmpty == DOMAIN NoRows = {}
BY DEF NoRows

\* The fields of an event.
LEMMA EventOfShape ==
    ASSUME NEW date, NEW type, NEW item
    PROVE  /\ EventOf(date, type, item).date = date
           /\ EventOf(date, type, item).event = Snapshot(type, item)
           /\ Snapshot(type, item).type = type
BY DEF EventOf, Snapshot

\* An edit that is ready satisfies the invariant.
LEMMA EditReadyOK ==
    ASSUME RowsOK, NEW q, EditReady(q)
    PROVE  RequestOK(q)
<1>1. PICK i \in DOMAIN items, total \in Amounts, paid \in 0..MaxAmount,
           status \in SentStatuses \cup {None}, link \in TxIds \cup {None} :
        EditOf(q, i, total, paid, status, link)
  BY DEF EditReady
<1> DEFINE old == items[i]
           new == EditedItem(old, old.person, total, paid, status, link)
           type == UpdateEventType(old.status, new.status)
<1>2. old \in LooseItem /\ today \in Dates /\ old.person \in Labels
  BY DEF RowsOK, LooseItem
<1>3. new \in LooseItem /\ new.deleted = old.deleted
  BY <1>2, LooseEdited
<1>4. type # "deleted"
  BY DEF UpdateEventType
<1> HIDE DEF old, new, type
<1>5. PICK S \in SUBSET {i} :
        /\ Asks(q, [j \in {i} |-> old], [j \in {i} |-> new],
                [j \in S |-> EventOf(None, type, new)])
        /\ NoPayment(q)
  BY <1>1 DEF EditOf, old, new, type
<1>6. RequestShape(q) /\ q.phase = "ready" /\ q.reserved = {} /\ DOMAIN q.add = {}
  BY <1>5, NoRowsEmpty DEF Asks, NoPayment
<1>7. ChangesOK(q)
  BY <1>2, <1>3, <1>5 DEF ChangesOK, Asks
<1>8. EventsOK(q)
  BY <1>4, <1>5, EventOfShape DEF EventsOK, Asks
<1>9. QED
  BY <1>6, <1>7, <1>8, WithoutPaymentOK

\* A delete that is ready does.
LEMMA DeleteReadyOK ==
    ASSUME RowsOK, NEW q, DeleteReady(q)
    PROVE  RequestOK(q)
<1>1. PICK i \in DOMAIN items :
        /\ Live(i)
        /\ Asks(q, [j \in {i} |-> items[i]],
                [j \in {i} |-> [items[i] EXCEPT !.deleted = TRUE]],
                [j \in {i} |-> EventOf(today, "deleted", items[i])])
        /\ NoPayment(q)
  BY DEF DeleteReady
<1> DEFINE old == items[i]
           new == [items[i] EXCEPT !.deleted = TRUE]
<1>2. old \in LooseItem /\ today \in Dates /\ ~old.deleted
  BY <1>1 DEF RowsOK, Live
<1>3. new \in LooseItem /\ new.deleted
  BY <1>2 DEF LooseItem
<1> HIDE DEF old, new
<1>4. /\ RequestShape(q) /\ q.phase = "ready" /\ q.reserved = {} /\ DOMAIN q.add = {}
      /\ q.before = [j \in {i} |-> old] /\ q.after = [j \in {i} |-> new]
      /\ q.events = [j \in {i} |-> EventOf(today, "deleted", old)]
  BY <1>1, NoRowsEmpty DEF Asks, NoPayment, old, new
<1>5. ChangesOK(q)
  BY <1>2, <1>3, <1>4 DEF ChangesOK
<1>6. EventsOK(q)
  BY <1>2, <1>3, <1>4, EventOfShape DEF EventsOK
<1>7. QED
  BY <1>4, <1>5, <1>6, WithoutPaymentOK

\* The repair dates an event on a day of the calendar.
LEMMA LooseRepairDate ==
    ASSUME RowsOK, NEW i \in DOMAIN items
    PROVE  RepairDate(i) \in Dates
<1>1. /\ items[i].updated \in Dates
      /\ DOMAIN log[i] \in SUBSET Dates /\ DOMAIN log[i] # {}
  BY DEF RowsOK, LooseItem
<1>2. LatestDate(log[i]) \in Dates
  BY <1>1, MaxOfDates DEF LatestDate
<1>3. items[i].updated \in Int /\ LatestDate(log[i]) \in Int
  BY <1>1, <1>2 DEF Dates
<1>4. QED
  BY <1>1, <1>2, <1>3, MaxOfTwo DEF RepairDate

\* A repair that is ready does.
LEMMA RepairReadyOK ==
    ASSUME RowsOK, NEW q, RepairReady(q)
    PROVE  RequestOK(q)
<1>1. /\ RequestShape(q) /\ q.phase = "ready" /\ q.reserved = {} /\ DOMAIN q.add = {}
      /\ q.before = NoRows /\ q.after = NoRows /\ DOMAIN NoRows = {}
      /\ q.events = [i \in Repairable |-> EventOf(RepairDate(i), "payment", items[i])]
  BY NoRowsEmpty DEF Asks, NoPayment, RepairReady
<1>2. Repairable \subseteq DOMAIN items
  BY DEF Repairable, IntegrityIssues
<1>3. ChangesOK(q)
  BY <1>1 DEF ChangesOK
<1>4. EventsOK(q)
  BY <1>1, <1>2, LooseRepairDate, EventOfShape DEF EventsOK
<1>5. QED
  BY <1>1, <1>3, <1>4, WithoutPaymentOK

\* The reversal of a payment that is ready does.
LEMMA ReversalReadyOK ==
    ASSUME RowsOK, NEW q, NEW alloc \in Allocations, ReversalReady(q, alloc)
    PROVE  RequestOK(q)
<1> DEFINE paying == PaidItems(alloc)
           After(i) == ReversedItem(alloc, i)
<1>1. /\ RequestShape(q) /\ q.phase = "ready" /\ q.reserved = {} /\ DOMAIN q.add = {}
      /\ q.before = [i \in paying |-> items[i]] /\ q.after = [i \in paying |-> After(i)]
      /\ q.events = [i \in paying |-> EventOf(today, "payment_reversed", After(i))]
      /\ today \in Dates
  BY DEF Asks, ReversalReady, RowsOK
<1>2. paying \subseteq DOMAIN items
  BY DEF ReversalReady, Reversible, PaidItems
<1>3. ASSUME NEW i \in paying
      PROVE  /\ items[i] \in LooseItem /\ After(i) \in LooseItem
             /\ After(i).deleted = items[i].deleted
  <2>1. items[i] \in LooseItem
    BY <1>2 DEF RowsOK
  <2> DEFINE delta == 0 - alloc[i]
  <2>2. delta \in Int /\ alloc[i] > 0
    BY BoundsAssumption DEF Allocations, PaidItems
  <2>3. After(i) = Adjusted(items[i], delta)
    BY <2>2 DEF ReversedItem
  <2> HIDE DEF delta, After
  <2>4. QED
    BY <1>1, <2>1, <2>2, <2>3, LooseAdjusted
<1> HIDE DEF paying, After
<1>4. ChangesOK(q)
  BY <1>1, <1>2, <1>3 DEF ChangesOK
<1>5. EventsOK(q)
  BY <1>1, <1>2, EventOfShape DEF EventsOK
<1>6. QED
  BY <1>1, <1>4, <1>5, WithoutPaymentOK

\* A payment that is ready does.
LEMMA PaymentReadyOK ==
    ASSUME RowsOK, NEW q, NEW p, NEW draft \in Payment, NEW alloc,
           PaymentReady(q, p, draft, alloc), q.reserved \subseteq DOMAIN items
    PROVE  RequestOK(q)
<1> DEFINE paying == PaidItems(alloc)
           read == ReadFor(q, alloc)
           After(i) == SettledItem(draft.person, alloc, i)
           added == [draft EXCEPT !.alloc = alloc]
<1>1. /\ RequestShape(q) /\ q.phase = "ready"
      /\ q.before = [i \in read |-> items[i]] /\ q.after = [i \in read |-> After(i)]
      /\ q.events = [i \in paying |-> EventOf(draft.date, "payment", After(i))]
      /\ q.add = [x \in {p} |-> added]
  BY DEF Asks, PaymentReady
<1>2. /\ alloc \in Allocations /\ paying \subseteq DOMAIN items
      /\ draft.date \in Dates /\ draft.person \in Labels
  BY DEF PaymentReady, Allocatable, PaidItems, Payment
<1>3. read \subseteq DOMAIN items
  BY <1>2 DEF ReadFor
<1>4. added \in Payment /\ added.alloc = alloc
  BY <1>2 DEF Payment
<1>5. ASSUME NEW i \in read
      PROVE  /\ items[i] \in LooseItem /\ After(i) \in LooseItem
             /\ After(i).deleted = items[i].deleted
             /\ After(i).paid = items[i].paid + alloc[i]
  <2>1. items[i] \in LooseItem /\ i \in ItemIds /\ i \in DOMAIN items
    BY <1>3 DEF RowsOK
  <2>2. alloc[i] \in Nat
    BY <1>2, <2>1, BoundsAssumption DEF Allocations
  <2>3. QED
    BY <1>2, <2>1, <2>2, LooseSettled
<1> HIDE DEF paying, After, read, added
<1>6. ChangesOK(q)
  BY <1>1, <1>3, <1>5 DEF ChangesOK
<1>7. EventsOK(q)
  BY <1>1, <1>2, EventOfShape DEF EventsOK
<1>8. PaymentsOK(q)
  BY <1>1, <1>4 DEF PaymentsOK
<1>9. LockedFresh(q)
  <2>1. q.reserved \subseteq read
    BY DEF read, ReadFor
  <2>2. QED
    BY <1>1, <1>4, <1>5, <2>1 DEF LockedFresh
<1>10. QED
  BY <1>1, <1>6, <1>7, <1>8, <1>9 DEF RequestOK

-----------------------------------------------------------------------------
(* What each read makes of a request                                       *)

\* The request comes to be q, and no row is written.
Reads(r, q) == open' = [open EXCEPT ![r] = q] /\ UNCHANGED vars

\* Requests whose columns other than these are the ones of NotBegun.
Begun(q, payment, reserved, before, after, events, drop) ==
    /\ RequestShape(q)
    /\ q.payment = payment /\ q.reserved = reserved /\ q.drop = drop /\ q.add = NoRows
    /\ q.before = before /\ q.after = after /\ q.events = events

\* A request that has worked out its changes.
LEMMA ChangesShape ==
    ASSUME NEW b, NEW a, NEW e
    PROVE  LET q == [NotBegun EXCEPT !.phase = "ready", !.before = b,
                                     !.after = a, !.events = e]
           IN  q.phase = "ready" /\ Begun(q, None, {}, b, a, e, {})
<1> DEFINE none == NoRows
           q == [NotBegun EXCEPT !.phase = "ready", !.before = b,
                                     !.after = a, !.events = e]
           Any == [phase: {"new", "ready"}, payment: {None}, reserved: {{}},
            before: {none, b}, after: {none, a}, events: {none, e},
            drop: {{}}, add: {none}, alone: {TRUE}]
<1>1. /\ NotBegun \in Any /\ NotBegun.add = none
      /\ NotBegun.payment = None
      /\ NotBegun.reserved = {}
      /\ NotBegun.before = none
      /\ NotBegun.after = none
      /\ NotBegun.events = none
      /\ NotBegun.drop = {}
  BY DEF NotBegun
<1> HIDE DEF none
<1>2. /\ q \in Any /\ q.phase = "ready" /\ q.add = none
      /\ q.payment = None
      /\ q.reserved = {}
      /\ q.before = b
      /\ q.after = a
      /\ q.events = e
      /\ q.drop = {}
  BY <1>1
<1>3. \A c \in Any :
        /\ c = [phase |-> c.phase, payment |-> c.payment, reserved |-> c.reserved,
                before |-> c.before, after |-> c.after, events |-> c.events,
                drop |-> c.drop, add |-> c.add, alone |-> c.alone]
        /\ c.phase \in {"new", "found", "reserved", "ready", "done"}
  OBVIOUS
<1> HIDE DEF Any, q
<1>4. q.phase = "ready" /\ Begun(q, None, {}, b, a, e, {})
  BY <1>2, <1>3 DEF Begun, RequestShape, none
<1>5. QED
  BY <1>4 DEF q

\* A request that has worked out its repairs.
LEMMA RepairsShape ==
    ASSUME NEW e
    PROVE  LET q == [NotBegun EXCEPT !.phase = "ready", !.events = e]
           IN  q.phase = "ready" /\ Begun(q, None, {}, NoRows, NoRows, e, {})
<1> DEFINE none == NoRows
           q == [NotBegun EXCEPT !.phase = "ready", !.events = e]
           Any == [phase: {"new", "ready"}, payment: {None}, reserved: {{}},
            before: {none}, after: {none}, events: {none, e},
            drop: {{}}, add: {none}, alone: {TRUE}]
<1>1. /\ NotBegun \in Any /\ NotBegun.add = none
      /\ NotBegun.payment = None
      /\ NotBegun.reserved = {}
      /\ NotBegun.before = none
      /\ NotBegun.after = none
      /\ NotBegun.events = none
      /\ NotBegun.drop = {}
  BY DEF NotBegun
<1> HIDE DEF none
<1>2. /\ q \in Any /\ q.phase = "ready" /\ q.add = none
      /\ q.payment = None
      /\ q.reserved = {}
      /\ q.before = none
      /\ q.after = none
      /\ q.events = e
      /\ q.drop = {}
  BY <1>1
<1>3. \A c \in Any :
        /\ c = [phase |-> c.phase, payment |-> c.payment, reserved |-> c.reserved,
                before |-> c.before, after |-> c.after, events |-> c.events,
                drop |-> c.drop, add |-> c.add, alone |-> c.alone]
        /\ c.phase \in {"new", "found", "reserved", "ready", "done"}
  OBVIOUS
<1> HIDE DEF Any, q
<1>4. q.phase = "ready" /\ Begun(q, None, {}, NoRows, NoRows, e, {})
  BY <1>2, <1>3 DEF Begun, RequestShape, none
<1>5. QED
  BY <1>4 DEF q

\* A reversal that has found its payment.
LEMMA FoundShape ==
    ASSUME NEW x, NEW d
    PROVE  LET q == [NotBegun EXCEPT !.phase = "found", !.payment = x, !.drop = d]
           IN  q.phase = "found" /\ Begun(q, x, {}, NoRows, NoRows, NoRows, d)
<1> DEFINE none == NoRows
           q == [NotBegun EXCEPT !.phase = "found", !.payment = x, !.drop = d]
           Any == [phase: {"new", "found"}, payment: {None, x}, reserved: {{}},
            before: {none}, after: {none}, events: {none},
            drop: {{}, d}, add: {none}, alone: {TRUE}]
<1>1. /\ NotBegun \in Any /\ NotBegun.add = none
      /\ NotBegun.payment = None
      /\ NotBegun.reserved = {}
      /\ NotBegun.before = none
      /\ NotBegun.after = none
      /\ NotBegun.events = none
      /\ NotBegun.drop = {}
  BY DEF NotBegun
<1> HIDE DEF none
<1>2. /\ q \in Any /\ q.phase = "found" /\ q.add = none
      /\ q.payment = x
      /\ q.reserved = {}
      /\ q.before = none
      /\ q.after = none
      /\ q.events = none
      /\ q.drop = d
  BY <1>1
<1>3. \A c \in Any :
        /\ c = [phase |-> c.phase, payment |-> c.payment, reserved |-> c.reserved,
                before |-> c.before, after |-> c.after, events |-> c.events,
                drop |-> c.drop, add |-> c.add, alone |-> c.alone]
        /\ c.phase \in {"new", "found", "reserved", "ready", "done"}
  OBVIOUS
<1> HIDE DEF Any, q
<1>4. q.phase = "found" /\ Begun(q, x, {}, NoRows, NoRows, NoRows, d)
  BY <1>2, <1>3 DEF Begun, RequestShape, none
<1>5. QED
  BY <1>4 DEF q

\* A payment that has locked its items.
LEMMA ReservedShape ==
    ASSUME NEW x, NEW w
    PROVE  LET q == [NotBegun EXCEPT !.phase = "reserved", !.reserved = w,
                                     !.payment = x]
           IN  q.phase = "reserved" /\ Begun(q, x, w, NoRows, NoRows, NoRows, {})
<1> DEFINE none == NoRows
           q == [NotBegun EXCEPT !.phase = "reserved", !.reserved = w,
                                     !.payment = x]
           Any == [phase: {"new", "reserved"}, payment: {None, x}, reserved: {{}, w},
            before: {none}, after: {none}, events: {none},
            drop: {{}}, add: {none}, alone: {TRUE}]
<1>1. /\ NotBegun \in Any /\ NotBegun.add = none
      /\ NotBegun.payment = None
      /\ NotBegun.reserved = {}
      /\ NotBegun.before = none
      /\ NotBegun.after = none
      /\ NotBegun.events = none
      /\ NotBegun.drop = {}
  BY DEF NotBegun
<1> HIDE DEF none
<1>2. /\ q \in Any /\ q.phase = "reserved" /\ q.add = none
      /\ q.payment = x
      /\ q.reserved = w
      /\ q.before = none
      /\ q.after = none
      /\ q.events = none
      /\ q.drop = {}
  BY <1>1
<1>3. \A c \in Any :
        /\ c = [phase |-> c.phase, payment |-> c.payment, reserved |-> c.reserved,
                before |-> c.before, after |-> c.after, events |-> c.events,
                drop |-> c.drop, add |-> c.add, alone |-> c.alone]
        /\ c.phase \in {"new", "found", "reserved", "ready", "done"}
  OBVIOUS
<1> HIDE DEF Any, q
<1>4. q.phase = "reserved" /\ Begun(q, x, w, NoRows, NoRows, NoRows, {})
  BY <1>2, <1>3 DEF Begun, RequestShape, none
<1>5. QED
  BY <1>4 DEF q

\* An edit begins by reading what is there.
LEMMA StartEditReads ==
    ASSUME NEW r \in Requests, NEW i \in ItemIds, NEW total \in Amounts,
           NEW paid \in 0..MaxAmount, NEW status \in SentStatuses \cup {None},
           NEW link \in TxIds \cup {None}, StartEdit(r, i, total, paid, status, link)
    PROVE  \E q : EditReady(q) /\ Reads(r, q)
<1> DEFINE old == items[i]
           new == EditedItem(old, old.person, total, paid, status, link)
           type == UpdateEventType(old.status, new.status)
           same == /\ new.total = old.total
                   /\ new.paid = old.paid
                   /\ new.status = old.status
           before == [j \in {i} |-> old]
           after == [j \in {i} |-> new]
           events == [j \in IF same THEN {} ELSE {i} |-> EventOf(None, type, new)]
           q == [NotBegun EXCEPT !.phase = "ready", !.before = before,
                                 !.after = after, !.events = events]
<1>1. /\ i \in DOMAIN items /\ Live(i) /\ paid <= total /\ link \in DOMAIN txs \cup {None}
      /\ CanLinkItem(IF link = None THEN old.link ELSE link, total, new.status, {i})
      /\ Reads(r, q)
  BY DEF StartEdit, Reads
<1>2. Asks(q, before, after, events) /\ NoPayment(q)
  <2> HIDE DEF before, after, events
  <2>1. q.phase = "ready" /\ Begun(q, None, {}, before, after, events, {})
    BY ChangesShape
  <2>2. QED
    BY <2>1 DEF Begun, Asks, NoPayment
<1> HIDE DEF q
<1>3. EditReady(q)
  BY <1>1, <1>2 DEF EditReady, EditOf
<1>4. QED
  BY <1>1, <1>3

\* A delete begins by reading what is there.
LEMMA StartDeleteReads ==
    ASSUME NEW r \in Requests, NEW i \in ItemIds, StartDelete(r, i)
    PROVE  \E q : DeleteReady(q) /\ Reads(r, q)
<1> DEFINE before == [j \in {i} |-> items[i]]
           after == [j \in {i} |-> [items[i] EXCEPT !.deleted = TRUE]]
           events == [j \in {i} |-> EventOf(today, "deleted", items[i])]
           q == [NotBegun EXCEPT !.phase = "ready", !.before = before,
                                 !.after = after, !.events = events]
<1>1. i \in DOMAIN items /\ Live(i) /\ Reads(r, q)
  BY DEF StartDelete, Reads
<1>2. Asks(q, before, after, events) /\ NoPayment(q)
  <2> HIDE DEF before, after, events
  <2>1. q.phase = "ready" /\ Begun(q, None, {}, before, after, events, {})
    BY ChangesShape
  <2>2. QED
    BY <2>1 DEF Begun, Asks, NoPayment
<1> HIDE DEF q
<1>3. DeleteReady(q)
  BY <1>1, <1>2 DEF DeleteReady
<1>4. QED
  BY <1>1, <1>3

\* A repair begins by reading what is there.
LEMMA StartRepairReads ==
    ASSUME NEW r \in Requests, StartRepair(r)
    PROVE  \E q : RepairReady(q) /\ Reads(r, q)
<1> DEFINE events == [i \in Repairable |-> EventOf(RepairDate(i), "payment", items[i])]
           q == [NotBegun EXCEPT !.phase = "ready", !.events = events]
<1>1. Repairable # {} /\ Reads(r, q)
  BY DEF StartRepair, Reads
<1>2. Asks(q, NoRows, NoRows, events) /\ NoPayment(q)
  <2> HIDE DEF events
  <2>1. q.phase = "ready" /\ Begun(q, None, {}, NoRows, NoRows, events, {})
    BY RepairsShape
  <2>2. QED
    BY <2>1 DEF Begun, Asks, NoPayment
<1> HIDE DEF q
<1>3. RepairReady(q)
  BY <1>1, <1>2 DEF RepairReady
<1>4. QED
  BY <1>1, <1>3

\* A request that has read no item yet.
NothingRead(q) ==
    /\ RequestShape(q)
    /\ q.before = NoRows /\ q.after = NoRows /\ q.events = NoRows /\ q.add = NoRows

\* A request that has only a payment in hand satisfies the invariant.
LEMMA NothingReadOK ==
    ASSUME NEW q, NothingRead(q), PaymentsOK(q)
    PROVE  RequestOK(q)
<1>1. /\ RequestShape(q) /\ DOMAIN NoRows = {}
      /\ q.before = NoRows /\ q.after = NoRows /\ q.events = NoRows /\ q.add = NoRows
  BY NoRowsEmpty DEF NothingRead
<1>2. ChangesOK(q) /\ EventsOK(q)
  BY <1>1 DEF ChangesOK, EventsOK
<1>3. LockedFresh(q)
  BY <1>1 DEF LockedFresh
<1>4. QED
  BY <1>1, <1>2, <1>3 DEF RequestOK

\* A request that has read repayment p, to take it back.
FoundReady(q, p) ==
    /\ p \in DOMAIN payments
    /\ NothingRead(q) /\ q.phase = "found"
    /\ q.payment = payments[p] /\ q.drop = {p} /\ q.reserved = {}

\* A reversal that has found its payment does.
LEMMA FoundReadyOK ==
    ASSUME RowsOK, NEW q, NEW p, FoundReady(q, p)
    PROVE  RequestOK(q)
<1>1. /\ NothingRead(q) /\ q.phase = "found" /\ q.reserved = {} /\ q.payment \in Payment
      /\ DOMAIN q.add = {}
  BY NoRowsEmpty DEF FoundReady, RowsOK, NothingRead
<1>2. PaymentsOK(q)
  BY <1>1 DEF PaymentsOK
<1>3. QED
  BY <1>1, <1>2, NothingReadOK

\* A reversal begins by finding its payment.
LEMMA FindPaymentReads ==
    ASSUME NEW r \in Requests, NEW p \in PaymentIds, FindPayment(r, p)
    PROVE  \E q : FoundReady(q, p) /\ Reads(r, q)
<1> DEFINE x == payments[p]
           d == {p}
           q == [NotBegun EXCEPT !.phase = "found", !.payment = x, !.drop = d]
<1>1. p \in DOMAIN payments /\ Reads(r, q)
  BY DEF FindPayment, Reads
<1>2. /\ NothingRead(q) /\ q.phase = "found" /\ q.payment = x /\ q.drop = d
      /\ q.reserved = {}
  <2> HIDE DEF x, d
  <2>1. q.phase = "found" /\ Begun(q, x, {}, NoRows, NoRows, NoRows, d)
    BY FoundShape
  <2>2. QED
    BY <2>1 DEF Begun, NothingRead
<1> HIDE DEF q
<1>3. FoundReady(q, p)
  BY <1>1, <1>2 DEF FoundReady
<1>4. QED
  BY <1>1, <1>3

Draft(label, amount, link, date) ==
    [person |-> label, amount |-> amount, link |-> link, date |-> date,
     alloc |-> [i \in ItemIds |-> 0]]

\* A repayment that has locked the rows of its person.
ReservedReady(q, draft) ==
    /\ CanLinkPayment(draft.link, draft.amount)
    /\ NothingRead(q) /\ q.phase = "reserved"
    /\ q.payment = draft /\ q.drop = {} /\ q.reserved = ItemsOf(draft.person)

\* The payment asked for, before it has allocations.
LEMMA DraftShape ==
    ASSUME NEW label \in Labels, NEW amount \in Amounts, NEW link \in TxIds \cup {None},
           NEW date \in Dates
    PROVE  LET draft == Draft(label, amount, link, date)
           IN  /\ draft \in Payment
               /\ draft.person = label /\ draft.amount = amount
               /\ draft.link = link /\ draft.date = date
BY BoundsAssumption DEF Draft, Payment, Allocations

\* A payment that has locked its items satisfies the invariant.
LEMMA ReservedReadyOK ==
    ASSUME RowsOK, NEW q, NEW draft \in Payment, ReservedReady(q, draft)
    PROVE  RequestOK(q)
<1>1. /\ NothingRead(q) /\ q.phase = "reserved" /\ q.payment \in Payment
      /\ DOMAIN q.add = {} /\ q.drop = {}
  BY NoRowsEmpty DEF ReservedReady, NothingRead
<1>2. q.reserved \subseteq DOMAIN items
  BY DEF ReservedReady, ItemsOf
<1>3. PaymentsOK(q)
  BY <1>1, <1>2 DEF PaymentsOK
<1>4. QED
  BY <1>1, <1>3, NothingReadOK

\* A payment begins by locking its person's items.
LEMMA StartPaymentReads ==
    ASSUME NEW r \in Requests, NEW label \in Labels, NEW amount \in Amounts,
           NEW link \in TxIds \cup {None}, NEW date \in Dates,
           StartPayment(r, label, amount, link, date)
    PROVE  \E q : ReservedReady(q, Draft(label, amount, link, date)) /\ Reads(r, q)
<1> DEFINE x == Draft(label, amount, link, date)
           w == ItemsOf(label)
           q == [NotBegun EXCEPT !.phase = "reserved", !.reserved = w, !.payment = x]
<1>1. CanLinkPayment(link, amount) /\ Reads(r, q)
  BY DEF StartPayment, Reads, Draft
<1>2. x.person = label /\ x.amount = amount /\ x.link = link
  BY DraftShape
<1>3. /\ NothingRead(q) /\ q.phase = "reserved" /\ q.payment = x /\ q.reserved = w
      /\ q.drop = {}
  <2> HIDE DEF x, w
  <2>1. q.phase = "reserved" /\ Begun(q, x, w, NoRows, NoRows, NoRows, {})
    BY ReservedShape
  <2>2. QED
    BY <2>1 DEF Begun, NothingRead
<1> HIDE DEF q, x
<1>4. ReservedReady(q, x)
  BY <1>1, <1>2, <1>3 DEF ReservedReady
<1>5. QED
  BY <1>1, <1>4 DEF x

\* The second read of a request keeps what the first one has found.
LEMMA ReadAllocatedReads ==
    ASSUME OverlapInv, NEW r \in Requests, ReadAllocated(r)
    PROVE  /\ open[r].payment \in Payment
           /\ \E q : /\ ReversalReady(q, open[r].payment.alloc)
                     /\ q.drop = open[r].drop /\ q.alone = open[r].alone
                     /\ Reads(r, q)
<1> DEFINE old == open[r]
           alloc == old.payment.alloc
           q == open'[r]
           before == [i \in PaidItems(alloc) |-> items[i]]
           after == [i \in PaidItems(alloc) |-> ReversedItem(alloc, i)]
           seen(a, i) == EventOf(today, "payment_reversed", a[i])
           events == [i \in PaidItems(alloc) |-> seen(after, i)]
<1>1. /\ old.phase = "found" /\ Reversible(alloc)
      /\ \A i \in PaidItems(alloc) : after[i].remaining >= 0
      /\ open' = [open EXCEPT ![r].phase = "ready", ![r].payment = None,
                              ![r].before = before, ![r].after = after,
                              ![r].events = events]
      /\ UNCHANGED vars
  BY DEF ReadAllocated, PaidItems
<1>2. /\ RequestShape(old) /\ old.payment \in Payment /\ DOMAIN old.add = {}
      /\ old.reserved = {}
      /\ open = [s \in Requests |-> open[s]]
  BY <1>1 DEF OverlapInv, RequestOK, PaymentsOK
<1>3. events = [i \in PaidItems(alloc) |->
                   EventOf(today, "payment_reversed", ReversedItem(alloc, i))]
  OBVIOUS
<1>4. \A i \in PaidItems(alloc) : ReversedItem(alloc, i).remaining >= 0
  BY <1>1
<1> HIDE DEF before, after, events
<1>5. /\ q = [old EXCEPT !.phase = "ready", !.payment = None, !.before = before,
                         !.after = after, !.events = events]
      /\ open' = [open EXCEPT ![r] = q]
  BY <1>1, <1>2
<1> HIDE DEF q, old
<1>6. /\ RequestShape(q) /\ q.phase = "ready" /\ q.before = before /\ q.after = after
      /\ q.events = events /\ q.reserved = {} /\ DOMAIN q.add = {}
      /\ q.drop = old.drop /\ q.alone = old.alone
  BY <1>2, <1>5 DEF RequestShape
<1>7. ReversalReady(q, alloc)
  BY <1>1, <1>3, <1>4, <1>6 DEF ReversalReady, Asks, before, after
<1>8. QED
  BY <1>1, <1>2, <1>5, <1>6, <1>7 DEF Reads, old

\* Allocating a payment reads the items it has locked.
LEMMA AllocateReads ==
    ASSUME OverlapInv, NEW r \in Requests, NEW alloc, open[r].phase = "reserved",
           Allocate(r, alloc)
    PROVE  /\ open[r].payment \in Payment /\ open[r].reserved \subseteq DOMAIN items
           /\ \E q, p : /\ PaymentReady(q, p, open[r].payment, alloc)
                        /\ q.reserved = open[r].reserved /\ q.alone = open[r].alone
                        /\ Reads(r, q)
<1> DEFINE old == open[r]
           draft == old.payment
           read == old.reserved \cup PaidItems(alloc)
           q == open'[r]
           before == [i \in read |-> items[i]]
           after == [i \in read |-> SettledItem(draft.person, alloc, i)]
           events == [i \in {j \in read : alloc[j] > 0} |->
                          EventOf(draft.date, "payment", after[i])]
           Added(p) == [x \in {p} |-> [draft EXCEPT !.alloc = alloc]]
<1>1. PICK p \in PaymentIds \ UsedPaymentIds :
        open' = [open EXCEPT ![r].phase = "ready", ![r].payment = None,
                             ![r].before = before, ![r].after = after,
                             ![r].events = events, ![r].add = Added(p)]
  BY DEF Allocate, PaidItems
<1>2. Allocatable(alloc, draft.amount) /\ UNCHANGED vars
  BY DEF Allocate
<1>3. /\ RequestShape(old) /\ draft \in Payment /\ old.drop = {}
      /\ old.reserved \subseteq DOMAIN items /\ DOMAIN items \subseteq ItemIds
      /\ open = [s \in Requests |-> open[s]]
  BY DEF OverlapInv, RequestOK, PaymentsOK, RowsOK
<1>4. {j \in read : alloc[j] > 0} = PaidItems(alloc)
  BY <1>3 DEF PaidItems
<1>5. events = [i \in PaidItems(alloc) |->
                   EventOf(draft.date, "payment", SettledItem(draft.person, alloc, i))]
  BY <1>4
<1> DEFINE added == Added(p)
<1> HIDE DEF before, after, events, added, read
<1>6. /\ q = [old EXCEPT !.phase = "ready", !.payment = None, !.before = before,
                         !.after = after, !.events = events, !.add = added]
      /\ open' = [open EXCEPT ![r] = q]
  BY <1>1, <1>3 DEF added
<1> HIDE DEF q, old
<1>7. /\ RequestShape(q) /\ q.phase = "ready" /\ q.before = before /\ q.after = after
      /\ q.events = events /\ q.reserved = old.reserved /\ q.add = added
      /\ q.drop = {} /\ q.alone = old.alone
  BY <1>3, <1>6 DEF RequestShape
<1>8. p \in PaymentIds \ DOMAIN payments
  BY DEF UsedPaymentIds
<1>9. PaymentReady(q, p, draft, alloc)
  <2>1. ReadFor(q, alloc) = read
    BY <1>7 DEF ReadFor, read
  <2>2. QED
    BY <1>2, <1>5, <1>7, <1>8, <2>1 DEF PaymentReady, Asks, before, after, added
<1>10. QED
  BY <1>2, <1>3, <1>6, <1>7, <1>9 DEF Reads, old

-----------------------------------------------------------------------------
(* What each write makes of the rows                                       *)

\* A write and what becomes of the requests in flight.
LEMMA OverlappedGoOn ==
    ASSUME OverlapInv, NEW s \in Requests, open'[s] = Overlapped[s],
           \A i \in open[s].reserved : items'[i].paid = items[i].paid
    PROVE  GoesOn(s)
BY DEF Overlapped, GoesOn

\* The row, the events and the repayments a request writes with its commit.
CommitRow(q, i) == Merged(items[i], q.before[i], q.after[i])

CommitDate(q, i) == IF q.events[i].date = None THEN today ELSE q.events[i].date

\* A commit writes the rows the request holds and nothing else.
LEMMA CommitIs ==
    ASSUME OverlapInv, NEW r \in Requests, Commit(r)
    PROVE  LET q == open[r]
           IN  /\ q.phase = "ready"
               /\ DOMAIN q.after \cap LockedByOthers(r) = {}
               /\ items' = [i \in DOMAIN items |->
                               IF i \in DOMAIN q.after THEN CommitRow(q, i) ELSE items[i]]
               /\ log' = [i \in DOMAIN items |->
                             IF i \in DOMAIN q.events
                             THEN Recorded(log[i], CommitDate(q, i), q.events[i].event)
                             ELSE log[i]]
               /\ payments' = [p \in (DOMAIN payments \ q.drop) \cup DOMAIN q.add |->
                                  IF p \in DOMAIN q.add THEN q.add[p] ELSE payments[p]]
               /\ open' = [Overlapped EXCEPT ![r] = Done]
               /\ UNCHANGED <<txs, today>>
BY DEF Commit, CommitRow, CommitDate, OverlapInv, RowsOK

\* The rows it leaves have their shape.
LEMMA CommitKeepsRows ==
    ASSUME OverlapInv, NEW r \in Requests, Commit(r)
    PROVE  RowsOK'
<1> DEFINE q == open[r]
<1>1. /\ items' = [i \in DOMAIN items |->
                      IF i \in DOMAIN q.after THEN CommitRow(q, i) ELSE items[i]]
      /\ log' = [i \in DOMAIN items |->
                    IF i \in DOMAIN q.events
                    THEN Recorded(log[i], CommitDate(q, i), q.events[i].event)
                    ELSE log[i]]
      /\ payments' = [p \in (DOMAIN payments \ q.drop) \cup DOMAIN q.add |->
                         IF p \in DOMAIN q.add THEN q.add[p] ELSE payments[p]]
      /\ UNCHANGED <<txs, today>>
  BY CommitIs
<1>2. RowsOK /\ ChangesOK(q) /\ EventsOK(q) /\ PaymentsOK(q)
  BY DEF OverlapInv, RequestOK
<1> HIDE DEF q
<1>3. ASSUME NEW i \in DOMAIN items
      PROVE  /\ items'[i] \in LooseItem
             /\ items[i].deleted => items'[i].deleted
             /\ i \in DOMAIN q.after /\ q.after[i].deleted /\ ~q.before[i].deleted
                    => items'[i].deleted
  <2>1. CASE i \in DOMAIN q.after
    <3> DEFINE current == items[i]
               before == q.before[i]
               after == q.after[i]
               row == Merged(current, before, after)
    <3>1. /\ current \in LooseItem /\ before \in LooseItem /\ after \in LooseItem
          /\ before.deleted => after.deleted
          /\ today \in Dates
      BY <1>2, <2>1 DEF RowsOK, ChangesOK
    <3>2. items'[i] = row
      BY <1>1, <2>1 DEF CommitRow
    <3>3. /\ current.deleted \in BOOLEAN /\ before.deleted \in BOOLEAN
          /\ after.deleted \in BOOLEAN
      BY <3>1 DEF LooseItem
    <3> HIDE DEF current, before, after, row
    <3>4. /\ row \in LooseItem
          /\ row.deleted = IF after.deleted # before.deleted
                           THEN after.deleted ELSE current.deleted
      BY <3>1, LooseMerged DEF row
    <3>5. /\ current.deleted => row.deleted
          /\ after.deleted /\ ~before.deleted => row.deleted
      BY <3>1, <3>3, <3>4
    <3>6. QED
      BY <3>2, <3>4, <3>5 DEF current, before, after
  <2>2. CASE i \notin DOMAIN q.after
    BY <1>1, <1>2, <2>2 DEF RowsOK
  <2>3. QED
    BY <2>1, <2>2
<1>4. ASSUME NEW i \in DOMAIN items
      PROVE  /\ DOMAIN log'[i] \subseteq Dates /\ DOMAIN log'[i] # {}
             /\ \A d \in DOMAIN log'[i] : log'[i][d].type = "deleted" => items'[i].deleted
  <2>1. /\ DOMAIN log[i] \subseteq Dates /\ DOMAIN log[i] # {}
        /\ \A d \in DOMAIN log[i] : log[i][d].type = "deleted" => items[i].deleted
        /\ today \in Dates
    BY <1>2 DEF RowsOK
  <2>2. CASE i \in DOMAIN q.events
    <3> DEFINE date == CommitDate(q, i)
               e == q.events[i].event
    <3>1. date \in Dates
      BY <1>2, <2>1, <2>2 DEF EventsOK, CommitDate
    <3>2. e.type = "deleted" => items'[i].deleted
      BY <1>2, <1>3, <2>2 DEF EventsOK
    <3>3. log'[i] = Recorded(log[i], date, e)
      BY <1>1, <2>2
    <3> HIDE DEF date, e
    <3>4. /\ DOMAIN log'[i] = DOMAIN log[i] \cup {date} /\ log'[i][date] = e
          /\ \A d \in DOMAIN log[i] : d # date => log'[i][d] = log[i][d]
      BY <3>3 DEF Recorded
    <3>5. QED
      BY <1>3, <2>1, <3>1, <3>2, <3>4
  <2>3. CASE i \notin DOMAIN q.events
    <3>1. log'[i] = log[i]
      BY <1>1, <2>3
    <3>2. QED
      BY <1>3, <2>1, <3>1
  <2>4. QED
    BY <2>2, <2>3
<1>5. \A p \in DOMAIN payments' : payments'[p] \in Payment
  BY <1>1, <1>2 DEF PaymentsOK, RowsOK
<1>6. /\ DOMAIN items' = DOMAIN items /\ DOMAIN log' = DOMAIN items
      /\ items' = [i \in DOMAIN items |-> items'[i]]
      /\ log' = [i \in DOMAIN items |-> log'[i]]
      /\ payments' = [p \in DOMAIN payments' |-> payments'[p]]
  BY <1>1
<1>7. QED
  BY <1>1, <1>2, <1>3, <1>4, <1>5, <1>6 DEF RowsOK

\* A commit keeps the invariant.
LEMMA CommitKeepsInv ==
    ASSUME OverlapInv, NEW r \in Requests, Commit(r)
    PROVE  OverlapInv'
<1>1. /\ DOMAIN open[r].after \cap LockedByOthers(r) = {}
      /\ items' = [i \in DOMAIN items |->
                      IF i \in DOMAIN open[r].after THEN CommitRow(open[r], i) ELSE items[i]]
      /\ open' = [Overlapped EXCEPT ![r] = Done]
  BY CommitIs
<1>2. /\ DOMAIN Overlapped = Requests /\ DOMAIN items' = DOMAIN items
      /\ open' = [s \in Requests |-> IF s = r THEN Done ELSE Overlapped[s]]
  BY <1>1 DEF Overlapped
<1>3. ASSUME NEW s \in Requests
      PROVE  open'[s] = Done \/ GoesOn(s)
  <2>1. CASE s = r
    BY <1>2, <2>1
  <2>2. CASE s # r
    <3>1. open[s].reserved \subseteq LockedByOthers(r)
      BY <2>2 DEF LockedByOthers, LockedBy
    <3>2. open[s].reserved \subseteq DOMAIN items
      BY DEF OverlapInv, RequestOK, PaymentsOK
    <3>3. \A i \in open[s].reserved : items'[i].paid = items[i].paid
      BY <1>1, <3>1, <3>2
    <3>4. QED
      BY <1>2, <2>2, <3>3, OverlappedGoOn
  <2>3. QED
    BY <2>1, <2>2
<1>4. open' = [s \in Requests |-> open'[s]]
  BY <1>2
<1>5. QED
  BY <1>2, <1>3, <1>4, CommitKeepsRows, WritingKeepsInv

\* Creating an item leaves the others alone.
LEMMA CreateKeepsRows ==
    ASSUME RowsOK, NEW label \in Labels, NEW total \in Amounts, NEW paid \in 0..MaxAmount,
           NEW link \in TxIds \cup {None}, NEW due \in Dates \cup {None},
           CreateItem(label, total, paid, link, due)
    PROVE  /\ RowsOK' /\ DOMAIN items \subseteq DOMAIN items'
           /\ \A i \in DOMAIN items : items'[i] = items[i]
<1> DEFINE date == CreatedDate(link, due)
           Row(l) == NewItem(l, total, paid, link)
           First(l) == Recorded(NoRows, date, Snapshot("created", Row(l)))
<1>1. PICK i \in ItemIds \ DOMAIN items, l \in Labels :
        /\ items' = [j \in DOMAIN items \cup {i} |-> IF j = i THEN Row(l) ELSE items[j]]
        /\ log' = [j \in DOMAIN log \cup {i} |-> IF j = i THEN First(l) ELSE log[j]]
        /\ UNCHANGED <<payments, txs, today>>
  BY DEF CreateItem
<1> DEFINE row == Row(l)
           first == First(l)
<1>2. date \in Dates
  BY DEF CreatedDate, RowsOK, Transaction
<1>3. row \in LooseItem /\ ~row.deleted
  <2> DEFINE left == total - paid
             status == Status(paid, left)
             hash == IF link = None THEN None ELSE <<link, l[1]>>
  <2>1. left \in Int /\ total \in Int /\ paid \in Int
    BY BoundsAssumption DEF Amounts
  <2>2. status \in Statuses
    BY StatusShape
  <2>3. hash \in (TxIds \X People) \cup {None}
    BY DEF Labels
  <2>4. today \in Dates
    BY DEF RowsOK
  <2>5. row = [person |-> l, total |-> total, paid |-> paid, remaining |-> left,
               status |-> status, link |-> link, hash |-> hash, deleted |-> FALSE,
               updated |-> today]
    BY DEF NewItem
  <2> HIDE DEF left, status, hash, row
  <2>6. QED
    BY <2>1, <2>2, <2>3, <2>4, <2>5 DEF LooseItem
<1>4. /\ DOMAIN first = {date}
      /\ first[date].type = "created"
  BY DEF Recorded, NoRows, Snapshot
<1> HIDE DEF row, first, Row, First, date
<1>5. /\ DOMAIN items' = DOMAIN items \cup {i} /\ DOMAIN log' = DOMAIN items'
      /\ items'[i] = row /\ log'[i] = first
      /\ \A j \in DOMAIN items : items'[j] = items[j] /\ log'[j] = log[j]
      /\ items' = [j \in DOMAIN items' |-> items'[j]]
      /\ log' = [j \in DOMAIN items' |-> log'[j]]
  BY <1>1 DEF RowsOK, row, first
<1>6. \A j \in DOMAIN items' :
        /\ items'[j] \in LooseItem
        /\ DOMAIN log'[j] \subseteq Dates /\ DOMAIN log'[j] # {}
        /\ \A d \in DOMAIN log'[j] : log'[j][d].type = "deleted" => items'[j].deleted
  BY <1>2, <1>3, <1>4, <1>5 DEF RowsOK
<1>7. RowsOK'
  BY <1>1, <1>5, <1>6 DEF RowsOK
<1>8. QED
  BY <1>5, <1>7

\* A write of no request's leaves what the requests have locked alone.
LEMMA OverlappingKeepsInv ==
    ASSUME OverlapInv, RowsOK', open' = Overlapped, DOMAIN items \subseteq DOMAIN items',
           \A i \in DOMAIN items : items'[i] = items[i]
    PROVE  OverlapInv'
<1>1. ASSUME NEW s \in Requests
      PROVE  GoesOn(s)
  <2>1. open[s].reserved \subseteq DOMAIN items
    BY DEF OverlapInv, RequestOK, PaymentsOK
  <2>2. QED
    BY <2>1, OverlappedGoOn
<1>2. open' = [s \in Requests |-> open'[s]]
  BY DEF Overlapped
<1>3. QED
  BY <1>1, <1>2, WritingKeepsInv

\* A new day leaves every row alone.
LEMMA MidnightKeepsRows ==
    ASSUME RowsOK, Tick
    PROVE  RowsOK' /\ items' = items
<1>1. today' \in Dates /\ UNCHANGED <<items, payments, log, txs>>
  BY BoundsAssumption DEF RowsOK, Tick, Dates
<1>2. QED
  BY <1>1 DEF RowsOK

-----------------------------------------------------------------------------
(* The invariant                                                           *)

LEMMA StepKeepsOverlapInv ==
    ASSUME OverlapInv, [OverlapNext]_allVars
    PROVE  OverlapInv'
<1>1. RowsOK
  BY DEF OverlapInv
<1>2. ASSUME NEW r \in Requests, NEW q, RequestOK(q), Reads(r, q)
      PROVE  OverlapInv'
  BY <1>2, ReadingKeepsInv DEF Reads
<1>3. ASSUME NEW r \in Requests, NEW alloc, open[r].phase = "reserved", Allocate(r, alloc)
      PROVE  OverlapInv'
  <2> DEFINE draft == open[r].payment
  <2>1. PICK q, p : /\ PaymentReady(q, p, draft, alloc)
                    /\ q.reserved = open[r].reserved /\ Reads(r, q)
    BY <1>3, AllocateReads
  <2>2. draft \in Payment /\ q.reserved \subseteq DOMAIN items
    BY <1>3, <2>1, AllocateReads
  <2> HIDE DEF draft
  <2>3. RequestOK(q)
    BY <1>1, <2>1, <2>2, PaymentReadyOK
  <2>4. QED
    BY <1>2, <2>1, <2>3
<1>4. ASSUME NEW r \in Requests, NEW i \in ItemIds, NEW total \in Amounts,
             NEW paid \in 0..MaxAmount, NEW status \in SentStatuses \cup {None},
             NEW link \in TxIds \cup {None},
             StartEdit(r, i, total, paid, status, link)
      PROVE  OverlapInv'
  <2>1. PICK q : EditReady(q) /\ Reads(r, q)
    BY <1>4, StartEditReads
  <2>2. RequestOK(q)
    BY <1>1, <2>1, EditReadyOK
  <2>3. QED
    BY <1>2, <2>1, <2>2
<1>5. ASSUME NEW r \in Requests, NEW i \in ItemIds,
             StartDelete(r, i)
      PROVE  OverlapInv'
  <2>1. PICK q : DeleteReady(q) /\ Reads(r, q)
    BY <1>5, StartDeleteReads
  <2>2. RequestOK(q)
    BY <1>1, <2>1, DeleteReadyOK
  <2>3. QED
    BY <1>2, <2>1, <2>2
<1>6. ASSUME NEW r \in Requests, NEW p \in PaymentIds,
             FindPayment(r, p)
      PROVE  OverlapInv'
  <2>1. PICK q : FoundReady(q, p) /\ Reads(r, q)
    BY <1>6, FindPaymentReads
  <2>2. RequestOK(q)
    BY <1>1, <2>1, FoundReadyOK
  <2>3. QED
    BY <1>2, <2>1, <2>2
<1>7. ASSUME NEW r \in Requests,
             ReadAllocated(r)
      PROVE  OverlapInv'
  <2> DEFINE alloc == open[r].payment.alloc
  <2>1. open[r].payment \in Payment
    BY <1>7, ReadAllocatedReads
  <2>2. alloc \in Allocations
    BY <2>1 DEF Payment
  <2>3. PICK q : ReversalReady(q, alloc) /\ Reads(r, q)
    BY <1>7, ReadAllocatedReads
  <2> HIDE DEF alloc
  <2>4. RequestOK(q)
    BY <1>1, <2>2, <2>3, ReversalReadyOK
  <2>5. QED
    BY <1>2, <2>3, <2>4
<1>8. ASSUME NEW r \in Requests, NEW label \in Labels, NEW amount \in Amounts,
             NEW link \in TxIds \cup {None}, NEW date \in Dates,
             StartPayment(r, label, amount, link, date)
      PROVE  OverlapInv'
  <2> DEFINE draft == Draft(label, amount, link, date)
  <2>1. PICK q : ReservedReady(q, draft) /\ Reads(r, q)
    BY <1>8, StartPaymentReads
  <2>2. draft \in Payment
    BY DraftShape
  <2> HIDE DEF draft
  <2>3. RequestOK(q)
    BY <1>1, <2>1, <2>2, ReservedReadyOK
  <2>4. QED
    BY <1>2, <2>1, <2>3
<1>9. ASSUME NEW r \in Requests, NEW stop \in ItemIds \cup {None},
             AllocateOldestFirst(r, stop)
      PROVE  OverlapInv'
  <2> DEFINE alloc == AutoAllocation(open[r].payment.person, open[r].payment.amount, stop)
  <2>1. open[r].phase = "reserved" /\ Allocate(r, alloc)
    BY <1>9 DEF AllocateOldestFirst
  <2> HIDE DEF alloc
  <2>2. QED
    BY <1>3, <2>1
<1>10. ASSUME NEW r \in Requests, NEW alloc \in Allocations,
             AllocateAsAsked(r, alloc)
      PROVE  OverlapInv'
  BY <1>10, <1>3 DEF AllocateAsAsked
<1>11. ASSUME NEW r \in Requests,
             StartRepair(r)
      PROVE  OverlapInv'
  <2>1. PICK q : RepairReady(q) /\ Reads(r, q)
    BY <1>11, StartRepairReads
  <2>2. RequestOK(q)
    BY <1>1, <2>1, RepairReadyOK
  <2>3. QED
    BY <1>2, <2>1, <2>2
<1>12. ASSUME NEW r \in Requests,
             Commit(r)
      PROVE  OverlapInv'
  BY <1>12, CommitKeepsInv
<1>13. ASSUME NEW r \in Requests,
             Abort(r)
      PROVE  OverlapInv'
  <2>1. Reads(r, Done)
    BY <1>13 DEF Abort, Reads
  <2>2. QED
    BY <1>2, <2>1, DoneOK
<1>14. ASSUME NEW label \in Labels, NEW total \in Amounts, NEW paid \in 0..MaxAmount,
             NEW link \in TxIds \cup {None}, NEW due \in Dates \cup {None},
             Create(label, total, paid, link, due)
      PROVE  OverlapInv'
  BY <1>1, <1>14, CreateKeepsRows, OverlappingKeepsInv DEF Create
<1>15. ASSUME Midnight
      PROVE  OverlapInv'
  BY <1>1, <1>15, MidnightKeepsRows, OverlappingKeepsInv DEF Midnight
<1>16. ASSUME UNCHANGED allVars
      PROVE  OverlapInv'
  <2>1. RowsOK' /\ open' = open /\ items' = items
    BY <1>1, <1>16 DEF allVars, vars, RowsOK
  <2>2. \A s \in Requests : GoesOn(s)
    BY <2>1 DEF GoesOn
  <2>3. QED
    BY <2>1, <2>2, WritingKeepsInv DEF OverlapInv
<1>17. QED
  BY <1>4, <1>5, <1>6, <1>7, <1>8, <1>9, <1>10, <1>11, <1>12, <1>13, <1>14, <1>15, <1>16, Zenon DEF OverlapNext

\* The invariant holds before any request.
LEMMA InitOverlapInv == OverlapInit => OverlapInv
<1> SUFFICES ASSUME OverlapInit PROVE OverlapInv
  OBVIOUS
<1>1. /\ items = NoRows /\ payments = NoRows /\ log = NoRows
      /\ txs \in [TxIds -> Transaction] /\ today = 1
      /\ open = [r \in Requests |-> NotBegun]
  BY DEF OverlapInit, Init
<1>2. RowsOK
  BY <1>1, BoundsAssumption DEF RowsOK, NoRows, Dates
<1>3. RequestOK(NotBegun)
  BY DoneShape, IdleOK
<1>4. QED
  BY <1>1, <1>2, <1>3 DEF OverlapInv

\* Whatever requests overlap, rows keep their shape, no item loses its history
\* or comes back from deletion, and a repayment still finds the amounts it has
\* read when it writes (the row locks of normalize_person_name_variants).
THEOREM OverlapInvariant == OverlapSpec => []OverlapInv
<1>1. OverlapInv /\ [OverlapNext]_allVars => OverlapInv'
  BY StepKeepsOverlapInv
<1>2. QED
  BY <1>1, InitOverlapInv, PTL DEF OverlapSpec

-----------------------------------------------------------------------------
(* Theorems on overlapping requests                                        *)

\* However many requests overlap, every issue the integrity check lists is one
\* the repair can repair.
THEOREM OverlapsStayRepairable == OverlapSpec => []IssuesAreRepairable
<1>1. ASSUME OverlapInv PROVE IssuesAreRepairable
  <2>1. ASSUME NEW i \in IntegrityIssues PROVE i \in Repairable
    <3>1. i \in DOMAIN items /\ ~items[i].deleted
      BY DEF IntegrityIssues, Live
    <3>2. /\ DOMAIN log[i] # {}
          /\ DOMAIN log[i] \in SUBSET Dates
          /\ \A d \in DOMAIN log[i] : log[i][d].type # "deleted"
      BY <1>1, <3>1 DEF OverlapInv, RowsOK
    <3>3. LatestDate(log[i]) \in DOMAIN log[i]
      BY <3>2, MaxOfDates DEF LatestDate
    <3>4. ~Unlogged(i) /\ ~LatestIsDelete(i)
      BY <3>2, <3>3 DEF Unlogged, LatestIsDelete, LatestEvent
    <3>5. QED
      BY <3>4 DEF Repairable
  <2>2. QED
    BY <2>1 DEF IssuesAreRepairable, Repairable
<1>2. QED
  BY <1>1, OverlapInvariant, PTL

\* A step that leaves the rows, or the phase of r, alone does not commit r.
LEMMA CommitsOnlyBy ==
    ASSUME OverlapInv, [OverlapNext]_allVars, NEW r \in Requests, Commits(r)
    PROVE  Commit(r)
<1>1. UNCHANGED vars => FALSE
  BY DEF vars, Commits
<1>2. ASSUME open'[r] = Overlapped[r]
      PROVE  FALSE
  <2>1. open[r] = [phase |-> open[r].phase, payment |-> open[r].payment,
                   reserved |-> open[r].reserved, before |-> open[r].before,
                   after |-> open[r].after, events |-> open[r].events,
                   drop |-> open[r].drop, add |-> open[r].add, alone |-> open[r].alone]
    BY DEF OverlapInv, RequestOK, RequestShape
  <2>2. open'[r].phase = open[r].phase
    BY <1>2, <2>1 DEF Overlapped
  <2>3. QED
    BY <2>2 DEF Commits
<1>3. ASSUME NEW s \in Requests, Commit(s)
      PROVE  Commit(r)
  <2>1. CASE s = r
    BY <1>3, <2>1
  <2>2. CASE s # r
    <3>1. open'[r] = Overlapped[r]
      BY <1>3, <2>2 DEF Commit, Overlapped
    <3>2. QED
      BY <1>2, <3>1
  <2>3. QED
    BY <2>1, <2>2
<1>4. ASSUME NEW s \in Requests, NEW i \in ItemIds, NEW total \in Amounts,
             NEW paid \in 0..MaxAmount, NEW status \in SentStatuses \cup {None},
             NEW link \in TxIds \cup {None},
             StartEdit(s, i, total, paid, status, link)
      PROVE  Commit(r)
  BY <1>1, <1>4 DEF StartEdit
<1>5. ASSUME NEW s \in Requests, NEW i \in ItemIds,
             StartDelete(s, i)
      PROVE  Commit(r)
  BY <1>1, <1>5 DEF StartDelete
<1>6. ASSUME NEW s \in Requests, NEW p \in PaymentIds,
             FindPayment(s, p)
      PROVE  Commit(r)
  BY <1>1, <1>6 DEF FindPayment
<1>7. ASSUME NEW s \in Requests,
             ReadAllocated(s)
      PROVE  Commit(r)
  BY <1>1, <1>7 DEF ReadAllocated
<1>8. ASSUME NEW s \in Requests, NEW label \in Labels, NEW amount \in Amounts,
             NEW link \in TxIds \cup {None}, NEW date \in Dates,
             StartPayment(s, label, amount, link, date)
      PROVE  Commit(r)
  BY <1>1, <1>8 DEF StartPayment
<1>9. ASSUME NEW s \in Requests, NEW stop \in ItemIds \cup {None},
             AllocateOldestFirst(s, stop)
      PROVE  Commit(r)
  BY <1>1, <1>9 DEF AllocateOldestFirst, Allocate
<1>10. ASSUME NEW s \in Requests, NEW alloc \in Allocations,
             AllocateAsAsked(s, alloc)
      PROVE  Commit(r)
  BY <1>1, <1>10 DEF AllocateAsAsked, Allocate
<1>11. ASSUME NEW s \in Requests,
             StartRepair(s)
      PROVE  Commit(r)
  BY <1>1, <1>11 DEF StartRepair
<1>12. ASSUME NEW s \in Requests,
             Abort(s)
      PROVE  Commit(r)
  BY <1>1, <1>12 DEF Abort
<1>13. ASSUME NEW label \in Labels, NEW total \in Amounts, NEW paid \in 0..MaxAmount,
             NEW link \in TxIds \cup {None}, NEW due \in Dates \cup {None},
             Create(label, total, paid, link, due)
      PROVE  Commit(r)
  BY <1>2, <1>13 DEF Create
<1>14. ASSUME Midnight
      PROVE  Commit(r)
  BY <1>2, <1>14 DEF Midnight
<1>15. ASSUME UNCHANGED allVars
      PROVE  Commit(r)
  BY <1>1, <1>15 DEF allVars
<1>16. QED
  BY <1>3, <1>4, <1>5, <1>6, <1>7, <1>8, <1>9, <1>10, <1>11, <1>12, <1>13, <1>14, <1>15, Zenon DEF OverlapNext

\* However many requests overlap, a repayment is added in full to every item
\* that existed when it began.
THEOREM RepaymentsAlwaysArrive == OverlapSpec => RepaymentsNeverLost
<1>1. ASSUME OverlapInv, [OverlapNext]_allVars, NEW r \in Requests, Commits(r),
             NEW p \in DOMAIN open[r].add, NEW i \in open[r].reserved
      PROVE  items'[i].paid = items[i].paid + open[r].add[p].alloc[i]
  <2> DEFINE q == open[r]
             current == items[i]
             before == q.before[i]
             after == q.after[i]
  <2>1. Commit(r)
    BY <1>1, CommitsOnlyBy
  <2>2. /\ i \in DOMAIN q.after /\ i \in DOMAIN items
        /\ before.paid = current.paid /\ after.paid = before.paid + q.add[p].alloc[i]
    BY <1>1 DEF OverlapInv, RequestOK, LockedFresh, PaymentsOK
  <2>3. /\ current \in LooseItem /\ before \in LooseItem /\ after \in LooseItem
        /\ today \in Dates
    BY <1>1, <2>2 DEF OverlapInv, RequestOK, ChangesOK, RowsOK
  <2>4. items'[i] = Merged(current, before, after)
    BY <1>1, <2>1, <2>2, CommitIs DEF CommitRow
  <2> HIDE DEF current, before, after, q
  <2>5. Merged(current, before, after).paid =
            IF after.paid # before.paid THEN after.paid ELSE current.paid
    BY <2>3, LooseMerged
  <2>6. items'[i].paid = current.paid + q.add[p].alloc[i]
    BY <2>2, <2>4, <2>5
  <2>7. QED
    BY <2>6 DEF q, current
<1>2. OverlapInv /\ [OverlapNext]_allVars =>
        [\A r \in Requests :
            Commits(r) =>
                \A p \in DOMAIN open[r].add, i \in open[r].reserved :
                    items'[i].paid = items[i].paid + open[r].add[p].alloc[i]]_allVars
  BY <1>1
<1>3. QED
  BY <1>2, OverlapInvariant, PTL DEF OverlapSpec, RepaymentsNeverLost

-----------------------------------------------------------------------------
(* A request that overlaps nothing                                         *)

\* What a repayment was let through on when it began and when it allocated.
PaymentAsked(q, draft, alloc) ==
    /\ CanLinkPayment(draft.link, draft.amount)
    /\ q.reserved = ItemsOf(draft.person)
    /\ \/ Requestable(alloc, draft.person)
       \/ \E stop \in ItemIds \cup {None} :
            /\ alloc = AutoAllocation(draft.person, draft.amount, stop)
            /\ ~AutoAllocationFails(draft.person, draft.amount, stop)

PaymentAlone(q) ==
    \E p \in PaymentIds, draft \in Payment, alloc \in Allocations :
        PaymentReady(q, p, draft, alloc) /\ PaymentAsked(q, draft, alloc)

ReversalAlone(q) ==
    \E p \in PaymentIds :
        /\ p \in DOMAIN payments /\ q.drop = {p}
        /\ ReversalReady(q, payments[p].alloc)

\* The request holds what it would read now.
ReadsNow(q) ==
    \/ \E p \in PaymentIds : FoundReady(q, p)
    \/ \E draft \in Payment : ReservedReady(q, draft)
    \/ EditReady(q) \/ DeleteReady(q) \/ RepairReady(q)
    \/ ReversalAlone(q) \/ PaymentAlone(q)

AloneOK(q) == q.alone /\ q.phase \notin {"new", "done"} => ReadsNow(q)

AloneInv == \A r \in Requests : \E q : q = open[r] /\ AloneOK(q)

\* What a request has read stays as it is while no row is written.
LEMMA EditStays ==
    ASSUME UNCHANGED vars, NEW q, EditReady(q)
    PROVE  EditReady(q)'
<1>0. UNCHANGED items /\ UNCHANGED txs /\ UNCHANGED today
  BY DEF vars
<1>1. ASSUME NEW t, NEW total, NEW status, NEW i, CanLinkItem(t, total, status, {i})
      PROVE  CanLinkItem(t, total, status, {i})'
  BY <1>1, <1>0 DEF CanLinkItem, LinkedTotal, Live
<1>2. ASSUME NEW i, NEW total, NEW paid, NEW status, NEW link,
             EditOf(q, i, total, paid, status, link)
      PROVE  EditOf(q, i, total, paid, status, link)'
  <2> DEFINE old == items[i]
             new == EditedItem(old, old.person, total, paid, status, link)
             same == /\ new.total = old.total
                     /\ new.paid = old.paid
                     /\ new.status = old.status
             type == UpdateEventType(old.status, new.status)
             target == IF link = None THEN old.link ELSE link
  <2>1. old' = old /\ new' = new
    BY <1>0 DEF EditedItem
  <2>2. target' = target /\ type' = type /\ same' = same
    BY <2>1 DEF UpdateEventType
  <2>3. /\ Live(i) /\ paid <= total /\ link \in DOMAIN txs \cup {None}
        /\ CanLinkItem(target, total, new.status, {i})
        /\ Asks(q, [j \in {i} |-> old], [j \in {i} |-> new],
                [j \in IF same THEN {} ELSE {i} |-> EventOf(None, type, new)])
        /\ NoPayment(q)
    BY <1>2 DEF EditOf
  <2> DEFINE state == new.status
  <2>4. state' = state
    BY <2>1
  <2> HIDE DEF old, new, same, type, target, state
  <2>5. CanLinkItem(target, total, state, {i})'
    <3>1. PICK t, u : t = target /\ u = state
      OBVIOUS
    <3>2. CanLinkItem(t, total, u, {i})'
      BY <1>1, <2>3, <3>1 DEF state
    <3>3. target' = t /\ state' = u
      BY <2>2, <2>4, <3>1
    <3>4. QED
      BY <3>2, <3>3 DEF CanLinkItem, LinkedTotal
  <2>6. QED
   BY <1>0, <2>1, <2>2, <2>3, <2>5 DEF EditOf, Live, Asks, NoPayment, old, new, same, type, target, state
<1>3. QED
  BY <1>0, <1>2 DEF EditReady

\* So does a delete,
LEMMA DeleteStays ==
    ASSUME UNCHANGED vars, NEW q, DeleteReady(q)
    PROVE  DeleteReady(q)'
BY DEF vars, DeleteReady, Live, Asks, NoPayment, EventOf, Snapshot, RequestShape

\* a repair,
LEMMA RepairStays ==
    ASSUME UNCHANGED vars, NEW q, RepairReady(q)
    PROVE  RepairReady(q)'
BY DEF vars, RepairReady, Asks, NoPayment, Repairable, RepairDate, IntegrityIssues,
       Stale, LatestEvent, LatestDate, Unlogged, LatestIsDelete, Live

\* the reversal of a payment,
LEMMA ReversalStays ==
    ASSUME UNCHANGED vars, NEW q, NEW alloc, ReversalReady(q, alloc)
    PROVE  ReversalReady(q, alloc)'
BY DEF vars, ReversalReady, Asks, Reversible, ReversedItem, Adjusted, Live, PaidItems

\* a reversal that has found its payment,
LEMMA FoundStays ==
    ASSUME UNCHANGED vars, NEW q, NEW p, FoundReady(q, p)
    PROVE  FoundReady(q, p)'
BY DEF vars, FoundReady

\* whether a payment may be linked to a transaction,
LEMMA LinkStays ==
    ASSUME UNCHANGED vars, NEW t, NEW amount, CanLinkPayment(t, amount)
    PROVE  CanLinkPayment(t, amount)'
BY DEF vars, CanLinkPayment, LinkedPayments

\* a payment that has locked its items,
LEMMA ReservedStays ==
    ASSUME UNCHANGED vars, NEW q, NEW draft, ReservedReady(q, draft)
    PROVE  ReservedReady(q, draft)'
BY DEF vars, ReservedReady, CanLinkPayment, LinkedPayments, ItemsOf

\* what a payment makes of an item,
LEMMA SettledStays ==
    ASSUME UNCHANGED vars, NEW label, NEW alloc, NEW i
    PROVE  SettledItem(label, alloc, i)' = SettledItem(label, alloc, i)
BY DEF vars, SettledItem, NormalisedItems, Adjusted

\* a payment that is ready,
LEMMA PaymentStays ==
    ASSUME UNCHANGED vars, NEW q, NEW p, NEW draft, NEW alloc,
           PaymentReady(q, p, draft, alloc)
    PROVE  PaymentReady(q, p, draft, alloc)'
<1>1. Allocatable(alloc, draft.amount)'
  BY DEF vars, PaymentReady, Allocatable
<1>2. /\ [i \in ReadFor(q, alloc) |-> items[i]]' = [i \in ReadFor(q, alloc) |-> items[i]]
      /\ [i \in ReadFor(q, alloc) |-> SettledItem(draft.person, alloc, i)]' =
            [i \in ReadFor(q, alloc) |-> SettledItem(draft.person, alloc, i)]
      /\ [i \in PaidItems(alloc) |->
             EventOf(draft.date, "payment", SettledItem(draft.person, alloc, i))]' =
            [i \in PaidItems(alloc) |->
                EventOf(draft.date, "payment", SettledItem(draft.person, alloc, i))]
  BY SettledStays DEF vars, ReadFor, PaidItems
<1>3. QED
  BY <1>1, <1>2 DEF vars, PaymentReady, Asks

\* what is allocated automatically,
LEMMA AutoStays ==
    ASSUME UNCHANGED vars, NEW label, NEW amount, NEW stop
    PROVE  /\ AutoAllocation(label, amount, stop)' = AutoAllocation(label, amount, stop)
           /\ AutoAllocationFails(label, amount, stop)'
                  <=> AutoAllocationFails(label, amount, stop)
<1>1. Queue(label, stop)' = Queue(label, stop)
  BY DEF vars, Queue, Live
<1>2. ASSUME NEW S PROVE RemainingIn(S)' = RemainingIn(S)
  BY DEF vars, RemainingIn
<1>3. AutoAllocation(label, amount, stop)' = AutoAllocation(label, amount, stop)
  BY <1>1, <1>2 DEF vars, AutoAllocation, LeftAt, Queue, Live, RemainingIn
<1>4. AutoAllocationFails(label, amount, stop)' <=> AutoAllocationFails(label, amount, stop)
  BY DEF vars, AutoAllocationFails, LeftAt, Queue, Live, RemainingIn
<1>5. QED
  BY <1>3, <1>4

\* what a payment was asked to allocate,
LEMMA AskedStays ==
    ASSUME UNCHANGED vars, NEW q, NEW draft, NEW alloc, PaymentAsked(q, draft, alloc)
    PROVE  PaymentAsked(q, draft, alloc)'
<1>1. /\ CanLinkPayment(draft.link, draft.amount)
      /\ q.reserved = ItemsOf(draft.person)
      /\ \/ Requestable(alloc, draft.person)
         \/ \E stop \in ItemIds \cup {None} :
              /\ alloc = AutoAllocation(draft.person, draft.amount, stop)
              /\ ~AutoAllocationFails(draft.person, draft.amount, stop)
  BY DEF PaymentAsked
<1>2. CanLinkPayment(draft.link, draft.amount)'
  BY <1>1, LinkStays
<1>3. ItemsOf(draft.person)' = ItemsOf(draft.person)
  BY DEF vars, ItemsOf
<1>4. Requestable(alloc, draft.person) => Requestable(alloc, draft.person)'
  BY DEF vars, Requestable, Live
<1>5. ASSUME NEW stop \in ItemIds \cup {None},
             alloc = AutoAllocation(draft.person, draft.amount, stop),
             ~AutoAllocationFails(draft.person, draft.amount, stop)
      PROVE  /\ alloc = AutoAllocation(draft.person, draft.amount, stop)'
             /\ ~AutoAllocationFails(draft.person, draft.amount, stop)'
  BY <1>5, AutoStays
<1>6. QED
  BY <1>1, <1>2, <1>3, <1>4, <1>5 DEF PaymentAsked

\* what a request has read,
LEMMA ReadsStay ==
    ASSUME UNCHANGED vars, NEW q, ReadsNow(q)
    PROVE  ReadsNow(q)'
<1>1. ReversalAlone(q) => ReversalAlone(q)'
  <2>1. ASSUME NEW p \in PaymentIds, p \in DOMAIN payments, q.drop = {p},
               ReversalReady(q, payments[p].alloc)
        PROVE  ReversalAlone(q)'
    <3>1. PICK alloc : alloc = payments[p].alloc
      OBVIOUS
    <3>2. ReversalReady(q, alloc)' /\ payments' = payments
      BY <2>1, <3>1, ReversalStays DEF vars
    <3>3. payments'[p].alloc = alloc
      BY <3>1, <3>2
    <3>4. ReversalReady(q, payments[p].alloc)'
      BY <3>2, <3>3 DEF ReversalReady, Asks
    <3>5. QED
      BY <2>1, <3>2, <3>4 DEF ReversalAlone
  <2>2. QED
    BY <2>1 DEF ReversalAlone
<1>2. PaymentAlone(q) => PaymentAlone(q)'
  BY PaymentStays, AskedStays DEF PaymentAlone
<1>3. QED
  BY <1>1, <1>2, FoundStays, ReservedStays, EditStays, DeleteStays, RepairStays
     DEF ReadsNow

\* and all that is known of a request that no write has overtaken.
LEMMA AloneStays ==
    ASSUME UNCHANGED vars, NEW q, AloneOK(q)
    PROVE  AloneOK(q)'
BY ReadsStay DEF AloneOK

\* So a step that only reads keeps the invariant.
LEMMA ReadingKeepsAlone ==
    ASSUME OverlapInv, AloneInv, NEW r \in Requests, NEW q, AloneOK(q), Reads(r, q)
    PROVE  AloneInv'
<1>1. open = [s \in Requests |-> open[s]]
  BY DEF OverlapInv
<1>2. ASSUME NEW s \in Requests
      PROVE  \E x : x = open'[s] /\ AloneOK(x)'
  <2>1. PICK x : x = open[s] /\ AloneOK(x)
    BY DEF AloneInv
  <2>2. AloneOK(x)' /\ AloneOK(q)'
    BY <2>1, AloneStays DEF Reads
  <2>3. x = open'[s] \/ q = open'[s]
    BY <1>1, <2>1 DEF Reads
  <2>4. QED
    BY <2>2, <2>3
<1>3. QED
  BY <1>2 DEF AloneInv

\* A write leaves no other request alone.
LEMMA WritingKeepsAlone ==
    ASSUME OverlapInv, \A s \in Requests : open'[s] = Done \/ open'[s] = Overlapped[s]
    PROVE  AloneInv'
<1>1. ASSUME NEW s \in Requests
      PROVE  \E x : x = open'[s] /\ AloneOK(x)'
  <2>1. PICK x : x = open'[s]
    OBVIOUS
  <2>2. ~x.alone \/ x.phase \in {"new", "done"}
    <3>1. RequestShape(open[s])
      BY DEF OverlapInv, RequestOK
    <3>2. Done.phase = "done"
      BY DoneShape
    <3>3. Overlapped[s] =
            IF InFlight(s) THEN [open[s] EXCEPT !.alone = FALSE] ELSE open[s]
      BY DEF Overlapped
    <3>4. CASE InFlight(s)
      <4>1. [open[s] EXCEPT !.alone = FALSE].alone = FALSE
        BY <3>1 DEF RequestShape
      <4>2. QED
        BY <2>1, <3>2, <3>3, <3>4, <4>1
    <3>5. CASE ~InFlight(s)
      BY <2>1, <3>2, <3>3, <3>5 DEF InFlight
    <3>6. QED
      BY <3>4, <3>5
  <2>3. QED
    BY <2>1, <2>2 DEF AloneOK
<1>2. QED
  BY <1>1 DEF AloneInv

\* The second reads of a request that is alone read what it would read now.
LEMMA ReversalReadsNow ==
    ASSUME OverlapInv, AloneInv, NEW r \in Requests, ReadAllocated(r)
    PROVE  \E q : AloneOK(q) /\ Reads(r, q)
<1> DEFINE old == open[r]
<1>1. PICK q : /\ ReversalReady(q, old.payment.alloc)
               /\ q.drop = old.drop /\ q.alone = old.alone
               /\ Reads(r, q)
  BY ReadAllocatedReads
<1>2. old.phase = "found" /\ AloneOK(old)
  BY DEF AloneInv, ReadAllocated
<1> HIDE DEF old
<1>3. ASSUME old.alone
      PROVE  ReadsNow(q)
  <2>1. ReadsNow(old)
    BY <1>2, <1>3 DEF AloneOK
  <2>2. PICK p \in PaymentIds : FoundReady(old, p)
    BY <1>2, <2>1 DEF ReadsNow, ReservedReady, EditReady, EditOf, DeleteReady, RepairReady,
                      ReversalAlone, ReversalReady, PaymentAlone, PaymentReady, Asks
  <2>3. p \in DOMAIN payments /\ old.drop = {p} /\ old.payment = payments[p]
    BY <2>2 DEF FoundReady
  <2>4. ReversalAlone(q)
    BY <1>1, <2>3 DEF ReversalAlone
  <2>5. QED
    BY <2>4 DEF ReadsNow
<1>4. AloneOK(q)
  BY <1>1, <1>3 DEF AloneOK
<1>5. QED
  BY <1>1, <1>4

\* A payment that no write has overtaken allocates from the items as they are.
LEMMA AllocationReadsNow ==
    ASSUME OverlapInv, AloneInv, NEW r \in Requests, NEW alloc,
           open[r].phase = "reserved", Allocate(r, alloc),
           \/ Requestable(alloc, open[r].payment.person)
           \/ \E stop \in ItemIds \cup {None} :
                /\ alloc = AutoAllocation(open[r].payment.person, open[r].payment.amount, stop)
                /\ ~AutoAllocationFails(open[r].payment.person, open[r].payment.amount, stop)
    PROVE  \E q : AloneOK(q) /\ Reads(r, q)
<1> DEFINE old == open[r]
           draft == old.payment
<1>1. PICK q, p : /\ PaymentReady(q, p, draft, alloc)
                  /\ q.reserved = old.reserved /\ q.alone = old.alone
                  /\ Reads(r, q)
  BY AllocateReads
<1>2. old.phase = "reserved" /\ AloneOK(old) /\ draft \in Payment
  BY AllocateReads DEF AloneInv
<1>3. \/ Requestable(alloc, draft.person)
      \/ \E stop \in ItemIds \cup {None} :
           /\ alloc = AutoAllocation(draft.person, draft.amount, stop)
           /\ ~AutoAllocationFails(draft.person, draft.amount, stop)
  OBVIOUS
<1> HIDE DEF old
<1>4. ASSUME old.alone
      PROVE  ReadsNow(q)
  <2>1. ReadsNow(old)
    BY <1>2, <1>4 DEF AloneOK
  <2>2. PICK d \in Payment : ReservedReady(old, d)
    BY <1>2, <2>1 DEF ReadsNow, FoundReady, EditReady, EditOf, DeleteReady, RepairReady,
                      ReversalAlone, ReversalReady, PaymentAlone, PaymentReady, Asks
  <2>3. /\ d = draft /\ old.reserved = ItemsOf(draft.person)
        /\ CanLinkPayment(draft.link, draft.amount)
    BY <2>2 DEF ReservedReady
  <2>4. PaymentAsked(q, draft, alloc)
    BY <1>1, <1>3, <2>3 DEF PaymentAsked
  <2>5. alloc \in Allocations /\ p \in PaymentIds
    BY <1>1 DEF PaymentReady, Allocatable
  <2>6. PaymentAlone(q)
    BY <1>1, <1>2, <2>4, <2>5 DEF PaymentAlone
  <2>7. QED
    BY <2>6 DEF ReadsNow
<1>5. AloneOK(q)
  BY <1>1, <1>4 DEF AloneOK
<1>6. QED
  BY <1>1, <1>5

\* Every step keeps the invariant.
LEMMA StepKeepsAloneInv ==
    ASSUME OverlapInv, AloneInv, [OverlapNext]_allVars
    PROVE  AloneInv'
<1>1. ASSUME NEW r \in Requests, \E q : AloneOK(q) /\ Reads(r, q)
      PROVE  AloneInv'
  BY <1>1, ReadingKeepsAlone
<1>2. ASSUME NEW r \in Requests, NEW q, ReadsNow(q), Reads(r, q)
      PROVE  AloneInv'
  BY <1>1, <1>2 DEF AloneOK
<1>3. ASSUME NEW r \in Requests, NEW i \in ItemIds, NEW total \in Amounts,
             NEW paid \in 0..MaxAmount, NEW status \in SentStatuses \cup {None},
             NEW link \in TxIds \cup {None},
             StartEdit(r, i, total, paid, status, link)
      PROVE  AloneInv'
  BY <1>2, <1>3, StartEditReads DEF ReadsNow
<1>4. ASSUME NEW r \in Requests, NEW i \in ItemIds, StartDelete(r, i)
      PROVE  AloneInv'
  BY <1>2, <1>4, StartDeleteReads DEF ReadsNow
<1>5. ASSUME NEW r \in Requests, NEW p \in PaymentIds, FindPayment(r, p)
      PROVE  AloneInv'
  BY <1>2, <1>5, FindPaymentReads DEF ReadsNow
<1>6. ASSUME NEW r \in Requests, ReadAllocated(r)
      PROVE  AloneInv'
  BY <1>1, <1>6, ReversalReadsNow
<1>7. ASSUME NEW r \in Requests, NEW label \in Labels, NEW amount \in Amounts,
             NEW link \in TxIds \cup {None}, NEW date \in Dates,
             StartPayment(r, label, amount, link, date)
      PROVE  AloneInv'
  <2> DEFINE draft == Draft(label, amount, link, date)
  <2>1. PICK q : ReservedReady(q, draft) /\ Reads(r, q)
    BY <1>7, StartPaymentReads
  <2>2. draft \in Payment
    BY DraftShape
  <2> HIDE DEF draft
  <2>3. ReadsNow(q)
    BY <2>1, <2>2 DEF ReadsNow
  <2>4. QED
    BY <1>2, <2>1, <2>3
<1>8. ASSUME NEW r \in Requests, NEW stop \in ItemIds \cup {None},
             AllocateOldestFirst(r, stop)
      PROVE  AloneInv'
  <2> DEFINE alloc == AutoAllocation(open[r].payment.person, open[r].payment.amount, stop)
  <2>1. /\ open[r].phase = "reserved" /\ Allocate(r, alloc)
        /\ ~AutoAllocationFails(open[r].payment.person, open[r].payment.amount, stop)
    BY <1>8 DEF AllocateOldestFirst
  <2>2. PICK a : a = alloc
    OBVIOUS
  <2>3. \E x \in ItemIds \cup {None} :
            /\ a = AutoAllocation(open[r].payment.person, open[r].payment.amount, x)
            /\ ~AutoAllocationFails(open[r].payment.person, open[r].payment.amount, x)
    BY <2>1, <2>2
  <2>4. Allocate(r, a)
    BY <2>1, <2>2
  <2>5. \E q : AloneOK(q) /\ Reads(r, q)
    BY <2>1, <2>3, <2>4, AllocationReadsNow
  <2>6. QED
    BY <1>1, <2>5
<1>9. ASSUME NEW r \in Requests, NEW alloc \in Allocations, AllocateAsAsked(r, alloc)
      PROVE  AloneInv'
  BY <1>1, <1>9, AllocationReadsNow DEF AllocateAsAsked
<1>10. ASSUME NEW r \in Requests, StartRepair(r)
       PROVE  AloneInv'
  BY <1>2, <1>10, StartRepairReads DEF ReadsNow
<1>11. ASSUME NEW r \in Requests, Abort(r)
       PROVE  AloneInv'
  <2>1. Reads(r, Done) /\ AloneOK(Done)
    BY <1>11, DoneShape DEF Abort, Reads, AloneOK
  <2>2. QED
    BY <1>1, <2>1
<1>12. ASSUME NEW r \in Requests, Commit(r)
       PROVE  AloneInv'
  <2>1. open' = [Overlapped EXCEPT ![r] = Done] /\ DOMAIN Overlapped = Requests
    BY <1>12 DEF Commit, Overlapped
  <2>2. \A s \in Requests : open'[s] = Done \/ open'[s] = Overlapped[s]
    BY <2>1
  <2>3. QED
    BY <2>2, WritingKeepsAlone
<1>13. ASSUME open' = Overlapped
       PROVE  AloneInv'
  BY <1>13, WritingKeepsAlone
<1>14. ASSUME UNCHANGED allVars
       PROVE  AloneInv'
  <2>1. UNCHANGED vars /\ open' = open
    BY <1>14 DEF allVars
  <2>2. QED
    BY <2>1, AloneStays DEF AloneInv
<1>15. ASSUME NEW label \in Labels, NEW total \in Amounts, NEW paid \in 0..MaxAmount,
              NEW link \in TxIds \cup {None}, NEW due \in Dates \cup {None},
              Create(label, total, paid, link, due)
       PROVE  AloneInv'
  BY <1>13, <1>15 DEF Create
<1>16. ASSUME Midnight
       PROVE  AloneInv'
  BY <1>13, <1>16 DEF Midnight
<1>17. QED
  BY <1>3, <1>4, <1>5, <1>6, <1>7, <1>8, <1>9, <1>10, <1>11, <1>12, <1>14, <1>15, <1>16,
     Zenon DEF OverlapNext

\* It holds before any request.
LEMMA InitAloneInv == OverlapInit => AloneInv
BY DoneShape DEF OverlapInit, AloneInv, AloneOK

-----------------------------------------------------------------------------
(* Committing alone is the handler in one step                             *)

\* A row written as it was made of the current row, on the day it was made.
LEMMA WrittenAsMade ==
    ASSUME RowsOK, NEW q, NEW i \in DOMAIN items, NEW after \in LooseItem,
           q.before[i] = items[i], q.after[i] = after, after.updated = today
    PROVE  CommitRow(q, i) = after
<1> DEFINE current == items[i]
<1>1. current \in LooseItem
  BY DEF RowsOK
<1>2. CommitRow(q, i) = Merged(current, current, after)
  BY DEF CommitRow
<1> HIDE DEF current
<1>3. Merged(current, current, after) = [after EXCEPT !.updated = today]
  BY <1>1, MergedAlone
<1>4. [after EXCEPT !.updated = today] = after
  BY DEF LooseItem
<1>5. QED
  BY <1>2, <1>3, <1>4

\* What a commit without repayments makes of the tables.
LEMMA CommitWithoutPayment ==
    ASSUME OverlapInv, NEW r \in Requests, Commit(r), NoPayment(open[r])
    PROVE  payments' = payments /\ UNCHANGED <<txs, today>>
<1>1. payments = [p \in DOMAIN payments |-> payments[p]]
  BY DEF OverlapInv, RowsOK
<1>2. QED
  BY <1>1, CommitIs, NoRowsEmpty DEF NoPayment

\* A request that no write has overtaken commits as one step of OwedLedger: an edit,
LEMMA EditCommitted ==
    ASSUME OverlapInv, NEW r \in Requests, Commit(r), EditReady(open[r])
    PROVE  OwedStep
<1> DEFINE q == open[r]
<1>1. PICK i \in DOMAIN items, total \in Amounts, paid \in 0..MaxAmount,
           status \in SentStatuses \cup {None}, link \in TxIds \cup {None} :
        EditOf(q, i, total, paid, status, link)
  BY DEF EditReady
<1> DEFINE old == items[i]
           new == EditedItem(old, old.person, total, paid, status, link)
           type == UpdateEventType(old.status, new.status)
           same == /\ new.total = old.total
                   /\ new.paid = old.paid
                   /\ new.status = old.status
<1>2. RowsOK /\ i \in ItemIds /\ old \in LooseItem /\ today \in Dates /\ old.person \in Labels
  BY DEF OverlapInv, RowsOK, LooseItem
<1>3. /\ Live(i) /\ paid <= total /\ link \in DOMAIN txs \cup {None}
      /\ CanLinkItem(IF link = None THEN old.link ELSE link, total, new.status, {i})
      /\ q.before = [j \in {i} |-> old] /\ q.after = [j \in {i} |-> new]
      /\ q.events = [j \in IF same THEN {} ELSE {i} |-> EventOf(None, type, new)]
      /\ NoPayment(q)
  BY <1>1 DEF EditOf, Asks
<1>4. new \in LooseItem /\ new.updated = today
  BY <1>2, LooseEdited
<1>5. /\ items' = [j \in DOMAIN items |->
                      IF j \in DOMAIN q.after THEN CommitRow(q, j) ELSE items[j]]
      /\ log' = [j \in DOMAIN items |->
                    IF j \in DOMAIN q.events
                    THEN Recorded(log[j], CommitDate(q, j), q.events[j].event)
                    ELSE log[j]]
  BY CommitIs
<1>6. payments' = payments /\ UNCHANGED <<txs, today>>
  BY <1>3, CommitWithoutPayment
<1>7. /\ items = [j \in DOMAIN items |-> items[j]] /\ DOMAIN log = DOMAIN items
      /\ log = [j \in DOMAIN items |-> log[j]]
  BY <1>2 DEF RowsOK
<1>8. Resolves(old.person, old.person)
  BY DEF Resolves, LabelsInUse, SamePerson
<1> DEFINE S == IF same THEN {} ELSE {i}
<1>9. (same /\ S = {}) \/ (~same /\ S = {i})
  OBVIOUS
<1> DEFINE stays == same
<1> HIDE DEF q, new, type, S, stays
<1>10. CommitRow(q, i) = new
  <2>1. q.before[i] = items[i] /\ q.after[i] = new
    BY <1>3 DEF new
  <2>2. QED
    BY <1>2, <1>4, <2>1, WrittenAsMade
<1>11. items' = [items EXCEPT ![i] = new]
  BY <1>3, <1>5, <1>7, <1>10 DEF new
<1>12. log' = IF stays THEN log
              ELSE [log EXCEPT ![i] = Recorded(@, today, Snapshot(type, new))]
  <2>1. DOMAIN q.events = S /\ \A j \in S : q.events[j] = EventOf(None, type, new)
    BY <1>3 DEF S, new, type
  <2>2. CASE stays
    <3>1. S = {}
      BY <1>9, <2>2 DEF stays
    <3>2. QED
      BY <1>5, <1>7, <2>1, <2>2, <3>1
  <2>3. CASE ~stays
    <3>1. S = {i}
      BY <1>9, <2>3 DEF stays
    <3>2. /\ DOMAIN q.events = {i}
          /\ CommitDate(q, i) = today /\ q.events[i].event = Snapshot(type, new)
      BY <2>1, <3>1, EventOfShape DEF CommitDate
    <3>3. QED
      BY <1>5, <1>7, <2>3, <3>2
  <2>4. QED
    BY <2>2, <2>3
<1>13. UpdateItem(i, old.person, total, paid, status, link)
  BY <1>1, <1>2, <1>3, <1>6, <1>8, <1>11, <1>12, Zenon DEF UpdateItem, new, type, stays
<1>14. QED
  BY <1>2, <1>13 DEF OwedStep

\* a delete,
LEMMA DeleteCommitted ==
    ASSUME OverlapInv, NEW r \in Requests, Commit(r), DeleteReady(open[r])
    PROVE  OwedStep
<1> DEFINE q == open[r]
<1>1. PICK i \in DOMAIN items :
        /\ Live(i)
        /\ Asks(q, [j \in {i} |-> items[i]],
                [j \in {i} |-> [items[i] EXCEPT !.deleted = TRUE]],
                [j \in {i} |-> EventOf(today, "deleted", items[i])])
        /\ NoPayment(q)
  BY DEF DeleteReady
<1> DEFINE old == items[i]
           new == [items[i] EXCEPT !.deleted = TRUE]
           row == [items[i] EXCEPT !.deleted = TRUE, !.updated = today]
<1>2. RowsOK /\ i \in ItemIds /\ old \in LooseItem /\ today \in Dates
  BY DEF OverlapInv, RowsOK
<1>3. new \in LooseItem /\ row = [new EXCEPT !.updated = today]
  BY <1>2 DEF LooseItem
<1>4. /\ items' = [j \in DOMAIN items |->
                      IF j \in DOMAIN q.after THEN CommitRow(q, j) ELSE items[j]]
      /\ log' = [j \in DOMAIN items |->
                    IF j \in DOMAIN q.events
                    THEN Recorded(log[j], CommitDate(q, j), q.events[j].event)
                    ELSE log[j]]
  BY CommitIs
<1>5. payments' = payments /\ UNCHANGED <<txs, today>>
  BY <1>1, CommitWithoutPayment
<1>6. /\ items = [j \in DOMAIN items |-> items[j]] /\ DOMAIN log = DOMAIN items
      /\ log = [j \in DOMAIN items |-> log[j]]
  BY <1>2 DEF RowsOK
<1>7. /\ q.before = [j \in {i} |-> old] /\ q.after = [j \in {i} |-> new]
      /\ q.events = [j \in {i} |-> EventOf(today, "deleted", old)]
  BY <1>1 DEF Asks
<1> HIDE DEF q
<1>8. CommitRow(q, i) = row
  <2>1. CommitRow(q, i) = Merged(old, old, new)
    BY <1>7 DEF CommitRow
  <2> HIDE DEF old, new
  <2>2. Merged(old, old, new) = [new EXCEPT !.updated = today]
    BY <1>2, <1>3, MergedAlone
  <2>3. QED
    BY <1>3, <2>1, <2>2
<1>9. CommitDate(q, i) = today /\ q.events[i].event = Snapshot("deleted", old)
  BY <1>7, EventOfShape DEF CommitDate
<1> HIDE DEF new, row
<1>10. items' = [items EXCEPT ![i] = row]
  BY <1>4, <1>6, <1>7, <1>8
<1>11. log' = [log EXCEPT ![i] = Recorded(@, today, Snapshot("deleted", items[i]))]
  BY <1>4, <1>6, <1>7, <1>9
<1>12. DeleteItem(i)
  BY <1>1, <1>5, <1>10, <1>11 DEF DeleteItem, row
<1>13. QED
  BY <1>2, <1>12 DEF OwedStep

\* An event dated on a day of the calendar is written on that day.
LEMMA DatedEvents ==
    ASSUME NEW q, NEW i, NEW date \in Dates, NEW type, NEW item,
           q.events[i] = EventOf(date, type, item)
    PROVE  CommitDate(q, i) = date /\ q.events[i].event = Snapshot(type, item)
<1>1. date # None
  BY NoneAssumption DEF Dates
<1>2. QED
  BY <1>1, EventOfShape DEF CommitDate

\* a repair,
LEMMA RepairCommitted ==
    ASSUME OverlapInv, NEW r \in Requests, Commit(r), RepairReady(open[r])
    PROVE  OwedStep
<1> DEFINE q == open[r]
<1>1. /\ Repairable # {} /\ NoPayment(q) /\ q.before = NoRows /\ q.after = NoRows
      /\ q.events = [i \in Repairable |-> EventOf(RepairDate(i), "payment", items[i])]
      /\ RowsOK
  BY DEF RepairReady, Asks, OverlapInv
<1>2. /\ items' = [j \in DOMAIN items |->
                      IF j \in DOMAIN q.after THEN CommitRow(q, j) ELSE items[j]]
      /\ log' = [j \in DOMAIN items |->
                    IF j \in DOMAIN q.events
                    THEN Recorded(log[j], CommitDate(q, j), q.events[j].event)
                    ELSE log[j]]
  BY CommitIs
<1>3. payments' = payments /\ UNCHANGED <<txs, today>>
  BY <1>1, CommitWithoutPayment
<1>4. /\ items = [j \in DOMAIN items |-> items[j]] /\ DOMAIN log = DOMAIN items
  BY <1>1 DEF RowsOK
<1> HIDE DEF q
<1>5. items' = items
  BY <1>1, <1>2, <1>4, NoRowsEmpty
<1>6. ASSUME NEW i \in Repairable
      PROVE  /\ CommitDate(q, i) = RepairDate(i)
             /\ q.events[i].event = Snapshot("payment", items[i])
  <2>1. RepairDate(i) \in Dates
    BY <1>1, <1>6, LooseRepairDate DEF Repairable, IntegrityIssues
  <2>2. q.events[i] = EventOf(RepairDate(i), "payment", items[i])
    BY <1>1, <1>6
  <2>3. QED
    BY <2>1, <2>2, DatedEvents
<1>7. DOMAIN q.events = Repairable
  BY <1>1
<1>8. log' = RepairedLog
  BY <1>2, <1>4, <1>6, <1>7 DEF RepairedLog
<1>9. RepairLog
  BY <1>1, <1>3, <1>5, <1>8 DEF RepairLog
<1>10. QED
  BY <1>9 DEF OwedStep

\* the reversal of a payment,
LEMMA ReversalCommitted ==
    ASSUME OverlapInv, NEW r \in Requests, Commit(r), ReversalAlone(open[r])
    PROVE  OwedStep
<1> DEFINE q == open[r]
<1>1. PICK p \in PaymentIds :
        /\ p \in DOMAIN payments /\ q.drop = {p}
        /\ ReversalReady(q, payments[p].alloc)
  BY DEF ReversalAlone
<1> DEFINE alloc == payments[p].alloc
           paying == PaidItems(alloc)
           After(i) == ReversedItem(alloc, i)
<1>2. RowsOK /\ alloc \in Allocations /\ today \in Dates
  BY <1>1 DEF OverlapInv, RowsOK, Payment
<1>3. /\ Reversible(alloc) /\ DOMAIN q.add = {}
      /\ q.before = [i \in paying |-> items[i]] /\ q.after = [i \in paying |-> After(i)]
      /\ q.events = [i \in paying |-> EventOf(today, "payment_reversed", After(i))]
  BY <1>1 DEF ReversalReady, Asks
<1>4. /\ items' = [j \in DOMAIN items |->
                      IF j \in DOMAIN q.after THEN CommitRow(q, j) ELSE items[j]]
      /\ log' = [j \in DOMAIN items |->
                    IF j \in DOMAIN q.events
                    THEN Recorded(log[j], CommitDate(q, j), q.events[j].event)
                    ELSE log[j]]
      /\ payments' = [x \in (DOMAIN payments \ q.drop) \cup DOMAIN q.add |->
                         IF x \in DOMAIN q.add THEN q.add[x] ELSE payments[x]]
      /\ UNCHANGED <<txs, today>>
  BY CommitIs
<1>5. DOMAIN log = DOMAIN items /\ DOMAIN items \subseteq ItemIds
  BY <1>2 DEF RowsOK
<1> HIDE DEF q, alloc
<1>6. \A i \in DOMAIN items : i \in paying <=> alloc[i] > 0
  BY <1>5 DEF PaidItems
<1>7. ASSUME NEW i \in DOMAIN items, i \in paying
      PROVE  CommitRow(q, i) = After(i)
  <2> DEFINE old == items[i]
             delta == 0 - alloc[i]
             new == After(i)
  <2>1. old \in LooseItem
    BY <1>2 DEF RowsOK
  <2>2. delta \in Int /\ alloc[i] > 0
    BY <1>2, <1>5, <1>6, <1>7, BoundsAssumption DEF Allocations
  <2>3. new = Adjusted(old, delta)
    BY <2>2 DEF ReversedItem
  <2>4. q.before[i] = old /\ q.after[i] = new
    BY <1>3, <1>7
  <2> HIDE DEF delta, new
  <2>5. Adjusted(old, delta) \in LooseItem /\ Adjusted(old, delta).updated = today
    <3> HIDE DEF old
    <3>1. QED
      BY <1>2, <2>1, <2>2, LooseAdjusted
  <2>6. CommitRow(q, i) = new
    BY <1>2, <2>3, <2>4, <2>5, WrittenAsMade
  <2>7. QED
    BY <2>6 DEF new
<1>8. ASSUME NEW i \in DOMAIN items
      PROVE  items'[i] = After(i)
  <2>1. CASE i \in paying
    BY <1>3, <1>4, <1>7, <2>1
  <2>2. CASE i \notin paying
    <3>1. After(i) = items[i]
      BY <1>6, <2>2 DEF ReversedItem
    <3>2. items'[i] = items[i]
      BY <1>3, <1>4, <2>2
    <3>3. QED
      BY <3>1, <3>2
  <2>3. QED
    BY <2>1, <2>2
<1>9. ASSUME NEW i \in paying
      PROVE  /\ CommitDate(q, i) = today
             /\ q.events[i].event = Snapshot("payment_reversed", After(i))
  <2>1. q.events[i] = EventOf(today, "payment_reversed", After(i))
    BY <1>3, <1>9
  <2>2. QED
    BY <1>2, <2>1, DatedEvents
<1>10. DOMAIN q.events = paying
  BY <1>3
<1> HIDE DEF paying, After
<1>11. items' = [i \in DOMAIN items |-> After(i)]
  BY <1>4, <1>8
<1>12. log' = [i \in DOMAIN log |->
                  IF alloc[i] > 0
                  THEN Recorded(log[i], today, Snapshot("payment_reversed", After(i)))
                  ELSE log[i]]
  BY <1>4, <1>5, <1>6, <1>9, <1>10
<1>13. payments' = [x \in DOMAIN payments \ {p} |-> payments[x]]
  BY <1>1, <1>3, <1>4 DEF q
<1>14. DeletePayment(p)
  BY <1>1, <1>3, <1>4, <1>11, <1>12, <1>13 DEF DeletePayment, ReversalDate, alloc, After
<1>15. QED
  BY <1>1, <1>14 DEF OwedStep

\* With one spelling per person nothing is renamed by a repayment.
LEMMA NothingRenamed ==
    ASSUME RowsOK, NEW label \in Labels
    PROVE  /\ Resolves(label, label)
           /\ NormalisedPayments(label) = payments
           /\ \A i \in DOMAIN items \ ItemsOf(label) : NormalisedItems(label)[i] = items[i]
           /\ \A i \in ItemsOf(label) : NormalisedItems(label)[i].updated = today
<1>1. \A i \in DOMAIN items : items[i] \in LooseItem
  BY DEF RowsOK
<1>2. \A p \in DOMAIN payments : payments[p] \in Payment
  BY DEF RowsOK
<1>3. LabelsInUse \subseteq Labels
  BY <1>1, <1>2 DEF LabelsInUse, LooseItem, Payment
<1>4. Resolves(label, label)
  <2>1. \A l \in LabelsInUse : SamePerson(l, label) => l = label
    BY <1>3, OneSpellingAssumption
  <2>2. QED
    BY <2>1 DEF Resolves
<1>5. ASSUME NEW p \in DOMAIN payments, SamePerson(payments[p].person, label)
      PROVE  [payments[p] EXCEPT !.person = label] = payments[p]
  <2>1. payments[p].person = label
    BY <1>2, <1>5, OneSpellingAssumption DEF Payment
  <2>2. QED
    BY <1>2, <2>1 DEF Payment
<1>6. payments = [p \in DOMAIN payments |-> payments[p]]
  BY DEF RowsOK
<1>7. NormalisedPayments(label) = payments
  BY <1>5, <1>6 DEF NormalisedPayments
<1>8. \A i \in DOMAIN items \ ItemsOf(label) : NormalisedItems(label)[i] = items[i]
  BY DEF NormalisedItems, ItemsOf
<1>9. \A i \in ItemsOf(label) : NormalisedItems(label)[i].updated = today
  BY <1>1 DEF NormalisedItems, ItemsOf, LooseItem
<1>10. QED
  BY <1>4, <1>7, <1>8, <1>9

\* Every row a repayment settles is dated on the day it is read.
LEMMA SettledToday ==
    ASSUME RowsOK, NEW label \in Labels, NEW alloc \in Allocations, NEW i \in DOMAIN items,
           i \in ItemsOf(label) \/ alloc[i] > 0
    PROVE  SettledItem(label, alloc, i).updated = today
<1> DEFINE old == NormalisedItems(label)[i]
           delta == alloc[i]
<1>1. old \in LooseItem /\ today \in Dates
  BY LooseNormalised DEF RowsOK
<1>2. delta \in Nat
  BY BoundsAssumption DEF RowsOK, Allocations
<1>3. SettledItem(label, alloc, i) = IF delta > 0 THEN Adjusted(old, delta) ELSE old
  BY DEF SettledItem
<1>4. delta > 0 \/ old.updated = today
  BY NothingRenamed
<1> HIDE DEF old, delta
<1>5. Adjusted(old, delta).updated = today
  <2>1. delta \in Int
    BY <1>2
  <2>2. QED
    BY <1>1, <2>1, LooseAdjusted
<1>6. QED
  BY <1>3, <1>4, <1>5

\* The rows a repayment writes alone are those of the handler in one step.
LEMMA PaymentSettles ==
    ASSUME OverlapInv, NEW r \in Requests, Commit(r), NEW p \in PaymentIds,
           NEW draft \in Payment, NEW alloc \in Allocations,
           PaymentReady(open[r], p, draft, alloc),
           open[r].reserved = ItemsOf(draft.person)
    PROVE  /\ Settle(draft.person, draft.amount, draft.link, draft.date, alloc)
           /\ UNCHANGED <<txs, today>>
<1> DEFINE q == open[r]
           label == draft.person
           paying == PaidItems(alloc)
           read == ReadFor(q, alloc)
           After(i) == SettledItem(label, alloc, i)
           added == [draft EXCEPT !.alloc = alloc]
<1>1. /\ RowsOK /\ label \in Labels /\ draft.date \in Dates
  BY DEF OverlapInv, Payment
<1>2. /\ p \notin DOMAIN payments /\ Allocatable(alloc, draft.amount)
      /\ q.before = [i \in read |-> items[i]] /\ q.after = [i \in read |-> After(i)]
      /\ q.events = [i \in paying |-> EventOf(draft.date, "payment", After(i))]
      /\ q.drop = {} /\ q.add = [x \in {p} |-> added]
  BY DEF PaymentReady, Asks
<1>3. /\ items' = [j \in DOMAIN items |->
                      IF j \in DOMAIN q.after THEN CommitRow(q, j) ELSE items[j]]
      /\ log' = [j \in DOMAIN items |->
                    IF j \in DOMAIN q.events
                    THEN Recorded(log[j], CommitDate(q, j), q.events[j].event)
                    ELSE log[j]]
      /\ payments' = [x \in (DOMAIN payments \ q.drop) \cup DOMAIN q.add |->
                         IF x \in DOMAIN q.add THEN q.add[x] ELSE payments[x]]
      /\ UNCHANGED <<txs, today>>
  BY CommitIs
<1>4. DOMAIN log = DOMAIN items /\ DOMAIN items \subseteq ItemIds
  BY <1>1 DEF RowsOK
<1>5. \A i \in DOMAIN items : i \in paying <=> alloc[i] > 0
  BY <1>4 DEF PaidItems
<1>6. read = ItemsOf(label) \cup paying
  BY DEF ReadFor
<1>7. added = [person |-> label, amount |-> draft.amount, link |-> draft.link,
               date |-> draft.date, alloc |-> alloc]
  BY DEF Payment
<1> HIDE DEF q, label, read, added
<1>8. ASSUME NEW i \in DOMAIN items, i \in read
      PROVE  CommitRow(q, i) = After(i)
  <2> DEFINE new == After(i)
  <2>1. alloc[i] \in Nat
    BY <1>4, BoundsAssumption DEF Allocations
  <2>2. new \in LooseItem
    BY <1>1, <2>1, LooseSettled
  <2>3. new.updated = today
    BY <1>1, <1>5, <1>6, <1>8, SettledToday
  <2>4. q.before[i] = items[i] /\ q.after[i] = new
    BY <1>2, <1>8
  <2> HIDE DEF new
  <2>5. CommitRow(q, i) = new
    BY <1>1, <2>2, <2>3, <2>4, WrittenAsMade
  <2>6. QED
    BY <2>5 DEF new
<1>9. ASSUME NEW i \in DOMAIN items
      PROVE  items'[i] = After(i)
  <2>1. CASE i \in read
    BY <1>2, <1>3, <1>8, <2>1
  <2>2. CASE i \notin read
    <3>1. After(i) = NormalisedItems(label)[i] /\ i \notin ItemsOf(label)
      BY <1>5, <1>6, <2>2 DEF SettledItem
    <3>2. NormalisedItems(label)[i] = items[i]
      BY <1>1, <3>1, NothingRenamed
    <3>3. items'[i] = items[i]
      BY <1>2, <1>3, <2>2
    <3>4. QED
      BY <3>1, <3>2, <3>3
  <2>3. QED
    BY <2>1, <2>2
<1>10. ASSUME NEW i \in paying
       PROVE  /\ CommitDate(q, i) = draft.date
              /\ q.events[i].event = Snapshot("payment", After(i))
  <2>1. q.events[i] = EventOf(draft.date, "payment", After(i))
    BY <1>2, <1>10
  <2>2. QED
    BY <1>1, <2>1, DatedEvents
<1>11. DOMAIN q.events = paying
  BY <1>2
<1>12. payments = NormalisedPayments(label)
  BY <1>1, NothingRenamed
<1> HIDE DEF paying, After
<1>13. items' = [i \in DOMAIN items |-> After(i)]
  BY <1>3, <1>9
<1>14. log' = [i \in DOMAIN log |->
                  IF alloc[i] > 0
                  THEN Recorded(log[i], draft.date, Snapshot("payment", After(i)))
                  ELSE log[i]]
  BY <1>3, <1>4, <1>5, <1>10, <1>11
<1>15. payments' = [x \in DOMAIN payments \cup {p} |->
                       IF x = p THEN added ELSE NormalisedPayments(label)[x]]
  BY <1>2, <1>3, <1>12
<1>16. Settle(label, draft.amount, draft.link, draft.date, alloc)
  BY <1>2, <1>7, <1>13, <1>14, <1>15 DEF Settle, After
<1>17. QED
  BY <1>3, <1>16 DEF label

\* and a payment.
LEMMA PaymentCommitted ==
    ASSUME OverlapInv, NEW r \in Requests, Commit(r), PaymentAlone(open[r])
    PROVE  OwedStep
<1> DEFINE q == open[r]
<1>1. PICK p \in PaymentIds, draft \in Payment, alloc \in Allocations :
        PaymentReady(q, p, draft, alloc) /\ PaymentAsked(q, draft, alloc)
  BY DEF PaymentAlone
<1> DEFINE label == draft.person
           amount == draft.amount
           link == draft.link
           date == draft.date
<1>2. /\ label \in Labels /\ amount \in Amounts /\ link \in TxIds \cup {None}
      /\ date \in Dates
  BY DEF Payment
<1>3. Settle(label, amount, link, date, alloc) /\ UNCHANGED <<txs, today>>
  BY <1>1, PaymentSettles DEF PaymentAsked
<1>4. Resolves(label, label)
  BY <1>2, NothingRenamed DEF OverlapInv
<1>5. Allocatable(alloc, amount) /\ CanLinkPayment(link, amount)
  BY <1>1 DEF PaymentReady, PaymentAsked
<1>6. \/ Requestable(alloc, label)
      \/ \E stop \in ItemIds \cup {None} :
            /\ alloc = AutoAllocation(label, amount, stop)
            /\ ~AutoAllocationFails(label, amount, stop)
  BY <1>1 DEF PaymentAsked
<1> HIDE DEF q, label, amount, link, date
<1>7. Requestable(alloc, label) => RecordAllocatedPayment(label, amount, link, date, alloc)
  BY <1>2, <1>3, <1>4, <1>5, Zenon DEF RecordAllocatedPayment
<1>8. ASSUME NEW stop \in ItemIds \cup {None},
             alloc = AutoAllocation(label, amount, stop),
             ~AutoAllocationFails(label, amount, stop)
      PROVE  RecordPayment(label, amount, link, date, stop)
  BY <1>2, <1>3, <1>4, <1>5, <1>8, Zenon DEF RecordPayment
<1>9. QED
  BY <1>2, <1>6, <1>7, <1>8, Zenon DEF OwedStep

\* Requests that overlap no other commit are the handlers of OwedLedger, each
\* in one step: what OwedLedger promises of one request at a time is what
\* requests find when nobody else writes.
THEOREM LoneRequestsAreAtomic == OverlapSpec => LoneRequestIsAtomic
<1>1. ASSUME OverlapInv, AloneInv, [OverlapNext]_allVars, NEW r \in Requests,
             Commits(r), open[r].alone
      PROVE  OwedStep
  <2> DEFINE q == open[r]
  <2>1. Commit(r) /\ q.phase = "ready"
    BY <1>1, CommitsOnlyBy DEF Commits
  <2>2. ReadsNow(q)
    BY <1>1, <2>1 DEF AloneInv, AloneOK
  <2>3. \/ EditReady(q) \/ DeleteReady(q) \/ RepairReady(q)
        \/ ReversalAlone(q) \/ PaymentAlone(q)
    <3> HIDE DEF q
    <3>1. QED
      BY <2>1, <2>2 DEF ReadsNow, FoundReady, ReservedReady
  <2>4. QED
    BY <1>1, <2>1, <2>3, EditCommitted, DeleteCommitted, RepairCommitted,
       ReversalCommitted, PaymentCommitted
<1>2. OverlapInv /\ AloneInv /\ [OverlapNext]_allVars =>
        [\A r \in Requests : Commits(r) /\ open[r].alone => OwedStep]_allVars
  BY <1>1
<1>3. OverlapInv /\ AloneInv /\ [OverlapNext]_allVars => AloneInv'
  BY StepKeepsAloneInv
<1>4. OverlapSpec => []AloneInv
  BY <1>3, InitAloneInv, OverlapInvariant, PTL DEF OverlapSpec
<1>5. QED
  BY <1>2, <1>4, OverlapInvariant, PTL DEF OverlapSpec, LoneRequestIsAtomic

=============================================================================
