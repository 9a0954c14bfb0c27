--------------------------- MODULE TransactionLinks ---------------------------
(***************************************************************************)
(* Transactions and the owed records linked to them: creating a            *)
(* transaction together with its owed items or its repayment, splitting an *)
(* existing one, editing it, and deleting it, with or without its links.   *)
(* Composed with every request of the owed ledger, which may come between  *)
(* the preview of a deletion and its confirmation.                         *)
(*                                                                         *)
(* Each action is one handler of TransactionService or of                  *)
(* FinancialCommandService, whose commands commit once, at their end.      *)
(***************************************************************************)
EXTENDS OwedLedger

VARIABLES
    gone,     \* ids of deleted transactions: an id is never handed out again
    preview   \* the deletion preview the client holds

linkVars == <<items, payments, log, txs, today, gone, preview>>

-----------------------------------------------------------------------------
(* Linked rows and the deletion preview                                    *)

\* All items linked to t, soft-deleted ones included.
LinkedItems(t) == {i \in DOMAIN items : items[i].link = t}

LinkedPaymentRows(t) == {p \in DOMAIN payments : payments[p].link = t}

AllocatedPayments(i) == {p \in DOMAIN payments : payments[p].alloc[i] > 0}

PaymentsOf(t) == UNION {AllocatedPayments(i) : i \in LinkedItems(t)}

\* The item rows a preview shows.
ItemReads(t) ==
    [i \in LinkedItems(t) |->
        [person |-> items[i].person, total |-> items[i].total,
         paid |-> items[i].paid, remaining |-> items[i].remaining,
         status |-> items[i].status, deleted |-> items[i].deleted,
         allocations |-> Cardinality(AllocatedPayments(i))]]

\* The linked items left out of the version, used by a mutant.
VersionOfTransactionOnly(t) == [tx |-> txs[t], items |-> DOMAIN ItemReads(t)]

\* The rows the version hashes.  It hashes update times too, so it tells
\* apart more states than this one does.
RelationshipVersion(t) ==
    [tx |-> txs[t],
     items |-> [i \in LinkedItems(t) |-> items[i]],
     payments |-> [p \in LinkedPaymentRows(t) \cup PaymentsOf(t) |-> payments[p]]]

\* A preview or a deletion of rows linked against the direction is refused.
Consistent(t) ==
    /\ LinkedItems(t) # {} => txs[t].direction = "out"
    /\ LinkedPaymentRows(t) # {} => txs[t].direction = "in"

\* Deleted items not looked for, used by a mutant.
LiveLinksOnly(t) ==
    {i \in LinkedItems(t) : Live(i)} = {} /\ LinkedPaymentRows(t) = {}

NormalDeleteAllowed(t) == LinkedItems(t) = {} /\ LinkedPaymentRows(t) = {}

\* The amount paid looked at, and not the repayments, used by a mutant.
DeleteWithOwedIgnoringAllocations(t) ==
    /\ LinkedItems(t) # {} /\ LinkedPaymentRows(t) = {}
    /\ \A i \in LinkedItems(t) : Live(i) /\ items[i].paid = 0

DeleteWithOwedAllowed(t) ==
    /\ LinkedItems(t) # {} /\ LinkedPaymentRows(t) = {}
    /\ \A i \in LinkedItems(t) : Live(i) /\ items[i].paid = 0
    /\ PaymentsOf(t) = {}

PreserveOwedAllowed(t) ==
    /\ LinkedItems(t) # {} /\ LinkedPaymentRows(t) = {}
    /\ \A i \in LinkedItems(t) : Live(i)

KnownPeople ==
    {items[i].person : i \in {j \in DOMAIN items : Live(j)}}
        \cup {payments[p].person : p \in DOMAIN payments}

-----------------------------------------------------------------------------
(* Creating transactions, alone or with owed rows                          *)

LinksInit ==
    /\ items = NoRows /\ payments = NoRows /\ log = NoRows /\ txs = NoRows
    /\ today = 1
    /\ gone = {}
    /\ preview = None

WithTx(t, tx) == [u \in DOMAIN txs \cup {t} |-> IF u = t THEN tx ELSE txs[u]]

NewTx(t, tx) ==
    /\ t \in TxIds \ (DOMAIN txs \cup gone)
    /\ txs' = WithTx(t, tx)

OwedRow == [person: Labels, total: Amounts, paid: 0..MaxAmount]

OwedRows == UNION {[S -> OwedRow] : S \in SUBSET ItemIds}

\* The items and "created" events of a command that links "rows" to t: at most
\* one row per person, each refused if the person already has one there.
AddItems(t, date, rows) ==
    \E labels \in [DOMAIN rows -> Labels] :
        LET Row(i) == NewItem(labels[i], rows[i].total, rows[i].paid, t)
        IN  /\ \A i \in DOMAIN rows :
                  /\ \A j \in DOMAIN items : j < i /\ items[j].hash # Row(i).hash
                  /\ \A j \in DOMAIN rows : Row(j).hash = Row(i).hash => j = i
                  /\ Resolves(rows[i].person, labels[i])
                  /\ rows[i].paid <= rows[i].total
            /\ items' = [i \in DOMAIN items \cup DOMAIN rows |->
                            IF i \in DOMAIN rows THEN Row(i) ELSE items[i]]
            /\ log' = [i \in DOMAIN log \cup DOMAIN rows |->
                          IF i \in DOMAIN rows
                          THEN Recorded(NoRows, date, Snapshot("created", Row(i)))
                          ELSE log[i]]

RowsTotal(rows) == MapThenSumSet(LAMBDA i : rows[i].total, DOMAIN rows)

\* POST /api/transactions, and the command that adds owed items to it.
CreateTransaction(t, tx, rows) ==
    /\ DOMAIN rows # {} => tx.direction = "out"
    /\ RowsTotal(rows) <= tx.amount
    /\ NewTx(t, tx)
    /\ AddItems(t, tx.date, rows)
    /\ UNCHANGED <<payments, today, gone, preview>>

\* The command that records a repayment with the money-in transaction.
CreateTransactionWithPayment(t, tx, asked, amount, date, stop) ==
    /\ tx.direction = "in" /\ amount <= tx.amount
    /\ NewTx(t, tx)
    /\ \E label \in Labels :
        LET alloc == AutoAllocation(label, amount, stop)
        IN  /\ Resolves(asked, label)
            /\ ~AutoAllocationFails(label, amount, stop)
            /\ Allocatable(alloc, amount)
            /\ Settle(label, amount, t, date, alloc)
    /\ UNCHANGED <<today, gone, preview>>

CreateTransactionWithAllocatedPayment(t, tx, asked, amount, date, alloc) ==
    /\ tx.direction = "in" /\ amount <= tx.amount
    /\ NewTx(t, tx)
    /\ \E label \in Labels :
        /\ Resolves(asked, label)
        /\ Requestable(alloc, label)
        /\ Allocatable(alloc, amount)
        /\ Settle(label, amount, t, date, alloc)
    /\ UNCHANGED <<today, gone, preview>>

CanSplit(t, total) ==
    /\ t \in DOMAIN txs
    /\ txs[t].direction = "out"
    /\ LinkedTotal(t, {}) + total <= txs[t].amount

\* The command that splits an existing transaction among people.
SplitTransaction(t, rows) ==
    /\ DOMAIN rows # {}
    /\ CanSplit(t, RowsTotal(rows))
    /\ \A i \in DOMAIN rows : rows[i].paid = 0
    /\ AddItems(t, txs[t].date, rows)
    /\ UNCHANGED <<payments, txs, today, gone, preview>>

\* What of a repayment sent with a row goes to the row's own item.
ShareOfRow(amount, total) == Min({amount, total})

\* The allocation of that repayment: the row's share and the extra ones.
SplitAllocation(i, share, extra) == [extra EXCEPT ![i] = share]

\* The event of the payment left out, used by a mutant.
CreatedOnly(i, label, total, t, date, share) ==
    Recorded(NoRows, txs[t].date, Snapshot("created", NewItem(label, total, 0, t)))

\* The history of a row's item once its share is paid.
SplitHistory(i, label, total, t, date, share) ==
    LET item == NewItem(label, total, 0, t)
    IN  Recorded(Recorded(NoRows, txs[t].date, Snapshot("created", item)),
                 date, Snapshot("payment", Adjusted(item, share)))

\* The same command with one row and its repayment, which is linked to a
\* money-in transaction and may pay other items of the person too.
SplitTransactionPaid(t, i, asked, total, amount, link, date, extra) ==
    \E label \in Labels, p \in PaymentIds \ DOMAIN payments :
        LET item == NewItem(label, total, 0, t)
            share == ShareOfRow(amount, total)
            alloc == SplitAllocation(i, share, extra)
            payment == [person |-> label, amount |-> amount, link |-> link,
                        date |-> date, alloc |-> alloc]
        IN  /\ i \in ItemIds
            /\ \A j \in DOMAIN items : j < i /\ items[j].hash # item.hash
            /\ Resolves(asked, label)
            /\ CanSplit(t, total)
            /\ link \in DOMAIN txs /\ CanLinkPayment(link, amount)
            /\ extra[i] = 0
            /\ Allocatable(extra, amount - share)
            /\ (\E j \in ItemIds : extra[j] > 0) => Requestable(extra, label)
            /\ items' = [j \in DOMAIN items \cup {i} |->
                            IF j = i THEN Adjusted(item, share)
                            ELSE SettledItem(label, alloc, j)]
            /\ payments' = [q \in DOMAIN payments \cup {p} |->
                               IF q = p THEN payment
                               ELSE NormalisedPayments(label)[q]]
            /\ log' = [j \in DOMAIN log \cup {i} |->
                          IF j = i THEN SplitHistory(i, label, total, t, date, share)
                          ELSE IF alloc[j] > 0
                          THEN Recorded(log[j], date,
                                   Snapshot("payment", SettledItem(label, alloc, j)))
                          ELSE log[j]]
            /\ UNCHANGED <<txs, today, gone, preview>>

-----------------------------------------------------------------------------
(* Editing and deleting transactions                                       *)

\* PATCH /api/transactions/{id}: the linked owed records are not looked at.
UpdateTransaction(t, tx) ==
    /\ t \in DOMAIN txs
    /\ txs' = [txs EXCEPT ![t] = tx]
    /\ UNCHANGED <<items, payments, log, today, gone, preview>>

RemoveTx(t) ==
    /\ txs' = [u \in DOMAIN txs \ {t} |-> txs[u]]
    /\ gone' = gone \cup {t}

\* DELETE /api/transactions/{id}
DeleteTransaction(t) ==
    /\ t \in DOMAIN txs
    /\ NormalDeleteAllowed(t)
    /\ RemoveTx(t)
    /\ UNCHANGED <<items, payments, log, today, preview>>

\* GET /api/transactions/{id}/deletion-preview
PreviewDeletion(t) ==
    /\ t \in DOMAIN txs
    /\ Consistent(t)
    /\ preview' = [tx |-> t, version |-> RelationshipVersion(t),
                   shown |-> ItemReads(t)]
    /\ UNCHANGED <<items, payments, log, txs, today, gone>>

\* The confirmation carries the version the client was shown.
Confirms(t) ==
    /\ t \in DOMAIN txs
    /\ preview # None
    /\ preview.tx = t
    /\ Consistent(t)
    /\ preview.version = RelationshipVersion(t)

DeletedRow(item) ==
    [item EXCEPT !.link = None, !.hash = None, !.deleted = TRUE, !.updated = today]

PreservedRow(item, label) ==
    [item EXCEPT !.person = label, !.link = None, !.hash = None, !.updated = today]

\* The linked items become "rows", and each of them gets an event.
Unlink(t, rows, type) ==
    /\ items' = [i \in DOMAIN items |-> IF i \in DOMAIN rows THEN rows[i] ELSE items[i]]
    /\ log' = [i \in DOMAIN log |->
                  IF i \in DOMAIN rows
                  THEN Recorded(log[i], today, Snapshot(type, rows[i]))
                  ELSE log[i]]
    /\ RemoveTx(t)
    /\ preview' = None
    /\ UNCHANGED <<payments, today>>

\* The deletion command, strategy "delete_with_owed".
DeleteWithOwed(t) ==
    /\ Confirms(t)
    /\ DeleteWithOwedAllowed(t)
    /\ Unlink(t, [i \in LinkedItems(t) |-> DeletedRow(items[i])], "deleted")

\* Strategy "preserve_owed": the items go to a person the ledger knows.
PreserveOwed(t, asked) ==
    /\ Confirms(t)
    /\ PreserveOwedAllowed(t)
    /\ \E label \in KnownPeople :
        /\ SamePerson(label, asked)
        /\ Unlink(t, [i \in LinkedItems(t) |-> PreservedRow(items[i], label)], "adjusted")

-----------------------------------------------------------------------------

TransactionStep ==
    \/ \E t \in TxIds, tx \in Transaction, rows \in OwedRows :
            CreateTransaction(t, tx, rows)
    \/ \E t \in TxIds, tx \in Transaction, asked \in Labels, amount \in Amounts,
          date \in Dates, stop \in ItemIds \cup {None} :
            CreateTransactionWithPayment(t, tx, asked, amount, date, stop)
    \/ \E t \in TxIds, tx \in Transaction, asked \in Labels, amount \in Amounts,
          date \in Dates, alloc \in Allocations :
            CreateTransactionWithAllocatedPayment(t, tx, asked, amount, date, alloc)
    \/ \E t \in TxIds, rows \in OwedRows : SplitTransaction(t, rows)
    \/ \E t \in TxIds, i \in ItemIds, asked \in Labels, total \in Amounts,
          amount \in Amounts, link \in TxIds, date \in Dates, extra \in Allocations :
            SplitTransactionPaid(t, i, asked, total, amount, link, date, extra)
    \/ \E t \in TxIds, tx \in Transaction : UpdateTransaction(t, tx)
    \/ \E t \in TxIds : DeleteTransaction(t)
    \/ \E t \in TxIds : PreviewDeletion(t)
    \/ \E t \in TxIds : DeleteWithOwed(t)
    \/ \E t \in TxIds, asked \in Labels : PreserveOwed(t, asked)

LinksNext ==
    \/ TransactionStep
    \/ (OwedStep \/ Tick) /\ UNCHANGED <<gone, preview>>

LinksSpec == LinksInit /\ [][LinksNext]_linkVars

-----------------------------------------------------------------------------
(* Properties                                                              *)

\* No owed item and no repayment, live or deleted, ever points at a
\* transaction that is gone: the restricting foreign keys are never hit.
LinksResolve ==
    /\ \A i \in DOMAIN items : items[i].link \in DOMAIN txs \cup {None}
    /\ \A p \in DOMAIN payments : payments[p].link \in DOMAIN txs \cup {None}

\* A deletion that takes linked items along acts on exactly the rows its
\* preview showed: whatever another request changed in between refuses it.
DeletionMatchesPreview ==
    [][\A t \in DOMAIN txs \ DOMAIN txs' :
          LinkedItems(t) # {} =>
              /\ preview # None
              /\ preview.tx = t
              /\ preview.shown = ItemReads(t)]_linkVars

\* No deletion of a transaction takes along an item somebody paid for, even
\* one whose amount paid was edited back to zero.
NoPaidItemSwept ==
    [][\A i \in DOMAIN items :
          Live(i) /\ items'[i].deleted /\ items[i].link \notin DOMAIN txs' \cup {None}
              => items[i].paid = 0 /\ AllocatedTo(i) = 0]_linkVars

=============================================================================
