------------------------------ MODULE OwedLedger ------------------------------
(***************************************************************************)
(* The "money owed to me" ledger of one user: owed items, the repayments   *)
(* people make, how each repayment is allocated to items, and the dated    *)
(* event log every change of an item writes.                               *)
(*                                                                         *)
(* Each action is one request handled by OwedService, from its guards to   *)
(* its commit: the handler runs in one database transaction and rolls back *)
(* on any error, so a refused request is a step that is not taken.  What   *)
(* happens when two requests overlap is the subject of OwedOverlap.        *)
(*                                                                         *)
(* Rows are partial functions from ids to records, their DOMAIN the ids in *)
(* the table.  Amounts are whole cents.  A person label is a pair          *)
(* <<person, spelling>>: spellings of one person differ by case or spaces  *)
(* only.  The event log keeps, per item and effective date, the last event *)
(* written for that date, because every reader orders events by            *)
(* (effective_date, id) and uses the last one up to some date.             *)
(***************************************************************************)
EXTENDS Integers, FiniteSets, FiniteSetsExt

CONSTANTS
    People,      \* people who owe the user money
    Spellings,   \* ranks of the spellings of one person's label, as sorted
    TxIds,       \* transactions an item or a repayment may be linked to
    ItemIds,     \* ids of owed items, handed out in increasing order
    PaymentIds,  \* ids of repayments
    MaxAmount,   \* bound on every amount, in cents
    SentStatuses, \* the statuses a request to edit an item may carry
    MaxDate,     \* last day of the modelled calendar
    None         \* an absent link, hash or due date

ASSUME ItemIdsAssumption == ItemIds \subseteq Nat /\ IsFiniteSet(ItemIds)
ASSUME PaymentIdsAssumption == IsFiniteSet(PaymentIds)
ASSUME SpellingsAssumption == Spellings \subseteq Nat
ASSUME BoundsAssumption == MaxAmount \in Nat \ {0} /\ MaxDate \in Nat \ {0}
ASSUME NoneAssumption ==
    None \notin TxIds \cup (1..MaxDate) \cup (TxIds \X People)

VARIABLES
    items,       \* owed_items
    payments,    \* owed_payments, each with its owed_payment_allocations
    log,         \* owed_item_events
    txs,         \* transactions
    today        \* the server's UTC date

vars == <<items, payments, log, txs, today>>

-----------------------------------------------------------------------------
(* Rows                                                                    *)

Labels == People \X Spellings
Amounts == 1..MaxAmount
Dates == 1..MaxDate
OpenStatuses == {"open", "partially_paid"}
Statuses == OpenStatuses \cup {"paid", "cancelled"}
EventTypes == {"created", "adjusted", "payment", "payment_reversed",
               "cancelled", "reopened", "deleted"}

Item == [person: Labels, total: Amounts, paid: 0..MaxAmount,
         remaining: 0..MaxAmount, status: Statuses, link: TxIds \cup {None},
         hash: (TxIds \X People) \cup {None}, deleted: BOOLEAN, updated: Dates]

Allocations == [ItemIds -> 0..MaxAmount]

Payment == [person: Labels, amount: Amounts, link: TxIds \cup {None},
            date: Dates, alloc: Allocations]

Event == [type: EventTypes, total: Amounts, paid: 0..MaxAmount,
          remaining: 0..MaxAmount, status: Statuses]

History == UNION {[D -> Event] : D \in SUBSET Dates}

Transaction == [amount: Amounts, direction: {"in", "out"}, date: Dates]

NoRows == [id \in {} |-> None]

SamePerson(a, b) == a[1] = b[1]

Live(i) == ~items[i].deleted

ASSUME SentStatusesAssumption == SentStatuses \subseteq Statuses

-----------------------------------------------------------------------------
(* Helpers of the handlers                                                 *)

\* What is paid looked at before what remains, used by a mutant.
StatusByPaidFirst(paid, remaining) ==
    IF paid > 0 THEN "partially_paid"
    ELSE IF remaining = 0 THEN "paid" ELSE "open"

Status(paid, remaining) ==
    IF remaining = 0 THEN "paid"
    ELSE IF paid > 0 THEN "partially_paid" ELSE "open"

Snapshot(type, item) ==
    [type |-> type, total |-> item.total, paid |-> item.paid,
     remaining |-> item.remaining, status |-> item.status]

Recorded(history, date, event) ==
    [d \in DOMAIN history \cup {date} |->
        IF d = date THEN event ELSE history[d]]

\* A reversal that adds what it should take back, used by a mutant.
AdjustedUpwards(item, delta) ==
    LET paid == Min({item.total, item.paid + Max({delta, 0 - delta})})
        remaining == item.total - paid
    IN  [item EXCEPT !.paid = paid, !.remaining = remaining,
                     !.status = Status(paid, remaining), !.updated = today]

Adjusted(item, delta) ==
    LET paid == item.paid + delta
        remaining == item.total - paid
    IN  [item EXCEPT !.paid = paid, !.remaining = remaining,
                     !.status = Status(paid, remaining), !.updated = today]

LinkedTotal(t, except) ==
    SumFunctionOnSet([i \in DOMAIN items |-> items[i].total],
                     {i \in DOMAIN items \ except :
                         /\ items[i].link = t
                         /\ Live(i)
                         /\ items[i].status # "cancelled"})

CanLinkItem(t, total, status, except) ==
    \/ t = None
    \/ status = "cancelled"
    \/ /\ t \in DOMAIN txs
       /\ txs[t].direction = "out"
       /\ LinkedTotal(t, except) + total <= txs[t].amount

LinkedPayments(t) ==
    SumFunctionOnSet([p \in DOMAIN payments |-> payments[p].amount],
                     {p \in DOMAIN payments : payments[p].link = t})

\* The other repayments of the transaction left out, used by a mutant.
CanLinkPaymentAlone(t, amount) ==
    \/ t = None
    \/ t \in DOMAIN txs /\ txs[t].direction = "in" /\ amount <= txs[t].amount

CanLinkPayment(t, amount) ==
    \/ t = None
    \/ /\ t \in DOMAIN txs
       /\ txs[t].direction = "in"
       /\ LinkedPayments(t) + amount <= txs[t].amount

LabelsInUse ==
    {items[i].person : i \in DOMAIN items}
        \cup {payments[p].person : p \in DOMAIN payments}

\* The label a request that names "asked" is stored under.
Resolves(asked, label) ==
    LET variants == {l \in LabelsInUse : SamePerson(l, asked)}
    IN  \/ label = asked /\ (asked \in variants \/ variants = {})
        \/ /\ asked \notin variants
           /\ label \in variants
           /\ \A v \in variants : label[2] <= v[2]

NormalisedItems(label) ==
    [i \in DOMAIN items |->
        IF SamePerson(items[i].person, label)
        THEN [items[i] EXCEPT !.person = label, !.updated = today]
        ELSE items[i]]

\* The labels of repayments left alone, used by a mutant.
UntouchedPayments(label) == payments

NormalisedPayments(label) ==
    [p \in DOMAIN payments |->
        IF SamePerson(payments[p].person, label)
        THEN [payments[p] EXCEPT !.person = label]
        ELSE payments[p]]

-----------------------------------------------------------------------------
(* Allocating a repayment                                                  *)

\* The open items an automatic repayment walks, in id order, up to "stop".
Queue(label, stop) ==
    LET open == {i \in DOMAIN items :
                    /\ SamePerson(items[i].person, label)
                    /\ Live(i)
                    /\ items[i].status \in OpenStatuses}
    IN  {i \in open : stop \in open => i < stop}

RemainingIn(S) ==
    SumFunctionOnSet([i \in DOMAIN items |-> items[i].remaining], S)

\* What is left of the repayment when the walk reaches item i.
LeftAt(i, queue, amount) == amount - RemainingIn({j \in queue : j < i})

\* The queue walked from its end, used by a mutant.
NewestFirstAllocation(label, amount, stop) ==
    LET queue == Queue(label, stop)
        LeftAtNewest(i) == amount - RemainingIn({j \in queue : j > i})
    IN  [i \in ItemIds |->
            IF i \in queue
            THEN Max({0, Min({LeftAtNewest(i), items[i].remaining})})
            ELSE 0]

AutoAllocation(label, amount, stop) ==
    LET queue == Queue(label, stop)
    IN  [i \in ItemIds |->
            IF i \in queue
            THEN Max({0, Min({LeftAt(i, queue, amount), items[i].remaining})})
            ELSE 0]

\* An open item with nothing left to pay would get an allocation row of 0,
\* which the table refuses: the whole repayment is rolled back.
AutoAllocationFails(label, amount, stop) ==
    LET queue == Queue(label, stop)
    IN  \E i \in queue :
            items[i].remaining = 0 /\ LeftAt(i, queue, amount) > 0

Allocated(alloc) == SumFunctionOnSet(alloc, ItemIds)

Allocatable(alloc, amount) ==
    /\ alloc \in Allocations
    /\ Allocated(alloc) <= amount
    /\ \A i \in ItemIds :
           alloc[i] > 0 => /\ i \in DOMAIN items
                           /\ alloc[i] <= items[i].remaining

\* Allocations the request names: live items of the same person.
Requestable(alloc, label) ==
    /\ \E i \in ItemIds : alloc[i] > 0
    /\ \A i \in ItemIds :
           alloc[i] > 0 => /\ i \in DOMAIN items
                           /\ Live(i)
                           /\ SamePerson(items[i].person, label)

-----------------------------------------------------------------------------
(* Handlers                                                                *)

Init ==
    /\ items = NoRows
    /\ payments = NoRows
    /\ log = NoRows
    /\ txs \in [TxIds -> Transaction]
    /\ today = 1

NewItem(label, total, paid, link) ==
    [person |-> label, total |-> total, paid |-> paid,
     remaining |-> total - paid, status |-> Status(paid, total - paid),
     link |-> link, hash |-> IF link = None THEN None ELSE <<link, label[1]>>,
     deleted |-> FALSE, updated |-> today]

\* The effective date of a "created" event.
CreatedDate(link, due) ==
    IF link # None THEN txs[link].date
    ELSE IF due # None THEN due ELSE today

\* POST /api/owed
CreateItem(asked, total, paid, link, due) ==
    \E i \in ItemIds \ DOMAIN items, label \in Labels :
        LET item == NewItem(label, total, paid, link)
            history == Recorded(NoRows, CreatedDate(link, due),
                                Snapshot("created", item))
        IN  /\ \A j \in DOMAIN items : j < i
            /\ Resolves(asked, label)
            /\ item.hash # None =>
                   \A j \in DOMAIN items : items[j].hash # item.hash
            /\ paid <= total
            /\ CanLinkItem(link, total, item.status, {})
            /\ items' = [j \in DOMAIN items \cup {i} |->
                            IF j = i THEN item ELSE items[j]]
            /\ log' = [j \in DOMAIN log \cup {i} |->
                          IF j = i THEN history ELSE log[j]]
            /\ UNCHANGED <<payments, txs, today>>

UpdateEventType(before, after) ==
    IF before # "cancelled" /\ after = "cancelled" THEN "cancelled"
    ELSE IF before = "cancelled" /\ after # "cancelled" THEN "reopened"
    ELSE "adjusted"

EditedItem(old, label, total, paid, status, link) ==
    [old EXCEPT !.person = label, !.total = total, !.paid = paid,
                !.remaining = total - paid, !.link = link, !.updated = today,
                !.status = IF status = None THEN Status(paid, total - paid)
                           ELSE status]

\* PATCH /api/owed/{id}.  A field left out of the request keeps its value,
\* except the status, which is then recomputed (status = None).  The capacity
\* check looks at the link in the request, or at the old one if it has none.
UpdateItem(i, asked, total, paid, status, link) ==
    /\ i \in DOMAIN items
    /\ Live(i)
    /\ paid <= total
    /\ link \in DOMAIN txs \cup {None}
    /\ \E label \in Labels :
        LET old == items[i]
            new == EditedItem(old, label, total, paid, status, link)
            type == UpdateEventType(old.status, new.status)
        IN  /\ Resolves(asked, label)
            /\ CanLinkItem(IF link = None THEN old.link ELSE link,
                           total, new.status, {i})
            /\ items' = [items EXCEPT ![i] = new]
            /\ log' = IF /\ new.total = old.total
                         /\ new.paid = old.paid
                         /\ new.status = old.status
                      THEN log
                      ELSE [log EXCEPT
                              ![i] = Recorded(@, today, Snapshot(type, new))]
    /\ UNCHANGED <<payments, txs, today>>

\* DELETE /api/owed/{id}: the row stays, with its link and its hash.
DeleteItem(i) ==
    /\ i \in DOMAIN items
    /\ Live(i)
    /\ items' = [items EXCEPT ![i] = [@ EXCEPT !.deleted = TRUE,
                                               !.updated = today]]
    /\ log' = [log EXCEPT
                 ![i] = Recorded(@, today, Snapshot("deleted", items[i]))]
    /\ UNCHANGED <<payments, txs, today>>

SettledItem(label, alloc, i) ==
    IF alloc[i] > 0 THEN Adjusted(NormalisedItems(label)[i], alloc[i])
    ELSE NormalisedItems(label)[i]

\* The rows a repayment writes once its allocation is known.
Settle(label, amount, link, date, alloc) ==
    \E p \in PaymentIds \ DOMAIN payments :
        LET payment == [person |-> label, amount |-> amount, link |-> link,
                        date |-> date, alloc |-> alloc]
        IN  /\ items' = [i \in DOMAIN items |-> SettledItem(label, alloc, i)]
            /\ payments' = [q \in DOMAIN payments \cup {p} |->
                               IF q = p THEN payment
                               ELSE NormalisedPayments(label)[q]]
            /\ log' = [i \in DOMAIN log |->
                          IF alloc[i] > 0
                          THEN Recorded(log[i], date,
                                   Snapshot("payment", SettledItem(label, alloc, i)))
                          ELSE log[i]]

\* POST /api/owed/payments without allocations: oldest open items first,
\* stopping before the item "stop" if it is one of them.
RecordPayment(asked, amount, link, date, stop) ==
    \E label \in Labels :
        LET alloc == AutoAllocation(label, amount, stop)
        IN
        /\ Resolves(asked, label)
        /\ CanLinkPayment(link, amount)
        /\ ~AutoAllocationFails(label, amount, stop)
        /\ Allocatable(alloc, amount)
        /\ Settle(label, amount, link, date, alloc)
        /\ UNCHANGED <<txs, today>>

\* POST /api/owed/payments with allocations.  The status of the items is not
\* looked at: a cancelled item can be paid, and is open or paid afterwards.
RecordAllocatedPayment(asked, amount, link, date, alloc) ==
    \E label \in Labels :
        /\ Resolves(asked, label)
        /\ CanLinkPayment(link, amount)
        /\ Requestable(alloc, label)
        /\ Allocatable(alloc, amount)
        /\ Settle(label, amount, link, date, alloc)
        /\ UNCHANGED <<txs, today>>

\* Deleted items not looked for, used by a mutant.
ReversibleDeleted(alloc) ==
    \A i \in ItemIds :
        alloc[i] > 0 => i \in DOMAIN items /\ alloc[i] <= items[i].paid

\* Every allocated item must be live, and no amount paid may drop below zero.
Reversible(alloc) ==
    \A i \in ItemIds :
        alloc[i] > 0 => /\ i \in DOMAIN items
                        /\ Live(i)
                        /\ alloc[i] <= items[i].paid

ReversedItem(alloc, i) ==
    IF alloc[i] > 0 THEN Adjusted(items[i], 0 - alloc[i]) ELSE items[i]

\* The reversal written on the repayment's date, used by a mutant.
ReversalOnPaymentDate(p) == payments[p].date

\* A reversal is an event of the day it is made, not of the repayment's date.
ReversalDate(p) == today

\* DELETE /api/owed/payments/{id}
DeletePayment(p) ==
    /\ p \in DOMAIN payments
    /\ LET alloc == payments[p].alloc
       IN  /\ Reversible(alloc)
           /\ items' = [i \in DOMAIN items |-> ReversedItem(alloc, i)]
           /\ log' = [i \in DOMAIN log |->
                         IF alloc[i] > 0
                         THEN Recorded(log[i], ReversalDate(p),
                                  Snapshot("payment_reversed", ReversedItem(alloc, i)))
                         ELSE log[i]]
    /\ payments' = [q \in DOMAIN payments \ {p} |-> payments[q]]
    /\ UNCHANGED <<txs, today>>

\* POST /api/owed/people/rename: exact label, deleted items included.
RenamePerson(from, to) ==
    /\ from # to
    /\ items' = [i \in DOMAIN items |->
                    IF items[i].person = from
                    THEN [items[i] EXCEPT !.person = to, !.updated = today]
                    ELSE items[i]]
    /\ payments' = [p \in DOMAIN payments |->
                       IF payments[p].person = from
                       THEN [payments[p] EXCEPT !.person = to]
                       ELSE payments[p]]
    /\ UNCHANGED <<log, txs, today>>

-----------------------------------------------------------------------------
(* Integrity check and repair of the event log                             *)

\* The first event of an item taken for its latest, used by a mutant.
FirstDate(history) == Min(DOMAIN history)

LatestDate(history) == Max(DOMAIN history)

LatestEvent(history) == history[LatestDate(history)]

Unlogged(i) == DOMAIN log[i] = {}

LatestIsDelete(i) == ~Unlogged(i) /\ LatestEvent(log[i]).type = "deleted"

Stale(history, item) ==
    \/ LatestEvent(history).remaining # item.remaining
    \/ LatestEvent(history).status # item.status

\* GET /api/owed/integrity-check lists these items.
IntegrityIssues ==
    {i \in DOMAIN items :
        Live(i) /\ (Unlogged(i) \/ LatestIsDelete(i) \/ Stale(log[i], items[i]))}

\* The items the repair writes an event for.
Repairable ==
    {i \in IntegrityIssues : ~Unlogged(i) /\ ~LatestIsDelete(i)}

\* The last event of the item not looked at, used by a mutant.
RepairDateOfUpdate(i) == items[i].updated

RepairDate(i) == Max({items[i].updated, LatestDate(log[i])})

RepairedLog ==
    [i \in DOMAIN log |->
        IF i \in Repairable
        THEN Recorded(log[i], RepairDate(i), Snapshot("payment", items[i]))
        ELSE log[i]]

\* POST /api/owed/integrity-check/repair
RepairLog ==
    /\ Repairable # {}
    /\ log' = RepairedLog
    /\ UNCHANGED <<items, payments, txs, today>>

Tick ==
    /\ today < MaxDate
    /\ today' = today + 1
    /\ UNCHANGED <<items, payments, log, txs>>

-----------------------------------------------------------------------------

OwedStep ==
    \/ \E asked \in Labels, total \in Amounts, paid \in 0..MaxAmount,
          link \in TxIds \cup {None}, due \in Dates \cup {None} :
            CreateItem(asked, total, paid, link, due)
    \/ \E i \in ItemIds, asked \in Labels, total \in Amounts,
          paid \in 0..MaxAmount, status \in SentStatuses \cup {None},
          link \in TxIds \cup {None} :
            UpdateItem(i, asked, total, paid, status, link)
    \/ \E i \in ItemIds : DeleteItem(i)
    \/ \E asked \in Labels, amount \in Amounts, link \in TxIds \cup {None},
          date \in Dates, stop \in ItemIds \cup {None} :
            RecordPayment(asked, amount, link, date, stop)
    \/ \E asked \in Labels, amount \in Amounts, link \in TxIds \cup {None},
          date \in Dates, alloc \in Allocations :
            RecordAllocatedPayment(asked, amount, link, date, alloc)
    \/ \E p \in PaymentIds : DeletePayment(p)
    \/ \E from \in Labels, to \in Labels : RenamePerson(from, to)
    \/ RepairLog

Next == OwedStep \/ Tick

Spec == Init /\ [][Next]_vars

-----------------------------------------------------------------------------
(* Properties                                                              *)

\* Every row of every table has the shape its columns allow.
TypeOK ==
    /\ items \in [DOMAIN items -> Item] /\ DOMAIN items \subseteq ItemIds
    /\ payments \in [DOMAIN payments -> Payment]
    /\ DOMAIN payments \subseteq PaymentIds
    /\ DOMAIN log = DOMAIN items
    /\ log \in [DOMAIN items -> History]
    /\ txs \in [DOMAIN txs -> Transaction] /\ DOMAIN txs \subseteq TxIds
    /\ today \in Dates

\* What is paid and what remains of an item always add up to its total,
\* through edits, repayments and their reversals (_calculate_amount_remaining
\* is called at four places and each must use the fresh amount paid).
Balanced ==
    \A i \in DOMAIN items : items[i].paid + items[i].remaining = items[i].total

\* A repayment is never given out twice: its allocations stay within it,
\* whether the walk over the open items or the request chose them.
AllocationsWithinPayment ==
    \A p \in DOMAIN payments : Allocated(payments[p].alloc) <= payments[p].amount

\* Repayments linked to one money-in transaction never exceed it together
\* (_validate_linked_payment_transaction), and never name a money-out one.
PaymentsWithinTransaction ==
    \A t \in DOMAIN txs :
        LinkedPayments(t) > 0 => /\ txs[t].direction = "in"
                                /\ LinkedPayments(t) <= txs[t].amount

ItemsWithinTransaction ==
    \A t \in DOMAIN txs : LinkedTotal(t, {}) <= txs[t].amount

\* Repayments linked to a transaction never exceed it together.  The items owed
\* for one come to exceed it only when a repayment is made or taken back: that
\* revives a cancelled item, which the capacity check had left out, and does
\* not check again (_validate_linked_transaction_capacity).
LinksStayWithinTransaction ==
    [][IF payments' = payments
       THEN ItemsWithinTransaction => ItemsWithinTransaction'
       ELSE PaymentsWithinTransaction']_vars

\* In every reachable ledger the walk of record_payment is the oldest-first
\* settlement: it gives out all it can, nothing reaches an item while an older
\* one in the queue is unsettled, and its own two guards never refuse it.
AutoAllocationOldestFirst ==
    \A label \in Labels, amount \in Amounts :
        \A stop \in Queue(label, None) \cup {None} :
            LET queue == Queue(label, stop)
                alloc == AutoAllocation(label, amount, stop)
            IN  queue # {} =>
                    /\ Allocatable(alloc, amount)
                    /\ Allocated(alloc) = Min({amount, RemainingIn(queue)})
                    /\ \A i, j \in queue :
                           i < j /\ alloc[j] > 0 => alloc[i] = items[i].remaining

\* The amounts, status and history of a soft-deleted item never change again,
\* and nothing undeletes it: every handler that could touch it must refuse,
\* the reversal of a repayment it took part in included.
DeletedItemsFrozen ==
    [][\A i \in DOMAIN items :
          items[i].deleted =>
              /\ i \in DOMAIN items'
              /\ items'[i].deleted
              /\ Snapshot("deleted", items'[i]) = Snapshot("deleted", items[i])
              /\ log'[i] = log[i]]_vars

\* No step changes an item's amounts or status without leaving an event that
\* holds the new values: the wealth history is computed from events alone.
ChangesLogged ==
    [][\A i \in DOMAIN items' :
          (i \in DOMAIN items =>
              Snapshot("adjusted", items'[i]) # Snapshot("adjusted", items[i]))
          => \E d \in DOMAIN log'[i] :
                 log'[i][d] = Snapshot(log'[i][d].type, items'[i])]_vars

AllocatedTo(i) ==
    SumFunction([p \in DOMAIN payments |-> payments[p].alloc[i]])

\* Money moves between repayments and items in equal amounts: when the sum
\* allocated to an item changes, its amount paid changes by the same sum.
MoneyConserved ==
    [][\A i \in DOMAIN items :
          AllocatedTo(i)' # AllocatedTo(i) =>
              items'[i].paid - items[i].paid = AllocatedTo(i)' - AllocatedTo(i)]_vars

\* A repayment leaves one label per person behind, on items and repayments,
\* deleted items included (normalize_person_name_variants).
PaymentUnifiesLabels ==
    [][\A p \in DOMAIN payments' \ DOMAIN payments :
          \A label \in LabelsInUse' :
              SamePerson(label, payments'[p].person)
                  => label = payments'[p].person]_vars

\* With items made by this service alone, the integrity check can only ever
\* find stale events: never an item without events, never a live item whose
\* latest event is a delete.
IssuesAreRepairable == IntegrityIssues = Repairable

\* One repair settles every item it touches, whatever dates its events have
\* (the max(...) of backfill_stale_owed_events).
RepairSettles ==
    \A i \in Repairable : ~Stale(RepairedLog[i], items[i])

\* An automatic repayment is never refused for its amount: when no request sends
\* an "open" or "partially_paid" status, the walk never meets an open item with
\* nothing left to pay.  A request that sends one breaks it: an edit may call a
\* fully paid item open, and repayments of its person are refused from then on.
AutomaticPaymentAccepted ==
    \A label \in Labels, amount \in Amounts : ~AutoAllocationFails(label, amount, None)

=============================================================================
