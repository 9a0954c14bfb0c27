----------------------------- MODULE OwedOverlap -----------------------------
(***************************************************************************)
(* Overlapping requests on the owed ledger.  The server runs each request  *)
(* on a thread with a database transaction of its own, and PostgreSQL runs *)
(* them at READ COMMITTED: every SELECT sees what is committed when it     *)
(* runs, an UPDATE waits for the transaction that last wrote its row.  The *)
(* handlers compute new amounts in Python from the rows they have read and *)
(* write those amounts.                                                    *)
(*                                                                         *)
(* A request here takes two or three steps: what it reads, in the order of *)
(* its SELECTs, and its commit, with every write it makes.  Its writes are *)
(* in one step with its commit because the row locks they take are held    *)
(* until then; the exception is the label update with which a repayment    *)
(* starts, whose locks are its "reserved" items.  SQLAlchemy writes the    *)
(* changed columns of a row only.                                          *)
(*                                                                         *)
(* A person has one spelling here, and nobody is renamed: labels are the   *)
(* subject of OwedLedger.                                                  *)
(***************************************************************************)
EXTENDS OwedLedger

CONSTANT Requests   \* requests, each made once

ASSUME OneSpellingAssumption == \A a, b \in Labels : SamePerson(a, b) => a = b

VARIABLE open       \* how far each request is

allVars == <<vars, open>>

-----------------------------------------------------------------------------
(* Requests in flight                                                      *)

\* before, after: the item rows a request has read and what it makes of them;
\* events: the events it writes; drop, add: repayments it deletes and creates;
\* reserved: the item rows a repayment starts by writing; alone: no other
\* request has committed since it began, and the day has not changed.
NotBegun ==
    [phase |-> "new", payment |-> None, reserved |-> {}, before |-> NoRows,
     after |-> NoRows, events |-> NoRows, drop |-> {}, add |-> NoRows,
     alone |-> TRUE]

InFlight(r) == open[r].phase \notin {"new", "done"}

IsNew(r) == open[r].phase = "new"

Done == [NotBegun EXCEPT !.phase = "done"]

\* No row is ever locked, used by a mutant.
NoLocks(r) == {}

\* normalize_person_name_variants writes, and so locks, every item row of the
\* person, deleted ones included.
LockedBy(r) == open[r].reserved

LockedByOthers(r) == UNION {LockedBy(s) : s \in Requests \ {r}}

\* Ids of repayments are never handed out twice.
UsedPaymentIds ==
    DOMAIN payments \cup UNION {DOMAIN open[r].add \cup open[r].drop : r \in Requests}

\* An event dated None is dated when it is written.
EventOf(date, type, item) == [date |-> date, event |-> Snapshot(type, item)]

\* The amounts only, used by a mutant.
MergedAmounts(current, before, after) ==
    [current EXCEPT !.updated = today, !.paid = after.paid,
                    !.remaining = after.remaining, !.status = after.status]

\* The whole row as it was read, used by a mutant.
MergedRow(current, before, after) == [after EXCEPT !.updated = today]

\* The row that is left when the columns a request has changed are written
\* over the current row.
Merged(current, before, after) ==
    [c \in DOMAIN current |->
        IF c = "updated" THEN today
        ELSE IF after[c] # before[c] THEN after[c] ELSE current[c]]

\* The CHECK constraints of owed_items: the balance is right to a cent.
Storable(item) ==
    /\ item.paid >= 0
    /\ item.remaining >= 0
    /\ item.paid + item.remaining - item.total \in (-1)..1

-----------------------------------------------------------------------------
(* Reading                                                                 *)

\* PATCH /api/owed/{id} up to its first write.
StartEdit(r, i, total, paid, status, link) ==
    /\ IsNew(r)
    /\ i \in DOMAIN items
    /\ Live(i)
    /\ paid <= total
    /\ link \in DOMAIN txs \cup {None}
    /\ LET old == items[i]
           new == EditedItem(old, old.person, total, paid, status, link)
           type == UpdateEventType(old.status, new.status)
           same == /\ new.total = old.total
                   /\ new.paid = old.paid
                   /\ new.status = old.status
       IN  /\ CanLinkItem(IF link = None THEN old.link ELSE link,
                          total, new.status, {i})
           /\ open' = [open EXCEPT ![r] =
                 [NotBegun EXCEPT
                     !.phase = "ready",
                     !.before = [j \in {i} |-> old],
                     !.after = [j \in {i} |-> new],
                     !.events = [j \in IF same THEN {} ELSE {i} |->
                                    EventOf(None, type, new)]]]
    /\ UNCHANGED vars

\* DELETE /api/owed/{id} up to its first write.
StartDelete(r, i) ==
    /\ IsNew(r)
    /\ i \in DOMAIN items
    /\ Live(i)
    /\ open' = [open EXCEPT ![r] =
          [NotBegun EXCEPT
              !.phase = "ready",
              !.before = [j \in {i} |-> items[i]],
              !.after = [j \in {i} |-> [items[i] EXCEPT !.deleted = TRUE]],
              !.events = [j \in {i} |-> EventOf(today, "deleted", items[i])]]]
    /\ UNCHANGED vars

\* DELETE /api/owed/payments/{id} reads the repayment with its allocations...
FindPayment(r, p) ==
    /\ IsNew(r)
    /\ p \in DOMAIN payments
    /\ open' = [open EXCEPT ![r] =
          [NotBegun EXCEPT !.phase = "found",
                            !.payment = payments[p],
                            !.drop = {p}]]
    /\ UNCHANGED vars

\* ... and then, in statements of their own, the items it was allocated to.
\* An item whose amounts do not allow it refuses the reversal.
ReadAllocated(r) ==
    /\ open[r].phase = "found"
    /\ LET alloc == open[r].payment.alloc
           paidItems == {i \in ItemIds : alloc[i] > 0}
           after == [i \in paidItems |-> ReversedItem(alloc, i)]
       IN  /\ Reversible(alloc)
           /\ \A i \in paidItems : after[i].remaining >= 0
           /\ open' = [open EXCEPT
                 ![r].phase = "ready",
                 ![r].payment = None,
                 ![r].before = [i \in paidItems |-> items[i]],
                 ![r].after = after,
                 ![r].events = [i \in paidItems |->
                     EventOf(today, "payment_reversed", after[i])]]
    /\ UNCHANGED vars

ItemsOf(label) == {i \in DOMAIN items : SamePerson(items[i].person, label)}

\* POST /api/owed/payments locks the person's items, waiting for whoever holds
\* one of them, and checks the linked transaction...
StartPayment(r, label, amount, link, date) ==
    /\ IsNew(r)
    /\ ItemsOf(label) \cap LockedByOthers(r) = {}
    /\ CanLinkPayment(link, amount)
    /\ open' = [open EXCEPT ![r] =
          [NotBegun EXCEPT
              !.phase = "reserved",
              !.reserved = ItemsOf(label),
              !.payment = [person |-> label, amount |-> amount, link |-> link,
                           date |-> date, alloc |-> [i \in ItemIds |-> 0]]]]
    /\ UNCHANGED vars

\* ... and then reads the items and allocates.
Allocate(r, alloc) ==
    /\ Allocatable(alloc, open[r].payment.amount)
    /\ \E p \in PaymentIds \ UsedPaymentIds :
        LET draft == open[r].payment
            read == open[r].reserved \cup {i \in ItemIds : alloc[i] > 0}
            after == [i \in read |-> SettledItem(draft.person, alloc, i)]
        IN  /\ \A i \in read : after[i].remaining >= 0
            /\ open' = [open EXCEPT
                  ![r].phase = "ready",
                  ![r].payment = None,
                  ![r].before = [i \in read |-> items[i]],
                  ![r].after = after,
                  ![r].events = [i \in {j \in read : alloc[j] > 0} |->
                      EventOf(draft.date, "payment", after[i])],
                  ![r].add = [q \in {p} |-> [draft EXCEPT !.alloc = alloc]]]
    /\ UNCHANGED vars

AllocateOldestFirst(r, stop) ==
    /\ open[r].phase = "reserved"
    /\ LET draft == open[r].payment
       IN  /\ ~AutoAllocationFails(draft.person, draft.amount, stop)
           /\ Allocate(r, AutoAllocation(draft.person, draft.amount, stop))

AllocateAsAsked(r, alloc) ==
    /\ open[r].phase = "reserved"
    /\ Requestable(alloc, open[r].payment.person)
    /\ Allocate(r, alloc)

\* POST /api/owed/integrity-check/repair reads items and events, and compares.
StartRepair(r) ==
    /\ IsNew(r)
    /\ Repairable # {}
    /\ open' = [open EXCEPT ![r] =
          [NotBegun EXCEPT
              !.phase = "ready",
              !.events = [i \in Repairable |->
                  EventOf(RepairDate(i), "payment", items[i])]]]
    /\ UNCHANGED vars

-----------------------------------------------------------------------------
(* Writing                                                                 *)

\* Requests in flight when another one commits are not alone any more.
Overlapped ==
    [s \in Requests |->
        IF InFlight(s) THEN [open[s] EXCEPT !.alone = FALSE] ELSE open[s]]

\* The writes of a request and its commit.  Deleting a repayment that is gone
\* by now deletes no row, which is not an error.
Commit(r) ==
    /\ open[r].phase = "ready"
    /\ LET q == open[r]
           written == DOMAIN q.after
           row(i) == Merged(items[i], q.before[i], q.after[i])
           date(i) == IF q.events[i].date = None THEN today ELSE q.events[i].date
       IN  /\ written \cap LockedByOthers(r) = {}
           /\ \A i \in written : Storable(row(i))
           /\ items' = [i \in DOMAIN items |->
                           IF i \in written THEN row(i) ELSE items[i]]
           /\ log' = [i \in DOMAIN log |->
                         IF i \in DOMAIN q.events
                         THEN Recorded(log[i], date(i), q.events[i].event)
                         ELSE log[i]]
           /\ payments' = [p \in (DOMAIN payments \ q.drop) \cup DOMAIN q.add |->
                              IF p \in DOMAIN q.add THEN q.add[p] ELSE payments[p]]
    /\ open' = [Overlapped EXCEPT ![r] = Done]
    /\ UNCHANGED <<txs, today>>

\* A refused, failed or timed out request is rolled back.
Abort(r) ==
    /\ InFlight(r)
    /\ open' = [open EXCEPT ![r] = Done]
    /\ UNCHANGED vars

\* POST /api/owed writes no row that exists, and is one step.
Create(label, total, paid, link, due) ==
    /\ CreateItem(label, total, paid, link, due)
    /\ open' = Overlapped

\* A request may begin on one day and write on the next.
Midnight ==
    /\ Tick
    /\ open' = Overlapped

-----------------------------------------------------------------------------

OverlapInit == Init /\ open = [r \in Requests |-> NotBegun]

OverlapNext ==
    \/ \E r \in Requests :
        \/ \E i \in ItemIds, total \in Amounts, paid \in 0..MaxAmount,
              status \in SentStatuses \cup {None}, link \in TxIds \cup {None} :
                StartEdit(r, i, total, paid, status, link)
        \/ \E i \in ItemIds : StartDelete(r, i)
        \/ \E p \in PaymentIds : FindPayment(r, p)
        \/ ReadAllocated(r)
        \/ \E label \in Labels, amount \in Amounts, link \in TxIds \cup {None},
              date \in Dates : StartPayment(r, label, amount, link, date)
        \/ \E stop \in ItemIds \cup {None} : AllocateOldestFirst(r, stop)
        \/ \E alloc \in Allocations : AllocateAsAsked(r, alloc)
        \/ StartRepair(r)
        \/ Commit(r)
        \/ Abort(r)
    \/ \E label \in Labels, total \in Amounts, paid \in 0..MaxAmount,
          link \in TxIds \cup {None}, due \in Dates \cup {None} :
            Create(label, total, paid, link, due)
    \/ Midnight

OverlapSpec == OverlapInit /\ [][OverlapNext]_allVars

-----------------------------------------------------------------------------
(* Properties                                                              *)

\* Request r commits in this step.
Commits(r) ==
    /\ open[r].phase = "ready"
    /\ open'[r].phase = "done"
    /\ <<items, payments, log>>' # <<items, payments, log>>

\* A request that overlaps no other commit, and no midnight, is a request of
\* OwedLedger: reading first and writing the changed columns later is then the
\* handler in one step.
LoneRequestIsAtomic ==
    [][\A r \in Requests : Commits(r) /\ open[r].alone => OwedStep]_allVars

\* A repayment is added in full to every item that existed when it began,
\* whatever other requests commit in between: the locks its label update takes
\* are what keeps the amounts it reads fresh.
RepaymentsNeverLost ==
    [][\A r \in Requests :
          Commits(r) =>
              \A p \in DOMAIN open[r].add, i \in open[r].reserved :
                  items'[i].paid = items[i].paid + open[r].add[p].alloc[i]]_allVars

=============================================================================
