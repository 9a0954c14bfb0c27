------------------------------- MODULE Erasure -------------------------------
(***************************************************************************)
(* Deleting much at once: a user deletes the account                       *)
(* (account_deletion_service.py), or resets a month                        *)
(* (admin_reset_service.py).  Either is one database transaction of many   *)
(* statements, and every statement sees what others have committed by then *)
(* (READ COMMITTED): the same user goes on writing from another tab.       *)
(*                                                                         *)
(* Rows are chosen in advance, with their table, their month and the rows  *)
(* they refer to; a write commits some of them together.                   *)
(***************************************************************************)
EXTENDS Integers, Sequences, FiniteSets

CONSTANTS
    None,       \* no erasure
    Rows,       \* every row that may be written
    TableOf,    \* its table
    MonthOf,    \* the month of its date; of no consequence where it has none
    Refs,       \* the rows it refers to
    Writes,     \* the sets of rows that requests commit together
    Months

VARIABLES
    rows,       \* the rows that are committed
    job         \* the erasure under way

erasureVars == <<rows, job>>

InTable(t) == {r \in Rows : TableOf[r] = t}

ErasureInit == rows = {} /\ job = None

-----------------------------------------------------------------------------
(* Foreign keys. *)

(* The tables whose rows refer to rows of another table.                   *)
ForeignKeys ==
    { <<"transactions", "import_batches">>, <<"owed_items", "transactions">>,
      <<"owed_items", "import_batches">>, <<"owed_payments", "transactions">>,
      <<"owed_payment_allocations", "owed_payments">>,
      <<"owed_payment_allocations", "owed_items">>, <<"owed_item_events", "owed_items">>,
      <<"investment_events", "transactions">>, <<"investment_events", "import_batches">>,
      <<"wealth_snapshots", "wealth_accounts">>, <<"wealth_snapshots", "import_batches">> }

ASSUME RowsAssumption ==
    /\ \A r \in Rows : \A p \in Refs[r] :
          p \in Rows /\ <<TableOf[r], TableOf[p]>> \in ForeignKeys
    /\ \A w \in Writes : w \subseteq Rows

(* What becomes of a row when the row it refers to is deleted.             *)
OnDelete(child, parent) ==
    CASE TableOf[child] = "owed_payment_allocations" /\ TableOf[parent] = "owed_payments" ->
            "cascade"
      [] TableOf[child] = "owed_item_events" /\ TableOf[parent] = "owed_items" -> "cascade"
      [] TableOf[child] = "investment_events" /\ TableOf[parent] = "transactions" -> "set null"
      [] OTHER -> "restrict"

(* The rows the erasure sees: those committed by now and not yet deleted   *)
(* by itself.                                                              *)
Seen == rows \ job.gone

Referring(parents, action) ==
    {c \in Seen : \E p \in Refs[c] \cap parents : OnDelete(c, p) = action}

Cascading(deleted) == deleted \cup Referring(deleted, "cascade")

(* A row that stays refers to a deleted one: the statement fails.          *)
IsRefused(deleted) == ~(Referring(deleted, "restrict") \subseteq Cascading(deleted))

-----------------------------------------------------------------------------
(* Other requests. *)

(* Rows refer to rows that are there; a row the erasure has deleted makes  *)
(* the write wait for its end.                                             *)
Write(w) ==
    /\ w \cap rows = {}
    /\ UNION {Refs[r] : r \in w}
          \subseteq (IF job = None THEN rows ELSE Seen) \cup w
    /\ rows' = rows \cup w
    /\ UNCHANGED job

-----------------------------------------------------------------------------
(* Deleting an account. *)

RecoveryTables ==
    << "import_batches", "transactions", "transaction_categories", "wealth_accounts",
       "owed_items", "owed_payments", "owed_item_events", "owed_payment_allocations",
       "investment_events", "wealth_snapshots" >>

(* The tables in the order they are listed, used by a mutant.              *)
AccountOrderAsListed == RecoveryTables

(* Import previews first, then the tables that can be recovered, those     *)
(* that refer before those they refer to.                                  *)
AccountOrder ==
    <<"import_previews">> \o
        [n \in 1 .. Len(RecoveryTables) |-> RecoveryTables[Len(RecoveryTables) + 1 - n]]

StartAccountDeletion ==
    /\ job = None
    /\ job' = [kind |-> "account", step |-> 1, gone |-> {}, found |-> rows]
    /\ UNCHANGED rows

-----------------------------------------------------------------------------
(* Resetting a month. *)

(* The ids are read table by table, each query using the ids read before.  *)
ResetReads ==
    << "transactions", "owed_items", "dated payments", "paying payments",
       "owed_payment_allocations", "investment_events" >>

ResetDeletes ==
    << "owed_payment_allocations", "owed_payments", "owed_items",
       "investment_events", "transactions" >>

OfMonth(t, m) == {r \in Seen \cap InTable(t) : MonthOf[r] = m}

RefersTo(t, parents) == {r \in Seen \cap InTable(t) : Refs[r] \cap parents # {}}

(* Repayments taken by their own date or link only, used by a mutant.      *)
NoOtherPayment(items) == {}

(* The payments that settled some of the items.                            *)
Paying(items) ==
    InTable("owed_payments") \cap
        UNION {Refs[a] : a \in RefersTo("owed_payment_allocations", items)}

Read(what, ids, m) ==
    CASE what = "transactions"      -> OfMonth("transactions", m)
      [] what = "owed_items"        -> RefersTo("owed_items", ids)
      [] what = "dated payments"    ->
            OfMonth("owed_payments", m) \cup RefersTo("owed_payments", ids)
      [] what = "paying payments"   -> Paying(ids \cap InTable("owed_items"))
      [] what = "owed_payment_allocations" ->
            RefersTo("owed_payment_allocations", ids)
      [] what = "investment_events" -> OfMonth("investment_events", m)

StartReset ==
    /\ job = None
    /\ \E m \in Months :
         job' = [kind |-> "reset", month |-> m, step |-> 1, ids |-> {}, gone |-> {},
                 found |-> rows]
    /\ UNCHANGED rows

ReadIds ==
    /\ job # None /\ job.kind = "reset" /\ job.step <= Len(ResetReads)
    /\ job' = [job EXCEPT !.step = @ + 1,
                          !.ids = @ \cup Read(ResetReads[job.step], @, job.month)]
    /\ UNCHANGED rows

-----------------------------------------------------------------------------
(* The statements of either. *)

Statements ==
    CASE job.kind = "account" -> AccountOrder
      [] job.kind = "reset"   -> ResetReads \o ResetDeletes

Deletes ==
    /\ job # None
    /\ job.step <= Len(Statements)
    /\ job.kind = "reset" => job.step > Len(ResetReads)

Targets ==
    Seen \cap InTable(Statements[job.step])
        \cap (IF job.kind = "reset" THEN job.ids ELSE Rows)

DeleteTable ==
    /\ Deletes
    /\ ~IsRefused(Targets)
    /\ job' = [job EXCEPT !.step = @ + 1, !.gone = @ \cup Cascading(Targets)]
    /\ UNCHANGED rows

(* A refused statement rolls everything back.                              *)
RollBack ==
    /\ Deletes
    /\ IsRefused(Targets)
    /\ job' = None
    /\ UNCHANGED rows

CommitErasure ==
    /\ job # None /\ job.step > Len(Statements)
    /\ rows' = Seen
    /\ job' = None

(* The process stops: the database rolls back what was not committed.      *)
Stop ==
    /\ job # None
    /\ job' = None
    /\ UNCHANGED rows

Erase ==
    \/ StartAccountDeletion \/ StartReset
    \/ ReadIds \/ DeleteTable \/ RollBack \/ CommitErasure

ErasureNext == Erase \/ Stop \/ \E w \in Writes : Write(w)

ErasureSpec == ErasureInit /\ [][ErasureNext]_erasureVars

-----------------------------------------------------------------------------
(* Properties. *)

(* The database refuses a statement only when another request has added a  *)
(* row since the erasure began: left alone, the order of the tables, and   *)
(* the ids a reset reads, respect every foreign key.                       *)
AloneNeverRefused ==
    Deletes /\ IsRefused(Targets) => ~(rows \subseteq job.found)

(* A reset takes the month's transactions, payments and investment events, *)
(* what is owed for these transactions, the payments for it, and their     *)
(* allocations and events; and when nothing is added meanwhile it takes    *)
(* all of these.                                                           *)
ResetReach(m) ==
    LET dated    == {r \in rows : MonthOf[r] = m}
        txs      == dated \cap InTable("transactions")
        items    == {r \in rows \cap InTable("owed_items") : Refs[r] \cap txs # {}}
        paid     == {a \in rows \cap InTable("owed_payment_allocations") : Refs[a] \cap items # {}}
        payments == {r \in rows \cap InTable("owed_payments") :
                        \/ r \in dated \/ Refs[r] \cap txs # {}
                        \/ \E a \in paid : r \in Refs[a]}
    IN  txs \cup items \cup payments \cup (dated \cap InTable("investment_events"))
            \cup {r \in rows : /\ TableOf[r] \in {"owed_payment_allocations", "owed_item_events"}
                               /\ Refs[r] \cap (items \cup payments) # {}}

ResetTakesItsMonth ==
    [][ (job # None /\ job.kind = "reset" /\ CommitErasure) =>
            LET taken == rows \ rows'
            IN  /\ taken \subseteq ResetReach(job.month)
                /\ rows \subseteq job.found => taken = ResetReach(job.month)
      ]_erasureVars
=============================================================================
