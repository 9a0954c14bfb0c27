-------------------------------- MODULE Startup --------------------------------
(***************************************************************************)
(* The start of the backend: what initialise_database does to the database *)
(* an earlier release left, statement by statement, with a crash between   *)
(* any two of them and the start that follows.                             *)
(*                                                                         *)
(* On SQLite the driver opens a transaction at the first INSERT, UPDATE or *)
(* DELETE and not before: a CREATE, ALTER or DROP that comes first is      *)
(* committed at once, whatever block of the code it stands in.  A step     *)
(* below is a statement so committed, or a transaction as a whole.         *)
(***************************************************************************)
EXTENDS Integers, Sequences

CONSTANTS
    Rows,         \* transactions of an old database; their names are directions
    Accounts,     \* wealth accounts; their names are what their texts mention
    Ages,         \* sets of tables that an old release may have left as they were
    Absences,     \* sets of tables it may not have had
    MaxCrashes,   \* bound on the interrupted starts
    None          \* the value of a column that is not there yet

ASSUME StartupAssumption ==
    /\ Rows \subseteq {"in", "out"}
    /\ Accounts \subseteq {"owed", "symbol", "other"}
    /\ MaxCrashes \in Nat
    /\ None \notin {"manual", "income", "expense", "transfer", "internal_transfer",
                    "investment", "reimbursement", "reimbursed_expense"}

VARIABLES
    dialect,   \* "sqlite" or "postgresql"
    db,        \* the committed database
    status,    \* "down", "starting", "running" or "failed"
    at,        \* the next statement of a start
    noted,     \* what the running migration found before its first statement
    chosen,    \* accounts whose value source the user has set
    crashes

vars == <<dialect, db, status, at, noted, chosen, crashes>>

-----------------------------------------------------------------------------
(* The schema                                                              *)

\* The columns that migrations add, by table, in the order they add them.
TransactionColumns ==
    <<"original_amount", "original_currency", "fx_rate_to_eur", "fx_rate_source",
      "user_id">>

ImportBatchColumns == <<"user_id">>

InvestmentEventColumns ==
    <<"user_id", "funding_source", "funding_match_status", "matched_transaction_id">>

OwedItemColumns ==
    <<"source", "import_batch_id", "external_id", "dedupe_hash", "deleted_at">>

OwedPaymentColumns == <<"unallocated_category", "unallocated_notes">>

WealthSnapshotColumns ==
    <<"source", "import_batch_id", "external_id", "dedupe_hash">>

PreferenceColumns ==
    <<"monthly_investment_goal_eur", "monthly_trip_savings_goal_eur",
      "has_completed_onboarding">>

Names(columns) == {columns[n] : n \in DOMAIN columns}

Columns ==
    [transactions |-> Names(TransactionColumns) \cup {"cashflow_type"},
     import_batches |-> Names(ImportBatchColumns),
     investment_events |-> Names(InvestmentEventColumns),
     owed_items |-> Names(OwedItemColumns) \cup {"user_id"},
     owed_payments |-> Names(OwedPaymentColumns) \cup {"user_id"},
     owed_payment_allocations |-> {"user_id"},
     owed_item_events |-> {},
     wealth_accounts |-> {"user_id", "value_source", "value_reference"},
     wealth_snapshots |-> Names(WealthSnapshotColumns) \cup {"user_id"},
     cashflow_rules |-> {"user_id"},
     description_rules |-> {"user_id"},
     transaction_categories |-> {},
     import_previews |-> {"resolved_payload_sha256"},
     user_preferences |-> Names(PreferenceColumns),
     pending_signups |-> {}]

Tables == DOMAIN Columns

\* The order in which create_all makes missing tables: parents first.
ModelTables ==
    <<"import_batches", "import_previews", "cashflow_rules", "description_rules",
      "transaction_categories", "pending_signups", "user_preferences",
      "wealth_accounts", "transactions", "wealth_snapshots", "investment_events",
      "owed_items", "owed_payments", "owed_item_events", "owed_payment_allocations">>

RemovedTables == {"investment_funding_months", "category_rules"}

\* Tables with a unique (user_id, dedupe_hash), in the order of the migration.
DedupeTables ==
    <<"transactions", "investment_events", "owed_items", "wealth_snapshots">>

FOREIGN_KEYS ==
    {<<"transactions", "import_batch_id", "import_batches">>,
     <<"investment_events", "transaction_id", "transactions">>,
     <<"investment_events", "matched_transaction_id", "transactions">>,
     <<"investment_events", "import_batch_id", "import_batches">>,
     <<"owed_items", "linked_transaction_id", "transactions">>,
     <<"owed_items", "import_batch_id", "import_batches">>,
     <<"owed_payments", "linked_transaction_id", "transactions">>,
     <<"owed_payment_allocations", "owed_payment_id", "owed_payments">>,
     <<"owed_payment_allocations", "owed_item_id", "owed_items">>,
     <<"wealth_snapshots", "account_id", "wealth_accounts">>,
     <<"wealth_snapshots", "import_batch_id", "import_batches">>}

KeysOf(table) == {key \in FOREIGN_KEYS : key[1] = table}

CashflowTypes == {"income", "expense", "transfer"}

OldCashflowTypes ==
    {"income", "expense", "internal_transfer", "investment", "reimbursement",
     "reimbursed_expense"}

-----------------------------------------------------------------------------
(* The statements of a start                                               *)

Stmt(op, table, name) == [op |-> op, table |-> table, name |-> name]

AddColumns(table, names) ==
    [n \in DOMAIN names |-> Stmt("column", table, names[n])]

AddColumnTo(tables, name) ==
    [n \in DOMAIN tables |-> Stmt("column", tables[n], name)]

\* A table and then its indexes, unless the table is there.
CreateMissing(table) ==
    <<Stmt("table", table, None), Stmt("indexes", table, None)>>

\* Two statements for each table of a list, those of a table next to each other.
Pairs(tables, first, second) ==
    [n \in 1..2 * Len(tables) |->
        Stmt(IF n % 2 = 1 THEN first ELSE second, tables[(n + 1) \div 2], None)]

CreateAll == Pairs(ModelTables, "table", "indexes")

DropFundingMonths == <<Stmt("drop", "investment_funding_months", None)>>

DropCategoryRules == <<Stmt("drop", "category_rules", None)>>

TransactionCategoryMigrations == CreateMissing("transaction_categories")

TransactionMigrations ==
    AddColumns("transactions", TransactionColumns)
        \o <<Stmt("cashflow_column", "transactions", "cashflow_type"),
             Stmt("cashflow_backfill", "transactions", "cashflow_type")>>

InvestmentEventMigrations == AddColumns("investment_events", InvestmentEventColumns)

OwedItemMigrations == AddColumns("owed_items", OwedItemColumns)

OwedPaymentMigrations == AddColumns("owed_payments", OwedPaymentColumns)

OwedItemEventMigrations ==
    CreateMissing("owed_item_events") \o <<Stmt("baseline", "owed_items", None)>>

OwedUserMigrations ==
    AddColumnTo(<<"owed_items", "owed_payments", "owed_payment_allocations">>, "user_id")

RuleUserMigrations == AddColumnTo(<<"cashflow_rules", "description_rules">>, "user_id")

CashflowTypeMigrations ==
    <<Stmt("cashflow_rows", "transactions", None),
      Stmt("cashflow_rules", "cashflow_rules", None)>>

WealthMigrations ==
    CreateMissing("wealth_accounts") \o CreateMissing("wealth_snapshots")
        \o AddColumns("wealth_snapshots", WealthSnapshotColumns)

WealthUserMigrations == AddColumnTo(<<"wealth_accounts", "wealth_snapshots">>, "user_id")

WealthValueSourceMigrations ==
    <<Stmt("value_source", "wealth_accounts", "value_source"),
      Stmt("column", "wealth_accounts", "value_reference"),
      Stmt("classify", "wealth_accounts", "value_source")>>

ImportPreviewMigrations == AddColumns("import_previews", <<"resolved_payload_sha256">>)

UserPreferencesMigrations == AddColumns("user_preferences", PreferenceColumns)

PendingSignupMigrations == CreateMissing("pending_signups")

DedupeIndexMigrations == Pairs(DedupeTables, "drop_index", "create_index")

ForeignKeyMigrations ==
    <<Stmt("preflight", None, None), Stmt("temporary", None, None),
      Stmt("rebuild", None, None)>>

\* run_startup_migrations calls them in this order.
StartupMigrations ==
    DropFundingMonths \o TransactionCategoryMigrations \o DropCategoryRules
        \o TransactionMigrations \o AddColumns("import_batches", ImportBatchColumns)
        \o InvestmentEventMigrations
        \o OwedItemMigrations \o OwedPaymentMigrations \o OwedItemEventMigrations
        \o OwedUserMigrations \o RuleUserMigrations \o CashflowTypeMigrations
        \o WealthMigrations \o WealthUserMigrations \o WealthValueSourceMigrations
        \o ImportPreviewMigrations \o UserPreferencesMigrations
        \o PendingSignupMigrations \o DedupeIndexMigrations \o ForeignKeyMigrations

SqliteScript == CreateAll \o StartupMigrations

PostgresScript == <<Stmt("postgres", "transactions", "cashflow_type")>>

Script == IF dialect = "sqlite" THEN SqliteScript ELSE PostgresScript

-----------------------------------------------------------------------------
(* What the statements do                                                  *)

Has(table, column) == table \in db.tables /\ column \in db.columns[table]

\* What remains of an old cashflow type.
Simplified(type) ==
    CASE type \in {"internal_transfer", "investment", "transfer"} -> "transfer"
      [] type \in {"reimbursement", "income"} -> "income"
      [] OTHER -> "expense"

\* The value source the texts of an account call for.
Classified(account) ==
    CASE account = "owed" -> "owed"
      [] account = "symbol" -> "investment"
      [] OTHER -> "manual"

\* The start goes on with the next statement.
Goes == /\ at' = at + 1
        /\ status' = IF at = Len(Script) THEN "running" ELSE "starting"

Does(op) == status = "starting" /\ Script[at].op = op

Skip == Goes /\ UNCHANGED <<db, noted>>

\* An exception leaves the start, and the process ends.
Fails ==
    /\ status' = "failed" /\ at' = 0 /\ noted' = {}
    /\ UNCHANGED db

CreateTable ==
    /\ Does("table")
    /\ LET t == Script[at].table
       IN  IF t \in db.tables
           THEN Skip
           ELSE /\ db' = [db EXCEPT !.tables = @ \cup {t}, !.columns[t] = Columns[t],
                                    !.keys = @ \cup KeysOf(t)]
                /\ noted' = {t}
                /\ Goes

\* Only for a table this start has made.
CreateIndexes ==
    /\ Does("indexes")
    /\ LET t == Script[at].table
       IN  IF t \in noted
           THEN /\ db' = [db EXCEPT !.unique = @ \cup ({t} \cap Names(DedupeTables))]
                /\ noted' = {}
                /\ Goes
           ELSE Skip

DropTable ==
    /\ Does("drop")
    /\ db' = [db EXCEPT !.tables = @ \ {Script[at].table}]
    /\ Goes /\ UNCHANGED noted

\* A column added without looking whether it is there, used by a mutant.
AddColumnUnlooked ==
    /\ Does("column")
    /\ IF Has(Script[at].table, Script[at].name)
       THEN Fails
       ELSE /\ db' = [db EXCEPT !.columns[Script[at].table] = @ \cup {Script[at].name}]
            /\ Goes /\ UNCHANGED noted

\* _add_column_if_missing
AddColumn ==
    /\ Does("column")
    /\ LET s == Script[at]
       IN  db' = IF s.table \in db.tables
                 THEN [db EXCEPT !.columns[s.table] = @ \cup {s.name}]
                 ELSE db
    /\ Goes /\ UNCHANGED noted

AddCashflowColumn ==
    /\ Does("cashflow_column")
    /\ IF Has("transactions", "cashflow_type")
       THEN Skip
       ELSE /\ db' = [db EXCEPT !.columns["transactions"] = @ \cup {"cashflow_type"},
                                !.rows = [r \in DOMAIN @ |-> "expense"]]
            /\ noted' = {"cashflow_type"}
            /\ Goes

\* The column added and left empty, used by a mutant.
BackfillNothing == Does("cashflow_backfill") /\ Skip

\* In the block that adds the column, and not reached when the column is there.
BackfillCashflow ==
    /\ Does("cashflow_backfill")
    /\ db' = IF "cashflow_type" \in noted
             THEN [db EXCEPT !.rows = [r \in DOMAIN @ |-> IF r = "in" THEN "income" ELSE @[r]]]
             ELSE db
    /\ noted' = {}
    /\ Goes

\* One event for each item that has none; the query names item.user_id.
InsertBaseline ==
    /\ Does("baseline")
    /\ IF Has("owed_items", "user_id")
       THEN /\ db' = [db EXCEPT !.events = [i \in DOMAIN @ |-> IF @[i] = 0 THEN 1 ELSE @[i]]]
            /\ Goes /\ UNCHANGED noted
       ELSE Fails

\* The types of the rows kept as they were, used by a mutant.
RebuildKeepingTypes ==
    db' = [db EXCEPT !.simplified = TRUE, !.unique = @ \cup {"transactions"},
                     !.keys = @ \ KeysOf("transactions")]

\* A rebuilt table has the new CHECK, the unique index, and no foreign key.
RebuildTransactions ==
    db' = [db EXCEPT !.simplified = TRUE,
                     !.rows = [r \in DOMAIN @ |-> Simplified(@[r])],
                     !.unique = @ \cup {"transactions"},
                     !.keys = @ \ KeysOf("transactions")]

NormaliseTransactions ==
    db' = [db EXCEPT !.rows = [r \in DOMAIN @ |-> Simplified(@[r])]]

\* The rebuild inserts before it drops, in one transaction, and removes a
\* temporary table an interrupted one has left.
MigrateCashflowRows ==
    /\ Does("cashflow_rows")
    /\ IF db.simplified THEN NormaliseTransactions ELSE RebuildTransactions
    /\ Goes /\ UNCHANGED noted

MigrateCashflowRules ==
    /\ Does("cashflow_rules")
    /\ db' = [db EXCEPT !.rule = Simplified(@)]
    /\ Goes /\ UNCHANGED noted

AddValueSource ==
    /\ Does("value_source")
    /\ IF Has("wealth_accounts", "value_source")
       THEN Skip
       ELSE /\ db' = [db EXCEPT !.columns["wealth_accounts"] = @ \cup {"value_source"},
                                !.accounts = [a \in DOMAIN @ |-> "manual"]]
            /\ noted' = {"value_source"}
            /\ Goes

\* Accounts classified again at every start, used by a mutant.
ClassifyAtEveryStart ==
    /\ Does("classify")
    /\ db' = [db EXCEPT !.accounts = [a \in DOMAIN @ |-> Classified(a)]]
    /\ noted' = {}
    /\ Goes

\* Not when the column was there before.
ClassifyAccounts ==
    /\ Does("classify")
    /\ db' = IF "value_source" \in noted
             THEN [db EXCEPT !.accounts = [a \in DOMAIN @ |-> Classified(a)]]
             ELSE db
    /\ noted' = {}
    /\ Goes

DropDedupeIndex ==
    /\ Does("drop_index")
    /\ db' = [db EXCEPT !.global = @ \ {Script[at].table}]
    /\ Goes /\ UNCHANGED noted

CreateDedupeIndex ==
    /\ Does("create_index")
    /\ db' = [db EXCEPT !.unique = @ \cup {Script[at].table}]
    /\ Goes /\ UNCHANGED noted

\* The tables and columns a relationship needs.
SchemaSuffices ==
    \A key \in FOREIGN_KEYS :
        /\ {key[1], key[3]} \subseteq db.tables
        /\ Has(key[1], "user_id") /\ Has(key[3], "user_id")
        /\ key[2] \in Columns[key[1]] => Has(key[1], key[2])

\* Orphans stop every start, before a table is touched.
PreflightRelationships ==
    /\ Does("preflight")
    /\ IF SchemaSuffices /\ ~db.orphans
       THEN /\ noted' = {key[1] : key \in FOREIGN_KEYS \ db.keys}
            /\ Goes /\ UNCHANGED db
       ELSE Fails

\* The temporary copy of the first table is made before the transaction opens,
\* and refused when one is there.
CreateTemporaryTable ==
    /\ Does("temporary")
    /\ IF noted = {}
       THEN Skip
       ELSE IF db.temporary
       THEN Fails
       ELSE /\ db' = [db EXCEPT !.temporary = TRUE]
            /\ Goes /\ UNCHANGED noted

RebuildWithForeignKeys ==
    /\ Does("rebuild")
    /\ db' = IF noted = {} THEN db
             ELSE [db EXCEPT !.temporary = FALSE, !.keys = FOREIGN_KEYS]
    /\ noted' = {}
    /\ Goes

\* One DO block on PostgreSQL.
NormalisePostgres ==
    /\ Does("postgres")
    /\ db' = [db EXCEPT
                !.simplified = TRUE,
                !.rows = [r \in DOMAIN @ |->
                             IF @[r] \in CashflowTypes THEN @[r]
                             ELSE IF r = "in" THEN "income" ELSE "expense"]]
    /\ Goes /\ UNCHANGED noted

-----------------------------------------------------------------------------
(* The process                                                             *)

\* What an old release left: tables as they were, tables it did not have, old
\* values under an old CHECK, and orphans where a foreign key is missing.
OldDatabase(older, absent) ==
    LET Plain(t) == t \notin older \cup absent
        Kept(t, kept) == IF t \in absent THEN {} ELSE kept
        Rewritten == IF Plain("transactions") THEN BOOLEAN ELSE {"transactions" \in absent}
        keys == {key \in FOREIGN_KEYS : Plain(key[1])}
    IN  {[tables |-> (Tables \ absent) \cup removed,
          columns |-> [t \in Tables |-> IF Plain(t) THEN Columns[t] ELSE {}],
          unique |-> {t \in Names(DedupeTables) : Plain(t)},
          global |-> {t \in Names(DedupeTables) \ absent : t \in older},
          keys |-> keys,
          simplified |-> simplified,
          rows |-> [r \in Kept("transactions", Rows) |->
                       IF ~Plain("transactions") THEN None
                       ELSE IF simplified THEN "income"
                       ELSE IF r = "in" THEN "reimbursement" ELSE "internal_transfer"],
          rule |-> "internal_transfer",
          accounts |-> [a \in Kept("wealth_accounts", Accounts) |->
                           IF Plain("wealth_accounts") THEN "manual" ELSE None],
          events |-> [i \in Kept("owed_items", {"item"}) |->
                         IF Plain("owed_item_events") THEN 1 ELSE 0],
          orphans |-> orphans,
          temporary |-> FALSE] :
              removed \in {{}, RemovedTables}, simplified \in Rewritten,
              orphans \in {FALSE, keys # FOREIGN_KEYS /\ absent # Tables}}

\* Production, at the newest revision of Alembic but for the old cashflow types.
HostedDatabases ==
    [tables : {Tables}, columns : {Columns}, unique : {Names(DedupeTables)},
     global : {{}}, keys : {FOREIGN_KEYS}, simplified : {FALSE},
     rows : [Rows -> OldCashflowTypes \cup CashflowTypes], rule : {"income"},
     accounts : [Accounts -> {"manual"}], events : [{"item"} -> {1}],
     orphans : {FALSE}, temporary : {FALSE}]

Init ==
    /\ \/ /\ dialect = "sqlite"
          /\ \E older \in Ages, absent \in Absences : db \in OldDatabase(older, absent)
       \/ dialect = "postgresql" /\ db \in HostedDatabases
    /\ status = "down" /\ at = 0 /\ noted = {}
    /\ chosen = {}
    /\ crashes = 0

Start ==
    /\ status \in {"down", "failed"}
    /\ status' = "starting" /\ at' = 1 /\ noted' = {}
    /\ UNCHANGED db

Statement ==
    \/ CreateTable \/ CreateIndexes \/ DropTable \/ AddColumn
    \/ AddCashflowColumn \/ BackfillCashflow \/ InsertBaseline
    \/ MigrateCashflowRows \/ MigrateCashflowRules
    \/ AddValueSource \/ ClassifyAccounts
    \/ DropDedupeIndex \/ CreateDedupeIndex
    \/ PreflightRelationships \/ CreateTemporaryTable \/ RebuildWithForeignKeys
    \/ NormalisePostgres

\* The process is killed between two statements.
Crash ==
    /\ status = "starting" /\ crashes < MaxCrashes
    /\ crashes' = crashes + 1
    /\ status' = "down" /\ at' = 0 /\ noted' = {}
    /\ UNCHANGED <<dialect, db, chosen>>

Stop ==
    /\ status = "running"
    /\ status' = "down" /\ at' = 0
    /\ UNCHANGED <<dialect, db, noted, chosen, crashes>>

\* PATCH /api/wealth/accounts/{id}
ChooseValueSource(account) ==
    /\ status = "running" /\ account \in DOMAIN db.accounts
    /\ \E source \in {"manual", "owed", "investment"} :
        db' = [db EXCEPT !.accounts[account] = source]
    /\ chosen' = chosen \cup {account}
    /\ UNCHANGED <<dialect, status, at, noted, crashes>>

Next ==
    \/ (Start \/ Statement) /\ UNCHANGED <<dialect, chosen, crashes>>
    \/ Crash
    \/ Stop
    \/ \E account \in Accounts : ChooseValueSource(account)

\* A process that runs takes its next step, and one that ended is started again.
Fairness == WF_vars((Start \/ Statement) /\ UNCHANGED <<dialect, chosen, crashes>>)

Spec == Init /\ [][Next]_vars /\ Fairness

-----------------------------------------------------------------------------
(* Properties                                                              *)

\* Whatever an old release left and wherever earlier starts were cut off, a
\* backend that serves requests stands on the schema its models describe, and
\* no owed item is without its history or has its beginning twice.
ServesCurrentSchema ==
    (status = "running") =>
        /\ db.tables = Tables
        /\ \A t \in Tables : db.columns[t] = Columns[t]
        /\ db.global = {} /\ db.unique = Names(DedupeTables)
        /\ db.keys = FOREIGN_KEYS /\ ~db.orphans
        /\ db.simplified /\ \A r \in DOMAIN db.rows : db.rows[r] \in CashflowTypes
        /\ \A i \in DOMAIN db.events : db.events[i] = 1

\* Starts that are not cut off fill the columns they add: money in is income,
\* and an account is valued by what its texts mention until the user says otherwise.
BackfilledUnlessCutOff ==
    /\ (\A r \in DOMAIN db.rows : db.rows[r] = None) =>
          [](status = "running" /\ crashes = 0 =>
                \A r \in DOMAIN db.rows : db.rows[r] = IF r = "in" THEN "income" ELSE "expense")
    /\ (\A a \in DOMAIN db.accounts : db.accounts[a] = None) =>
          [](status = "running" /\ crashes = 0 =>
                \A a \in DOMAIN db.accounts \ chosen : db.accounts[a] = Classified(a))

\* A later start never overrules the value source a user has set.
ChoicesOutliveStarts ==
    [][status # "running" =>
          \A a \in chosen : db'.accounts[a] = db.accounts[a]]_vars

\* What no start gets past: rows whose parent is gone, owed items older than
\* their owner column, and the temporary table a rebuild was cut off after.
Blocked ==
    \/ db.orphans
    \/ "owed_items" \in db.tables /\ ~Has("owed_items", "user_id")
    \/ db.temporary

\* Once starts are no longer cut off, one of them reaches the end and serves.
EventuallyServes == []<>(status = "running" \/ Blocked)

=============================================================================
