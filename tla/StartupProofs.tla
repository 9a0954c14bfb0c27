----------------------------- MODULE StartupProofs -----------------------------
(***************************************************************************)
(* What holds of Startup for every database an old release may have left,  *)
(* every set of rows and accounts and any number of interrupted starts.    *)
(***************************************************************************)
EXTENDS Startup, TLAPS

-----------------------------------------------------------------------------
(* The script                                                              *)
(*                                                                         *)
(* A start is a sequence of some ninety statements.  The proofs need to    *)
(* know which statements it holds, that each is well formed, and what      *)
(* stands next to the few that depend on their neighbours.                 *)

Operations ==
    {"table", "indexes", "drop", "column", "cashflow_column", "cashflow_backfill",
     "baseline", "cashflow_rows", "cashflow_rules", "value_source", "classify",
     "drop_index", "create_index", "preflight", "temporary", "rebuild"}

\* Statements on tables of the schema, columns of those tables, and the tables
\* that a release has removed.
WellFormed(s) ==
    /\ s.op \in Operations
    /\ s.op = "table" => s.table \in Tables
    /\ s.op = "column" => /\ s.table \in Tables /\ s.name \in Columns[s.table]
                          /\ s.name \notin {"cashflow_type", "value_source"}
    /\ s.op \in {"drop_index", "create_index"} => s.table \in Names(DedupeTables)
    /\ s.op = "drop" => s.table \in RemovedTables

AnyTable == Tables \cup RemovedTables \cup {None}

ColumnNames == UNION {Columns[t] : t \in Tables}

AnyName == ColumnNames \cup {None}

AnyStatement == [op : Operations, table : AnyTable, name : AnyName]

Statements == {s \in AnyStatement : WellFormed(s)}

\* The tables, one by one.
LEMMA TablesListed ==
    Tables = {"transactions", "import_batches", "investment_events", "owed_items",
              "owed_payments", "owed_payment_allocations", "owed_item_events",
              "wealth_accounts", "wealth_snapshots", "cashflow_rules",
              "description_rules", "transaction_categories", "import_previews",
              "user_preferences", "pending_signups"}
BY DEF Tables, Columns

\* The columns, table by table.
LEMMA ColumnsListed ==
    /\ Columns["transactions"] =
          {"original_amount", "original_currency", "fx_rate_to_eur", "fx_rate_source",
           "user_id", "cashflow_type"}
    /\ Columns["import_batches"] = {"user_id"}
    /\ Columns["investment_events"] =
          {"user_id", "funding_source", "funding_match_status", "matched_transaction_id"}
    /\ Columns["owed_items"] =
          {"source", "import_batch_id", "external_id", "dedupe_hash", "deleted_at",
           "user_id"}
    /\ Columns["owed_payments"] = {"unallocated_category", "unallocated_notes", "user_id"}
    /\ Columns["owed_payment_allocations"] = {"user_id"}
    /\ Columns["owed_item_events"] = {}
    /\ Columns["wealth_accounts"] = {"user_id", "value_source", "value_reference"}
    /\ Columns["wealth_snapshots"] =
          {"source", "import_batch_id", "external_id", "dedupe_hash", "user_id"}
    /\ Columns["cashflow_rules"] = {"user_id"}
    /\ Columns["description_rules"] = {"user_id"}
    /\ Columns["transaction_categories"] = {}
    /\ Columns["import_previews"] = {"resolved_payload_sha256"}
    /\ Columns["user_preferences"] =
          {"monthly_investment_goal_eur", "monthly_trip_savings_goal_eur",
           "has_completed_onboarding"}
    /\ Columns["pending_signups"] = {}
<1>1. Names(TransactionColumns) =
         {"original_amount", "original_currency", "fx_rate_to_eur", "fx_rate_source",
          "user_id"}
  BY DEF Names, TransactionColumns
<1>2. Names(ImportBatchColumns) = {"user_id"}
  BY DEF Names, ImportBatchColumns
<1>3. Names(InvestmentEventColumns) =
         {"user_id", "funding_source", "funding_match_status", "matched_transaction_id"}
  BY DEF Names, InvestmentEventColumns
<1>4. Names(OwedItemColumns) =
         {"source", "import_batch_id", "external_id", "dedupe_hash", "deleted_at"}
  BY DEF Names, OwedItemColumns
<1>5. Names(OwedPaymentColumns) = {"unallocated_category", "unallocated_notes"}
  BY DEF Names, OwedPaymentColumns
<1>6. Names(WealthSnapshotColumns) =
         {"source", "import_batch_id", "external_id", "dedupe_hash"}
  BY DEF Names, WealthSnapshotColumns
<1>7. Names(PreferenceColumns) =
         {"monthly_investment_goal_eur", "monthly_trip_savings_goal_eur",
          "has_completed_onboarding"}
  BY DEF Names, PreferenceColumns
<1> QED
  BY <1>1, <1>2, <1>3, <1>4, <1>5, <1>6, <1>7 DEF Columns

\* The lists that name tables name all of them, and the four with a dedupe hash.
LEMMA ListsOfTables ==
    /\ Names(ModelTables) = Tables
    /\ Names(DedupeTables) =
          {"transactions", "investment_events", "owed_items", "wealth_snapshots"}
    /\ Names(DedupeTables) \subseteq Tables
    /\ RemovedTables \cap Tables = {}
<1>1. Names(ModelTables) =
         {"import_batches", "import_previews", "cashflow_rules", "description_rules",
          "transaction_categories", "pending_signups", "user_preferences",
          "wealth_accounts", "transactions", "wealth_snapshots", "investment_events",
          "owed_items", "owed_payments", "owed_item_events", "owed_payment_allocations"}
  BY DEF Names, ModelTables
<1>2. Names(DedupeTables) =
         {"transactions", "investment_events", "owed_items", "wealth_snapshots"}
  BY DEF Names, DedupeTables
<1> QED
  BY <1>1, <1>2, TablesListed DEF RemovedTables

\* What joining two sequences does to their positions and their elements.
LEMMA Joined ==
    ASSUME NEW S, NEW s \in Seq(S), NEW t \in Seq(S)
    PROVE  /\ s \o t \in Seq(S)
           /\ Len(s) \in Nat /\ Len(t) \in Nat
           /\ Len(s \o t) = Len(s) + Len(t)
           /\ \A n \in 1..Len(s) : (s \o t)[n] = s[n]
           /\ \A n \in 1..Len(t) : (s \o t)[Len(s) + n] = t[n]
           /\ \A n \in 1..Len(s) + Len(t) : n > Len(s) =>
                 n - Len(s) \in 1..Len(t) /\ (s \o t)[n] = t[n - Len(s)]
           /\ Names(s \o t) = Names(s) \cup Names(t)
<1>1. /\ s \o t \in Seq(S) /\ Len(s) \in Nat /\ Len(t) \in Nat
      /\ Len(s \o t) = Len(s) + Len(t)
      /\ DOMAIN s = 1..Len(s) /\ DOMAIN t = 1..Len(t)
      /\ DOMAIN (s \o t) = 1..Len(s) + Len(t)
  OBVIOUS
<1>2. \A n \in 1..Len(s) : (s \o t)[n] = s[n]
  OBVIOUS
<1>3. \A n \in 1..Len(s) + Len(t) : n > Len(s) =>
         n - Len(s) \in 1..Len(t) /\ (s \o t)[n] = t[n - Len(s)]
  OBVIOUS
<1>4. \A n \in 1..Len(t) : (s \o t)[Len(s) + n] = t[n]
  <2> TAKE n \in 1..Len(t)
  <2>1. /\ Len(s) + n \in 1..Len(s) + Len(t) /\ Len(s) + n > Len(s)
        /\ (Len(s) + n) - Len(s) = n
    BY <1>1
  <2> QED
    BY <2>1, <1>3
<1>5. ASSUME NEW x \in Names(s \o t)
      PROVE  x \in Names(s) \cup Names(t)
  <2>1. PICK n \in 1..Len(s) + Len(t) : x = (s \o t)[n]
    BY <1>1, <1>5 DEF Names
  <2>2. CASE n \in 1..Len(s)
    BY <2>1, <2>2, <1>1, <1>2 DEF Names
  <2>3. CASE n > Len(s)
    <3>1. n - Len(s) \in DOMAIN t /\ x = t[n - Len(s)]
      BY <2>1, <2>3, <1>1, <1>3
    <3> QED
      BY <3>1 DEF Names
  <2> QED
    BY <2>2, <2>3, <1>1
<1>6. ASSUME NEW x \in Names(s) PROVE x \in Names(s \o t)
  <2>1. PICK n \in 1..Len(s) : x = s[n]
    BY <1>1, <1>6 DEF Names
  <2>2. n \in DOMAIN (s \o t) /\ x = (s \o t)[n]
    BY <2>1, <1>1, <1>2
  <2> QED
    BY <2>2 DEF Names
<1>7. ASSUME NEW x \in Names(t) PROVE x \in Names(s \o t)
  <2>1. PICK n \in 1..Len(t) : x = t[n]
    BY <1>1, <1>7 DEF Names
  <2>2. Len(s) + n \in DOMAIN (s \o t) /\ x = (s \o t)[Len(s) + n]
    BY <2>1, <1>1, <1>4
  <2> QED
    BY <2>2 DEF Names
<1> QED
  BY <1>1, <1>2, <1>3, <1>4, <1>5, <1>6, <1>7

\* The two statements of each table of a list, in pairs.
LEMMA PairsOfStatements ==
    ASSUME NEW S, NEW tables \in Seq(S), NEW first, NEW second
    PROVE  LET pairs == Pairs(tables, first, second)
           IN  /\ DOMAIN pairs = 1..2 * Len(tables) /\ Len(pairs) = 2 * Len(tables)
               /\ Names(pairs) =
                     {Stmt(op, t, None) : op \in {first, second}, t \in Names(tables)}
               /\ \A X : Names(pairs) \subseteq X => pairs \in Seq(X)
<1> DEFINE pairs == Pairs(tables, first, second)
<1>1. Len(tables) \in Nat /\ DOMAIN tables = 1..Len(tables)
  OBVIOUS
<1>2. DOMAIN pairs = 1..2 * Len(tables) /\ 2 * Len(tables) \in Nat
  BY <1>1 DEF Pairs
<1>3. \A n \in 1..2 * Len(tables) :
         pairs[n] = Stmt(IF n % 2 = 1 THEN first ELSE second, tables[(n + 1) \div 2], None)
  BY <1>2 DEF Pairs
<1>4. ASSUME NEW x \in Names(pairs)
      PROVE  \E op \in {first, second}, t \in Names(tables) : x = Stmt(op, t, None)
  <2>1. PICK n \in 1..2 * Len(tables) : x = pairs[n]
    BY <1>2, <1>4 DEF Names
  <2>2. (n + 1) \div 2 \in DOMAIN tables
    BY <1>1
  <2>3. tables[(n + 1) \div 2] \in Names(tables)
    BY <2>2 DEF Names
  <2> QED
    BY <2>1, <2>3, <1>3
<1>5. ASSUME NEW op \in {first, second}, NEW t \in Names(tables)
      PROVE  Stmt(op, t, None) \in Names(pairs)
  <2>1. PICK m \in 1..Len(tables) : t = tables[m]
    BY <1>1 DEF Names
  <2>2. CASE op = first
    <3>1. /\ 2 * m - 1 \in 1..2 * Len(tables) /\ (2 * m - 1) % 2 = 1
          /\ ((2 * m - 1) + 1) \div 2 = m
      BY <1>1
    <3>2. pairs[2 * m - 1] = Stmt(op, t, None)
      BY <2>1, <2>2, <3>1, <1>3
    <3> QED
      BY <3>1, <3>2, <1>2 DEF Names
  <2>3. CASE op = second
    <3>1. /\ 2 * m \in 1..2 * Len(tables) /\ (2 * m) % 2 # 1
          /\ (2 * m + 1) \div 2 = m
      BY <1>1
    <3>2. pairs[2 * m] = Stmt(op, t, None)
      BY <2>1, <2>3, <3>1, <1>3
    <3> QED
      BY <3>1, <3>2, <1>2 DEF Names
  <2> QED
    BY <2>2, <2>3
<1>6. Names(pairs) = {Stmt(op, t, None) : op \in {first, second}, t \in Names(tables)}
  BY <1>4, <1>5
<1>7. Len(pairs) = 2 * Len(tables)
  BY <1>2 DEF Pairs
<1>8. ASSUME NEW X, Names(pairs) \subseteq X PROVE pairs \in Seq(X)
  <2>1. \A n \in 1..2 * Len(tables) : pairs[n] \in X
    BY <1>2, <1>8 DEF Names
  <2>2. pairs = [n \in 1..2 * Len(tables) |-> pairs[n]]
    BY <1>2 DEF Pairs
  <2>3. pairs \in [1..2 * Len(tables) -> X]
    BY <2>1, <2>2
  <2> HIDE DEF pairs
  <2> QED
    BY <2>3, <1>2
<1> HIDE DEF pairs
<1>9. QED
  BY <1>2, <1>6, <1>7, <1>8 DEF pairs

\* What a statement is to its neighbours.
Kind(s) ==
    IF s.op = "column" /\ s.name = "value_reference" THEN "value_reference" ELSE s.op

\* Statements that always stand together, in this order.
Partners ==
    {<<"cashflow_column", "cashflow_backfill">>,
     <<"value_source", "value_reference">>, <<"value_reference", "classify">>,
     <<"preflight", "temporary">>, <<"temporary", "rebuild">>}

PartnerKinds ==
    {"cashflow_column", "cashflow_backfill", "value_source", "value_reference",
     "classify", "preflight", "temporary", "rebuild"}

Chained(s) ==
    \A pair \in Partners : \A n \in 1..Len(s) :
        /\ Kind(s[n]) = pair[1] => n + 1 \in 1..Len(s) /\ Kind(s[n + 1]) = pair[2]
        /\ Kind(s[n]) = pair[2] => n - 1 \in 1..Len(s) /\ Kind(s[n - 1]) = pair[1]

\* A part of the script with no partners in it is chained.
LEMMA PlainIsChained ==
    ASSUME NEW s \in Seq(Statements), \A x \in Names(s) : Kind(x) \notin PartnerKinds
    PROVE  Chained(s)
<1>1. \A n \in 1..Len(s) : s[n] \in Names(s)
  BY DEF Names
<1>2. \A pair \in Partners : pair[1] \in PartnerKinds /\ pair[2] \in PartnerKinds
  BY DEF Partners, PartnerKinds
<1> QED
  BY <1>1, <1>2 DEF Chained

\* Joined, two parts that are chained are chained.
LEMMA JoinedIsChained ==
    ASSUME NEW s \in Seq(Statements), NEW t \in Seq(Statements), Chained(s), Chained(t)
    PROVE  Chained(s \o t)
<1>1. /\ Len(s) \in Nat /\ Len(t) \in Nat
      /\ Len(s \o t) = Len(s) + Len(t)
      /\ \A n \in 1..Len(s) : (s \o t)[n] = s[n]
      /\ \A n \in 1..Len(t) : (s \o t)[Len(s) + n] = t[n]
      /\ \A n \in 1..Len(s) + Len(t) : n > Len(s) =>
            n - Len(s) \in 1..Len(t) /\ (s \o t)[n] = t[n - Len(s)]
  BY Joined
<1> SUFFICES ASSUME NEW pair \in Partners, NEW n \in 1..Len(s) + Len(t)
             PROVE  /\ Kind((s \o t)[n]) = pair[1] =>
                          n + 1 \in 1..Len(s) + Len(t) /\ Kind((s \o t)[n + 1]) = pair[2]
                    /\ Kind((s \o t)[n]) = pair[2] =>
                          n - 1 \in 1..Len(s) + Len(t) /\ Kind((s \o t)[n - 1]) = pair[1]
  BY <1>1 DEF Chained
<1>2. CASE n \in 1..Len(s)
  <2>1. /\ Kind(s[n]) = pair[1] => n + 1 \in 1..Len(s) /\ Kind(s[n + 1]) = pair[2]
        /\ Kind(s[n]) = pair[2] => n - 1 \in 1..Len(s) /\ Kind(s[n - 1]) = pair[1]
    BY <1>2 DEF Chained
  <2> QED
    BY <2>1, <1>1, <1>2
<1>3. CASE n > Len(s)
  <2> DEFINE m == n - Len(s)
  <2>1. m \in 1..Len(t) /\ (s \o t)[n] = t[m] /\ n = Len(s) + m
    BY <1>1, <1>3
  <2>2. /\ Kind(t[m]) = pair[1] => m + 1 \in 1..Len(t) /\ Kind(t[m + 1]) = pair[2]
        /\ Kind(t[m]) = pair[2] => m - 1 \in 1..Len(t) /\ Kind(t[m - 1]) = pair[1]
    BY <2>1 DEF Chained
  <2>3. ASSUME m + 1 \in 1..Len(t)
        PROVE  n + 1 \in 1..Len(s) + Len(t) /\ (s \o t)[n + 1] = t[m + 1]
    <3>1. n + 1 = Len(s) + (m + 1)
      BY <2>1, <1>1
    <3> QED
      BY <3>1, <2>3, <1>1
  <2>4. ASSUME m - 1 \in 1..Len(t)
        PROVE  n - 1 \in 1..Len(s) + Len(t) /\ (s \o t)[n - 1] = t[m - 1]
    <3>1. n - 1 = Len(s) + (m - 1)
      BY <2>1, <1>1
    <3> QED
      BY <3>1, <2>4, <1>1
  <2> HIDE DEF m
  <2> QED
    BY <2>1, <2>2, <2>3, <2>4
<1> QED
  BY <1>1, <1>2, <1>3

\* What chaining says of two partners.
LEMMA Neighbours ==
    ASSUME NEW s, Chained(s), NEW first, NEW second, <<first, second>> \in Partners,
           NEW n \in 1..Len(s)
    PROVE  /\ Kind(s[n]) = first => n + 1 \in 1..Len(s) /\ Kind(s[n + 1]) = second
           /\ Kind(s[n]) = second => n - 1 \in 1..Len(s) /\ Kind(s[n - 1]) = first
<1> DEFINE pair == <<first, second>>
<1>1. pair \in Partners /\ pair[1] = first /\ pair[2] = second
  OBVIOUS
<1> HIDE DEF pair
<1> QED
  BY <1>1 DEF Chained

\* A part of the script: statements that are well formed and chained.
Part(s) == s \in Seq(Statements) /\ Chained(s)

\* Joining keeps parts and collects their statements.
LEMMA JoinedPair ==
    ASSUME NEW a, NEW b, Part(a), Part(b)
    PROVE  Part(a \o b) /\ Names(a \o b) = Names(a) \cup Names(b)
<1>1. a \in Seq(Statements) /\ b \in Seq(Statements) /\ Chained(a) /\ Chained(b)
  BY DEF Part
<1>2. a \o b \in Seq(Statements) /\ Names(a \o b) = Names(a) \cup Names(b)
  BY <1>1, Joined
<1>3. Chained(a \o b)
  BY <1>1, JoinedIsChained
<1> QED
  BY <1>2, <1>3 DEF Part

\* The same for four in a row.
LEMMA JoinedParts ==
    ASSUME NEW a, NEW b, NEW c, NEW d, Part(a), Part(b), Part(c), Part(d)
    PROVE  /\ Part(a \o b \o c \o d)
           /\ Names(a \o b \o c \o d) = Names(a) \cup Names(b) \cup Names(c) \cup Names(d)
<1>1. Part(a \o b) /\ Names(a \o b) = Names(a) \cup Names(b)
  BY JoinedPair
<1>2. Part(a \o b \o c) /\ Names(a \o b \o c) = Names(a \o b) \cup Names(c)
  BY <1>1, JoinedPair
<1>3. /\ Part(a \o b \o c \o d)
      /\ Names(a \o b \o c \o d) = Names(a \o b \o c) \cup Names(d)
  BY <1>2, JoinedPair
<1> QED
  BY <1>1, <1>2, <1>3

\* The statements that add columns to a table, or a column to some tables.
LEMMA ColumnStatements ==
    ASSUME NEW S, NEW names \in Seq(S), NEW x
    PROVE  /\ Names(AddColumns(x, names)) = {Stmt("column", x, c) : c \in Names(names)}
           /\ Names(AddColumnTo(names, x)) = {Stmt("column", t, x) : t \in Names(names)}
           /\ Names(AddColumns(x, names)) \subseteq Statements =>
                 AddColumns(x, names) \in Seq(Statements)
           /\ Names(AddColumnTo(names, x)) \subseteq Statements =>
                 AddColumnTo(names, x) \in Seq(Statements)
<1>1. DOMAIN names = 1..Len(names) /\ Len(names) \in Nat
  OBVIOUS
<1>2. Names(AddColumns(x, names)) = {Stmt("column", x, c) : c \in Names(names)}
  BY DEF Names, AddColumns
<1>3. Names(AddColumnTo(names, x)) = {Stmt("column", t, x) : t \in Names(names)}
  BY DEF Names, AddColumnTo
<1>4. ASSUME Names(AddColumns(x, names)) \subseteq Statements
      PROVE  AddColumns(x, names) \in Seq(Statements)
  BY <1>1, <1>4 DEF Names, AddColumns
<1>5. ASSUME Names(AddColumnTo(names, x)) \subseteq Statements
      PROVE  AddColumnTo(names, x) \in Seq(Statements)
  BY <1>1, <1>5 DEF Names, AddColumnTo
<1> QED
  BY <1>2, <1>3, <1>4, <1>5

\* What a statement may name.
LEMMA MayName ==
    /\ Tables \subseteq AnyTable /\ RemovedTables \subseteq AnyTable /\ None \in AnyTable
    /\ None \in AnyName /\ \A t \in Tables : Columns[t] \subseteq AnyName
<1>1. ASSUME NEW t \in Tables, NEW c \in Columns[t]
      PROVE  c \in AnyName
  <2>1. Columns[t] \in {Columns[u] : u \in Tables}
    OBVIOUS
  <2> QED
    BY <2>1, <1>1 DEF AnyName, ColumnNames
<1>2. None \in AnyName
  BY DEF AnyName
<1>3. Tables \subseteq AnyTable /\ RemovedTables \subseteq AnyTable /\ None \in AnyTable
  BY DEF AnyTable
<1> QED
  BY <1>1, <1>2, <1>3

\* A statement of a kind that names no column of the schema but its own.
LEMMA StatementFits ==
    ASSUME NEW op \in Operations, NEW t \in AnyTable, NEW c \in AnyName,
           WellFormed(Stmt(op, t, c))
    PROVE  Stmt(op, t, c) \in Statements
BY DEF Statements, AnyStatement, Stmt

\* A table of the schema made where it is missing.
LEMMA CreateMissingPart ==
    ASSUME NEW t \in Tables
    PROVE  /\ Part(CreateMissing(t))
           /\ Names(CreateMissing(t)) = {Stmt("table", t, None), Stmt("indexes", t, None)}
<1> DEFINE a == Stmt("table", t, None)
           b == Stmt("indexes", t, None)
<1>1. a \in Statements /\ b \in Statements
  <2>1. /\ WellFormed(Stmt("table", t, None)) /\ WellFormed(Stmt("indexes", t, None))
        /\ "table" \in Operations /\ "indexes" \in Operations
        /\ t \in AnyTable /\ None \in AnyName
    BY MayName DEF WellFormed, Stmt, Operations
  <2>2. Stmt("table", t, None) \in Statements
    BY <2>1, StatementFits
  <2>3. Stmt("indexes", t, None) \in Statements
    BY <2>1, StatementFits
  <2> QED
    BY <2>2, <2>3
<1>2. Kind(a) \notin PartnerKinds /\ Kind(b) \notin PartnerKinds
  BY DEF Kind, PartnerKinds, Stmt
<1> HIDE DEF a, b
<1>3. CreateMissing(t) = <<a, b>>
  BY DEF CreateMissing, a, b
<1>4. <<a, b>> \in Seq(Statements) /\ Names(<<a, b>>) = {a, b}
  BY <1>1 DEF Names
<1>5. Part(CreateMissing(t))
  BY <1>2, <1>3, <1>4, PlainIsChained DEF Part
<1> QED
  BY <1>3, <1>4, <1>5 DEF a, b

\* A column of a table of the schema, of those added one by one.
PlainColumns(t) == Columns[t] \ {"cashflow_type", "value_source", "value_reference"}

\* The statement that adds a column of a model is one a script may hold, and has no partner.
LEMMA ColumnFits ==
    ASSUME NEW t \in Tables, NEW c \in PlainColumns(t)
    PROVE  Stmt("column", t, c) \in Statements /\ Kind(Stmt("column", t, c)) \notin PartnerKinds
<1>1. WellFormed(Stmt("column", t, c))
  BY DEF WellFormed, Stmt, Operations, PlainColumns
<1>2. Stmt("column", t, c) \in Statements
  BY <1>1, StatementFits, MayName DEF Operations, PlainColumns
<1>3. Kind(Stmt("column", t, c)) \notin PartnerKinds
  BY DEF Kind, PartnerKinds, Stmt, PlainColumns
<1> QED
  BY <1>2, <1>3

\* Columns added to one table.
LEMMA AddColumnsPart ==
    ASSUME NEW t \in Tables, NEW S, NEW names \in Seq(S),
           Names(names) \subseteq PlainColumns(t)
    PROVE  /\ Part(AddColumns(t, names))
           /\ Names(AddColumns(t, names)) = {Stmt("column", t, c) : c \in Names(names)}
<1>1. Names(AddColumns(t, names)) = {Stmt("column", t, c) : c \in Names(names)}
  BY ColumnStatements
<1>2. \A s \in Names(AddColumns(t, names)) : s \in Statements /\ Kind(s) \notin PartnerKinds
  BY <1>1, ColumnFits
<1>3. AddColumns(t, names) \in Seq(Statements)
  BY <1>2, ColumnStatements
<1>4. Part(AddColumns(t, names))
  BY <1>2, <1>3, PlainIsChained DEF Part
<1> QED
  BY <1>1, <1>4

\* One column added to some tables.
LEMMA AddColumnToPart ==
    ASSUME NEW c, NEW S, NEW tables \in Seq(S),
           \A t \in Names(tables) : t \in Tables /\ c \in PlainColumns(t)
    PROVE  /\ Part(AddColumnTo(tables, c))
           /\ Names(AddColumnTo(tables, c)) = {Stmt("column", t, c) : t \in Names(tables)}
<1>1. Names(AddColumnTo(tables, c)) = {Stmt("column", t, c) : t \in Names(tables)}
  BY ColumnStatements
<1>2. \A s \in Names(AddColumnTo(tables, c)) :
         s \in Statements /\ Kind(s) \notin PartnerKinds
  BY <1>1, ColumnFits
<1>3. AddColumnTo(tables, c) \in Seq(Statements)
  BY <1>2, ColumnStatements
<1>4. Part(AddColumnTo(tables, c))
  BY <1>2, <1>3, PlainIsChained DEF Part
<1> QED
  BY <1>1, <1>4

\* A list of tables treated in pairs of statements.
LEMMA PairsPart ==
    ASSUME NEW S, NEW tables \in Seq(S), NEW first, NEW second,
           \A t \in Names(tables), op \in {first, second} :
              Stmt(op, t, None) \in Statements /\ Kind(Stmt(op, t, None)) \notin PartnerKinds
    PROVE  /\ Part(Pairs(tables, first, second))
           /\ Names(Pairs(tables, first, second)) =
                 {Stmt(op, t, None) : op \in {first, second}, t \in Names(tables)}
<1>1. /\ Names(Pairs(tables, first, second)) =
            {Stmt(op, t, None) : op \in {first, second}, t \in Names(tables)}
      /\ \A X : Names(Pairs(tables, first, second)) \subseteq X
                   => Pairs(tables, first, second) \in Seq(X)
  BY PairsOfStatements
<1>2. \A s \in Names(Pairs(tables, first, second)) :
         s \in Statements /\ Kind(s) \notin PartnerKinds
  BY <1>1
<1>3. Pairs(tables, first, second) \in Seq(Statements)
  BY <1>1, <1>2
<1>4. Part(Pairs(tables, first, second))
  BY <1>2, <1>3, PlainIsChained DEF Part
<1> QED
  BY <1>1, <1>4

\* A statement of an operation that names no column among those added one by one.
LEMMA OtherFits ==
    ASSUME NEW op \in Operations \ {"column", "table"},
           NEW t \in AnyTable, NEW c \in AnyName,
           op \in {"drop_index", "create_index"} => t \in Names(DedupeTables),
           op = "drop" => t \in RemovedTables
    PROVE  Stmt(op, t, c) \in Statements /\ Kind(Stmt(op, t, c)) = op
<1>1. WellFormed(Stmt(op, t, c))
  BY DEF WellFormed, Stmt
<1>2. Stmt(op, t, c) \in Statements
  BY <1>1, StatementFits
<1> QED
  BY <1>2 DEF Kind, Stmt

\* The tables that may be missing are made first, then two that a release
\* removed are dropped, and later ones made where create_all was not reached.
LEMMA TableParts ==
    /\ Part(CreateAll)
    /\ \A t \in Tables : Stmt("table", t, None) \in Names(CreateAll)
    /\ Part(DropFundingMonths) /\ Part(DropCategoryRules)
    /\ Stmt("drop", "investment_funding_months", None) \in Names(DropFundingMonths)
    /\ Stmt("drop", "category_rules", None) \in Names(DropCategoryRules)
    /\ Part(TransactionCategoryMigrations) /\ Part(PendingSignupMigrations)
<1>1. /\ Part(CreateAll)
      /\ Names(CreateAll) = {Stmt(op, t, None) : op \in {"table", "indexes"}, t \in Tables}
  <2>1. ModelTables \in Seq(Tables)
    BY TablesListed DEF ModelTables
  <2>2. \A t \in Tables : /\ Stmt("table", t, None) \in Statements
                          /\ Stmt("indexes", t, None) \in Statements
    <3> TAKE t \in Tables
    <3>1. /\ WellFormed(Stmt("table", t, None)) /\ WellFormed(Stmt("indexes", t, None))
          /\ "table" \in Operations /\ "indexes" \in Operations
          /\ t \in AnyTable /\ None \in AnyName
      BY MayName DEF WellFormed, Stmt, Operations
    <3>2. Stmt("table", t, None) \in Statements
      BY <3>1, StatementFits
    <3>3. Stmt("indexes", t, None) \in Statements
      BY <3>1, StatementFits
    <3> QED
      BY <3>2, <3>3
  <2>3. \A t \in Tables : /\ Kind(Stmt("table", t, None)) \notin PartnerKinds
                          /\ Kind(Stmt("indexes", t, None)) \notin PartnerKinds
    BY DEF Kind, PartnerKinds, Stmt
  <2>4. /\ Part(Pairs(ModelTables, "table", "indexes"))
        /\ Names(Pairs(ModelTables, "table", "indexes")) =
              {Stmt(op, t, None) : op \in {"table", "indexes"}, t \in Names(ModelTables)}
    BY <2>1, <2>2, <2>3, ListsOfTables, PairsPart
  <2> QED
    BY <2>4, ListsOfTables DEF CreateAll
<1>2. ASSUME NEW t \in RemovedTables
      PROVE  Part(<<Stmt("drop", t, None)>>)
  <2>1. /\ "drop" \in Operations \ {"column", "table"} /\ "drop" \notin PartnerKinds
        /\ t \in AnyTable /\ None \in AnyName
    BY MayName DEF Operations, PartnerKinds
  <2>2. Stmt("drop", t, None) \in Statements /\ Kind(Stmt("drop", t, None)) \notin PartnerKinds
    BY <2>1, OtherFits
  <2>3. /\ <<Stmt("drop", t, None)>> \in Seq(Statements)
        /\ Names(<<Stmt("drop", t, None)>>) = {Stmt("drop", t, None)}
    BY <2>2 DEF Names
  <2> QED
    BY <2>2, <2>3, PlainIsChained DEF Part
<1>3. Part(DropFundingMonths) /\ Part(DropCategoryRules)
  BY <1>2 DEF DropFundingMonths, DropCategoryRules, RemovedTables
<1>4. /\ Stmt("drop", "investment_funding_months", None) \in Names(DropFundingMonths)
      /\ Stmt("drop", "category_rules", None) \in Names(DropCategoryRules)
  BY DEF DropFundingMonths, DropCategoryRules, Names
<1>5. Part(TransactionCategoryMigrations) /\ Part(PendingSignupMigrations)
  BY CreateMissingPart, TablesListed DEF TransactionCategoryMigrations, PendingSignupMigrations
<1> QED
  BY <1>1, <1>3, <1>4, <1>5

\* The columns of transactions and of the import and investment tables.
LEMMA TransactionParts ==
    /\ Part(TransactionMigrations)
    /\ Names(TransactionMigrations) =
          {Stmt("column", "transactions", c) : c \in Names(TransactionColumns)}
             \cup {Stmt("cashflow_column", "transactions", "cashflow_type"),
                   Stmt("cashflow_backfill", "transactions", "cashflow_type")}
    /\ Part(AddColumns("import_batches", ImportBatchColumns))
    /\ Names(AddColumns("import_batches", ImportBatchColumns)) =
          {Stmt("column", "import_batches", c) : c \in Names(ImportBatchColumns)}
    /\ Part(InvestmentEventMigrations)
    /\ Names(InvestmentEventMigrations) =
          {Stmt("column", "investment_events", c) : c \in Names(InvestmentEventColumns)}
<1>1. /\ Part(AddColumns("transactions", TransactionColumns))
      /\ Names(AddColumns("transactions", TransactionColumns)) =
            {Stmt("column", "transactions", c) : c \in Names(TransactionColumns)}
  <2>1. Names(TransactionColumns) \subseteq PlainColumns("transactions")
    BY ColumnsListed DEF PlainColumns, Names, TransactionColumns
  <2>2. TransactionColumns \in Seq(PlainColumns("transactions"))
    BY ColumnsListed DEF PlainColumns, TransactionColumns
  <2> QED
    BY <2>1, <2>2, TablesListed, AddColumnsPart
<1>2. /\ Part(AddColumns("import_batches", ImportBatchColumns))
      /\ Names(AddColumns("import_batches", ImportBatchColumns)) =
            {Stmt("column", "import_batches", c) : c \in Names(ImportBatchColumns)}
  <2>1. Names(ImportBatchColumns) \subseteq PlainColumns("import_batches")
    BY ColumnsListed DEF PlainColumns, Names, ImportBatchColumns
  <2>2. ImportBatchColumns \in Seq(PlainColumns("import_batches"))
    BY ColumnsListed DEF PlainColumns, ImportBatchColumns
  <2> QED
    BY <2>1, <2>2, TablesListed, AddColumnsPart
<1>3. /\ Part(InvestmentEventMigrations)
      /\ Names(InvestmentEventMigrations) =
            {Stmt("column", "investment_events", c) : c \in Names(InvestmentEventColumns)}
  <2>1. Names(InvestmentEventColumns) \subseteq PlainColumns("investment_events")
    BY ColumnsListed DEF PlainColumns, Names, InvestmentEventColumns
  <2>2. InvestmentEventColumns \in Seq(PlainColumns("investment_events"))
    BY ColumnsListed DEF PlainColumns, InvestmentEventColumns
  <2> QED
    BY <2>1, <2>2, TablesListed, AddColumnsPart DEF InvestmentEventMigrations
<1> DEFINE a == Stmt("cashflow_column", "transactions", "cashflow_type")
           b == Stmt("cashflow_backfill", "transactions", "cashflow_type")
<1>4. /\ a \in Statements /\ Kind(a) = "cashflow_column"
      /\ b \in Statements /\ Kind(b) = "cashflow_backfill"
  <2>1. /\ "cashflow_column" \in Operations \ {"column", "table"}
        /\ "cashflow_backfill" \in Operations \ {"column", "table"}
        /\ "transactions" \in AnyTable /\ "cashflow_type" \in AnyName
    BY MayName, TablesListed, ColumnsListed DEF Operations
  <2>2. a \in Statements /\ Kind(a) = "cashflow_column"
    BY <2>1, OtherFits
  <2>3. b \in Statements /\ Kind(b) = "cashflow_backfill"
    BY <2>1, OtherFits
  <2> QED
    BY <2>2, <2>3
<1> HIDE DEF a, b
<1>5. Part(<<a, b>>) /\ Names(<<a, b>>) = {a, b}
  <2>1. /\ <<a, b>> \in Seq(Statements) /\ Names(<<a, b>>) = {a, b} /\ Len(<<a, b>>) = 2
        /\ <<a, b>>[1] = a /\ <<a, b>>[2] = b
    BY <1>4 DEF Names
  <2>2. Chained(<<a, b>>)
    BY <2>1, <1>4 DEF Chained, Partners
  <2> QED
    BY <2>1, <2>2 DEF Part
<1>6. TransactionMigrations = AddColumns("transactions", TransactionColumns) \o <<a, b>>
  BY DEF TransactionMigrations, a, b
<1>7. /\ Part(TransactionMigrations)
      /\ Names(TransactionMigrations) =
            {Stmt("column", "transactions", c) : c \in Names(TransactionColumns)} \cup {a, b}
  BY <1>1, <1>5, <1>6, JoinedPair
<1> QED
  BY <1>2, <1>3, <1>7 DEF a, b

\* The columns of the owed tables, the history table and its first events, and
\* the owners of the owed and rule tables.
LEMMA OwedParts ==
    /\ Part(OwedItemMigrations)
    /\ Names(OwedItemMigrations) =
          {Stmt("column", "owed_items", c) : c \in Names(OwedItemColumns)}
    /\ Part(OwedPaymentMigrations)
    /\ Names(OwedPaymentMigrations) =
          {Stmt("column", "owed_payments", c) : c \in Names(OwedPaymentColumns)}
    /\ Part(OwedItemEventMigrations)
    /\ Stmt("baseline", "owed_items", None) \in Names(OwedItemEventMigrations)
    /\ Part(OwedUserMigrations)
    /\ \A t \in {"owed_items", "owed_payments", "owed_payment_allocations"} :
          Stmt("column", t, "user_id") \in Names(OwedUserMigrations)
    /\ Part(RuleUserMigrations)
    /\ \A t \in {"cashflow_rules", "description_rules"} :
          Stmt("column", t, "user_id") \in Names(RuleUserMigrations)
<1>1. /\ Part(OwedItemMigrations)
      /\ Names(OwedItemMigrations) = {Stmt("column", "owed_items", c) : c \in Names(OwedItemColumns)}
  <2>1. Names(OwedItemColumns) \subseteq PlainColumns("owed_items")
    BY ColumnsListed DEF PlainColumns, Names, OwedItemColumns
  <2>2. OwedItemColumns \in Seq(PlainColumns("owed_items"))
    BY ColumnsListed DEF PlainColumns, OwedItemColumns
  <2> QED
    BY <2>1, <2>2, TablesListed, AddColumnsPart DEF OwedItemMigrations
<1>2. /\ Part(OwedPaymentMigrations)
      /\ Names(OwedPaymentMigrations) = {Stmt("column", "owed_payments", c) : c \in Names(OwedPaymentColumns)}
  <2>1. Names(OwedPaymentColumns) \subseteq PlainColumns("owed_payments")
    BY ColumnsListed DEF PlainColumns, Names, OwedPaymentColumns
  <2>2. OwedPaymentColumns \in Seq(PlainColumns("owed_payments"))
    BY ColumnsListed DEF PlainColumns, OwedPaymentColumns
  <2> QED
    BY <2>1, <2>2, TablesListed, AddColumnsPart DEF OwedPaymentMigrations
<1>3. /\ Part(OwedItemEventMigrations)
      /\ Stmt("baseline", "owed_items", None) \in Names(OwedItemEventMigrations)
  <2> DEFINE b == Stmt("baseline", "owed_items", None)
  <2>1. /\ "baseline" \in Operations \ {"column", "table"} /\ "baseline" \notin PartnerKinds
        /\ "owed_items" \in AnyTable /\ None \in AnyName
    BY MayName, TablesListed DEF Operations, PartnerKinds
  <2>2. b \in Statements /\ Kind(b) \notin PartnerKinds
    BY <2>1, OtherFits
  <2> HIDE DEF b
  <2>3. <<b>> \in Seq(Statements) /\ Names(<<b>>) = {b}
    BY <2>2 DEF Names
  <2>4. Part(<<b>>)
    BY <2>2, <2>3, PlainIsChained DEF Part
  <2>5. Part(CreateMissing("owed_item_events"))
    BY CreateMissingPart, TablesListed
  <2>6. OwedItemEventMigrations = CreateMissing("owed_item_events") \o <<b>>
    BY DEF OwedItemEventMigrations, b
  <2> QED
    BY <2>3, <2>4, <2>5, <2>6, JoinedPair DEF b
<1>4. /\ Part(OwedUserMigrations)
      /\ \A t \in {"owed_items", "owed_payments", "owed_payment_allocations"} :
            Stmt("column", t, "user_id") \in Names(OwedUserMigrations)
  <2> DEFINE tables == <<"owed_items", "owed_payments", "owed_payment_allocations">>
  <2>1. tables \in Seq(Tables) /\ Names(tables) = {"owed_items", "owed_payments", "owed_payment_allocations"}
    BY TablesListed DEF Names
  <2>2. \A t \in Names(tables) : t \in Tables /\ "user_id" \in PlainColumns(t)
    BY <2>1, TablesListed, ColumnsListed DEF PlainColumns
  <2> HIDE DEF tables
  <2>3. /\ Part(AddColumnTo(tables, "user_id"))
        /\ Names(AddColumnTo(tables, "user_id")) =
              {Stmt("column", t, "user_id") : t \in Names(tables)}
    BY <2>1, <2>2, AddColumnToPart
  <2> QED
    BY <2>1, <2>3 DEF OwedUserMigrations, tables
<1>5. /\ Part(RuleUserMigrations)
      /\ \A t \in {"cashflow_rules", "description_rules"} :
            Stmt("column", t, "user_id") \in Names(RuleUserMigrations)
  <2> DEFINE tables == <<"cashflow_rules", "description_rules">>
  <2>1. tables \in Seq(Tables) /\ Names(tables) = {"cashflow_rules", "description_rules"}
    BY TablesListed DEF Names
  <2>2. \A t \in Names(tables) : t \in Tables /\ "user_id" \in PlainColumns(t)
    BY <2>1, TablesListed, ColumnsListed DEF PlainColumns
  <2> HIDE DEF tables
  <2>3. /\ Part(AddColumnTo(tables, "user_id"))
        /\ Names(AddColumnTo(tables, "user_id")) =
              {Stmt("column", t, "user_id") : t \in Names(tables)}
    BY <2>1, <2>2, AddColumnToPart
  <2> QED
    BY <2>1, <2>3 DEF RuleUserMigrations, tables
<1> QED
  BY <1>1, <1>2, <1>3, <1>4, <1>5

\* The wealth tables, their columns and owners, and the value source.
LEMMA WealthParts ==
    /\ Part(WealthMigrations)
    /\ \A c \in Names(WealthSnapshotColumns) :
          Stmt("column", "wealth_snapshots", c) \in Names(WealthMigrations)
    /\ Part(WealthUserMigrations)
    /\ \A t \in {"wealth_accounts", "wealth_snapshots"} :
          Stmt("column", t, "user_id") \in Names(WealthUserMigrations)
    /\ Part(WealthValueSourceMigrations)
    /\ Stmt("value_source", "wealth_accounts", "value_source")
          \in Names(WealthValueSourceMigrations)
    /\ Stmt("column", "wealth_accounts", "value_reference")
          \in Names(WealthValueSourceMigrations)
<1> DEFINE added == AddColumns("wealth_snapshots", WealthSnapshotColumns)
<1>1. /\ Part(added)
      /\ Names(added) = {Stmt("column", "wealth_snapshots", c) : c \in Names(WealthSnapshotColumns)}
  <2>1. Names(WealthSnapshotColumns) \subseteq PlainColumns("wealth_snapshots")
    BY ColumnsListed DEF PlainColumns, Names, WealthSnapshotColumns
  <2>2. WealthSnapshotColumns \in Seq(PlainColumns("wealth_snapshots"))
    BY ColumnsListed DEF PlainColumns, WealthSnapshotColumns
  <2> QED
    BY <2>1, <2>2, TablesListed, AddColumnsPart
<1> HIDE DEF added
<1>2. /\ Part(WealthMigrations)
      /\ Names(added) \subseteq Names(WealthMigrations)
  <2>1. Part(CreateMissing("wealth_accounts")) /\ Part(CreateMissing("wealth_snapshots"))
    BY CreateMissingPart, TablesListed
  <2>2. Part(CreateMissing("wealth_accounts") \o CreateMissing("wealth_snapshots"))
    BY <2>1, JoinedPair
  <2> QED
    BY <1>1, <2>2, JoinedPair DEF WealthMigrations, added
<1>3. /\ Part(WealthUserMigrations)
      /\ \A t \in {"wealth_accounts", "wealth_snapshots"} :
            Stmt("column", t, "user_id") \in Names(WealthUserMigrations)
  <2> DEFINE tables == <<"wealth_accounts", "wealth_snapshots">>
  <2>1. tables \in Seq(Tables) /\ Names(tables) = {"wealth_accounts", "wealth_snapshots"}
    BY TablesListed DEF Names
  <2>2. \A t \in Names(tables) : t \in Tables /\ "user_id" \in PlainColumns(t)
    BY <2>1, TablesListed, ColumnsListed DEF PlainColumns
  <2> HIDE DEF tables
  <2>3. /\ Part(AddColumnTo(tables, "user_id"))
        /\ Names(AddColumnTo(tables, "user_id")) =
              {Stmt("column", t, "user_id") : t \in Names(tables)}
    BY <2>1, <2>2, AddColumnToPart
  <2> QED
    BY <2>1, <2>3 DEF WealthUserMigrations, tables
<1> DEFINE a == Stmt("value_source", "wealth_accounts", "value_source")
           b == Stmt("column", "wealth_accounts", "value_reference")
           c == Stmt("classify", "wealth_accounts", "value_source")
<1>4. /\ a \in Statements /\ Kind(a) = "value_source"
      /\ c \in Statements /\ Kind(c) = "classify"
  <2>1. /\ "value_source" \in Operations \ {"column", "table"}
        /\ "classify" \in Operations \ {"column", "table"}
        /\ "wealth_accounts" \in AnyTable /\ "value_source" \in AnyName
    BY MayName, TablesListed, ColumnsListed DEF Operations
  <2>2. a \in Statements /\ Kind(a) = "value_source"
    BY <2>1, OtherFits
  <2>3. c \in Statements /\ Kind(c) = "classify"
    BY <2>1, OtherFits
  <2> QED
    BY <2>2, <2>3
<1>5. b \in Statements /\ Kind(b) = "value_reference"
  <2>1. /\ "column" \in Operations /\ "wealth_accounts" \in AnyTable
        /\ "value_reference" \in AnyName
    BY MayName, TablesListed, ColumnsListed DEF Operations
  <2>2. WellFormed(b)
    BY <2>1, TablesListed, ColumnsListed DEF WellFormed, Stmt
  <2>3. b \in Statements
    BY <2>1, <2>2, StatementFits
  <2> QED
    BY <2>3 DEF Kind, Stmt
<1> HIDE DEF a, b, c
<1>6. Part(<<a, b, c>>) /\ Names(<<a, b, c>>) = {a, b, c}
  <2>1. /\ <<a, b, c>> \in Seq(Statements) /\ Names(<<a, b, c>>) = {a, b, c}
        /\ Len(<<a, b, c>>) = 3
        /\ <<a, b, c>>[1] = a /\ <<a, b, c>>[2] = b /\ <<a, b, c>>[3] = c
    BY <1>4, <1>5 DEF Names
  <2>2. Chained(<<a, b, c>>)
    BY <2>1, <1>4, <1>5 DEF Chained, Partners
  <2> QED
    BY <2>1, <2>2 DEF Part
<1>7. WealthValueSourceMigrations = <<a, b, c>>
  BY DEF WealthValueSourceMigrations, a, b, c
<1> QED
  BY <1>1, <1>2, <1>3, <1>6, <1>7 DEF a, b

\* The old cashflow types, the columns of previews and preferences, the indexes
\* and the foreign keys.
LEMMA LastParts ==
    /\ Part(CashflowTypeMigrations)
    /\ Stmt("cashflow_rows", "transactions", None) \in Names(CashflowTypeMigrations)
    /\ Part(ImportPreviewMigrations)
    /\ Stmt("column", "import_previews", "resolved_payload_sha256")
          \in Names(ImportPreviewMigrations)
    /\ Part(UserPreferencesMigrations)
    /\ Names(UserPreferencesMigrations) =
          {Stmt("column", "user_preferences", c) : c \in Names(PreferenceColumns)}
    /\ Part(DedupeIndexMigrations)
    /\ Names(DedupeIndexMigrations) =
          {Stmt(op, t, None) : op \in {"drop_index", "create_index"}, t \in Names(DedupeTables)}
    /\ Part(ForeignKeyMigrations)
    /\ Len(ForeignKeyMigrations) = 3
    /\ Stmt("preflight", None, None) \in Names(ForeignKeyMigrations)
    /\ ForeignKeyMigrations[3] = Stmt("rebuild", None, None)
<1>1. /\ Part(CashflowTypeMigrations)
      /\ Stmt("cashflow_rows", "transactions", None) \in Names(CashflowTypeMigrations)
  <2> DEFINE a == Stmt("cashflow_rows", "transactions", None)
             b == Stmt("cashflow_rules", "cashflow_rules", None)
  <2>1. /\ "cashflow_rows" \in Operations \ {"column", "table"}
        /\ "cashflow_rules" \in Operations \ {"column", "table"}
        /\ "cashflow_rows" \notin PartnerKinds /\ "cashflow_rules" \notin PartnerKinds
        /\ "transactions" \in AnyTable /\ "cashflow_rules" \in AnyTable
        /\ None \in AnyName
    BY MayName, TablesListed DEF Operations, PartnerKinds
  <2>2. a \in Statements /\ Kind(a) \notin PartnerKinds
    BY <2>1, OtherFits
  <2>3. b \in Statements /\ Kind(b) \notin PartnerKinds
    BY <2>1, OtherFits
  <2> HIDE DEF a, b
  <2>4. <<a, b>> \in Seq(Statements) /\ Names(<<a, b>>) = {a, b}
    BY <2>2, <2>3 DEF Names
  <2>5. Part(<<a, b>>)
    BY <2>2, <2>3, <2>4, PlainIsChained DEF Part
  <2> QED
    BY <2>4, <2>5 DEF CashflowTypeMigrations, a, b
<1>2. /\ Part(ImportPreviewMigrations)
      /\ Stmt("column", "import_previews", "resolved_payload_sha256")
            \in Names(ImportPreviewMigrations)
  <2> DEFINE names == <<"resolved_payload_sha256">>
  <2>1. /\ Names(names) = {"resolved_payload_sha256"}
        /\ Names(names) \subseteq PlainColumns("import_previews")
        /\ names \in Seq(PlainColumns("import_previews"))
    BY ColumnsListed DEF PlainColumns, Names
  <2> HIDE DEF names
  <2>2. /\ Part(AddColumns("import_previews", names))
        /\ Names(AddColumns("import_previews", names)) =
              {Stmt("column", "import_previews", c) : c \in Names(names)}
    BY <2>1, TablesListed, AddColumnsPart
  <2> QED
    BY <2>1, <2>2 DEF ImportPreviewMigrations, names
<1>3. /\ Part(UserPreferencesMigrations)
      /\ Names(UserPreferencesMigrations) = {Stmt("column", "user_preferences", c) : c \in Names(PreferenceColumns)}
  <2>1. Names(PreferenceColumns) \subseteq PlainColumns("user_preferences")
    BY ColumnsListed DEF PlainColumns, Names, PreferenceColumns
  <2>2. PreferenceColumns \in Seq(PlainColumns("user_preferences"))
    BY ColumnsListed DEF PlainColumns, PreferenceColumns
  <2> QED
    BY <2>1, <2>2, TablesListed, AddColumnsPart DEF UserPreferencesMigrations
<1>4. /\ Part(DedupeIndexMigrations)
      /\ Names(DedupeIndexMigrations) =
            {Stmt(op, t, None) : op \in {"drop_index", "create_index"},
                                 t \in Names(DedupeTables)}
  <2>1. \A t \in Names(DedupeTables), op \in {"drop_index", "create_index"} :
           Stmt(op, t, None) \in Statements /\ Kind(Stmt(op, t, None)) \notin PartnerKinds
    <3> TAKE t \in Names(DedupeTables), op \in {"drop_index", "create_index"}
    <3>1. /\ op \in Operations \ {"column", "table"} /\ op # "drop" /\ op \notin PartnerKinds
          /\ t \in AnyTable /\ None \in AnyName
      BY MayName, ListsOfTables DEF Operations, PartnerKinds
    <3> QED
      BY <3>1, OtherFits
  <2>2. DedupeTables \in Seq(Tables)
    BY TablesListed DEF DedupeTables
  <2> QED
    BY <2>1, <2>2, PairsPart DEF DedupeIndexMigrations
<1>5. /\ Part(ForeignKeyMigrations) /\ Len(ForeignKeyMigrations) = 3
      /\ Stmt("preflight", None, None) \in Names(ForeignKeyMigrations)
      /\ ForeignKeyMigrations[3] = Stmt("rebuild", None, None)
  <2> DEFINE a == Stmt("preflight", None, None)
             b == Stmt("temporary", None, None)
             c == Stmt("rebuild", None, None)
  <2>1. /\ {"preflight", "temporary", "rebuild"}
              \subseteq Operations \ {"column", "table", "drop", "drop_index", "create_index"}
        /\ None \in AnyTable /\ None \in AnyName
    BY MayName DEF Operations
  <2>2. a \in Statements /\ Kind(a) = "preflight"
    BY <2>1, OtherFits
  <2>3. b \in Statements /\ Kind(b) = "temporary"
    BY <2>1, OtherFits
  <2>4. c \in Statements /\ Kind(c) = "rebuild"
    BY <2>1, OtherFits
  <2>5. ForeignKeyMigrations = <<a, b, c>>
    BY DEF ForeignKeyMigrations
  <2> HIDE DEF a, b, c
  <2>6. /\ <<a, b, c>> \in Seq(Statements) /\ Names(<<a, b, c>>) = {a, b, c}
        /\ Len(<<a, b, c>>) = 3
        /\ <<a, b, c>>[1] = a /\ <<a, b, c>>[2] = b /\ <<a, b, c>>[3] = c
    BY <2>2, <2>3, <2>4 DEF Names
  <2>7. Chained(<<a, b, c>>)
    BY <2>6, <2>2, <2>3, <2>4 DEF Chained, Partners
  <2>8. Part(<<a, b, c>>)
    BY <2>6, <2>7 DEF Part
  <2> QED
    BY <2>5, <2>6, <2>8 DEF a, c
<1> QED
  BY <1>1, <1>2, <1>3, <1>4, <1>5

\* The script of SQLite is well formed and chained, and it holds the statements
\* that make each table, drop each removed one, add each column, replace each
\* index, simplify the types, begin the histories and check the relationships;
\* the rebuild with the foreign keys comes last.
LEMMA ScriptContent ==
    /\ Part(SqliteScript)
    /\ \A t \in Tables : Stmt("table", t, None) \in Names(SqliteScript)
    /\ \A t \in RemovedTables : Stmt("drop", t, None) \in Names(SqliteScript)
    /\ \A t \in Tables : \A c \in Columns[t] \ {"cashflow_type", "value_source"} :
          Stmt("column", t, c) \in Names(SqliteScript)
    /\ Stmt("cashflow_column", "transactions", "cashflow_type") \in Names(SqliteScript)
    /\ Stmt("value_source", "wealth_accounts", "value_source") \in Names(SqliteScript)
    /\ Stmt("baseline", "owed_items", None) \in Names(SqliteScript)
    /\ Stmt("cashflow_rows", "transactions", None) \in Names(SqliteScript)
    /\ \A t \in Names(DedupeTables) : /\ Stmt("drop_index", t, None) \in Names(SqliteScript)
                                      /\ Stmt("create_index", t, None) \in Names(SqliteScript)
    /\ Stmt("preflight", None, None) \in Names(SqliteScript)
    /\ SqliteScript[Len(SqliteScript)].op = "rebuild"
<1> DEFINE q1 == DropFundingMonths \o TransactionCategoryMigrations \o DropCategoryRules
                    \o TransactionMigrations
           q2 == q1 \o AddColumns("import_batches", ImportBatchColumns)
                    \o InvestmentEventMigrations \o OwedItemMigrations
           q3 == q2 \o OwedPaymentMigrations \o OwedItemEventMigrations \o OwedUserMigrations
           q4 == q3 \o RuleUserMigrations \o CashflowTypeMigrations \o WealthMigrations
           q5 == q4 \o WealthUserMigrations \o WealthValueSourceMigrations
                    \o ImportPreviewMigrations
           q6 == q5 \o UserPreferencesMigrations \o PendingSignupMigrations
                    \o DedupeIndexMigrations
<1>1. StartupMigrations = q6 \o ForeignKeyMigrations
  BY DEF StartupMigrations
<1>2. /\ Part(q1)
      /\ Names(q1) = Names(DropFundingMonths) \cup Names(TransactionCategoryMigrations)
                        \cup Names(DropCategoryRules) \cup Names(TransactionMigrations)
  BY TableParts, TransactionParts, JoinedParts
<1> HIDE DEF q1
<1>3. /\ Part(q2)
      /\ Names(q2) = Names(q1) \cup Names(AddColumns("import_batches", ImportBatchColumns))
                        \cup Names(InvestmentEventMigrations) \cup Names(OwedItemMigrations)
  BY <1>2, TransactionParts, OwedParts, JoinedParts
<1> HIDE DEF q2
<1>4. /\ Part(q3)
      /\ Names(q3) = Names(q2) \cup Names(OwedPaymentMigrations)
                        \cup Names(OwedItemEventMigrations) \cup Names(OwedUserMigrations)
  BY <1>3, OwedParts, JoinedParts
<1> HIDE DEF q3
<1>5. /\ Part(q4)
      /\ Names(q4) = Names(q3) \cup Names(RuleUserMigrations)
                        \cup Names(CashflowTypeMigrations) \cup Names(WealthMigrations)
  BY <1>4, OwedParts, WealthParts, LastParts, JoinedParts
<1> HIDE DEF q4
<1>6. /\ Part(q5)
      /\ Names(q5) = Names(q4) \cup Names(WealthUserMigrations)
                        \cup Names(WealthValueSourceMigrations) \cup Names(ImportPreviewMigrations)
  BY <1>5, WealthParts, LastParts, JoinedParts
<1> HIDE DEF q5
<1>7. /\ Part(q6)
      /\ Names(q6) = Names(q5) \cup Names(UserPreferencesMigrations)
                        \cup Names(PendingSignupMigrations) \cup Names(DedupeIndexMigrations)
  BY <1>6, TableParts, LastParts, JoinedParts
<1> HIDE DEF q6
<1>8. /\ Part(StartupMigrations)
      /\ Names(StartupMigrations) = Names(q6) \cup Names(ForeignKeyMigrations)
  BY <1>1, <1>7, LastParts, JoinedPair
<1>9. /\ Part(SqliteScript)
      /\ Names(SqliteScript) = Names(CreateAll) \cup Names(StartupMigrations)
  BY <1>8, TableParts, JoinedPair DEF SqliteScript
<1> DEFINE all == Names(SqliteScript)
<1>10. all = UNION {Names(CreateAll), Names(DropFundingMonths),
            Names(TransactionCategoryMigrations), Names(DropCategoryRules),
            Names(TransactionMigrations),
            Names(AddColumns("import_batches", ImportBatchColumns)),
            Names(InvestmentEventMigrations), Names(OwedItemMigrations),
            Names(OwedPaymentMigrations), Names(OwedItemEventMigrations),
            Names(OwedUserMigrations), Names(RuleUserMigrations),
            Names(CashflowTypeMigrations), Names(WealthMigrations),
            Names(WealthUserMigrations), Names(WealthValueSourceMigrations),
            Names(ImportPreviewMigrations), Names(UserPreferencesMigrations),
            Names(PendingSignupMigrations), Names(DedupeIndexMigrations),
            Names(ForeignKeyMigrations)}
  BY <1>2, <1>3, <1>4, <1>5, <1>6, <1>7, <1>8, <1>9
<1> HIDE DEF all
<1>11. \A t \in Tables : Stmt("table", t, None) \in all
  BY <1>10, TableParts
<1>12. \A t \in RemovedTables : Stmt("drop", t, None) \in all
  BY <1>10, TableParts DEF RemovedTables
<1>13. ASSUME NEW t \in Tables, NEW c \in Columns[t] \ {"cashflow_type", "value_source"}
       PROVE  Stmt("column", t, c) \in all
  <2>1. CASE t \in {"transactions", "import_batches", "investment_events"}
    <3>1. Names(TransactionColumns) = Columns["transactions"] \ {"cashflow_type"}
      BY ColumnsListed DEF Names, TransactionColumns
    <3>2. Names(ImportBatchColumns) = Columns["import_batches"]
      BY ColumnsListed DEF Names, ImportBatchColumns
    <3>3. Names(InvestmentEventColumns) = Columns["investment_events"]
      BY ColumnsListed DEF Names, InvestmentEventColumns
    <3> QED
      BY <2>1, <3>1, <3>2, <3>3, <1>10, TransactionParts
  <2>2. CASE t \in {"owed_items", "owed_payments", "owed_payment_allocations",
                    "cashflow_rules", "description_rules"}
    <3>1. Columns["owed_items"] = Names(OwedItemColumns) \cup {"user_id"}
      BY ColumnsListed DEF Names, OwedItemColumns
    <3>2. Columns["owed_payments"] = Names(OwedPaymentColumns) \cup {"user_id"}
      BY ColumnsListed DEF Names, OwedPaymentColumns
    <3> QED
      BY <2>2, <3>1, <3>2, <1>10, OwedParts, ColumnsListed
  <2>3. CASE t \in {"wealth_accounts", "wealth_snapshots"}
    <3>1. Columns["wealth_snapshots"] = Names(WealthSnapshotColumns) \cup {"user_id"}
      BY ColumnsListed DEF Names, WealthSnapshotColumns
    <3> QED
      BY <2>3, <3>1, <1>10, WealthParts, ColumnsListed
  <2>4. CASE t \in {"import_previews", "user_preferences"}
    <3>1. Columns["user_preferences"] = Names(PreferenceColumns)
      BY ColumnsListed DEF Names, PreferenceColumns
    <3> QED
      BY <2>4, <3>1, <1>10, LastParts, ColumnsListed
  <2>5. CASE t \in {"owed_item_events", "transaction_categories", "pending_signups"}
    BY <2>5, ColumnsListed
  <2> QED
    BY <2>1, <2>2, <2>3, <2>4, <2>5, TablesListed
<1>14. /\ Stmt("cashflow_column", "transactions", "cashflow_type") \in all
       /\ Stmt("value_source", "wealth_accounts", "value_source") \in all
       /\ Stmt("baseline", "owed_items", None) \in all
       /\ Stmt("cashflow_rows", "transactions", None) \in all
       /\ Stmt("preflight", None, None) \in all
  BY <1>10, TransactionParts, OwedParts, WealthParts, LastParts
<1>15. \A t \in Names(DedupeTables) : /\ Stmt("drop_index", t, None) \in all
                                      /\ Stmt("create_index", t, None) \in all
  BY <1>10, LastParts
<1>16. SqliteScript[Len(SqliteScript)].op = "rebuild"
  <2>1. /\ q6 \in Seq(Statements) /\ ForeignKeyMigrations \in Seq(Statements)
        /\ StartupMigrations \in Seq(Statements) /\ CreateAll \in Seq(Statements)
    BY <1>7, <1>8, LastParts, TableParts DEF Part
  <2>2. /\ Len(q6) \in Nat /\ Len(StartupMigrations) = Len(q6) + 3
        /\ StartupMigrations[Len(q6) + 3] = ForeignKeyMigrations[3]
    <3>1. 3 \in 1..Len(ForeignKeyMigrations)
      BY LastParts
    <3>2. /\ Len(q6) \in Nat
          /\ Len(q6 \o ForeignKeyMigrations) = Len(q6) + Len(ForeignKeyMigrations)
          /\ \A n \in 1..Len(ForeignKeyMigrations) :
                (q6 \o ForeignKeyMigrations)[Len(q6) + n] = ForeignKeyMigrations[n]
      BY <2>1, Joined
    <3>3. Len(ForeignKeyMigrations) = 3
      BY LastParts
    <3> QED
      BY <3>1, <3>2, <3>3, <1>1
  <2>3. /\ Len(CreateAll) \in Nat
        /\ Len(SqliteScript) = Len(CreateAll) + Len(StartupMigrations)
        /\ SqliteScript[Len(CreateAll) + Len(StartupMigrations)] =
              StartupMigrations[Len(StartupMigrations)]
    <3>1. Len(StartupMigrations) \in 1..Len(StartupMigrations)
      BY <2>2
    <3> QED
      BY <2>1, <3>1, Joined DEF SqliteScript
  <2> QED
    BY <2>2, <2>3, LastParts DEF Stmt
<1> QED
  BY <1>9, <1>11, <1>12, <1>13, <1>14, <1>15, <1>16 DEF all

-----------------------------------------------------------------------------
(* What a statement leaves                                                 *)

\* What the database is at any moment: no column, index or key beyond those of
\* the models, and at most one beginning for an item.
IsDatabase(d) ==
    /\ DOMAIN d = {"tables", "columns", "unique", "global", "keys", "simplified", "rows",
                   "rule", "accounts", "events", "orphans", "temporary"}
    /\ d.tables \subseteq Tables \cup RemovedTables
    /\ d.columns \in [Tables -> SUBSET ColumnNames]
    /\ \A t \in Tables : d.columns[t] \subseteq Columns[t]
    /\ d.unique \subseteq Names(DedupeTables) /\ d.global \subseteq Names(DedupeTables)
    /\ d.keys \subseteq FOREIGN_KEYS
    /\ \A i \in DOMAIN d.events : d.events[i] \in {0, 1}

TypesSimple(d) == d.simplified /\ \A r \in DOMAIN d.rows : d.rows[r] \in CashflowTypes

HistoriesBegun(d) == \A i \in DOMAIN d.events : d.events[i] = 1

\* What can be relied on once a statement has been executed.
Left(s, d) ==
    /\ s.op = "table" => s.table \in d.tables
    /\ s.op = "drop" => s.table \notin d.tables
    /\ s.op = "column" => (s.table \in d.tables => s.name \in d.columns[s.table])
    /\ s.op = "cashflow_column" => "cashflow_type" \in d.columns["transactions"]
    /\ s.op = "value_source" => "value_source" \in d.columns["wealth_accounts"]
    /\ s.op = "drop_index" => s.table \notin d.global
    /\ s.op = "create_index" => s.table \in d.unique
    /\ s.op = "cashflow_rows" => TypesSimple(d)
    /\ s.op = "baseline" => HistoriesBegun(d)
    /\ s.op = "preflight" => ~d.orphans

\* What no statement undoes: a database d that is now e.
Grows(d, e) ==
    /\ d.tables \cap Tables \subseteq e.tables
    /\ e.tables \cap RemovedTables \subseteq d.tables
    /\ \A t \in Tables : d.columns[t] \subseteq e.columns[t]
    /\ \A t \in (e.tables \cap Tables) \ d.tables : e.columns[t] = Columns[t]
    /\ d.unique \subseteq e.unique /\ e.global \subseteq d.global
    /\ TypesSimple(d) => TypesSimple(e)
    /\ HistoriesBegun(d) => HistoriesBegun(e)
    /\ e.orphans = d.orphans

\* What a statement leaves, later ones keep.
LEMMA LeftStays ==
    ASSUME NEW s, WellFormed(s), NEW d, NEW e, IsDatabase(d), Grows(d, e), Left(s, d)
    PROVE  Left(s, e)
<1>1. "transactions" \in Tables /\ "wealth_accounts" \in Tables
  BY TablesListed
<1>2. s.op = "table" => s.table \in e.tables
  BY DEF Left, Grows, WellFormed
<1>3. s.op = "drop" => s.table \notin e.tables
  BY DEF Left, Grows, WellFormed
<1>4. s.op = "column" => (s.table \in e.tables => s.name \in e.columns[s.table])
  BY DEF Left, Grows, WellFormed
<1>5. /\ s.op = "cashflow_column" => "cashflow_type" \in e.columns["transactions"]
      /\ s.op = "value_source" => "value_source" \in e.columns["wealth_accounts"]
  BY <1>1 DEF Left, Grows
<1>6. /\ s.op = "drop_index" => s.table \notin e.global
      /\ s.op = "create_index" => s.table \in e.unique
  BY DEF Left, Grows
<1>7. /\ s.op = "cashflow_rows" => TypesSimple(e)
      /\ s.op = "baseline" => HistoriesBegun(e)
      /\ s.op = "preflight" => ~e.orphans
  BY DEF Left, Grows
<1> QED
  BY <1>2, <1>3, <1>4, <1>5, <1>6, <1>7 DEF Left

\* A database whose every statement has been executed is the one its models
\* describe, once it has all the foreign keys.
LEMMA AllLeftIsCurrent ==
    ASSUME NEW d, IsDatabase(d), d.keys = FOREIGN_KEYS,
           \A s \in Names(SqliteScript) : Left(s, d)
    PROVE  /\ d.tables = Tables
           /\ \A t \in Tables : d.columns[t] = Columns[t]
           /\ d.global = {} /\ d.unique = Names(DedupeTables)
           /\ ~d.orphans
           /\ TypesSimple(d)
           /\ HistoriesBegun(d)
<1>1. /\ \A t \in Tables : Left(Stmt("table", t, None), d)
      /\ \A t \in RemovedTables : Left(Stmt("drop", t, None), d)
      /\ \A t \in Names(DedupeTables) : /\ Left(Stmt("drop_index", t, None), d)
                                        /\ Left(Stmt("create_index", t, None), d)
  BY ScriptContent
<1>2. d.tables = Tables
  <2>1. \A t \in Tables : t \in d.tables
    BY <1>1 DEF Left, Stmt
  <2>2. \A t \in RemovedTables : t \notin d.tables
    BY <1>1 DEF Left, Stmt
  <2> QED
    BY <2>1, <2>2 DEF IsDatabase
<1>3. d.global = {} /\ d.unique = Names(DedupeTables)
  <2>1. \A t \in Names(DedupeTables) : t \notin d.global /\ t \in d.unique
    BY <1>1 DEF Left, Stmt
  <2> QED
    BY <2>1 DEF IsDatabase
<1>4. /\ Left(Stmt("cashflow_column", "transactions", "cashflow_type"), d)
      /\ Left(Stmt("value_source", "wealth_accounts", "value_source"), d)
      /\ Left(Stmt("baseline", "owed_items", None), d)
      /\ Left(Stmt("cashflow_rows", "transactions", None), d)
      /\ Left(Stmt("preflight", None, None), d)
  BY ScriptContent
<1>5. /\ "cashflow_type" \in d.columns["transactions"]
      /\ "value_source" \in d.columns["wealth_accounts"]
      /\ HistoriesBegun(d) /\ TypesSimple(d) /\ ~d.orphans
  BY <1>4 DEF Left, Stmt
<1>6. ASSUME NEW t \in Tables, NEW c \in Columns[t]
      PROVE  c \in d.columns[t]
  <2>1. CASE c \notin {"cashflow_type", "value_source"}
    <3>1. Left(Stmt("column", t, c), d)
      BY <2>1, ScriptContent
    <3> QED
      BY <3>1, <1>2 DEF Left, Stmt
  <2>2. CASE c = "cashflow_type"
    <3>1. t = "transactions"
      BY <2>2, <1>6, TablesListed, ColumnsListed
    <3> QED
      BY <3>1, <2>2, <1>5
  <2>3. CASE c = "value_source"
    <3>1. t = "wealth_accounts"
      BY <2>3, <1>6, TablesListed, ColumnsListed
    <3> QED
      BY <3>1, <2>3, <1>5
  <2> QED
    BY <2>1, <2>2, <2>3
<1>7. \A t \in Tables : d.columns[t] = Columns[t]
  BY <1>6 DEF IsDatabase
<1> QED
  BY <1>2, <1>3, <1>5, <1>7

-----------------------------------------------------------------------------
(* The statements                                                          *)

\* The tables a key of a relationship is missing from.
Unfinished(d) == {key[1] : key \in FOREIGN_KEYS \ d.keys}

\* A start executes its next statement, or ends with an exception.
Executes ==
    /\ status = "starting"
    /\ IsDatabase(db') /\ Grows(db, db')
    /\ \/ status' = "failed" /\ at' = 0 /\ db' = db
       \/ /\ Goes
          /\ Left(Script[at], db')
          /\ Script[at].op = "preflight" => noted' = Unfinished(db')
          /\ Script[at].op = "temporary" => noted' = noted /\ db'.keys = db.keys
          /\ Script[at].op = "rebuild" =>
                /\ noted' = {}
                /\ db'.keys = FOREIGN_KEYS \/ (noted = {} /\ db'.keys = db.keys)

\* A database that stays as it is.
LEMMA SameGrows ==
    ASSUME NEW d, IsDatabase(d)
    PROVE  Grows(d, d)
BY DEF IsDatabase, Grows

\* A table made complete where it is missing.
LEMMA CreateTableExecutes ==
    ASSUME IsDatabase(db), WellFormed(Script[at]), CreateTable
    PROVE  Executes
<1> DEFINE s == Script[at]
<1>1. status = "starting" /\ s.op = "table" /\ s.table \in Tables
  BY DEF CreateTable, Does, WellFormed
<1> HIDE DEF s
<1>2. CASE s.table \in db.tables
  <2>1. Goes /\ db' = db
    BY <1>2 DEF CreateTable, Skip, s
  <2>2. Left(s, db)
    BY <1>1, <1>2 DEF Left
  <2> QED
    BY <2>1, <2>2, <1>1, SameGrows DEF Executes, s
<1>3. CASE s.table \notin db.tables
  <2> DEFINE t == s.table
  <2> HIDE DEF t
  <2>1. /\ Goes
        /\ db' = [db EXCEPT !.tables = @ \cup {t}, !.columns[t] = Columns[t],
                            !.keys = @ \cup KeysOf(t)]
    BY <1>3 DEF CreateTable, s, t
  <2>2. /\ DOMAIN db' = DOMAIN db
        /\ db'.tables = db.tables \cup {t}
        /\ db'.columns = [db.columns EXCEPT ![t] = Columns[t]]
        /\ db'.keys = db.keys \cup KeysOf(t)
        /\ db'.unique = db.unique /\ db'.global = db.global
        /\ db'.simplified = db.simplified /\ db'.rows = db.rows
        /\ db'.events = db.events /\ db'.orphans = db.orphans
    BY <2>1 DEF IsDatabase
  <2>3. t \in Tables /\ t \notin db.tables
    BY <1>1, <1>3 DEF t
  <2>4. Columns[t] \subseteq ColumnNames
    BY <2>3 DEF ColumnNames
  <2>5. IsDatabase(db')
    <3>1. db'.columns \in [Tables -> SUBSET ColumnNames]
      BY <2>2, <2>3, <2>4 DEF IsDatabase
    <3>2. \A u \in Tables : db'.columns[u] \subseteq Columns[u]
      BY <2>2, <2>3 DEF IsDatabase
    <3>3. db'.keys \subseteq FOREIGN_KEYS
      BY <2>2 DEF IsDatabase, KeysOf
    <3> QED
      BY <3>1, <3>2, <3>3, <2>2, <2>3 DEF IsDatabase
  <2>6. Grows(db, db')
    <3>1. \A u \in Tables : db.columns[u] \subseteq db'.columns[u]
      BY <2>2, <2>3 DEF IsDatabase
    <3>2. \A u \in (db'.tables \cap Tables) \ db.tables : db'.columns[u] = Columns[u]
      BY <2>2, <2>3 DEF IsDatabase
    <3>3. db'.tables \cap RemovedTables \subseteq db.tables
      BY <2>2, <2>3, ListsOfTables
    <3> QED
      BY <3>1, <3>2, <3>3, <2>2 DEF Grows, TypesSimple, HistoriesBegun
  <2>7. Left(s, db')
    BY <1>1, <2>2 DEF Left, t
  <2> QED
    BY <2>1, <2>5, <2>6, <2>7, <1>1 DEF Executes, s
<1> QED
  BY <1>2, <1>3

\* The indexes of a table this start has made.
LEMMA CreateIndexesExecutes ==
    ASSUME IsDatabase(db), WellFormed(Script[at]), CreateIndexes
    PROVE  Executes
<1> DEFINE s == Script[at]
<1>1. status = "starting" /\ s.op = "indexes"
  BY DEF CreateIndexes, Does
<1> HIDE DEF s
<1>2. Left(s, db')
  BY <1>1 DEF Left
<1>3. CASE s.table \notin noted
  <2>1. Goes /\ db' = db
    BY <1>3 DEF CreateIndexes, Skip, s
  <2> QED
    BY <2>1, <1>1, <1>2, SameGrows DEF Executes, s
<1>4. CASE s.table \in noted
  <2>1. Goes /\ db' = [db EXCEPT !.unique = @ \cup ({s.table} \cap Names(DedupeTables))]
    BY <1>4 DEF CreateIndexes, s
  <2>2. /\ DOMAIN db' = DOMAIN db
        /\ db'.unique = db.unique \cup ({s.table} \cap Names(DedupeTables))
        /\ db'.tables = db.tables /\ db'.columns = db.columns /\ db'.global = db.global
        /\ db'.keys = db.keys /\ db'.simplified = db.simplified /\ db'.rows = db.rows
        /\ db'.events = db.events /\ db'.orphans = db.orphans
    BY <2>1 DEF IsDatabase
  <2>3. IsDatabase(db') /\ Grows(db, db')
    BY <2>2 DEF IsDatabase, Grows, TypesSimple, HistoriesBegun
  <2> QED
    BY <2>1, <2>3, <1>1, <1>2 DEF Executes, s
<1> QED
  BY <1>3, <1>4

\* A table of an old release dropped.
LEMMA DropTableExecutes ==
    ASSUME IsDatabase(db), WellFormed(Script[at]), DropTable
    PROVE  Executes
<1> DEFINE s == Script[at]
<1>1. status = "starting" /\ s.op = "drop" /\ s.table \in RemovedTables
  BY DEF DropTable, Does, WellFormed
<1> HIDE DEF s
<1>2. Goes /\ db' = [db EXCEPT !.tables = @ \ {s.table}]
  BY DEF DropTable, s
<1>3. /\ DOMAIN db' = DOMAIN db
      /\ db'.tables = db.tables \ {s.table}
      /\ db'.columns = db.columns /\ db'.unique = db.unique /\ db'.global = db.global
      /\ db'.keys = db.keys /\ db'.simplified = db.simplified /\ db'.rows = db.rows
      /\ db'.events = db.events /\ db'.orphans = db.orphans
  BY <1>2 DEF IsDatabase
<1>4. s.table \notin Tables
  BY <1>1, ListsOfTables
<1>5. IsDatabase(db')
  BY <1>3 DEF IsDatabase
<1>6. Grows(db, db')
  BY <1>3, <1>4 DEF Grows, TypesSimple, HistoriesBegun
<1>7. Left(s, db')
  BY <1>1, <1>3 DEF Left
<1> QED
  BY <1>1, <1>2, <1>5, <1>6, <1>7 DEF Executes, s

\* A column added where its table is there and it is missing.
LEMMA AddColumnExecutes ==
    ASSUME IsDatabase(db), WellFormed(Script[at]), AddColumn
    PROVE  Executes
<1> DEFINE s == Script[at]
<1>1. /\ status = "starting" /\ s.op = "column" /\ s.table \in Tables
      /\ s.name \in Columns[s.table]
  BY DEF AddColumn, Does, WellFormed
<1> HIDE DEF s
<1>2. /\ Goes
      /\ db' = IF s.table \in db.tables
               THEN [db EXCEPT !.columns[s.table] = @ \cup {s.name}] ELSE db
  BY DEF AddColumn, s
<1>3. CASE s.table \notin db.tables
  <2>1. db' = db
    BY <1>2, <1>3
  <2>2. Left(s, db')
    BY <1>1, <1>3, <2>1 DEF Left
  <2> QED
    BY <1>1, <1>2, <2>1, <2>2, SameGrows DEF Executes, s
<1>4. CASE s.table \in db.tables
  <2>1. db' = [db EXCEPT !.columns[s.table] = @ \cup {s.name}]
    BY <1>2, <1>4
  <2>2. /\ DOMAIN db' = DOMAIN db
        /\ db'.columns = [db.columns EXCEPT ![s.table] = @ \cup {s.name}]
        /\ db'.tables = db.tables /\ db'.unique = db.unique /\ db'.global = db.global
        /\ db'.keys = db.keys /\ db'.simplified = db.simplified /\ db'.rows = db.rows
        /\ db'.events = db.events /\ db'.orphans = db.orphans
    BY <2>1 DEF IsDatabase
  <2>3. s.name \in ColumnNames
    BY <1>1 DEF ColumnNames
  <2>4. db'.columns \in [Tables -> SUBSET ColumnNames]
    BY <2>2, <2>3, <1>1 DEF IsDatabase
  <2>5. \A u \in Tables : /\ db'.columns[u] \subseteq Columns[u]
                          /\ db.columns[u] \subseteq db'.columns[u]
    BY <2>2, <1>1 DEF IsDatabase
  <2>6. IsDatabase(db')
    BY <2>2, <2>4, <2>5 DEF IsDatabase
  <2>7. Grows(db, db')
    BY <2>2, <2>5 DEF Grows, TypesSimple, HistoriesBegun
  <2>8. Left(s, db')
    BY <2>2, <1>1 DEF Left, IsDatabase
  <2> QED
    BY <1>1, <1>2, <2>6, <2>7, <2>8 DEF Executes, s
<1> QED
  BY <1>3, <1>4

\* A column with a value for the rows that are there, added where it is missing.
LEMMA FilledColumn ==
    ASSUME IsDatabase(db), NEW t \in Tables, NEW c \in Columns[t],
           db'.columns = [db.columns EXCEPT ![t] = @ \cup {c}]
    PROVE  /\ db'.columns \in [Tables -> SUBSET ColumnNames]
           /\ \A u \in Tables : /\ db'.columns[u] \subseteq Columns[u]
                                /\ db.columns[u] \subseteq db'.columns[u]
           /\ c \in db'.columns[t]
<1>1. c \in ColumnNames
  BY DEF ColumnNames
<1> QED
  BY <1>1 DEF IsDatabase

\* The cashflow type of transactions that had none.
LEMMA AddCashflowColumnExecutes ==
    ASSUME IsDatabase(db), WellFormed(Script[at]), AddCashflowColumn
    PROVE  Executes
<1> DEFINE s == Script[at]
<1>1. /\ status = "starting" /\ s.op = "cashflow_column"
      /\ "transactions" \in Tables /\ "cashflow_type" \in Columns["transactions"]
  BY TablesListed, ColumnsListed DEF AddCashflowColumn, Does
<1> HIDE DEF s
<1>2. CASE Has("transactions", "cashflow_type")
  <2>1. Goes /\ db' = db
    BY <1>2 DEF AddCashflowColumn, Skip
  <2>2. Left(s, db')
    BY <1>1, <1>2, <2>1 DEF Left, Has
  <2> QED
    BY <1>1, <2>1, <2>2, SameGrows DEF Executes, s
<1>3. CASE ~Has("transactions", "cashflow_type")
  <2>1. /\ Goes
        /\ db' = [db EXCEPT !.columns["transactions"] = @ \cup {"cashflow_type"},
                            !.rows = [r \in DOMAIN @ |-> "expense"]]
    BY <1>3 DEF AddCashflowColumn
  <2>2. /\ DOMAIN db' = DOMAIN db
        /\ db'.columns = [db.columns EXCEPT !["transactions"] = @ \cup {"cashflow_type"}]
        /\ db'.rows = [r \in DOMAIN db.rows |-> "expense"]
        /\ db'.tables = db.tables /\ db'.unique = db.unique /\ db'.global = db.global
        /\ db'.keys = db.keys /\ db'.simplified = db.simplified /\ db'.events = db.events
        /\ db'.orphans = db.orphans
    BY <2>1 DEF IsDatabase
  <2>3. /\ db'.columns \in [Tables -> SUBSET ColumnNames]
        /\ \A u \in Tables : /\ db'.columns[u] \subseteq Columns[u]
                             /\ db.columns[u] \subseteq db'.columns[u]
        /\ "cashflow_type" \in db'.columns["transactions"]
    BY <1>1, <2>2, FilledColumn
  <2>4. IsDatabase(db')
    BY <2>2, <2>3 DEF IsDatabase
  <2>5. Grows(db, db')
    BY <2>2, <2>3 DEF Grows, TypesSimple, HistoriesBegun, CashflowTypes
  <2>6. Left(s, db')
    BY <1>1, <2>3 DEF Left
  <2> QED
    BY <1>1, <2>1, <2>4, <2>5, <2>6 DEF Executes, s
<1> QED
  BY <1>2, <1>3

\* The value source of accounts that had none.
LEMMA AddValueSourceExecutes ==
    ASSUME IsDatabase(db), WellFormed(Script[at]), AddValueSource
    PROVE  Executes
<1> DEFINE s == Script[at]
<1>1. /\ status = "starting" /\ s.op = "value_source"
      /\ "wealth_accounts" \in Tables /\ "value_source" \in Columns["wealth_accounts"]
  BY TablesListed, ColumnsListed DEF AddValueSource, Does
<1> HIDE DEF s
<1>2. CASE Has("wealth_accounts", "value_source")
  <2>1. Goes /\ db' = db
    BY <1>2 DEF AddValueSource, Skip
  <2>2. Left(s, db')
    BY <1>1, <1>2, <2>1 DEF Left, Has
  <2> QED
    BY <1>1, <2>1, <2>2, SameGrows DEF Executes, s
<1>3. CASE ~Has("wealth_accounts", "value_source")
  <2>1. /\ Goes
        /\ db' = [db EXCEPT !.columns["wealth_accounts"] = @ \cup {"value_source"},
                            !.accounts = [a \in DOMAIN @ |-> "manual"]]
    BY <1>3 DEF AddValueSource
  <2>2. /\ DOMAIN db' = DOMAIN db
        /\ db'.columns = [db.columns EXCEPT !["wealth_accounts"] = @ \cup {"value_source"}]
        /\ db'.tables = db.tables /\ db'.unique = db.unique /\ db'.global = db.global
        /\ db'.keys = db.keys /\ db'.simplified = db.simplified /\ db'.rows = db.rows
        /\ db'.events = db.events /\ db'.orphans = db.orphans
    BY <2>1 DEF IsDatabase
  <2>3. /\ db'.columns \in [Tables -> SUBSET ColumnNames]
        /\ \A u \in Tables : /\ db'.columns[u] \subseteq Columns[u]
                             /\ db.columns[u] \subseteq db'.columns[u]
        /\ "value_source" \in db'.columns["wealth_accounts"]
    BY <1>1, <2>2, FilledColumn
  <2>4. IsDatabase(db')
    BY <2>2, <2>3 DEF IsDatabase
  <2>5. Grows(db, db')
    BY <2>2, <2>3 DEF Grows, TypesSimple, HistoriesBegun, CashflowTypes
  <2>6. Left(s, db')
    BY <1>1, <2>3 DEF Left
  <2> QED
    BY <1>1, <2>1, <2>4, <2>5, <2>6 DEF Executes, s
<1> QED
  BY <1>2, <1>3

\* The rule of an old cashflow type.
LEMMA MigrateCashflowRulesExecutes ==
    ASSUME IsDatabase(db), WellFormed(Script[at]), MigrateCashflowRules
    PROVE  Executes
<1> DEFINE s == Script[at]
<1>1. status = "starting" /\ s.op = "cashflow_rules"
  BY DEF MigrateCashflowRules, Does, WellFormed
<1> HIDE DEF s
<1>2. Goes /\ db' = [db EXCEPT !.rule = Simplified(@)]
  BY DEF MigrateCashflowRules, s
<1>3. /\ DOMAIN db' = DOMAIN db
      /\ db'.tables = db.tables /\ db'.columns = db.columns /\ db'.unique = db.unique
      /\ db'.global = db.global /\ db'.keys = db.keys /\ db'.simplified = db.simplified
      /\ db'.rows = db.rows /\ db'.events = db.events /\ db'.orphans = db.orphans
  BY <1>2 DEF IsDatabase
<1>4. IsDatabase(db')
  BY <1>1, <1>3 DEF IsDatabase
<1>5. Grows(db, db')
  BY <1>1, <1>3 DEF Grows, TypesSimple, HistoriesBegun
<1>6. Left(s, db')
  BY <1>1, <1>3 DEF Left
<1> QED
  BY <1>1, <1>2, <1>4, <1>5, <1>6 DEF Executes, s

\* The old index of a table dropped.
LEMMA DropDedupeIndexExecutes ==
    ASSUME IsDatabase(db), WellFormed(Script[at]), DropDedupeIndex
    PROVE  Executes
<1> DEFINE s == Script[at]
<1>1. status = "starting" /\ s.op = "drop_index"
  BY DEF DropDedupeIndex, Does, WellFormed
<1> HIDE DEF s
<1>2. Goes /\ db' = [db EXCEPT !.global = @ \ {s.table}]
  BY DEF DropDedupeIndex, s
<1>3. /\ DOMAIN db' = DOMAIN db
      /\ db'.global = db.global \ {s.table}
      /\ db'.tables = db.tables /\ db'.columns = db.columns /\ db'.unique = db.unique
      /\ db'.keys = db.keys /\ db'.simplified = db.simplified /\ db'.rows = db.rows
      /\ db'.events = db.events /\ db'.orphans = db.orphans
  BY <1>2 DEF IsDatabase
<1>4. IsDatabase(db')
  BY <1>1, <1>3 DEF IsDatabase
<1>5. Grows(db, db')
  BY <1>1, <1>3 DEF Grows, TypesSimple, HistoriesBegun
<1>6. Left(s, db')
  BY <1>1, <1>3 DEF Left
<1> QED
  BY <1>1, <1>2, <1>4, <1>5, <1>6 DEF Executes, s

\* The new index of a table created.
LEMMA CreateDedupeIndexExecutes ==
    ASSUME IsDatabase(db), WellFormed(Script[at]), CreateDedupeIndex
    PROVE  Executes
<1> DEFINE s == Script[at]
<1>1. status = "starting" /\ s.op = "create_index" /\ s.table \in Names(DedupeTables)
  BY DEF CreateDedupeIndex, Does, WellFormed
<1> HIDE DEF s
<1>2. Goes /\ db' = [db EXCEPT !.unique = @ \cup {s.table}]
  BY DEF CreateDedupeIndex, s
<1>3. /\ DOMAIN db' = DOMAIN db
      /\ db'.unique = db.unique \cup {s.table}
      /\ db'.tables = db.tables /\ db'.columns = db.columns /\ db'.global = db.global
      /\ db'.keys = db.keys /\ db'.simplified = db.simplified /\ db'.rows = db.rows
      /\ db'.events = db.events /\ db'.orphans = db.orphans
  BY <1>2 DEF IsDatabase
<1>4. IsDatabase(db')
  BY <1>1, <1>3 DEF IsDatabase
<1>5. Grows(db, db')
  BY <1>1, <1>3 DEF Grows, TypesSimple, HistoriesBegun
<1>6. Left(s, db')
  BY <1>1, <1>3 DEF Left
<1> QED
  BY <1>1, <1>2, <1>4, <1>5, <1>6 DEF Executes, s

\* The money that came in typed as income, where this start added the column.
LEMMA BackfillCashflowExecutes ==
    ASSUME IsDatabase(db), WellFormed(Script[at]), BackfillCashflow
    PROVE  Executes
<1> DEFINE s == Script[at]
<1>1. status = "starting" /\ s.op = "cashflow_backfill"
  BY DEF BackfillCashflow, Does
<1> HIDE DEF s
<1>2. Left(s, db')
  BY <1>1 DEF Left
<1>3. CASE "cashflow_type" \notin noted
  <2>1. Goes /\ db' = db
    BY <1>3 DEF BackfillCashflow
  <2> QED
    BY <1>1, <1>2, <2>1, SameGrows DEF Executes, s
<1>4. CASE "cashflow_type" \in noted
  <2>1. /\ Goes
        /\ db' = [db EXCEPT !.rows = [r \in DOMAIN @ |-> IF r = "in" THEN "income" ELSE @[r]]]
    BY <1>4 DEF BackfillCashflow
  <2>2. /\ DOMAIN db' = DOMAIN db
        /\ db'.rows = [r \in DOMAIN db.rows |-> IF r = "in" THEN "income" ELSE db.rows[r]]
        /\ db'.tables = db.tables /\ db'.columns = db.columns /\ db'.unique = db.unique
        /\ db'.global = db.global /\ db'.keys = db.keys /\ db'.simplified = db.simplified
        /\ db'.events = db.events /\ db'.orphans = db.orphans
    BY <2>1 DEF IsDatabase
  <2>3. IsDatabase(db')
    BY <2>2 DEF IsDatabase
  <2>4. Grows(db, db')
    BY <2>2 DEF Grows, TypesSimple, HistoriesBegun, CashflowTypes
  <2> QED
    BY <1>1, <1>2, <2>1, <2>3, <2>4 DEF Executes, s
<1> QED
  BY <1>3, <1>4

\* A first event for each owed item that has none, or an exception.
LEMMA InsertBaselineExecutes ==
    ASSUME IsDatabase(db), WellFormed(Script[at]), InsertBaseline
    PROVE  Executes
<1> DEFINE s == Script[at]
<1>1. status = "starting" /\ s.op = "baseline"
  BY DEF InsertBaseline, Does
<1> HIDE DEF s
<1>2. CASE ~Has("owed_items", "user_id")
  BY <1>1, <1>2, SameGrows DEF InsertBaseline, Fails, Executes
<1>3. CASE Has("owed_items", "user_id")
  <2>1. /\ Goes
        /\ db' = [db EXCEPT !.events = [i \in DOMAIN @ |-> IF @[i] = 0 THEN 1 ELSE @[i]]]
    BY <1>3 DEF InsertBaseline
  <2>2. /\ DOMAIN db' = DOMAIN db
        /\ db'.events = [i \in DOMAIN db.events |->
                            IF db.events[i] = 0 THEN 1 ELSE db.events[i]]
        /\ db'.tables = db.tables /\ db'.columns = db.columns /\ db'.unique = db.unique
        /\ db'.global = db.global /\ db'.keys = db.keys /\ db'.simplified = db.simplified
        /\ db'.rows = db.rows /\ db'.orphans = db.orphans
    BY <2>1 DEF IsDatabase
  <2>3. HistoriesBegun(db')
    BY <2>2 DEF IsDatabase, HistoriesBegun
  <2>4. IsDatabase(db')
    BY <2>2, <2>3 DEF IsDatabase, HistoriesBegun
  <2>5. Grows(db, db')
    BY <2>2, <2>3 DEF Grows, TypesSimple
  <2>6. Left(s, db')
    BY <1>1, <2>3 DEF Left
  <2> QED
    BY <1>1, <2>1, <2>4, <2>5, <2>6 DEF Executes, s
<1> QED
  BY <1>2, <1>3

\* Whatever a cashflow type was, what remains of it is one of three.
LEMMA SimplifiedIsSimple ==
    ASSUME NEW type
    PROVE  Simplified(type) \in CashflowTypes
BY DEF Simplified, CashflowTypes

\* Old cashflow types replaced, with the table rebuilt where its CHECK is old.
LEMMA MigrateCashflowRowsExecutes ==
    ASSUME IsDatabase(db), WellFormed(Script[at]), MigrateCashflowRows
    PROVE  Executes
<1> DEFINE s == Script[at]
<1>1. status = "starting" /\ s.op = "cashflow_rows" /\ Goes
  BY DEF MigrateCashflowRows, Does
<1> HIDE DEF s
<1>2. /\ DOMAIN db' = DOMAIN db
      /\ db'.rows = [r \in DOMAIN db.rows |-> Simplified(db.rows[r])]
      /\ db'.simplified
      /\ db'.keys \subseteq db.keys /\ db'.unique \in {db.unique, db.unique \cup {"transactions"}}
      /\ db'.tables = db.tables /\ db'.columns = db.columns /\ db'.global = db.global
      /\ db'.events = db.events /\ db'.orphans = db.orphans
  <2>1. CASE db.simplified
    <3>1. db' = [db EXCEPT !.rows = [r \in DOMAIN @ |-> Simplified(@[r])]]
      BY <2>1 DEF MigrateCashflowRows, NormaliseTransactions
    <3> QED
      BY <3>1, <2>1 DEF IsDatabase
  <2>2. CASE ~db.simplified
    <3>1. db' = [db EXCEPT !.simplified = TRUE,
                           !.rows = [r \in DOMAIN @ |-> Simplified(@[r])],
                           !.unique = @ \cup {"transactions"},
                           !.keys = @ \ KeysOf("transactions")]
      BY <2>2 DEF MigrateCashflowRows, RebuildTransactions
    <3> QED
      BY <3>1 DEF IsDatabase
  <2> QED
    BY <2>1, <2>2
<1>3. TypesSimple(db')
  BY <1>2, SimplifiedIsSimple DEF TypesSimple
<1>4. "transactions" \in Names(DedupeTables)
  BY ListsOfTables
<1>5. IsDatabase(db')
  BY <1>2, <1>4 DEF IsDatabase
<1>6. Grows(db, db')
  BY <1>2, <1>3 DEF Grows, HistoriesBegun
<1>7. Left(s, db')
  BY <1>1, <1>3 DEF Left
<1> QED
  BY <1>1, <1>5, <1>6, <1>7 DEF Executes, s

\* Accounts valued by what their texts mention, where this start added the column.
LEMMA ClassifyAccountsExecutes ==
    ASSUME IsDatabase(db), WellFormed(Script[at]), ClassifyAccounts
    PROVE  Executes
<1> DEFINE s == Script[at]
<1>1. status = "starting" /\ s.op = "classify" /\ Goes
  BY DEF ClassifyAccounts, Does
<1> HIDE DEF s
<1>2. Left(s, db')
  BY <1>1 DEF Left
<1>3. /\ DOMAIN db' = DOMAIN db
      /\ db'.tables = db.tables /\ db'.columns = db.columns /\ db'.unique = db.unique
      /\ db'.global = db.global /\ db'.keys = db.keys /\ db'.simplified = db.simplified
      /\ db'.rows = db.rows /\ db'.events = db.events /\ db'.orphans = db.orphans
  BY DEF ClassifyAccounts, IsDatabase
<1>4. IsDatabase(db') /\ Grows(db, db')
  BY <1>3 DEF IsDatabase, Grows, TypesSimple, HistoriesBegun
<1> QED
  BY <1>1, <1>2, <1>4 DEF Executes, s

\* The relationships checked: what is left is that no row is without its parent.
LEMMA PreflightExecutes ==
    ASSUME IsDatabase(db), WellFormed(Script[at]), PreflightRelationships
    PROVE  Executes
<1> DEFINE s == Script[at]
<1>1. status = "starting" /\ s.op = "preflight"
  BY DEF PreflightRelationships, Does
<1> HIDE DEF s
<1>2. CASE ~(SchemaSuffices /\ ~db.orphans)
  BY <1>1, <1>2, SameGrows DEF PreflightRelationships, Fails, Executes
<1>3. CASE SchemaSuffices /\ ~db.orphans
  <2>1. Goes /\ db' = db /\ noted' = Unfinished(db)
    BY <1>3 DEF PreflightRelationships, Unfinished
  <2>2. Left(s, db')
    BY <1>1, <1>3, <2>1 DEF Left
  <2> QED
    BY <1>1, <2>1, <2>2, SameGrows DEF Executes, s
<1> QED
  BY <1>2, <1>3

\* The copy of the first table to rebuild.
LEMMA CreateTemporaryExecutes ==
    ASSUME IsDatabase(db), WellFormed(Script[at]), CreateTemporaryTable
    PROVE  Executes
<1> DEFINE s == Script[at]
<1>1. status = "starting" /\ s.op = "temporary"
  BY DEF CreateTemporaryTable, Does
<1> HIDE DEF s
<1>2. Left(s, db')
  BY <1>1 DEF Left
<1>3. CASE noted = {}
  <2>1. Goes /\ db' = db /\ noted' = noted
    BY <1>3 DEF CreateTemporaryTable, Skip
  <2> QED
    BY <1>1, <1>2, <2>1, SameGrows DEF Executes, s
<1>4. CASE noted # {} /\ db.temporary
  BY <1>1, <1>4, SameGrows DEF CreateTemporaryTable, Fails, Executes
<1>5. CASE noted # {} /\ ~db.temporary
  <2>1. Goes /\ noted' = noted /\ db' = [db EXCEPT !.temporary = TRUE]
    BY <1>5 DEF CreateTemporaryTable
  <2>2. /\ DOMAIN db' = DOMAIN db
        /\ db'.tables = db.tables /\ db'.columns = db.columns /\ db'.unique = db.unique
        /\ db'.global = db.global /\ db'.keys = db.keys /\ db'.simplified = db.simplified
        /\ db'.rows = db.rows /\ db'.events = db.events /\ db'.orphans = db.orphans
    BY <2>1 DEF IsDatabase
  <2>3. IsDatabase(db') /\ Grows(db, db')
    BY <2>2 DEF IsDatabase, Grows, TypesSimple, HistoriesBegun
  <2> QED
    BY <1>1, <1>2, <2>1, <2>2, <2>3 DEF Executes, s
<1> QED
  BY <1>3, <1>4, <1>5

\* The tables without their foreign keys rebuilt.
LEMMA RebuildExecutes ==
    ASSUME IsDatabase(db), WellFormed(Script[at]), RebuildWithForeignKeys
    PROVE  Executes
<1> DEFINE s == Script[at]
<1>1. status = "starting" /\ s.op = "rebuild" /\ Goes /\ noted' = {}
  BY DEF RebuildWithForeignKeys, Does
<1> HIDE DEF s
<1>2. Left(s, db')
  BY <1>1 DEF Left
<1>3. CASE noted = {}
  <2>1. db' = db
    BY <1>3 DEF RebuildWithForeignKeys
  <2> QED
    BY <1>1, <1>2, <1>3, <2>1, SameGrows DEF Executes, s
<1>4. CASE noted # {}
  <2>1. db' = [db EXCEPT !.temporary = FALSE, !.keys = FOREIGN_KEYS]
    BY <1>4 DEF RebuildWithForeignKeys
  <2>2. /\ DOMAIN db' = DOMAIN db
        /\ db'.keys = FOREIGN_KEYS
        /\ db'.tables = db.tables /\ db'.columns = db.columns /\ db'.unique = db.unique
        /\ db'.global = db.global /\ db'.simplified = db.simplified /\ db'.rows = db.rows
        /\ db'.events = db.events /\ db'.orphans = db.orphans
    BY <2>1 DEF IsDatabase
  <2>3. IsDatabase(db') /\ Grows(db, db')
    BY <2>2 DEF IsDatabase, Grows, TypesSimple, HistoriesBegun
  <2> QED
    BY <1>1, <1>2, <2>2, <2>3 DEF Executes, s
<1> QED
  BY <1>3, <1>4

-----------------------------------------------------------------------------
(* The invariant                                                           *)

\* On PostgreSQL the schema is Alembic's, and only the types may be old.
IsHosted(d) ==
    /\ DOMAIN d = {"tables", "columns", "unique", "global", "keys", "simplified", "rows",
                   "rule", "accounts", "events", "orphans", "temporary"}
    /\ d.tables = Tables /\ d.columns = Columns
    /\ d.unique = Names(DedupeTables) /\ d.global = {}
    /\ d.keys = FOREIGN_KEYS /\ ~d.orphans
    /\ HistoriesBegun(d)

\* On SQLite what every statement before the next one has left is still there,
\* and a rebuild goes by tables that still lack a key.
SqliteInv ==
    /\ IsDatabase(db)
    /\ status = "starting" =>
          /\ at \in 1..Len(SqliteScript)
          /\ \A n \in 1..at - 1 : Left(SqliteScript[n], db)
          /\ SqliteScript[at].op \in {"temporary", "rebuild"} => noted = Unfinished(db)
    /\ status = "running" =>
          /\ \A s \in Names(SqliteScript) : Left(s, db)
          /\ db.keys = FOREIGN_KEYS /\ noted = {}

PostgresInv ==
    /\ IsHosted(db)
    /\ status = "starting" => at = 1 /\ noted = {}
    /\ status = "running" => TypesSimple(db) /\ noted = {}

StartInv ==
    /\ dialect \in {"sqlite", "postgresql"}
    /\ status \in {"down", "starting", "running", "failed"}
    /\ dialect = "sqlite" => SqliteInv
    /\ dialect = "postgresql" => PostgresInv

\* Any statement of the script of SQLite.
LEMMA StatementExecutes ==
    ASSUME dialect = "sqlite", SqliteInv, Statement
    PROVE  Executes
<1>1. Script = SqliteScript
  BY DEF Script
<1>2. status = "starting"
  BY DEF Statement, CreateTable, CreateIndexes, DropTable, AddColumn, AddCashflowColumn,
         BackfillCashflow, InsertBaseline, MigrateCashflowRows, MigrateCashflowRules,
         AddValueSource, ClassifyAccounts, DropDedupeIndex, CreateDedupeIndex,
         PreflightRelationships, CreateTemporaryTable, RebuildWithForeignKeys,
         NormalisePostgres, Does
<1>3. Script[at] \in Statements
  <2>1. SqliteScript \in Seq(Statements) /\ at \in 1..Len(SqliteScript)
    BY <1>2, ScriptContent DEF Part, SqliteInv
  <2> QED
    BY <2>1, <1>1
<1>4. WellFormed(Script[at]) /\ Script[at].op \in Operations
  BY <1>3 DEF Statements, WellFormed
<1>5. ~NormalisePostgres
  BY <1>4 DEF NormalisePostgres, Does, Operations
<1>6. IsDatabase(db)
  BY DEF SqliteInv
<1>7. CASE CreateTable \/ CreateIndexes \/ DropTable \/ AddColumn
  BY <1>4, <1>6, <1>7, CreateTableExecutes, CreateIndexesExecutes, DropTableExecutes,
     AddColumnExecutes
<1>8. CASE AddCashflowColumn \/ BackfillCashflow \/ InsertBaseline
  BY <1>4, <1>6, <1>8, AddCashflowColumnExecutes, BackfillCashflowExecutes,
     InsertBaselineExecutes
<1>9. CASE MigrateCashflowRows \/ MigrateCashflowRules \/ AddValueSource \/ ClassifyAccounts
  BY <1>4, <1>6, <1>9, MigrateCashflowRowsExecutes, MigrateCashflowRulesExecutes,
     AddValueSourceExecutes, ClassifyAccountsExecutes
<1>10. CASE DropDedupeIndex \/ CreateDedupeIndex
  BY <1>4, <1>6, <1>10, DropDedupeIndexExecutes, CreateDedupeIndexExecutes
<1>11. CASE PreflightRelationships \/ CreateTemporaryTable \/ RebuildWithForeignKeys
  BY <1>4, <1>6, <1>11, PreflightExecutes, CreateTemporaryExecutes, RebuildExecutes
<1> QED
  BY <1>5, <1>7, <1>8, <1>9, <1>10, <1>11 DEF Statement

\* No key is missing from a database when no table lacks one.
LEMMA NoneUnfinished ==
    ASSUME NEW d, IsDatabase(d), Unfinished(d) = {}
    PROVE  d.keys = FOREIGN_KEYS
<1>1. \A key \in FOREIGN_KEYS \ d.keys : key[1] \in Unfinished(d)
  BY DEF Unfinished
<1> QED
  BY <1>1 DEF IsDatabase

\* One more statement of the script of SQLite keeps its invariant.
LEMMA ExecutesKeeps ==
    ASSUME dialect = "sqlite", SqliteInv, Executes
    PROVE  SqliteInv'
<1> DEFINE script == SqliteScript
           d == db'
<1> SUFFICES /\ IsDatabase(d)
             /\ status' = "starting" =>
                   /\ at' \in 1..Len(script)
                   /\ \A n \in 1..at' - 1 : Left(script[n], d)
                   /\ script[at'].op \in {"temporary", "rebuild"} => noted' = Unfinished(d)
             /\ status' = "running" =>
                   /\ \A s \in Names(script) : Left(s, d)
                   /\ d.keys = FOREIGN_KEYS /\ noted' = {}
  BY DEF SqliteInv
<1>1. /\ Script = script /\ script \in Seq(Statements) /\ Chained(script)
      /\ at \in 1..Len(script) /\ DOMAIN script = 1..Len(script) /\ Len(script) \in Nat
  BY ScriptContent DEF Script, Part, SqliteInv, Executes
<1>2. IsDatabase(db) /\ IsDatabase(d) /\ Grows(db, d)
  BY DEF SqliteInv, Executes
<1>3. CASE status' = "failed"
  BY <1>2, <1>3
<1>4. CASE status' # "failed"
  <2>1. /\ at' = at + 1
        /\ status' = IF at = Len(script) THEN "running" ELSE "starting"
        /\ Left(script[at], d)
        /\ script[at].op = "preflight" => noted' = Unfinished(d)
        /\ script[at].op = "temporary" => noted' = noted /\ d.keys = db.keys
        /\ script[at].op = "rebuild" =>
              /\ noted' = {}
              /\ d.keys = FOREIGN_KEYS \/ (noted = {} /\ d.keys = db.keys)
    BY <1>1, <1>4 DEF Executes, Goes
  <2>2. ASSUME NEW n \in 1..at PROVE Left(script[n], d)
    <3>1. CASE n = at
      BY <3>1, <2>1
    <3>2. CASE n \in 1..at - 1
      <4>1. Left(script[n], db) /\ n \in 1..Len(script)
        BY <3>2, <1>1 DEF SqliteInv, Executes
      <4>2. WellFormed(script[n])
        BY <4>1, <1>1 DEF Statements
      <4> QED
        BY <4>1, <4>2, <1>2, LeftStays
    <3> QED
      BY <3>1, <3>2, <1>1
  <2>3. CASE at = Len(script)
    <3>1. \A s \in Names(script) : Left(s, d)
      BY <2>2, <2>3, <1>1 DEF Names
    <3>2. script[at].op = "rebuild"
      BY <2>3, ScriptContent
    <3>3. noted = Unfinished(db)
      BY <3>2 DEF SqliteInv, Executes
    <3>4. noted = {} => db.keys = FOREIGN_KEYS
      BY <3>3, <1>2, NoneUnfinished
    <3> QED
      BY <3>1, <3>2, <3>4, <2>1, <2>3, <1>2
  <2>4. CASE at # Len(script)
    <3>1. at' \in 1..Len(script) /\ at' - 1 = at
      BY <2>1, <2>4, <1>1
    <3>2. ASSUME script[at'].op \in {"temporary", "rebuild"}
          PROVE  noted' = Unfinished(d)
      <4> DEFINE k == script[at'].op
      <4>1. Kind(script[at']) = k
        BY <3>2 DEF Kind
      <4>2. CASE k = "temporary"
        <5>0. <<"preflight", "temporary">> \in Partners
          BY DEF Partners
        <5>1. \A n \in 1..Len(script) :
                 Kind(script[n]) = "temporary" => Kind(script[n - 1]) = "preflight"
          BY <5>0, <1>1, Neighbours
        <5>2. Kind(script[at' - 1]) = "preflight"
          BY <5>1, <4>1, <4>2, <3>1
        <5>3. Kind(script[at]) = "preflight"
          BY <5>2, <3>1
        <5>4. script[at].op = "preflight"
          BY <5>3 DEF Kind
        <5> QED
          BY <5>4, <2>1
      <4>3. CASE k = "rebuild"
        <5>0. <<"temporary", "rebuild">> \in Partners
          BY DEF Partners
        <5>1. \A n \in 1..Len(script) :
                 Kind(script[n]) = "rebuild" => Kind(script[n - 1]) = "temporary"
          BY <5>0, <1>1, Neighbours
        <5>2. Kind(script[at' - 1]) = "temporary"
          BY <5>1, <4>1, <4>3, <3>1
        <5>3. Kind(script[at]) = "temporary"
          BY <5>2, <3>1
        <5>4. script[at].op = "temporary"
          BY <5>3 DEF Kind
        <5>5. noted = Unfinished(db) /\ noted' = noted /\ d.keys = db.keys
          BY <5>4, <2>1 DEF SqliteInv, Executes
        <5> QED
          BY <5>5 DEF Unfinished
      <4> QED
        BY <3>2, <4>2, <4>3
    <3> QED
      BY <3>1, <3>2, <2>1, <2>2, <2>4, <1>2
  <2> QED
    BY <2>3, <2>4
<1> QED
  BY <1>3, <1>4

\* What an old release left on SQLite is within what the models describe; a
\* table that it left as it was has none of the columns, and its rows no value.
LEMMA OldIsDatabase ==
    ASSUME NEW older, NEW absent, NEW d \in OldDatabase(older, absent)
    PROVE  /\ IsDatabase(d)
           /\ Tables \ absent \subseteq d.tables
           /\ \A t \in Tables : t \in older => d.columns[t] = {}
           /\ "transactions" \in absent => DOMAIN d.rows = {}
           /\ "transactions" \notin older \cup absent =>
                 \A r \in DOMAIN d.rows :
                    d.rows[r] \in {"income", "reimbursement", "internal_transfer"}
           /\ "wealth_accounts" \in absent => DOMAIN d.accounts = {}
           /\ "wealth_accounts" \notin older \cup absent =>
                 \A a \in DOMAIN d.accounts : d.accounts[a] = "manual"
<1> DEFINE Plain(t) == t \notin older \cup absent
           Kept(t, kept) == IF t \in absent THEN {} ELSE kept
           keys == {key \in FOREIGN_KEYS : Plain(key[1])}
<1>1. PICK removed, simplified, orphans :
      /\ removed \in {{}, RemovedTables}
      /\ d = [tables |-> (Tables \ absent) \cup removed,
              columns |-> [t \in Tables |-> IF Plain(t) THEN Columns[t] ELSE {}],
              unique |-> {t \in Names(DedupeTables) : Plain(t)},
              global |-> {t \in Names(DedupeTables) \ absent : t \in older},
              keys |-> keys,
              simplified |-> simplified,
              rows |-> [r \in Kept("transactions", Rows) |->
                           IF ~Plain("transactions") THEN None
                           ELSE IF simplified THEN "income"
                           ELSE IF r = "in" THEN "reimbursement" ELSE "internal_transfer"],
              rule |-> "internal_transfer",
              accounts |-> [a \in Kept("wealth_accounts", Accounts) |->
                               IF Plain("wealth_accounts") THEN "manual" ELSE None],
              events |-> [i \in Kept("owed_items", {"item"}) |->
                             IF Plain("owed_item_events") THEN 1 ELSE 0],
              orphans |-> orphans,
              temporary |-> FALSE]
  BY DEF OldDatabase
<1> HIDE DEF Plain, Kept
<1>2. DOMAIN d = {"tables", "columns", "unique", "global", "keys", "simplified", "rows",
                  "rule", "accounts", "events", "orphans", "temporary"}
  BY <1>1
<1>3. /\ removed \in {{}, RemovedTables}
      /\ d.tables = (Tables \ absent) \cup removed
      /\ d.columns = [t \in Tables |-> IF Plain(t) THEN Columns[t] ELSE {}]
      /\ d.unique = {t \in Names(DedupeTables) : Plain(t)}
      /\ d.global = {t \in Names(DedupeTables) \ absent : t \in older}
      /\ d.keys = keys
      /\ d.events = [i \in Kept("owed_items", {"item"}) |->
                        IF Plain("owed_item_events") THEN 1 ELSE 0]
  BY <1>1
<1>4. \A t \in Tables : Columns[t] \subseteq ColumnNames
  BY DEF ColumnNames
<1>5. d.columns \in [Tables -> SUBSET ColumnNames]
  BY <1>3, <1>4
<1>6. \A t \in Tables : d.columns[t] \subseteq Columns[t]
  BY <1>3
<1>7. IsDatabase(d)
  BY <1>2, <1>3, <1>5, <1>6 DEF IsDatabase
<1>8. Tables \ absent \subseteq d.tables
  BY <1>3
<1>9. \A t \in Tables : t \in older => d.columns[t] = {}
  BY <1>3 DEF Plain
<1>10. /\ d.rows = [r \in Kept("transactions", Rows) |->
                       IF ~Plain("transactions") THEN None
                       ELSE IF simplified THEN "income"
                       ELSE IF r = "in" THEN "reimbursement" ELSE "internal_transfer"]
       /\ d.accounts = [a \in Kept("wealth_accounts", Accounts) |->
                           IF Plain("wealth_accounts") THEN "manual" ELSE None]
  BY <1>1
<1>11. /\ "transactions" \in absent => DOMAIN d.rows = {}
       /\ "wealth_accounts" \in absent => DOMAIN d.accounts = {}
  BY <1>10 DEF Kept
<1>12. /\ "transactions" \notin older \cup absent =>
             \A r \in DOMAIN d.rows :
                d.rows[r] \in {"income", "reimbursement", "internal_transfer"}
       /\ "wealth_accounts" \notin older \cup absent =>
             \A a \in DOMAIN d.accounts : d.accounts[a] = "manual"
  BY <1>10 DEF Plain
<1> QED
  BY <1>7, <1>8, <1>9, <1>11, <1>12

\* The invariant holds of a backend that was never started.
LEMMA StartInvInit ==
    ASSUME Init
    PROVE  StartInv
<1>1. CASE dialect = "sqlite"
  <2>1. IsDatabase(db) /\ status = "down"
    BY <1>1, OldIsDatabase DEF Init
  <2> QED
    BY <1>1, <2>1 DEF StartInv, SqliteInv
<1>2. CASE dialect = "postgresql"
  <2>1. db \in HostedDatabases /\ status = "down"
    BY <1>2 DEF Init
  <2>2. DOMAIN db = {"tables", "columns", "unique", "global", "keys", "simplified", "rows",
                     "rule", "accounts", "events", "orphans", "temporary"}
    BY <2>1 DEF HostedDatabases
  <2>3. /\ db.tables = Tables /\ db.columns = Columns /\ db.unique = Names(DedupeTables)
        /\ db.global = {} /\ db.keys = FOREIGN_KEYS /\ ~db.orphans
        /\ db.events \in [{"item"} -> {1}]
    BY <2>1 DEF HostedDatabases
  <2>4. IsHosted(db)
    BY <2>2, <2>3 DEF IsHosted, HistoriesBegun
  <2> QED
    BY <1>2, <2>1, <2>4 DEF StartInv, PostgresInv
<1> QED
  BY <1>1, <1>2 DEF Init

\* The one statement on PostgreSQL.
LEMMA OnePostgresStatement ==
    ASSUME dialect = "postgresql", PostgresInv, Statement
    PROVE  /\ status = "starting" /\ at = 1 /\ noted = {}
           /\ Len(Script) = 1 /\ NormalisePostgres
<1>1. Script = <<Stmt("postgres", "transactions", "cashflow_type")>>
  BY DEF Script, PostgresScript
<1>2. Len(Script) = 1 /\ Script[1].op = "postgres"
  BY <1>1 DEF Stmt
<1>3. status = "starting"
  BY DEF Statement, CreateTable, CreateIndexes, DropTable, AddColumn, AddCashflowColumn,
         BackfillCashflow, InsertBaseline, MigrateCashflowRows, MigrateCashflowRules,
         AddValueSource, ClassifyAccounts, DropDedupeIndex, CreateDedupeIndex,
         PreflightRelationships, CreateTemporaryTable, RebuildWithForeignKeys,
         NormalisePostgres, Does
<1>4. at = 1 /\ noted = {} /\ IsHosted(db)
  BY <1>3 DEF PostgresInv
<1>5. NormalisePostgres
  BY <1>2, <1>4
     DEF Statement, CreateTable, CreateIndexes, DropTable, AddColumn, AddCashflowColumn,
         BackfillCashflow, InsertBaseline, MigrateCashflowRows, MigrateCashflowRules,
         AddValueSource, ClassifyAccounts, DropDedupeIndex, CreateDedupeIndex,
         PreflightRelationships, CreateTemporaryTable, RebuildWithForeignKeys, Does
<1> QED
  BY <1>2, <1>3, <1>4, <1>5

\* It makes the types simple and leaves the rest of the schema as it was.
LEMMA PostgresStatementKeeps ==
    ASSUME dialect = "postgresql", PostgresInv, Statement
    PROVE  PostgresInv' /\ status' = "running"
<1>1. /\ status = "starting" /\ at = 1 /\ noted = {} /\ Len(Script) = 1
      /\ NormalisePostgres
  BY OnePostgresStatement
<1>2. IsHosted(db)
  BY DEF PostgresInv
<1>3. status' = "running" /\ noted' = {}
  BY <1>1 DEF NormalisePostgres, Goes
<1>4. db' = [db EXCEPT !.simplified = TRUE,
                       !.rows = [r \in DOMAIN @ |->
                                    IF @[r] \in CashflowTypes THEN @[r]
                                    ELSE IF r = "in" THEN "income" ELSE "expense"]]
  BY <1>1 DEF NormalisePostgres
<1>5. /\ DOMAIN db' = DOMAIN db
      /\ db'.simplified
      /\ db'.rows = [r \in DOMAIN db.rows |->
                        IF db.rows[r] \in CashflowTypes THEN db.rows[r]
                        ELSE IF r = "in" THEN "income" ELSE "expense"]
      /\ db'.tables = db.tables /\ db'.columns = db.columns /\ db'.unique = db.unique
      /\ db'.global = db.global /\ db'.keys = db.keys /\ db'.events = db.events
      /\ db'.orphans = db.orphans
  BY <1>2, <1>4 DEF IsHosted
<1>6. IsHosted(db')
  BY <1>2, <1>5 DEF IsHosted, HistoriesBegun
<1>7. TypesSimple(db')
  BY <1>5 DEF TypesSimple, CashflowTypes
<1> QED
  BY <1>3, <1>6, <1>7 DEF PostgresInv

\* A user's choice changes nothing but the accounts.
LEMMA ChoiceChanges ==
    ASSUME NEW a, ChooseValueSource(a),
           DOMAIN db = {"tables", "columns", "unique", "global", "keys", "simplified",
                        "rows", "rule", "accounts", "events", "orphans", "temporary"}
    PROVE  /\ DOMAIN db' = DOMAIN db
           /\ db'.tables = db.tables /\ db'.columns = db.columns /\ db'.unique = db.unique
           /\ db'.global = db.global /\ db'.keys = db.keys
           /\ db'.simplified = db.simplified /\ db'.rows = db.rows
           /\ db'.events = db.events /\ db'.orphans = db.orphans
<1>1. PICK source : db' = [db EXCEPT !.accounts[a] = source]
  BY DEF ChooseValueSource
<1> QED
  BY <1>1

\* Every step keeps the invariant.
LEMMA StartInvStep ==
    ASSUME StartInv, [Next]_vars
    PROVE  StartInv'
<1>1. CASE Start /\ UNCHANGED <<dialect, chosen, crashes>>
  <2>1. /\ dialect' = dialect /\ db' = db /\ status' = "starting" /\ at' = 1 /\ noted' = {}
    BY <1>1 DEF Start
  <2>2. ASSUME dialect = "sqlite" PROVE SqliteInv'
    <3>1. IsDatabase(db)
      BY <2>2 DEF StartInv, SqliteInv
    <3>2. 1 \in 1..Len(SqliteScript) /\ SqliteScript[1].op \notin {"temporary", "rebuild"}
      <4>1. SqliteScript \in Seq(Statements) /\ Chained(SqliteScript)
        BY ScriptContent DEF Part
      <4>2. Len(SqliteScript) \in Nat /\ Len(SqliteScript) > 0
        <5>1. Stmt("preflight", None, None) \in Names(SqliteScript)
          BY ScriptContent
        <5> QED
          BY <4>1, <5>1 DEF Names
      <4>3. <<"preflight", "temporary">> \in Partners /\ <<"temporary", "rebuild">> \in Partners
        BY DEF Partners
      <4>4. Kind(SqliteScript[1]) # "temporary"
        <5>1. Kind(SqliteScript[1]) = "temporary" => 1 - 1 \in 1..Len(SqliteScript)
          BY <4>1, <4>2, <4>3, Neighbours
        <5> QED
          BY <5>1, <4>2
      <4>5. Kind(SqliteScript[1]) # "rebuild"
        <5>1. Kind(SqliteScript[1]) = "rebuild" => 1 - 1 \in 1..Len(SqliteScript)
          BY <4>1, <4>2, <4>3, Neighbours
        <5> QED
          BY <5>1, <4>2
      <4> QED
        BY <4>2, <4>4, <4>5 DEF Kind
    <3>3. \A n \in 1..1 - 1 : Left(SqliteScript[n], db)
      OBVIOUS
    <3> QED
      BY <2>1, <3>1, <3>2, <3>3 DEF SqliteInv
  <2>3. ASSUME dialect = "postgresql" PROVE PostgresInv'
    BY <2>1, <2>3 DEF StartInv, PostgresInv
  <2> QED
    BY <2>1, <2>2, <2>3 DEF StartInv
<1>2. CASE Statement /\ UNCHANGED <<dialect, chosen, crashes>>
  <2>1. dialect' = dialect /\ dialect \in {"sqlite", "postgresql"}
    BY <1>2 DEF StartInv
  <2>2. CASE dialect = "sqlite"
    <3>1. Executes
      BY <1>2, <2>2, StatementExecutes DEF StartInv
    <3>2. SqliteInv'
      BY <2>2, <3>1, ExecutesKeeps DEF StartInv
    <3>3. status' \in {"failed", "running", "starting"}
      BY <3>1 DEF Executes, Goes
    <3> QED
      BY <2>1, <2>2, <3>2, <3>3 DEF StartInv
  <2>3. CASE dialect = "postgresql"
    BY <1>2, <2>1, <2>3, PostgresStatementKeeps DEF StartInv
  <2> QED
    BY <2>1, <2>2, <2>3
<1>3. CASE Crash \/ Stop
  <2>1. /\ dialect' = dialect /\ db' = db /\ status' = "down"
    BY <1>3 DEF Crash, Stop
  <2> QED
    BY <2>1 DEF StartInv, SqliteInv, PostgresInv
<1>4. CASE \E a \in Accounts : ChooseValueSource(a)
  <2>1. PICK a \in Accounts : ChooseValueSource(a)
    BY <1>4
  <2>2. /\ dialect' = dialect /\ status' = status /\ at' = at /\ noted' = noted
        /\ status = "running"
    BY <2>1 DEF ChooseValueSource
  <2>3. ASSUME dialect = "sqlite" PROVE SqliteInv'
    <3>1. IsDatabase(db) /\ db.keys = FOREIGN_KEYS /\ noted = {}
          /\ \A s \in Names(SqliteScript) : Left(s, db)
      BY <2>2, <2>3 DEF StartInv, SqliteInv
    <3>2. /\ DOMAIN db' = DOMAIN db
          /\ db'.tables = db.tables /\ db'.columns = db.columns /\ db'.unique = db.unique
          /\ db'.global = db.global /\ db'.keys = db.keys
          /\ db'.simplified = db.simplified /\ db'.rows = db.rows
          /\ db'.events = db.events /\ db'.orphans = db.orphans
      BY <2>1, <3>1, ChoiceChanges DEF IsDatabase
    <3>3. IsDatabase(db')
      BY <3>1, <3>2 DEF IsDatabase
    <3>4. \A s : Left(s, db) => Left(s, db')
      BY <3>2 DEF Left, TypesSimple, HistoriesBegun
    <3>5. \A s \in Names(SqliteScript) : Left(s, db')
      BY <3>1, <3>4
    <3> QED
      BY <2>2, <3>1, <3>2, <3>3, <3>5 DEF SqliteInv
  <2>4. ASSUME dialect = "postgresql" PROVE PostgresInv'
    <3>1. IsHosted(db) /\ TypesSimple(db) /\ noted = {}
      BY <2>2, <2>4 DEF StartInv, PostgresInv
    <3>2. /\ DOMAIN db' = DOMAIN db
          /\ db'.tables = db.tables /\ db'.columns = db.columns /\ db'.unique = db.unique
          /\ db'.global = db.global /\ db'.keys = db.keys
          /\ db'.simplified = db.simplified /\ db'.rows = db.rows
          /\ db'.events = db.events /\ db'.orphans = db.orphans
      BY <2>1, <3>1, ChoiceChanges DEF IsHosted
    <3>3. IsHosted(db') /\ TypesSimple(db')
      BY <3>1, <3>2 DEF IsHosted, TypesSimple, HistoriesBegun
    <3> QED
      BY <2>2, <3>1, <3>3 DEF PostgresInv
  <2> QED
    BY <2>2, <2>3, <2>4 DEF StartInv
<1>5. CASE UNCHANGED vars
  BY <1>5 DEF vars, StartInv, SqliteInv, PostgresInv
<1> QED
  BY <1>1, <1>2, <1>3, <1>4, <1>5 DEF Next

\* Whatever an old release left and however often a start was cut off, each
\* statement of a start finds what the statements before it have left.
THEOREM StartInvariant == Spec => []StartInv
<1>1. Init => StartInv
  BY StartInvInit
<1>2. StartInv /\ [Next]_vars => StartInv'
  BY StartInvStep
<1> QED
  BY <1>1, <1>2, PTL DEF Spec

\* A backend that serves requests stands on the schema its models describe, and
\* every owed item has its history and one beginning (ServesCurrentSchema).
THEOREM AlwaysCurrentSchema == Spec => []ServesCurrentSchema
<1>1. StartInv => ServesCurrentSchema
  <2> SUFFICES ASSUME StartInv, status = "running"
               PROVE  /\ db.tables = Tables
                      /\ \A t \in Tables : db.columns[t] = Columns[t]
                      /\ db.global = {} /\ db.unique = Names(DedupeTables)
                      /\ db.keys = FOREIGN_KEYS /\ ~db.orphans
                      /\ TypesSimple(db) /\ HistoriesBegun(db)
    BY DEF ServesCurrentSchema, TypesSimple, HistoriesBegun
  <2>1. CASE dialect = "sqlite"
    <3>1. /\ IsDatabase(db) /\ db.keys = FOREIGN_KEYS
          /\ \A s \in Names(SqliteScript) : Left(s, db)
      BY <2>1 DEF StartInv, SqliteInv
    <3> QED
      BY <3>1, AllLeftIsCurrent
  <2>2. CASE dialect = "postgresql"
    BY <2>2 DEF StartInv, PostgresInv, IsHosted
  <2> QED
    BY <2>1, <2>2 DEF StartInv
<1> QED
  BY <1>1, StartInvariant, PTL

-----------------------------------------------------------------------------
(* What users have set                                                     *)

\* Once a user has set a value source, the column is there and no start takes
\* itself for the one that added it.
ChoiceInv ==
    chosen # {} =>
        /\ Has("wealth_accounts", "value_source")
        /\ "value_source" \notin noted

\* A statement leaves the accounts alone unless this start adds their column.
LEMMA StatementKeepsAccounts ==
    ASSUME WellFormed(Script[at]), IsDatabase(db), Statement, ~NormalisePostgres,
           Has("wealth_accounts", "value_source"), "value_source" \notin noted
    PROVE  db'.accounts = db.accounts /\ "value_source" \notin noted'
<1>1. "value_source" \notin Tables
  BY TablesListed
<1>2. CASE CreateTable
  <2> DEFINE t == Script[at].table
  <2>1. t \in Tables
    BY <1>2 DEF CreateTable, Does, WellFormed
  <2>2. \/ db' = db /\ noted' = noted
        \/ /\ db' = [db EXCEPT !.tables = @ \cup {t}, !.columns[t] = Columns[t],
                               !.keys = @ \cup KeysOf(t)]
           /\ noted' = {t}
    BY <1>2 DEF CreateTable, Skip
  <2> HIDE DEF t
  <2> QED
    BY <2>1, <2>2, <1>1 DEF IsDatabase
<1>3. CASE CreateIndexes
  <2>1. \/ db' = db /\ noted' = noted
        \/ /\ db' = [db EXCEPT !.unique = @ \cup ({Script[at].table} \cap Names(DedupeTables))]
           /\ noted' = {}
    BY <1>3 DEF CreateIndexes, Skip
  <2> QED
    BY <2>1 DEF IsDatabase
<1>4. CASE DropTable \/ DropDedupeIndex \/ CreateDedupeIndex
  BY <1>4 DEF DropTable, DropDedupeIndex, CreateDedupeIndex, IsDatabase
<1>5. CASE AddColumn
  <2>1. /\ noted' = noted
        /\ \/ db' = db
           \/ db' = [db EXCEPT !.columns[Script[at].table] = @ \cup {Script[at].name}]
    BY <1>5 DEF AddColumn
  <2> QED
    BY <2>1 DEF IsDatabase
<1>6. CASE AddCashflowColumn
  <2>1. \/ db' = db /\ noted' = noted
        \/ /\ db' = [db EXCEPT !.columns["transactions"] = @ \cup {"cashflow_type"},
                               !.rows = [r \in DOMAIN @ |-> "expense"]]
           /\ noted' = {"cashflow_type"}
    BY <1>6 DEF AddCashflowColumn, Skip
  <2> QED
    BY <2>1 DEF IsDatabase
<1>7. CASE BackfillCashflow
  BY <1>7 DEF BackfillCashflow, IsDatabase
<1>8. CASE InsertBaseline
  BY <1>8 DEF InsertBaseline, Fails, IsDatabase
<1>9. CASE MigrateCashflowRows
  BY <1>9 DEF MigrateCashflowRows, NormaliseTransactions, RebuildTransactions, IsDatabase
<1>10. CASE MigrateCashflowRules
  BY <1>10 DEF MigrateCashflowRules, IsDatabase
<1>11. CASE AddValueSource \/ ClassifyAccounts
  BY <1>11 DEF AddValueSource, ClassifyAccounts, Skip
<1>12. CASE PreflightRelationships
  <2>1. db' = db /\ (noted' = {} \/ noted' = {key[1] : key \in FOREIGN_KEYS \ db.keys})
    BY <1>12 DEF PreflightRelationships, Fails
  <2>2. \A key \in FOREIGN_KEYS : key[1] # "value_source"
    BY DEF FOREIGN_KEYS
  <2> QED
    BY <2>1, <2>2
<1>13. CASE CreateTemporaryTable \/ RebuildWithForeignKeys
  BY <1>13 DEF CreateTemporaryTable, RebuildWithForeignKeys, Fails, Skip, IsDatabase
<1> QED
  BY <1>2, <1>3, <1>4, <1>5, <1>6, <1>7, <1>8, <1>9, <1>10, <1>11, <1>12, <1>13 DEF Statement

\* The next statement of a start on SQLite is well formed.
LEMMA NextIsWellFormed ==
    ASSUME dialect = "sqlite", SqliteInv, status = "starting"
    PROVE  WellFormed(Script[at])
<1>1. SqliteScript \in Seq(Statements) /\ at \in 1..Len(SqliteScript)
  BY ScriptContent DEF Part, SqliteInv
<1>2. SqliteScript[at] \in Statements
  BY <1>1
<1> QED
  BY <1>2 DEF Statements, Script

\* No step but the user's changes the value source of an account a user has set,
\* and none makes a later start believe it has added the column.
LEMMA ChoiceStep ==
    ASSUME StartInv, ChoiceInv, [Next]_vars
    PROVE  /\ ChoiceInv'
           /\ status # "running" /\ chosen # {} => db'.accounts = db.accounts
<1>0. Has("wealth_accounts", "value_source")'
         <=> "wealth_accounts" \in db'.tables /\ "value_source" \in db'.columns["wealth_accounts"]
  BY DEF Has
<1>1. CASE Start /\ UNCHANGED <<dialect, chosen, crashes>>
  BY <1>0, <1>1 DEF Start, ChoiceInv, Has
<1>2. CASE Statement /\ UNCHANGED <<dialect, chosen, crashes>>
  <2> SUFFICES ASSUME chosen # {}
               PROVE  /\ Has("wealth_accounts", "value_source")' /\ "value_source" \notin noted'
                      /\ db'.accounts = db.accounts
    BY <1>2 DEF ChoiceInv
  <2>1. Has("wealth_accounts", "value_source") /\ "value_source" \notin noted
    BY DEF ChoiceInv
  <2>2. CASE dialect = "sqlite"
    <3>1. SqliteInv /\ Executes
      BY <1>2, <2>2, StatementExecutes DEF StartInv
    <3>2. /\ status = "starting" /\ IsDatabase(db) /\ Grows(db, db')
      BY <3>1 DEF SqliteInv, Executes
    <3>3. WellFormed(Script[at])
      BY <2>2, <3>1, <3>2, NextIsWellFormed
    <3>4. ~NormalisePostgres
      BY <3>3 DEF NormalisePostgres, Does, WellFormed, Operations
    <3>5. db'.accounts = db.accounts /\ "value_source" \notin noted'
      BY <1>2, <2>1, <3>2, <3>3, <3>4, StatementKeepsAccounts
    <3>6. "wealth_accounts" \in db'.tables /\ "value_source" \in db'.columns["wealth_accounts"]
      BY <2>1, <3>2, TablesListed DEF Has, Grows
    <3> QED
      BY <1>0, <3>5, <3>6
  <2>3. CASE dialect = "postgresql"
    <3>1. PostgresInv /\ NormalisePostgres
      BY <1>2, <2>3, OnePostgresStatement DEF StartInv
    <3>2. /\ noted' = noted /\ db'.accounts = db.accounts
          /\ db'.tables = db.tables /\ db'.columns = db.columns
      BY <3>1 DEF NormalisePostgres, PostgresInv, IsHosted
    <3> QED
      BY <1>0, <2>1, <3>2 DEF Has
  <2> QED
    BY <2>2, <2>3 DEF StartInv
<1>3. CASE Crash \/ Stop
  BY <1>0, <1>3 DEF Crash, Stop, ChoiceInv, Has
<1>4. CASE \E a \in Accounts : ChooseValueSource(a)
  <2>1. PICK a \in Accounts : ChooseValueSource(a)
    BY <1>4
  <2>2. status = "running" /\ noted' = noted
    BY <2>1 DEF ChooseValueSource
  <2>3. /\ "wealth_accounts" \in db.tables /\ "value_source" \in db.columns["wealth_accounts"]
        /\ noted = {}
        /\ DOMAIN db = {"tables", "columns", "unique", "global", "keys", "simplified",
                        "rows", "rule", "accounts", "events", "orphans", "temporary"}
    <3>1. "wealth_accounts" \in Tables /\ "value_source" \in Columns["wealth_accounts"]
      BY TablesListed, ColumnsListed
    <3>2. CASE dialect = "sqlite"
      <4>1. /\ IsDatabase(db) /\ db.keys = FOREIGN_KEYS /\ noted = {}
            /\ \A s \in Names(SqliteScript) : Left(s, db)
        BY <2>2, <3>2 DEF StartInv, SqliteInv
      <4>2. db.tables = Tables /\ \A t \in Tables : db.columns[t] = Columns[t]
        BY <4>1, AllLeftIsCurrent
      <4> QED
        BY <3>1, <4>1, <4>2 DEF IsDatabase
    <3>3. CASE dialect = "postgresql"
      BY <2>2, <3>1, <3>3 DEF StartInv, PostgresInv, IsHosted
    <3> QED
      BY <3>2, <3>3 DEF StartInv
  <2>4. db'.tables = db.tables /\ db'.columns = db.columns
    BY <2>1, <2>3, ChoiceChanges
  <2> QED
    BY <1>0, <2>2, <2>3, <2>4 DEF ChoiceInv
<1>5. CASE UNCHANGED vars
  BY <1>0, <1>5 DEF vars, ChoiceInv, Has
<1> QED
  BY <1>1, <1>2, <1>3, <1>4, <1>5 DEF Next

\* A later start, cut off or not, never overrules the value source a user has
\* set for an account (ChoicesOutliveStarts).
THEOREM ChoicesAlwaysOutlive == Spec => ChoicesOutliveStarts
<1>1. Init => ChoiceInv
  BY DEF Init, ChoiceInv
<1>2. StartInv /\ ChoiceInv /\ [Next]_vars => ChoiceInv'
  BY ChoiceStep
<1>3. Spec => [](StartInv /\ ChoiceInv)
  BY <1>1, <1>2, StartInvInit, StartInvStep, PTL DEF Spec
<1>4. StartInv /\ ChoiceInv /\ [Next]_vars =>
         [status # "running" => \A a \in chosen : db'.accounts[a] = db.accounts[a]]_vars
  <2> SUFFICES ASSUME StartInv, ChoiceInv, [Next]_vars, status # "running", NEW a \in chosen
               PROVE  db'.accounts[a] = db.accounts[a]
    OBVIOUS
  <2> QED
    BY ChoiceStep
<1> QED
  BY <1>3, <1>4, PTL DEF Spec, ChoicesOutliveStarts

-----------------------------------------------------------------------------
(* What a start fills in                                                   *)

\* A filled column that an old table lacks is added by its own statement alone,
\* and no other one notes that it has.
LEMMA OthersLeaveColumn ==
    ASSUME WellFormed(Script[at]), IsDatabase(db), Statement, ~NormalisePostgres,
           NEW t \in Tables, NEW c \in {"cashflow_type", "value_source"},
           t \in db.tables, c \notin db.columns[t], c \notin noted,
           c = "cashflow_type" => ~AddCashflowColumn,
           c = "value_source" => ~AddValueSource
    PROVE  c \notin db'.columns[t] /\ c \notin noted'
<1>1. c \notin Tables /\ db.columns \in [Tables -> SUBSET ColumnNames]
  BY TablesListed DEF IsDatabase
<1>2. CASE CreateTable
  <2> DEFINE u == Script[at].table
  <2>1. u \in Tables
    BY <1>2 DEF CreateTable, Does, WellFormed
  <2>2. \/ db' = db /\ noted' = noted
        \/ /\ db' = [db EXCEPT !.tables = @ \cup {u}, !.columns[u] = Columns[u],
                               !.keys = @ \cup KeysOf(u)]
           /\ noted' = {u} /\ u \notin db.tables
    BY <1>2 DEF CreateTable, Skip
  <2> HIDE DEF u
  <2> QED
    BY <2>1, <2>2, <1>1 DEF IsDatabase
<1>3. CASE CreateIndexes
  <2>1. \/ db' = db /\ noted' = noted
        \/ /\ db' = [db EXCEPT !.unique = @ \cup ({Script[at].table} \cap Names(DedupeTables))]
           /\ noted' = {}
    BY <1>3 DEF CreateIndexes, Skip
  <2> QED
    BY <2>1 DEF IsDatabase
<1>4. CASE DropTable \/ DropDedupeIndex \/ CreateDedupeIndex
  BY <1>4 DEF DropTable, DropDedupeIndex, CreateDedupeIndex, IsDatabase
<1>5. CASE AddColumn
  <2> DEFINE s == Script[at]
  <2>1. s.table \in Tables /\ s.name # c
    BY <1>5 DEF AddColumn, Does, WellFormed
  <2>2. /\ noted' = noted
        /\ \/ db' = db
           \/ db' = [db EXCEPT !.columns[s.table] = @ \cup {s.name}]
    BY <1>5 DEF AddColumn
  <2> HIDE DEF s
  <2> QED
    BY <2>1, <2>2, <1>1 DEF IsDatabase
<1>6. CASE AddCashflowColumn
  <2>1. c = "value_source" /\ "transactions" \in Tables
    BY <1>6, TablesListed
  <2>2. CASE Has("transactions", "cashflow_type")
    <3>1. db' = db /\ noted' = noted
      BY <1>6, <2>2 DEF AddCashflowColumn, Skip
    <3> QED
      BY <3>1
  <2>3. CASE ~Has("transactions", "cashflow_type")
    <3>1. /\ db' = [db EXCEPT !.columns["transactions"] = @ \cup {"cashflow_type"},
                              !.rows = [r \in DOMAIN @ |-> "expense"]]
          /\ noted' = {"cashflow_type"}
      BY <1>6, <2>3 DEF AddCashflowColumn
    <3>2. db'.columns = [db.columns EXCEPT !["transactions"] = @ \cup {"cashflow_type"}]
      BY <3>1 DEF IsDatabase
    <3>3. c \notin db'.columns[t]
      BY <2>1, <3>2, <1>1
    <3> QED
      BY <2>1, <3>1, <3>3
  <2> QED
    BY <2>2, <2>3
<1>7. CASE AddValueSource
  <2>1. c = "cashflow_type" /\ "wealth_accounts" \in Tables
    BY <1>7, TablesListed
  <2>2. CASE Has("wealth_accounts", "value_source")
    <3>1. db' = db /\ noted' = noted
      BY <1>7, <2>2 DEF AddValueSource, Skip
    <3> QED
      BY <3>1
  <2>3. CASE ~Has("wealth_accounts", "value_source")
    <3>1. /\ db' = [db EXCEPT !.columns["wealth_accounts"] = @ \cup {"value_source"},
                              !.accounts = [a \in DOMAIN @ |-> "manual"]]
          /\ noted' = {"value_source"}
      BY <1>7, <2>3 DEF AddValueSource
    <3>2. db'.columns = [db.columns EXCEPT !["wealth_accounts"] = @ \cup {"value_source"}]
      BY <3>1 DEF IsDatabase
    <3>3. c \notin db'.columns[t]
      BY <2>1, <3>2, <1>1
    <3> QED
      BY <2>1, <3>1, <3>3
  <2> QED
    BY <2>2, <2>3
<1>8. CASE BackfillCashflow \/ ClassifyAccounts
  BY <1>8 DEF BackfillCashflow, ClassifyAccounts, IsDatabase
<1>9. CASE InsertBaseline
  BY <1>9 DEF InsertBaseline, Fails, IsDatabase
<1>10. CASE MigrateCashflowRows
  BY <1>10 DEF MigrateCashflowRows, NormaliseTransactions, RebuildTransactions, IsDatabase
<1>11. CASE MigrateCashflowRules
  BY <1>11 DEF MigrateCashflowRules, IsDatabase
<1>12. CASE PreflightRelationships
  <2>1. db' = db /\ (noted' = {} \/ noted' = {key[1] : key \in FOREIGN_KEYS \ db.keys})
    BY <1>12 DEF PreflightRelationships, Fails
  <2>2. \A key \in FOREIGN_KEYS : key[1] # c
    BY DEF FOREIGN_KEYS
  <2> QED
    BY <2>1, <2>2
<1>13. CASE CreateTemporaryTable \/ RebuildWithForeignKeys
  BY <1>13 DEF CreateTemporaryTable, RebuildWithForeignKeys, Fails, Skip, IsDatabase
<1> QED
  BY <1>2, <1>3, <1>4, <1>5, <1>6, <1>7, <1>8, <1>9, <1>10, <1>11, <1>12, <1>13 DEF Statement

\* The rows of transactions are changed by three statements alone.
LEMMA OthersKeepRows ==
    ASSUME IsDatabase(db), Statement, ~NormalisePostgres,
           ~AddCashflowColumn, ~BackfillCashflow, ~MigrateCashflowRows
    PROVE  db'.rows = db.rows
<1>1. CASE CreateTable
  <2>1. \/ db' = db
        \/ db' = [db EXCEPT !.tables = @ \cup {Script[at].table},
                            !.columns[Script[at].table] = Columns[Script[at].table],
                            !.keys = @ \cup KeysOf(Script[at].table)]
    BY <1>1 DEF CreateTable, Skip
  <2> QED
    BY <2>1 DEF IsDatabase
<1>2. CASE CreateIndexes
  <2>1. \/ db' = db
        \/ db' = [db EXCEPT !.unique = @ \cup ({Script[at].table} \cap Names(DedupeTables))]
    BY <1>2 DEF CreateIndexes, Skip
  <2> QED
    BY <2>1 DEF IsDatabase
<1>3. CASE AddColumn
  <2>1. \/ db' = db
        \/ db' = [db EXCEPT !.columns[Script[at].table] = @ \cup {Script[at].name}]
    BY <1>3 DEF AddColumn
  <2> QED
    BY <2>1 DEF IsDatabase
<1>4. CASE DropTable \/ DropDedupeIndex \/ CreateDedupeIndex
  BY <1>4 DEF DropTable, DropDedupeIndex, CreateDedupeIndex, IsDatabase
<1>5. CASE AddValueSource
  BY <1>5 DEF AddValueSource, Skip, IsDatabase
<1>6. CASE InsertBaseline \/ ClassifyAccounts \/ MigrateCashflowRules
  BY <1>6 DEF InsertBaseline, ClassifyAccounts, MigrateCashflowRules, Fails, IsDatabase
<1>7. CASE PreflightRelationships \/ CreateTemporaryTable \/ RebuildWithForeignKeys
  BY <1>7 DEF PreflightRelationships, CreateTemporaryTable, RebuildWithForeignKeys, Fails,
     Skip, IsDatabase
<1> QED
  BY <1>1, <1>2, <1>3, <1>4, <1>5, <1>6, <1>7 DEF Statement

\* Every row of transactions says which way its money went.
TypesFilled(d) ==
    \A r \in DOMAIN d.rows : d.rows[r] = IF r = "in" THEN "income" ELSE "expense"

\* While no start has been cut off the rows of an old database are filled, still
\* without the column, or half-way between its two statements.
RowsInv ==
    /\ crashes \in Nat
    /\ crashes = 0 =>
          \/ DOMAIN db.rows = {}
          \/ Has("transactions", "cashflow_type") /\ TypesFilled(db)
          \/ /\ dialect = "sqlite" /\ "transactions" \in db.tables
             /\ "cashflow_type" \notin db.columns["transactions"]
             /\ "cashflow_type" \notin noted
          \/ /\ dialect = "sqlite" /\ status = "starting"
             /\ SqliteScript[at].op = "cashflow_backfill" /\ "cashflow_type" \in noted
             /\ Has("transactions", "cashflow_type")
             /\ \A r \in DOMAIN db.rows : db.rows[r] = "expense"

\* Rows that have no type yet are in a table that lacks the column.
LEMMA RowsInvInit ==
    ASSUME Init, \A r \in DOMAIN db.rows : db.rows[r] = None
    PROVE  RowsInv
<1>1. crashes = 0 /\ noted = {}
  BY DEF Init
<1>2. None \notin OldCashflowTypes \cup CashflowTypes
  BY StartupAssumption DEF OldCashflowTypes, CashflowTypes
<1>3. CASE dialect = "sqlite"
  <2>1. PICK older \in Ages, absent \in Absences : db \in OldDatabase(older, absent)
    BY <1>3 DEF Init
  <2>2. CASE "transactions" \in absent
    <3>1. DOMAIN db.rows = {}
      BY <2>1, <2>2, OldIsDatabase
    <3> QED
      BY <3>1, <1>1 DEF RowsInv
  <2>3. CASE "transactions" \notin absent /\ "transactions" \in older
    <3>1. "transactions" \in db.tables /\ db.columns["transactions"] = {}
      BY <2>1, <2>3, TablesListed, OldIsDatabase
    <3> QED
      BY <3>1, <1>1, <1>3 DEF RowsInv
  <2>4. CASE "transactions" \notin older \cup absent
    <3>1. \A r \in DOMAIN db.rows : db.rows[r] \in {"income", "reimbursement", "internal_transfer"}
      BY <2>1, <2>4, OldIsDatabase
    <3>2. DOMAIN db.rows = {}
      BY <3>1, StartupAssumption
    <3> QED
      BY <3>2, <1>1 DEF RowsInv
  <2> QED
    BY <2>2, <2>3, <2>4
<1>4. CASE dialect = "postgresql"
  <2>1. db \in HostedDatabases
    BY <1>4 DEF Init
  <2>2. db.rows \in [Rows -> OldCashflowTypes \cup CashflowTypes]
    BY <2>1 DEF HostedDatabases
  <2>3. DOMAIN db.rows = {}
    BY <1>2, <2>2
  <2> QED
    BY <2>3, <1>1 DEF RowsInv
<1> QED
  BY <1>3, <1>4 DEF Init

\* A statement on SQLite, and the rows.
LEMMA RowsStatement ==
    ASSUME StartInv, RowsInv, dialect = "sqlite", Statement,
           UNCHANGED <<dialect, chosen, crashes>>
    PROVE  RowsInv'
<1> DEFINE d == db'
           columns == db.columns["transactions"]
           columnsNow == d.columns["transactions"]
<1>1. SqliteInv /\ Executes
  BY StatementExecutes DEF StartInv
<1>2. /\ status = "starting" /\ IsDatabase(db) /\ IsDatabase(d) /\ Grows(db, d)
      /\ "transactions" \in Tables
  BY <1>1, TablesListed DEF SqliteInv, Executes
<1>3. WellFormed(Script[at]) /\ Script = SqliteScript
  BY <1>1, <1>2, NextIsWellFormed DEF Script
<1>4. ~NormalisePostgres
  BY <1>3 DEF NormalisePostgres, Does, WellFormed, Operations
<1>5. /\ Has("transactions", "cashflow_type")
            <=> "transactions" \in db.tables /\ "cashflow_type" \in columns
      /\ Has("transactions", "cashflow_type")'
            <=> "transactions" \in d.tables /\ "cashflow_type" \in columnsNow
  BY DEF Has
<1>6. Has("transactions", "cashflow_type") => Has("transactions", "cashflow_type")'
  BY <1>2, <1>5 DEF Grows
<1>7. "transactions" \in db.tables => "transactions" \in d.tables
  BY <1>2 DEF Grows
<1>8. crashes \in Nat /\ crashes' = crashes /\ dialect' = dialect
  BY DEF RowsInv
<1> SUFFICES ASSUME crashes = 0
             PROVE  \/ DOMAIN d.rows = {}
                    \/ Has("transactions", "cashflow_type")' /\ TypesFilled(d)
                    \/ /\ "transactions" \in d.tables /\ "cashflow_type" \notin columnsNow
                       /\ "cashflow_type" \notin noted'
                    \/ /\ status' = "starting"
                       /\ SqliteScript[at'].op = "cashflow_backfill"
                       /\ "cashflow_type" \in noted'
                       /\ Has("transactions", "cashflow_type")'
                       /\ \A r \in DOMAIN d.rows : d.rows[r] = "expense"
  BY <1>8 DEF RowsInv, TypesFilled
<1>9. \/ DOMAIN db.rows = {}
      \/ Has("transactions", "cashflow_type") /\ TypesFilled(db)
      \/ /\ "transactions" \in db.tables /\ "cashflow_type" \notin columns
         /\ "cashflow_type" \notin noted
      \/ /\ SqliteScript[at].op = "cashflow_backfill" /\ "cashflow_type" \in noted
         /\ Has("transactions", "cashflow_type")
         /\ \A r \in DOMAIN db.rows : db.rows[r] = "expense"
  BY DEF RowsInv
<1>10. CASE AddCashflowColumn
  <2>1. Script[at].op = "cashflow_column"
    BY <1>10 DEF AddCashflowColumn, Does
  <2>2. CASE Has("transactions", "cashflow_type")
    <3>1. d = db
      BY <1>10, <2>2 DEF AddCashflowColumn, Skip
    <3> QED
      BY <3>1, <2>1, <2>2, <1>3, <1>5, <1>6, <1>9
  <2>3. CASE ~Has("transactions", "cashflow_type")
    <3>1. /\ Goes /\ noted' = {"cashflow_type"}
          /\ d = [db EXCEPT !.columns["transactions"] = @ \cup {"cashflow_type"},
                            !.rows = [r \in DOMAIN @ |-> "expense"]]
      BY <1>10, <2>3 DEF AddCashflowColumn
    <3>2. /\ d.rows = [r \in DOMAIN db.rows |-> "expense"]
          /\ d.columns = [db.columns EXCEPT !["transactions"] = @ \cup {"cashflow_type"}]
          /\ d.tables = db.tables
      BY <3>1, <1>2 DEF IsDatabase
    <3>3. "cashflow_type" \in columnsNow
      BY <3>2, <1>2 DEF IsDatabase
    <3>4. status' = "starting" /\ SqliteScript[at'].op = "cashflow_backfill"
      <4>1. /\ SqliteScript \in Seq(Statements) /\ Chained(SqliteScript)
            /\ at \in 1..Len(SqliteScript)
        BY <1>1, <1>2, ScriptContent DEF Part, SqliteInv
      <4>2. Kind(SqliteScript[at]) = "cashflow_column"
        BY <2>1, <1>3 DEF Kind
      <4>3. <<"cashflow_column", "cashflow_backfill">> \in Partners
        BY DEF Partners
      <4>4. at + 1 \in 1..Len(SqliteScript) /\ Kind(SqliteScript[at + 1]) = "cashflow_backfill"
        BY <4>1, <4>2, <4>3, Neighbours
      <4>5. at # Len(SqliteScript)
        BY <4>1, <4>4
      <4>6. at' = at + 1 /\ status' = "starting"
        BY <3>1, <4>5, <1>3 DEF Goes
      <4>7. SqliteScript[at + 1].op = "cashflow_backfill"
        BY <4>4 DEF Kind
      <4> QED
        BY <4>6, <4>7
    <3>5. CASE "transactions" \in db.tables
      BY <3>1, <3>2, <3>3, <3>4, <3>5, <1>5
    <3>6. CASE "transactions" \notin db.tables
      BY <3>2, <3>6, <1>5, <1>9
    <3> QED
      BY <3>5, <3>6
  <2> QED
    BY <2>2, <2>3
<1>11. CASE BackfillCashflow
  <2>1. CASE "cashflow_type" \notin noted
    <3>1. d = db /\ noted' = {}
      BY <1>11, <2>1 DEF BackfillCashflow
    <3> QED
      BY <3>1, <2>1, <1>5, <1>6, <1>9
  <2>2. CASE "cashflow_type" \in noted
    <3>1. d = [db EXCEPT !.rows = [r \in DOMAIN @ |-> IF r = "in" THEN "income" ELSE @[r]]]
      BY <1>11, <2>2 DEF BackfillCashflow
    <3>2. d.rows = [r \in DOMAIN db.rows |-> IF r = "in" THEN "income" ELSE db.rows[r]]
      BY <3>1, <1>2 DEF IsDatabase
    <3>3. DOMAIN db.rows # {} => Has("transactions", "cashflow_type")' /\ TypesFilled(d)
      BY <3>2, <2>2, <1>6, <1>9 DEF TypesFilled
    <3> QED
      BY <3>2, <3>3
  <2> QED
    BY <2>1, <2>2
<1>12. CASE MigrateCashflowRows
  <2>1. d.rows = [r \in DOMAIN db.rows |-> Simplified(db.rows[r])]
    BY <1>2, <1>12
       DEF MigrateCashflowRows, NormaliseTransactions, RebuildTransactions, IsDatabase
  <2>2. /\ Script[at].op = "cashflow_rows" /\ ~AddCashflowColumn
    BY <1>12 DEF MigrateCashflowRows, AddCashflowColumn, Does
  <2>3. TypesFilled(db) => TypesFilled(d)
    BY <2>1 DEF TypesFilled, Simplified
  <2>4. "transactions" \in db.tables /\ "cashflow_type" \notin columns
           /\ "cashflow_type" \notin noted
        => "cashflow_type" \notin columnsNow /\ "cashflow_type" \notin noted'
    BY <1>2, <1>3, <1>4, <2>2, OthersLeaveColumn
  <2> QED
    BY <2>1, <2>2, <2>3, <2>4, <1>3, <1>6, <1>7, <1>9
<1>13. CASE ~AddCashflowColumn /\ ~BackfillCashflow /\ ~MigrateCashflowRows
  <2>1. d.rows = db.rows
    BY <1>2, <1>4, <1>13, OthersKeepRows
  <2>2. "transactions" \in db.tables /\ "cashflow_type" \notin columns
           /\ "cashflow_type" \notin noted
        => "cashflow_type" \notin columnsNow /\ "cashflow_type" \notin noted'
    BY <1>2, <1>3, <1>4, <1>13, OthersLeaveColumn
  <2>3. Script[at].op # "cashflow_backfill"
    BY <1>4, <1>13
       DEF Statement, CreateTable, CreateIndexes, DropTable, AddColumn, AddCashflowColumn,
           InsertBaseline, MigrateCashflowRules, AddValueSource, ClassifyAccounts,
           DropDedupeIndex, CreateDedupeIndex, PreflightRelationships,
           CreateTemporaryTable, RebuildWithForeignKeys, Does
  <2>4. TypesFilled(db) => TypesFilled(d)
    BY <2>1 DEF TypesFilled
  <2> QED
    BY <2>1, <2>2, <2>3, <2>4, <1>3, <1>6, <1>7, <1>9
<1> QED
  BY <1>10, <1>11, <1>12, <1>13

\* Every step, and the rows.
LEMMA RowsStep ==
    ASSUME StartInv, RowsInv, [Next]_vars
    PROVE  RowsInv'
<1>1. CASE Start /\ UNCHANGED <<dialect, chosen, crashes>>
  BY <1>1 DEF Start, RowsInv, TypesFilled, Has
<1>2. CASE Statement /\ UNCHANGED <<dialect, chosen, crashes>>
  <2>1. CASE dialect = "sqlite"
    BY <1>2, <2>1, RowsStatement
  <2>2. CASE dialect = "postgresql"
    <3>1. PostgresInv /\ NormalisePostgres
      BY <1>2, <2>2, OnePostgresStatement DEF StartInv
    <3>2. db' = [db EXCEPT !.simplified = TRUE,
                           !.rows = [r \in DOMAIN @ |->
                                        IF @[r] \in CashflowTypes THEN @[r]
                                        ELSE IF r = "in" THEN "income" ELSE "expense"]]
      BY <3>1 DEF NormalisePostgres
    <3>3. /\ db'.rows = [r \in DOMAIN db.rows |->
                            IF db.rows[r] \in CashflowTypes THEN db.rows[r]
                            ELSE IF r = "in" THEN "income" ELSE "expense"]
          /\ db'.tables = db.tables /\ db'.columns = db.columns
      BY <3>1, <3>2 DEF PostgresInv, IsHosted
    <3>4. TypesFilled(db) => TypesFilled(db')
      BY <3>3 DEF TypesFilled, CashflowTypes
    <3>5. DOMAIN db'.rows = DOMAIN db.rows
      BY <3>3
    <3>6. Has("transactions", "cashflow_type") => Has("transactions", "cashflow_type")'
      BY <3>3 DEF Has
    <3> QED
      BY <1>2, <2>2, <3>4, <3>5, <3>6 DEF RowsInv
  <2> QED
    BY <2>1, <2>2 DEF StartInv
<1>3. CASE Crash
  BY <1>3 DEF Crash, RowsInv
<1>4. CASE Stop
  BY <1>4 DEF Stop, RowsInv, TypesFilled, Has
<1>5. CASE \E a \in Accounts : ChooseValueSource(a)
  <2>1. PICK a \in Accounts : ChooseValueSource(a)
    BY <1>5
  <2>2. /\ status = "running" /\ noted' = noted /\ crashes' = crashes /\ dialect' = dialect
    BY <2>1 DEF ChooseValueSource
  <2>3. DOMAIN db = {"tables", "columns", "unique", "global", "keys", "simplified", "rows",
                     "rule", "accounts", "events", "orphans", "temporary"}
    BY DEF StartInv, SqliteInv, PostgresInv, IsDatabase, IsHosted
  <2>4. db'.tables = db.tables /\ db'.columns = db.columns /\ db'.rows = db.rows
    BY <2>1, <2>3, ChoiceChanges
  <2> QED
    BY <2>2, <2>4 DEF RowsInv, TypesFilled, Has
<1>6. CASE UNCHANGED vars
  BY <1>6 DEF vars, RowsInv, TypesFilled, Has
<1> QED
  BY <1>1, <1>2, <1>3, <1>4, <1>5, <1>6 DEF Next

\* A backend that runs has all the columns, on either database.
LEMMA RunningIsComplete ==
    ASSUME StartInv, status = "running"
    PROVE  db.tables = Tables /\ \A t \in Tables : db.columns[t] = Columns[t]
<1>1. CASE dialect = "sqlite"
  <2>1. /\ IsDatabase(db) /\ db.keys = FOREIGN_KEYS
        /\ \A s \in Names(SqliteScript) : Left(s, db)
    BY <1>1 DEF StartInv, SqliteInv
  <2> QED
    BY <2>1, AllLeftIsCurrent
<1>2. CASE dialect = "postgresql"
  BY <1>2 DEF StartInv, PostgresInv, IsHosted
<1> QED
  BY <1>1, <1>2 DEF StartInv

\* A backend that runs after starts that were not cut off has filled its rows.
LEMMA RunningRowsFilled ==
    ASSUME StartInv, RowsInv, status = "running", crashes = 0
    PROVE  TypesFilled(db)
<1>1. "cashflow_type" \in db.columns["transactions"]
  BY RunningIsComplete, TablesListed, ColumnsListed
<1> QED
  BY <1>1 DEF RowsInv, TypesFilled

\* The accounts are changed by two statements alone.
LEMMA OthersKeepAccounts ==
    ASSUME IsDatabase(db), Statement, ~NormalisePostgres, ~AddValueSource, ~ClassifyAccounts
    PROVE  db'.accounts = db.accounts
<1>1. CASE CreateTable
  <2>1. \/ db' = db
        \/ db' = [db EXCEPT !.tables = @ \cup {Script[at].table},
                            !.columns[Script[at].table] = Columns[Script[at].table],
                            !.keys = @ \cup KeysOf(Script[at].table)]
    BY <1>1 DEF CreateTable, Skip
  <2> QED
    BY <2>1 DEF IsDatabase
<1>2. CASE CreateIndexes
  <2>1. \/ db' = db
        \/ db' = [db EXCEPT !.unique = @ \cup ({Script[at].table} \cap Names(DedupeTables))]
    BY <1>2 DEF CreateIndexes, Skip
  <2> QED
    BY <2>1 DEF IsDatabase
<1>3. CASE AddColumn
  <2>1. \/ db' = db
        \/ db' = [db EXCEPT !.columns[Script[at].table] = @ \cup {Script[at].name}]
    BY <1>3 DEF AddColumn
  <2> QED
    BY <2>1 DEF IsDatabase
<1>4. CASE DropTable \/ DropDedupeIndex \/ CreateDedupeIndex
  BY <1>4 DEF DropTable, DropDedupeIndex, CreateDedupeIndex, IsDatabase
<1>5. CASE AddCashflowColumn \/ BackfillCashflow
  BY <1>5 DEF AddCashflowColumn, BackfillCashflow, Skip, IsDatabase
<1>6. CASE InsertBaseline \/ MigrateCashflowRules
  BY <1>6 DEF InsertBaseline, MigrateCashflowRules, Fails, IsDatabase
<1>7. CASE MigrateCashflowRows
  BY <1>7 DEF MigrateCashflowRows, NormaliseTransactions, RebuildTransactions, IsDatabase
<1>8. CASE PreflightRelationships \/ CreateTemporaryTable \/ RebuildWithForeignKeys
  BY <1>8 DEF PreflightRelationships, CreateTemporaryTable, RebuildWithForeignKeys, Fails,
     Skip, IsDatabase
<1> QED
  BY <1>1, <1>2, <1>3, <1>4, <1>5, <1>6, <1>7, <1>8 DEF Statement

\* Every account whose source no user has set is valued by what its texts mention.
SourcesFilled(d, c) == \A a \in DOMAIN d.accounts \ c : d.accounts[a] = Classified(a)

\* While no start has been cut off the accounts of an old database are classified,
\* still without the column, or between the statements that add it and classify.
AccountsInv ==
    /\ crashes \in Nat
    /\ crashes = 0 =>
          \/ DOMAIN db.accounts = {}
          \/ /\ Has("wealth_accounts", "value_source") /\ "value_source" \notin noted
             /\ SourcesFilled(db, chosen)
          \/ /\ dialect = "sqlite" /\ "wealth_accounts" \in db.tables
             /\ "value_source" \notin db.columns["wealth_accounts"]
             /\ "value_source" \notin noted
          \/ /\ dialect = "sqlite" /\ status = "starting"
             /\ Kind(SqliteScript[at]) \in {"value_reference", "classify"}
             /\ "value_source" \in noted /\ Has("wealth_accounts", "value_source")

\* Accounts that have no source yet are in a table that lacks the column.
LEMMA AccountsInvInit ==
    ASSUME Init, \A a \in DOMAIN db.accounts : db.accounts[a] = None
    PROVE  AccountsInv
<1>1. crashes = 0 /\ noted = {}
  BY DEF Init
<1>2. None # "manual"
  BY StartupAssumption
<1>3. CASE dialect = "sqlite"
  <2>1. PICK older \in Ages, absent \in Absences : db \in OldDatabase(older, absent)
    BY <1>3 DEF Init
  <2>2. CASE "wealth_accounts" \in absent
    <3>1. DOMAIN db.accounts = {}
      BY <2>1, <2>2, OldIsDatabase
    <3> QED
      BY <3>1, <1>1 DEF AccountsInv
  <2>3. CASE "wealth_accounts" \notin absent /\ "wealth_accounts" \in older
    <3>1. "wealth_accounts" \in db.tables /\ db.columns["wealth_accounts"] = {}
      BY <2>1, <2>3, TablesListed, OldIsDatabase
    <3> QED
      BY <3>1, <1>1, <1>3 DEF AccountsInv
  <2>4. CASE "wealth_accounts" \notin older \cup absent
    <3>1. \A a \in DOMAIN db.accounts : db.accounts[a] = "manual"
      BY <2>1, <2>4, OldIsDatabase
    <3>2. DOMAIN db.accounts = {}
      BY <3>1, <1>2
    <3> QED
      BY <3>2, <1>1 DEF AccountsInv
  <2> QED
    BY <2>2, <2>3, <2>4
<1>4. CASE dialect = "postgresql"
  <2>1. db \in HostedDatabases
    BY <1>4 DEF Init
  <2>2. db.accounts \in [Accounts -> {"manual"}]
    BY <2>1 DEF HostedDatabases
  <2>3. DOMAIN db.accounts = {}
    BY <1>2, <2>2
  <2> QED
    BY <2>3, <1>1 DEF AccountsInv
<1> QED
  BY <1>3, <1>4 DEF Init

\* A statement on SQLite, and the accounts.
LEMMA AccountsStatement ==
    ASSUME StartInv, AccountsInv, dialect = "sqlite", Statement,
           UNCHANGED <<dialect, chosen, crashes>>
    PROVE  AccountsInv'
<1> DEFINE d == db'
           columns == db.columns["wealth_accounts"]
           columnsNow == d.columns["wealth_accounts"]
<1>1. SqliteInv /\ Executes
  BY StatementExecutes DEF StartInv
<1>2. /\ status = "starting" /\ IsDatabase(db) /\ IsDatabase(d) /\ Grows(db, d)
      /\ "wealth_accounts" \in Tables
  BY <1>1, TablesListed DEF SqliteInv, Executes
<1>3. WellFormed(Script[at]) /\ Script = SqliteScript
  BY <1>1, <1>2, NextIsWellFormed DEF Script
<1>4. ~NormalisePostgres
  BY <1>3 DEF NormalisePostgres, Does, WellFormed, Operations
<1>5. /\ Has("wealth_accounts", "value_source")
            <=> "wealth_accounts" \in db.tables /\ "value_source" \in columns
      /\ Has("wealth_accounts", "value_source")'
            <=> "wealth_accounts" \in d.tables /\ "value_source" \in columnsNow
  BY DEF Has
<1>6. Has("wealth_accounts", "value_source") => Has("wealth_accounts", "value_source")'
  BY <1>2, <1>5 DEF Grows
<1>7. "wealth_accounts" \in db.tables => "wealth_accounts" \in d.tables
  BY <1>2 DEF Grows
<1>8. crashes \in Nat /\ crashes' = crashes /\ dialect' = dialect /\ chosen' = chosen
  BY DEF AccountsInv
<1> SUFFICES ASSUME crashes = 0
             PROVE  \/ DOMAIN d.accounts = {}
                    \/ /\ Has("wealth_accounts", "value_source")'
                       /\ "value_source" \notin noted' /\ SourcesFilled(d, chosen)
                    \/ /\ "wealth_accounts" \in d.tables /\ "value_source" \notin columnsNow
                       /\ "value_source" \notin noted'
                    \/ /\ status' = "starting"
                       /\ Kind(SqliteScript[at']) \in {"value_reference", "classify"}
                       /\ "value_source" \in noted' /\ Has("wealth_accounts", "value_source")'
  BY <1>8 DEF AccountsInv, SourcesFilled
<1>9. \/ DOMAIN db.accounts = {}
      \/ /\ Has("wealth_accounts", "value_source") /\ "value_source" \notin noted
         /\ SourcesFilled(db, chosen)
      \/ /\ "wealth_accounts" \in db.tables /\ "value_source" \notin columns
         /\ "value_source" \notin noted
      \/ /\ Kind(Script[at]) \in {"value_reference", "classify"}
         /\ "value_source" \in noted /\ Has("wealth_accounts", "value_source")
  BY <1>3 DEF AccountsInv
\* What follows the statements that belong together.
<1>10. ASSUME NEW k, NEW l, <<k, l>> \in Partners, Kind(Script[at]) = k, Goes
       PROVE  status' = "starting" /\ Kind(SqliteScript[at']) = l
  <2>1. /\ SqliteScript \in Seq(Statements) /\ Chained(SqliteScript)
        /\ at \in 1..Len(SqliteScript)
    BY <1>1, <1>2, ScriptContent DEF Part, SqliteInv
  <2>2. at + 1 \in 1..Len(SqliteScript) /\ Kind(SqliteScript[at + 1]) = l
    BY <2>1, <1>3, <1>10, Neighbours
  <2>3. at # Len(SqliteScript)
    BY <2>1, <2>2
  <2>4. at' = at + 1 /\ status' = "starting"
    BY <2>3, <1>3, <1>10 DEF Goes
  <2> QED
    BY <2>2, <2>4
<1>11. CASE AddValueSource
  <2>1. Kind(Script[at]) = "value_source"
    BY <1>11 DEF AddValueSource, Does, Kind
  <2>2. CASE Has("wealth_accounts", "value_source")
    <3>1. d = db /\ noted' = noted
      BY <1>11, <2>2 DEF AddValueSource, Skip
    <3> QED
      BY <3>1, <2>1, <2>2, <1>5, <1>6, <1>9
  <2>3. CASE ~Has("wealth_accounts", "value_source")
    <3>1. /\ Goes /\ noted' = {"value_source"}
          /\ d = [db EXCEPT !.columns["wealth_accounts"] = @ \cup {"value_source"},
                            !.accounts = [a \in DOMAIN @ |-> "manual"]]
      BY <1>11, <2>3 DEF AddValueSource
    <3>2. /\ d.accounts = [a \in DOMAIN db.accounts |-> "manual"]
          /\ d.columns = [db.columns EXCEPT !["wealth_accounts"] = @ \cup {"value_source"}]
          /\ d.tables = db.tables
      BY <3>1, <1>2 DEF IsDatabase
    <3>3. "value_source" \in columnsNow
      BY <3>2, <1>2 DEF IsDatabase
    <3>4. <<"value_source", "value_reference">> \in Partners
      BY DEF Partners
    <3>5. status' = "starting" /\ Kind(SqliteScript[at']) = "value_reference"
      BY <3>1, <3>4, <2>1, <1>10
    <3>6. CASE "wealth_accounts" \in db.tables
      BY <3>1, <3>2, <3>3, <3>5, <3>6, <1>5
    <3>7. CASE "wealth_accounts" \notin db.tables
      BY <3>2, <3>7, <1>5, <1>9
    <3> QED
      BY <3>6, <3>7
  <2> QED
    BY <2>2, <2>3
<1>12. CASE ClassifyAccounts
  <2>1. noted' = {}
    BY <1>12 DEF ClassifyAccounts
  <2>2. CASE "value_source" \notin noted
    <3>1. d = db
      BY <1>12, <2>2 DEF ClassifyAccounts
    <3> QED
      BY <3>1, <2>1, <2>2, <1>5, <1>6, <1>9
  <2>3. CASE "value_source" \in noted
    <3>1. d = [db EXCEPT !.accounts = [a \in DOMAIN @ |-> Classified(a)]]
      BY <1>12, <2>3 DEF ClassifyAccounts
    <3>2. d.accounts = [a \in DOMAIN db.accounts |-> Classified(a)]
      BY <3>1, <1>2 DEF IsDatabase
    <3>3. SourcesFilled(d, chosen)
      BY <3>2 DEF SourcesFilled
    <3> QED
      BY <3>2, <3>3, <2>1, <2>3, <1>6, <1>9
  <2> QED
    BY <2>2, <2>3
<1>13. CASE ~AddValueSource /\ ~ClassifyAccounts
  <2>1. d.accounts = db.accounts
    BY <1>2, <1>4, <1>13, OthersKeepAccounts
  <2>2. "wealth_accounts" \in db.tables /\ "value_source" \notin columns
           /\ "value_source" \notin noted
        => "value_source" \notin columnsNow /\ "value_source" \notin noted'
    BY <1>2, <1>3, <1>4, <1>13, OthersLeaveColumn
  <2>3. Has("wealth_accounts", "value_source") /\ "value_source" \notin noted
        => "value_source" \notin noted'
    BY <1>2, <1>3, <1>4, StatementKeepsAccounts
  <2>4. Kind(Script[at]) # "classify"
    BY <1>4, <1>13
       DEF Statement, CreateTable, CreateIndexes, DropTable, AddColumn, AddCashflowColumn,
           BackfillCashflow, InsertBaseline, MigrateCashflowRows, MigrateCashflowRules,
           AddValueSource, DropDedupeIndex, CreateDedupeIndex, PreflightRelationships,
           CreateTemporaryTable, RebuildWithForeignKeys, Does, Kind
  <2>5. ASSUME Kind(Script[at]) = "value_reference", "value_source" \in noted
        PROVE  /\ status' = "starting" /\ Kind(SqliteScript[at']) = "classify"
               /\ "value_source" \in noted'
    <3>1. Script[at].op = "column"
      BY <1>3, <2>5 DEF Kind, WellFormed, Operations
    <3>2. AddColumn
      BY <3>1, <1>4, <1>13
         DEF Statement, CreateTable, CreateIndexes, DropTable, AddCashflowColumn,
             BackfillCashflow, InsertBaseline, MigrateCashflowRows, MigrateCashflowRules,
             DropDedupeIndex, CreateDedupeIndex, PreflightRelationships,
             CreateTemporaryTable, RebuildWithForeignKeys, Does
    <3>3. Goes /\ noted' = noted
      BY <3>2 DEF AddColumn
    <3>4. <<"value_reference", "classify">> \in Partners
      BY DEF Partners
    <3> QED
      BY <3>3, <3>4, <2>5, <1>10
  <2>6. SourcesFilled(db, chosen) => SourcesFilled(d, chosen)
    BY <2>1 DEF SourcesFilled
  <2> QED
    BY <2>1, <2>2, <2>3, <2>4, <2>5, <2>6, <1>6, <1>7, <1>9
<1> QED
  BY <1>11, <1>12, <1>13

\* Every step, and the accounts.
LEMMA AccountsStep ==
    ASSUME StartInv, AccountsInv, [Next]_vars
    PROVE  AccountsInv'
<1>1. CASE Start /\ UNCHANGED <<dialect, chosen, crashes>>
  BY <1>1 DEF Start, AccountsInv, SourcesFilled, Has
<1>2. CASE Statement /\ UNCHANGED <<dialect, chosen, crashes>>
  <2>1. CASE dialect = "sqlite"
    BY <1>2, <2>1, AccountsStatement
  <2>2. CASE dialect = "postgresql"
    <3>1. PostgresInv /\ NormalisePostgres
      BY <1>2, <2>2, OnePostgresStatement DEF StartInv
    <3>2. /\ db'.accounts = db.accounts /\ noted' = noted
          /\ db'.tables = db.tables /\ db'.columns = db.columns
      BY <3>1 DEF NormalisePostgres, PostgresInv, IsHosted
    <3> QED
      BY <1>2, <2>2, <3>2 DEF AccountsInv, SourcesFilled, Has
  <2> QED
    BY <2>1, <2>2 DEF StartInv
<1>3. CASE Crash
  BY <1>3 DEF Crash, AccountsInv
<1>4. CASE Stop
  BY <1>4 DEF Stop, AccountsInv, SourcesFilled, Has
<1>5. CASE \E a \in Accounts : ChooseValueSource(a)
  <2>1. PICK a \in Accounts : ChooseValueSource(a)
    BY <1>5
  <2>2. /\ status = "running" /\ noted' = noted /\ crashes' = crashes /\ dialect' = dialect
        /\ chosen' = chosen \cup {a}
    BY <2>1 DEF ChooseValueSource
  <2>3. DOMAIN db = {"tables", "columns", "unique", "global", "keys", "simplified", "rows",
                     "rule", "accounts", "events", "orphans", "temporary"}
    BY DEF StartInv, SqliteInv, PostgresInv, IsDatabase, IsHosted
  <2>4. db'.tables = db.tables /\ db'.columns = db.columns
    BY <2>1, <2>3, ChoiceChanges
  <2>5. \E source : db'.accounts = [db.accounts EXCEPT ![a] = source]
    BY <2>1, <2>3 DEF ChooseValueSource
  <2>6. /\ DOMAIN db'.accounts = DOMAIN db.accounts
        /\ SourcesFilled(db, chosen) => SourcesFilled(db', chosen')
    BY <2>2, <2>5 DEF SourcesFilled
  <2> QED
    BY <2>2, <2>4, <2>6 DEF AccountsInv, Has
<1>6. CASE UNCHANGED vars
  BY <1>6 DEF vars, AccountsInv, SourcesFilled, Has
<1> QED
  BY <1>1, <1>2, <1>3, <1>4, <1>5, <1>6 DEF Next

\* A backend that runs after starts that were not cut off has classified its accounts.
LEMMA RunningAccountsFilled ==
    ASSUME StartInv, AccountsInv, status = "running", crashes = 0
    PROVE  SourcesFilled(db, chosen)
<1>1. "value_source" \in db.columns["wealth_accounts"]
  BY RunningIsComplete, TablesListed, ColumnsListed
<1> QED
  BY <1>1 DEF AccountsInv, SourcesFilled

\* Starts that are not cut off fill the columns they add to an old database: money
\* in is income, and an account is valued by what its texts mention until the user
\* says otherwise (BackfilledUnlessCutOff).
THEOREM AlwaysBackfilled == Spec => BackfilledUnlessCutOff
<1> DEFINE NoTypes == \A r \in DOMAIN db.rows : db.rows[r] = None
           NoSources == \A a \in DOMAIN db.accounts : db.accounts[a] = None
           Types == status = "running" /\ crashes = 0 =>
                       \A r \in DOMAIN db.rows :
                          db.rows[r] = IF r = "in" THEN "income" ELSE "expense"
           Sources == status = "running" /\ crashes = 0 =>
                         \A a \in DOMAIN db.accounts \ chosen :
                            db.accounts[a] = Classified(a)
<1>1. Init /\ NoTypes => RowsInv
  BY RowsInvInit
<1>2. Init /\ NoSources => AccountsInv
  BY AccountsInvInit
<1>3. StartInv /\ RowsInv => Types
  BY RunningRowsFilled DEF TypesFilled
<1>4. StartInv /\ AccountsInv => Sources
  BY RunningAccountsFilled DEF SourcesFilled
<1> HIDE DEF NoTypes, NoSources, Types, Sources
<1>5. Spec /\ NoTypes => []Types
  BY <1>1, <1>3, StartInvInit, StartInvStep, RowsStep, PTL DEF Spec
<1>6. Spec /\ NoSources => []Sources
  BY <1>2, <1>4, StartInvInit, StartInvStep, AccountsStep, PTL DEF Spec
<1> USE DEF NoTypes, NoSources, Types, Sources
<1>7. BackfilledUnlessCutOff <=> (NoTypes => []Types) /\ (NoSources => []Sources)
  BY PTL DEF BackfilledUnlessCutOff
<1> QED
  BY <1>5, <1>6, <1>7, PTL

=============================================================================
