---------------------------- MODULE ErasureProofs ----------------------------
(***************************************************************************)
(* The properties of Erasure for any rows that refer to each other as the  *)
(* schema allows, and any requests that write meanwhile.                   *)
(***************************************************************************)
EXTENDS Erasure, TLAPS

-----------------------------------------------------------------------------
(* The statements *)

LEMMA JoinedLength ==
    ASSUME NEW T, NEW s \in Seq(T), NEW t \in Seq(T)
    PROVE  Len(s \o t) = Len(s) + Len(t)
OBVIOUS

\* The order of the tables of an account deletion, spelt out.
LEMMA AccountTables ==
    /\ Len(AccountOrder) = 11
    /\ AccountOrder[1] = "import_previews"   /\ AccountOrder[2] = "wealth_snapshots"
    /\ AccountOrder[3] = "investment_events" /\ AccountOrder[4] = "owed_payment_allocations"
    /\ AccountOrder[5] = "owed_item_events"  /\ AccountOrder[6] = "owed_payments"
    /\ AccountOrder[7] = "owed_items"        /\ AccountOrder[8] = "wealth_accounts"
    /\ AccountOrder[9] = "transaction_categories"
    /\ AccountOrder[10] = "transactions"     /\ AccountOrder[11] = "import_batches"
<1> DEFINE listed == RecoveryTables
           tables == [n \in 1 .. 10 |-> listed[11 - n]]
           T == {"import_previews"} \cup {listed[n] : n \in 1 .. 10}
<1>1. Len(listed) = 10
  BY DEF RecoveryTables
<1>2. \A n \in 1 .. 10 : listed[n] \in T
  OBVIOUS
<1>3. /\ listed[10] = "wealth_snapshots" /\ listed[9] = "investment_events"
      /\ listed[8] = "owed_payment_allocations" /\ listed[7] = "owed_item_events"
      /\ listed[6] = "owed_payments" /\ listed[5] = "owed_items"
      /\ listed[4] = "wealth_accounts" /\ listed[3] = "transaction_categories"
      /\ listed[2] = "transactions" /\ listed[1] = "import_batches"
  BY DEF RecoveryTables
<1> HIDE DEF listed, T
<1>4. tables \in Seq(T) /\ Len(tables) = 10
  BY <1>2
<1>5. /\ tables[1] = listed[10] /\ tables[2] = listed[9] /\ tables[3] = listed[8]
      /\ tables[4] = listed[7] /\ tables[5] = listed[6] /\ tables[6] = listed[5]
      /\ tables[7] = listed[4] /\ tables[8] = listed[3] /\ tables[9] = listed[2]
      /\ tables[10] = listed[1]
  OBVIOUS
<1>6. AccountOrder = <<"import_previews">> \o tables
  BY <1>1 DEF AccountOrder, listed
<1> HIDE DEF tables
<1>7. /\ Len(AccountOrder) = 11 /\ AccountOrder[1] = "import_previews"
      /\ \A n \in 1 .. 10 : AccountOrder[n + 1] = tables[n]
  <2>1. <<"import_previews">> \in Seq(T) /\ Len(<<"import_previews">>) = 1
    <3>1. "import_previews" \in T
      BY DEF T
    <3>2. QED
      BY <3>1
  <2>2. Len(AccountOrder) = 1 + 10
    <3>1. PICK one : one = <<"import_previews">>
      OBVIOUS
    <3>2. one \in Seq(T) /\ Len(one) = 1 /\ AccountOrder = one \o tables
      BY <1>6, <2>1, <3>1
    <3>3. Len(one \o tables) = Len(one) + Len(tables)
      BY <1>4, <3>2, JoinedLength
    <3>4. QED
      BY <1>4, <3>2, <3>3
  <2>3. \A n \in 1 .. 10 : AccountOrder[n + 1] = tables[n]
    BY <1>4, <1>6, <2>1
  <2>4. AccountOrder[1] = "import_previews"
    BY <1>4, <1>6
  <2>5. QED
    BY <2>2, <2>3, <2>4
<1>8. /\ AccountOrder[1 + 1] = tables[1] /\ AccountOrder[2 + 1] = tables[2]
      /\ AccountOrder[3 + 1] = tables[3] /\ AccountOrder[4 + 1] = tables[4]
      /\ AccountOrder[5 + 1] = tables[5] /\ AccountOrder[6 + 1] = tables[6]
      /\ AccountOrder[7 + 1] = tables[7] /\ AccountOrder[8 + 1] = tables[8]
      /\ AccountOrder[9 + 1] = tables[9] /\ AccountOrder[10 + 1] = tables[10]
  BY <1>7
<1>9. QED
  BY <1>3, <1>5, <1>7, <1>8

ResetStatements == ResetReads \o ResetDeletes

\* The queries of a month reset, then its deletes.
LEMMA ResetTables ==
    /\ Len(ResetReads) = 6 /\ Len(ResetStatements) = 11
    /\ ResetReads[1] = "transactions"     /\ ResetReads[2] = "owed_items"
    /\ ResetReads[3] = "dated payments"   /\ ResetReads[4] = "paying payments"
    /\ ResetReads[5] = "owed_payment_allocations"
    /\ ResetReads[6] = "investment_events"
    /\ ResetStatements[7] = "owed_payment_allocations"
    /\ ResetStatements[8] = "owed_payments"
    /\ ResetStatements[9] = "owed_items"
    /\ ResetStatements[10] = "investment_events"
    /\ ResetStatements[11] = "transactions"
BY DEF ResetStatements, ResetReads, ResetDeletes

-----------------------------------------------------------------------------
(* Foreign keys *)

LEMMA RestrictingKeys ==
    ASSUME NEW c \in Rows, NEW p \in Refs[c], OnDelete(c, p) = "restrict"
    PROVE  <<TableOf[c], TableOf[p]>> \in
             { <<"transactions", "import_batches">>, <<"owed_items", "transactions">>,
               <<"owed_items", "import_batches">>, <<"owed_payments", "transactions">>,
               <<"owed_payment_allocations", "owed_items">>,
               <<"investment_events", "import_batches">>,
               <<"wealth_snapshots", "wealth_accounts">>,
               <<"wealth_snapshots", "import_batches">> }
BY RowsAssumption DEF OnDelete, ForeignKeys

\* Only allocations of a payment and events of an owed item go with the row they refer to.
LEMMA CascadingKeys ==
    ASSUME NEW c \in Rows, NEW p \in Refs[c]
    PROVE  OnDelete(c, p) = "cascade" <=>
             <<TableOf[c], TableOf[p]>> \in
               { <<"owed_payment_allocations", "owed_payments">>,
                 <<"owed_item_events", "owed_items">> }
BY RowsAssumption DEF OnDelete, ForeignKeys

(* The operators of the module over given rows. *)
ReferringIn(S, parents, action) ==
    {c \in S : \E p \in Refs[c] \cap parents : OnDelete(c, p) = action}

CascadeIn(S, deleted) == deleted \cup ReferringIn(S, deleted, "cascade")

RefusedIn(S, deleted) == ~(ReferringIn(S, deleted, "restrict") \subseteq CascadeIn(S, deleted))

\* The operators of the module are these over the rows the erasure sees.
LEMMA InSeen ==
    ASSUME NEW S, S = Seen, NEW D
    PROVE  Cascading(D) = CascadeIn(S, D) /\ (IsRefused(D) <=> RefusedIn(S, D))
BY DEF Cascading, IsRefused, Referring, ReferringIn, CascadeIn, RefusedIn

(* A row that is there refers to rows that are there, unless the reference *)
(* is set to null.                                                         *)
KeysIn(S) ==
    \A c \in S : \A p \in Refs[c] : OnDelete(c, p) = "set null" \/ p \in S

\* One of the three ON DELETE actions of the schema.
LEMMA OnDeleteIs ==
    ASSUME NEW c, NEW p
    PROVE  OnDelete(c, p) \in {"cascade", "set null", "restrict"}
BY DEF OnDelete

\* A delete that is not refused leaves no row without the rows it refers to: rows that
\* go by cascade are referred to by none.
LEMMA DeletionKeepsKeys ==
    ASSUME NEW S \in SUBSET Rows, KeysIn(S), NEW D \in SUBSET S, ~RefusedIn(S, D)
    PROVE  KeysIn(S \ CascadeIn(S, D))
<1> SUFFICES ASSUME NEW c \in S, c \notin CascadeIn(S, D), NEW p \in Refs[c],
                    OnDelete(c, p) # "set null", p \in CascadeIn(S, D)
             PROVE  FALSE
  BY DEF KeysIn
<1>1. OnDelete(c, p) \in {"cascade", "restrict"}
  BY OnDeleteIs
<1>2. CASE p \in D
  BY <1>1, <1>2 DEF CascadeIn, RefusedIn, ReferringIn
<1>3. CASE p \notin D
  <2>1. PICK q \in Refs[p] \cap D : OnDelete(p, q) = "cascade" /\ p \in S
    BY <1>3 DEF CascadeIn, ReferringIn
  <2>2. TableOf[p] \in {"owed_payment_allocations", "owed_item_events"}
    BY <2>1, CascadingKeys
  <2>3. <<TableOf[c], TableOf[p]>> \in ForeignKeys
    BY RowsAssumption
  <2>4. QED
    BY <2>2, <2>3 DEF ForeignKeys
<1>4. QED
  BY <1>2, <1>3

-----------------------------------------------------------------------------
(* What a reset takes *)

TxsIn(R, m) == {r \in R : TableOf[r] = "transactions" /\ MonthOf[r] = m}

ItemsIn(R, m) == {r \in R : TableOf[r] = "owed_items" /\ Refs[r] \cap TxsIn(R, m) # {}}

SharesIn(R, m) ==
    {a \in R : TableOf[a] = "owed_payment_allocations" /\ Refs[a] \cap ItemsIn(R, m) # {}}

DatedIn(R, m) ==
    {r \in R : /\ TableOf[r] = "owed_payments"
               /\ MonthOf[r] = m \/ Refs[r] \cap TxsIn(R, m) # {}}

PayingIn(R, m) ==
    {r \in R : TableOf[r] = "owed_payments" /\ \E a \in SharesIn(R, m) : r \in Refs[a]}

PaysIn(R, m) == DatedIn(R, m) \cup PayingIn(R, m)

InvsIn(R, m) == {r \in R : TableOf[r] = "investment_events" /\ MonthOf[r] = m}

AllocsIn(R, m) ==
    {r \in R : /\ TableOf[r] = "owed_payment_allocations"
               /\ Refs[r] \cap (ItemsIn(R, m) \cup PaysIn(R, m)) # {}}

EventsIn(R, m) ==
    {r \in R : /\ TableOf[r] = "owed_item_events"
               /\ Refs[r] \cap (ItemsIn(R, m) \cup PaysIn(R, m)) # {}}

ReachIn(R, m) ==
    TxsIn(R, m) \cup ItemsIn(R, m) \cup PaysIn(R, m) \cup InvsIn(R, m)
        \cup AllocsIn(R, m) \cup EventsIn(R, m)

\* The reach of a month, as the property states it.
LEMMA ReachIs ==
    ASSUME NEW R \in SUBSET Rows, R = rows, NEW m
    PROVE  ResetReach(m) = ReachIn(R, m)
BY DEF ResetReach, ReachIn, TxsIn, ItemsIn, PaysIn, DatedIn, PayingIn, SharesIn, InvsIn,
       AllocsIn, EventsIn, InTable

\* More rows, more reach.
LEMMA ReachGrows ==
    ASSUME NEW R, NEW S, R \subseteq S, NEW m
    PROVE  ReachIn(R, m) \subseteq ReachIn(S, m)
<1>1. TxsIn(R, m) \subseteq TxsIn(S, m) /\ InvsIn(R, m) \subseteq InvsIn(S, m)
  BY DEF TxsIn, InvsIn
<1>2. ItemsIn(R, m) \subseteq ItemsIn(S, m)
  BY <1>1 DEF ItemsIn
<1>3. SharesIn(R, m) \subseteq SharesIn(S, m)
  BY <1>2 DEF SharesIn
<1>4. DatedIn(R, m) \subseteq DatedIn(S, m) /\ PayingIn(R, m) \subseteq PayingIn(S, m)
  BY <1>1, <1>3 DEF DatedIn, PayingIn
<1>5. PaysIn(R, m) \subseteq PaysIn(S, m)
  BY <1>4 DEF PaysIn
<1>6. AllocsIn(R, m) \subseteq AllocsIn(S, m) /\ EventsIn(R, m) \subseteq EventsIn(S, m)
  BY <1>2, <1>5 DEF AllocsIn, EventsIn
<1>7. QED
  BY <1>1, <1>2, <1>5, <1>6 DEF ReachIn

(* The part of the reach in each table.                                    *)
LEMMA ReachByTable ==
    ASSUME NEW R, NEW m, NEW r \in ReachIn(R, m)
    PROVE  /\ r \in R
           /\ TableOf[r] = "transactions" => r \in TxsIn(R, m)
           /\ TableOf[r] = "owed_items" => r \in ItemsIn(R, m)
           /\ TableOf[r] = "owed_payments" => r \in PaysIn(R, m)
           /\ TableOf[r] = "investment_events" => r \in InvsIn(R, m)
           /\ TableOf[r] = "owed_payment_allocations" => r \in AllocsIn(R, m)
BY DEF ReachIn, TxsIn, ItemsIn, PaysIn, DatedIn, PayingIn, InvsIn, AllocsIn, EventsIn

(* A reset reads nothing but its month's reach...                          *)
OfMonthIn(S, t, m) == {r \in S : TableOf[r] = t /\ MonthOf[r] = m}

RefersIn(S, t, ids) == {r \in S : TableOf[r] = t /\ Refs[r] \cap ids # {}}

PayingOf(S, items) ==
    {r \in Rows : /\ TableOf[r] = "owed_payments"
                  /\ \E a \in RefersIn(S, "owed_payment_allocations", items) : r \in Refs[a]}

ItemsOf(ids) == {r \in ids : r \in Rows /\ TableOf[r] = "owed_items"}

ReadAt(k, S, ids, m) ==
    CASE k = 1 -> OfMonthIn(S, "transactions", m)
      [] k = 2 -> RefersIn(S, "owed_items", ids)
      [] k = 3 -> OfMonthIn(S, "owed_payments", m) \cup RefersIn(S, "owed_payments", ids)
      [] k = 4 -> PayingOf(S, ItemsOf(ids))
      [] k = 5 -> RefersIn(S, "owed_payment_allocations", ids)
      [] k = 6 -> OfMonthIn(S, "investment_events", m)

\* What a query returns, from the rows the erasure sees.
LEMMA ReadIs ==
    ASSUME NEW S \in SUBSET Rows, S = Seen, NEW k \in 1 .. 6, NEW ids, NEW m
    PROVE  Read(ResetReads[k], ids, m) = ReadAt(k, S, ids, m)
<1>1. \A t : OfMonth(t, m) = OfMonthIn(S, t, m)
  BY DEF OfMonth, OfMonthIn, InTable
<1>2. \A t, i : RefersTo(t, i) = RefersIn(S, t, i)
  BY DEF RefersTo, RefersIn, InTable
<1>3. ids \cap InTable("owed_items") = ItemsOf(ids)
  BY DEF ItemsOf, InTable
<1>4. Paying(ItemsOf(ids)) = PayingOf(S, ItemsOf(ids))
  BY <1>2 DEF Paying, PayingOf, InTable
<1>5. CASE k = 1
  BY <1>1, <1>5, ResetTables DEF Read, ReadAt
<1>6. CASE k = 2
  BY <1>2, <1>6, ResetTables DEF Read, ReadAt
<1>7. CASE k = 3
  BY <1>1, <1>2, <1>7, ResetTables DEF Read, ReadAt
<1>8. CASE k = 4
  BY <1>3, <1>4, <1>8, ResetTables DEF Read, ReadAt
<1>9. CASE k = 5
  BY <1>2, <1>9, ResetTables DEF Read, ReadAt
<1>10. CASE k = 6
  BY <1>1, <1>10, ResetTables DEF Read, ReadAt
<1>11. QED
  BY <1>5, <1>6, <1>7, <1>8, <1>9, <1>10

\* The reach lies in six tables; import batches, accounts and categories are not reset.
LEMMA ReachHasTables ==
    ASSUME NEW R, NEW m, NEW r \in ReachIn(R, m)
    PROVE  TableOf[r] \in {"transactions", "owed_items", "owed_payments", "investment_events",
                           "owed_payment_allocations", "owed_item_events"}
BY DEF ReachIn, TxsIn, ItemsIn, PaysIn, DatedIn, PayingIn, InvsIn, AllocsIn, EventsIn

(* What each query finds, given ids of the reach.                          *)
LEMMA ReadFinds ==
    ASSUME NEW R \in SUBSET Rows, KeysIn(R), NEW m, NEW ids \in SUBSET ReachIn(R, m)
    PROVE  /\ ReadAt(1, R, ids, m) = TxsIn(R, m)
           /\ ReadAt(2, R, ids, m) \subseteq ItemsIn(R, m)
           /\ ReadAt(3, R, ids, m) \subseteq DatedIn(R, m)
           /\ ReadAt(4, R, ids, m) \subseteq PayingIn(R, m)
           /\ ReadAt(5, R, ids, m) \subseteq AllocsIn(R, m)
           /\ ReadAt(6, R, ids, m) = InvsIn(R, m)
<1>1. ReadAt(1, R, ids, m) = TxsIn(R, m) /\ ReadAt(6, R, ids, m) = InvsIn(R, m)
  BY DEF ReadAt, OfMonthIn, TxsIn, InvsIn
<1>2. ASSUME NEW r \in R, TableOf[r] = "owed_items" \/ TableOf[r] = "owed_payments",
             NEW p \in Refs[r], p \in ids
      PROVE  p \in TxsIn(R, m)
  <2>1. <<TableOf[r], TableOf[p]>> \in ForeignKeys
    BY RowsAssumption
  <2>2. TableOf[p] # "import_batches"
    BY <1>2, ReachHasTables
  <2>3. TableOf[p] = "transactions"
    BY <1>2, <2>1, <2>2 DEF ForeignKeys
  <2>4. QED
    BY <1>2, <2>3, ReachByTable
<1>3. ReadAt(2, R, ids, m) \subseteq ItemsIn(R, m)
  BY <1>2 DEF ReadAt, RefersIn, ItemsIn
<1>4. ReadAt(3, R, ids, m) \subseteq DatedIn(R, m)
  BY <1>2 DEF ReadAt, RefersIn, OfMonthIn, DatedIn
<1>5. ReadAt(4, R, ids, m) \subseteq PayingIn(R, m)
  <2>1. SUFFICES ASSUME NEW r \in Rows, TableOf[r] = "owed_payments",
                        NEW a \in R, TableOf[a] = "owed_payment_allocations",
                        NEW i \in Refs[a], i \in ItemsOf(ids), r \in Refs[a]
                 PROVE  r \in PayingIn(R, m)
    BY DEF ReadAt, PayingOf, RefersIn
  <2>2. i \in ItemsIn(R, m)
    BY <2>1, ReachByTable DEF ItemsOf
  <2>3. a \in SharesIn(R, m)
    BY <2>1, <2>2 DEF SharesIn
  <2>4. OnDelete(a, r) = "cascade"
    BY <2>1, CascadingKeys
  <2>5. r \in R
    BY <2>1, <2>4 DEF KeysIn
  <2>6. QED
    BY <2>1, <2>3, <2>5 DEF PayingIn
<1>6. ReadAt(5, R, ids, m) \subseteq AllocsIn(R, m)
  <2>1. SUFFICES ASSUME NEW a \in R, TableOf[a] = "owed_payment_allocations",
                        NEW p \in Refs[a], p \in ids
                 PROVE  p \in ItemsIn(R, m) \cup PaysIn(R, m)
    BY DEF ReadAt, RefersIn, AllocsIn
  <2>2. <<TableOf[a], TableOf[p]>> \in ForeignKeys
    BY RowsAssumption
  <2>3. TableOf[p] \in {"owed_items", "owed_payments"}
    BY <2>1, <2>2 DEF ForeignKeys
  <2>4. QED
    BY <2>1, <2>3, ReachByTable
<1>7. QED
  BY <1>1, <1>3, <1>4, <1>5, <1>6

\* So the ids read never leave the reach.
LEMMA ReadInReach ==
    ASSUME NEW R \in SUBSET Rows, KeysIn(R), NEW m, NEW ids \in SUBSET ReachIn(R, m),
           NEW k \in 1 .. 6
    PROVE  ids \cup ReadAt(k, R, ids, m) \subseteq ReachIn(R, m)
<1>1. k = 1 \/ k = 2 \/ k = 3 \/ k = 4 \/ k = 5 \/ k = 6
  OBVIOUS
<1>2. ReadAt(k, R, ids, m) \subseteq TxsIn(R, m) \cup ItemsIn(R, m) \cup DatedIn(R, m)
         \cup PayingIn(R, m) \cup AllocsIn(R, m) \cup InvsIn(R, m)
  BY <1>1, ReadFinds
<1>3. QED
  BY <1>2 DEF ReachIn, PaysIn

(* ... and, when the rows stay the same, all of it but the events.         *)
IdsRead(R, m, ids, step) ==
    /\ step > 1 => TxsIn(R, m) \subseteq ids
    /\ step > 2 => ItemsIn(R, m) \subseteq ids
    /\ step > 3 => DatedIn(R, m) \subseteq ids
    /\ step > 4 => PayingIn(R, m) \subseteq ids
    /\ step > 5 => AllocsIn(R, m) \subseteq ids
    /\ step > 6 => InvsIn(R, m) \subseteq ids

\* A query that starts with the ids of the earlier ones returns all of its own.
LEMMA ReadIsComplete ==
    ASSUME NEW R \in SUBSET Rows, KeysIn(R), NEW m, NEW ids \in SUBSET ReachIn(R, m),
           NEW k \in 1 .. 6, IdsRead(R, m, ids, k)
    PROVE  IdsRead(R, m, ids \cup ReadAt(k, R, ids, m), k + 1)
<1>1. CASE k = 1
  BY <1>1, ReadFinds DEF IdsRead
<1>2. CASE k = 2
  <2>1. TxsIn(R, m) \subseteq ids
    BY <1>2 DEF IdsRead
  <2>2. ItemsIn(R, m) \subseteq ReadAt(2, R, ids, m)
    BY <2>1 DEF ReadAt, RefersIn, ItemsIn
  <2>3. QED
    BY <1>2, <2>1, <2>2 DEF IdsRead
<1>3. CASE k = 3
  <2>1. TxsIn(R, m) \subseteq ids
    BY <1>3 DEF IdsRead
  <2>2. DatedIn(R, m) \subseteq ReadAt(3, R, ids, m)
    BY <2>1 DEF ReadAt, RefersIn, OfMonthIn, DatedIn
  <2>3. QED
    BY <1>3, <2>1, <2>2 DEF IdsRead
<1>4. CASE k = 4
  <2>1. ItemsIn(R, m) \subseteq ids
    BY <1>4 DEF IdsRead
  <2>2. ItemsIn(R, m) \subseteq ItemsOf(ids)
    BY <2>1 DEF ItemsOf, ItemsIn
  <2>3. PayingIn(R, m) \subseteq PayingOf(R, ItemsOf(ids))
    BY <2>2 DEF PayingOf, RefersIn, PayingIn, SharesIn
  <2>4. ReadAt(4, R, ids, m) = PayingOf(R, ItemsOf(ids))
    BY DEF ReadAt
  <2>5. QED
    BY <1>4, <2>3, <2>4 DEF IdsRead
<1>5. CASE k = 5
  <2>1. ItemsIn(R, m) \cup PaysIn(R, m) \subseteq ids
    BY <1>5 DEF IdsRead, PaysIn
  <2>2. AllocsIn(R, m) \subseteq ReadAt(5, R, ids, m)
    BY <2>1 DEF ReadAt, RefersIn, AllocsIn
  <2>3. QED
    BY <1>5, <2>2 DEF IdsRead
<1>6. CASE k = 6
  BY <1>6, ReadFinds DEF IdsRead
<1>7. QED
  BY <1>1, <1>2, <1>3, <1>4, <1>5, <1>6

(* What the deletes of a reset take away.                                  *)
TargetsIn(S, ids, t) == {r \in S : TableOf[r] = t /\ r \in ids}

\* What a delete takes, with what goes by cascade, is in the reach.
LEMMA ResetDeletesReach ==
    ASSUME NEW R \in SUBSET Rows, NEW m, NEW ids \in SUBSET ReachIn(R, m), NEW t,
           NEW S \in SUBSET R
    PROVE  CascadeIn(S, TargetsIn(S, ids, t)) \subseteq ReachIn(R, m)
<1> SUFFICES ASSUME NEW c \in S, NEW p \in Refs[c], p \in ids, OnDelete(c, p) = "cascade"
             PROVE  c \in ReachIn(R, m)
  BY DEF CascadeIn, ReferringIn, TargetsIn
<1>1. <<TableOf[c], TableOf[p]>> \in
         { <<"owed_payment_allocations", "owed_payments">>, <<"owed_item_events", "owed_items">> }
  BY CascadingKeys
<1>2. p \in ItemsIn(R, m) \cup PaysIn(R, m)
  BY <1>1, ReachByTable
<1>3. c \in AllocsIn(R, m) \cup EventsIn(R, m)
  BY <1>1, <1>2 DEF AllocsIn, EventsIn
<1>4. QED
  BY <1>3 DEF ReachIn

GoneByNow(R, m, gone, step) ==
    /\ step > 7 => AllocsIn(R, m) \subseteq gone
    /\ step > 8 => PaysIn(R, m) \subseteq gone
    /\ step > 9 => ItemsIn(R, m) \subseteq gone /\ EventsIn(R, m) \subseteq gone
    /\ step > 10 => InvsIn(R, m) \subseteq gone
    /\ step > 11 => TxsIn(R, m) \subseteq gone

(* A table's part of the reach goes when all of it has been read.          *)
LEMMA TablePartGoes ==
    ASSUME NEW R \in SUBSET Rows, NEW ids, NEW t, NEW gone \in SUBSET R, NEW P \in SUBSET R,
           P \subseteq ids, \A r \in P : TableOf[r] = t
    PROVE  P \subseteq gone \cup CascadeIn(R \ gone, TargetsIn(R \ gone, ids, t))
BY DEF CascadeIn, TargetsIn

(* The events go with what is owed.                                        *)
LEMMA EventsGo ==
    ASSUME NEW R \in SUBSET Rows, NEW m, NEW ids, ItemsIn(R, m) \subseteq ids,
           NEW gone \in SUBSET R, KeysIn(R \ gone)
    PROVE  EventsIn(R, m) \subseteq
             gone \cup CascadeIn(R \ gone, TargetsIn(R \ gone, ids, "owed_items"))
<1> SUFFICES ASSUME NEW e \in R, e \notin gone, TableOf[e] = "owed_item_events",
                    NEW p \in Refs[e], p \in ItemsIn(R, m) \cup PaysIn(R, m)
             PROVE  e \in CascadeIn(R \ gone, TargetsIn(R \ gone, ids, "owed_items"))
  BY DEF EventsIn
<1>1. <<TableOf[e], TableOf[p]>> \in ForeignKeys
  BY RowsAssumption
<1>2. TableOf[p] = "owed_items"
  BY <1>1 DEF ForeignKeys
<1>3. p \in ItemsIn(R, m)
  BY <1>2 DEF PaysIn, DatedIn, PayingIn
<1>4. OnDelete(e, p) = "cascade"
  BY <1>2, CascadingKeys
<1>5. p \in R \ gone
  BY <1>4 DEF KeysIn
<1>6. p \in TargetsIn(R \ gone, ids, "owed_items")
  BY <1>2, <1>3, <1>5 DEF TargetsIn
<1>7. QED
  BY <1>4, <1>6 DEF CascadeIn, ReferringIn

\* After its delete nothing of a table's part of the reach is left.
LEMMA DeletesAreComplete ==
    ASSUME NEW R \in SUBSET Rows, NEW m, NEW ids, NEW k \in 7 .. 11, IdsRead(R, m, ids, k),
           NEW gone \in SUBSET R, KeysIn(R \ gone), GoneByNow(R, m, gone, k)
    PROVE  GoneByNow(R, m, gone \cup CascadeIn(R \ gone, TargetsIn(R \ gone, ids,
                                                                   ResetStatements[k])), k + 1)
<1> DEFINE S == R \ gone
           more(t) == gone \cup CascadeIn(S, TargetsIn(S, ids, t))
<1>1. \A t : gone \subseteq more(t)
  OBVIOUS
<1>2. /\ TxsIn(R, m) \subseteq ids /\ ItemsIn(R, m) \subseteq ids /\ PaysIn(R, m) \subseteq ids
      /\ AllocsIn(R, m) \subseteq ids /\ InvsIn(R, m) \subseteq ids
  BY DEF IdsRead, PaysIn
<1>3. CASE k = 7
  <2>1. AllocsIn(R, m) \subseteq more("owed_payment_allocations")
    <3>1. AllocsIn(R, m) \in SUBSET R
             /\ \A r \in AllocsIn(R, m) : TableOf[r] = "owed_payment_allocations"
      BY DEF AllocsIn
    <3>2. QED
      BY <1>2, <3>1, TablePartGoes
  <2> HIDE DEF more
  <2>2. GoneByNow(R, m, more("owed_payment_allocations"), 8)
    BY <2>1 DEF GoneByNow
  <2>3. ResetStatements[k] = "owed_payment_allocations"
    BY <1>3, ResetTables
  <2>4. k + 1 = 8
    BY <1>3
  <2>5. GoneByNow(R, m, more(ResetStatements[k]), k + 1)
    BY <2>2, <2>3, <2>4
  <2>6. QED
    BY <2>5 DEF more
<1>4. CASE k = 8
  <2>1. PaysIn(R, m) \subseteq more("owed_payments")
    <3>1. PaysIn(R, m) \in SUBSET R /\ \A r \in PaysIn(R, m) : TableOf[r] = "owed_payments"
      BY DEF PaysIn, DatedIn, PayingIn
    <3>2. QED
      BY <1>2, <3>1, TablePartGoes
  <2>2. AllocsIn(R, m) \subseteq more("owed_payments")
    BY <1>1, <1>4 DEF GoneByNow
  <2> HIDE DEF more
  <2>3. GoneByNow(R, m, more("owed_payments"), 9)
    BY <2>1, <2>2 DEF GoneByNow
  <2>4. ResetStatements[k] = "owed_payments"
    BY <1>4, ResetTables
  <2>5. k + 1 = 9
    BY <1>4
  <2>6. GoneByNow(R, m, more(ResetStatements[k]), k + 1)
    BY <2>3, <2>4, <2>5
  <2>7. QED
    BY <2>6 DEF more
<1>5. CASE k = 9
  <2>1. ItemsIn(R, m) \subseteq more("owed_items")
    <3>1. ItemsIn(R, m) \in SUBSET R /\ \A r \in ItemsIn(R, m) : TableOf[r] = "owed_items"
      BY DEF ItemsIn
    <3>2. QED
      BY <1>2, <3>1, TablePartGoes
  <2>2. EventsIn(R, m) \subseteq more("owed_items")
    BY <1>2, EventsGo
  <2>3. AllocsIn(R, m) \subseteq more("owed_items") /\ PaysIn(R, m) \subseteq more("owed_items")
    BY <1>1, <1>5 DEF GoneByNow
  <2> HIDE DEF more
  <2>4. GoneByNow(R, m, more("owed_items"), 10)
    BY <2>1, <2>2, <2>3 DEF GoneByNow
  <2>5. ResetStatements[k] = "owed_items"
    BY <1>5, ResetTables
  <2>6. k + 1 = 10
    BY <1>5
  <2>7. GoneByNow(R, m, more(ResetStatements[k]), k + 1)
    BY <2>4, <2>5, <2>6
  <2>8. QED
    BY <2>7 DEF more
<1>6. CASE k = 10
  <2>1. InvsIn(R, m) \subseteq more("investment_events")
    <3>1. InvsIn(R, m) \in SUBSET R /\ \A r \in InvsIn(R, m) : TableOf[r] = "investment_events"
      BY DEF InvsIn
    <3>2. QED
      BY <1>2, <3>1, TablePartGoes
  <2>2. /\ AllocsIn(R, m) \subseteq more("investment_events")
        /\ PaysIn(R, m) \subseteq more("investment_events")
        /\ ItemsIn(R, m) \subseteq more("investment_events")
        /\ EventsIn(R, m) \subseteq more("investment_events")
    BY <1>1, <1>6 DEF GoneByNow
  <2> HIDE DEF more
  <2>3. GoneByNow(R, m, more("investment_events"), 11)
    BY <2>1, <2>2 DEF GoneByNow
  <2>4. ResetStatements[k] = "investment_events"
    BY <1>6, ResetTables
  <2>5. k + 1 = 11
    BY <1>6
  <2>6. GoneByNow(R, m, more(ResetStatements[k]), k + 1)
    BY <2>3, <2>4, <2>5
  <2>7. QED
    BY <2>6 DEF more
<1>7. CASE k = 11
  <2>1. TxsIn(R, m) \subseteq more("transactions")
    <3>1. TxsIn(R, m) \in SUBSET R /\ \A r \in TxsIn(R, m) : TableOf[r] = "transactions"
      BY DEF TxsIn
    <3>2. QED
      BY <1>2, <3>1, TablePartGoes
  <2>2. /\ AllocsIn(R, m) \subseteq more("transactions")
        /\ PaysIn(R, m) \subseteq more("transactions")
        /\ ItemsIn(R, m) \subseteq more("transactions")
        /\ EventsIn(R, m) \subseteq more("transactions")
        /\ InvsIn(R, m) \subseteq more("transactions")
    BY <1>1, <1>7 DEF GoneByNow
  <2> HIDE DEF more
  <2>3. GoneByNow(R, m, more("transactions"), 12)
    BY <2>1, <2>2 DEF GoneByNow
  <2>4. ResetStatements[k] = "transactions"
    BY <1>7, ResetTables
  <2>5. k + 1 = 12
    BY <1>7
  <2>6. GoneByNow(R, m, more(ResetStatements[k]), k + 1)
    BY <2>3, <2>4, <2>5
  <2>7. QED
    BY <2>6 DEF more
<1>8. QED
  BY <1>3, <1>4, <1>5, <1>6, <1>7

(* No delete of a reset is refused when all was read.                      *)
LEMMA ResetNotRefused ==
    ASSUME NEW R \in SUBSET Rows, NEW m, NEW ids \in SUBSET ReachIn(R, m),
           NEW k \in 7 .. 11, NEW gone \in SUBSET R, GoneByNow(R, m, gone, k)
    PROVE  ~RefusedIn(R \ gone, TargetsIn(R \ gone, ids, ResetStatements[k]))
<1> SUFFICES ASSUME NEW c \in R, c \notin gone, NEW p \in Refs[c],
                    p \in TargetsIn(R \ gone, ids, ResetStatements[k]),
                    OnDelete(c, p) = "restrict"
             PROVE  FALSE
  BY DEF RefusedIn, ReferringIn
<1>1. p \in ReachIn(R, m) /\ TableOf[p] = ResetStatements[k]
  BY DEF TargetsIn
<1>2. <<TableOf[c], TableOf[p]>> \in
         { <<"owed_items", "transactions">>, <<"owed_payments", "transactions">>,
           <<"owed_payment_allocations", "owed_items">> }
  BY <1>1, RestrictingKeys, ReachHasTables
<1>3. CASE TableOf[p] = "owed_items"
  <2>1. p \in ItemsIn(R, m) /\ c \in AllocsIn(R, m)
    BY <1>1, <1>2, <1>3, ReachByTable DEF AllocsIn
  <2>2. k # 7
    BY <1>1, <1>3, ResetTables
  <2>3. k > 7
    BY <2>2
  <2>4. QED
    BY <2>1, <2>3 DEF GoneByNow
<1>4. CASE TableOf[p] = "transactions"
  <2>1. k = 11
    <3>1. k = 7 \/ k = 8 \/ k = 9 \/ k = 10 \/ k = 11
      OBVIOUS
    <3>2. QED
      BY <1>1, <1>4, <3>1, ResetTables
  <2>2. c \in ItemsIn(R, m) \cup PaysIn(R, m)
    <3>1. p \in TxsIn(R, m)
      BY <1>1, <1>4, ReachByTable
    <3>2. QED
      BY <1>2, <1>4, <3>1 DEF ItemsIn, PaysIn, DatedIn
  <2>3. QED
    BY <2>1, <2>2 DEF GoneByNow
<1>5. QED
  BY <1>2, <1>3, <1>4

(* Nor one of an account's deletion: the tables that refer to this one are *)
(* empty by then.                                                          *)
EmptyByNow(S, step) ==
    \A k \in 1 .. 11 : k < step => \A r \in S : TableOf[r] # AccountOrder[k]

TableIn(S, t) == {r \in S : TableOf[r] = t}

\* The tables whose rows would refuse a delete come before it.
LEMMA AccountNotRefused ==
    ASSUME NEW S \in SUBSET Rows, NEW k \in 1 .. 11, EmptyByNow(S, k)
    PROVE  ~RefusedIn(S, TableIn(S, AccountOrder[k]))
<1> SUFFICES ASSUME NEW c \in S, NEW p \in Refs[c], TableOf[p] = AccountOrder[k],
                    OnDelete(c, p) = "restrict"
             PROVE  FALSE
  BY DEF RefusedIn, ReferringIn, TableIn
<1>1. \A j \in 1 .. 11 : TableOf[c] = AccountOrder[j] => j >= k
  BY DEF EmptyByNow
<1>2. <<TableOf[c], TableOf[p]>> \in
             { <<"transactions", "import_batches">>, <<"owed_items", "transactions">>,
               <<"owed_items", "import_batches">>, <<"owed_payments", "transactions">>,
               <<"owed_payment_allocations", "owed_items">>,
               <<"investment_events", "import_batches">>,
               <<"wealth_snapshots", "wealth_accounts">>,
               <<"wealth_snapshots", "import_batches">> }
  BY RestrictingKeys
<1>3. /\ TableOf[p] = "import_batches" => k = 11
      /\ TableOf[p] = "transactions" => k = 10
      /\ TableOf[p] = "wealth_accounts" => k = 8
      /\ TableOf[p] = "owed_items" => k = 7
  <2>1. k = 1 \/ k = 2 \/ k = 3 \/ k = 4 \/ k = 5 \/ k = 6 \/ k = 7 \/ k = 8 \/ k = 9 \/ k = 10
           \/ k = 11
    OBVIOUS
  <2>2. QED
    BY <2>1, AccountTables
<1>4. CASE TableOf[p] = "import_batches"
  BY <1>1, <1>2, <1>3, <1>4, AccountTables
<1>5. CASE TableOf[p] = "transactions"
  BY <1>1, <1>2, <1>3, <1>5, AccountTables
<1>6. CASE TableOf[p] = "wealth_accounts"
  BY <1>1, <1>2, <1>3, <1>6, AccountTables
<1>7. CASE TableOf[p] = "owed_items"
  BY <1>1, <1>2, <1>3, <1>7, AccountTables
<1>8. QED
  BY <1>2, <1>4, <1>5, <1>6, <1>7

\* A delete of an account's deletion empties its table.
LEMMA DeletedTableIsEmpty ==
    ASSUME NEW S, NEW k \in 1 .. 11, EmptyByNow(S, k), NEW t, t = AccountOrder[k]
    PROVE  EmptyByNow(S \ CascadeIn(S, TableIn(S, t)), k + 1)
BY DEF EmptyByNow, CascadeIn, TableIn

-----------------------------------------------------------------------------
(* The invariant *)

AccountJobs ==
    [kind : {"account"}, step : 1 .. 12, gone : SUBSET Rows, found : SUBSET Rows]

ResetJobs ==
    [kind : {"reset"}, month : Months, step : 1 .. 12, ids : SUBSET Rows,
     gone : SUBSET Rows, found : SUBSET Rows]

(* Over the committed rows R: what the erasure has done by its step, and   *)
(* when nothing was added since it began, how far it got.                  *)
AccountOK(q, R) ==
    q \in AccountJobs /\ (R = q.found => EmptyByNow(R \ q.gone, q.step))

ResetOK(q, R) ==
    /\ q \in ResetJobs
    /\ q.ids \subseteq ReachIn(R, q.month) /\ q.gone \subseteq ReachIn(R, q.month)
    /\ q.step < 7 => q.gone = {}
    /\ R = q.found =>
          IdsRead(R, q.month, q.ids, q.step) /\ GoneByNow(R, q.month, q.gone, q.step)

JobOK(q, R) ==
    /\ AccountOK(q, R) \/ ResetOK(q, R)
    /\ q.gone \subseteq R /\ q.found \subseteq R
    /\ KeysIn(R \ q.gone)

ErasureInv ==
    /\ rows \in SUBSET Rows /\ KeysIn(rows)
    /\ job = None \/ \E q : q = job /\ JobOK(q, rows)

\* An account deletion begins with nothing done.
LEMMA AccountStarts ==
    ASSUME NEW R \in SUBSET Rows, KeysIn(R), NEW q,
           q = [kind |-> "account", step |-> 1, gone |-> {}, found |-> R]
    PROVE  JobOK(q, R)
<1>1. q \in AccountJobs /\ q.gone = {} /\ q.found = R /\ q.step = 1
  BY DEF AccountJobs
<1>2. EmptyByNow(R \ q.gone, q.step)
  BY <1>1 DEF EmptyByNow
<1>3. R \ q.gone = R
  BY <1>1
<1>4. QED
  BY <1>1, <1>2, <1>3 DEF JobOK, AccountOK

\* A month reset begins with nothing read and nothing done.
LEMMA ResetStarts ==
    ASSUME NEW R \in SUBSET Rows, KeysIn(R), NEW m \in Months, NEW q,
           q = [kind |-> "reset", month |-> m, step |-> 1, ids |-> {}, gone |-> {},
                found |-> R]
    PROVE  JobOK(q, R)
<1>1. /\ q \in ResetJobs /\ q.gone = {} /\ q.found = R /\ q.step = 1 /\ q.ids = {}
  BY DEF ResetJobs
<1>2. IdsRead(R, q.month, q.ids, q.step) /\ GoneByNow(R, q.month, q.gone, q.step)
  BY <1>1 DEF IdsRead, GoneByNow
<1>3. R \ q.gone = R
  BY <1>1
<1>4. QED
  BY <1>1, <1>2, <1>3 DEF JobOK, ResetOK

(* More rows disturb neither, as they refer to rows that are seen.         *)
LEMMA WriteKeepsJob ==
    ASSUME NEW R \in SUBSET Rows, NEW q, JobOK(q, R), NEW w \in SUBSET Rows, w \cap R = {},
           \A r \in w : Refs[r] \subseteq (R \ q.gone) \cup w
    PROVE  JobOK(q, R \cup w)
<1>1. q.gone \subseteq R /\ q.found \subseteq R /\ KeysIn(R \ q.gone)
  BY DEF JobOK
<1>2. KeysIn((R \cup w) \ q.gone)
  <2>1. SUFFICES ASSUME NEW c \in (R \cup w) \ q.gone, NEW p \in Refs[c],
                        OnDelete(c, p) # "set null"
                 PROVE  p \in (R \cup w) \ q.gone
    BY DEF KeysIn
  <2>2. CASE c \in w
    BY <1>1, <2>2
  <2>3. CASE c \in R \ q.gone
    BY <1>1, <2>1, <2>3 DEF KeysIn
  <2>4. QED
    BY <2>2, <2>3
<1>3. R \cup w = q.found => R \cup w = R
  BY <1>1
<1>4. CASE AccountOK(q, R)
  <2>1. AccountOK(q, R \cup w)
    BY <1>3, <1>4 DEF AccountOK
  <2>2. QED
    BY <1>1, <1>2, <2>1 DEF JobOK
<1>5. CASE ResetOK(q, R)
  <2>1. ReachIn(R, q.month) \subseteq ReachIn(R \cup w, q.month)
    BY ReachGrows
  <2>2. ResetOK(q, R \cup w)
    BY <1>3, <1>5, <2>1 DEF ResetOK
  <2>3. QED
    BY <1>1, <1>2, <2>2 DEF JobOK
<1>6. QED
  BY <1>4, <1>5 DEF JobOK

Moved(q, gone) == [q EXCEPT !.step = @ + 1, !.gone = gone]

Knows(q, ids) == [q EXCEPT !.step = @ + 1, !.ids = ids]

\* An account deletion after one more statement.
LEMMA AccountJobMoves ==
    ASSUME NEW q \in AccountJobs, q.step \in 1 .. 11, NEW g \in SUBSET Rows, NEW new,
           new = Moved(q, g)
    PROVE  /\ new \in AccountJobs /\ new.gone = g /\ new.step = q.step + 1
           /\ new.found = q.found
<1>1. q.step + 1 \in 1 .. 12
  OBVIOUS
<1>2. q.kind \in {"account"} /\ q.found \in SUBSET Rows
  BY DEF AccountJobs
<1>3. new \in AccountJobs
  BY <1>1, <1>2 DEF AccountJobs, Moved
<1>4. new.gone = g /\ new.step = q.step + 1 /\ new.found = q.found
  BY DEF AccountJobs, Moved
<1>5. QED
  BY <1>3, <1>4

\* A month reset after one more delete.
LEMMA ResetJobMoves ==
    ASSUME NEW q \in ResetJobs, q.step \in 1 .. 11, NEW g \in SUBSET Rows, NEW new,
           new = Moved(q, g)
    PROVE  /\ new \in ResetJobs /\ new.gone = g /\ new.step = q.step + 1
           /\ new.found = q.found /\ new.ids = q.ids /\ new.month = q.month
<1>1. q.step + 1 \in 1 .. 12
  OBVIOUS
<1>2. /\ q.kind \in {"reset"} /\ q.found \in SUBSET Rows /\ q.ids \in SUBSET Rows
      /\ q.month \in Months
  BY DEF ResetJobs
<1>3. new \in ResetJobs
  BY <1>1, <1>2 DEF ResetJobs, Moved, Knows
<1>4. /\ new.gone = g /\ new.step = q.step + 1 /\ new.found = q.found
      /\ new.ids = q.ids /\ new.month = q.month
  BY DEF ResetJobs, Moved, Knows
<1>5. QED
  BY <1>3, <1>4

\* A month reset after one more query.
LEMMA ResetJobReads ==
    ASSUME NEW q \in ResetJobs, q.step \in 1 .. 11, NEW i \in SUBSET Rows, NEW new,
           new = Knows(q, i)
    PROVE  /\ new \in ResetJobs /\ new.gone = q.gone /\ new.step = q.step + 1
           /\ new.found = q.found /\ new.ids = i /\ new.month = q.month
<1>1. q.step + 1 \in 1 .. 12
  OBVIOUS
<1>2. /\ q.kind \in {"reset"} /\ q.found \in SUBSET Rows /\ q.gone \in SUBSET Rows
      /\ q.month \in Months
  BY DEF ResetJobs
<1>3. new \in ResetJobs
  BY <1>1, <1>2 DEF ResetJobs, Moved, Knows
<1>4. /\ new.gone = q.gone /\ new.step = q.step + 1 /\ new.found = q.found
      /\ new.ids = i /\ new.month = q.month
  BY DEF ResetJobs, Moved, Knows
<1>5. QED
  BY <1>3, <1>4

\* A query keeps what is accounted for.
LEMMA ReadKeepsJob ==
    ASSUME NEW R \in SUBSET Rows, NEW q, JobOK(q, R), q.kind = "reset", q.step <= 6, NEW new,
           new = Knows(q, q.ids \cup ReadAt(q.step, R, q.ids, q.month))
    PROVE  JobOK(new, R)
<1>1. ResetOK(q, R) /\ q.gone \subseteq R /\ q.found \subseteq R /\ KeysIn(R \ q.gone)
  BY DEF JobOK, AccountOK, AccountJobs
<1>2. /\ q \in ResetJobs /\ q.step \in 1 .. 6 /\ q.gone = {}
      /\ q.ids \subseteq ReachIn(R, q.month)
  BY <1>1 DEF ResetOK, ResetJobs
<1> DEFINE m == q.month
           ids == q.ids \cup ReadAt(q.step, R, q.ids, m)
<1>3. KeysIn(R)
  <2>1. R \ q.gone = R
    BY <1>2
  <2>2. QED
    BY <1>1, <2>1
<1>4. ids \subseteq ReachIn(R, m)
  BY <1>2, <1>3, ReadInReach
<1>5. R = q.found => IdsRead(R, m, ids, q.step + 1)
  <2>1. SUFFICES ASSUME R = q.found PROVE IdsRead(R, m, ids, q.step + 1)
    OBVIOUS
  <2>2. IdsRead(R, m, q.ids, q.step)
    BY <1>1, <2>1 DEF ResetOK
  <2>3. QED
    BY <1>2, <1>3, <2>2, ReadIsComplete
<1>6. ids \subseteq Rows
  BY <1>4, ReachByTable
<1> HIDE DEF ids
<1> HIDE DEF m
<1>7. /\ new \in ResetJobs /\ new.ids = ids /\ new.step = q.step + 1 /\ new.gone = q.gone
      /\ new.found = q.found /\ new.month = q.month
  <2>1. new = Knows(q, ids)
    BY DEF ids, m
  <2>2. q.step \in 1 .. 11
    BY <1>2
  <2>3. q \in ResetJobs /\ ids \in SUBSET Rows
    BY <1>2, <1>6
  <2>4. QED
    BY <2>1, <2>2, <2>3, ResetJobReads
<1>8. GoneByNow(R, q.month, new.gone, new.step)
  BY <1>2, <1>7 DEF GoneByNow
<1>9. ResetOK(new, R)
  <2>1. new.ids \subseteq ReachIn(R, new.month) /\ new.gone \subseteq ReachIn(R, new.month)
    BY <1>2, <1>4, <1>7 DEF m
  <2>2. R = new.found => IdsRead(R, new.month, new.ids, new.step)
    BY <1>5, <1>7 DEF m
  <2>3. GoneByNow(R, new.month, new.gone, new.step) /\ new.gone = {}
    BY <1>2, <1>7, <1>8
  <2>4. QED
    BY <1>7, <2>1, <2>2, <2>3 DEF ResetOK
<1>10. R \ new.gone = R
  BY <1>2, <1>7
<1>11. QED
  BY <1>1, <1>3, <1>7, <1>9, <1>10 DEF JobOK

(* The rows a delete aims at.                                              *)
TargetsOf(q, R) ==
    IF q.kind = "account" THEN TableIn(R \ q.gone, AccountOrder[q.step])
    ELSE TargetsIn(R \ q.gone, q.ids, ResetStatements[q.step])

Deleting(q) == q.step \in 1 .. 11 /\ (q.kind = "reset" => q.step \in 7 .. 11)

\* With no row added since the beginning, the next delete is not refused.
LEMMA AloneIsNotRefused ==
    ASSUME NEW R \in SUBSET Rows, NEW q, JobOK(q, R), Deleting(q), R \subseteq q.found
    PROVE  ~RefusedIn(R \ q.gone, TargetsOf(q, R))
<1>1. R = q.found /\ q.gone \subseteq R
  BY DEF JobOK
<1>2. CASE AccountOK(q, R)
  <2>1. q.kind = "account" /\ EmptyByNow(R \ q.gone, q.step)
    BY <1>1, <1>2 DEF AccountOK, AccountJobs
  <2>2. QED
    BY <2>1, AccountNotRefused DEF TargetsOf, Deleting
<1>3. CASE ResetOK(q, R)
  <2>1. /\ q.kind = "reset" /\ q.ids \subseteq ReachIn(R, q.month)
        /\ GoneByNow(R, q.month, q.gone, q.step)
    BY <1>1, <1>3 DEF ResetOK, ResetJobs
  <2>2. QED
    BY <1>1, <2>1, ResetNotRefused DEF TargetsOf, Deleting
<1>4. QED
  BY <1>2, <1>3 DEF JobOK

\* A delete that is not refused keeps what is accounted for.
LEMMA DeleteKeepsJob ==
    ASSUME NEW R \in SUBSET Rows, NEW q, JobOK(q, R), Deleting(q), NEW new,
           ~RefusedIn(R \ q.gone, TargetsOf(q, R)),
           new = Moved(q, q.gone \cup CascadeIn(R \ q.gone, TargetsOf(q, R)))
    PROVE  JobOK(new, R)
<1> DEFINE S == R \ q.gone
           D == TargetsOf(q, R)
           gone == q.gone \cup CascadeIn(S, D)
<1>1. q.gone \subseteq R /\ q.found \subseteq R /\ KeysIn(S)
  BY DEF JobOK
<1>2. D \subseteq S
  BY DEF TargetsOf, TableIn, TargetsIn
<1>3. CascadeIn(S, D) \subseteq S
  BY <1>2 DEF CascadeIn, ReferringIn
<1>4. R \ gone = S \ CascadeIn(S, D)
  BY <1>1
<1>5. KeysIn(S \ CascadeIn(S, D))
  BY <1>1, <1>2, DeletionKeepsKeys
<1>6. KeysIn(R \ gone)
  BY <1>4, <1>5
<1>7. gone \subseteq R
  BY <1>1, <1>3
<1>8. CASE AccountOK(q, R)
  <2>1. q \in AccountJobs /\ q.kind = "account" /\ q.step \in 1 .. 11
    BY <1>8 DEF AccountOK, AccountJobs, Deleting
  <2>2. R = q.found => EmptyByNow(R \ gone, q.step + 1)
    <3>1. SUFFICES ASSUME R = q.found PROVE EmptyByNow(R \ gone, q.step + 1)
      OBVIOUS
    <3>2. EmptyByNow(S, q.step)
      BY <1>8, <3>1 DEF AccountOK
    <3>3. D = TableIn(S, AccountOrder[q.step])
      BY <2>1 DEF TargetsOf
    <3>4. EmptyByNow(S \ CascadeIn(S, D), q.step + 1)
      BY <2>1, <3>2, <3>3, DeletedTableIsEmpty
    <3>5. QED
      BY <1>4, <3>4
  <2> HIDE DEF gone
  <2>3. /\ new \in AccountJobs /\ new.gone = gone /\ new.step = q.step + 1
        /\ new.found = q.found
    <3>1. new = Moved(q, gone)
      BY DEF gone
    <3>2. gone \in SUBSET Rows
      BY <1>7
    <3>3. QED
      BY <2>1, <3>1, <3>2, AccountJobMoves
  <2>4. AccountOK(new, R)
    BY <2>2, <2>3 DEF AccountOK
  <2>5. QED
    BY <1>1, <1>6, <1>7, <2>3, <2>4 DEF JobOK
<1>9. CASE ResetOK(q, R)
  <2>1. /\ q \in ResetJobs /\ q.kind = "reset" /\ q.step \in 7 .. 11
        /\ q.ids \subseteq ReachIn(R, q.month) /\ q.gone \subseteq ReachIn(R, q.month)
    BY <1>9 DEF ResetOK, ResetJobs, Deleting
  <2>2. D = TargetsIn(S, q.ids, ResetStatements[q.step])
    BY <2>1 DEF TargetsOf
  <2>3. gone \subseteq ReachIn(R, q.month)
    <3>1. CascadeIn(S, D) \subseteq ReachIn(R, q.month)
      BY <2>1, <2>2, ResetDeletesReach
    <3>2. QED
      BY <2>1, <3>1
  <2>4. R = q.found => /\ IdsRead(R, q.month, q.ids, q.step + 1)
                       /\ GoneByNow(R, q.month, gone, q.step + 1)
    <3>1. SUFFICES ASSUME R = q.found
                   PROVE  /\ IdsRead(R, q.month, q.ids, q.step + 1)
                          /\ GoneByNow(R, q.month, gone, q.step + 1)
      OBVIOUS
    <3>2. IdsRead(R, q.month, q.ids, q.step) /\ GoneByNow(R, q.month, q.gone, q.step)
      BY <1>9, <3>1 DEF ResetOK
    <3>3. IdsRead(R, q.month, q.ids, q.step + 1)
      BY <2>1, <3>2 DEF IdsRead
    <3>4. GoneByNow(R, q.month, gone, q.step + 1)
      BY <1>1, <2>1, <2>2, <3>2, DeletesAreComplete
    <3>5. QED
      BY <3>3, <3>4
  <2> HIDE DEF gone
  <2>5. /\ new \in ResetJobs /\ new.gone = gone /\ new.step = q.step + 1
        /\ new.found = q.found /\ new.ids = q.ids /\ new.month = q.month
    <3>1. new = Moved(q, gone)
      BY DEF gone
    <3>2. gone \in SUBSET Rows /\ q.step \in 1 .. 11
      BY <1>7, <2>1
    <3>3. QED
      BY <2>1, <3>1, <3>2, ResetJobMoves
  <2>6. ResetOK(new, R)
    <3>1. new.ids \subseteq ReachIn(R, new.month) /\ new.gone \subseteq ReachIn(R, new.month)
      BY <2>1, <2>3, <2>5
    <3>2. R = new.found => /\ IdsRead(R, new.month, new.ids, new.step)
                           /\ GoneByNow(R, new.month, new.gone, new.step)
      BY <2>4, <2>5
    <3>3. ~(new.step < 7)
      BY <2>1, <2>5
    <3>4. QED
      BY <2>5, <3>1, <3>2, <3>3 DEF ResetOK
  <2>7. QED
    BY <1>1, <1>6, <1>7, <2>5, <2>6 DEF JobOK
<1>10. QED
  BY <1>8, <1>9 DEF JobOK

-----------------------------------------------------------------------------
(* The steps *)

LEMMA StepsLeft ==
    ASSUME NEW q, q = job, NEW R \in SUBSET Rows, JobOK(q, R)
    PROVE  /\ Len(Statements) = 11 /\ q.step \in 1 .. 12
           /\ Deletes => Deleting(q)
           /\ q.kind = "account" => Statements = AccountOrder
           /\ q.kind = "reset" => Statements = ResetStatements
<1>1. q.step \in 1 .. 12 /\ q.kind \in {"account", "reset"}
  BY DEF JobOK, AccountOK, ResetOK, AccountJobs, ResetJobs
<1>2. q.kind = "account" => Statements = AccountOrder
  BY DEF Statements
<1>3. q.kind = "reset" => Statements = ResetStatements
  BY DEF Statements, ResetStatements
<1>4. Len(Statements) = 11
  BY <1>1, <1>2, <1>3, AccountTables, ResetTables
<1>5. Deletes => Deleting(q)
  <2>1. SUFFICES ASSUME Deletes PROVE Deleting(q)
    OBVIOUS
  <2>2. q.step <= 11 /\ (q.kind = "reset" => q.step > 6)
    BY <1>4, <2>1, ResetTables DEF Deletes
  <2>3. QED
    BY <1>1, <2>2 DEF Deleting
<1>6. QED
  BY <1>1, <1>2, <1>3, <1>4, <1>5

\* The rows the next delete aims at, and what becomes of it, from the committed rows.
LEMMA TargetsAre ==
    ASSUME NEW q, q = job, NEW R \in SUBSET Rows, R = rows, JobOK(q, R), Deletes
    PROVE  /\ Targets = TargetsOf(q, R)
           /\ IsRefused(Targets) <=> RefusedIn(R \ q.gone, TargetsOf(q, R))
           /\ Cascading(Targets) = CascadeIn(R \ q.gone, TargetsOf(q, R))
<1>1. Seen = R \ q.gone
  BY DEF Seen
<1>2. q.kind \in {"account", "reset"}
  BY DEF JobOK, AccountOK, ResetOK, AccountJobs, ResetJobs
<1>3. Targets = TargetsOf(q, R)
  <2>1. CASE q.kind = "account"
    <3>1. Statements = AccountOrder
      BY <2>1, StepsLeft
    <3>2. Targets = Seen \cap InTable(AccountOrder[q.step]) \cap Rows
      BY <2>1, <3>1 DEF Targets
    <3>3. QED
      BY <1>1, <2>1, <3>2 DEF TargetsOf, TableIn, InTable
  <2>2. CASE q.kind = "reset"
    <3>1. Statements = ResetStatements
      BY <2>2, StepsLeft
    <3>2. Targets = Seen \cap InTable(ResetStatements[q.step]) \cap q.ids
      BY <2>2, <3>1 DEF Targets
    <3>3. QED
      BY <1>1, <2>2, <3>2 DEF TargetsOf, TargetsIn, InTable
  <2>3. QED
    BY <1>2, <2>1, <2>2
<1>4. QED
  BY <1>1, <1>3, InSeen

\* Every step keeps the invariant.
LEMMA ErasureStep ==
    ASSUME ErasureInv, [ErasureNext]_erasureVars
    PROVE  ErasureInv'
<1>1. PICK R : R = rows
  OBVIOUS
<1>2. PICK q : q = job
  OBVIOUS
<1>3. R \in SUBSET Rows /\ KeysIn(R) /\ (job # None => JobOK(q, R))
  BY <1>1, <1>2 DEF ErasureInv
<1>4. ASSUME NEW new, new = job', rows' = R, JobOK(new, R)
      PROVE  ErasureInv'
  BY <1>3, <1>4 DEF ErasureInv
<1>5. ASSUME job' = None, rows' = R
      PROVE  ErasureInv'
  BY <1>3, <1>5 DEF ErasureInv
<1>6. ASSUME StartAccountDeletion PROVE ErasureInv'
  <2>1. PICK new : new = job'
    OBVIOUS
  <2>2. JobOK(new, R) /\ rows' = R
    <3>1. rows' = R /\ new = [kind |-> "account", step |-> 1, gone |-> {}, found |-> R]
      BY <1>1, <1>6, <2>1 DEF StartAccountDeletion
    <3>2. QED
      BY <1>3, <3>1, AccountStarts
  <2>3. QED
    BY <1>4, <2>1, <2>2
<1>7. ASSUME StartReset PROVE ErasureInv'
  <2>1. PICK new : new = job'
    OBVIOUS
  <2>2. JobOK(new, R) /\ rows' = R
    <3>1. PICK m \in Months :
             new = [kind |-> "reset", month |-> m, step |-> 1, ids |-> {}, gone |-> {},
                    found |-> R]
      BY <1>1, <1>7, <2>1 DEF StartReset
    <3>2. rows' = R
      BY <1>1, <1>7 DEF StartReset
    <3>3. QED
      BY <1>3, <3>1, <3>2, ResetStarts
  <2>3. QED
    BY <1>4, <2>1, <2>2
<1>8. ASSUME ReadIds PROVE ErasureInv'
  <2>1. PICK new : new = job'
    OBVIOUS
  <2>2. /\ JobOK(q, R) /\ q.kind = "reset" /\ q.step <= 6 /\ rows' = R
        /\ new = Knows(q, q.ids \cup Read(ResetReads[q.step], q.ids, q.month))
    BY <1>1, <1>2, <1>3, <1>8, <2>1, ResetTables DEF ReadIds, Knows
  <2>3. q.gone = {} /\ q.step \in 1 .. 6
    BY <2>2 DEF JobOK, AccountOK, AccountJobs, ResetOK, ResetJobs
  <2>4. R = Seen
    BY <1>1, <1>2, <2>3 DEF Seen
  <2>5. Read(ResetReads[q.step], q.ids, q.month) = ReadAt(q.step, R, q.ids, q.month)
    BY <1>3, <2>3, <2>4, ReadIs
  <2>6. new = Knows(q, q.ids \cup ReadAt(q.step, R, q.ids, q.month))
    BY <2>2, <2>5
  <2>7. JobOK(new, R)
    BY <1>3, <2>2, <2>6, ReadKeepsJob
  <2>8. QED
    BY <1>4, <2>1, <2>2, <2>7
<1>9. ASSUME DeleteTable PROVE ErasureInv'
  <2>1. PICK new : new = job'
    OBVIOUS
  <2>2. /\ JobOK(q, R) /\ Deletes /\ ~IsRefused(Targets) /\ rows' = R
        /\ new = Moved(q, q.gone \cup Cascading(Targets))
    BY <1>1, <1>2, <1>3, <1>9, <2>1 DEF DeleteTable, Deletes, Moved
  <2>3. Deleting(q)
    BY <1>2, <1>3, <2>2, StepsLeft
  <2>4. /\ ~RefusedIn(R \ q.gone, TargetsOf(q, R))
        /\ Cascading(Targets) = CascadeIn(R \ q.gone, TargetsOf(q, R))
    BY <1>1, <1>2, <1>3, <2>2, TargetsAre
  <2>5. new = Moved(q, q.gone \cup CascadeIn(R \ q.gone, TargetsOf(q, R)))
    BY <2>2, <2>4
  <2>6. JobOK(new, R)
    BY <1>3, <2>2, <2>3, <2>4, <2>5, DeleteKeepsJob
  <2>7. QED
    BY <1>4, <2>1, <2>2, <2>6
<1>10. ASSUME RollBack PROVE ErasureInv'
  BY <1>1, <1>5, <1>10 DEF RollBack
<1>11. ASSUME CommitErasure PROVE ErasureInv'
  <2>1. JobOK(q, R) /\ rows' = R \ q.gone /\ job' = None
    BY <1>1, <1>2, <1>3, <1>11 DEF CommitErasure, Seen
  <2>2. KeysIn(R \ q.gone)
    BY <2>1 DEF JobOK
  <2>3. QED
    BY <1>3, <2>1, <2>2 DEF ErasureInv
<1>12. ASSUME Stop PROVE ErasureInv'
  BY <1>1, <1>5, <1>12 DEF Stop
<1>13. ASSUME NEW w \in Writes, Write(w) PROVE ErasureInv'
  <2>1. w \in SUBSET Rows
    BY RowsAssumption
  <2>2. rows' = R \cup w /\ job' = q /\ w \cap R = {}
    BY <1>1, <1>2, <1>13 DEF Write
  <2>3. \A r \in w : Refs[r] \subseteq (IF job = None THEN R ELSE R \ q.gone) \cup w
    BY <1>1, <1>2, <1>13 DEF Write, Seen
  <2>4. \A r \in w : Refs[r] \subseteq R \cup w
    BY <2>3
  <2>5. KeysIn(R \cup w)
    BY <1>3, <2>4 DEF KeysIn
  <2>6. CASE job = None
    BY <1>2, <1>3, <2>1, <2>2, <2>5, <2>6 DEF ErasureInv
  <2>7. CASE job # None
    <3>1. \A r \in w : Refs[r] \subseteq (R \ q.gone) \cup w
      BY <2>3, <2>7
    <3>2. JobOK(q, R \cup w)
      BY <1>3, <2>1, <2>2, <2>7, <3>1, WriteKeepsJob
    <3>3. R \cup w \in SUBSET Rows
      BY <1>3, <2>1
    <3>4. QED
      BY <2>2, <2>5, <3>2, <3>3 DEF ErasureInv
  <2>8. QED
    BY <2>6, <2>7
<1>14. ASSUME UNCHANGED erasureVars PROVE ErasureInv'
  BY <1>14 DEF ErasureInv, erasureVars
<1>15. QED
  BY <1>6, <1>7, <1>8, <1>9, <1>10, <1>11, <1>12, <1>13, <1>14 DEF ErasureNext, Erase

(* Whatever is written meanwhile, every committed row refers to rows that  *)
(* are there, and an erasure stays within what its step accounts for.      *)
THEOREM ErasureInvariant == ErasureSpec => []ErasureInv
<1>1. ErasureInit => ErasureInv
  BY DEF ErasureInit, ErasureInv, KeysIn
<1>2. ErasureInv /\ [ErasureNext]_erasureVars => ErasureInv'
  BY ErasureStep
<1>3. QED
  BY <1>1, <1>2, PTL DEF ErasureSpec

(* Left alone, no statement of an erasure is refused: the order of the     *)
(* tables and the ids a reset reads respect every foreign key, for any     *)
(* rows (AloneNeverRefused).                                               *)
THEOREM ErasuresSucceedAlone == ErasureSpec => []AloneNeverRefused
<1>1. ErasureInv => AloneNeverRefused
  <2>1. SUFFICES ASSUME ErasureInv, Deletes, IsRefused(Targets), rows \subseteq job.found
                 PROVE  FALSE
    BY DEF AloneNeverRefused
  <2>2. PICK R : R = rows
    OBVIOUS
  <2>3. PICK q : q = job
    OBVIOUS
  <2>4. R \in SUBSET Rows /\ JobOK(q, R) /\ R \subseteq q.found
    BY <2>1, <2>2, <2>3 DEF ErasureInv, Deletes
  <2>5. Deleting(q) /\ RefusedIn(R \ q.gone, TargetsOf(q, R))
    BY <2>1, <2>2, <2>3, <2>4, StepsLeft, TargetsAre
  <2>6. QED
    BY <2>4, <2>5, AloneIsNotRefused
<1>2. QED
  BY <1>1, ErasureInvariant, PTL

\* After the last delete the whole reach is gone.
LEMMA AllOfTheReachIsGone ==
    ASSUME NEW R \in SUBSET Rows, NEW m, NEW gone, GoneByNow(R, m, gone, 12)
    PROVE  ReachIn(R, m) \subseteq gone
BY DEF GoneByNow, ReachIn

(* A reset that commits takes nothing outside its month's reach, and all   *)
(* of it when nothing was added meanwhile (ResetTakesItsMonth).            *)
THEOREM ResetsTakeTheirMonth == ErasureSpec => ResetTakesItsMonth
<1> DEFINE Takes ==
      (job # None /\ job.kind = "reset" /\ CommitErasure) =>
          LET taken == rows \ rows'
          IN  /\ taken \subseteq ResetReach(job.month)
              /\ rows \subseteq job.found => taken = ResetReach(job.month)
<1>1. ErasureInv /\ [ErasureNext]_erasureVars => [Takes]_erasureVars
  <2>1. SUFFICES ASSUME ErasureInv, job # None, job.kind = "reset", CommitErasure
                 PROVE  /\ rows \ rows' \subseteq ResetReach(job.month)
                        /\ rows \subseteq job.found =>
                              rows \ rows' = ResetReach(job.month)
    OBVIOUS
  <2>2. PICK R : R = rows
    OBVIOUS
  <2>3. PICK q : q = job
    OBVIOUS
  <2>4. R \in SUBSET Rows /\ JobOK(q, R) /\ q.kind = "reset"
    BY <2>1, <2>2, <2>3 DEF ErasureInv
  <2>5. ResetOK(q, R) /\ q.gone \subseteq R /\ q.found \subseteq R
    BY <2>4 DEF JobOK, AccountOK, AccountJobs
  <2>6. q.step = 12
    <3>1. q.step > 11 /\ q.step \in 1 .. 12
      BY <2>1, <2>3, <2>4, StepsLeft DEF CommitErasure
    <3>2. QED
      BY <3>1
  <2>7. rows \ rows' = q.gone
    <3>1. rows' = R \ q.gone
      BY <2>1, <2>2, <2>3 DEF CommitErasure, Seen
    <3>2. QED
      BY <2>2, <2>5, <3>1
  <2>8. ResetReach(job.month) = ReachIn(R, q.month)
    BY <2>2, <2>3, <2>4, ReachIs
  <2>9. q.gone \subseteq ReachIn(R, q.month)
    BY <2>5 DEF ResetOK
  <2>10. R \subseteq q.found => ReachIn(R, q.month) \subseteq q.gone
    <3>1. SUFFICES ASSUME R \subseteq q.found
                   PROVE  ReachIn(R, q.month) \subseteq q.gone
      OBVIOUS
    <3>2. GoneByNow(R, q.month, q.gone, 12)
      BY <2>5, <2>6, <3>1 DEF ResetOK
    <3>3. QED
      BY <2>4, <3>2, AllOfTheReachIsGone
  <2>11. QED
    BY <2>2, <2>3, <2>7, <2>8, <2>9, <2>10
<1>2. QED
  BY <1>1, ErasureInvariant, PTL DEF ErasureSpec, ResetTakesItsMonth

====
