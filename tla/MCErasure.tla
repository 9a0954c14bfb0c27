------------------------------- MODULE MCErasure -------------------------------
(* One import batch with a transaction and an investment event it funds, an *)
(* item owed for the transaction, a repayment of another month that settles *)
(* that item and a manual one, a wealth account with a snapshot.            *)
EXTENDS Erasure

MCTableOf ==
    [batch |-> "import_batches", preview |-> "import_previews", spent |-> "transactions",
     repaid |-> "transactions", buy |-> "investment_events", item |-> "owed_items",
     manual |-> "owed_items", itemEvent |-> "owed_item_events", payment |-> "owed_payments",
     share |-> "owed_payment_allocations", rest |-> "owed_payment_allocations",
     category |-> "transaction_categories", account |-> "wealth_accounts",
     snapshot |-> "wealth_snapshots"]

MCRows == DOMAIN MCTableOf

MCMonthOf ==
    [r \in MCRows |-> IF r \in {"repaid", "payment"} THEN 2 ELSE 1]

MCRefs ==
    [r \in MCRows |->
        CASE r = "spent"     -> {"batch"}
          [] r = "buy"       -> {"batch", "spent"}
          [] r = "item"      -> {"spent"}
          [] r = "itemEvent" -> {"item"}
          [] r = "payment"   -> {"repaid"}
          [] r = "share"     -> {"payment", "item"}
          [] r = "rest"      -> {"payment", "manual"}
          [] r = "snapshot"  -> {"account", "batch"}
          [] OTHER           -> {}]

MCWrites ==
    { {"preview", "category"}, {"batch", "spent"}, {"buy"}, {"repaid"}, {"item", "itemEvent"},
      {"manual"}, {"payment", "share"}, {"payment", "share", "rest"}, {"account"}, {"snapshot"} }
=============================================================================
