------------------------------ MODULE MCStartup ------------------------------
(* Databases of older releases to start on. *)
EXTENDS Startup

OldAges ==
    {{}, Tables, {"transactions"}, {"wealth_accounts", "wealth_snapshots"},
     {"owed_items", "owed_payments", "owed_payment_allocations"},
     {"investment_events", "import_batches"}}

OldAbsences ==
    {{}, Tables, {"owed_item_events", "import_previews", "pending_signups"},
     {"wealth_accounts", "wealth_snapshots", "transaction_categories",
      "user_preferences"}}
=============================================================================
