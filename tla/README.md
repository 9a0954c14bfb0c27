# Vault: a verification project in TLA+

Vault (`src/`) is a personal finance application: a FastAPI and SQLAlchemy
backend (`src/backend/app`), a React client (`src/frontend`) and a Caddy front
on a home server (`src/deploy`). It records transactions, what other people owe
the user, investments and account balances, imports bank and broker statements,
and draws charts of wealth over time.

This directory holds TLA+ models of its core, the TLC configurations that check
them, and proofs checked by TLAPS. Every definition that stands for code names
its lines in `PROJECT.json` under `map`; the hazards the properties answer, each
at its line, are under `hazards`.

1. [The system](#1-the-system)
2. [How it executes](#2-how-it-executes)
3. [Modules and code](#3-modules-and-code)
4. [Runs, bounds, and what they show](#4-runs-bounds-and-what-they-show)
5. [Proofs](#5-proofs)
6. [Where the code and its own statements differ](#6-where-the-code-and-its-own-statements-differ)
7. [What is not modelled](#7-what-is-not-modelled)
8. [Plan](#8-plan)

## 1. The system

| Component | State | Operations | Correct when | Model |
|---|---|---|---|---|
| Owed ledger (`owed_service`, `owed_repository`) | owed items, repayments, allocations, event log | create, edit, soft-delete an item; record a repayment (automatic or with allocations), delete it; rename a person | money is conserved; deleted items stay frozen; every change leaves an event; overlapping requests lose no repayment | `OwedLedger`, `OwedOverlap` |
| Owed integrity (`owed_integrity_service`) | the same | check, repair | a repair settles what it touches | `OwedLedger` |
| Wealth chart (`wealth_service`) | accounts, snapshots; reads the owed log | monthly totals; edit accounts and snapshots | replayed past agrees with the rows, and is not rewritten | `OwedReplay` (owed part) |
| Transactions and financial commands (`transaction_service`, `financial_command_service`) | transactions, links to owed rows | create with owed rows or a repayment; split; edit; preview a deletion and confirm it | no link dangles; what is deleted is what was shown; nothing paid is deleted | `TransactionLinks` |
| Statement import (`import_service`, `import_preview_binding_service`, `dedupe_service`) | previews, batches, imported rows | preview, commit, roll back | a preview is spent once, on what it showed; a rollback takes its own rows only | `Imports` |
| Legacy workbook import (`legacy_excel_import_service`) | batches, rows, accounts | preview, commit | as above, without a stored preview | `Imports` (partly) |
| Investment events (`investment_event_service`, its two validations) | events, links to transactions | create, import, roll back, reset | sales stay covered; a transaction funds one event | `Investments` |
| Cost basis, valuation, cash flow (`investment_cost_basis`, `investment_valuation_service`, `investment_cashflow_service`) | none, they read events and prices | positions, series, month | the books close; chart, list and summary agree | `Portfolio` |
| Exchange rates (`import_fx_resolution_service`, `pending_fx_resolution_service`) | rates of events | resolve the rows of a file; find and write pending rates | a resolved day has a value; an event is priced once, for its own day | `Investments`, `Imports` |
| Market prices (`market_price_service`) | latest price, daily history | fetch and store either | fetched days are served; no newer price is lost without an overlap | `MarketPrices` |
| Categories and rules (`transaction_category_service`, `cashflow_rule_service`, `description_rule_service`) | categories, rules; fields of transactions | create, edit, delete, replace, migrate; apply rules | what is filed stays filed; no twins; rules settle | `Labels` |
| Month reset, account deletion (`admin_reset_service`, `account_deletion_service`) | all tables | delete a month, delete a user | the order respects the foreign keys; a month and nothing else | `Erasure` |
| Rate limiter (`security/rate_limit`) | buckets per policy and user | check | a bound on any span of time; refusals end | `RateLimiter`, `Throttle` |
| Start-up and schema migrations (`database`, `database_migrations`, `database_foreign_key_migrations`, `database_pending_signup_migrations`) | the schema and old rows | one start, statement by statement | a start that ends serves the current schema, and one does end | `Startup` |
| Trip savings, preferences | one row per user, monthly allocations | get or create, update | past months keep their goal | not modelled |
| Access (session, sign-up requests) | requests for access | request, approve, deny | one request per address | not modelled |
| Web client | cache of historical data | load, force, invalidate | an old answer never replaces a new one | not modelled |
| Summary, export, exchange match preview | none | reads | | not modelled |
| Parsers, upload checks, logging, health, configuration, scripts, deployment | | | | not modelled |

The components share one database. The owed ledger reads transactions (capacity
and direction of a link), the financial commands call the owed service inside
their own database transaction, imports insert transactions, events, owed items
and snapshots, and the wealth chart reads what the others wrote. Investment
events point at transactions, so a deletion or a reset unlinks them; the
valuation joins events with stored prices; rules and categories rewrite
columns of transactions. The limiter is the one part that keeps its state in memory.

What is hard to test here: sequences of edits, repayments and reversals that
leave amounts, rows and log out of step; requests that overlap on one row, or fall
between a preview and its confirmation; races for one preview or one row; a rollback made of
several commits; event dates in the past and the future; provider answers that
change between two reads or are written out of order; a start that is cut off
between two statements; three ways to compute one amount. `PROJECT.json` lists
them under `hazards`, with the properties that answer each.

## 2. How it executes

* **Handlers.** Most handlers are plain functions run in a thread pool, so two
  requests can overlap between their database statements. PostgreSQL runs at
  READ COMMITTED and no handler locks the rows it reads: it computes amounts in
  Python and writes them. An UPDATE waits for whoever wrote the row last, and
  SQLAlchemy updates the changed columns only.
* **Imports.** The preview and commit handlers are coroutines that never wait
  after the upload is read. On one event loop they run one after the other; the
  production image starts one worker (`src/backend/Dockerfile`), and the models
  use a second loop for a deployment with two.
* **Transactions.** An owed request or a financial command commits once, at its
  end, and rolls back on an error. A refused request is therefore a step that
  is not taken. The rollback of a batch commits once per table.
* **Restarts.** SQLite commits a CREATE, ALTER or DROP at once, so a start that
  is killed leaves any prefix of its statements behind; PostgreSQL is migrated by
  Alembic before the release starts. Previews survive a restart, buckets of the
  limiter do not.
* **Providers** of prices and rates are asked outside any database transaction
  and may fail, or answer differently the next time.
* **Order.** All readers of the event log sort by `(effective_date, id)` and
  use the last event up to some date.

## 3. Modules and code

**`OwedLedger`**: the ledger of one user, one action per request of
`routers/owed.py`, each the whole handler from its guards to its commit.
`items`, `payments` (each with its allocations), `log`, `txs` and `today` are
the tables and the server's UTC date.

* Ids are handed out in increasing order, and the automatic repayment walks
  items by id, so `ItemIds` are numbers. Amounts are whole cents up to `MaxAmount`.
* A person's label is a pair of a person and a spelling: the code compares
  labels by their trimmed lower case (`list_person_name_variants`) and keeps the
  spelling, so equality of the first components is its comparison.
* The log keeps one event per item and date, the last one written for it: the
  readers above see nothing else.
* The allocation loop of `record_payment` is written as what it computes
  (`AutoAllocation`: what is left when the walk reaches an item). The
  guards of `_allocate_to_owed_item` and the CHECK on allocations stay guards.
  `AutoAllocationOldestFirst` checks the function against a statement of its purpose.
* `UpdateItem` keeps the two ways a status is chosen (sent by the client or
  recomputed) and the fallback to the old link in the capacity check.
* A deleted item keeps its link and its dedupe hash, as in `soft_delete`.

**`OwedOverlap`** extends it with the requests in flight (`open`), each made
once. A request has two or three steps: what its SELECTs read, in their order,
and its commit with every write it makes (`Commit`: the changed columns over the
current row, the CHECK constraints, the events, the repayment). Writes and commit are
one step because their row locks last until the commit; the label update with
which a repayment starts is a step of its own, and its locks are kept in
`reserved`. The reversal reads the repayment first and its items afterwards; all
its items are read in one step, and lock waits that end in a deadlock are
refused requests (`Abort`). Creating an item is one step, since it writes no
existing row; a person has one spelling and is not renamed.

**`OwedReplay`** extends it with what `get_monthly_totals` and
`get_active_remaining_total` read. A date of the model is a date the chart
values: the end of a month, or today.

**`TransactionLinks`** extends `OwedLedger` with `gone` (deleted transaction
ids) and `preview` (the deletion preview the client holds), and composes every
owed request with the transaction service and the financial commands. The
relationship version is the record of the rows the code hashes; the hash is
taken to be injective. The code also hashes update times to the microsecond, so
it refuses in more cases than the model does, never in fewer.

**`Imports`** splits the import handlers at their reads and their commit and the
rollback at its commits. A row is its content, which is what its dedupe hash
identifies. `request[l]` is the import an event loop is serving, `rollback[d]`
the deletion a thread is serving. `Validate` and `WriteBatch` are two steps:
the checks of `validate_and_claim_commit`, and the conditional update that
claims the preview together with the batch and its rows, which are one
database transaction. `pinned` are the rows that linked items, repayments or
allocations refer to; `Unpin` may release any of them at any time, which is more
than the program does. `ChangeRate` is the external provider. Abstractions:

* one rate stands for all foreign rows; a deposit without a funding match, which
  may stay without a rate, counts as a row that needs none;
* empty files, and several equal rows in one file, are left out;
* an investment event or a transaction made by hand carries no hash in this
  application's client, so it never conflicts with an import;
* of a workbook, the transaction and owed sheets are one request and the wealth
  sheet another, as in the two endpoints; accounts made for the wealth sheet and
  its duplicates by account and date are left out.

**`Portfolio`** is what the program computes from events and prices, as
operators without state: the sell timeline (`TimelineAccepted`), average cost
(`Bucket`, a fold over the trades in order), holdings, the price of a day with its
carry-forward, historical and latest rates, the monthly series, the list of
positions and the cash of a month. A missing number is 0, since the code treats
both alike; sums are over functions, whatever their order; decimals are exact fractions, and the rounding of results to cents is
left out. `Readable` holds when no sale exceeds its bucket, which is when
`build_average_cost_positions` does not raise.

**`Investments`** extends it with what writes events: a creation, whose check
(`CheckEvent`) and insert (`CommitEvent`) are two steps; an import of new rows
with the rates of their days, and its rollback; the resolution of pending rates,
which asks the provider between its read (`FindRates`) and its commit
(`WriteRates`, which does not look again at the events it writes, and writes nothing
when a row is gone), so that two of them may overlap; deleted transactions
and reset months, which remove or unlink events.

**`MarketPrices`** takes a fetch apart at the provider's answer, the lookup of a
row and each commit; another fetch may come between any two of these. Rows are found by
ticker or by ISIN, so two instruments may meet in one row. `overtaken` are the fetches
after whose answer another one stored its own, which the property allows for. The tables
have the shape `Portfolio` values with.

**`Labels`** has categories, both families of rules and the columns of transactions
they concern. A request reads and checks when it starts and commits in a second
step; `stale` records the requests that others overtook, which the properties
allow for. A name and its spelling are told apart (`Folded`) because the usage
count compares exactly and the search for a category ignores case. Imports may
have stored categories nobody validated (`StoredTransactions`).

**`Erasure`** runs a month reset (six reads of ids, five deletions) or an account
deletion (eleven tables in the reversed order of `recovery_registry.py`) one statement at a time
under READ COMMITTED, with the foreign keys as they act: cascade, set null or
restrict. `Write` is another tab; `Stop` a crash, which the database rolls back.
Tables that nothing refers to are
represented by two. `ForeignKeys` lists which tables refer to which, as the models
declare it; every instance is checked against it (`RowsAssumption`).

**`Throttle`** says what any rate limit promises: at most `Bound` admissions per key
in any `Span` units of time. **`RateLimiter`** is the code: buckets, the clock read
before the lock (`Ask`), the lock (`Check`), `Restart`. Times are relative to now,
so time is unbounded. It implements `Throttle` with twice the requests of the
policy (a fixed window admits a bucket at its end and another right after) and
`Span = Window - MaxDelay`: with the whole window as the span the refinement
fails, because a thread that waited applies an old time.

**`Startup`** is `initialise_database`: `create_all` and then the migrations in the
order of `run_startup_migrations`, each statement a step, on databases of older
releases (`OldDatabase`: which tables were there, which columns, types,
indexes, keys). `noted` is what the running migration remembers between its own
statements. PostgreSQL runs its one normalisation. Non-unique indexes are left out.

The theorems are in modules of their own, each of which extends the modules it is
about: **`OwedLedgerProofs`** (shapes and balances of `OwedLedger`, and `OwedOverlap`),
**`OwedMoneyProofs`** (sums; `OwedReplay` and `TransactionLinks`), **`ImportsProofs`**,
**`PortfolioProofs`** (`MarketPrices`, `Portfolio` and `Investments`), **`LabelsProofs`**,
**`ErasureProofs`**, **`RateLimiterProofs`** and **`StartupProofs`**. The **`MC...`**
modules give symmetry sets, constraints, and the values of constants that a configuration
cannot write.

## 4. Runs, bounds, and what they show

| Run | Module | Instance | Shows |
|---|---|---|---|
| `OwedPayments` | `MCOwedLedger` | 1 person, 2 items, 2 repayments, 1 transaction, amounts 1..2 | `AutoAllocationOldestFirst`, `AutomaticPaymentAccepted`, `DeletedItemsFrozen`, `MoneyConserved`, `LinksStayWithinTransaction` |
| `OwedHistory` | `MCOwedReplay` | 2 people with 2 spellings, 1 item, 2 repayments, 2 dates | `RepairSettles`, `CleanLogReplaysToday`, `PastKeepsValue`, `PaymentUnifiesLabels` |
| `OwedOverlap` | `MCOwedOverlap` | 3 requests, 1 item of amount 1, 2 repayments, 2 dates | `IssuesAreRepairable`, `LoneRequestIsAtomic`, `RepaymentsNeverLost` |
| `TransactionLinks` | `MCTransactionLinks` | 2 transactions, 2 items, 1 repayment, every request and command | `LinksResolve`, `DeletionMatchesPreview`, `NoPaidItemSwept`, `ChangesLogged` |
| `ImportCommits` | `MCImports` | 2 event loops, 2 previews, 2 rows, 1 rate or none | `OnlyWhatWasShown`, `PreviewSpentOnce` |
| `ImportRollbacks` | `MCImports` | 1 event loop, 2 deleting threads, 3 rows in 3 tables | `RollbackEmptiesBatch` |
| `Investments` | `MCInvestments` | 2 creations out of 4 forms, 2 resolutions of rates, an import of 4 rows, 1 transaction, 3 days, 2 currencies, 3 price tables | `BooksClose`, `ResolvedDaysAreValued`, `ChartEndsAtPositions`, `MonthsAgree`, `CheckedTradesStayReadable`, `SecondLinkNeedsOverlap`, `RatesWrittenOnce` |
| `MarketPrices` | `MCMarketPrices` | 3 fetches, 3 instruments of one ISIN, 2 days | `FetchedDaysAreServed`, `PricesGoBackOnlyWhenOverlapping` |
| `Labels` | `MCLabels` | 2 requests, up to 2 categories, 2 transactions and 3 rules found, 2 texts | `CategoriesStayFiled`, `TwinsNeedAnOvertakenRequest`, `AppliedRulesSettle`, `LaterChoicesSurvive` |
| `Erasure` | `MCErasure` | 14 rows of 10 tables, 10 writes, 2 months | `AloneNeverRefused`, `ResetTakesItsMonth` |
| `RateLimiter` | `RateLimiter` | 2 keys, 2 threads, 2 requests in a window of 4, a wait of 1 | `KeepsPromise` (refinement of `Throttle`), `AskingGetsIn` (liveness) |
| `Startup` | `MCStartup` | 6 ages and 4 absences of tables, 2 rows, 3 accounts, 2 crashes, both databases | `ServesCurrentSchema`, `BackfilledUnlessCutOff`, `ChoicesOutliveStarts`, `EventuallyServes` (liveness) |

Every property has a mutant: a definition next to the one it replaces, with the
mistake a programmer could make there, which the run refutes (`mutants` in `PROJECT.json`).

Why these bounds are enough to be interesting:

* `OwedPayments`: two items are the fewest for which the order of settlement, a
  partial allocation and a revived cancelled item matter; two repayments let one be
  reversed while another stays. With amounts 1..2 an item can be open, partly
  paid and paid, and a repayment can be too small, exact or too large. The
  constraint `Small` leaves a ledger of three rows only while no row is linked,
  and one of two rows otherwise; its successors are still checked, which is
  where a third row revives a cancelled item. No request sends "open" here: with
  one, `AutomaticPaymentAccepted` fails (section 6).
* `OwedHistory`: two dates give an event before today, on it and after it, one
  at a time; a repayment of yesterday, a due date of tomorrow. A person has two
  labels only after a rename into another person, so there are two people.
  Requests may send "open", so that the repair meets a status that does not
  follow from the amounts.
* `OwedOverlap`: three requests, all of which may be in flight at once, are what a
  lost update and a repair of what it left behind need; items are created besides
  them. `LoneRequestIsAtomic` is what justifies the atomic requests of the other
  owed modules: a request that nothing overlaps is a step of `OwedLedger`.
* `TransactionLinks`: a split needs a money-out transaction and a money-in one.
  States of more than three owed rows and transactions are checked and not left.
* `ImportCommits`: two loops, two previews and two batches let two commits race for
  one preview and two previews race for one row. In `ImportRollbacks` two threads
  delete the same batch or two batches while their rows are imported again. Time 0
  in `ImportCommits` leaves expiry out; `ImportRollbacks` has it.
* `Investments`: the forms include a currency in lower case, a sale before its buy,
  a trade linked twice; the imported rows a pending trade, a sale and a deposit. Two
  creations overlap each other and any import. Two resolutions may find the same events
  before either writes, while the import's rows are rolled back or reset; the quotes lie
  before and between the days of the pending events. The provider gives one rate
  for one day, whenever it is asked. Three days fall into two months.
* `MarketPrices`: two overlapping fetches suffice for a lost row; the third overtakes one
  of them. The instruments share an ISIN, so each lookup may meet another's row. Neither
  property reads the amount of a price, so there is one.
* `Labels`: two requests are one overlap; one category is found in two letter cases.
* `Erasure`: the rows form every kind of reference between the tables, a repayment
  of another month that settles two items among them.
* `RateLimiter`: two requests per bucket tell a full bucket from a started one; a
  window of four and a wait of one leave room for two windows to meet within a span.
* `Startup`: the ages are groups of tables that releases changed together; two
  crashes cut a start off and its repetition.

`MaxAmount`, `MaxDate`, `MaxBatch`, `MaxTime`, `MaxEvents`, `MaxCrashes`, `MaxDelay`
and the sets of ids bound the models only. The runs whose ids or requests are used up
switch deadlock checking off: nothing may be left to do. The import runs,
`Erasure`, `RateLimiter` and `Startup` keep it.

**Fairness.** Most components promise only that what happens is right: every step
is a request of a client that need not come, and the backend has no background
work. Two specifications state fairness.

* `Startup`: weak fairness of `Start` and the statements. A process that runs goes
  on with its next statement, and a backend that went down is started again by
  whoever runs it (an operator; the repository has no supervisor). Crashes are bounded, as a start that
  is always cut off promises nothing. `EventuallyServes` holds with three
  exceptions, which `Blocked` names and section 6 tells.
* `RateLimiter`: weak fairness of `Tick` (the monotonic clock goes on) and of `Check` for
  each thread (a thread that waits for the lock gets it: the lock is held for a
  few dictionary operations only). Asking is left to the user:
  `AskingGetsIn` says that whoever asks again and again is let in again and again.

## 5. Proofs

The runs check small instances; TLAPS proves the theorems below for every value of
the constants. Every property that a run checks is a theorem as well, but the two liveness
properties, `AskingGetsIn` and `EventuallyServes`.

| Module | Theorem | Property |
|---|---|---|
| `OwedLedgerProofs` | `LedgerInvariant`, `TypeCorrect`, `AlwaysBalanced`, `NeverOverAllocated` | the inductive invariant, `TypeOK`, `Balanced`, `AllocationsWithinPayment` |
| | `AlwaysRepairable`, `RepairAlwaysSettles` | `IssuesAreRepairable`, `RepairSettles` |
| | `DeletedStayFrozen`, `EveryChangeLogged` | `DeletedItemsFrozen`, `ChangesLogged` |
| | `OverlapInvariant` | the inductive invariant of `OwedOverlap` |
| | `OverlapsStayRepairable`, `RepaymentsAlwaysArrive`, `LoneRequestsAreAtomic` | `IssuesAreRepairable`, `RepaymentsNeverLost`, `LoneRequestIsAtomic` |
| `OwedMoneyProofs` | `AutomaticPaymentsAccepted`, `OldestItemsPaidFirst` | `AutomaticPaymentAccepted`, `AutoAllocationOldestFirst` |
| | `MoneyIsConserved` | `MoneyConserved` |
| | `PaymentsAlwaysWithin`, `LinksAlwaysStayWithin` | repayments never exceed their transaction; `LinksStayWithinTransaction` |
| | `PaymentsUnifyLabels` | `PaymentUnifiesLabels` |
| | `PastAlwaysKept`, `CleanLogAlwaysReplays` | `PastKeepsValue`, `CleanLogReplaysToday` |
| | `LinksInvariant` | the inductive invariant of `TransactionLinks` |
| | `LinksAlwaysResolve`, `DeletionsMatchPreview`, `PaidItemsNeverSwept`, `EveryChangeLoggedWithLinks` | `LinksResolve`, `DeletionMatchesPreview`, `NoPaidItemSwept`, `ChangesLogged` |
| `ImportsProofs` | `ImportInvariant` | the inductive invariant |
| | `RollbackAlwaysEmptiesBatch`, `WritesOnlyWhatWasShown`, `OnePreviewOneImport`, `RollbackAlwaysKeepsOthers` | `RollbackEmptiesBatch`, `OnlyWhatWasShown`, `PreviewSpentOnce`; `RollbackKeepsOthers`: a rollback takes rows of its own batch only (proved, in no run) |
| `PortfolioProofs` | `MarketInvariant` | the inductive invariant of `MarketPrices` |
| | `FetchedDaysStay`, `PricesGoForward` | `FetchedDaysAreServed`, `PricesGoBackOnlyWhenOverlapping` |
| | `EventsInvariant` | the inductive invariant of `Investments` |
| | `RatesAlwaysWrittenOnce` | `RatesWrittenOnce` |
| | `SecondLinksNeedOverlap`, `CheckedTradesRead` | `SecondLinkNeedsOverlap`, `CheckedTradesStayReadable` |
| | `ResolvedDaysValued`, `BooksAlwaysClose` | `ResolvedDaysAreValued`, `BooksClose` |
| | `ChartAlwaysEndsAtPositions`, `MonthsAlwaysAgree` | `ChartEndsAtPositions`, `MonthsAgree` |
| `LabelsProofs` | `LabelsInvariant` | the inductive invariant |
| | `LaterChoicesKept`, `AppliedRulesAreSettled`, `TwinsComeFromOvertakenRequests`, `FiledTransactionsStayFiled` | `LaterChoicesSurvive`, `AppliedRulesSettle`, `TwinsNeedAnOvertakenRequest`, `CategoriesStayFiled` |
| `ErasureProofs` | `ErasureInvariant` | the inductive invariant |
| | `ErasuresSucceedAlone`, `ResetsTakeTheirMonth` | `AloneNeverRefused`, `ResetTakesItsMonth` |
| `RateLimiterProofs` | `LimiterInvariant`, `LimiterKeepsPromise` | the inductive invariant, `KeepsPromise` (the refinement of `Throttle`) |
| `StartupProofs` | `StartInvariant` | the inductive invariant |
| | `AlwaysCurrentSchema`, `AlwaysBackfilled`, `ChoicesAlwaysOutlive` | `ServesCurrentSchema`, `BackfilledUnlessCutOff`, `ChoicesOutliveStarts` |

**From which assumptions.** They are named where the constants are declared, and TLC
evaluates them in every run.

* `OwedLedger`: ids and spellings are numbers, the sets of ids finite, the bounds positive,
  requests send known statuses. `AutomaticPaymentsAccepted` has the hypothesis
  `SentStatuses \cap OpenStatuses = {}`: no edit sends an open status; with one it
  is false (section 6).
* `OwedOverlap`: a person has one spelling (`OneSpellingAssumption`), as the module
  leaves renaming out.
* `Imports`: each row is of one table, and there are finitely many.
* `Labels`: stored rows and what requests ask for have the columns of their tables.
* `Erasure`: rows refer to rows as the foreign keys of the schema allow. Which rows
  there are, and which are written together, is free.
* `RateLimiter`: a policy admits at least one request, and no thread waits for the
  lock as long as a window lasts.
* `Portfolio`: the euro in upper case is in upper case (`CurrencyAssumption`).
* `Investments`: forms have the columns of an event, days and rates are natural numbers,
  amounts are integers, importers leave the links empty (`FormsAssumption`), rates are
  positive, since others are dropped (`QuotesAssumption`), and lookbacks are natural
  numbers (`LookbackAssumption`); stored prices have unique ids (`PricesAssumption`). Which forms, rates, prices and days
  there are is free.
* `MarketPrices`: days are numbers (`MarketAssumption`). The two properties carry the
  hypothesis `OneIsinPerTicker`: with two ISINs for one ticker, one of them another ticker's
  too, a row goes from hand to hand and they are false.
* `Startup`: the rows and accounts are those the migrations tell apart (`StartupAssumption`).
* Wherever `None` joins a set, it is outside it.

**Along which argument.** None of the properties is inductive by itself.

* `LedgerInv` is the types, `Balanced` (paid and remaining add up to the total) and
  `LogComplete` (an item has a history, and only a deleted item's history holds a
  delete event). None of them stands alone. A reversal lowers what is paid by an allocation, and the
  remaining amount stays within the type only because of `Balanced`.
  `IssuesAreRepairable` needs a history that is never empty. The latest event is
  chosen by date, so a delete event of today may be overtaken by a future "created"
  event: the invariant therefore speaks of every event of a live item.
  There is one lemma per request; the requests that rewrite rows share `RewriteKeepsInv`.
  The action properties follow from `StepHandles`, which goes through the requests once.
* The sums of `OwedMoneyProofs` are over finite functions. A recursive function is a
  CHOOSE, and the induction of the library takes a predicate as a parameter, so the
  induction is made over the set of those subsets for which the claim holds:
  a strict subset ordering is well-founded, and a least counterexample has an element to
  take out (`SubsetInduction`). `SumUnfold`, and what changing, adding or dropping a value does to a
  sum, follow, and carry `MoneyConserved` and the capacity of transactions. That an automatic
  repayment is given out oldest item first takes a least set once more: the shortest
  beginning of the walk for which it is wrong would have a last item to take out. What makes one fail, an open item
  with nothing left to pay, is kept out by `OpenMeansOwing`, which is added to `LedgerInv` for
  `AutomaticPaymentsAccepted`.
* `LinksInv` adds to `LedgerInv` that links resolve, and that the preview a client
  holds shows what its version stands for (`PreviewTold`). A step is either one of the
  financial commands or one of `OwedLedger`, whose lemmas are used again.
* `OverlapInv` says for each phase of a request what its rows, read earlier, still have in
  common with the table: little in general, but for a repayment that its
  items are locked, so that their amounts are those read. The balance of an item is not part of
  it, since edits and reversals may overwrite each other (section 6); rows are only known to be
  integers. `AloneInv` says of a request that no commit overlapped that all it has read is
  still there; with it each commit is one action of `OwedLedger`
  with the request's own parameters, which is `LoneRequestIsAtomic`.
* `ImportInv`: ids of batches are drawn once (so that nothing joins a batch that is
  being deleted), a commit past its checks has what its preview showed, and the
  tables a rollback has been through hold no row of the batch. `PreviewSpentOnce` counts:
  the statement batches and the spent previews grow by the same number in each step.
* `LabelsInv`: rows have the shape of their table, and whatever a request in flight
  checked is still true unless another has committed since (`Fresh`, or the request is in `stale`). A
  commit then acts on the tables it has checked.
* `ErasureInv`: every committed row refers to committed rows, before and without those
  the erasure has deleted by then; a reset has read and deleted within the month's reach only; and when no
  row was added, it has read and deleted all of it up to its step, and an
  account deletion has emptied the tables up to its step. Rows that refer to a later table then are gone
  when its turn comes, which is why nothing refuses.
* `LimiterInv` sorts the admissions of a key by the bucket that counted them: the newest
  belong to the present bucket, the `MaxRequests` before them may be one earlier bucket's
  (`OneBucketBefore`) but are older than the present bucket (`OlderThanBucket`), and all
  others are `Span` old. The refinement maps a request that is let in to
  `Admit`, a refused one to a stutter, `Tick` to `Pass`, a restart to `Forget`.
* `MarketInv`: no row lacks an identity or shares its own with another row, a fetch that has
  looked for its row knows it or what has become of it (`Follows`: the same id, and the
  ticker or the ISIN of before), and every day a history fetch has been through
  has a close of that day for its instrument (`Served`), which later updates of that row keep.
* `EventsInv`: ids are unique and below the next one, a request past its check has accepted
  its form against the events it has seen, and a rate found for an id is that of the day of
  the event with that id, which is pending still or has been given this very rate
  (`RatesOK`). The last clause is what lets two resolutions overlap: the last quote up to a
  day is one whatever the span asked for (`RateDayFrom`, `RateDayIsOne`), so the second
  write changes nothing.
* The folds of `Portfolio` are recursive functions too. A least subset without a claim
  (`LeastPart`) shows that they exist and are unique (`FoldsExist`, `FoldsUnique`);
  `SumUnfold`, `BucketUnfold` and `TotalOver` follow for sums, average cost and totals of
  fractions.
  * `CheckedTradesRead`: the check looks at the trades of one identity key, average cost at those
    of one bucket. When nothing is spelt in two ways these are the same trades, and a sale that
    the earlier ones cover never raises (`CoveredTradesFit`).
  * `BooksAlwaysClose`: `Closed` says of the trades so far and their bucket that the equation
    holds, that an empty bucket is without cost, and that the average is between two buys'
    prices. Each trade keeps it, in the order of the fold (`BuyCloses`, `SaleCloses`). The
    equation alone would not survive the last sale, which sets the cost to zero rather than
    subtracting: that the cost allocated to it is all that is left is arithmetic of its own
    (`LastSaleBalanced`).
  * `ChartAlwaysEndsAtPositions`: the chart adds all costs up and subtracts once, the list
    subtracts position by position. Fractions that are not reduced do not add up to one pair of
    numbers in two orders, so all of them are put over a common denominator
    (`CommonDenominator`), where the totals are sums of integers (`GainsAddUp`). What has an
    open bucket is held (`OpenIsHeld`), because the books close. The rates are the same because
    no day has two.
* `StartInv` says for every kind of statement what it leaves behind (`Left`), that no later
  statement of the script undoes it, and hence that before each statement all of those
  before it hold, on a database of any age; `noted` is what the running rebuild still has to do.
  A crash between two statements loses the place and not the schema. `ChoiceInv` adds that once
  a user has chosen a value source its column is there, so that no later start takes itself
  for the one that adds and fills it.

**Only model-checked.** Liveness (`AskingGetsIn`, `EventuallyServes`) and ENABLED are out of
the prover's reach.

## 6. Where the code and its own statements differ

All runs pass. Where the code departs from what it, its tests or its client say,
the property states what does hold and names the exception; the runs reach
these states.

**Owed ledger and transactions**

* *Capacity of a linked transaction.* "Total owed amount cannot exceed linked
  transaction amount" (`owed_service.py:765`, asserted by `tests/test_owed_items.py:143`). Cancelled
  items do not count. Cancel an item, link another for the freed amount, then
  allocate a repayment to the cancelled one: it is open or paid again, and the
  two exceed the transaction. Taking a repayment of a cancelled item back does
  the same. `LinksStayWithinTransaction` says that nothing else does.
* *Repayments beyond their transaction.* "Linked payment total cannot exceed money
  in transaction amount" (`owed_service.py:722`). Editing a transaction
  (`transaction_service.py:154`) does not look at its links. By
  the same path a transaction with owed items becomes money in, after which its
  deletion preview is refused ("Only money out transactions may own linked owed
  obligations", `financial_command_service.py:497`).
* *Lost updates.* The log says "Owed payment deleted and allocation reversed."
  (`owed_service.py:492`). The deletion of a repayment
  writes amounts it computed from a row it read without a lock: an edit that
  commits in between is overwritten. An edit overwrites in the same way what
  commits between its read and its write. Repayments do not suffer from it
  (`RepaymentsNeverLost`), but only because they happen to start by updating the
  labels of all the person's items.
* *Audit.* `scripts/audit_data_integrity.py` (249-264) reports "Owed payment allocation
  totals cannot exceed the owed item total" as an error. Paying an item and then
  editing its total down, which the service accepts, produces such rows.
* An edit may send status "open" for a fully paid item. The automatic walk then
  allocates 0 to it, the CHECK on allocations refuses, and no repayment of that
  person that reaches the item is accepted (`AutomaticPaymentAccepted` states what holds).
* "Owed item already exists for this transaction and person"
  (`owed_service.py:56`) is also the answer when the item was soft-deleted,
  unlinked or given to someone else: the hash stays with the row.
* A transaction whose only linked items are soft-deleted is refused by the plain
  deletion, which asks for "an explicit deletion strategy"
  (`transaction_service.py:235`); the preview then offers none.

**Imports.** A rollback of a batch with a referred row fails after the tables
before it have been emptied, while the client reports "Failed to rollback import
batch" (`src/frontend/src/pages/ImportPage.tsx:324`). Retrying it once the link is gone
finishes it (`RollbackEmptiesBatch`). Rolling back the buys of a batch, or resetting
their month, does not look at later sales: the positions page then answers with an error.

**Investments**

* The check of a sale compares currencies in upper case and takes an absent ticker
  for an empty one (`investment_market_validation.py:178`); average cost groups by the
  stored currency. A sale in "usd" of what was bought in "USD" is accepted, after
  which `investment_cost_basis.py:99-107` raises "Investment sell has no matching
  positive cost bucket" at every read (`SpeltApart` in `CheckedTradesStayReadable`).
* When two events with a rate of one currency share a day, or two euro trades of one
  instrument that a rate is derived from, the latest rate is that of the lower id and the
  historical rate that of the higher one: chart and list may differ (`OneRateADay` in
  `ChartEndsAtPositions`). They also differ by the events dated in the future, which the
  list counts and the chart of today does not.
* Two overlapping creations may link one transaction to two events
  (`SecondLinkNeedsOverlap`).

**Market prices.** A fetch under another ticker of the same ISIN takes the row over, and an
instrument asked for by its ticker alone then finds an older row of that ticker, or none
(`GivesAway`); of two overlapping fetches the one that answered earlier may write last.

**Categories.** The usage count compares names exactly and the check of a transaction
ignores case, so a category that is used in another spelling can be deleted.
Renaming a category leaves its transactions behind. Description rules that match
the description they rewrite need not settle.

**Month reset.** A repayment that is reset because it settled an item of the month may have
paid items of other months too: their allocations go and their amount paid stays.

**Start-up.** "They exist to keep the current local database evolving safely."
(`database_migrations.py:18`). A start that is cut off between adding a
column and filling it never fills it: later starts see the column and skip both.
No start gets past (`Blocked`): a temporary table a rebuild was cut off after; owed
items older than their owner column, which `_run_owed_item_event_migrations` names before
`_run_owed_user_migrations` adds it; rows whose parent is gone, which the code
refuses on purpose. PostgreSQL makes income or expense of an old internal transfer, SQLite a transfer.

## 7. What is not modelled

* **Overlap beyond the modules that split requests.** `OwedLedger` and
  `TransactionLinks` take a request as one step. `OwedOverlap` covers the owed
  requests but creations; the financial commands, which check a version and
  then write, and two creations that pass one capacity check are not split.
* **Items imported from a workbook** have no event. `IssuesAreRepairable` is
  about a ledger written by the owed service and the financial commands.
* **Wealth accounts and snapshots**: two snapshots of one account and date, or a
  snapshot of an account that is being deleted, are check-then-insert races without
  a constraint behind them.
* **Trip savings, preferences and access requests**: one row per user or address, with a unique
  key behind each; two first visits end in one row and one refused request.
* **Edits and deletions of investment events** exist in the service and are called by no
  route.
* **Parsers and the reading of workbooks** are string and cell work: `Imports` takes
  their rows as given. **Summary, export, exchange match preview, health** change
  no state. **Scripts** run on a stopped database. **Logging, upload checks, configuration, deployment** have no state of their own.
* **The web client**: pages and forms; its cache of historical data has an order
  worth a module (`historicalDataCache.ts:63`: a forced load and an older one that
  finishes later).
* **Combinations of columns.** The edits of rules, categories and transactions in `Labels`
  change one column, or those that are checked together, at a time; that an application reads
  1000 rules at most (`cashflow_rule_service.py:112`) is left out.
* **Tables that nothing refers to** and that refer to nothing (preferences and the like) are
  left out of `AccountOrder` of `Erasure`: their turn cannot be refused.
* **Notes, methods, metadata and listings** are data no property depends on.
* **Decimals.** The code keeps cents in `Numeric(12, 2)`; the owed models' integers
  are those cents, and no amount of a request is rounded. `Portfolio` computes
  exactly where the code rounds its results.

## 8. Plan

Modelled and checked: the owed ledger with its overlap and replay, financial commands,
imports, investments with prices and valuation, categories and rules, erasure, the
limiter, start-up. Proved: all of their properties but the two of liveness.

Left to model, in order: financial commands overlapping each other (a preview
confirmed twice, a link made between the version check and the deletion); wealth
accounts and snapshots; trip savings (the goal of past months); the client's cache.

Theorems to come: those of the modules still to be written.
