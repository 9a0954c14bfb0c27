-------------------------------- MODULE Imports --------------------------------
(***************************************************************************)
(* Statement imports of one user: a file is previewed, the preview is      *)
(* committed once as an import batch, and a batch can be rolled back.      *)
(*                                                                         *)
(* Import handlers are coroutines that never wait once the file is read:   *)
(* those of one event loop run one after the other, but the requests of    *)
(* the thread pool, the rollback of a batch among them, run between their  *)
(* database statements, and so do the imports of another worker process.   *)
(* A handler is therefore a request record that moves from step to step.   *)
(*                                                                         *)
(* A row stands for its content, which is what its dedupe hash identifies; *)
(* the rows of a file are distinct.  The provider's answer is one exchange *)
(* rate for all rows in a foreign currency, or None when it has no answer. *)
(***************************************************************************)
EXTENDS Integers, FiniteSets

CONSTANTS
    TxRows, EventRows,            \* rows of bank and broker statements
    SheetTxRows, SheetOwedRows,   \* rows of the legacy workbook
    SnapshotRows,                 \* rows of its wealth sheet
    ForeignRows,                  \* statement rows that need a rate
    Rates,
    Loops,                        \* event loops: one per worker process
    Threads,                      \* thread-pool threads deleting a batch
    PreviewIds,
    MaxBatch,                     \* bound on the number of batches
    TTL, MaxTime,                 \* life of a preview; bound on the clock
    None

ASSUME RowsAssumption ==
    /\ ForeignRows \subseteq TxRows \cup EventRows
    /\ (TxRows \cup SheetTxRows) \cap (EventRows \cup SheetOwedRows \cup SnapshotRows) = {}
    /\ EventRows \cap (SheetOwedRows \cup SnapshotRows) = {}
    /\ SheetOwedRows \cap SnapshotRows = {}
    /\ IsFiniteSet(TxRows \cup SheetTxRows \cup EventRows \cup SheetOwedRows \cup SnapshotRows)
ASSUME RatesAssumption == None \notin Rates
ASSUME ClockAssumption == MaxBatch \in Nat /\ TTL \in Nat \ {0} /\ MaxTime \in Nat

VARIABLES
    stored,     \* imported rows in the tables, with their batch and rate
    batches,    \* import_batches
    lastBatch,  \* the sequence batch ids are drawn from
    previews,   \* import_previews
    pinned,     \* rows an owed item, a repayment or an allocation refers to
    rate,       \* what the market data provider answers now
    now,        \* minutes
    request,    \* the import each event loop is serving
    rollback    \* the batch deletion each thread is serving

vars == <<stored, batches, lastBatch, previews, pinned, rate, now, request, rollback>>

-----------------------------------------------------------------------------
(* Rows and requests                                                       *)

Transactions == TxRows \cup SheetTxRows
Rows == Transactions \cup EventRows \cup SheetOwedRows \cup SnapshotRows
BatchIds == 1..MaxBatch
\* The tables a rollback empties, in its order.
Table == <<EventRows, SheetOwedRows, SnapshotRows, Transactions>>
BatchStep == 5

StatementFiles == (SUBSET (TxRows \cup EventRows)) \ {{}}

Workbooks ==
    ((SUBSET (SheetTxRows \cup SheetOwedRows)) \cup (SUBSET SnapshotRows)) \ {{}}

RowsOf(b) == {r \in DOMAIN stored : stored[r].batch = b}

Without(S) == [r \in DOMAIN stored \ S |-> stored[r]]

NoRows == [r \in {} |-> None]

Init ==
    /\ stored = NoRows /\ batches = NoRows /\ lastBatch = 0
    /\ previews = NoRows /\ pinned = {}
    /\ rate \in Rates \cup {None}
    /\ now = 0
    /\ request = [l \in Loops |-> None]
    /\ rollback = [d \in Threads |-> None]

-----------------------------------------------------------------------------
(* The import handlers                                                     *)

\* The rate the rows of a file are resolved with, if any needs one.
ResolvedRate(file) == IF file \cap ForeignRows = {} THEN None ELSE rate

Upload(l, kind, file, p) ==
    /\ request[l] = None
    /\ request' = [request EXCEPT ![l] =
                     [kind |-> kind, file |-> file, preview |-> p,
                      rate |-> ResolvedRate(file), seen |-> {},
                      step |-> "transactions"]]
    /\ UNCHANGED <<stored, batches, lastBatch, previews, pinned, rate, now, rollback>>

Duplicates(req, table) == req.file \cap table \cap DOMAIN stored

\* The rows already stored are the duplicates of the preview, transactions first.
ReadDuplicates(l) ==
    /\ request[l] # None
    /\ request[l].step \in {"transactions", "others"}
    /\ LET req == request[l]
           table == IF req.step = "transactions" THEN Transactions ELSE Rows \ Transactions
           next == IF req.step = "transactions" THEN "others"
                   ELSE IF req.kind = "commit" THEN "validate" ELSE "write"
       IN  request' = [request EXCEPT ![l] =
                         [req EXCEPT !.seen = @ \cup Duplicates(req, table),
                                     !.step = next]]
    /\ UNCHANGED <<stored, batches, lastBatch, previews, pinned, rate, now, rollback>>

Answer(l) == request' = [request EXCEPT ![l] = None]

\* POST /api/import/preview stores what the client is shown.
StorePreview(l) ==
    /\ request[l] # None /\ request[l].kind = "preview" /\ request[l].step = "write"
    /\ \E p \in PreviewIds \ DOMAIN previews :
        previews' = [q \in DOMAIN previews \cup {p} |->
                        IF q = p
                        THEN [file |-> request[l].file, seen |-> request[l].seen,
                              rate |-> request[l].rate, expires |-> now + TTL,
                              consumed |-> FALSE]
                        ELSE previews[q]]
    /\ Answer(l)
    /\ UNCHANGED <<stored, batches, lastBatch, pinned, rate, now, rollback>>

\* As many rows and rates, whichever they are, used by a mutant.
MatchingCounts(preview, req) ==
    /\ preview.file = req.file
    /\ Cardinality(preview.seen) = Cardinality(req.seen)

\* The uploaded file, and the rows as resolved for this commit, are those shown.
Matching(preview, req) ==
    /\ preview.file = req.file
    /\ preview.seen = req.seen
    /\ preview.rate = req.rate

Acceptable(l) ==
    LET preview == previews[request[l].preview]
    IN  /\ ~preview.consumed
        /\ now < preview.expires
        /\ Matching(preview, request[l])

\* POST /api/import/commit refuses a preview that is consumed, expired or stale.
Validate(l) ==
    /\ request[l] # None /\ request[l].step = "validate"
    /\ IF Acceptable(l)
       THEN request' = [request EXCEPT ![l].step = "write"]
       ELSE Answer(l)
    /\ UNCHANGED <<stored, batches, lastBatch, previews, pinned, rate, now, rollback>>

NewRows(l) == request[l].file \ request[l].seen

\* A preview is there until it expires, used by a mutant.
Unclaimed(l) == TRUE

\* The claim is an UPDATE of the row where consumed_at is still null.
Claimable(l) ==
    request[l].kind = "commit" => ~previews[request[l].preview].consumed

Priced(l) == request[l].rate = None => NewRows(l) \cap ForeignRows = {}

\* The unique index on dedupe hashes: another request may have stored a row.
Unconflicted(l) == NewRows(l) \cap DOMAIN stored = {}

Inserted(l) == Cardinality(NewRows(l))

Claimed(l) ==
    IF request[l].kind = "commit"
    THEN [previews EXCEPT ![request[l].preview].consumed = TRUE]
    ELSE previews

\* One commit: the claim of the preview, the batch and its rows, or nothing.  A
\* workbook is committed without a preview, and not at all when nothing is new.
WriteBatch(l) ==
    /\ request[l] # None /\ request[l].kind # "preview" /\ request[l].step = "write"
    /\ IF /\ Claimable(l) /\ Priced(l) /\ Unconflicted(l)
          /\ request[l].kind = "workbook" => NewRows(l) # {}
       THEN /\ lastBatch < MaxBatch
            /\ lastBatch' = lastBatch + 1
            /\ batches' = [b \in DOMAIN batches \cup {lastBatch'} |->
                              IF b = lastBatch'
                              THEN [total |-> Cardinality(request[l].file),
                                    inserted |-> Inserted(l),
                                    source |-> IF request[l].kind = "commit"
                                               THEN "statement" ELSE "workbook"]
                              ELSE batches[b]]
            /\ stored' = [r \in DOMAIN stored \cup NewRows(l) |->
                             IF r \in DOMAIN stored THEN stored[r]
                             ELSE [batch |-> lastBatch',
                                   rate |-> IF r \in ForeignRows
                                            THEN request[l].rate ELSE None]]
            /\ previews' = Claimed(l)
       ELSE UNCHANGED <<lastBatch, batches, stored, previews>>
    /\ Answer(l)
    /\ UNCHANGED <<pinned, rate, now, rollback>>

-----------------------------------------------------------------------------
(* Rolling a batch back                                                    *)

\* DELETE /api/import/batches/{id}
BeginRollback(d, b) ==
    /\ rollback[d] = None
    /\ b \in DOMAIN batches
    /\ rollback' = [rollback EXCEPT ![d] =
                      [batch |-> b, step |-> 1, deleted |-> 0, failed |-> FALSE]]
    /\ UNCHANGED <<stored, batches, lastBatch, previews, pinned, rate, now, request>>

\* What one DELETE ... WHERE import_batch_id = b takes.
Taken(b, k) == Table[k] \cap RowsOf(b)

\* A table left out, used by a mutant.
SkipTable(k) == IF k = 1 THEN 3 ELSE k + 1

NextTable(k) == k + 1

\* Each table is emptied in a commit of its own; a row that is referred to
\* makes the statement, and the request, fail.
DeleteRows(d) ==
    /\ rollback[d] # None /\ ~rollback[d].failed /\ rollback[d].step < BatchStep
    /\ LET del == rollback[d]
           taken == Taken(del.batch, del.step)
       IN  IF taken \cap pinned = {}
           THEN /\ stored' = Without(taken)
                /\ rollback' = [rollback EXCEPT ![d] =
                                  [del EXCEPT !.step = NextTable(del.step),
                                              !.deleted = @ + Cardinality(taken)]]
           ELSE /\ rollback' = [rollback EXCEPT ![d] = [del EXCEPT !.failed = TRUE]]
                /\ UNCHANGED stored
    /\ UNCHANGED <<batches, lastBatch, previews, pinned, rate, now, request>>

\* The batch row goes last, unless a row still refers to it.  The row is read
\* again first: a batch that another request has deleted is an error.
DeleteBatch(d) ==
    /\ rollback[d] # None /\ ~rollback[d].failed /\ rollback[d].step = BatchStep
    /\ LET b == rollback[d].batch
       IN  IF b \in DOMAIN batches /\ RowsOf(b) = {}
           THEN /\ batches' = [c \in DOMAIN batches \ {b} |-> batches[c]]
                /\ rollback' = [rollback EXCEPT ![d] = None]
           ELSE /\ rollback' = [rollback EXCEPT ![d].failed = TRUE]
                /\ UNCHANGED batches
    /\ UNCHANGED <<stored, lastBatch, previews, pinned, rate, now, request>>

ReportFailure(d) ==
    /\ rollback[d] # None /\ rollback[d].failed
    /\ rollback' = [rollback EXCEPT ![d] = None]
    /\ UNCHANGED <<stored, batches, lastBatch, previews, pinned, rate, now, request>>

-----------------------------------------------------------------------------
(* The rest of the program and the world                                   *)

\* An owed record is linked to an imported transaction, or a repayment
\* allocated to an imported owed item.
Pin(r) ==
    /\ r \in DOMAIN stored \cap (Transactions \cup SheetOwedRows)
    /\ pinned' = pinned \cup {r}
    /\ UNCHANGED <<stored, batches, lastBatch, previews, rate, now, request, rollback>>

Unpin(r) ==
    /\ pinned' = pinned \ {r}
    /\ UNCHANGED <<stored, batches, lastBatch, previews, rate, now, request, rollback>>

\* A transaction with linked records is not deleted alone.
Deletable == DOMAIN stored \ (SheetOwedRows \cup pinned)

\* The user deletes one imported transaction, event or snapshot.
DeleteRow(r) ==
    /\ r \in Deletable
    /\ stored' = Without({r})
    /\ UNCHANGED <<batches, lastBatch, previews, pinned, rate, now, request, rollback>>

\* The provider fails, recovers, or revises the rate.
ChangeRate ==
    /\ rate' \in Rates \cup {None}
    /\ UNCHANGED <<stored, batches, lastBatch, previews, pinned, now, request, rollback>>

Tick ==
    /\ now < MaxTime
    /\ now' = now + 1
    /\ UNCHANGED <<stored, batches, lastBatch, previews, pinned, rate, request, rollback>>

\* The server restarts: what was not committed is gone, and nothing resumes.
Restart ==
    /\ request' = [l \in Loops |-> None]
    /\ rollback' = [d \in Threads |-> None]
    /\ UNCHANGED <<stored, batches, lastBatch, previews, pinned, rate, now>>

ImportStep ==
    \/ \E l \in Loops, file \in StatementFiles : Upload(l, "preview", file, None)
    \/ \E l \in Loops, file \in StatementFiles, p \in DOMAIN previews :
            Upload(l, "commit", file, p)
    \/ \E l \in Loops, file \in Workbooks : Upload(l, "workbook", file, None)
    \/ \E l \in Loops : ReadDuplicates(l)
    \/ \E l \in Loops : StorePreview(l)
    \/ \E l \in Loops : Validate(l)
    \/ \E l \in Loops : WriteBatch(l)

RollbackStep ==
    \/ \E d \in Threads, b \in BatchIds : BeginRollback(d, b)
    \/ \E d \in Threads : DeleteRows(d)
    \/ \E d \in Threads : DeleteBatch(d)
    \/ \E d \in Threads : ReportFailure(d)

WorldStep ==
    \/ \E r \in Rows : Pin(r)
    \/ \E r \in pinned : Unpin(r)
    \/ \E r \in Rows : DeleteRow(r)
    \/ ChangeRate
    \/ Tick
    \/ Restart

Next == ImportStep \/ RollbackStep \/ WorldStep

Spec == Init /\ [][Next]_vars

-----------------------------------------------------------------------------
(* Properties                                                              *)

NewBatches == DOMAIN batches' \ DOMAIN batches

NewStatements == {b \in NewBatches : batches'[b].source = "statement"}

Consumed == {p \in DOMAIN previews : previews[p].consumed}

\* A statement import writes exactly the rows its user was shown as new, each
\* at the rate shown, although rows and rates may change between the preview,
\* the commit's own reading and its write.
OnlyWhatWasShown ==
    [][\A b \in NewStatements :
          \E p \in Consumed' :
              /\ RowsOf(b)' = previews[p].file \ previews[p].seen
              /\ \A r \in RowsOf(b)' \cap ForeignRows :
                     stored'[r].rate = previews[p].rate]_vars

\* One preview, one import: whichever requests race for a preview, across
\* worker processes and restarts, each statement batch spends one of its own,
\* and a preview is spent only by a batch.
PreviewSpentOnce ==
    [][/\ Consumed \subseteq Consumed'
       /\ Cardinality(Consumed' \ Consumed) = Cardinality(NewStatements)]_vars

\* When a rollback comes to the batch itself none of its rows is left, however
\* often it failed before and whoever else rolls it back: the restricting
\* foreign keys are never hit there.
RollbackEmptiesBatch ==
    \A d \in Threads :
        rollback[d] # None /\ rollback[d].step = BatchStep =>
            RowsOf(rollback[d].batch) = {}

\* A rollback takes rows of its own batch only, a row that was deleted and
\* imported again by a later batch while it ran included; proved in
\* ImportsProofs.
RollbackKeepsOthers ==
    [][\A r \in DOMAIN stored \ DOMAIN stored' :
          rollback' # rollback =>
              \E d \in Threads : /\ rollback[d] # None
                                 /\ rollback[d].batch = stored[r].batch]_vars

=============================================================================
