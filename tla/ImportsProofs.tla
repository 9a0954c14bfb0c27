---------------------------- MODULE ImportsProofs ----------------------------
(***************************************************************************)
(* What holds of Imports for every set of rows, previews, worker processes *)
(* and threads, and every bound on batches and time.                       *)
(***************************************************************************)
EXTENDS Imports, FiniteSetTheorems, TLAPS

Rate == Rates \cup {None}

StoredRow == [batch : BatchIds, rate : Rate]

Preview == [file : SUBSET Rows, seen : SUBSET Rows, rate : Rate,
            expires : Nat, consumed : BOOLEAN]

Request == [kind : {"preview", "commit", "workbook"}, file : SUBSET Rows,
            preview : PreviewIds \cup {None}, rate : Rate, seen : SUBSET Rows,
            step : {"transactions", "others", "validate", "write"}]

Rollback == [batch : BatchIds, step : 1..BatchStep, deleted : Nat, failed : BOOLEAN]

ImportTypeOK ==
    /\ stored \in [DOMAIN stored -> StoredRow] /\ DOMAIN stored \subseteq Rows
    /\ lastBatch \in 0..MaxBatch
    /\ previews \in [DOMAIN previews -> Preview] /\ DOMAIN previews \subseteq PreviewIds
    /\ rate \in Rate
    /\ now \in Nat
    /\ request \in [Loops -> Request \cup {None}]
    /\ rollback \in [Threads -> Rollback \cup {None}]

(* No id of a batch is used before it is drawn.                            *)
BatchesDrawn ==
    /\ DOMAIN batches \subseteq 1..lastBatch
    /\ \A r \in DOMAIN stored : stored[r].batch <= lastBatch
    /\ \A d \in Threads : rollback[d] # None => rollback[d].batch <= lastBatch

(* A commit names a stored preview, and has its rows and its rate when it  *)
(* comes to write.                                                         *)
CommitsMatch ==
    \A l \in Loops :
        request[l] # None /\ request[l].kind = "commit" =>
            /\ request[l].preview \in DOMAIN previews
            /\ request[l].step = "write" => Matching(previews[request[l].preview], request[l])

(* A table of the stored rows holds none of a batch.                       *)
Emptied(rows, b, k) == \A r \in Table[k] \cap DOMAIN rows : rows[r].batch # b

(* The tables a rollback has been through hold no row of its batch.        *)
TablesEmptied ==
    \A d \in Threads :
        rollback[d] # None =>
            \A k \in 1..(rollback[d].step - 1) : Emptied(stored, rollback[d].batch, k)

ImportInv == ImportTypeOK /\ BatchesDrawn /\ CommitsMatch /\ TablesEmptied

-----------------------------------------------------------------------------
(* Lemmas on rows and tables. *)

LEMMA TablesCoverRows == UNION {Table[k] : k \in 1..(BatchStep - 1)} = Rows
<1>1. 1..(BatchStep - 1) = {1, 2, 3, 4}
  BY DEF BatchStep
<1>2. Table[1] = EventRows /\ Table[2] = SheetOwedRows /\ Table[3] = SnapshotRows
        /\ Table[4] = Transactions
  BY DEF Table
<1>3. QED
  BY <1>1, <1>2 DEF Rows

\* There are finitely many rows in all the files together.
LEMMA RowsFinite == IsFiniteSet(Rows)
<1>1. Rows = TxRows \cup SheetTxRows \cup EventRows \cup SheetOwedRows \cup SnapshotRows
  BY DEF Rows, Transactions
<1>2. QED
  BY <1>1, RowsAssumption

(* What one statement of a rollback counts.                                *)
LEMMA TakenCount ==
    ASSUME DOMAIN stored \subseteq Rows, NEW b, NEW k
    PROVE  Cardinality(Taken(b, k)) \in Nat
<1>1. Taken(b, k) \subseteq Rows
  BY DEF Taken, RowsOf
<1>2. QED
  BY <1>1, RowsFinite, FS_Subset, FS_CardinalityType

(* Rows that go, whosever they are, leave the emptied tables empty.        *)
LEMMA FewerRowsEmptied ==
    ASSUME NEW rows, NEW fewer, DOMAIN fewer \subseteq DOMAIN rows,
           \A r \in DOMAIN fewer : fewer[r] = rows[r],
           NEW b, NEW k, Emptied(rows, b, k)
    PROVE  Emptied(fewer, b, k)
BY DEF Emptied

\* Taking rows out leaves the others as they are.
LEMMA WithoutShape ==
    ASSUME NEW S, stored' = Without(S)
    PROVE  /\ DOMAIN stored' = DOMAIN stored \ S
           /\ \A r \in DOMAIN stored' : stored'[r] = stored[r]
           /\ stored \in [DOMAIN stored -> StoredRow] =>
                 stored' \in [DOMAIN stored' -> StoredRow]
BY DEF Without

-----------------------------------------------------------------------------
(* The steps of the import handlers. *)

LEMMA InitImportInv == Init => ImportInv
<1> SUFFICES ASSUME Init PROVE ImportInv
  OBVIOUS
<1>1. DOMAIN stored = {} /\ DOMAIN batches = {} /\ DOMAIN previews = {}
  BY DEF Init, NoRows
<1>2. stored \in [DOMAIN stored -> StoredRow] /\ previews \in [DOMAIN previews -> Preview]
  BY DEF Init, NoRows
<1>3. ImportTypeOK
  BY <1>1, <1>2, ClockAssumption DEF Init, ImportTypeOK, Rate
<1>4. BatchesDrawn /\ CommitsMatch /\ TablesEmptied
  BY <1>1 DEF Init, BatchesDrawn, CommitsMatch, TablesEmptied
<1>5. QED
  BY <1>3, <1>4 DEF ImportInv

(* A step that only moves one request along keeps the invariant when the   *)
(* new state of the request is one a request may be in.                    *)
LEMMA RequestMoves ==
    ASSUME ImportInv, NEW l \in Loops, NEW req \in Request \cup {None},
           request' = [request EXCEPT ![l] = req],
           UNCHANGED <<stored, batches, lastBatch, previews, pinned, rate, now, rollback>>,
           req # None /\ req.kind = "commit" =>
               /\ req.preview \in DOMAIN previews
               /\ req.step = "write" => Matching(previews[req.preview], req)
    PROVE  ImportInv'
<1>1. ImportTypeOK'
  BY DEF ImportInv, ImportTypeOK
<1>2. BatchesDrawn'
  BY DEF ImportInv, BatchesDrawn
<1>3. CommitsMatch'
  BY DEF ImportInv, ImportTypeOK, CommitsMatch, Matching
<1>4. TablesEmptied'
  BY DEF ImportInv, TablesEmptied
<1>5. QED
  BY <1>1, <1>2, <1>3, <1>4 DEF ImportInv

\* Beginning a preview, a commit or a workbook import.
LEMMA UploadKeepsInv ==
    ASSUME ImportInv, NEW l \in Loops, NEW kind, NEW file, NEW p,
           \/ kind = "commit" /\ file \in StatementFiles /\ p \in DOMAIN previews
           \/ kind = "preview" /\ file \in StatementFiles /\ p = None
           \/ kind = "workbook" /\ file \in Workbooks /\ p = None,
           Upload(l, kind, file, p)
    PROVE  ImportInv'
<1> DEFINE req == [kind |-> kind, file |-> file, preview |-> p,
                   rate |-> ResolvedRate(file), seen |-> {}, step |-> "transactions"]
<1>1. file \in SUBSET Rows
  <2>1. ASSUME file \in StatementFiles PROVE file \subseteq Rows
    <3>1. file \subseteq TxRows \cup EventRows
      BY <2>1 DEF StatementFiles
    <3>2. QED
      BY <3>1 DEF Rows, Transactions
  <2>2. ASSUME file \in Workbooks PROVE file \subseteq Rows
    <3>1. file \subseteq SheetTxRows \cup SheetOwedRows \/ file \subseteq SnapshotRows
      BY <2>2 DEF Workbooks
    <3>2. QED
      BY <3>1 DEF Rows, Transactions
  <2>3. QED
    BY <2>1, <2>2
<1>2. ResolvedRate(file) \in Rate
  BY DEF ResolvedRate, ImportInv, ImportTypeOK, Rate
<1>3. p \in PreviewIds \cup {None} /\ kind \in {"preview", "commit", "workbook"}
  BY DEF ImportInv, ImportTypeOK
<1>4. req \in Request
  BY <1>1, <1>2, <1>3 DEF Request
<1>5. req.kind = "commit" => req.preview \in DOMAIN previews /\ req.step # "write"
  OBVIOUS
<1>6. request' = [request EXCEPT ![l] = req]
        /\ UNCHANGED <<stored, batches, lastBatch, previews, pinned, rate, now, rollback>>
  BY DEF Upload
<1> HIDE DEF req
<1>7. QED
  BY <1>4, <1>5, <1>6, RequestMoves

\* Reading the hashes already stored.
LEMMA ReadDuplicatesKeepsInv ==
    ASSUME ImportInv, NEW l \in Loops, ReadDuplicates(l)
    PROVE  ImportInv'
<1>1. PICK table, next :
        /\ next \in {"others", "validate", "write"}
        /\ next = "write" => request[l].kind # "commit"
        /\ request' = [request EXCEPT ![l] =
              [request[l] EXCEPT !.seen = @ \cup Duplicates(request[l], table),
                                 !.step = next]]
  BY DEF ReadDuplicates
<1> DEFINE req == [request[l] EXCEPT !.seen = @ \cup Duplicates(request[l], table),
                                     !.step = next]
<1>2. request[l] # None /\ request[l] \in Request
  BY DEF ReadDuplicates, ImportInv, ImportTypeOK
<1>3. Duplicates(request[l], table) \subseteq Rows
  BY <1>2 DEF Duplicates, Request
<1>4. req \in Request
  BY <1>1, <1>2, <1>3 DEF Request
<1>5. req.kind = request[l].kind /\ req.preview = request[l].preview /\ req.step = next
  BY <1>2 DEF Request
<1>6. req.kind = "commit" => req.preview \in DOMAIN previews /\ req.step # "write"
  BY <1>1, <1>2, <1>5 DEF ImportInv, CommitsMatch
<1>7. request' = [request EXCEPT ![l] = req]
        /\ UNCHANGED <<stored, batches, lastBatch, previews, pinned, rate, now, rollback>>
  BY <1>1 DEF ReadDuplicates
<1> HIDE DEF req
<1>8. QED
  BY <1>4, <1>6, <1>7, RequestMoves

(* A preview is stored under an id of its own: those that requests name    *)
(* stay as they are.                                                       *)
LEMMA StorePreviewKeepsInv ==
    ASSUME ImportInv, NEW l \in Loops, StorePreview(l)
    PROVE  ImportInv'
<1>1. PICK p \in PreviewIds \ DOMAIN previews :
        previews' = [q \in DOMAIN previews \cup {p} |->
                        IF q = p
                        THEN [file |-> request[l].file, seen |-> request[l].seen,
                              rate |-> request[l].rate, expires |-> now + TTL,
                              consumed |-> FALSE]
                        ELSE previews[q]]
  BY DEF StorePreview
<1>2. request[l] \in Request /\ now + TTL \in Nat
  BY ClockAssumption DEF StorePreview, ImportInv, ImportTypeOK
<1>3. previews' \in [DOMAIN previews' -> Preview] /\ DOMAIN previews' \subseteq PreviewIds
  BY <1>1, <1>2 DEF ImportInv, ImportTypeOK, Preview, Request
<1>4. \A q \in DOMAIN previews : q \in DOMAIN previews' /\ previews'[q] = previews[q]
  BY <1>1
<1>5. request' = [request EXCEPT ![l] = None]
        /\ UNCHANGED <<stored, batches, lastBatch, pinned, rate, now, rollback>>
  BY DEF StorePreview, Answer
<1>6. ImportTypeOK'
  BY <1>3, <1>5 DEF ImportInv, ImportTypeOK
<1>7. BatchesDrawn' /\ TablesEmptied'
  BY <1>5 DEF ImportInv, BatchesDrawn, TablesEmptied
<1>8. CommitsMatch'
  BY <1>4, <1>5 DEF ImportInv, ImportTypeOK, CommitsMatch, Matching
<1>9. QED
  BY <1>6, <1>7, <1>8 DEF ImportInv

\* Checking the rows, and storing a preview.
LEMMA ValidateKeepsInv ==
    ASSUME ImportInv, NEW l \in Loops, Validate(l)
    PROVE  ImportInv'
<1>1. request[l] # None /\ request[l] \in Request
        /\ UNCHANGED <<stored, batches, lastBatch, previews, pinned, rate, now, rollback>>
  BY DEF Validate, ImportInv, ImportTypeOK
<1>2. CASE Acceptable(l)
  <2> DEFINE req == [request[l] EXCEPT !.step = "write"]
  <2>1. req \in Request /\ req.kind = request[l].kind /\ req.preview = request[l].preview
        /\ req.file = request[l].file /\ req.seen = request[l].seen /\ req.rate = request[l].rate
    BY <1>1 DEF Request
  <2>2. Matching(previews[req.preview], req)
    BY <1>2, <2>1 DEF Acceptable, Matching
  <2>3. req.kind = "commit" => req.preview \in DOMAIN previews
    BY <1>1, <2>1 DEF ImportInv, CommitsMatch
  <2>4. request' = [request EXCEPT ![l] = req]
    BY <1>1, <1>2 DEF Validate
  <2> HIDE DEF req
  <2>5. QED
    BY <1>1, <2>1, <2>2, <2>3, <2>4, RequestMoves
<1>3. CASE ~Acceptable(l)
  BY <1>1, <1>3, RequestMoves DEF Validate, Answer
<1>4. QED
  BY <1>2, <1>3

(* What an accepted import writes: a batch of a new id, with the rows that *)
(* are new to it and no others, and the preview it was asked with.         *)
LEMMA WrittenBatch ==
    ASSUME ImportInv, NEW l \in Loops, WriteBatch(l), lastBatch' # lastBatch
    PROVE  /\ request[l] \in Request /\ request[l].kind # "preview"
           /\ request[l].step = "write"
           /\ Claimable(l) /\ Unconflicted(l)
           /\ lastBatch' = lastBatch + 1 /\ lastBatch' \in BatchIds
           /\ DOMAIN batches' = DOMAIN batches \cup {lastBatch'}
           /\ batches'[lastBatch'].source =
                 IF request[l].kind = "commit" THEN "statement" ELSE "workbook"
           /\ DOMAIN stored' = DOMAIN stored \cup NewRows(l)
           /\ \A r \in DOMAIN stored : stored'[r] = stored[r]
           /\ \A r \in NewRows(l) :
                 /\ stored'[r].batch = lastBatch'
                 /\ stored'[r].rate = IF r \in ForeignRows THEN request[l].rate ELSE None
           /\ stored' \in [DOMAIN stored' -> StoredRow] /\ DOMAIN stored' \subseteq Rows
           /\ previews' = Claimed(l)
<1>1. /\ Claimable(l) /\ Unconflicted(l)
      /\ lastBatch < MaxBatch
      /\ lastBatch' = lastBatch + 1
      /\ batches' = [b \in DOMAIN batches \cup {lastBatch'} |->
                        IF b = lastBatch'
                        THEN [total |-> Cardinality(request[l].file),
                              inserted |-> Inserted(l),
                              source |-> IF request[l].kind = "commit"
                                         THEN "statement" ELSE "workbook"]
                        ELSE batches[b]]
      /\ stored' = [r \in DOMAIN stored \cup NewRows(l) |->
                       IF r \in DOMAIN stored THEN stored[r]
                       ELSE [batch |-> lastBatch',
                             rate |-> IF r \in ForeignRows THEN request[l].rate ELSE None]]
      /\ previews' = Claimed(l)
  BY DEF WriteBatch
<1>2. request[l] \in Request /\ request[l].kind # "preview" /\ request[l].step = "write"
  BY DEF WriteBatch, ImportInv, ImportTypeOK
<1>3. lastBatch' \in BatchIds
  BY <1>1, ClockAssumption DEF ImportInv, ImportTypeOK, BatchIds
<1>4. NewRows(l) \subseteq Rows
  BY <1>2 DEF NewRows, Request
<1>5. [batch |-> lastBatch', rate |-> request[l].rate] \in StoredRow
        /\ [batch |-> lastBatch', rate |-> None] \in StoredRow
  BY <1>2, <1>3 DEF StoredRow, Request, Rate
<1>6. stored' \in [DOMAIN stored' -> StoredRow] /\ DOMAIN stored' \subseteq Rows
  BY <1>1, <1>4, <1>5 DEF ImportInv, ImportTypeOK
<1>7. ASSUME NEW r \in NewRows(l)
      PROVE  /\ stored'[r].batch = lastBatch'
             /\ stored'[r].rate = IF r \in ForeignRows THEN request[l].rate ELSE None
  <2>1. r \notin DOMAIN stored
    BY <1>1 DEF Unconflicted
  <2>2. stored'[r] = [batch |-> lastBatch',
                      rate |-> IF r \in ForeignRows THEN request[l].rate ELSE None]
    BY <1>1, <2>1
  <2>3. QED
    BY <2>2
<1>8. /\ DOMAIN batches' = DOMAIN batches \cup {lastBatch'}
      /\ batches'[lastBatch'].source =
            IF request[l].kind = "commit" THEN "statement" ELSE "workbook"
      /\ DOMAIN stored' = DOMAIN stored \cup NewRows(l)
      /\ \A r \in DOMAIN stored : stored'[r] = stored[r]
  BY <1>1
<1>9. QED
  BY <1>1, <1>2, <1>3, <1>6, <1>7, <1>8

(* Claiming a preview changes nothing else of it, and no other preview.    *)
LEMMA ClaimedShape ==
    ASSUME ImportInv, NEW l \in Loops, request[l] # None, previews' = Claimed(l)
    PROVE  /\ DOMAIN previews' = DOMAIN previews
           /\ previews' \in [DOMAIN previews' -> Preview]
           /\ \A p \in DOMAIN previews :
                 /\ previews'[p].file = previews[p].file
                 /\ previews'[p].seen = previews[p].seen
                 /\ previews'[p].rate = previews[p].rate
                 /\ previews'[p].consumed =
                       IF request[l].kind = "commit" /\ p = request[l].preview
                       THEN TRUE ELSE previews[p].consumed
<1>1. previews \in [DOMAIN previews -> Preview]
  BY DEF ImportInv, ImportTypeOK
<1>2. CASE request[l].kind = "commit"
  <2>1. request[l].preview \in DOMAIN previews
    BY <1>2 DEF ImportInv, CommitsMatch
  <2>2. previews' = [previews EXCEPT ![request[l].preview].consumed = TRUE]
    BY <1>2 DEF Claimed
  <2> DEFINE p == request[l].preview
  <2>3. previews' = [previews EXCEPT ![p] = [previews[p] EXCEPT !.consumed = TRUE]]
    BY <2>2
  <2>4. [previews[p] EXCEPT !.consumed = TRUE] \in Preview
    BY <1>1, <2>1 DEF Preview
  <2>5. previews' \in [DOMAIN previews -> Preview]
    BY <1>1, <2>3, <2>4
  <2>6. ASSUME NEW q \in DOMAIN previews
        PROVE  /\ previews'[q].file = previews[q].file
               /\ previews'[q].seen = previews[q].seen
               /\ previews'[q].rate = previews[q].rate
               /\ previews'[q].consumed = IF q = p THEN TRUE ELSE previews[q].consumed
    BY <1>1, <2>1, <2>3 DEF Preview
  <2>7. QED
    BY <1>2, <2>5, <2>6
<1>3. CASE request[l].kind # "commit"
  BY <1>1, <1>3 DEF Claimed
<1>4. QED
  BY <1>2, <1>3

\* Writing the batch with its rows.
LEMMA WriteBatchKeepsInv ==
    ASSUME ImportInv, NEW l \in Loops, WriteBatch(l)
    PROVE  ImportInv'
<1>1. request' = [request EXCEPT ![l] = None] /\ UNCHANGED <<pinned, rate, now, rollback>>
        /\ request[l] # None
  BY DEF WriteBatch, Answer
<1>2. CASE lastBatch' = lastBatch
  <2>1. UNCHANGED <<lastBatch, batches, stored, previews>>
    BY <1>2 DEF WriteBatch, ImportInv, ImportTypeOK
  <2>2. QED
    BY <1>1, <2>1, RequestMoves
<1>3. CASE lastBatch' # lastBatch
  <2>1. /\ lastBatch' = lastBatch + 1 /\ lastBatch' \in BatchIds
        /\ DOMAIN batches' = DOMAIN batches \cup {lastBatch'}
        /\ DOMAIN stored' = DOMAIN stored \cup NewRows(l)
        /\ \A r \in DOMAIN stored : stored'[r] = stored[r]
        /\ \A r \in NewRows(l) : stored'[r].batch = lastBatch'
        /\ stored' \in [DOMAIN stored' -> StoredRow] /\ DOMAIN stored' \subseteq Rows
        /\ previews' = Claimed(l)
    BY <1>3, WrittenBatch
  <2>2. ImportTypeOK'
    <3>1. previews' \in [DOMAIN previews' -> Preview] /\ DOMAIN previews' = DOMAIN previews
      BY <1>1, <2>1, ClaimedShape
    <3>2. QED
      BY <1>1, <2>1, <3>1 DEF ImportInv, ImportTypeOK, BatchIds
  <2>3. BatchesDrawn'
    <3>1. lastBatch \in Nat /\ lastBatch' = lastBatch + 1
      BY <2>1 DEF ImportInv, ImportTypeOK
    <3>2. \A r \in DOMAIN stored' : stored'[r].batch <= lastBatch'
      <4> TAKE r \in DOMAIN stored'
      <4>1. CASE r \in DOMAIN stored
        <5>1. stored[r].batch \in Nat /\ stored[r].batch <= lastBatch
          BY <4>1 DEF ImportInv, ImportTypeOK, BatchesDrawn, StoredRow, BatchIds
        <5>2. QED
          BY <2>1, <3>1, <4>1, <5>1
      <4>2. CASE r \notin DOMAIN stored
        BY <2>1, <3>1, <4>2
      <4>3. QED
        BY <4>1, <4>2
    <3>3. DOMAIN batches' \subseteq 1..lastBatch'
      BY <2>1, <3>1 DEF ImportInv, BatchesDrawn
    <3>4. ASSUME NEW d \in Threads, rollback[d] # None
          PROVE  rollback[d].batch <= lastBatch'
      <4>1. rollback[d].batch \in Nat /\ rollback[d].batch <= lastBatch
        BY <3>4 DEF ImportInv, ImportTypeOK, BatchesDrawn, Rollback, BatchIds
      <4>2. QED
        BY <3>1, <4>1
    <3>5. QED
      BY <1>1, <3>2, <3>3, <3>4 DEF BatchesDrawn
  <2>4. CommitsMatch'
    <3>1. /\ DOMAIN previews' = DOMAIN previews
          /\ \A p \in DOMAIN previews :
                /\ previews'[p].file = previews[p].file
                /\ previews'[p].seen = previews[p].seen
                /\ previews'[p].rate = previews[p].rate
      BY <1>1, <2>1, ClaimedShape
    <3>2. QED
      BY <1>1, <3>1 DEF ImportInv, ImportTypeOK, CommitsMatch, Matching
  <2>5. TablesEmptied'
    <3> SUFFICES ASSUME NEW d \in Threads, rollback[d] # None,
                        NEW k \in 1..(rollback[d].step - 1)
                 PROVE  Emptied(stored', rollback[d].batch, k)
      BY <1>1 DEF TablesEmptied
    <3>1. Emptied(stored, rollback[d].batch, k)
      BY DEF ImportInv, TablesEmptied
    <3>2. rollback[d].batch # lastBatch'
      BY <2>1 DEF ImportInv, ImportTypeOK, BatchesDrawn, Rollback, BatchIds
    <3>3. QED
      BY <2>1, <3>1, <3>2 DEF Emptied
  <2>6. QED
    BY <2>2, <2>3, <2>4, <2>5 DEF ImportInv
<1>4. QED
  BY <1>2, <1>3

-----------------------------------------------------------------------------
(* The steps of a rollback. *)

(* A step that moves one rollback along, and may take rows away, keeps the *)
(* invariant when the tables it has been through are then empty.           *)
LEMMA RollbackMoves ==
    ASSUME ImportInv, NEW d \in Threads, NEW del \in Rollback \cup {None},
           rollback' = [rollback EXCEPT ![d] = del],
           UNCHANGED <<lastBatch, previews, pinned, rate, now, request>>,
           DOMAIN batches' \subseteq DOMAIN batches,
           DOMAIN stored' \subseteq DOMAIN stored,
           stored' \in [DOMAIN stored' -> StoredRow],
           \A r \in DOMAIN stored' : stored'[r] = stored[r],
           del # None => /\ del.batch <= lastBatch
                         /\ \A k \in 1..(del.step - 1) : Emptied(stored', del.batch, k)
    PROVE  ImportInv'
<1>1. ImportTypeOK'
  BY DEF ImportInv, ImportTypeOK
<1>2. BatchesDrawn'
  BY DEF ImportInv, ImportTypeOK, BatchesDrawn
<1>3. CommitsMatch'
  BY DEF ImportInv, ImportTypeOK, CommitsMatch, Matching
<1>4. TablesEmptied'
  <2> SUFFICES ASSUME NEW c \in Threads, rollback'[c] # None,
                      NEW k \in 1..(rollback'[c].step - 1)
               PROVE  Emptied(stored', rollback'[c].batch, k)
    BY DEF TablesEmptied
  <2>1. CASE c = d
    BY <2>1 DEF ImportInv, ImportTypeOK
  <2>2. CASE c # d
    <3>1. rollback'[c] = rollback[c]
      BY <2>2 DEF ImportInv, ImportTypeOK
    <3>2. Emptied(stored, rollback[c].batch, k)
      BY <3>1 DEF ImportInv, TablesEmptied
    <3>3. QED
      BY <3>1, <3>2, FewerRowsEmptied
  <2>3. QED
    BY <2>1, <2>2
<1>5. QED
  BY <1>1, <1>2, <1>3, <1>4 DEF ImportInv

\* Beginning a rollback.
LEMMA BeginRollbackKeepsInv ==
    ASSUME ImportInv, NEW d \in Threads, NEW b \in BatchIds, BeginRollback(d, b)
    PROVE  ImportInv'
<1> DEFINE del == [batch |-> b, step |-> 1, deleted |-> 0, failed |-> FALSE]
<1>1. del \in Rollback /\ del.batch = b /\ 1..(del.step - 1) = {}
  BY DEF Rollback, BatchStep
<1>2. b <= lastBatch
  BY DEF BeginRollback, ImportInv, ImportTypeOK, BatchesDrawn
<1>3. stored \in [DOMAIN stored -> StoredRow]
  BY DEF ImportInv, ImportTypeOK
<1>4. rollback' = [rollback EXCEPT ![d] = del]
        /\ UNCHANGED <<stored, batches, lastBatch, previews, pinned, rate, now, request>>
  BY DEF BeginRollback
<1> HIDE DEF del
<1>5. QED
  BY <1>1, <1>2, <1>3, <1>4, RollbackMoves

(* The table a statement empties is empty of the batch after it.           *)
LEMMA DeleteRowsKeepsInv ==
    ASSUME ImportInv, NEW d \in Threads, DeleteRows(d)
    PROVE  ImportInv'
<1> DEFINE del == rollback[d]
           taken == Taken(del.batch, del.step)
<1>1. /\ del \in Rollback /\ del # None /\ del.step < BatchStep
      /\ UNCHANGED <<batches, lastBatch, previews, pinned, rate, now, request>>
      /\ del.batch <= lastBatch
      /\ \A k \in 1..(del.step - 1) : Emptied(stored, del.batch, k)
      /\ stored \in [DOMAIN stored -> StoredRow] /\ DOMAIN stored \subseteq Rows
  BY DEF DeleteRows, ImportInv, ImportTypeOK, BatchesDrawn, TablesEmptied
<1>2. CASE taken \cap pinned = {}
  <2> DEFINE new == [del EXCEPT !.step = NextTable(del.step),
                                !.deleted = @ + Cardinality(taken)]
  <2>1. stored' = Without(taken) /\ rollback' = [rollback EXCEPT ![d] = new]
    BY <1>2 DEF DeleteRows
  <2>2. Cardinality(taken) \in Nat
    BY <1>1, TakenCount
  <2>3. new \in Rollback /\ new.batch = del.batch /\ new.step = del.step + 1
    <3>1. NextTable(del.step) \in 1..BatchStep /\ NextTable(del.step) = del.step + 1
      BY <1>1 DEF Rollback, NextTable, BatchStep
    <3>2. del.deleted + Cardinality(taken) \in Nat
      BY <1>1, <2>2 DEF Rollback
    <3>3. QED
      BY <1>1, <3>1, <3>2, Zenon DEF Rollback
  <2>4. /\ DOMAIN stored' = DOMAIN stored \ taken
        /\ \A r \in DOMAIN stored' : stored'[r] = stored[r]
        /\ stored' \in [DOMAIN stored' -> StoredRow]
    BY <1>1, <2>1, WithoutShape
  <2>5. ASSUME NEW k \in 1..(new.step - 1)
        PROVE  Emptied(stored', new.batch, k)
    <3>1. CASE k = del.step
      BY <2>3, <2>4, <3>1 DEF Emptied, Taken, RowsOf
    <3>2. CASE k # del.step
      <4>1. k \in 1..(del.step - 1)
        BY <1>1, <2>3, <3>2 DEF Rollback, BatchStep
      <4>2. QED
        BY <1>1, <2>3, <2>4, <4>1, FewerRowsEmptied
    <3>3. QED
      BY <3>1, <3>2
  <2> HIDE DEF new
  <2>6. QED
    BY <1>1, <2>1, <2>3, <2>4, <2>5, RollbackMoves
<1>3. CASE taken \cap pinned # {}
  <2> DEFINE new == [del EXCEPT !.failed = TRUE]
  <2>1. UNCHANGED stored /\ rollback' = [rollback EXCEPT ![d] = new]
    BY <1>3 DEF DeleteRows
  <2>2. new \in Rollback /\ new.batch = del.batch /\ new.step = del.step
    BY <1>1 DEF Rollback
  <2>3. \A k \in 1..(new.step - 1) : Emptied(stored', new.batch, k)
    BY <1>1, <2>1, <2>2
  <2> HIDE DEF new
  <2>4. QED
    BY <1>1, <2>1, <2>2, <2>3, RollbackMoves
<1>4. QED
  BY <1>2, <1>3

\* Ending a rollback, with its deletes or a failure.
LEMMA DeleteBatchKeepsInv ==
    ASSUME ImportInv, NEW d \in Threads, DeleteBatch(d) \/ ReportFailure(d)
    PROVE  ImportInv'
<1>1. /\ rollback[d] \in Rollback /\ rollback[d] # None
      /\ UNCHANGED <<stored, lastBatch, previews, pinned, rate, now, request>>
      /\ rollback[d].batch <= lastBatch
      /\ \A k \in 1..(rollback[d].step - 1) : Emptied(stored, rollback[d].batch, k)
      /\ stored \in [DOMAIN stored -> StoredRow]
  BY DEF DeleteBatch, ReportFailure, ImportInv, ImportTypeOK, BatchesDrawn, TablesEmptied
<1>2. CASE rollback' = [rollback EXCEPT ![d] = None]
  <2>1. DOMAIN batches' \subseteq DOMAIN batches
    BY DEF DeleteBatch, ReportFailure
  <2>2. QED
    BY <1>1, <1>2, <2>1, RollbackMoves
<1>3. CASE rollback' = [rollback EXCEPT ![d].failed = TRUE] /\ UNCHANGED batches
  <2> DEFINE new == [rollback[d] EXCEPT !.failed = TRUE]
  <2>1. new \in Rollback /\ new.batch = rollback[d].batch /\ new.step = rollback[d].step
    BY <1>1 DEF Rollback
  <2>2. \A k \in 1..(new.step - 1) : Emptied(stored', new.batch, k)
    BY <1>1, <2>1
  <2>3. rollback' = [rollback EXCEPT ![d] = new]
    BY <1>3
  <2> HIDE DEF new
  <2>4. QED
    BY <1>1, <1>3, <2>1, <2>2, <2>3, RollbackMoves
<1>4. QED
  BY <1>2, <1>3 DEF DeleteBatch, ReportFailure

-----------------------------------------------------------------------------
(* Every step. *)

LEMMA WorldKeepsInv ==
    ASSUME ImportInv, WorldStep
    PROVE  ImportInv'
<1>1. ASSUME NEW r \in Rows, DeleteRow(r)
      PROVE  ImportInv'
  <2>1. /\ DOMAIN stored' = DOMAIN stored \ {r}
        /\ \A s \in DOMAIN stored' : stored'[s] = stored[s]
        /\ stored' \in [DOMAIN stored' -> StoredRow]
        /\ UNCHANGED <<batches, lastBatch, previews, pinned, rate, now, request, rollback>>
    BY <1>1, WithoutShape DEF DeleteRow, ImportInv, ImportTypeOK
  <2>2. ImportTypeOK' /\ BatchesDrawn' /\ CommitsMatch'
    BY <2>1 DEF ImportInv, ImportTypeOK, BatchesDrawn, CommitsMatch, Matching
  <2>3. TablesEmptied'
    BY <2>1, FewerRowsEmptied DEF ImportInv, TablesEmptied
  <2>4. QED
    BY <2>2, <2>3 DEF ImportInv
<1>2. CASE Restart
  <2>1. ImportTypeOK'
    BY <1>2 DEF Restart, ImportInv, ImportTypeOK
  <2>2. BatchesDrawn' /\ CommitsMatch' /\ TablesEmptied'
    BY <1>2 DEF Restart, ImportInv, BatchesDrawn, CommitsMatch, TablesEmptied
  <2>3. QED
    BY <2>1, <2>2 DEF ImportInv
<1>3. ASSUME UNCHANGED <<stored, batches, lastBatch, previews, request, rollback>>,
             rate' \in Rate, now' \in Nat
      PROVE  ImportInv'
  BY <1>3 DEF ImportInv, ImportTypeOK, BatchesDrawn, CommitsMatch, Matching,
              TablesEmptied
<1>4. rate \in Rate /\ now \in Nat
  BY DEF ImportInv, ImportTypeOK
<1>5. (\E r \in Rows : Pin(r)) \/ (\E r \in pinned : Unpin(r)) => ImportInv'
  BY <1>3, <1>4 DEF Pin, Unpin
<1>6. ChangeRate \/ Tick => ImportInv'
  BY <1>3, <1>4 DEF ChangeRate, Tick, Rate
<1>7. QED
  BY <1>1, <1>2, <1>5, <1>6 DEF WorldStep

\* Every step keeps the invariant.
LEMMA StepKeepsImportInv == ImportInv /\ [Next]_vars => ImportInv'
<1> SUFFICES ASSUME ImportInv, [Next]_vars PROVE ImportInv'
  OBVIOUS
<1>1. CASE ImportStep
  <2>1. CASE \E l \in Loops, file \in StatementFiles : Upload(l, "preview", file, None)
    BY <2>1, UploadKeepsInv
  <2>2. CASE \E l \in Loops, file \in StatementFiles, p \in DOMAIN previews :
                Upload(l, "commit", file, p)
    BY <2>2, UploadKeepsInv
  <2>3. CASE \E l \in Loops, file \in Workbooks : Upload(l, "workbook", file, None)
    BY <2>3, UploadKeepsInv
  <2>4. QED
    BY <1>1, <2>1, <2>2, <2>3, ReadDuplicatesKeepsInv, StorePreviewKeepsInv,
       ValidateKeepsInv, WriteBatchKeepsInv
       DEF ImportStep
<1>2. CASE RollbackStep
  BY <1>2, BeginRollbackKeepsInv, DeleteRowsKeepsInv, DeleteBatchKeepsInv DEF RollbackStep
<1>3. CASE WorldStep
  BY <1>3, WorldKeepsInv
<1>4. CASE UNCHANGED vars
  BY <1>4 DEF vars, ImportInv, ImportTypeOK, BatchesDrawn, CommitsMatch, Matching,
              TablesEmptied
<1>5. QED
  BY <1>1, <1>2, <1>3, <1>4 DEF Next

-----------------------------------------------------------------------------
(* Theorems. *)

(* Rows keep their shape, ids of batches are drawn once, a commit that     *)
(* comes to write has what its preview showed, and a rollback leaves the   *)
(* tables it has been through empty: what the properties below rest on     *)
(* (import_service.py, import_preview_service.py, import_batch_service.py).*)
THEOREM ImportInvariant == Spec => []ImportInv
<1>1. Init => ImportInv
  BY InitImportInv
<1>2. QED
  BY <1>1, StepKeepsImportInv, PTL DEF Spec

(* A rollback that comes to the batch row never meets a row of the batch:  *)
(* no import adds rows to a batch that exists, whatever runs in between    *)
(* (the DELETEs of the rollback, one commit each).                         *)
THEOREM RollbackAlwaysEmptiesBatch == Spec => []RollbackEmptiesBatch
<1>1. ASSUME ImportInv, NEW d \in Threads, rollback[d] # None, rollback[d].step = BatchStep
      PROVE  RowsOf(rollback[d].batch) = {}
  <2>1. \A k \in 1..(BatchStep - 1) : Emptied(stored, rollback[d].batch, k)
    BY <1>1 DEF ImportInv, TablesEmptied
  <2>2. \A r \in Rows : \E k \in 1..(BatchStep - 1) : r \in Table[k]
    BY TablesCoverRows
  <2>3. DOMAIN stored \subseteq Rows
    BY <1>1 DEF ImportInv, ImportTypeOK
  <2>4. QED
    BY <2>1, <2>2, <2>3 DEF Emptied, RowsOf
<1>2. ImportInv => RollbackEmptiesBatch
  BY <1>1 DEF RollbackEmptiesBatch
<1>3. QED
  BY <1>2, ImportInvariant, PTL

(* Only the write of an import adds a batch, and it adds one.              *)
LEMMA StepAddsBatch ==
    ASSUME ImportInv, [Next]_vars
    PROVE  \/ /\ NewBatches = {}
              /\ Consumed' = Consumed
           \/ \E l \in Loops : WriteBatch(l) /\ lastBatch' # lastBatch
<1>1. CASE DOMAIN batches' \subseteq DOMAIN batches /\ UNCHANGED previews
  BY <1>1 DEF NewBatches, Consumed
<1>2. ASSUME NEW l \in Loops, WriteBatch(l), lastBatch' = lastBatch
      PROVE  UNCHANGED <<batches, previews>>
  BY <1>2 DEF WriteBatch, ImportInv, ImportTypeOK
<1>3. ASSUME NEW l \in Loops, StorePreview(l)
      PROVE  NewBatches = {} /\ Consumed' = Consumed
  <2>1. PICK p \in PreviewIds \ DOMAIN previews :
          /\ DOMAIN previews' = DOMAIN previews \cup {p}
          /\ previews'[p].consumed = FALSE
          /\ \A q \in DOMAIN previews : previews'[q] = previews[q]
    BY <1>3 DEF StorePreview
  <2>2. QED
    BY <1>3, <2>1 DEF StorePreview, NewBatches, Consumed
<1>4. CASE ImportStep
  BY <1>1, <1>2, <1>3, <1>4 DEF ImportStep, Upload, ReadDuplicates, Validate
<1>5. CASE RollbackStep
  BY <1>1, <1>5 DEF RollbackStep, BeginRollback, DeleteRows, DeleteBatch, ReportFailure
<1>6. CASE WorldStep
  BY <1>1, <1>6 DEF WorldStep, Pin, Unpin, DeleteRow, ChangeRate, Tick, Restart
<1>7. CASE UNCHANGED vars
  BY <1>1, <1>7 DEF vars
<1>8. QED
  BY <1>4, <1>5, <1>6, <1>7 DEF Next

(* What a committed batch is to its preview.                               *)
LEMMA CommittedBatch ==
    ASSUME ImportInv, NEW l \in Loops, WriteBatch(l), lastBatch' # lastBatch
    PROVE  /\ NewBatches = {lastBatch'}
           /\ \A b : b = lastBatch' => RowsOf(b)' = NewRows(l)
           /\ request[l].kind # "commit" => NewStatements = {} /\ Consumed' = Consumed
           /\ request[l].kind = "commit" =>
                 /\ NewStatements = {lastBatch'}
                 /\ request[l].preview \in DOMAIN previews
                 /\ request[l].preview \notin Consumed
                 /\ Consumed' = Consumed \cup {request[l].preview}
                 /\ Matching(previews[request[l].preview], request[l])
<1>1. /\ request[l] \in Request /\ request[l].step = "write" /\ request[l] # None
      /\ Claimable(l)
      /\ lastBatch' = lastBatch + 1
      /\ DOMAIN batches' = DOMAIN batches \cup {lastBatch'}
      /\ batches'[lastBatch'].source =
            IF request[l].kind = "commit" THEN "statement" ELSE "workbook"
      /\ DOMAIN stored' = DOMAIN stored \cup NewRows(l)
      /\ \A r \in DOMAIN stored : stored'[r] = stored[r]
      /\ \A r \in NewRows(l) : stored'[r].batch = lastBatch'
      /\ previews' = Claimed(l)
  BY WrittenBatch DEF WriteBatch
<1>2. lastBatch \in Nat
  BY DEF ImportInv, ImportTypeOK
<1>3. NewBatches = {lastBatch'}
  BY <1>1, <1>2 DEF NewBatches, ImportInv, BatchesDrawn
<1>4. ASSUME NEW b, b = lastBatch'
      PROVE  RowsOf(b)' = NewRows(l)
  <2>1. ASSUME NEW r \in DOMAIN stored
        PROVE  stored[r].batch # b
    BY <1>1, <1>2, <1>4 DEF ImportInv, ImportTypeOK, BatchesDrawn, StoredRow, BatchIds
  <2>2. QED
    BY <1>1, <1>4, <2>1 DEF RowsOf
<1>5. NewStatements = IF request[l].kind = "commit" THEN {lastBatch'} ELSE {}
  BY <1>1, <1>3 DEF NewStatements
<1>6. /\ DOMAIN previews' = DOMAIN previews
      /\ \A p \in DOMAIN previews :
            previews'[p].consumed =
               IF request[l].kind = "commit" /\ p = request[l].preview
               THEN TRUE ELSE previews[p].consumed
  BY <1>1, ClaimedShape
<1>7. CASE request[l].kind # "commit"
  BY <1>3, <1>4, <1>5, <1>6, <1>7 DEF Consumed
<1>8. CASE request[l].kind = "commit"
  <2>1. /\ request[l].preview \in DOMAIN previews
        /\ Matching(previews[request[l].preview], request[l])
    BY <1>1, <1>8 DEF ImportInv, CommitsMatch
  <2>2. ~previews[request[l].preview].consumed
    BY <1>1, <1>8 DEF Claimable
  <2>3. request[l].preview \notin Consumed
    BY <2>2 DEF Consumed
  <2>4. Consumed' = Consumed \cup {request[l].preview}
    BY <1>6, <1>8, <2>1 DEF Consumed
  <2>5. QED
    BY <1>3, <1>4, <1>5, <1>8, <2>1, <2>3, <2>4
<1>9. QED
  BY <1>7, <1>8

(* A statement import writes the rows its user was shown as new and at the *)
(* rates shown, whatever other requests, rollbacks and restarts do between *)
(* the preview and the write (ImportService.commit_import, _validate).     *)
THEOREM WritesOnlyWhatWasShown == Spec => OnlyWhatWasShown
<1>1. ASSUME ImportInv, [Next]_vars, NEW b \in NewStatements
      PROVE  \E p \in Consumed' :
                /\ RowsOf(b)' = previews[p].file \ previews[p].seen
                /\ \A r \in RowsOf(b)' \cap ForeignRows :
                       stored'[r].rate = previews[p].rate
  <2>1. PICK l \in Loops : WriteBatch(l) /\ lastBatch' # lastBatch
    BY <1>1, StepAddsBatch DEF NewStatements
  <2>2. /\ request[l].kind = "commit" /\ b = lastBatch'
        /\ RowsOf(b)' = NewRows(l)
        /\ Consumed' = Consumed \cup {request[l].preview}
        /\ Matching(previews[request[l].preview], request[l])
    BY <1>1, <2>1, CommittedBatch
  <2>3. \A r \in NewRows(l) \cap ForeignRows : stored'[r].rate = request[l].rate
    BY <1>1, <2>1, WrittenBatch
  <2>4. request[l].preview \in Consumed'
    BY <2>2
  <2>5. QED
    BY <2>2, <2>3, <2>4 DEF Matching, NewRows
<1>2. ImportInv /\ [Next]_vars =>
        [\A b \in NewStatements :
            \E p \in Consumed' :
                /\ RowsOf(b)' = previews[p].file \ previews[p].seen
                /\ \A r \in RowsOf(b)' \cap ForeignRows :
                       stored'[r].rate = previews[p].rate]_vars
  BY <1>1
<1>3. QED
  BY <1>2, ImportInvariant, PTL DEF Spec, OnlyWhatWasShown

(* Each statement batch spends one preview and each spent preview made one *)
(* batch, for any number of worker processes that race for it, and a spent *)
(* preview stays spent (the conditional UPDATE that claims it).            *)
THEOREM OnePreviewOneImport == Spec => PreviewSpentOnce
<1>1. ASSUME ImportInv, [Next]_vars
      PROVE  /\ Consumed \subseteq Consumed'
             /\ Cardinality(Consumed' \ Consumed) = Cardinality(NewStatements)
  <2>1. CASE NewStatements = {} /\ Consumed' = Consumed
    BY <2>1
  <2>2. ASSUME NEW l \in Loops, WriteBatch(l), lastBatch' # lastBatch,
               request[l].kind = "commit"
        PROVE  /\ Consumed \subseteq Consumed'
               /\ Cardinality(Consumed' \ Consumed) = Cardinality(NewStatements)
    <3>1. /\ NewStatements = {lastBatch'}
          /\ request[l].preview \notin Consumed
          /\ Consumed' = Consumed \cup {request[l].preview}
      BY <1>1, <2>2, CommittedBatch
    <3>2. Consumed' \ Consumed = {request[l].preview}
      BY <3>1
    <3>3. QED
      BY <3>1, <3>2, FS_Singleton
  <2>3. QED
    BY <1>1, <2>1, <2>2, StepAddsBatch, CommittedBatch DEF NewStatements
<1>2. ImportInv /\ [Next]_vars =>
        [/\ Consumed \subseteq Consumed'
         /\ Cardinality(Consumed' \ Consumed) = Cardinality(NewStatements)]_vars
  BY <1>1
<1>3. QED
  BY <1>2, ImportInvariant, PTL DEF Spec, PreviewSpentOnce

(* A rollback takes rows of its own batch only (the DELETE by batch id).   *)
THEOREM RollbackAlwaysKeepsOthers == Spec => RollbackKeepsOthers
<1>1. ASSUME ImportInv, [Next]_vars, NEW r \in DOMAIN stored \ DOMAIN stored',
             rollback' # rollback
      PROVE  \E d \in Threads : rollback[d] # None /\ rollback[d].batch = stored[r].batch
  <2>1. ASSUME NEW l \in Loops, WriteBatch(l)
        PROVE  rollback' = rollback
    BY <2>1 DEF WriteBatch
  <2>2. ~ImportStep
    BY <1>1, <2>1 DEF ImportStep, Upload, ReadDuplicates, StorePreview, Validate
  <2>3. ~WorldStep
    BY <1>1 DEF WorldStep, Pin, Unpin, DeleteRow, ChangeRate, Tick, Restart
  <2>4. PICK d \in Threads : DeleteRows(d)
    BY <1>1, <2>2, <2>3
       DEF Next, vars, RollbackStep, BeginRollback, DeleteBatch, ReportFailure
  <2>5. rollback[d] # None /\ stored' = Without(Taken(rollback[d].batch, rollback[d].step))
    BY <1>1, <2>4 DEF DeleteRows
  <2>6. r \in Taken(rollback[d].batch, rollback[d].step)
    BY <1>1, <2>5 DEF Without
  <2>7. QED
    BY <2>5, <2>6 DEF Taken, RowsOf
<1>2. ImportInv /\ [Next]_vars =>
        [\A r \in DOMAIN stored \ DOMAIN stored' :
            rollback' # rollback =>
                \E d \in Threads : /\ rollback[d] # None
                                   /\ rollback[d].batch = stored[r].batch]_vars
  BY <1>1
<1>3. QED
  BY <1>2, ImportInvariant, PTL DEF Spec, RollbackKeepsOthers

=============================================================================
