SPECIFICATION Spec

CONSTANTS
    TxRows = {tx1}
    EventRows = {ev1}
    SheetTxRows = {}
    SheetOwedRows = {owed1}
    SnapshotRows = {}
    ForeignRows = {}
    Rates = {}
    Loops = {l1}
    Threads = {d1, d2}
    PreviewIds = {p1}
    MaxBatch = 2
    TTL = 1
    MaxTime = 1
    None = None

SYMMETRY Symmetry

INVARIANT
    RollbackEmptiesBatch
