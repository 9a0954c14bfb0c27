SPECIFICATION Spec

CONSTANTS
    TxRows = {tx1}
    EventRows = {ev1}
    SheetTxRows = {}
    SheetOwedRows = {}
    SnapshotRows = {}
    ForeignRows = {ev1}
    Rates = {r1}
    Loops = {l1, l2}
    Threads = {}
    PreviewIds = {p1, p2}
    MaxBatch = 2
    TTL = 1
    MaxTime = 0
    None = None

SYMMETRY Symmetry

PROPERTIES
    OnlyWhatWasShown
    PreviewSpentOnce
