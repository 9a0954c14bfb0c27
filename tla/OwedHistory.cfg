SPECIFICATION Spec

CONSTANTS
    People = {ana, bob}
    Spellings = {1, 2}
    TxIds = {}
    ItemIds = {1}
    PaymentIds = {p1, p2}
    MaxAmount = 1
    SentStatuses = {"open"}
    MaxDate = 2
    None = None

SYMMETRY Symmetry

INVARIANTS
    RepairSettles
    CleanLogReplaysToday

PROPERTIES
    PastKeepsValue
    PaymentUnifiesLabels

CHECK_DEADLOCK FALSE
