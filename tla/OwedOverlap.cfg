SPECIFICATION OverlapSpec

CONSTANTS
    People = {ana}
    Spellings = {1}
    TxIds = {}
    ItemIds = {1}
    PaymentIds = {p1, p2}
    MaxAmount = 1
    SentStatuses = {"cancelled"}
    MaxDate = 2
    Requests = {a, b, c}
    None = None

SYMMETRY Symmetry

INVARIANTS
    IssuesAreRepairable

PROPERTIES
    LoneRequestIsAtomic
    RepaymentsNeverLost

CHECK_DEADLOCK FALSE
