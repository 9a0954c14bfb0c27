SPECIFICATION Spec

CONSTANTS
    People = {ana}
    Spellings = {1}
    TxIds = {t1}
    ItemIds = {1, 2}
    PaymentIds = {p1, p2}
    MaxAmount = 2
    SentStatuses = {"cancelled"}
    MaxDate = 1
    None = None

SYMMETRY Symmetry

CONSTRAINT Small

INVARIANTS
    AutoAllocationOldestFirst
    AutomaticPaymentAccepted

PROPERTIES
    DeletedItemsFrozen
    MoneyConserved
    LinksStayWithinTransaction

CHECK_DEADLOCK FALSE
