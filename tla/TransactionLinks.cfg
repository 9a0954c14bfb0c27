SPECIFICATION LinksSpec

CONSTANTS
    People = {ana}
    Spellings = {1}
    TxIds = {t1, t2}
    ItemIds = {1, 2}
    PaymentIds = {p1}
    MaxAmount = 1
    SentStatuses = {}
    MaxDate = 1
    None = None

SYMMETRY Symmetry

CONSTRAINT Small

INVARIANT
    LinksResolve

PROPERTIES
    DeletionMatchesPreview
    NoPaidItemSwept
    ChangesLogged

CHECK_DEADLOCK FALSE
