SPECIFICATION Spec
CONSTANTS
    None = None
    Rows = {"in", "out"}
    Accounts = {"owed", "symbol", "other"}
    Ages <- OldAges
    Absences <- OldAbsences
    MaxCrashes = 2
INVARIANTS
    ServesCurrentSchema
PROPERTIES
    BackfilledUnlessCutOff
    ChoicesOutliveStarts
    EventuallyServes
