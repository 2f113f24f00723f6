CONSTANTS
    Contents = {a, b}
    None = None
    External = External
    Callers = {c1, c2}
    MaxSends = 2
    MaxPreviews = 2
    MaxVersion = 1
    MaxWorld = 0
    MaxForeign = 0
    MaxRestarts = 1
SPECIFICATION Spec
SYMMETRY Interchangeable
INVARIANTS
    BoundaryNeverResumable
    HistoryOncePerAttempt
    HistoryBacked
PROPERTIES
    UnknownOnlyResolved
    ImplementsSendLedger
