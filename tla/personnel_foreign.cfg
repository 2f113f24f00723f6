CONSTANTS
    Contents = {a, b}
    None = None
    External = External
    Callers = {c1}
    MaxSends = 2
    MaxPreviews = 2
    MaxVersion = 2
    MaxWorld = 1
    MaxForeign = 1
    MaxRestarts = 0
SPECIFICATION Spec
SYMMETRY Interchangeable
INVARIANTS
    NoRepeatedContent
    HistoryInConsoleOrder
