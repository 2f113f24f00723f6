CONSTANTS
    Contents = {a, b}
    None = None
    External = External
    Callers = {c1}
    MaxSends = 1
    MaxPreviews = 1
    MaxVersion = 1
    MaxWorld = 0
    MaxForeign = 0
    MaxRestarts = 0
SPECIFICATION Spec
SYMMETRY Interchangeable
INVARIANT
    ClickedNeverResumable
