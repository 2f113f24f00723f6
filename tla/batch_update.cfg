CONSTANTS
    Pages = {p1, p2}
    MaxEdits = 1
    MaxHandChanges = 1
    MaxPreviews = 2
    Hazards = {"leave", "restart", "store", "unread"}
SPECIFICATION Spec
SYMMETRY Interchangeable
INVARIANTS
    SnapshotWasShown
    OneWriter
    FailedMeansUntouched
PROPERTIES
    OverwritesOnlyConfirmed
CHECK_DEADLOCK FALSE
