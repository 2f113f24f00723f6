CONSTANTS
    Pages = {p1, p2}
    MaxEdits = 1
    MaxHandChanges = 0
    MaxPreviews = 2
    Hazards = {"leave", "restart", "store", "unread"}
SPECIFICATION FairSpec
PROPERTIES
    AttemptConcludes
CHECK_DEADLOCK FALSE
