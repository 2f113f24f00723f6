CONSTANTS
    Last = 0
    Courses = {k1, k2}
    Scheduler = scheduler
    Pages = {p1}
    FirstExams <- MCExams
    Starts <- MCStarts
    DueFrom <- MCDueFrom
    Window = 1
    MaxClock = 2
    MaxEvents = 2
SPECIFICATION Spec
INVARIANTS
    RemindedOnce
    SuccessIsBound
    RunningIsRun
    CoveredOnceLookedAt
SYMMETRY MCSymmetry
CHECK_DEADLOCK FALSE
