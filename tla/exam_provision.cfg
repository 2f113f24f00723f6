\* A task with its formal session, its trial and a course: two requests at once.
SPECIFICATION Spec
CONSTANTS
    r1 = r1
    r2 = r2
    Requests = {r1, r2}
    Subjects = 2
    Variants = {0, 1}
    Values = {0, 1}
    RoomCounts = {1, 2}
    MaxExams = 2
    MaxNumbers = 4
    Budgets <- MCBudgets
    FirstTasks = {"new", "made"}
    MaxMishaps = 1
SYMMETRY MCSymmetry
INVARIANTS
    SessionsAccountedFor
    RowShowsSession
    HistoryKept
    CourseMadeOnce
    BoundIsBound
CHECK_DEADLOCK FALSE
