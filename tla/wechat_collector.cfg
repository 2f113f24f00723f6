CONSTANTS
    Main = main
    Other = other
    Configured <- InOrder
    Bound = {other}
    Scheduled = {launchd}
    Queued = {queue}
    Title = title
    Date = date
    TitleLine = title_line
    DateLine = date_line
    MoveDate = move_date
    Texts <- Said
    States <- Stating
    Alters <- Altering
    Worded = {title_line, move_date}
    MaxLines <- LinesSaid
    Windows = {1}
    MaxPages = 2
    MaxRuns = 3
    MaxBreaks = 1
SPECIFICATION Spec
INVARIANTS
    OneCollectorAtATime
    OwnChat
    NothingMissed
    RepushedOnlyAfterBreak
CHECK_DEADLOCK FALSE
