CONSTANTS
    Pages = {p1, p2}
    Account <- OwnAccounts
    MaxPreparations = 2
    Hazards = {"timeout", "lookup", "confirmation", "store", "restart", "draft"}
    PromptHandlers = TRUE
SPECIFICATION Spec
SYMMETRY Interchangeable
INVARIANTS
    OnePreparation
    CreatedOnce
CHECK_DEADLOCK FALSE
