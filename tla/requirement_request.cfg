CONSTANTS
    Clients = {c1, c2}
    subjects = subjects
    text = text
    switch = switch
    Required = {subjects}
    Subjects = subjects
    SubjectsText = text
    Switches = {switch}
    Payloads <- MCPayloads
    Valueless = {switch}
    MaxVersions = 3
    MaxChanges = 1
SPECIFICATION Spec
SYMMETRY Interchangeable
INVARIANTS
    OnlyNamedFieldsChange
    ReadyWasConfirmed
    AppliedOnce
    EditsOverwrittenKnowingly
    TaskHasAccepted
CHECK_DEADLOCK FALSE
