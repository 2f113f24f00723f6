CONSTANTS
    h1 = h1
    h2 = h2
    Handlers <- MCHandlers
    Candidates <- MCCandidates
    Masked <- MCMasked
    FirstRosters <- MCRosters
    Proposals <- MCProposals
    MaxValue = 2
    MaxChanges = 2
    MaxEvents = 3
SPECIFICATION Spec
INVARIANTS
    OpenMeansUntouched
    OverwritesOnlyShown
    AppliedIsOnline
    ApplyingIsHeld
SYMMETRY MCSymmetry
CHECK_DEADLOCK FALSE
