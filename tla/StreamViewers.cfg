CONSTANTS
    viewer1 = viewer1
    viewer2 = viewer2
    NoId = NoId
    Ids = {viewer1, viewer2}
    DecodeVideo = FALSE
    Faults = {}
    MaxPads = 1
    MaxDetaches = 2
SPECIFICATION Spec
CHECK_DEADLOCK FALSE
SYMMETRY Symmetry
INVARIANTS
    PausedTeesAreBeingWorkedOn
    ErrorsAreContained
    NoPadIsOrphaned
PROPERTIES
    OnlyRetriesFailForGood
