CONSTANTS
    Faults = {"play"}
    U32Max = 8
    MaxRuns = 2
SPECIFICATION Spec
CHECK_DEADLOCK FALSE
INVARIANTS
    ErrorsBackOff
