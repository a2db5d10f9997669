CONSTANTS
    Faults = {"null"}
    U32Max = 8
    MaxRuns = 2
SPECIFICATION FairSpec
CHECK_DEADLOCK FALSE
PROPERTIES
    ShutdownCompletes
