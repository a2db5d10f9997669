CONSTANTS
    Faults = {"lock", "play"}
    U32Max = 8
    MaxRuns = 2
SPECIFICATION FairSpec
CHECK_DEADLOCK FALSE
INVARIANTS
    TypeOK
    LivePipelinesAreHeld
    LoopsEndWithTheirRun
PROPERTIES
    FailuresSlowDown
    ShutdownCompletes
    RestartsEndTheRun
    KeepsTheRunCycle
