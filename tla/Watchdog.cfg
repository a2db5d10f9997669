CONSTANTS
    WatchdogThreshold = 3
    WatchdogWindow = 2
    MaxTime = 7
SPECIFICATION Spec
INVARIANTS
    CountIsLongestChain
PROPERTIES
    TripsExactlyOnAChain
    BehavesLikeWatchdogCount
CHECK_DEADLOCK FALSE
