CONSTANTS
    viewer1 = viewer1
    viewer2 = viewer2
    NoId = NoId
    Ids = {viewer1}
    DecodeVideo = TRUE
    Faults = {"none", "gone"}
    MaxPads = 2
    MaxDetaches = 1
SPECIFICATION FairSpec
CHECK_DEADLOCK FALSE
INVARIANTS
    TypeOK
    TeesCarryTheirMedia
    DetachedBranchesAreGone
PROPERTIES
    MappedBranchesHangOnTees
    OnlyNewPadsLackTees
    HalfLinkedStaysHalfLinked
    ActorComesBack
    EchoesAreAnswered
    BranchesKeepTheCycle
