CONSTANTS
    viewer1 = viewer1
    viewer2 = viewer2
    post1 = post1
    offer1 = offer1
    answer1 = answer1
    post2 = post2
    offer2 = offer2
    answer2 = answer2
    offerAgain = offerAgain
    answerAgain = answerAgain
    offerWrong = offerWrong
    answerWrong = answerWrong
    postAgain = postAgain
    delete = delete
    deleteAgain = deleteAgain
    reset1 = reset1
    reset2 = reset2
    NoId = NoId
    NoRequest = NoRequest
    Ids = {viewer1}
    Requests = {post1, offer1, answer1, delete, reset1}
    Kind <- KindOf
    Target <- TargetOf
    Body <- BodyOf
    MailboxCap = 2
    FailureCap = 1
    MaxRuns = 1
    ResetMayTimeOut = FALSE
    WatchdogThreshold = 1
SPECIFICATION FairSpec
CHECK_DEADLOCK FALSE
PROPERTIES
    ReportedBranchesAreReaped
    TripsRestartThePipeline
    EstablishedEndsForCause
    SessionsAreAtomic
