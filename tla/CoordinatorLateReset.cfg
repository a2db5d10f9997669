CONSTANTS
    viewer1 = viewer1
    viewer2 = viewer2
    post1 = post1
    offer1 = offer1
    answer1 = answer1
    post2 = post2
    offer2 = offer2
    answer2 = answer2
    offerAgain = offerAgain
    answerAgain = answerAgain
    offerWrong = offerWrong
    answerWrong = answerWrong
    postAgain = postAgain
    delete = delete
    deleteAgain = deleteAgain
    reset1 = reset1
    reset2 = reset2
    NoId = NoId
    NoRequest = NoRequest
    Ids = {viewer1, viewer2}
    Requests = {post1, offer1, delete, post2, reset1}
    Kind <- KindOf
    Target <- TargetOf
    Body <- BodyOf
    MailboxCap = 2
    FailureCap = 1
    MaxRuns = 2
    ResetMayTimeOut = TRUE
    WatchdogThreshold = 2
SPECIFICATION Spec
CHECK_DEADLOCK FALSE
INVARIANTS
    NoWaiterOutlivesItsRun
