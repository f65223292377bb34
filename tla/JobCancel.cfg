SPECIFICATION FairSpec
CONSTANTS
    w1 = w1
    Worker = {w1}
    NoWorker = nobody
    MaxToken = 2
    Job = {j1}
    NoJob = nojob
    MayFail = TRUE
    MayCancel = TRUE
    MaxRuns = 1
    MaxRetries = 1
INVARIANT CompletedIsEarned
PROPERTIES AcceptedCancelWins CancelledHandlerStops
CHECK_DEADLOCK FALSE
