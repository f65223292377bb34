SPECIFICATION FairSpec
CONSTANTS
    w1 = w1
    w2 = w2
    Worker = {w1, w2}
    NoWorker = nobody
    MaxToken = 2
    Job = {j1}
    NoJob = nojob
    MayFail = FALSE
    MayCancel = FALSE
    MaxRuns = 1
    MaxRetries = 0
PROPERTIES DeadWorkersJobRecovered OrphanedTreeStops
CHECK_DEADLOCK FALSE
