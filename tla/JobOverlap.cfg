SPECIFICATION Spec
CONSTANTS
    w1 = w1
    w2 = w2
    Worker = {w1, w2}
    NoWorker = nobody
    MaxToken = 3
    Job = {j1}
    NoJob = nojob
    MayFail = FALSE
    MayCancel = FALSE
    MaxRuns = 2
    MaxRetries = 0
SYMMETRY Sym
INVARIANTS TypeOK NoReplay OverlapNeedsRetry
PROPERTY OnlyNewestRunPublishes
CONSTRAINT LateRuns
CHECK_DEADLOCK FALSE
