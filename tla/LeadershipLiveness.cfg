SPECIFICATION FairSpec
CONSTANTS
    Worker = {w1, w2}
    NoWorker = NoWorker
    LeaseLen = 1
    MaxLag = 0
    Commands = {"draining"}
    MaxToken = 2
    MaxRequests = 0
PROPERTIES
    StandbyTakesOver
    StopEmptiesFleet
CHECK_DEADLOCK FALSE
