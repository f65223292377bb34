SPECIFICATION Spec
CONSTANTS
    MaxRuns = 2
    NStories = 1
    AutoRework = 1
    MaxOps = 1
    Ops = {"cancel_execution", "crash"}
    ManualTo = {}
INVARIANTS
    TypeOK
    DeliveredWasGated
    AbortWithinOneStage
    NoZombieLoop
CHECK_DEADLOCK FALSE
