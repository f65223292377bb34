SPECIFICATION FairSpec
CONSTANTS
    MaxRuns = 1
    NStories = 2
    AutoRework = 2
    MaxOps = 3
    Ops <- AllOps
    ManualTo = {"awaiting_approval", "executing"}
INVARIANTS
    LandedWasAccepted
    DecidableWhenAwaiting
PROPERTIES
    LandedIsFinal
    RunEnds
    LandingSettles
CHECK_DEADLOCK FALSE
