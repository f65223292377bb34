SPECIFICATION Spec
CONSTANTS
    MaxRuns = 1
    NStories = 1
    AutoRework = 0
    MaxOps = 0
    Ops <- AllOps
    ManualTo = {}
INVARIANT AcceptedDeliveryLands
CHECK_DEADLOCK FALSE
