SPECIFICATION FairSpec
CONSTANTS
    None = None
    w1 = w1
    w2 = w2
    j1 = j1
    j2 = j2
    b1 = b1
    Worker = {w1}
    Job = {j1, j2}
    Branch = {b1}
    JobClass <- LightCallsCli
    BranchClass <- CliBranch
    Contained = {j1}
    MaxLeases = 3
    MaxHeavy = 1
    MaxLight = 1
    MaxCpu = 65
    MaxFaults = 1
PROPERTIES
    WaitEnds
    EvictionFrees
CHECK_DEADLOCK FALSE
