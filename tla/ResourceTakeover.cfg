SPECIFICATION Spec
CONSTANTS
    None = None
    w1 = w1
    w2 = w2
    j1 = j1
    j2 = j2
    b1 = b1
    Worker = {w1, w2}
    Job = {j1, j2}
    Branch = {}
    JobClass <- TwoHeavy
    BranchClass <- NoBranches
    Contained = {j1}
    MaxLeases = 3
    MaxHeavy = 1
    MaxLight = 1
    MaxCpu = 65
    MaxFaults = 2
INVARIANT WaitIsRecoverable
SYMMETRY Sym
CHECK_DEADLOCK FALSE
