SPECIFICATION Spec
CONSTANTS
    Worker = {w1, w2}
    NoWorker = NoWorker
    LeaseLen = 1
    MaxLag = 1
    Commands = {}
    MaxToken = 2
    MaxRequests = 2
SYMMETRY Sym
INVARIANTS
    TypeOK
    TokensDisjoint
    BatchKeepsFence
    RunOnceServedOnce
PROPERTIES
    FencedWritesOrdered
    ImplementsFencedLease
CHECK_DEADLOCK FALSE
