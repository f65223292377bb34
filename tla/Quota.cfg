SPECIFICATION Spec
CONSTANTS
    None = None
    AnyModel = AnyModel
    e1 = e1
    p1 = p1
    c1 = c1
    c2 = c2
    c3 = c3
    m1 = m1
    m2 = m2
    Exec = {e1, p1}
    Preflight = {p1}
    Call = {c1, c2, c3}
    Plan <- MCPlan
    Model = {m1, m2}
    ModelOf <- MCModelOf
    Tokens <- MCTokens
    Configured = {AnyModel}
    Kind = {"minute"}
    Length <- MCLength
    MaxRequests <- MCMaxRequests
    MaxTokens <- MCMaxTokens
    MaxConcurrency = 2
    TTL <- MCTTL
    MaxTime = 1
    MaxFaults = 1
INVARIANTS
    TypeOK
    LedgerMatchesLeases
    UsageWithinLimits
    SpendNeverLost
    OutcomeMatchesLease
PROPERTIES
    UsageNeverForgotten
CHECK_DEADLOCK FALSE
