\* Two quote requests for two keys, two attempts, two visits, one restart. No
\* symmetry: liveness.
SPECIFICATION FairSpec
CONSTANTS
    r1 = r1
    r2 = r2
    v1 = v1
    v2 = v2
    Requests = {r1, r2}
    Keys = {k1, k2}
    Visits = {v1, v2}
    Setups <- SomeSetups
    MaxRetries = 2
    MaxRestarts = 1
    None = None
INVARIANTS
    KettleInv
    CertMatchesReport
    CleanExitLeavesNoWorkerd
    OnInitRunsOnce
PROPERTIES
    QuoteRequestSettles
    StopCompletes
CHECK_DEADLOCK FALSE
