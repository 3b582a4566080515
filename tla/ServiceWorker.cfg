\* A GET and a POST over up to three sockets, the first of which may be up. No symmetry: liveness.
SPECIFICATION FairSpec
CONSTANTS
    Requests = {r1, r2}
    Posts = {r2}
    MaxConns = 3
    MaxKills = 1
    None = None
INVARIANT WorkerInv
PROPERTIES
    ImplementsContract
    SentRequestEnds
    WaitsOnlyForLiveSocket
CHECK_DEADLOCK FALSE
