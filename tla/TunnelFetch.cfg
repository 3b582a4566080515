\* Two calls over two connections; the second replaces the first.
SPECIFICATION Spec
CONSTANTS
    Requests = {r1, r2}
    Conns = {c1, c2}
    None = None
SYMMETRY Symmetry
INVARIANTS
    FetchInv
    PendingOnLiveConnection
PROPERTIES
    ImplementsContract
CHECK_DEADLOCK FALSE
