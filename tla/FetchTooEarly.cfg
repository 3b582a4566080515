\* Two calls, one connection: a request on the wire before the checks are over.
SPECIFICATION Spec
CONSTANTS
    Requests = {r1, r2}
    Conns = {c1}
    None = None
INVARIANT NoTrafficBeforeHandshake
CHECK_DEADLOCK FALSE
