\* One WebSocket, two messages each way, a channel and one that replaces it. No
\* symmetry: liveness.
SPECIFICATION FairSpec
CONSTANTS
    Ids = {w1}
    Chans = {c1, c2}
    MaxSends = 2
    None = None
INVARIANTS
    MockInv
    HeardInOrder
PROPERTIES
    ClosedMockIsSilent
    LostChannelClosesMocks
CHECK_DEADLOCK FALSE
