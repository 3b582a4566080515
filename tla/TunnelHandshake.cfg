\* Two sockets, a server restart, one lost connection, three configurations.
SPECIFICATION Spec
CONSTANTS
    Sockets = {s1, s2}
    Ctor = Ctor
    None = None
    MaxProcs = 2
    MaxDrops = 1
    Configs <- Mixed
INVARIANTS
    TunnelInv
    ChannelKeyIsAttested
    SentKeyIsAttested
    AnnouncedKeyIsLive
    PendingIsOwed
    ClosedSocketHoldsNoKey
PROPERTIES
    KeyNeverReplaced
    NoDialAfterClose
CHECK_DEADLOCK FALSE
