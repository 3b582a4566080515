\* Two sockets, one lost connection, one life of the server, either host. No symmetry: liveness.
SPECIFICATION FairSpec
CONSTANTS
    Sockets = {s1, s2}
    Ctor = Ctor
    None = None
    MaxProcs = 1
    MaxDrops = 1
    Configs <- BothHosts
PROPERTIES
    LiveHandshakeSettles
    ReconnectsByItself
    EveryControlSocketAnswered
CHECK_DEADLOCK FALSE
