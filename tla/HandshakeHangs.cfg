\* One socket that is closed before its handshake ends.
SPECIFICATION FairSpec
CONSTANTS
    Sockets = {s1}
    Ctor = Ctor
    None = None
    MaxProcs = 1
    MaxDrops = 1
    Configs <- TdxOnNode
PROPERTY ConnectionPromiseSettles
CHECK_DEADLOCK FALSE
