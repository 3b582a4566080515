\* Two sockets: the handler of the first outlives it.
SPECIFICATION Spec
CONSTANTS
    Sockets = {s1, s2}
    Ctor = Ctor
    None = None
    MaxProcs = 1
    MaxDrops = 2
    Configs <- TdxOnNode
INVARIANT SessionKeysAgree
CHECK_DEADLOCK FALSE
