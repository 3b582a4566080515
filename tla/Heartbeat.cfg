\* Two sockets, an interval of 3 with sweeps up to 1 late, over four sweeps.
SPECIFICATION Spec
CONSTANTS
    Sockets = {s1, s2}
    Interval = 3
    Timeout = 4
    MaxRtt = 2
    Jitter = 1
    MaxTime = 13
INVARIANTS
    HeartbeatInv
    ResponsiveIsKept
    DeadIsReaped
CHECK_DEADLOCK FALSE
