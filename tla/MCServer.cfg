SPECIFICATION Spec
CONSTANTS
    NULL = NULL
    Conns = {a, b}
    LISTEN = 3
    Fds = {4, 5}
    QueueLength = 2
    MaxData = 0
    Resets = {a, b}
SYMMETRY Alike
INVARIANTS TypeOK PushFits Tracked RefsCounted ServerListens
CHECK_DEADLOCK FALSE
