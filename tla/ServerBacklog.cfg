CONSTANTS
    NULL = NULL
    Conns = {a, b}
    LISTEN = 3
    Fds = {4, 5}
    QueueLength = 2
    MaxData = 0
    Resets = {a}
SPECIFICATION FairSpec
PROPERTY EveryConnectionAccepted
CHECK_DEADLOCK FALSE
