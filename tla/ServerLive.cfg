CONSTANTS
    NULL = NULL
    Conns = {a, b}
    LISTEN = 3
    Fds = {4}
    QueueLength = 2
    MaxData = 2
    Resets = {a}
SPECIFICATION LiveSpec
PROPERTIES Answered Delivered Closed
CHECK_DEADLOCK FALSE
