SPECIFICATION FairSpec
CONSTANTS
    Starts = {1}
    EventLength = 2
    Refusals = 1
    Breaks = TRUE
    Signals = TRUE
    Shutdowns = TRUE
    NULL = NULL
INVARIANTS SafeWhileUp AskedOnce
PROPERTY SessionMade
CHECK_DEADLOCK FALSE
