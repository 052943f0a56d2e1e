SPECIFICATION Spec
CONSTANTS
    PACKET_SIZE = 9
    Bodies = {NULL, 0, 2}
    MaxPackets = 3
    SndCap = 3
    RcvCap = 2
    U16 = 65536
    PeerSeeds = {0, 1}
    Failures = TRUE
    NULL = NULL
INVARIANTS TypeOK PacketsInOrder StreamConserved SleepsDrained
CHECK_DEADLOCK FALSE
