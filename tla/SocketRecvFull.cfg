SPECIFICATION FairSpec
CONSTANTS
    PACKET_SIZE = 8
    Bodies = {NULL, 1}
    MaxPackets = 2
    SndCap = 8
    RcvCap = 8
    U16 = 65536
    PeerSeeds = {0}
    Failures = FALSE
    NULL = NULL
PROPERTY FlushRecvReturns
CHECK_DEADLOCK FALSE
