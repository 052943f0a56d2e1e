SPECIFICATION FairSpec
CONSTANTS
    PACKET_SIZE = 8
    Bodies = {1}
    MaxPackets = 1
    SndCap = 8
    RcvCap = 8
    U16 = 65536
    PeerSeeds = {0}
    Failures = TRUE
    NULL = NULL
PROPERTY PeerCloseNoticed
CHECK_DEADLOCK FALSE
