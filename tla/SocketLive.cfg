SPECIFICATION FairSpec
CONSTANTS
    PACKET_SIZE = 16
    Bodies = {NULL, 0, 2}
    MaxPackets = 3
    SndCap = 16
    RcvCap = 4
    U16 = 65536
    PeerSeeds = {0, 1}
    Failures = FALSE
    NULL = NULL
PROPERTY EveryPacketArrives
CHECK_DEADLOCK FALSE
