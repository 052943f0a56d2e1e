SPECIFICATION KitSpec
CONSTANTS
    NULL = NULL
    Type = {a, b}
    QLength = 2
    MaxCount = 5
    IO = IO
    MAIN = MAIN
    SyncLength = 2
    SyncMax = 4
    Buffers = {1, 2}
    Sizes = {1, 3, 5}
    Values <- BufferValues
    Width = 5
    GroupBits = 2
    MinExp = 1
    QueueCnt = 4
    PoolSize = 2
    Grow = 1
    MaxItems = 2
    MaxRefs = 2
    HeapLength = 6
    HeapValues = {1, 2, 3}
    ArrayLength = 4
    W = 2
    K = 2
    Delays = {1, 3}
    Cycles = {0, 2}
    MapSize = 2
    MaxIds = 3
    MaxTicks = 4
    Root = Root
    Objs = {x, y}
    MaxHolds = 1
    MaxKids = 2
    MaxPool = 1
    U32 = 64
    FrameMsec = 4
    Durations = {0, 2, 5, 11}
    Short = 2
    Oversleep = {0, 1}
    Starts = {0, 3}
    MaxTime = 66
    MaxHandlers = 3
    MaxEmits = 2
INVARIANTS
    CountAgrees
    SyncInOrder EventsFit
    BuffersApart
    CollectionsOrdered
    NoneForgotten Punctual HandlersKept
    TreeKept WalkSafe
    PoolClearedAgain
    EmitsExactly
PROPERTY RefinesFifo
SYMMETRY Symmetry
CHECK_DEADLOCK FALSE
