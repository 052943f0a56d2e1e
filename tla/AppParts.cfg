SPECIFICATION AppSpec
CONSTANTS
    NULL = NULL
    Type = {a, b, c}
    Length = 3
    Socks = {s1, s2}
    SESSION_LENGTH = 1
    CONNECT = 0
    Pids = {1}
    Servers = {TRUE, FALSE}
    MaxSessions = 2
    MaxSends = 2
    MaxArrivals = 3
    Contents = {0, 1}
    MaxSent = 1
    MaxReceived = 3
    GcObjs = {o1, o2, o3}
    MAIN = MAIN
    Plain = Plain
    GcPrograms <- Programs
    SweepMax = 1
    MaxGcOps = 4
    TabKeys <- Keys
    TabSizes <- Sizes
    StrTexts <- Texts
    STRCACHE_M = 2
    MINSTRTABSIZE = {2, 8}
    MaxLong = 2
    IntBits = 8
    NBM = 5
    NBITS = 4
    MAXSIGDIG = 2
    NB = 2
    SZINT = 2
    MAXINTSIZE = 4
    MAXALIGN = 2
    MAXSIZE = 20
    MaxCaptures = 4
    MaxDepth = 20
    MaxIndex = 7
    IntMax = 3
    MAXINDEXRK = 3
    LFIELDS_PER_FLUSH = 2
    LUAI_MAXSHORTLEN = 40
    StackSize = 60
    MAXTAGLOOP = 5
    StepBits = 9
    Fuel = 60
INVARIANTS
    IndicesAgree
    SessionKeeps
    ReadsBack
    LuaCollects
    TablesFind
    StringsInterned
PROPERTIES
    RefinesFifo
    NumbersAgree
    TextsReadBack
    LibrariesAgree
    CompiledRuns
SYMMETRY Symmetry
CHECK_DEADLOCK FALSE
