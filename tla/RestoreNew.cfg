SPECIFICATION ArchiveSpec
CONSTANTS
    Sources <- MCSources
    SrcSeq = 4
    SrcCap = 2
    RingChunks = 2
    Destinations <- MCDestinations
    Threads = 4
    TrueThreads = 2
    LastCount = 7
    MaxCliFailures = 0
INVARIANT SameSizeAlwaysRestores
CHECK_DEADLOCK FALSE
