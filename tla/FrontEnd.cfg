SPECIFICATION FrontEndSpec
CONSTANTS
    RequestIds = {1, 2}
    MaxFibers = 2
    MaxNodes = 1
    MaxFailures = 1
    MaxStarts = 1
    Clients = {c1, c2}
    Kinds = {"find", "upsert"}
    MaxIdle = 1
    MaxCalls = 2
    Moduli <- MCModuli
    WideNumbers <- MCWideNumbers
    WideCounts <- MCWideCounts
    Sources <- MCSources
    SrcSeq = 4
    SrcCap = 2
    RingChunks = 2
    Destinations <- MCDestinations
    Threads = 4
    TrueThreads = 2
    LastCount = 7
    MaxCliFailures = 1
    Keys = {"a", "b"}
    Files <- MCFiles
    Updates <- MCUpdates
    UpsertVersions = {2, 3, 4}
    HistoryLength = 2
    MaxRoots = 3
INVARIANTS NothingLost AnswersInOrder PromiseKept WorkerSound UintAgrees RestoresWhole FindsOwn AbortsOnMisuse
PROPERTIES StopReturns Answered EveryoneReturns ToolEnds
CHECK_DEADLOCK FALSE
