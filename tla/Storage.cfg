SPECIFICATION StorageSpec
CONSTANTS
    Finds = {1, 2}
    NumChunks = 4
    Capacity = 2
    MaxVersion = 3
    Protocols = {"blocking", "owning", "async", "rw"}
    MaxBytes = 3
    CacheSlots = 2
    Reads = {1, 2}
    WriteBufs = 4
    CqHalf = 1
    IoModes <- MCIoModes
    NumWChunks = 6
    ChunkUnits = 4
    BufUnits = 2
    Sizes = {3}
    RootSizes = {1, 3}
    MaxWNodes = 2
    DeviceKinds <- MCKinds
    DeviceSizes <- MCSizes
    PoolPage = 2
    PoolFlags <- MCFlags
    MaxPoolOps = 2
INVARIANTS AnswersRight CacheRight BuffersConserved NodesPlaced FlushedIsDurable ChunksSound
PROPERTIES FindAnswered ReadsComplete WriteReturns
CHECK_DEADLOCK FALSE
