CONSTANTS
    Finds = {1, 2}
    NumChunks = 4
    Capacity = 2
    MaxVersion = 3
    Protocols = {"async"}
    MaxBytes = 3
    CacheSlots = 2
SPECIFICATION ReadersSpec
INVARIANT FindCorrectAlways
CHECK_DEADLOCK FALSE
