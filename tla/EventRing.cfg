SPECIFICATION EventRingSpec
CONSTANTS
    Recorders = {w1, w2}
    Readers = {r1}
    DescCapacity = 2
    PayloadBuf = 5
    WindowIncr = 2
    Word = 64
    PayloadSize = 1
    MaxEvents = 6
INVARIANT IteratorsRight
PROPERTY EventDelivered
CHECK_DEADLOCK FALSE
