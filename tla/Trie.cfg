CONSTANTS
    CacheDepth = 2
    Batches <- MCBatches
    Copies <- MCCopies
    FindKeys <- MCFindKeys
    Databases <- MCDatabases
    MaxPolls = 1
    MaxVersion = 3
SPECIFICATION TrieSpec
INVARIANTS TrieNoFault OffsetsSound SubtriesDescribed FindAgrees
PROPERTY RefinesStore
CHECK_DEADLOCK FALSE
