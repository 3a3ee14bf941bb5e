SPECIFICATION FairSpec
CONSTANTS
  Cap = 4
  INVALID_BLOCK_NUM = 63
  INVALID_OFFSET = INVALID_OFFSET
  INVALID_CHUNK_ID = 99
  MAX_COUNT = 1048575
  Chunks = {0, 1, 2, 3, 4, 5}
  ChunkCap = 1
  Marks = {"finalized"}
  Versions = {0, 1, 2, 3, 4}
  Ops = {"upsert", "zap"}
  NoValue = NoValue
  HistoryLens = {NoValue}
  MIN_HISTORY_LENGTH = 2
  MaxWrites = 5
  CrashWrites = 2
  MaxCrashes = 2
PROPERTY CallsEnd
INVARIANT CleanCopy
