SPECIFICATION Spec
CONSTANTS
  Cap = 2
  INVALID_BLOCK_NUM = 63
  INVALID_OFFSET = INVALID_OFFSET
  INVALID_CHUNK_ID = 99
  MAX_COUNT = 1048575
  Chunks = {0, 1, 2, 3, 4, 5}
  ChunkCap = 1
  Marks = {"finalized"}
  Versions = {1, 2, 3}
  Ops = {"upsert"}
  NoValue = NoValue
  HistoryLens = {2}
  MIN_HISTORY_LENGTH = 2
  MaxWrites = 5
  CrashWrites = 5
  MaxCrashes = 1
INVARIANTS TypeOK RootIsOwn NoLiveChunkDestroyed
PROPERTY RecoveredAtomic
