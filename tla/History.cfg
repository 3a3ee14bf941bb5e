SPECIFICATION Spec
CONSTANTS
  Cap = 4
  INVALID_BLOCK_NUM = 63
  INVALID_OFFSET = INVALID_OFFSET
  INVALID_CHUNK_ID = 99
  MAX_COUNT = 1048575
  Chunks = {0, 1, 2, 3, 4, 5}
  ChunkCap = 2
  Marks = {"finalized"}
  Versions = {1, 2, 3, 4}
  Ops = {"upsert", "upsert_slow", "rewind"}
  NoValue = NoValue
  HistoryLens = {2, NoValue}
  MIN_HISTORY_LENGTH = 2
  MaxWrites = 4
  CrashWrites = 4
  MaxCrashes = 0
INVARIANTS NoFault CopiesAgree ListsSound NoLiveChunkDestroyed
