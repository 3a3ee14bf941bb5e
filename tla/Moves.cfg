SPECIFICATION Spec
CONSTANTS
  Cap = 4
  INVALID_BLOCK_NUM = 63
  INVALID_OFFSET = INVALID_OFFSET
  INVALID_CHUNK_ID = 99
  MAX_COUNT = 1048575
  Chunks = {0, 1, 2, 3, 4, 5}
  ChunkCap = 2
  Marks = {"finalized"}
  Versions = {0, 1, 3}
  Ops = {"upsert", "upsert_unrooted", "move_latest", "rewind_finalized", "latest"}
  NoValue = NoValue
  HistoryLens = {2}
  MIN_HISTORY_LENGTH = 2
  MaxWrites = 3
  CrashWrites = 3
  MaxCrashes = 0
INVARIANTS HistoryRangeHolds NoLiveChunkDestroyed
