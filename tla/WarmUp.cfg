SPECIFICATION Spec
CONSTANTS
  Requests = {0, 1, 2}
  BlockSize = 4
  ChunkBlocks = 2
  MaxModelLen = 16
  MaxNumSeqs = 2
  MaxBatchTkvLimit = 32
  BlocksOverride = 0
  Interleave = TRUE
  PrefixCaching = FALSE
  WarmupLens = {1, 2, 3, 4, 5, 6, 7, 8, 9}
INVARIANTS
  CleanAfterWarmup
  WarmupBlocksExist
  WarmupDecodeSlot
PROPERTIES
  WarmupCompletes
