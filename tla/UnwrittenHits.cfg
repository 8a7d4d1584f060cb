SPECIFICATION Spec
CONSTANTS
  Requests = {r1, r2, r3}
  BlockSize = 2
  ChunkBlocks = 3
  MaxModelLen = 16
  MaxNumSeqs = 2
  MaxBatchTkvLimit = 32
  BlocksOverride = 0
  Interleave = TRUE
  PrefixCaching = TRUE
  PromptLens = {1, 7, 13}
  OutputLens = {1, 3}
  Abortable = {r1}
INVARIANTS
  HitsWereWritten
