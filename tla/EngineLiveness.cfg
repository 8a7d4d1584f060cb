SPECIFICATION FairSpec
CONSTANTS
  Requests = {r1, r2, r3}
  BlockSize = 2
  ChunkBlocks = 2
  MaxModelLen = 12
  MaxNumSeqs = 3
  MaxBatchTkvLimit = 14
  BlocksOverride = 0
  Interleave = TRUE
  PrefixCaching = FALSE
  PromptLens = {3, 8}
  OutputLens = {1, 4}
  Abortable = {r1}
PROPERTIES
  ImplementsBatching
  EveryRequestFinishes
