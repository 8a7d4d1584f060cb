SPECIFICATION Spec
CONSTANTS
  Requests = {r1, r2, r3}
  BlockSize = 2
  ChunkBlocks = 3
  MaxModelLen = 16
  MaxNumSeqs = 2
  MaxBatchTkvLimit = 32
  BlocksOverride = 0
  Interleave = TRUE
  PrefixCaching = TRUE
  PromptLens = {1, 10, 13}
  OutputLens = {1, 6}
  Abortable = {r1, r2, r3}
SYMMETRY Symmetry
INVARIANTS
  TypeOK
  AtMostOnePrefill
  BatchWithinLimit
  DecodeAgreement
  OutputCoversScheduled
  BlockAgreement
  DecodeSlotInLastBlock
  PoolSuffices
  TkvCoversBatch
  PrefillComplete
  ChunkWellFormed
  TkvWithinContext
