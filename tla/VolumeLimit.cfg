SPECIFICATION Spec
CONSTANTS
  Requests = {r1, r2}
  BlockSize = 2
  ChunkBlocks = 2
  MaxModelLen = 12
  MaxNumSeqs = 2
  MaxBatchTkvLimit = 16
  BlocksOverride = 0
  Interleave = FALSE
  PrefixCaching = FALSE
  PromptLens = {2, 7}
  OutputLens = {3}
  Abortable = {}
SYMMETRY Symmetry
INVARIANTS
  VolumeWithinLimit
