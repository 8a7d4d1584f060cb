SPECIFICATION FairSpec
CONSTANTS
  Limit = 2
  WorldSize = 5
  Depths <- LoadAndWarmups
INVARIANTS
  ConcurrencyLimit
  AllCompleteBeforeReturn
  NoDeadlock
PROPERTIES
  NobodyHangs
