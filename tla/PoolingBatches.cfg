SPECIFICATION FairSpec
CONSTANTS
  Shapes <- FourShapes
  PromptLens = {1, 2, 3}
  MaxRequests = 4
INVARIANTS
  ArrivalOrder
  ShapeForEveryBatch
  PooledOwnPrompt
  EveryShapeCompiled
PROPERTIES
  OldestRuns
  EveryRequestRuns
