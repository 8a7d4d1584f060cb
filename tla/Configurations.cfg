SPECIFICATION Spec
CONSTANTS
  Models <- ThreeModels
  OldSendnn = FALSE
  DetectedCpus = 5
  PrecompiledCache = TRUE
  Configs <- Engines
  Changes <- UserChoices
  MaxChanges = 2
INVARIANTS
  CheckedTwice
  StrictMeansKnown
  MostSpecificModel
  ForgetsHistory
