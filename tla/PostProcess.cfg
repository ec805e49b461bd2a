SPECIFICATION FairSpec
CONSTANTS
  Setups <- MCSetups
  UploadMax = 2
  Attempts = 2
  MaxFaults = 2
INVARIANTS
  OutcomeExact
PROPERTIES
  RemovedAfterUpload
  SourceOutlivesProduct
  PostProcessingEnds
CHECK_DEADLOCK FALSE
