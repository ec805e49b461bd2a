SPECIFICATION Spec
CONSTANTS
  b1 = b1
  b2 = b2
  b3 = b3
  NoFp = NoFp
  Torn = Torn
  Bundles = {b1, b2, b3}
  Fps = {11, 21, 22, 31}
  MaxVersion = 2
  Catalog <- MCCatalog
  Crcs <- MCCrcs
  Wanted = {b1, b2, b3}
  HipEnabled = TRUE
  LiveExecInfo = FALSE
  RemoveLocal = TRUE
  RecordInWorkDir = TRUE
  BatchBundles = 2
  BytesTrigger = FALSE
  BatchSave = 1
  Capacity = 1
  MaxAttempts = 2
  PublishMidPoll = FALSE
  Siblings = FALSE
  Faults = {"fetch", "connect", "check", "bundle", "upload", "commit", "lostAck", "save", "snapshot", "cleanup", "watermark", "sync", "cancel", "crash"}
  MaxFaults = 2
INVARIANTS
  SnapshotTruthful
  CompletionAccounted
  PipelineConserves
PROPERTY
  SnapshotKeepsBatches
