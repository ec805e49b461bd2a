SPECIFICATION Spec
CONSTANTS
  b1 = b1
  b2 = b2
  b3 = b3
  NoFp = NoFp
  Torn = Torn
  Bundles = {b1, b2, b3}
  Fps = {11, 21, 22, 31}
  MaxVersion = 2
  Catalog <- MCCatalog
  Crcs <- MCCatalog
  Wanted = {b1, b2, b3}
  HipEnabled = TRUE
  LiveExecInfo = FALSE
  RemoveLocal = FALSE
  RecordInWorkDir = TRUE
  BatchBundles = 0
  BytesTrigger = TRUE
  BatchSave = 0
  Capacity = 1
  MaxAttempts = 2
  PublishMidPoll = TRUE
  Siblings = TRUE
  Faults = {"fetch", "connect", "check", "snapshot", "watermark", "sync"}
  MaxFaults = 1
PROPERTY
  ImplementsMirror
