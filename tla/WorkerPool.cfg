SPECIFICATION FairSpec
CONSTANTS
  b1 = b1
  b2 = b2
  b3 = b3
  NoWorker = NoWorker
  Bundles = {b1, b2, b3}
  Flushers = {b1, b2}
  Images <- MCImages
  Threads = 2
  PoolSize = 2
  CpuMax = 3
  MaxCalls = 5
  Faults = {"crash", "unreaped", "error", "spawn", "idle", "abort"}
  MaxFaults = 2
INVARIANTS
  LeasesConserved
  PoolClean
  FailuresOwned
PROPERTIES
  ExportsEnd
CHECK_DEADLOCK FALSE
