SPECIFICATION FairSpec
CONSTANTS
  N = 4
  Size <- MCSize
  DownloadMax = 2
  PostMax = 2
  Limit = 3
  Attempts = 2
  Entries = {"execute", "prefetch"}
  Faults = {"transient", "final", "disk", "export", "post", "panic", "cancel"}
  MaxFaults = 2
INVARIANTS
  PermitsFollowBundles
  WorkBounded NoTaskLeftBehind
  TempFilesRemoved
PROPERTIES
  ExecutionEnds
CHECK_DEADLOCK FALSE
