SPECIFICATION FairSpec
CONSTANTS
  f1 = f1
  f2 = f2
  f3 = f3
  NoFile = NoFile
  Files = {f1, f2, f3}
  Size = 1
  Present = {f3}
  MaxInFlight = 2
  QueueCap = 1
  WireCap = 1
  Faults = {"reject", "timeout", "nonfatal", "fatal", "disconnect", "stall", "local", "ping", "window"}
  MaxFaults = 1
INVARIANTS
  CommitCovers
PROPERTIES
  BatchEnds
CHECK_DEADLOCK FALSE
