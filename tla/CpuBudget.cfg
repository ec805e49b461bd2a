SPECIFICATION FairSpec
CONSTANTS
  Requests = {e1, e2, e3, c1, c2}
  Encoders = {e1, e2, e3}
  e1 = e1
  e2 = e2
  e3 = e3
  c1 = c1
  c2 = c2
  CpuMax = 2
  EncodeMax = 2
  Modes = {"capped", "throttled"}
INVARIANTS
  PermitsCounted
  NoLostWakeup
PROPERTIES
  Served
CHECK_DEADLOCK FALSE
