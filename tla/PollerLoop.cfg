SPECIFICATION FairSpec
CONSTANTS
  jp = jp
  en = en
  tw = tw
  Regions = {jp, en, tw}
  MaxConcurrent = 1
  TriggerCapacity = 1
  Panics = TRUE
  Triggered = {jp}
  MaxTriggers = 2
INVARIANTS
  PermitsConserved
PROPERTIES
  TriggerServed
  PermitReached
  ShutdownCompletes
CHECK_DEADLOCK FALSE
