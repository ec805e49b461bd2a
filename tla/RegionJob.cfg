SPECIFICATION Spec
CONSTANTS
  Faults = {"config", "http", "refused", "write", "git", "network", "lostAck", "rejected", "crash"}
  MaxFaults = 1
  Sources <- MCSources
  Layers <- MCLayers
  Machines <- MCMachines
  Providers <- MCProviders
  Rounds = 2
  MaxPublished = 1
  Regions = {jp, en}
  Here = jp
  Nobody = Nobody
  MaxCharts = 2
  MaxSyncs = 3
  jp = jp
  en = en
INVARIANTS
  SettingsResolved
  CatalogueAgrees
  ChartsAccounted
  JobAccounted
CHECK_DEADLOCK FALSE
