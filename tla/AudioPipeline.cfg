SPECIFICATION FairSpec
CONSTANTS
  Inputs <- MCInputs
  Files <- MCFiles
  TracksOf <- MCTracksOf
  AcbMax = 2
  Settings <- MCSettings
  Faults = {"spawn", "extract", "convert", "remove", "acbPanics", "hcaPanics"}
INVARIANTS
  SourcesOutliveTracks
  TracksConserved
  QuietOnReturn
PROPERTIES
  Returns
CHECK_DEADLOCK FALSE
