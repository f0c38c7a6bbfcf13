SPECIFICATION Spec
CONSTANTS
  Urls <- MCUrls
  Configs <- MCConfigs
  Versions <- MCVersions
  FirstVersion = 1
  Body <- MCBody
  MayRevert = FALSE
  MaxChanges = 1
  MaxFaults = 1
  MaxCrashes = 0
  Absent = Absent
  Torn = Torn
  File = File
  Names <- MCNames
  FileContents <- MCFileContents
  Ticking = TRUE
  MaxEdits = 1
  MaxSignals = 1
CHECK_DEADLOCK FALSE
INVARIANTS
  MatcherComplete
  CycleReloads
PROPERTY
  FetcherSwapsCurrent
