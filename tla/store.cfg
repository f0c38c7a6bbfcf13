SPECIFICATION StoreFairSpec
CONSTANTS
  Urls <- MCUrls
  Configs <- MCConfigs
  Versions <- MCVersions
  FirstVersion = 1
  Body <- MCBody
  MayRevert = FALSE
  MaxChanges = 2
  MaxFaults = 1
  MaxCrashes = 2
  Absent = Absent
  Torn = Torn
INVARIANTS
  StoreTypeOK
  WholeBody
  SidecarNeverAhead
PROPERTY
  Converges
