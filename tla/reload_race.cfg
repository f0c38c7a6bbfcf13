SPECIFICATION FairSpec
CONSTANTS
  Urls <- OneUrl
  Configs <- OneConfig
  Versions <- MCVersions
  FirstVersion = 1
  Body <- MCBody
  MayRevert = FALSE
  MaxChanges = 1
  MaxFaults = 0
  MaxCrashes = 0
  Absent = Absent
  Torn = Torn
  File = File
  Names <- MCNames
  FileContents <- OneFileContent
  Ticking = TRUE
  MaxEdits = 0
  MaxSignals = 1
CHECK_DEADLOCK FALSE
PROPERTY
  ReloadsTakeEffect
