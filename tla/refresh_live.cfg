SPECIFICATION FairSpec
CONSTANTS
  Urls <- OneUrl
  Configs <- OneConfig
  Versions <- MoreVersions
  FirstVersion = 1
  Body <- WideBody
  MayRevert = FALSE
  MaxChanges = 1
  MaxFaults = 1
  MaxCrashes = 0
  Absent = Absent
  Torn = Torn
  File = File
  Names <- MCNames
  FileContents <- OneFileContent
  Ticking = TRUE
  MaxEdits = 0
  MaxSignals = 1
CHECK_DEADLOCK FALSE
INVARIANT
  BlocksExactlyListed
PROPERTIES
  FetchesTakeEffect
  HangupRefetches
  ShutdownCompletes
