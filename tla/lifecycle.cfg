SPECIFICATION FairSpec
CONSTANT
  Configs <- MCConfigs
INVARIANTS
  TypeOK
  ReadyMeansStarted
  ExitsCleanlyOnlyIfAsked
  AcceptedIsUsable
PROPERTY
  ShutdownEnds
CHECK_DEADLOCK FALSE
