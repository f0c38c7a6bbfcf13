SPECIFICATION FairSpec
CONSTANT
  Configs <- MCConfigs
PROPERTY
  ServeEndsOnError
CHECK_DEADLOCK FALSE
