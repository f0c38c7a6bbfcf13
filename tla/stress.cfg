SPECIFICATION FairSpec
CONSTANTS
  Options <- MCOptions
  Needed = 2
  MaxIOErrors = 1
  MaxQueries = 2
  MaxFaults = 2
INVARIANTS
  NoChildLeft
  VerdictSound
  DiffCoversAnswers
  RunCompletes
PROPERTY
  RunReturns
CHECK_DEADLOCK FALSE
