SPECIFICATION FairSpec
CONSTANTS
  Options <- MiniRunOnly
  Needed = 2
  MaxIOErrors = 1
  MaxQueries = 2
  MaxFaults = 0
INVARIANT
  RunLeavesVerdict
CHECK_DEADLOCK FALSE
