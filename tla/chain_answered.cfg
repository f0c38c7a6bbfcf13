SPECIFICATION FairSpec
CONSTANTS
  q1 = q1
  q2 = q2
  q3 = q3
  Nil = Nil
  Failed = Failed
  Panicked = Panicked
  Callers <- TwoQueries
  Keys <- MCKeys
  Messages <- MCMessages
  Requests <- MCRequests
  Answers <- OneAnswer
  BlockLists <- MCBlockLists
  ConfiguredCapacity = 1
  Second = 1
  MinTTL = 0
  MaxTTL = 10
  NegativeTTLMax = 1
  Protocols <- BothProtocols
  Ages <- Held
  ZeroID = ZeroID
  MaxSwaps = 1
  MaxTime = 2
INVARIANTS
  ReplyMatches
  BlockVerdict
  CacheKeyed
PROPERTIES
  EveryQueryAnswered
CHECK_DEADLOCK FALSE
