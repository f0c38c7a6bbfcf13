SPECIFICATION Spec
CONSTANTS
  q1 = q1
  q2 = q2
  q3 = q3
  Nil = Nil
  Failed = Failed
  Panicked = Panicked
  Callers <- ThreeQueries
  Keys <- MCKeys
  Messages <- MCMessages
  Requests <- SingleRequests
  Answers <- CacheableAnswers
  BlockLists <- NoBlockLists
  ConfiguredCapacity = 1
  Second = 1
  MinTTL = 0
  MaxTTL = 10
  NegativeTTLMax = 1
  Protocols <- BothProtocols
  Ages <- Held
  ZeroID = ZeroID
  MaxSwaps = 0
  MaxTime = 0
SYMMETRY Symmetry
INVARIANTS
  TypeOK
  OneCallPerQuestion
  FailsWithItsCall
  CountersAgree
  CachedLifetime
CHECK_DEADLOCK FALSE
