SPECIFICATION Spec
CONSTANTS
  q1 = q1
  q2 = q2
  q3 = q3
  Nil = Nil
  Failed = Failed
  Panicked = Panicked
  Callers <- TwoQueries
  Keys <- MCKeys
  Messages <- MCMessages
  Requests <- SpelledRequests
  Answers <- OneAnswer
  BlockLists <- NoBlockLists
  ConfiguredCapacity = 1
  Second = 1
  MinTTL = 0
  MaxTTL = 10
  NegativeTTLMax = 1
  Protocols <- OneUDP
  Ages <- Fresh
  ZeroID = ZeroID
  MaxSwaps = 0
  MaxTime = 0
SYMMETRY Symmetry
INVARIANTS
  QuestionEchoed
CHECK_DEADLOCK FALSE
