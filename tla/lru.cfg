SPECIFICATION Spec
CONSTANTS
  c1 = c1
  c2 = c2
  k1 = k1
  k2 = k2
  k3 = k3
  Nil = Nil
  Callers <- MCCallers
  Keys <- MCKeys
  Messages <- MCMessages
  Lifetimes <- MCLifetimes
  ConfiguredCapacity = 2
  Second = 2
  MaxTime = 3
  MaxOps = 5
SYMMETRY Symmetry
INVARIANTS
  TypeOK
  ListMapAgree
  MetricsAgree
PROPERTIES
  EvictsOnlyLRU
  HitIsFresh
  ImplementsAnswerCache
CHECK_DEADLOCK FALSE
