SPECIFICATION FairSpec
CONSTANTS
  k1 = k1
  k2 = k2
  Kids = {k1, k2}
  Tokens <- MCTokens
  Workers = {w1, w2}
  Interval = 2
  MinInterval = 1
  Timeout = 1
  Skew = 1
  MaxTime = 3
  Idle = Idle
INVARIANTS
  TypeOK
  SingleFlight
  NoKeyOutlivesInterval
  AcceptedFromFreshCache
PROPERTIES
  AcceptedWhileValid
  EveryRequestAnswered
