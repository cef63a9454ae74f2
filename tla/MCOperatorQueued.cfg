SPECIFICATION OSFairSpec
CONSTANTS
  Pool = {q1}
  PoolRef = q1
  Size = {0, 1}
  Session = {s1}
  Pod = {p1}
  NoPod = noPod
  Persist = {}
  ApiMayFail = FALSE
  RedisMayFail = FALSE
PROPERTIES
  QueuedSessionsPlaced
