SPECIFICATION OSFairSpec
CONSTANTS
  Pool = {q1}
  PoolRef = q1
  Size = {0, 1}
  Session = {s1}
  Pod = {p1, p2}
  NoPod = noPod
  Persist = {s1}
  ApiMayFail = TRUE
  RedisMayFail = TRUE
INVARIANTS
  OPTypeOK
  OnlyRefusedRemains
  OSTypeOK
  StoredPodAgrees
  PlacedKeysExpire
PROPERTIES
  PoolsSettle
  SessionsAnswered
