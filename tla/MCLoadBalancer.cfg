SPECIFICATION LBFairSpec
CONSTANTS
  Caller = {r1}
  Admin = {a1}
  Session = {s1}
  Name = {p}
  Copy = {g1, g2}
  None = none
  MaxSessions = 1
  FailureThreshold = 2
  RecoveryTimeout = 1
  HalfOpenMaxCalls = 2
  RedisMayFail = TRUE
  Shared = FALSE
INVARIANTS
  LBTypeOK
PROPERTIES
  TrippedPoolsRest
  ClosesAfterTests
  DeadPoolAvoided
  RecoveredPoolReturns
