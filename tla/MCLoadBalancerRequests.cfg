SPECIFICATION LBSpec
CONSTANTS
  Caller = {r1, r2}
  Admin = {a1, a2}
  Session = {s1}
  Name = {p}
  Copy = {g1}
  None = none
  MaxSessions = 1
  FailureThreshold = 1
  RecoveryTimeout = 1
  HalfOpenMaxCalls = 1
  RedisMayFail = TRUE
  Shared = TRUE
SYMMETRY Symmetry
INVARIANTS
  OvershootBounded
  DurableRegistration
