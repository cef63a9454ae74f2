SPECIFICATION SPFairSpec
CONSTANTS
  Caller = {c1}
  Session = {s1, s2}
  Pod = {p1, p2}
  File = {f}
  Pass = {loop}
  Loop = loop
  None = none
  Same = same
  RedisMayFail = TRUE
INVARIANTS
  SPTypeOK
  DeletedForGood
PROPERTIES
  SnapshotsConverge
