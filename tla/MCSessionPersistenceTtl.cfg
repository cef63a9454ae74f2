SPECIFICATION SPFairSpec
CONSTANTS
  Caller = {c1}
  Session = {s1}
  Pod = {p1, p2}
  File = {f}
  Pass = {loop}
  Loop = loop
  None = none
  Same = same
  RedisMayFail = FALSE
PROPERTIES
  StateExpires
