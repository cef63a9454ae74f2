SPECIFICATION Spec
CONSTANTS
  Caller = {c1, c2}
  Janitor = janitor
  Sid = {s1, s2, s3}
  NoSid = noSid
  MaxSessions = 2
  TTL = 1
  StoreMayFail = FALSE
SYMMETRY Symmetry
INVARIANTS
  TypeOK
  SlotsConserved
  NoAbandonedContainer
  ContainersWithinLimit
  StoreCoversSessions
PROPERTIES
  ImplementsSessionLimit
