SPECIFICATION PoolFairSpec
CONSTANTS
  Caller = {c1, c2}
  Main = c1
  Janitor = janitor
  Sid = {s1, s2}
  NoSid = noSid
  MaxSessions = 2
  MinSize = 1
  MaxSize = 1
  TTL = 1
  StoreMayFail = TRUE
INVARIANTS
  PoolTypeOK
PROPERTIES
  ImplementsHandout
  LockReleased
  ExpiredReclaimed
  OrphanKeysExpire
