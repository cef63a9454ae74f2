SPECIFICATION Spec
CONSTANTS
  Caller = {c1, c2}
  Janitor = janitor
  Sid = {s1, s2}
  NoSid = noSid
  MaxSessions = 1
  TTL = 1
  StoreMayFail = FALSE
INVARIANT ExecutingIsNotIdle
