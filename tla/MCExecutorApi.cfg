SPECIFICATION ApiFairSpec
CONSTANTS
  Server = server
  Caller = {server}
  Janitor = janitor
  Sid = {s1, s2}
  NoSid = noSid
  MaxSessions = 2
  TTL = 1
  StoreMayFail = FALSE
  Tenant = {a, b}
  NoTenant = noTenant
  AllowUnsafe = FALSE
INVARIANTS
  ApiTypeOK
  RunsForOwner
PROPERTIES
  ForeignRequestHarmless
  NothingStartsUnapproved
  RefusedOnlyWhenFull
  RequestsEnd
CHECK_DEADLOCK FALSE
