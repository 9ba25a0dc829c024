SPECIFICATION Spec
CONSTANTS
  i1 = i1
  i2 = i2
  c1 = c1
  c2 = c2
  t1 = t1
  t2 = t2
  Rows = {i1}
  Platforms = {c1}
  Tenants = {t1}
  PlatformOf <- OnePlatform
  TenantOf <- OneTenant
  Tokened = {i1}
  Refreshable = {i1}
  Configured = {i1}
  Rotating = {i1}
  Busy = {c1}
  Refreshers = {}
  Sweeps = {s1}
  Healers = {h1}
  Reconnects = {u1}
  MaxErrors = 2
  Window = 2
  MaxFaults = 1
  Threshold = 2
  NoRow = NoRow
INVARIANTS TypeOK TrippedByFailures NewestTokenIsHeld
PROPERTIES OnlyRunningRevives
CHECK_DEADLOCK FALSE
