SPECIFICATION Spec
CONSTANTS
  i1 = i1
  i2 = i2
  c1 = c1
  c2 = c2
  t1 = t1
  t2 = t2
  Rows = {i1, i2}
  Platforms = {c1, c2}
  Tenants = {t1, t2}
  PlatformOf <- TwoPlatforms
  TenantOf <- TwoTenants
  Tokened = {i1, i2}
  Refreshable = {i1}
  Configured = {i1}
  Rotating = {i1}
  Busy = {}
  Refreshers = {r1}
  Sweeps = {}
  Healers = {h1}
  Reconnects = {}
  MaxErrors = 2
  Window = 1
  MaxFaults = 1
  Threshold = 1
  NoRow = NoRow
PROPERTIES StatusMatchesErrors ExpiringIsRefreshed UnhealthyIsTried
CHECK_DEADLOCK FALSE
