SPECIFICATION Spec
CONSTANTS
  t1 = t1
  t2 = t2
  Requests = {r1, r2, r3}
  Tenants = {t1, t2}
  DefaultTenant = t1
  Hosts = {h1}
  Routes = {"chat"}
  Configs <- SomeConfigs
  Limit <- SomeLimits
  FailureLimit = 1
  WindowSec = 2
  MaxTime = 2
  Retries = 1
  None = None
INVARIANTS TypeOK QuotaPerWindow RemainingHolds FailuresThrottled OwnRequestsOnly
SYMMETRY RequestSymmetry
CHECK_DEADLOCK FALSE
