CONSTANTS
  k1 = k1
  k2 = k2
  k3 = k3
  Callers = {k1, k2, k3}
  TenantOf <- TwoTenants
  Calls <- Mixed
  Clients = {c1, c2}
  PoolMax = 1
  Retries = 2
  Monitor = TRUE
  MaxFaults = 1
  None = None
SPECIFICATION Spec
SYMMETRY Symmetry
INVARIANTS
  SeesOwnTenant
  AnswerIsTrue
CHECK_DEADLOCK FALSE
