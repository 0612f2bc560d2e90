SPECIFICATION Spec
CONSTANTS
  Requests = {r1, r2}
  MaxAttempts = 2
  Tenants = {t1, t2}
  Classes = {"rate_limit"}
  Levels = {1}
  Warmup = 1
  MaxTime = 2
SYMMETRY Symmetry
INVARIANTS SamplesAreTrue TenantsAddUp TotalsAgree
CHECK_DEADLOCK FALSE
