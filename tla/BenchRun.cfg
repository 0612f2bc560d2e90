SPECIFICATION FairSpec
CONSTANTS
  Enqueuers = {e1, e2}
  Capacity = 1
  MaxBurst = 2
  MaxRequests = 2
  MaxAttempts = 2
  MaxFaults = 1
INVARIANTS TypeOK EveryRequestAccounted RunEndIsLast
PROPERTIES RunReturns ImplementsRunLog
CHECK_DEADLOCK FALSE
