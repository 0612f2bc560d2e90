SPECIFICATION Spec
CONSTANTS
  Slots = {s1}
  Clients = {c1}
  MaxAttempts = 2
  Delayed = {}
  Addressed = TRUE
  CanStop = FALSE
  MaxJobs = 1
  MaxFaults = 0
  MaxCrashes = 0
INVARIANTS FinalFailureRecorded
CHECK_DEADLOCK FALSE
