SPECIFICATION FairSpec
CONSTANTS
  Slots = {s1, s2}
  Clients = {c1}
  MaxAttempts = 3
  Delayed = {3}
  Addressed = FALSE
  CanStop = TRUE
  MaxJobs = 2
  MaxFaults = 0
  MaxCrashes = 0
PROPERTIES EveryJobSettles StopReturns ImplementsContract
CHECK_DEADLOCK FALSE
