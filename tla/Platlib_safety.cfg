SPECIFICATION Spec
CONSTANTS
  Slots = {s1, s2}
  Clients = {c1}
  MaxAttempts = 3
  Delayed = {3}
  Addressed = TRUE
  CanStop = TRUE
  MaxJobs = 1
  MaxFaults = 1
  MaxCrashes = 1
SYMMETRY Symmetry
INVARIANTS TypeOK NothingLost CleanStop
PROPERTIES ImplementsContract
CHECK_DEADLOCK FALSE
